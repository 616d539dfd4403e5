\* The source breaks the contract of ReadAt up to two times per reader.
CONSTANTS
  PageSize = 3
  SaltSize = 1
  ReserveSize = 1
  MaxPageSize = 3
  Passphrases = {"own", "other", "empty"}
  EmptyPassphrase = "empty"
  Salts = {"s1", "s2"}
  Data = {"d1", "d2"}
  NoKeys = NoKeys
  NoPage = NoPage
  Stored <- MCMutatingPages
  U32Max = 2
  U64Max = 7
  MaxSlots = 2
  MaxLength = 6
  MaxRewrites = 2
SPECIFICATION FairSpec
INVARIANTS
  FailedCallsAreCleared
  ScratchIsCleared
  OnlyAuthenticatedPages
PROPERTIES
  EveryCallReturns
