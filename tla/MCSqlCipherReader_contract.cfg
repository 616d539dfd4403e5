\* The source keeps the contract of ReadAt.
CONSTANTS
  PageSize = 3
  SaltSize = 1
  ReserveSize = 1
  MaxPageSize = 3
  Passphrases = {"own", "other", "empty"}
  EmptyPassphrase = "empty"
  Salts = {"s1"}
  Data = {"d1"}
  NoKeys = NoKeys
  NoPage = NoPage
  Stored <- MCContractPages
  U32Max = 3
  U64Max = 10
  MaxSlots = 4
  MaxLength = 8
  MaxRewrites = 0
SPECIFICATION FairSpec
INVARIANTS
  TypeOK
PROPERTIES
  RefinesAuthenticatedRead
