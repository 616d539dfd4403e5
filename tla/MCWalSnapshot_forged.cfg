\* Files forged before or while they are read.
CONSTANTS
  PageSize = 3
  SaltSize = 1
  ReserveSize = 1
  MaxPageSize = 8
  Passphrases = {"own", "other", "empty"}
  EmptyPassphrase = "empty"
  Salts = {"s1"}
  Data <- MCData
  NoKeys = NoKeys
  NoPage = NoPage
  WriterKeys <- MCWriterKeys
  MaxPages = 2
  MaxCommits = 2
  MaxFrames = 3
  MaxCrashes = 1
  MaxForgeries = 1
  U32Max = 9
  MaxLate = 1
SPECIFICATION FairSpec
INVARIANTS
  OnlyAuthenticatedPagesDelivered
  SuccessAuthenticatesSelection
PROPERTIES
  NothingAfterFailure
  InputIsReleased
CHECK_DEADLOCK FALSE
