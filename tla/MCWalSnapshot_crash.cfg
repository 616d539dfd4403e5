\* Files a crash may have damaged, unchanged while they are read.
CONSTANTS
  PageSize = 3
  SaltSize = 1
  ReserveSize = 1
  MaxPageSize = 8
  Passphrases = {"own", "other", "empty"}
  EmptyPassphrase = "empty"
  Salts = {"s1"}
  Data <- MCData
  NoKeys = NoKeys
  NoPage = NoPage
  WriterKeys <- MCWriterKeys
  MaxPages = 3
  MaxCommits = 2
  MaxFrames = 4
  MaxCrashes = 1
  MaxForgeries = 0
  U32Max = 3
  MaxLate = 0
SPECIFICATION FairSpec
INVARIANTS
  TypeOK
  DeliversLastCommit
  SuccessIsComplete
  BoundAdmitsCommittedImages
PROPERTIES
  RefinesCommittedSnapshot
CHECK_DEADLOCK FALSE
