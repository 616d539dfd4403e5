\* Two exports and a verify, with one of each thing that may go wrong.
CONSTANTS
  Commands = {main_export, wal_export, verify}
  Verifying = {verify}
  Wal = {wal_export}
  Pages = 2
  SourceJournal = "wal"
  Foreign = foreign
  NoFile = no_file
  MaxInterference = 1
  MaxKills = 1
  MaxLosses = 1
SPECIFICATION Spec
INVARIANTS
  TypeOK
  SuccessMeansComplete
  SuccessIsInPlace
  NoSilentLeftovers
PROPERTIES
  ExistingFilesUntouched
CHECK_DEADLOCK FALSE
