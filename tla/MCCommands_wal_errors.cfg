\* One export of a WAL snapshot, undisturbed, whose files may fail.
CONSTANTS
  Commands = {wal_export}
  Verifying = {}
  Wal = {wal_export}
  Pages = 2
  SourceJournal = "wal"
  Foreign = foreign
  NoFile = no_file
  MaxInterference = 0
  MaxKills = 0
  MaxLosses = 0
SPECIFICATION Spec
INVARIANTS
  IoErrorsFail
CHECK_DEADLOCK FALSE
