\* Every directory of two paths, unchanging: what is accepted.
CONSTANTS
  target = target
  other = other
  Supplied = supplied
  Paths = {supplied, target}
  NonUtf8 = {target}
  Suffixes = {"", "-wal", "-journal"}
  MayHold <- AnyEntry
  NoEntry = no_entry
  RegularFile = regular_file
  Directory = directory
  Calls = {"open_readonly", "open_readonly_with_wal", "reader", "wal_snapshot", "inspect"}
  MaxChanges = 0
SPECIFICATION Spec
INVARIANTS
  TypeOK
  AcceptsTheDocumented
CHECK_DEADLOCK FALSE
