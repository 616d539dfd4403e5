\* An alias between two databases, and a directory that changes during the call.
CONSTANTS
  target = target
  other = other
  Supplied = supplied
  Paths = {supplied, target, other}
  NonUtf8 = {}
  Suffixes = {"", "-wal", "-journal"}
  MayHold <- MovingAlias
  NoEntry = no_entry
  RegularFile = regular_file
  Directory = directory
  Calls = {"open_readonly", "open_readonly_with_wal", "reader", "wal_snapshot", "inspect"}
  MaxChanges = 2
SPECIFICATION Spec
INVARIANTS
  StandingCompanionsRefuse
  WalIsRequiredAndUnambiguous
  InspectSeesStandingCompanions
CHECK_DEADLOCK FALSE
