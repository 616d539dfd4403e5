\* Every command line and configuration with values on both sides of every limit.
CONSTANTS
  MaxKdfIterations = 300000
  Absent = Absent
  PageSizes <- MCPageSizes
  Iterations <- MCIterations
SPECIFICATION Spec
CHECK_DEADLOCK FALSE
INVARIANTS
  TypeOK
  NoOptionIsIgnored
  SupportedValuesAreConfigured
  LayoutIsSound
