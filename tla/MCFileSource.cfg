\* Two threads that read one file of every size, at offsets and for lengths up to the limits.
CONSTANTS
  Callers = {c1, c2}
  MaxSize = 3
  MaxOffset = 5
  MaxLength = 3
  UsizeMax = 4
SPECIFICATION Spec
PROPERTIES
  RefinesReadExact
  EveryReadReturns
