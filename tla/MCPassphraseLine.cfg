\* Every file of up to six bytes, in chunks of up to two.
CONSTANTS
  Bytes = {"x", "cr", "lf"}
  LF = "lf"
  CR = "cr"
  NUL = "x"
  ChunkSize = 2
  MaxLength = 6
  MaxInterrupts = 1
SPECIFICATION FairSpec
INVARIANTS
  ReadsFirstLine
  StopsAtLineFeed
PROPERTIES
  ReadingEnds
CHECK_DEADLOCK FALSE
