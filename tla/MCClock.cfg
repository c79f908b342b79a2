CONSTANTS
  WORD = 8
  TICKS_PER_TOCK = 3
  LATENCY = 2
  HORIZON = 20
  NULL = NULL
SPECIFICATION Spec
INVARIANTS
  OnTime
  ReadingClose
