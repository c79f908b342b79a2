CONSTANTS
  main = main
  t1 = t1
  t2 = t2
  NULL = NULL
  Threads <- MCThreadSet
  Main = main
  Channels = {c1}
  Returning = {}
  RaiseAnywhere = TRUE
SPECIFICATION Spec
INVARIANTS
  LockExclusive
