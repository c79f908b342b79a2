CONSTANTS
  main = main
  t1 = t1
  t2 = t2
  NULL = NULL
  Threads <- MCThreadSet
  Main = main
  Channels = {c1}
  Returning <- MCReturning
  RaiseAnywhere = FALSE
SPECIFICATION FairSpec
INVARIANTS
  TypeOK
  OwnContext
  ScanExact
  LockExclusive
PROPERTIES
  SchedulerPromise
  EveryThreadRuns
  LockReleased
