SPECIFICATION AsyncSpec
CONSTANTS
  c1 = c1
  c2 = c2
  a1 = a1
  s1 = s1
  k1 = k1
  k2 = k2
  NULL = NULL
  Cursors <- AllCursors
  Crowds <- OneAndPair
  Async = a1
  KillOnInterrupt <- Killing
  SessionIds <- OneSession
  CalcIds <- TwoCalcs
  MaxExecs <- TwiceAndNever
  MaxInterrupts = 1
  MaxWorkers = 2
  MaxCalls = 1
  MaxTasks = 2
INVARIANTS
  ReturnedMeansCompleted
  SessionsAreOwned
  FuturesTell
PROPERTIES
  CallsEnd
CHECK_DEADLOCK FALSE
