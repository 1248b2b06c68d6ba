SPECIFICATION AsyncSpec
CONSTANTS
  c1 = c1
  c2 = c2
  a1 = a1
  s1 = s1
  k1 = k1
  k2 = k2
  NULL = NULL
  Cursors <- OnlyAsync
  Async = a1
  Crowds <- Alone
  KillOnInterrupt <- OnlyAsync
  SessionIds <- OneSession
  CalcIds <- TwoCalcs
  MaxExecs <- Never
  MaxInterrupts = 0
  MaxWorkers = 1
  MaxCalls = 1
  MaxTasks = 1
PROPERTIES
  SessionWaitEnds
CHECK_DEADLOCK FALSE
