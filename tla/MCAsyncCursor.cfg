SPECIFICATION FairSpec
CONSTANTS
  q1 = q1
  s1 = s1
  NULL = NULL
  QueryIds <- OneQuery
  Statements <- OneStatement
  MaxWorkers = 2
  MaxExecs = 2
  MaxTasks = 3
INVARIANTS
  FutureShowsFinalState
  OrphansAreReported
PROPERTIES
  CloseEnds
  CancelServed
  CancelTakesEffect
CHECK_DEADLOCK FALSE
