SPECIFICATION FairSpec
CONSTANTS
  c1 = c1
  c2 = c2
  q1 = q1
  q2 = q2
  s1 = s1
  s2 = s2
  NULL = NULL
  QueryIds <- TwoQueries
  Cursors <- OneCursor
  AioCursors <- OneCursor
  KillOnInterrupt <- OneCursor
  Statements <- TwoStatements
  Attempts = 2
  Counts <- TwoCounts
  MaxExecs = 2
  MaxBatch = 2
  MaxInterrupts = 2
INVARIANTS
  ResultSetIsCurrent
  NoResultSetLeaked
PROPERTIES
  BatchReportsSum
  StopEndsExecute
  InterruptEndsExecute
CHECK_DEADLOCK FALSE
