SPECIFICATION Spec
CONSTANTS
  c1 = c1
  c2 = c2
  q1 = q1
  q2 = q2
  s1 = s1
  s2 = s2
  NULL = NULL
  QueryIds <- TwoQueries
  Cursors <- TwoCursors
  AioCursors <- OtherCursor
  KillOnInterrupt <- OneCursor
  Statements <- OneStatement
  Attempts = 1
  Counts <- OneCount
  MaxExecs = 1
  MaxBatch = 0
  MaxInterrupts = 1
SYMMETRY QuerySymmetry
INVARIANTS
  IInv
  AtMostOneQueryPerExecute
  LiveQueryIsNamed
  StopsOwnQueriesOnly
CHECK_DEADLOCK FALSE
