SPECIFICATION FairSpec
CONSTANTS
  f1 = f1
  f2 = f2
  NULL = NULL
  Fetchers <- MCFetchers
  Crowds <- MCCrowds
  MaxRows = 5
  PageSize = 2
  MaxCalls <- MCMaxCalls
  RowsUpTo <- MCRowsUpTo
INVARIANTS
  EndMeansAllGiven
  ClosedIsEmpty
PROPERTIES
  ImplementsRowStream
  CallEnds
CHECK_DEADLOCK FALSE
