SPECIFICATION Spec
CONSTANTS
  NULL = NULL
  MaxRows = 4
  PageSize = 2
INVARIANTS
  AllRowsFetched
CHECK_DEADLOCK FALSE
