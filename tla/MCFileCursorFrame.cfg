CONSTANTS
  NULL = NULL
  MaxRows = 3
  LARGE_FILE_THRESHOLD = 3
  ESTIMATED_PER_ROW = 1
  AUTO_THRESHOLD_LARGE = 4
  AUTO_THRESHOLD_MEDIUM = 3
  AUTO_SIZE_LARGE = 3
  AUTO_SIZE_MEDIUM = 2
  Classes <- MCClasses
  Results <- MCResults
  Options <- MCOptions
  KwChunksizes <- MCKwChunksizes
  Sizes = {1, 4}
  MaxExecs = 2
  MaxCalls = 4
  MaxAbandoned = 1
SPECIFICATION Spec
INVARIANT FrameIsWholeResult
CHECK_DEADLOCK FALSE
