CONSTANTS
  NULL = NULL
  MaxRows = 3
  LARGE_FILE_THRESHOLD = 3
  ESTIMATED_PER_ROW = 1
  AUTO_THRESHOLD_LARGE = 4
  AUTO_THRESHOLD_MEDIUM = 3
  AUTO_SIZE_LARGE = 3
  AUTO_SIZE_MEDIUM = 2
  Classes <- MCClasses
  Results <- MCResults
  Options <- MCOptions
  KwChunksizes <- MCKwChunksizes
  Sizes = {1, 4}
  MaxExecs = 2
  MaxCalls = 4
  MaxAbandoned = 1
  MARKER = MARKER
  Numbers = {"1", "2"}
  FloatText <- Floats
  Decimals <- MixedDecimals
  Names <- MixedNames
  Tables <- SmallTables
  Types <- NestedTypes
  Parameters <- TwoStrings
SPECIFICATION ClientSpec
INVARIANTS
  NoRowTwice
  EndMeansAllGiven
  ResultIsOfLastExecution
  StreamsAreClosed
  TableIsReadBack
  TypeIsReadBack
  ValueIsKept
  LiteralsAreTheValues
CHECK_DEADLOCK FALSE
