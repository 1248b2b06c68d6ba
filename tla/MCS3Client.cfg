SPECIFICATION ClientSpec
CONSTANTS
  NULL = NULL
  MinPart = 2
  MaxPart = 4
  BlockSize = 4
  MaxWorkers = 2
  AioExecutor = TRUE
  Modes <- BothModes
  OldSizes <- LargeObjects
  WriteSizes <- UpToBlock
  MaxWritten = 10
  Operations <- AllOperations
  SourceSizes <- CopiedSizes
  MaxVersions = 2
INVARIANTS
  ObjectIsOldOrComplete
  WrittenIsStored
  NoUploadLeftBehind
  TargetIsOldOrCopy
  ReadIsRange
PROPERTIES
  CallsEnd
CHECK_DEADLOCK FALSE
