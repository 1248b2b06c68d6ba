SPECIFICATION Spec
CONSTANTS
  NULL = NULL
  MinPart = 2
  MaxPart = 5
  BlockSize = 4
  MaxWorkers = 2
  AioExecutor = FALSE
  Modes <- AppendMode
  OldSizes <- BlockObjects
  WriteSizes <- OneByte
  MaxWritten = 1
INVARIANTS
  ObjectIsOldOrComplete
CHECK_DEADLOCK FALSE
