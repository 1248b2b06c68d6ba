SPECIFICATION Spec
CONSTANTS
  NULL = NULL
  Clients = {c1, c2}
  Bucket <- TheBucket
  Files <- TwoFiles
  Protected <- OneFile
  Asked <- OneOfEach
  Listed <- RootAndDirectory
  ChunkSize = 2
  MaxWrites = 3
  MaxCalls = 3
SYMMETRY EveryClient
INVARIANTS
  IInv
  EntriesAreCurrent
PROPERTIES
  LookupsAreTrue
CHECK_DEADLOCK FALSE
