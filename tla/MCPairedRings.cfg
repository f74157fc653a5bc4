CONSTANTS
  BUFF_MAX = 2
  LINEAR = 5
  ITER = 4
  PAIRS = 2
  Items = {a, b}
  Unwritten = unwritten
  Programs = {"PC2", "MicroPC2", "DryRun", "ParaPCB", "ParaPCBBUFF",
              "NewSemaphore", "New"}
SPECIFICATION FairSpec
INVARIANTS
  IndicesCount
  PairFifo
PROPERTIES
  Completes
CHECK_DEADLOCK FALSE
