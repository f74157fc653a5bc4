SPECIFICATION PerfFairSpec
CONSTANTS
  CORES = 2
  CAP = 24
  MAX_RECORDS = 4
  Programs <- MCPrograms
INVARIANTS EverySampleOnce AtMostOneBeyond
PROPERTIES Completes
CHECK_DEADLOCK FALSE
