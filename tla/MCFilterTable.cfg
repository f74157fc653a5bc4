CONSTANTS
  MAX_FILTERS = 3
  PAIRS = 2
  UNIQUE = 3
  THREAD_MAX = 4
  M = 10
  MAX_LINES = 5
  MAX_ROUNDS = 2
  TEXT = 77
  Workloads <- MCWorkloads
SPECIFICATION Spec
INVARIANTS
  FiltersOfRound
  PairsReported
  CountsSinceStart
CHECK_DEADLOCK FALSE
