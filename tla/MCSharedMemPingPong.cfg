CONSTANTS
  ITER = 4
  LAST = 2
  RUNS = 2
SPECIFICATION FairSpec
INVARIANTS
  OneTurn
  InStep
PROPERTIES
  RunsEnd
CHECK_DEADLOCK FALSE
