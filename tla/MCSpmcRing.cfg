CONSTANTS
  N = 3
  BUFF_MAX = 3
  ROUNDS = 9
SPECIFICATION SpmcFairSpec
INVARIANTS
  CountsUnlessRaced
PROPERTIES
  CompletesUnlessRaced
CHECK_DEADLOCK FALSE
