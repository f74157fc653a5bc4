CONSTANTS
  BUFF_MAX = 3
  ITER = 7
  Items = {a, b}
  Unwritten = unwritten
SPECIFICATION FairSpec
INVARIANTS
  FifoUnlessRaced
PROPERTIES
  CompletesUnlessRaced
CHECK_DEADLOCK FALSE
