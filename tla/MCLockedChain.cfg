CONSTANTS
  N = 3
  MAX = 2
  Counts = {2, 5}
  CALLS = 6
  Items = {a, b}
  Unwritten = unwritten
SPECIFICATION FairSpec
INVARIANTS
  NothingLost
PROPERTIES
  Completes
  ImplementsFifo
CHECK_DEADLOCK FALSE
