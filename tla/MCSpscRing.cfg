CONSTANTS
  BUFF_MAX = 3
  ITER = 5
  Items = {a, b}
  Unwritten = unwritten
SPECIFICATION FairSpec
INVARIANTS
  TypeOK
  SlotRaceFree
  FifoDelivery
  UnreadItemsKept
  NothingLeftBehind
PROPERTIES
  Completes
  ImplementsFifo
CHECK_DEADLOCK FALSE
