CONSTANTS
  BUFF_MAX = 3
  ITER = 7
  Items = {a, b}
  Unwritten = unwritten
SPECIFICATION Spec
INVARIANTS
  FifoDelivery
CHECK_DEADLOCK FALSE
