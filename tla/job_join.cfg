SPECIFICATION Spec
CONSTANTS
  w1 = w1 w2 = w2 joiner = joiner null = null
  Workers = {w1, w2}
  Joiner = joiner
  Items = 2
  Cap = 2
  MaxItems = 2
  MaxYields = 0
  MaxSpurious = 0
  Ops = {"join"}
  CanShutdown = FALSE
  None = null
CHECK_DEADLOCK FALSE
INVARIANT JoinWaits
