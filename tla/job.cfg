SPECIFICATION FairSpec
CONSTANTS
  w1 = w1 w2 = w2 joiner = joiner null = null
  Workers = {w1, w2}
  Joiner = joiner
  Items = 2
  Cap = 2
  MaxItems = 3
  MaxYields = 1
  MaxSpurious = 1
  Ops = {"join", "cancel", "cancel_detach", "detach"}
  CanShutdown = TRUE
  None = null
CHECK_DEADLOCK FALSE
INVARIANTS CountIsExact RunningWithinCap RegistrationsBalanced CancelWaits
PROPERTIES JoinReturns WorkCompletes
