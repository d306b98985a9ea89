SPECIFICATION Spec
CONSTANTS
  w1 = w1 w2 = w2 c1 = c1 service = service
  sBlock = sBlock sSkip = sSkip sContinue = sContinue
  f1 = f1 null = null
  Workers = {w1, w2}
  Clients = {c1}
  Service = service
  Sources = {sBlock, sSkip}
  Behavior <- BehaviorOf
  BestEffort = {sSkip}
  Flushers = {}
  FlushesAsync = FALSE
  DisableBestEffort = FALSE
  MaxPosts = 3
  MaxFences = 1
  MaxBEFences = 1
  None = null
SYMMETRY Symmetry
CHECK_DEADLOCK FALSE
INVARIANTS TypeOK ItemsCountBlockers ShutdownIsSafe ShutdownDChecks SequenceOwnership IncompleteCountsSources
