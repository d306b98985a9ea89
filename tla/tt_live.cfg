SPECIFICATION FairSpec
CONSTANTS
  w1 = w1 w2 = w2 c1 = c1 service = service
  sBlock = sBlock sSkip = sSkip sContinue = sContinue
  f1 = f1 null = null
  Workers = {w1}
  Clients = {c1}
  Service = service
  Sources = {sBlock, sSkip}
  Behavior <- BehaviorOf
  BestEffort = {sBlock}
  Flushers = {f1}
  FlushesAsync = TRUE
  DisableBestEffort = TRUE
  MaxPosts = 2
  MaxFences = 1
  MaxBEFences = 0
  None = null
CHECK_DEADLOCK FALSE
PROPERTIES ShutdownReturns FlushesEnd
