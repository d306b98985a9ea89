SPECIFICATION Spec
CONSTANTS
  w1 = w1 w2 = w2 w3 = w3 w4 = w4
  poster = poster main = main service = service null = null
  Pool = {w1, w2, w3, w4}
  Poster = poster
  Main = main
  Service = service
  InitialMax = 3
  InitialMaxBE = 1
  KMaxNumberOfWorkers = 3
  MaxPosts <- Posts12
  MaxBlocking = 2
  Policies <- NoneThenAll
  MaxCleanups = 1
  None = null
CHECK_DEADLOCK FALSE
INVARIANTS BookkeepingAgrees WakeUpNotLost
