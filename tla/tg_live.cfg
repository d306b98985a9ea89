SPECIFICATION FairSpec
CONSTANTS
  w1 = w1 w2 = w2 w3 = w3 w4 = w4
  poster = poster main = main service = service null = null
  Pool = {w1, w2, w3}
  Poster = poster
  Main = main
  Service = service
  InitialMax = 1
  InitialMaxBE = 1
  KMaxNumberOfWorkers = 3
  MaxPosts <- Posts21
  MaxBlocking = 2
  Policies <- OnePolicy
  MaxCleanups = 0
  None = null
CHECK_DEADLOCK FALSE
INVARIANT YieldsToForeground
PROPERTIES StartsWithinLimits QueueDrains
