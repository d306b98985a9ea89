SPECIFICATION FairSpec
CONSTANTS
  b1 = b1 f1 = f1 f2 = f2
  Workers = {b1, f1, f2}
  GroupOf <- OneAndTwo
  Posters = {c1}
  Owners = {c2}
  SequenceIds = {s}
  JobIds = {j}
  PreferBackground = {s, j}
  InitialPriority <- OneInEachGroup
  Cap = 2
  MaxPosts = 2
  MaxUpdates = 3
  CanShutdown = TRUE
  None = null
CHECK_DEADLOCK FALSE
INVARIANTS QueuedWhereItBelongs OwnedExactly
PROPERTY PendingWorkRuns
