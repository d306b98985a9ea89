SPECIFICATION FairSpec
CONSTANTS
  a = a b = b c = c q1 = q1
  Queues = {q1}
  Tasks = {a, b, c}
  Posters = {p1}
  FromMain = {b, c}
  FromOthers = {a, c}
  QueueOf <- OneQueue
  NonNestable = {b}
  Delay <- LastDelayed
  WorkBatchSize = 1
  OutermostUntilIdle = {FALSE}
  MaxDepth = 2
  MaxOps = 2
  MaxTime = 2
CHECK_DEADLOCK FALSE
INVARIANTS QueuesConsistent NoLostWork StartsInPostingOrder
PROPERTIES PostedTasksStart RunLoopsReturn
