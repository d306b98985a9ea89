SPECIFICATION FairSpec
CONSTANTS
  a = a b = b c = c w1 = w1 w2 = w2
  Runners = {a, b, c}
  WorkerOf <- SharedAndDedicated
  Shared = {w1}
  BestEffort = {b}
  Clients = {c1, c2}
  Main = main
  NoWorker = none
  has_disable_best_effort_switch_ = FALSE
  FencesBeforeStart = FALSE
  MaxTasks = 2
  MaxFences = 1
CHECK_DEADLOCK FALSE
INVARIANTS AwakeIsExact NoForgottenWork CleanupIsExact
PROPERTY PostedTasksRun
