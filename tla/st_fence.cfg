SPECIFICATION FairSpec
CONSTANTS
  a = a b = b c = c w1 = w1 w2 = w2
  Runners = {b, c}
  WorkerOf <- OneOfEach
  Shared = {w1}
  BestEffort = {b}
  Clients = {c1}
  Main = main
  NoWorker = none
  has_disable_best_effort_switch_ = FALSE
  FencesBeforeStart = TRUE
  MaxTasks = 2
  MaxFences = 1
CHECK_DEADLOCK FALSE
PROPERTY PostedTasksRun
