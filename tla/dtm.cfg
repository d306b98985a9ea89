SPECIFICATION FairSpec
CONSTANTS
  t1 = t1 t2 = t2 t3 = t3 starter = starter service = service
  Tasks = {t1, t2, t3}
  RunTime <- RunTimes
  SequenceNum <- SequenceNums
  Starter = starter
  Service = service
  MaxTime = 3
CHECK_DEADLOCK FALSE
INVARIANTS OneWakeUpPerTask RipestIsCovered
PROPERTY Forwards
