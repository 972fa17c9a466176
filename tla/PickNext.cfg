SPECIFICATION Spec
CONSTANTS
  Task = {t1, t2, t3}
  NoTask = none
  DEF_COUNTER = 2
  PRIORITY = 1
INVARIANT LoopComputesPick
PROPERTY LoopReturns
CHECK_DEADLOCK FALSE
