SPECIFICATION FairSpec
CONSTANTS
  NR_PAGES = 4
  NR_TASKS = 3
  BootPages = {1}
  DEF_COUNTER = 6
  PRIORITY = 2
  HARDIRQ_OFFSET = 256
  Threads <- ShippedThreads
INVARIANT PickAlwaysEnds
INVARIANT NrRunningCountsQueue
INVARIANT LostOnlyByEmptyQueue
PROPERTY SwitchGivesTime
PROPERTY InitNeverReturns
PROPERTY EveryTaskRuns
