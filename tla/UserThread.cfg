SPECIFICATION Spec
CONSTANTS
  NR_PAGES = 7
  NR_TASKS = 4
  BootPages = {1, 5}
  DEF_COUNTER = 4
  PRIORITY = 1
  HARDIRQ_OFFSET = 256
  Threads <- FullTaskTable
INVARIANT InductiveInv
INVARIANT NoNestedPreemption
INVARIANT PreemptCountIsScheduleDepth
INVARIANT ParkedTasks
INVARIANT InterruptMask
INVARIANT RunQueueLinked
INVARIANT SlotsMatchPids
INVARIANT TaskPagesInUse
INVARIANT PagesExclusive
INVARIANT PagesAccounted
