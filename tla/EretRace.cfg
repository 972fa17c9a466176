SPECIFICATION Spec
CONSTANTS
  NR_PAGES = 4
  NR_TASKS = 2
  BootPages = {1}
  DEF_COUNTER = 4
  PRIORITY = 1
  HARDIRQ_OFFSET = 256
  Threads <- UserThreads
INVARIANT EretToOwnContext
