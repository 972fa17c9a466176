SPECIFICATION Spec
CONSTANTS
  Task = {t1, t2, t3, t4}
  Root = root
  Nil = nil
INVARIANT WalksEnd
INVARIANT QueuedTasksOnRing
INVARIANT PrevLeadsBack
PROPERTY EnqueueIsAtomic
CHECK_DEADLOCK FALSE
