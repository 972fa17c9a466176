SPECIFICATION FairSpec
CONSTANTS
  NR_IRQS = 5
  GIC_IRQS = 4
  HW_IRQ_START = 2
  MAX_IRQ = 8
  TIMER_IRQ = 3
INVARIANT GicInv
INVARIANT NothingLeftActive
INVARIANT AcknowledgedIsHandled
PROPERTY TicksForever
