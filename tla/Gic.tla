-------------------------------- MODULE Gic --------------------------------
(***************************************************************************)
(* The path of an interrupt from the controller to the tick: the GICv2      *)
(* driver (drivers/irqchip/gicv2.c), the descriptors of kernel/irq.c and    *)
(* the generic timer (arch/arm64/mach-rpi/timer.c), from the state firmware *)
(* leaves behind through start_kernel's initialisation to the running       *)
(* system.  What a task does between two interrupts is Kernel's subject;    *)
(* here the CPU is either inside irq_handler(), interrupts masked, or       *)
(* outside, interrupts enabled.                                             *)
(*                                                                          *)
(* The controller and the timer are external.  The lines of devices are     *)
(* level sensitive, an SGI stays pending until it is acknowledged.  The     *)
(* lines that can be enabled have one priority (gic_cpu_init): while the    *)
(* CPU interface has an acknowledged line without EOI, it signals nothing.  *)
(* Clearing the active bits in the distributor does not change that.        *)
(***************************************************************************)
EXTENDS Integers, FiniteSets

CONSTANTS NR_IRQS,           \* length of irq_desc
          GIC_IRQS,          \* lines the controller reports
          HW_IRQ_START,      \* the software generated interrupts lie below
          MAX_IRQ,           \* numbers from here on are spurious (1021)
          TIMER_IRQ          \* GENERIC_TIMER_IRQ

\* On the boards the kernel supports every line has a descriptor.
ASSUME GicAssumption ==
  /\ NR_IRQS \in Nat /\ GIC_IRQS \in 1 .. NR_IRQS
  /\ HW_IRQ_START \in Nat /\ TIMER_IRQ \in HW_IRQ_START .. GIC_IRQS - 1
  /\ MAX_IRQ \in Nat /\ GIC_IRQS <= MAX_IRQ

Line == 0 .. GIC_IRQS - 1
SGI == 0 .. HW_IRQ_START - 1
DeviceLine == Line \ (SGI \cup {TIMER_IRQ})
Spurious == MAX_IRQ + 2      \* what INTACK reads when nothing is signalled
NoIrq == -1

VARIABLES
  pc,                        \* boot stage, then the stage of irq_handler
  forwarding,                \* GIC_DIST_CTRL and GIC_CPU_CTRL are on
  enabled, active,           \* GIC_DIST_ENABLE_SET, GIC_DIST_ACTIVE
  sgi,                       \* SGIs pending in the distributor
  running,                   \* lines the CPU interface acknowledged, no EOI yet
  level,                     \* lines other devices assert
  timer_on, expired, routed, \* cntp_ctl_el0; the compare value is reached;
                             \* TIMER_CNTRL0 lets the line out
  chip, handler,             \* irqs whose irq_desc has a chip, a handler
  arch_irq_handler,          \* set_handle_irq has been called
  irqnr,                     \* local of gic_handle_irq
  left                       \* history: what firmware left pending as SGI, or
                             \* acknowledged and not completed

gicVars == <<forwarding, enabled, active, sgi, running>>
timerVars == <<timer_on, expired, routed>>
descVars == <<chip, handler, arch_irq_handler>>
vars == <<pc, gicVars, level, timerVars, descVars, irqnr, left>>

\* Firmware may leave any line enabled, active or acknowledged, any SGI
\* pending, any device asserting its line and the timer in any state.
Init ==
  /\ pc = "arch_irq_init"
  /\ forwarding \in BOOLEAN
  /\ enabled \in SUBSET Line
  /\ active \in SUBSET Line
  /\ sgi \in SUBSET SGI
  /\ running \in SUBSET Line
  /\ level \in SUBSET DeviceLine
  /\ timer_on \in BOOLEAN /\ expired \in BOOLEAN /\ routed \in BOOLEAN
  /\ chip = {} /\ handler = {}
  /\ arch_irq_handler = FALSE
  /\ irqnr = NoIrq
  /\ left = sgi \cup running

----------------------------------------------------------------------------
(* start_kernel, interrupts masked (SPSR_MASK_ALL).                         *)

\* (mutant: what firmware enabled and acknowledged is left alone)
gic_dist_init_trusting == UNCHANGED active /\ enabled' = enabled \cup SGI

\* Deactivate and disable every line, then enable the SGIs.  Nothing clears
\* a pending SGI, nothing completes what firmware acknowledged.
gic_dist_init == active' = {} /\ enabled' = SGI

\* gicv2_irq_map gives a chip to everything but the SGIs.
gicv2_irq_map(irq) == irq >= HW_IRQ_START

\* irq_domain_map_irq of every line the domain has.
irq_domain_add == chip' = {i \in Line : gicv2_irq_map(i)}

\* GIC_CPU_CTRL, and the end of gic_dist_init: GIC_DIST_CTRL
gic_cpu_init == forwarding' = TRUE

set_handle_irq == arch_irq_handler' = TRUE

GicInit ==
  /\ pc = "arch_irq_init"
  /\ irq_domain_add
  /\ gic_dist_init
  /\ gic_cpu_init
  /\ set_handle_irq
  /\ pc' = "generic_timer_init"
  /\ UNCHANGED <<sgi, running, level, timerVars, handler, irqnr, left>>

\* irq_enable: the chip has no irq_enable of its own, the line is unmasked.
gicv2_unmask_irq(irq) == enabled' = enabled \cup {irq}
gicv2_eoi_irq(irq) == active' = active \ {irq} /\ running' = running \ {irq}

\* A new period starts, the timer lowers its line.
generic_timer_reset == expired' = FALSE

\* The tick itself is Kernel's Tick.
handle_timer_irq == generic_timer_reset

\* (mutant: the line is not unmasked)
request_irq_masked(irq) == handler' = handler \cup {irq} /\ UNCHANGED enabled

request_irq(irq) == handler' = handler \cup {irq} /\ gicv2_unmask_irq(irq)

\* timer_init, statement by statement: the timer runs, with whatever compare
\* value there is, before a period is set, and may expire from then on.
TimerOn ==
  /\ pc = "generic_timer_init"
  /\ timer_on' = TRUE
  /\ pc' = "generic_timer_reset"
  /\ UNCHANGED <<gicVars, level, expired, routed, descVars, irqnr, left>>

TimerReset ==
  /\ pc = "generic_timer_reset"
  /\ generic_timer_reset
  /\ pc' = "request_irq"
  /\ UNCHANGED <<gicVars, level, timer_on, routed, descVars, irqnr, left>>

TimerRequest ==
  /\ pc = "request_irq"
  /\ request_irq(TIMER_IRQ)
  /\ pc' = "enable_timer_interrupt"
  /\ UNCHANGED <<forwarding, active, sgi, running, level, timerVars, chip,
                 arch_irq_handler, irqnr, left>>

TimerRoute ==
  /\ pc = "enable_timer_interrupt"
  /\ routed' = TRUE
  /\ pc' = "raw_local_irq_enable"
  /\ UNCHANGED <<gicVars, level, timer_on, expired, descVars, irqnr, left>>

IrqEnable ==
  /\ pc = "raw_local_irq_enable"
  /\ pc' = "run"
  /\ UNCHANGED <<gicVars, level, timerVars, descVars, irqnr, left>>

Boot == \/ GicInit
        \/ TimerOn \/ TimerReset \/ TimerRequest \/ TimerRoute
        \/ IrqEnable

----------------------------------------------------------------------------
(* The controller and the devices.                                          *)

Pending ==
  sgi \cup level \cup
    IF timer_on /\ expired /\ routed THEN {TIMER_IRQ} ELSE {}

\* The lines the CPU interface would signal.
Signalled ==
  IF forwarding /\ running = {} THEN Pending \cap enabled ELSE {}

\* What reading INTACK returns: the lowest signalled line.
Lowest(S) == CHOOSE i \in S : \A j \in S : i <= j
acknowledged == IF Signalled = {} THEN Spurious ELSE Lowest(Signalled)

\* The counter reaches the compare value.
TimerExpires ==
  /\ ~expired
  /\ expired' = TRUE
  /\ UNCHANGED <<pc, gicVars, level, timer_on, routed, descVars, irqnr, left>>

\* Any other device raises or lowers its line.
Device ==
  /\ \E i \in DeviceLine :
       level' = IF i \in level THEN level \ {i} ELSE level \cup {i}
  /\ UNCHANGED <<pc, gicVars, timerVars, descVars, irqnr, left>>

----------------------------------------------------------------------------
(* irq_handler(), interrupts masked.                                        *)

TakeIrq ==
  /\ pc = "run"
  /\ Signalled # {}
  /\ pc' = "gic_handle_irq"
  /\ UNCHANGED <<gicVars, level, timerVars, descVars, irqnr, left>>

\* irqnr = readl(GIC_CPU_INTACK), and the range test: an SGI is dropped, it
\* gets neither a handler nor an EOI.
Ack ==
  /\ pc = "gic_handle_irq"
  /\ irqnr' = acknowledged
  /\ active' = active \cup ({acknowledged} \cap Line)
  /\ running' = running \cup ({acknowledged} \cap Line)
  /\ sgi' = sgi \ {acknowledged}
  /\ pc' = IF irqnr' >= HW_IRQ_START /\ irqnr' < MAX_IRQ
             THEN "generic_handle_irq" ELSE "irq_exit"
  /\ UNCHANGED <<forwarding, enabled, level, timerVars, descVars, left>>

\* A line without a handler is given up without an EOI.
HandleIrq ==
  /\ pc = "generic_handle_irq"
  /\ IF irqnr \in handler
       THEN handle_timer_irq /\ pc' = "irq_eoi"
       ELSE UNCHANGED expired /\ pc' = "irq_exit"
  /\ UNCHANGED <<gicVars, level, timer_on, routed, descVars, irqnr, left>>

\* (mutant: no EOI)
Eoi_missing ==
  /\ pc = "irq_eoi"
  /\ pc' = "irq_exit"
  /\ UNCHANGED <<gicVars, level, timerVars, descVars, irqnr, left>>

\* desc->chip->irq_eoi(desc)
Eoi ==
  /\ pc = "irq_eoi"
  /\ IF irqnr \in chip THEN gicv2_eoi_irq(irqnr) ELSE UNCHANGED <<active, running>>
  /\ pc' = "irq_exit"
  /\ UNCHANGED <<forwarding, enabled, sgi, level, timerVars, descVars, irqnr, left>>

IrqExit ==
  /\ pc = "irq_exit"
  /\ irqnr' = NoIrq
  /\ pc' = "run"
  /\ UNCHANGED <<gicVars, level, timerVars, descVars, left>>

Irq == TakeIrq \/ Ack \/ HandleIrq \/ Eoi \/ IrqExit

----------------------------------------------------------------------------
Next == Boot \/ TimerExpires \/ Device \/ Irq

\* The CPU executes, takes a signalled interrupt, and the timer counts.
Fairness == WF_vars(Boot) /\ WF_vars(Irq) /\ WF_vars(TimerExpires)

Spec == Init /\ [][Next]_vars
FairSpec == Spec /\ Fairness

----------------------------------------------------------------------------
(* Properties. *)

Handling == {"gic_handle_irq", "generic_handle_irq", "irq_eoi", "irq_exit"}

\* Type invariant.
TypeOK ==
  /\ pc \in {"arch_irq_init", "generic_timer_init", "generic_timer_reset", "request_irq",
             "enable_timer_interrupt", "raw_local_irq_enable", "run"} \cup Handling
  /\ forwarding \in BOOLEAN /\ arch_irq_handler \in BOOLEAN
  /\ timer_on \in BOOLEAN /\ expired \in BOOLEAN /\ routed \in BOOLEAN
  /\ enabled \in SUBSET Line /\ active \in SUBSET Line /\ running \in SUBSET Line
  /\ sgi \in SUBSET SGI /\ level \in SUBSET DeviceLine
  /\ chip \in SUBSET Line /\ handler \in SUBSET Line
  /\ irqnr \in Line \cup {NoIrq, Spurious}
  /\ left \in SUBSET Line

\* Interrupts are never enabled while an acknowledged line lacks its EOI, which
\* would shut the timer out for ever, unless firmware left it so: it had
\* acknowledged the line itself, or had left an SGI pending, which
\* gic_dist_init enables and gic_handle_irq drops without an EOI.
NothingLeftActive ==
  pc = "run" => running \subseteq left /\ active \subseteq left \cap SGI

\* Every line that gic_handle_irq acknowledges has a handler and a chip, but
\* for an SGI firmware left pending; irq_handler is never entered before
\* set_handle_irq.
AcknowledgedIsHandled ==
  pc \in Handling =>
    /\ arch_irq_handler
    /\ irqnr \in Line => \/ irqnr \in handler /\ irqnr \in chip
                         \/ irqnr \in left \cap SGI

\* The timer handler runs again and again, whatever other devices do and
\* whenever the timer expires during timer_init, if firmware hands over with no
\* SGI pending and nothing acknowledged; it never runs if firmware does not.
TicksForever ==
  LET tick == pc = "irq_eoi" /\ irqnr = TIMER_IRQ IN
  /\ left = {} => []<>tick
  /\ left # {} => []~tick

----------------------------------------------------------------------------
(* The inductive invariant behind the safety properties.                    *)

\* After gic_init only the SGIs and the timer can be enabled; the timer is
\* enabled only with its handler and chip in place.
OnlyTimerEnabled ==
  /\ handler \subseteq {TIMER_IRQ}
  /\ pc # "arch_irq_init" =>
       /\ arch_irq_handler
       /\ SGI \subseteq enabled /\ enabled \subseteq SGI \cup handler
       /\ TIMER_IRQ \in chip

\* The timer is acknowledged only if firmware left nothing.  Otherwise what
\* firmware left is still there, pending or not completed, and the kernel has
\* added nothing to it.
Outstanding ==
  IF pc \in {"generic_handle_irq", "irq_eoi"}
    THEN /\ irqnr = TIMER_IRQ /\ TIMER_IRQ \in handler
         /\ running = {irqnr} /\ active = {irqnr}
         /\ sgi = {} /\ left = {}
    ELSE /\ left = sgi \cup running
         /\ pc # "arch_irq_init" => active \subseteq running \cap SGI

\* What irqnr can be at each stage, with the timer's handler in place once
\* interrupts are enabled.
LineInHand ==
  /\ pc \in {"enable_timer_interrupt", "raw_local_irq_enable", "run"} \cup Handling
       => TIMER_IRQ \in handler
  /\ pc \notin {"generic_handle_irq", "irq_eoi", "irq_exit"} => irqnr = NoIrq
  /\ pc = "irq_exit" => irqnr \in {TIMER_IRQ, Spurious} \cup (left \cap SGI)

\* The invariant every step preserves.
GicInv == TypeOK /\ OnlyTimerEnabled /\ Outstanding /\ LineInHand
=============================================================================
