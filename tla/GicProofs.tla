----------------------------- MODULE GicProofs -----------------------------
(***************************************************************************)
(* The safety properties of Gic for every number of lines, wherever the     *)
(* timer line lies among them.                                              *)
(***************************************************************************)
EXTENDS Gic, WellFoundedInduction, TLAPS

\* Every non-empty set of natural numbers has a least element.
LEMMA LeastNat ==
  ASSUME NEW S, S \subseteq Nat, S # {}
  PROVE  \E m \in S : \A n \in S : m <= n
<1>1. PICK m \in S : \A n \in S : ~ (<<n, m>> \in OpToRel(<, Nat))
  BY NatLessThanWellFounded, WFMin, Zenon
<1>2. \A n \in S : ~ (n < m)
  BY <1>1 DEF OpToRel
<1> QED
  BY <1>2

\* Signalled lines are lines.
LEMMA SignalledLines ==
  ASSUME TypeOK
  PROVE  Signalled \subseteq Line
<1>1. SGI \subseteq Line /\ DeviceLine \subseteq Line /\ TIMER_IRQ \in Line
  BY GicAssumption DEF SGI, DeviceLine, Line
<1>2. Pending \subseteq Line
  BY <1>1 DEF TypeOK, Pending
<1> QED
  BY <1>2 DEF Signalled

\* What reading INTACK returns: the lowest signalled line, or the spurious
\* number.
LEMMA Acknowledged ==
  ASSUME TypeOK
  PROVE  \/ Signalled = {} /\ acknowledged = Spurious
         \/ acknowledged \in Signalled /\ \A j \in Signalled : acknowledged <= j
<1>1. Signalled \subseteq Nat
  BY GicAssumption, SignalledLines DEF Line
<1>2. CASE Signalled # {}
  <2>1. \E i \in Signalled : \A j \in Signalled : i <= j
    BY <1>1, <1>2, LeastNat
  <2> QED
    BY <1>2, <2>1 DEF acknowledged, Lowest
<1> QED
  BY <1>2 DEF acknowledged

\* Firmware's state satisfies GicInv.
LEMMA InitGicInv == Init => GicInv
<1> SUFFICES ASSUME Init PROVE GicInv
  OBVIOUS
<1>1. SGI \subseteq Line
  BY GicAssumption DEF SGI, Line
<1> QED
  BY <1>1
  DEF Init, GicInv, TypeOK, OnlyTimerEnabled, Outstanding, LineInHand, Handling, NoIrq

----------------------------------------------------------------------------
(* Every step preserves GicInv. *)

\* start_kernel's steps.
LEMMA BootInv == GicInv /\ Boot => GicInv'
<1> SUFFICES ASSUME GicInv, Boot PROVE GicInv'
  OBVIOUS
<1> USE DEF GicInv, TypeOK, OnlyTimerEnabled, Outstanding, LineInHand, Handling
<1>0. SGI \subseteq Line /\ TIMER_IRQ \in Line /\ TIMER_IRQ >= HW_IRQ_START
  BY GicAssumption DEF Line, SGI
<1>1. CASE GicInit
  <2>1. chip' \in SUBSET Line /\ TIMER_IRQ \in chip'
    BY <1>0, <1>1 DEF GicInit, irq_domain_add, gicv2_irq_map
  <2> QED
    BY <1>0, <1>1, <2>1 DEF GicInit, gic_dist_init, gic_cpu_init, set_handle_irq, timerVars
<1>2. CASE TimerOn
  BY <1>2 DEF TimerOn, gicVars, descVars
<1>3. CASE TimerReset
  BY <1>3 DEF TimerReset, generic_timer_reset, gicVars, descVars
<1>4. CASE TimerRequest
  BY <1>0, <1>4 DEF TimerRequest, request_irq, gicv2_unmask_irq, timerVars
<1>5. CASE TimerRoute
  BY <1>5 DEF TimerRoute, gicVars, descVars
<1>6. CASE IrqEnable
  BY <1>6 DEF IrqEnable, gicVars, timerVars, descVars
<1> QED
  BY <1>1, <1>2, <1>3, <1>4, <1>5, <1>6 DEF Boot

\* The timer and the devices move nothing but expired and level.
LEMMA DeviceInv == GicInv /\ (TimerExpires \/ Device) => GicInv'
<1> SUFFICES ASSUME GicInv, TimerExpires \/ Device PROVE GicInv'
  OBVIOUS
<1>1. level' \in SUBSET DeviceLine /\ expired' \in BOOLEAN
  BY DEF GicInv, TypeOK, TimerExpires, Device, timerVars
<1>2. UNCHANGED <<pc, gicVars, timer_on, routed, descVars, irqnr, left>>
  BY DEF TimerExpires, Device, timerVars
<1> QED
  BY <1>1, <1>2
  DEF GicInv, TypeOK, OnlyTimerEnabled, Outstanding, LineInHand, gicVars, descVars

\* An SGI that is pending goes before the timer, so the timer is acknowledged
\* only if firmware left nothing.
LEMMA WhatIsAcknowledged ==
  ASSUME GicInv, pc = "gic_handle_irq"
  PROVE  \/ acknowledged = Spurious
         \/ acknowledged \in sgi /\ running = {}
         \/ acknowledged = TIMER_IRQ /\ running = {} /\ sgi = {} /\ left = {}
<1> USE DEF GicInv, TypeOK, OnlyTimerEnabled, Outstanding, LineInHand, Handling
<1>1. CASE acknowledged \in Signalled /\ \A j \in Signalled : acknowledged <= j
  <2>1. running = {} /\ Signalled = Pending \cap enabled
    BY <1>1 DEF Signalled
  <2>2. acknowledged \in sgi \/ acknowledged = TIMER_IRQ
    BY <1>1, <2>1 DEF Pending, DeviceLine
  <2>3. CASE acknowledged = TIMER_IRQ
    <3>1. ASSUME NEW j \in sgi PROVE FALSE
      <4>1. j \in SGI /\ j \in Signalled
        BY <2>1, <3>1 DEF Pending
      <4>2. TIMER_IRQ <= j /\ j < TIMER_IRQ
        BY <1>1, <2>3, <4>1, GicAssumption DEF SGI
      <4> QED
        BY <4>1, <4>2, GicAssumption DEF SGI
    <3>2. sgi = {} /\ left = {}
      BY <2>1, <3>1
    <3> QED
      BY <2>1, <2>3, <3>2
  <2> QED
    BY <2>1, <2>2, <2>3
<1> QED
  BY <1>1, Acknowledged

\* The stages of irq_handler.
LEMMA IrqInv == GicInv /\ Irq => GicInv'
<1> SUFFICES ASSUME GicInv, Irq PROVE GicInv'
  OBVIOUS
<1> USE DEF GicInv, TypeOK, OnlyTimerEnabled, Outstanding, LineInHand, Handling
<1>0. /\ SGI \subseteq Line /\ TIMER_IRQ \in Line /\ Spurious \notin Line
      /\ \A i \in SGI : i < HW_IRQ_START
      /\ TIMER_IRQ >= HW_IRQ_START /\ TIMER_IRQ < MAX_IRQ /\ ~(Spurious < MAX_IRQ)
  BY GicAssumption DEF Line, SGI, Spurious
<1>1. CASE TakeIrq
  BY <1>1 DEF TakeIrq, gicVars, timerVars, descVars
<1>2. CASE Ack
  <2>1. /\ pc = "gic_handle_irq" /\ TIMER_IRQ \in handler
        /\ left = sgi \cup running /\ active \subseteq running \cap SGI
    BY <1>2 DEF Ack
  <2>2. /\ irqnr' = acknowledged
        /\ active' = active \cup ({acknowledged} \cap Line)
        /\ running' = running \cup ({acknowledged} \cap Line)
        /\ sgi' = sgi \ {acknowledged}
        /\ pc' = IF acknowledged >= HW_IRQ_START /\ acknowledged < MAX_IRQ
                   THEN "generic_handle_irq" ELSE "irq_exit"
        /\ UNCHANGED <<forwarding, enabled, level, timerVars, descVars, left>>
    BY <1>2 DEF Ack
  <2>3. CASE acknowledged = Spurious
    <3>1. pc' = "irq_exit" /\ UNCHANGED <<active, running, sgi>>
      BY <1>0, <2>2, <2>3
    <3> QED
      BY <2>1, <2>2, <2>3, <3>1 DEF timerVars, descVars
  <2>4. CASE acknowledged \in sgi /\ running = {}
    <3>1. acknowledged \in SGI /\ acknowledged \in Line
      BY <1>0, <2>4
    <3>2. pc' = "irq_exit"
      BY <1>0, <2>2, <3>1, GicAssumption DEF SGI
    <3>3. running' = {acknowledged} /\ active' = {acknowledged}
      BY <2>1, <2>2, <2>4, <3>1
    <3>4. left' = sgi' \cup running' /\ active' \subseteq running' \cap SGI
      BY <2>1, <2>2, <2>4, <3>1, <3>3
    <3> QED
      BY <2>1, <2>2, <2>4, <3>1, <3>2, <3>3, <3>4 DEF timerVars, descVars
  <2>5. CASE acknowledged = TIMER_IRQ /\ running = {} /\ sgi = {} /\ left = {}
    <3>1. pc' = "generic_handle_irq"
      BY <1>0, <2>2, <2>5
    <3>2. running' = {TIMER_IRQ} /\ active' = {TIMER_IRQ} /\ sgi' = {} /\ left' = {}
      BY <1>0, <2>1, <2>2, <2>5
    <3> QED
      BY <1>0, <2>1, <2>2, <2>5, <3>1, <3>2 DEF timerVars, descVars
  <2> QED
    BY <2>1, <2>3, <2>4, <2>5, WhatIsAcknowledged
<1>3. CASE HandleIrq
  BY <1>3 DEF HandleIrq, handle_timer_irq, generic_timer_reset, gicVars, descVars
<1>4. CASE Eoi
  BY <1>4 DEF Eoi, gicv2_eoi_irq, timerVars, descVars
<1>5. CASE IrqExit
  BY <1>5 DEF IrqExit, gicVars, timerVars, descVars
<1> QED
  BY <1>1, <1>2, <1>3, <1>4, <1>5 DEF Irq

\* GicInv holds from firmware's hand-over on, whatever firmware left enabled,
\* active, pending or acknowledged and whatever the devices do.
THEOREM GicInvariant == Spec => []GicInv
<1>1. Init => GicInv
  BY InitGicInv
<1>2. GicInv /\ UNCHANGED vars => GicInv'
  BY DEF GicInv, TypeOK, OnlyTimerEnabled, Outstanding, LineInHand, vars,
         gicVars, timerVars, descVars
<1>3. GicInv /\ [Next]_vars => GicInv'
  BY <1>2, BootInv, DeviceInv, IrqInv DEF Next
<1> QED
  BY <1>1, <1>3, PTL DEF Spec

\* Type correctness of the interrupt path.
THEOREM GicTypeCorrect == Spec => []TypeOK
<1>1. GicInv => TypeOK
  BY DEF GicInv
<1> QED
  BY <1>1, GicInvariant, PTL

\* Interrupts are never enabled with an acknowledged line that lacks its EOI,
\* unless firmware acknowledged it or left it pending as an SGI.
THEOREM NothingStaysActive == Spec => []NothingLeftActive
<1>1. GicInv => NothingLeftActive
  BY DEF GicInv, Outstanding, NothingLeftActive
<1> QED
  BY <1>1, GicInvariant, PTL

\* Every line that is acknowledged has its handler and its chip, or is an SGI
\* that firmware left pending.
THEOREM AcknowledgedHandled == Spec => []AcknowledgedIsHandled
<1>1. GicInv => AcknowledgedIsHandled
  BY GicAssumption
  DEF GicInv, TypeOK, OnlyTimerEnabled, Outstanding, LineInHand, AcknowledgedIsHandled,
      Handling, NoIrq, Spurious, Line
<1> QED
  BY <1>1, GicInvariant, PTL

\* If firmware left an SGI pending, or a line acknowledged and not completed,
\* the timer handler never runs.
THEOREM NoTickAfterLeftover ==
  Spec => [](left # {} => pc \notin {"generic_handle_irq", "irq_eoi"})
<1>1. GicInv => (left # {} => pc \notin {"generic_handle_irq", "irq_eoi"})
  BY DEF GicInv, Outstanding
<1> QED
  BY <1>1, GicInvariant, PTL

=============================================================================
