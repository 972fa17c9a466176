------------------------------ MODULE PickNext ------------------------------
(***************************************************************************)
(* pick_next_task_nop (kernel/sched_nop.c) statement by statement, against  *)
(* the definitions of SchedNop that Kernel uses.  __schedule() calls it     *)
(* with interrupts masked, so nothing else runs meanwhile.                  *)
(***************************************************************************)
EXTENDS SchedNop, FiniteSets

CONSTANTS Task, NoTask

ASSUME PickAssumption == NoTask \notin Task

VARIABLES
  rq,                        \* the queue, in list_for_each order
  start,                     \* history: the counters at the call
  counter,
  pc, tmp, c, next           \* tmp: the position in the queue

vars == <<rq, start, counter, pc, tmp, c, next>>

\* A non-empty queue of distinct tasks with any counters.
Queues == {q \in UNION {[1 .. n -> Task] : n \in 1 .. Cardinality(Task)} :
             \A i, j \in DOMAIN q : q[i] = q[j] => i = j}

Init ==
  /\ rq \in Queues
  /\ start \in [Task -> 0 .. FullSlice]
  /\ counter = start
  /\ pc = "repeat"
  /\ tmp = 0
  /\ c = 0
  /\ next = NoTask

\* c = -1000, and the head of the list_for_each
Repeat ==
  /\ pc = "repeat"
  /\ c' = -1000
  /\ tmp' = 1
  /\ pc' = "scan"
  /\ UNCHANGED <<rq, start, counter, next>>

\* (mutant: weight >= c)
Scan_not_strict ==
  /\ pc = "scan"
  /\ tmp <= Len(rq)
  /\ LET weight == goodness(counter, rq[tmp]) IN
       IF weight >= c THEN c' = weight /\ next' = rq[tmp]
       ELSE UNCHANGED <<c, next>>
  /\ tmp' = tmp + 1
  /\ UNCHANGED <<rq, start, counter, pc>>

Scan ==
  /\ pc = "scan"
  /\ tmp <= Len(rq)
  /\ LET weight == goodness(counter, rq[tmp]) IN
       IF weight > c THEN c' = weight /\ next' = rq[tmp]
       ELSE UNCHANGED <<c, next>>
  /\ tmp' = tmp + 1
  /\ UNCHANGED <<rq, start, counter, pc>>

\* (mutant: goto repeat without reset_score)
Test_no_reset ==
  /\ pc = "scan"
  /\ tmp > Len(rq)
  /\ pc' = IF c = 0 THEN "repeat" ELSE "return"
  /\ UNCHANGED <<rq, start, counter, tmp, c, next>>

\* if (!c) { reset_score(); goto repeat; }
Test ==
  /\ pc = "scan"
  /\ tmp > Len(rq)
  /\ IF c = 0 THEN counter' = reset_score(counter, Task) /\ pc' = "repeat"
     ELSE pc' = "return" /\ UNCHANGED counter
  /\ UNCHANGED <<rq, start, tmp, c, next>>

Next == Repeat \/ Scan \/ Test

Spec == Init /\ [][Next]_vars /\ WF_vars(Next)

----------------------------------------------------------------------------
\* The loop returns the task, and leaves the counters, that SchedNop defines:
\* of several tasks with the largest counter the one nearest the head, after
\* a reset if every counter on the queue was used up.
LoopComputesPick ==
  pc = "return" =>
    /\ next = pick_next_task(rq, start, Task)
    /\ counter = pick_scores(rq, start, Task)

\* The `goto repeat' does not repeat for ever.
LoopReturns == <>(pc = "return")
=============================================================================
