------------------------------ MODULE SchedNop ------------------------------
(***************************************************************************)
(* The scheduling class of kernel/sched_nop.c, the only one the kernel has, *)
(* as operators.  A run queue is the sequence of tasks that list_for_each   *)
(* visits from rq_head; cnt is the field `counter' of every task; tasks is  *)
(* the set for_each_task visits (every task linked behind init_task, but    *)
(* not init_task itself).                                                   *)
(***************************************************************************)
EXTENDS Integers, Sequences

CONSTANTS DEF_COUNTER,       \* HZ/10 ticks
          PRIORITY           \* the priority do_fork gives every child

ASSUME SliceAssumption == DEF_COUNTER \in Nat \ {0} /\ PRIORITY \in Nat

FullSlice == DEF_COUNTER + PRIORITY

\* list_add(&p->run_list, &rq->rq_head): at the head of the queue.
enqueue_task(rq, p) == <<p>> \o rq

\* (mutant: the counter is not held at 0)
tick_counter_below(c) == c - 1

\* task_tick_nop: the counter after a tick, and whether it asks for a switch.
tick_counter(c) == IF c - 1 <= 0 THEN 0 ELSE c - 1
tick_expires(c) == c - 1 <= 0

goodness(cnt, p) == cnt[p]

reset_score(cnt, tasks) ==
  [t \in DOMAIN cnt |-> IF t \in tasks THEN FullSlice ELSE cnt[t]]

\* The index the scan of pick_next_task_nop ends with: the comparison is
\* strict, so of several tasks with the largest counter the first wins.
IsBest(rq, cnt, i) ==
  /\ \A j \in 1 .. Len(rq) : goodness(cnt, rq[j]) <= goodness(cnt, rq[i])
  /\ \A j \in 1 .. (i - 1) : goodness(cnt, rq[j]) < goodness(cnt, rq[i])

best_of(rq, cnt) == rq[CHOOSE i \in 1 .. Len(rq) : IsBest(rq, cnt, i)]

\* (mutant: the test `if (!c)' and its reset are missing)
all_used_up_ignored(rq, cnt) == FALSE

\* `if (!c)': the largest counter on the queue is zero.
all_used_up(rq, cnt) == rq # <<>> /\ goodness(cnt, best_of(rq, cnt)) = 0

\* The counters when pick_next_task_nop returns, and the task it returns.
pick_scores_always(rq, cnt, tasks) == reset_score(cnt, tasks)   \* (mutant)

pick_scores(rq, cnt, tasks) ==
  IF all_used_up(rq, cnt) THEN reset_score(cnt, tasks) ELSE cnt

pick_next_task(rq, cnt, tasks) == best_of(rq, pick_scores(rq, cnt, tasks))
=============================================================================
