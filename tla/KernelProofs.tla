---------------------------- MODULE KernelProofs ----------------------------
(***************************************************************************)
(* First what pick_next_task_nop returns, for every run queue and all       *)
(* counters.  Then KernelInv is an invariant of Kernel for every number of  *)
(* pages, tasks and ticks and every list of threads, and the safety         *)
(* properties follow.  The last part strengthens it: who owns what.         *)
(***************************************************************************)
EXTENDS Kernel, WellFoundedInduction, TLAPS

----------------------------------------------------------------------------
(* The scheduling class. *)

\* Every non-empty set of natural numbers has a least element.
LEMMA LeastNat ==
  ASSUME NEW S, S \subseteq Nat, S # {}
  PROVE  \E m \in S : \A n \in S : m <= n
<1>1. PICK m \in S : \A n \in S : ~ (<<n, m>> \in OpToRel(<, Nat))
  BY NatLessThanWellFounded, WFMin, Zenon
<1>2. \A n \in S : ~ (n < m)
  BY <1>1 DEF OpToRel
<1> QED
  BY <1>2

\* The scan of pick_next_task_nop finds a task on every queue that is not
\* empty: some index is the first of those with the largest counter.
LEMMA BestExists ==
  ASSUME NEW T, NEW rq \in Seq(T), rq # <<>>,
         NEW cnt \in [T -> 0 .. FullSlice]
  PROVE  \E i \in 1 .. Len(rq) : IsBest(rq, cnt, i)
<1> USE SliceAssumption DEF FullSlice
<1> DEFINE I == 1 .. Len(rq)
           Gap(i) == FullSlice - cnt[rq[i]]
           Gaps == {Gap(i) : i \in I}
<1>1. \A i \in I : rq[i] \in T /\ cnt[rq[i]] \in 0 .. FullSlice /\ Gap(i) \in Nat
  OBVIOUS
<1>2. 1 \in I
  OBVIOUS
<1>3. Gaps \subseteq Nat /\ Gaps # {}
  BY <1>1, <1>2
<1> HIDE DEF Gap
<1>4. PICK g \in Gaps : \A h \in Gaps : g <= h
  BY <1>3, LeastNat, Zenon
<1> DEFINE Js == {i \in I : Gap(i) = g}
<1>5. Js \subseteq Nat /\ Js # {}
  BY <1>4
<1> HIDE DEF Gaps
<1>6. PICK i \in Js : \A j \in Js : i <= j
  BY <1>5, LeastNat, Zenon
<1>7. \A j \in I : Gap(i) <= Gap(j)
  BY <1>4, <1>6 DEF Gaps
<1>8. \A j \in 1 .. (i - 1) : j \in I /\ Gap(j) # Gap(i)
  BY <1>6
<1>9. i \in I
  BY <1>6
<1>10. IsBest(rq, cnt, i)
  <2>1. \A j \in I : cnt[rq[j]] <= cnt[rq[i]]
    BY <1>1, <1>7, <1>9 DEF Gap
  <2>2. \A j \in 1 .. (i - 1) : cnt[rq[j]] < cnt[rq[i]]
    BY <1>1, <1>7, <1>8, <1>9 DEF Gap
  <2> QED
    BY <2>1, <2>2 DEF IsBest, goodness
<1> QED
  BY <1>9, <1>10

\* best_of is a member of the queue and no member has a larger counter.
LEMMA BestOf ==
  ASSUME NEW T, NEW rq \in Seq(T), rq # <<>>,
         NEW cnt \in [T -> 0 .. FullSlice]
  PROVE  \E i \in 1 .. Len(rq) :
           /\ best_of(rq, cnt) = rq[i]
           /\ \A j \in 1 .. Len(rq) : cnt[rq[j]] <= cnt[rq[i]]
<1>1. \E i \in 1 .. Len(rq) : IsBest(rq, cnt, i)
  BY BestExists
<1> DEFINE b == CHOOSE i \in 1 .. Len(rq) : IsBest(rq, cnt, i)
<1>2. b \in 1 .. Len(rq) /\ IsBest(rq, cnt, b)
  BY <1>1
<1>3. best_of(rq, cnt) = rq[b]
  BY DEF best_of
<1> QED
  BY <1>2, <1>3 DEF IsBest, goodness

\* reset_score and the scan keep every counter within a full slice.
LEMMA ScoresType ==
  ASSUME NEW T, NEW rq, NEW tasks, NEW cnt \in [T -> 0 .. FullSlice]
  PROVE  pick_scores(rq, cnt, tasks) \in [T -> 0 .. FullSlice]
BY SliceAssumption DEF pick_scores, reset_score, FullSlice

\* If for_each_task reaches every queued task, the `goto repeat' of
\* pick_next_task_nop is taken at most once: after reset_score the best
\* counter is not zero.  The task it returns is queued and has ticks left.
THEOREM PickNext ==
  ASSUME NEW T, NEW rq \in Seq(T), NEW tasks,
         NEW cnt \in [T -> 0 .. FullSlice],
         \A i \in 1 .. Len(rq) : rq[i] \in tasks
  PROVE  /\ ~all_used_up(rq, pick_scores(rq, cnt, tasks))
         /\ rq # <<>> =>
              \E i \in 1 .. Len(rq) :
                /\ pick_next_task(rq, cnt, tasks) = rq[i]
                /\ pick_scores(rq, cnt, tasks)[rq[i]] > 0
<1>1. CASE rq = <<>>
  BY <1>1 DEF all_used_up
<1>2. CASE rq # <<>>
  <2> DEFINE sc == pick_scores(rq, cnt, tasks)
  <2>1. sc \in [T -> 0 .. FullSlice]
    BY ScoresType
  <2>2. PICK k \in 1 .. Len(rq) :
          /\ best_of(rq, cnt) = rq[k]
          /\ \A j \in 1 .. Len(rq) : cnt[rq[j]] <= cnt[rq[k]]
    BY <1>2, BestOf
  <2> HIDE DEF sc
  <2>3. PICK i \in 1 .. Len(rq) :
          /\ best_of(rq, sc) = rq[i]
          /\ \A j \in 1 .. Len(rq) : sc[rq[j]] <= sc[rq[i]]
    BY <1>2, <2>1, BestOf
  <2>4. rq[k] \in T /\ rq[i] \in T
    OBVIOUS
  <2>5. sc[rq[k]] > 0
    <3>1. CASE cnt[rq[k]] = 0
      <4>1. sc = reset_score(cnt, tasks)
        BY <1>2, <2>2, <3>1 DEF sc, pick_scores, all_used_up, goodness
      <4> QED
        BY <4>1, <2>4, SliceAssumption DEF reset_score, FullSlice
    <3>2. CASE cnt[rq[k]] # 0
      <4>1. sc = cnt
        BY <2>2, <3>2 DEF sc, pick_scores, all_used_up, goodness
      <4> QED
        BY <4>1, <2>4, <3>2, SliceAssumption DEF FullSlice
    <3> QED
      BY <3>1, <3>2
  <2>6. sc[rq[i]] > 0
    BY <2>1, <2>3, <2>4, <2>5, SliceAssumption DEF FullSlice
  <2>7. ~all_used_up(rq, sc)
    BY <2>3, <2>6 DEF all_used_up, goodness
  <2>8. pick_next_task(rq, cnt, tasks) = rq[i]
    BY <2>3 DEF sc, pick_next_task
  <2> QED
    BY <2>6, <2>7, <2>8 DEF sc
<1> QED
  BY <1>1, <1>2

\* enqueue_task_nop adds p at the head of the queue and moves the others up.
LEMMA EnqueueFacts ==
  ASSUME NEW T, NEW rq \in Seq(T), NEW p \in T
  PROVE  /\ enqueue_task(rq, p) \in Seq(T)
         /\ enqueue_task(rq, p) # <<>>
         /\ Len(enqueue_task(rq, p)) = Len(rq) + 1
         /\ \A i \in 1 .. Len(rq) + 1 :
              enqueue_task(rq, p)[i] = IF i = 1 THEN p ELSE rq[i - 1]
BY DEF enqueue_task

\* If p is not queued, the queue after enqueue_task still holds no task twice.
LEMMA EnqueueDistinct ==
  ASSUME NEW T, NEW rq \in Seq(T), NEW p \in T
  PROVE  /\ (/\ \A i \in 1 .. Len(rq) : rq[i] # p
             /\ \A i, j \in 1 .. Len(rq) : rq[i] = rq[j] => i = j)
            => \A i, j \in 1 .. Len(enqueue_task(rq, p)) :
                 enqueue_task(rq, p)[i] = enqueue_task(rq, p)[j] => i = j
         /\ \A i \in 1 .. Len(enqueue_task(rq, p)) :
              \/ enqueue_task(rq, p)[i] = p
              \/ \E j \in 1 .. Len(rq) : enqueue_task(rq, p)[i] = rq[j]
<1> DEFINE q == enqueue_task(rq, p)
           n == Len(rq)
<1>1. /\ n \in Nat /\ Len(q) = n + 1
      /\ \A i \in 1 .. n + 1 : q[i] = IF i = 1 THEN p ELSE rq[i - 1]
  <2>1. n \in Nat
    OBVIOUS
  <2>2. Len(q) = Len(rq) + 1
    BY DEF enqueue_task
  <2>3. \A i \in 1 .. Len(rq) + 1 : q[i] = IF i = 1 THEN p ELSE rq[i - 1]
    BY DEF enqueue_task
  <2> QED
    BY <2>1, <2>2, <2>3
<1> HIDE DEF q, n
<1>2. \A i \in 1 .. Len(q) : q[i] = p \/ \E j \in 1 .. n : q[i] = rq[j]
  BY <1>1
<1>3. ASSUME \A i \in 1 .. n : rq[i] # p,
             \A i, j \in 1 .. n : rq[i] = rq[j] => i = j,
             NEW i \in 1 .. Len(q), NEW j \in 1 .. Len(q), q[i] = q[j]
      PROVE  i = j
  <2>1. CASE i = 1 \/ j = 1
    BY <1>1, <1>3, <2>1
  <2>2. CASE i # 1 /\ j # 1
    <3>1. i - 1 \in 1 .. n /\ j - 1 \in 1 .. n /\ rq[i - 1] = rq[j - 1]
      BY <1>1, <1>3, <2>2
    <3>2. i - 1 = j - 1
      BY <1>3, <3>1
    <3> QED
      BY <1>1, <3>2
  <2> QED
    BY <2>1, <2>2
<1> QED
  BY <1>2, <1>3 DEF q, n

----------------------------------------------------------------------------
(* The allocator and the task table. *)

\* find_free returns a free page or Null.
LEMMA FindFree ==
  ASSUME NEW map \in [Page -> {0, 1}]
  PROVE  /\ find_free(map) \in Page \cup {Null}
         /\ find_free(map) # Null => find_free(map) \in Page /\ map[find_free(map)] = 0
<1>1. CASE FreePages(map) = {}
  BY <1>1 DEF find_free
<1>2. CASE FreePages(map) # {}
  <2>1. FreePages(map) \subseteq Nat
    BY NrPagesAssumption DEF FreePages, Page
  <2>2. \E p \in FreePages(map) : \A q \in FreePages(map) : p <= q
    BY <1>2, <2>1, LeastNat
  <2>3. find_free(map) \in FreePages(map)
    BY <1>2, <2>2 DEF find_free
  <2> QED
    BY <2>3, NrPagesAssumption DEF FreePages, Page, Null
<1> QED
  BY <1>1, <1>2

\* find_empty_task returns an empty slot or Null.
LEMMA FindEmpty ==
  ASSUME NEW slots \in [Slot -> Task \cup {Null}]
  PROVE  /\ find_empty_task(slots) \in Slot \cup {Null}
         /\ find_empty_task(slots) # Null =>
              find_empty_task(slots) \in Slot /\ slots[find_empty_task(slots)] = Null
<1> DEFINE E == {i \in Slot : slots[i] = Null}
<1>1. CASE \A i \in Slot : slots[i] # Null
  BY <1>1 DEF find_empty_task
<1>2. CASE ~ \A i \in Slot : slots[i] # Null
  <2>1. E \subseteq Nat /\ E # {}
    BY <1>2, TasksAssumption DEF Slot
  <2>2. \E i \in E : \A j \in E : i <= j
    BY <2>1, LeastNat
  <2>3. \E i \in Slot : slots[i] = Null /\ \A j \in Slot : slots[j] = Null => i <= j
    BY <2>2
  <2>4. find_empty_task(slots) \in Slot /\ slots[find_empty_task(slots)] = Null
    BY <1>2, <2>3 DEF find_empty_task
  <2> QED
    BY <2>4, TasksAssumption DEF Slot, Null
<1> QED
  BY <1>1, <1>2

----------------------------------------------------------------------------
\* init_task is a task and is not one of the allocator's pages.
LEMMA InitNotPage == InitTask \in Task /\ InitTask \notin Page /\ Page \subseteq Task
BY NrPagesAssumption DEF Task, InitTask, Page

\* The state in which start_kernel enables interrupts satisfies KernelInv.
LEMMA InitKernelInv == Init => KernelInv
<1> SUFFICES ASSUME Init PROVE KernelInv
  OBVIOUS
<1> USE DEF Init, sched_init
<1> PICK n \in BootPages :
       /\ mem_map = [p \in Page |-> IF p <= n THEN 1 ELSE 0]
       /\ held = [t \in Task |-> IF t = InitTask THEN 1 .. n ELSE {}]
  OBVIOUS
<1>1. TypeOK
  BY NrPagesAssumption, SliceAssumption, TasksAssumption, BootPagesAssumption,
     ThreadsAssumption
  DEF TypeOK, Task, InitTask, Page, Slot, Null, FullSlice, BasePoint, Body
<1>2. /\ at[InitTask] = "start_kernel"
      /\ InitTask \notin Page
      /\ \A t \in Task : t # InitTask => at[t] = "none"
  BY InitNotPage DEF Task
<1>3. StackShape /\ PreemptCountIsScheduleDepth
  BY <1>2 DEF IsTask, StackShape, PreemptCountIsScheduleDepth, ScheduleDepth, SchedPoint
<1>4. ParkedTasks /\ LinkedTasksBuilt /\ TaskPagesInUse /\ MoveToUserLocals
  BY <1>2 DEF IsTask, ParkedTasks, LinkedTasksBuilt, TaskPagesInUse, MoveToUserLocals, Task
<1>5. InterruptMask
  BY <1>2 DEF InterruptMask, Top, TopOf, Task
<1>6. InitRunsFirst
  BY <1>2 DEF IsTask, InitRunsFirst, InitPoint, ForkPoint, Task
<1>7. ForkLocals /\ RunQueueLinked
  BY <1>2 DEF ForkLocals, ForkPoint, RunQueueLinked
<1> QED
  BY <1>1, <1>3, <1>4, <1>5, <1>6, <1>7 DEF KernelInv

----------------------------------------------------------------------------
(* Every action preserves KernelInv. *)

\* A tick keeps every counter within a slice.
LEMMA TickType ==
  ASSUME TypeOK, Tick(current)
  PROVE  /\ counter' \in [Task -> 0 .. FullSlice]
         /\ need_resched' \in [Task -> {0, 1}]
         /\ \A t \in Task : t # current => need_resched'[t] = need_resched[t]
BY SliceAssumption DEF TypeOK, Tick, tick_counter, tick_expires, FullSlice

\* __irq_exit undoes __irq_enter.
LEMMA IrqBalanced == \A c \in Nat : irq_exit(irq_enter(c)) = c
BY HardirqAssumption DEF irq_enter, irq_exit

\* The facts an action of the running task starts from.
LEMMA TopFacts ==
  ASSUME KernelInv
  PROVE  /\ current \in Task
         /\ Top \in BasePoint \ {"lost"} => frame[current] = "none" /\ at[current] = Top
         /\ Top \in {"psi", "psi_sw", "psi_tail"} =>
              /\ frame[current] = Top /\ depth[current] = 1
              /\ at[current] \in InterruptedPoint
         /\ Top \in InitPoint <=> current = InitTask /\ frame[current] = "none"
         /\ frame[current] = "none" => depth[current] = 0
BY DEF KernelInv, TypeOK, StackShape, InitRunsFirst, Top, TopOf, BasePoint, ForkPoint,
       InitPoint, FramePoint, InterruptedPoint

\* A step of the running task that allocates nothing and forks nothing: it
\* may hand the CPU to a queued task, and moves at most the running task's
\* own stack, never into or out of start_kernel and do_fork.
KeepsTasks ==
  /\ UNCHANGED <<pageVars, forkVars>>
  /\ \/ current' = current
     \/ current' \in Page /\ IsTask(current') /\ run_list # <<>>
  /\ \A t \in Task : t # current => at'[t] = at[t] /\ frame'[t] = frame[t]
  /\ \/ at'[current] = at[current]
     \/ /\ current # InitTask
        /\ at'[current] \in BasePoint \ (InitPoint \cup {"mtus_take"})

\* Such a step keeps the parts of KernelInv about pages, pids and queues.
LEMMA KeepsTasksInv ==
  ASSUME KernelInv, KeepsTasks
  PROVE  /\ InitRunsFirst' /\ ForkLocals' /\ MoveToUserLocals'
         /\ LinkedTasksBuilt' /\ RunQueueLinked' /\ TaskPagesInUse'
<1> USE InitNotPage DEF KernelInv, KeepsTasks, pageVars, forkVars
<1>1. current \in Task /\ linked \subseteq Page
  BY DEF TypeOK
<1>2. at'[InitTask] = at[InitTask]
  BY <1>1
<1>3. \A t \in Task : IsTask(t)' <=> IsTask(t)
  BY <1>1 DEF IsTask, InitRunsFirst, BasePoint, ForkPoint
<1>4. current' = InitTask => current = InitTask
  OBVIOUS
<1>5. InitRunsFirst'
  <2>1. \A t \in Task : at'[t] \in InitPoint <=> t = InitTask
    BY <1>1 DEF InitRunsFirst
  <2>2. current' = InitTask =>
          \A p \in Page : at'[p] \in {"none", "ret_from_fork"} /\ frame'[p] = "none"
    BY <1>4 DEF InitRunsFirst
  <2> QED
    BY <1>1, <1>3, <2>1, <2>2 DEF InitRunsFirst, IsTask
<1>6. ForkLocals'
  <2>1. at'[InitTask] \in ForkPoint => scan[InitTask] \in Task
    BY <1>2 DEF ForkLocals
  <2> QED
    BY <1>2, <1>3, <1>4, <2>1 DEF ForkLocals, InRunList
<1>7. MoveToUserLocals'
  BY <1>1 DEF MoveToUserLocals
<1>8. LinkedTasksBuilt' /\ RunQueueLinked' /\ TaskPagesInUse'
  BY <1>1, <1>3 DEF LinkedTasksBuilt, RunQueueLinked, TaskPagesInUse
<1> QED
  BY <1>5, <1>6, <1>7, <1>8

\* A tick in EL1 that returns to the interrupted point.
LEMMA El1IrqReturnInv == KernelInv /\ El1IrqReturn => KernelInv'
<1> SUFFICES ASSUME KernelInv, El1IrqReturn PROVE KernelInv'
  OBVIOUS
<1> USE DEF KernelInv, El1IrqReturn, stackVars
<1>1. TypeOK'
  BY TickType, IrqBalanced DEF TypeOK, pageVars, forkVars
<1>2. StackShape' /\ PreemptCountIsScheduleDepth'
  BY IrqBalanced
  DEF TypeOK, StackShape, PreemptCountIsScheduleDepth, ScheduleDepth, IsTask
<1>3. ParkedTasks' /\ InterruptMask'
  BY TickType DEF TypeOK, ParkedTasks, InterruptMask, Top, TopOf, IsTask
<1>4. KeepsTasks
  BY DEF KeepsTasks, pageVars, forkVars
<1> QED
  BY <1>1, <1>2, <1>3, <1>4, KeepsTasksInv

\* A tick in EL1 that enters preempt_schedule_irq().
LEMMA El1IrqPreemptInv == KernelInv /\ El1IrqPreempt => KernelInv'
<1> SUFFICES ASSUME KernelInv, El1IrqPreempt PROVE KernelInv'
  OBVIOUS
<1> USE DEF KernelInv, El1IrqPreempt
<1>0. preempt_count' \in [Task -> Nat] /\ depth' \in [Task -> Nat]
  BY IrqBalanced DEF TypeOK
<1>1. TypeOK'
  BY <1>0, TickType DEF TypeOK, FramePoint, pageVars, forkVars
<1>2. preempt_count[current] = 0
  BY IrqBalanced DEF Preemptible, TypeOK
<1>3. depth[current] = 0 /\ frame[current] = "none" /\ at[current] \in InterruptedPoint
  BY <1>2
  DEF TypeOK, StackShape, PreemptCountIsScheduleDepth, ScheduleDepth, IsTask,
      InitRunsFirst, InterruptMask, Top, TopOf, InterruptedPoint
<1>4. StackShape'
  BY <1>3 DEF TypeOK, StackShape
<1>5. PreemptCountIsScheduleDepth'
  BY <1>2, <1>3, IrqBalanced
  DEF TypeOK, PreemptCountIsScheduleDepth, ScheduleDepth, IsTask, InterruptedPoint
<1>6. ParkedTasks' /\ InterruptMask'
  BY TickType DEF TypeOK, ParkedTasks, InterruptMask, Top, TopOf, IsTask
<1>7. KeepsTasks
  BY DEF KeepsTasks, TypeOK, pageVars, forkVars
<1> QED
  BY <1>1, <1>4, <1>5, <1>6, <1>7, KeepsTasksInv

\* A tick in user space.
LEMMA El0IrqInv == KernelInv /\ El0Irq => KernelInv'
<1> SUFFICES ASSUME KernelInv, El0Irq PROVE KernelInv'
  OBVIOUS
<1> USE DEF KernelInv, El0Irq, Goto
<1>0. frame[current] = "none" /\ at[current] = "user" /\ current # InitTask
  BY TopFacts DEF BasePoint, ForkPoint, InitPoint
<1>1. TypeOK'
  BY TickType, IrqBalanced DEF TypeOK, BasePoint, pageVars, forkVars
<1>2. StackShape' /\ PreemptCountIsScheduleDepth'
  BY <1>0, IrqBalanced
  DEF TypeOK, StackShape, PreemptCountIsScheduleDepth, ScheduleDepth, IsTask,
      SchedPoint
<1>3. ParkedTasks' /\ InterruptMask'
  BY <1>0, TickType DEF TypeOK, ParkedTasks, InterruptMask, Top, TopOf, IsTask
<1>4. KeepsTasks
  BY <1>0 DEF KeepsTasks, TypeOK, BasePoint, ForkPoint, InitPoint, pageVars, forkVars
<1> QED
  BY <1>1, <1>2, <1>3, <1>4, KeepsTasksInv

----------------------------------------------------------------------------
(* The scheduler. *)

\* pick_next_task on the run queue: it ends, and returns a queued task with
\* ticks left.
LEMMA PickFacts ==
  ASSUME KernelInv
  PROVE  /\ Scores \in [Task -> 0 .. FullSlice]
         /\ PickEnds
         /\ run_list # <<>> =>
              /\ Next_task \in Page /\ Next_task \in linked /\ InRunList(Next_task)
              /\ Scores[Next_task] > 0
<1>1. run_list \in Seq(Task) /\ run_list \in Seq(Page)
  BY InitNotPage DEF KernelInv, TypeOK
<1>2. counter \in [Task -> 0 .. FullSlice]
  BY DEF KernelInv, TypeOK
<1>3. \A i \in 1 .. Len(run_list) : run_list[i] \in linked
  BY DEF KernelInv, RunQueueLinked
<1>4. Scores \in [Task -> 0 .. FullSlice]
  BY <1>2, ScoresType DEF Scores
<1>5. /\ PickEnds
      /\ run_list # <<>> =>
              \E i \in 1 .. Len(run_list) :
                Next_task = run_list[i] /\ Scores[run_list[i]] > 0
  BY <1>1, <1>2, <1>3, PickNext DEF PickEnds, Scores, Next_task
<1>6. \A i \in 1 .. Len(run_list) : run_list[i] \in Page
  BY <1>1
<1> QED
  BY <1>3, <1>4, <1>5, <1>6 DEF InRunList

\* __schedule() picks the task it was called on.
LEMMA ScheduleSameInv == KernelInv /\ ScheduleSame => KernelInv'
<1> SUFFICES ASSUME KernelInv, ScheduleSame PROVE KernelInv'
  OBVIOUS
<1> USE DEF KernelInv, ScheduleSame, clear_task_resched
<1>0. \/ /\ frame[current] = "none" /\ at[current] = "need_sched"
         /\ current # InitTask /\ Goto("sched_tail")
      \/ /\ frame[current] = "psi" /\ UNCHANGED <<at, depth>>
         /\ frame' = [frame EXCEPT ![current] = "psi_tail"]
  BY TopFacts DEF InSchedule, GoOn, BasePoint, InitPoint, ForkPoint
<1>1. TypeOK'
  BY <1>0, PickFacts DEF TypeOK, Goto, BasePoint, FramePoint, pageVars, forkVars
<1>2. StackShape' /\ PreemptCountIsScheduleDepth'
  BY <1>0
  DEF TypeOK, StackShape, PreemptCountIsScheduleDepth, ScheduleDepth, IsTask,
      SchedPoint, Goto
<1>3. ParkedTasks' /\ InterruptMask'
  BY <1>0 DEF TypeOK, ParkedTasks, InterruptMask, Top, TopOf, IsTask, Goto
<1>4. KeepsTasks
  BY <1>0
  DEF KeepsTasks, TypeOK, Goto, BasePoint, ForkPoint, InitPoint, pageVars, forkVars
<1> QED
  BY <1>1, <1>2, <1>3, <1>4, KeepsTasksInv

\* __schedule() on an empty queue.
LEMMA ScheduleGarbageInv == KernelInv /\ ScheduleGarbage => KernelInv'
<1> SUFFICES ASSUME KernelInv, ScheduleGarbage PROVE KernelInv'
  OBVIOUS
<1> USE DEF KernelInv, ScheduleGarbage, clear_task_resched
<1>0. /\ current = InitTask /\ frame[current] = "psi" /\ UNCHANGED <<at, depth>>
      /\ frame' = [frame EXCEPT ![current] = "lost"]
  <2>1. current = InitTask
    BY DEF InitRunsFirst
  <2>2. Top = "psi" /\ frame[current] = "psi"
    BY <2>1, TopFacts DEF InSchedule, InitPoint, ForkPoint, BasePoint
  <2> QED
    BY <2>1, <2>2 DEF GoOn
<1>1. TypeOK'
  BY <1>0 DEF TypeOK, FramePoint, pageVars, forkVars
<1>2. StackShape' /\ PreemptCountIsScheduleDepth'
  BY <1>0
  DEF TypeOK, StackShape, PreemptCountIsScheduleDepth, ScheduleDepth, IsTask
<1>3. ParkedTasks' /\ InterruptMask'
  BY <1>0 DEF TypeOK, ParkedTasks, InterruptMask, Top, TopOf, IsTask
<1>4. KeepsTasks
  BY <1>0 DEF KeepsTasks, TypeOK, pageVars, forkVars
<1> QED
  BY <1>1, <1>2, <1>3, <1>4, KeepsTasksInv

\* __schedule() switches to another task.
LEMMA ScheduleSwitchInv == KernelInv /\ ScheduleSwitch => KernelInv'
<1> SUFFICES ASSUME KernelInv, ScheduleSwitch PROVE KernelInv'
  OBVIOUS
<1> USE DEF KernelInv, ScheduleSwitch, clear_task_resched
<1>0. \/ /\ frame[current] = "none" /\ at[current] = "need_sched"
         /\ current # InitTask /\ Goto("sched_sw")
      \/ /\ frame[current] = "psi" /\ UNCHANGED <<at, depth>>
         /\ frame' = [frame EXCEPT ![current] = "psi_sw"]
  BY TopFacts DEF InSchedule, GoOn, BasePoint, InitPoint, ForkPoint
<1>5. /\ Next_task \in Page /\ IsTask(Next_task) /\ Next_task # current
      /\ current' = Next_task
      /\ TopOf(Next_task) \in {"psi_sw", "sched_sw", "ret_from_fork"}
  BY PickFacts, InitNotPage DEF LinkedTasksBuilt, ParkedTasks
<1>1. TypeOK'
  BY <1>0, <1>5, PickFacts, InitNotPage
  DEF TypeOK, Goto, BasePoint, FramePoint, pageVars, forkVars
<1>2. StackShape' /\ PreemptCountIsScheduleDepth'
  BY <1>0
  DEF TypeOK, StackShape, PreemptCountIsScheduleDepth, ScheduleDepth, IsTask,
      SchedPoint, Goto
<1>3. ParkedTasks' /\ InterruptMask'
  <2>0. PICK prev \in Task : prev = current
    BY DEF TypeOK
  <2>1. TopOf(prev)' \in {"psi_sw", "sched_sw"} /\ need_resched'[prev] = 0
    BY <1>0, <2>0 DEF TypeOK, TopOf, Goto
  <2>2. \A t \in Task :
          t # prev => /\ TopOf(t)' = TopOf(t)
                      /\ IsTask(t)' <=> IsTask(t)
                      /\ need_resched'[t] = need_resched[t]
    BY <1>0, <2>0 DEF TypeOK, TopOf, IsTask, Goto
  <2>3. ParkedTasks'
    BY <2>0, <2>1, <2>2 DEF ParkedTasks
  <2>4. Top' \in {"psi_sw", "sched_sw", "ret_from_fork"}
    BY <1>5, <2>0, <2>2, InitNotPage DEF Top, TopOf
  <2> QED
    BY <2>3, <2>4 DEF InterruptMask
<1>4. KeepsTasks
  BY <1>0, <1>5
  DEF KeepsTasks, TypeOK, IsTask, Goto, BasePoint, ForkPoint, InitPoint, pageVars, forkVars
<1> QED
  BY <1>1, <1>2, <1>3, <1>4, KeepsTasksInv

\* A task returns from cpu_switch_to.
LEMMA FinishSwitchInv == KernelInv /\ FinishSwitch => KernelInv'
<1> SUFFICES ASSUME KernelInv, FinishSwitch PROVE KernelInv'
  OBVIOUS
<1> USE DEF KernelInv, FinishSwitch
<1>0. \/ /\ frame[current] = "none" /\ at[current] = "sched_sw"
         /\ current # InitTask /\ Goto("sched_tail")
      \/ /\ frame[current] = "psi_sw" /\ UNCHANGED <<at, depth>>
         /\ frame' = [frame EXCEPT ![current] = "psi_tail"]
  BY TopFacts DEF GoOn, BasePoint, InitPoint, ForkPoint
<1>1. TypeOK'
  BY <1>0 DEF TypeOK, Goto, BasePoint, FramePoint, pageVars, forkVars
<1>2. StackShape' /\ PreemptCountIsScheduleDepth'
  <2>1. StackShape'
    <3> SUFFICES ASSUME NEW t \in Task
                 PROVE \/ depth'[t] = 0 /\ frame'[t] = "none"
                       \/ /\ depth'[t] = 1 /\ frame'[t] # "none"
                          /\ at'[t] \in InterruptedPoint
      BY DEF StackShape
    <3>1. CASE t = current
      BY <1>0, <3>1 DEF TypeOK, StackShape, Goto
    <3>2. CASE t # current
      BY <1>0, <3>2 DEF TypeOK, StackShape, Goto
    <3> QED
      BY <3>1, <3>2
  <2>2. \A t \in Task : (IsTask(t)' => IsTask(t)) /\ ScheduleDepth(t)' = ScheduleDepth(t)
    BY <1>0 DEF TypeOK, ScheduleDepth, IsTask, SchedPoint, Goto
  <2>3. PreemptCountIsScheduleDepth'
    BY <2>2 DEF PreemptCountIsScheduleDepth
  <2> QED
    BY <2>1, <2>3
<1>3. ParkedTasks' /\ InterruptMask'
  BY <1>0 DEF TypeOK, ParkedTasks, InterruptMask, Top, TopOf, IsTask, Goto
<1>4. KeepsTasks
  BY <1>0
  DEF KeepsTasks, TypeOK, Goto, BasePoint, ForkPoint, InitPoint, pageVars, forkVars
<1> QED
  BY <1>1, <1>2, <1>3, <1>4, KeepsTasksInv

\* preempt_schedule_irq() and el1_irq return.
LEMMA PreemptReturnInv == KernelInv /\ PreemptReturn => KernelInv'
<1> SUFFICES ASSUME KernelInv, PreemptReturn PROVE KernelInv'
  OBVIOUS
<1> USE DEF KernelInv, PreemptReturn
<1>0. /\ frame[current] = "psi_tail" /\ depth[current] = 1
      /\ at[current] \in InterruptedPoint /\ preempt_count[current] = 1
      /\ frame' = [frame EXCEPT ![current] = "none"]
  <2>1. /\ frame[current] = "psi_tail" /\ depth[current] = 1
        /\ at[current] \in InterruptedPoint /\ current \in Task /\ IsTask(current)
    BY TopFacts DEF InitRunsFirst
  <2>2. preempt_count[current] = 1
    BY <2>1 DEF PreemptCountIsScheduleDepth, ScheduleDepth, InterruptedPoint
  <2> QED
    BY <2>1, <2>2
<1>1. TypeOK'
  BY <1>0 DEF TypeOK, pageVars, forkVars
<1>2. StackShape' /\ PreemptCountIsScheduleDepth'
  BY <1>0
  DEF TypeOK, StackShape, PreemptCountIsScheduleDepth, ScheduleDepth, IsTask,
      InterruptedPoint
<1>3. ParkedTasks' /\ InterruptMask'
  BY <1>0
  DEF TypeOK, ParkedTasks, InterruptMask, Top, TopOf, IsTask, InterruptedPoint,
      BasePoint, ForkPoint, SchedPoint
<1>4. KeepsTasks
  BY <1>0 DEF KeepsTasks, TypeOK, pageVars, forkVars
<1> QED
  BY <1>1, <1>2, <1>3, <1>4, KeepsTasksInv

----------------------------------------------------------------------------
(* The exit paths. *)

\* schedule() returns.
LEMMA SchedReturnInv == KernelInv /\ SchedReturn => KernelInv'
<1> SUFFICES ASSUME KernelInv, SchedReturn PROVE KernelInv'
  OBVIOUS
<1> USE DEF KernelInv, SchedReturn, Goto
<1>0. frame[current] = "none" /\ at[current] = "sched_tail" /\ current # InitTask
  BY TopFacts DEF BasePoint, ForkPoint, InitPoint
<1>5. preempt_count[current] = 1
  <2>1. depth[current] = 0 /\ current \in Task
    BY <1>0, TopFacts
  <2> QED
    BY <1>0, <2>1 DEF PreemptCountIsScheduleDepth, ScheduleDepth, IsTask, SchedPoint
<1>1. TypeOK'
  BY <1>0, <1>5 DEF TypeOK, BasePoint, pageVars, forkVars, cpuVars
<1>2. StackShape' /\ PreemptCountIsScheduleDepth'
  BY <1>0, <1>5, TopFacts
  DEF TypeOK, StackShape, PreemptCountIsScheduleDepth, ScheduleDepth, IsTask,
      SchedPoint
<1>3. ParkedTasks' /\ InterruptMask'
  BY <1>0 DEF TypeOK, ParkedTasks, InterruptMask, Top, TopOf, IsTask, cpuVars
<1>4. KeepsTasks
  BY <1>0 DEF KeepsTasks, TypeOK, BasePoint, ForkPoint, InitPoint, pageVars, forkVars, cpuVars
<1> QED
  BY <1>1, <1>2, <1>3, <1>4, KeepsTasksInv

\* A new task starts in ret_from_fork.
LEMMA RetFromForkInv == KernelInv /\ RetFromFork => KernelInv'
<1> SUFFICES ASSUME KernelInv, RetFromFork PROVE KernelInv'
  OBVIOUS
<1> USE DEF KernelInv, RetFromFork, Goto
<1>0. frame[current] = "none" /\ at[current] = "ret_from_fork" /\ current # InitTask
  BY TopFacts DEF BasePoint, ForkPoint, InitPoint
<1>1. TypeOK'
  BY <1>0 DEF TypeOK, BasePoint, pageVars, forkVars
<1>2. StackShape' /\ PreemptCountIsScheduleDepth'
  BY <1>0, TopFacts
  DEF TypeOK, StackShape, PreemptCountIsScheduleDepth, ScheduleDepth, IsTask,
      SchedPoint
<1>3. ParkedTasks' /\ InterruptMask'
  BY <1>0 DEF TypeOK, ParkedTasks, InterruptMask, Top, TopOf, IsTask
<1>4. KeepsTasks
  BY <1>0 DEF KeepsTasks, TypeOK, BasePoint, ForkPoint, InitPoint, pageVars, forkVars
<1> QED
  BY <1>1, <1>2, <1>3, <1>4, KeepsTasksInv

\* ret_to_user calls schedule().
LEMMA RetToUserScheduleInv == KernelInv /\ RetToUserSchedule => KernelInv'
<1> SUFFICES ASSUME KernelInv, RetToUserSchedule PROVE KernelInv'
  OBVIOUS
<1> USE DEF KernelInv, RetToUserSchedule, Goto
<1>0. frame[current] = "none" /\ at[current] = "ret_to_user" /\ current # InitTask
  BY TopFacts DEF BasePoint, ForkPoint, InitPoint
<1>1. TypeOK'
  BY <1>0 DEF TypeOK, BasePoint, pageVars, forkVars
<1>2. StackShape' /\ PreemptCountIsScheduleDepth'
  BY <1>0, TopFacts
  DEF TypeOK, StackShape, PreemptCountIsScheduleDepth, ScheduleDepth, IsTask,
      SchedPoint
<1>3. ParkedTasks' /\ InterruptMask'
  BY <1>0 DEF TypeOK, ParkedTasks, InterruptMask, Top, TopOf, IsTask
<1>4. KeepsTasks
  BY <1>0 DEF KeepsTasks, TypeOK, BasePoint, ForkPoint, InitPoint, pageVars, forkVars
<1> QED
  BY <1>1, <1>2, <1>3, <1>4, KeepsTasksInv

\* ret_to_user leaves with interrupts masked.
LEMMA RetToUserInv == KernelInv /\ RetToUser => KernelInv'
<1> SUFFICES ASSUME KernelInv, RetToUser PROVE KernelInv'
  OBVIOUS
<1> USE DEF KernelInv, RetToUser
<1>0. frame[current] = "none" /\ at[current] = "ret_to_user" /\ current # InitTask
  BY TopFacts DEF BasePoint, ForkPoint, InitPoint
<1>5. PICK x \in {"user", "lost"} : Goto(x) /\ irq' = IF x = "user" THEN "on" ELSE "off"
  OBVIOUS
<1> USE <1>5 DEF Goto
<1>1. TypeOK'
  BY <1>0 DEF TypeOK, BasePoint, pageVars, forkVars
<1>2. StackShape' /\ PreemptCountIsScheduleDepth'
  BY <1>0, TopFacts
  DEF TypeOK, StackShape, PreemptCountIsScheduleDepth, ScheduleDepth, IsTask,
      SchedPoint
<1>3. ParkedTasks' /\ InterruptMask'
  BY <1>0 DEF TypeOK, ParkedTasks, InterruptMask, Top, TopOf, IsTask
<1>4. KeepsTasks
  BY <1>0 DEF KeepsTasks, TypeOK, BasePoint, ForkPoint, InitPoint, pageVars, forkVars
<1> QED
  BY <1>1, <1>2, <1>3, <1>4, KeepsTasksInv

\* no_work_pending reloads ELR_EL1 and SPSR_EL1.
LEMMA RestoreElrInv == KernelInv /\ RestoreElr => KernelInv'
<1> SUFFICES ASSUME KernelInv, RestoreElr PROVE KernelInv'
  OBVIOUS
<1> USE DEF KernelInv, RestoreElr, Goto
<1>0. frame[current] = "none" /\ at[current] = "no_work" /\ current # InitTask
  BY TopFacts DEF BasePoint, ForkPoint, InitPoint
<1>1. TypeOK'
  BY <1>0 DEF TypeOK, BasePoint, pageVars, forkVars
<1>2. StackShape' /\ PreemptCountIsScheduleDepth'
  BY <1>0, TopFacts
  DEF TypeOK, StackShape, PreemptCountIsScheduleDepth, ScheduleDepth, IsTask,
      SchedPoint
<1>3. ParkedTasks' /\ InterruptMask'
  BY <1>0 DEF TypeOK, ParkedTasks, InterruptMask, Top, TopOf, IsTask
<1>4. KeepsTasks
  BY <1>0 DEF KeepsTasks, TypeOK, BasePoint, ForkPoint, InitPoint, pageVars, forkVars
<1> QED
  BY <1>1, <1>2, <1>3, <1>4, KeepsTasksInv

\* The eret after a schedule().
LEMMA EretInv == KernelInv /\ Eret => KernelInv'
<1> SUFFICES ASSUME KernelInv, Eret PROVE KernelInv'
  OBVIOUS
<1> USE DEF KernelInv, Eret, Goto
<1>0. frame[current] = "none" /\ at[current] = "eret" /\ current # InitTask
  BY TopFacts DEF BasePoint, ForkPoint, InitPoint
<1>1. TypeOK'
  BY <1>0 DEF TypeOK, BasePoint, pageVars, forkVars
<1>2. StackShape' /\ PreemptCountIsScheduleDepth'
  BY <1>0, TopFacts
  DEF TypeOK, StackShape, PreemptCountIsScheduleDepth, ScheduleDepth, IsTask,
      SchedPoint
<1>3. ParkedTasks' /\ InterruptMask'
  BY <1>0 DEF TypeOK, ParkedTasks, InterruptMask, Top, TopOf, IsTask
<1>4. KeepsTasks
  BY <1>0 DEF KeepsTasks, TypeOK, BasePoint, ForkPoint, InitPoint, pageVars, forkVars
<1> QED
  BY <1>1, <1>2, <1>3, <1>4, KeepsTasksInv

\* move_to_user_space finds no page for the stack.
LEMMA MoveToUserNoPageInv == KernelInv /\ MoveToUserNoPage => KernelInv'
<1> SUFFICES ASSUME KernelInv, MoveToUserNoPage PROVE KernelInv'
  OBVIOUS
<1> USE DEF KernelInv, MoveToUserNoPage, Goto, cpuVars
<1>0. frame[current] = "none" /\ at[current] = "thread" /\ current # InitTask
  BY TopFacts DEF BasePoint, ForkPoint, InitPoint
<1>1. TypeOK'
  BY <1>0 DEF TypeOK, BasePoint, pageVars, forkVars
<1>2. StackShape' /\ PreemptCountIsScheduleDepth'
  BY <1>0, TopFacts
  DEF TypeOK, StackShape, PreemptCountIsScheduleDepth, ScheduleDepth, IsTask,
      SchedPoint
<1>3. ParkedTasks' /\ InterruptMask'
  BY <1>0 DEF TypeOK, ParkedTasks, InterruptMask, Top, TopOf, IsTask
<1>4. KeepsTasks
  BY <1>0 DEF KeepsTasks, TypeOK, BasePoint, ForkPoint, InitPoint, pageVars, forkVars
<1> QED
  BY <1>1, <1>2, <1>3, <1>4, KeepsTasksInv

\* A system call that changes nothing in the kernel.
LEMMA SysOtherInv == KernelInv /\ SysOther => KernelInv'
<1> SUFFICES ASSUME KernelInv, SysOther PROVE KernelInv'
  OBVIOUS
<1> USE DEF KernelInv, SysOther, SvcReturn, Goto
<1>0. frame[current] = "none" /\ at[current] = "user" /\ current # InitTask
  BY TopFacts DEF BasePoint, ForkPoint, InitPoint
<1>1. TypeOK'
  BY <1>0 DEF TypeOK, BasePoint, pageVars, forkVars
<1>2. StackShape' /\ PreemptCountIsScheduleDepth'
  BY <1>0, TopFacts
  DEF TypeOK, StackShape, PreemptCountIsScheduleDepth, ScheduleDepth, IsTask,
      SchedPoint
<1>3. ParkedTasks' /\ InterruptMask'
  BY <1>0 DEF TypeOK, ParkedTasks, InterruptMask, Top, TopOf, IsTask
<1>4. KeepsTasks
  BY <1>0 DEF KeepsTasks, TypeOK, BasePoint, ForkPoint, InitPoint, pageVars, forkVars
<1> QED
  BY <1>1, <1>2, <1>3, <1>4, KeepsTasksInv

----------------------------------------------------------------------------
(* kernel_thread, called by start_kernel. *)

\* start_kernel and do_fork are only ever executed by init_task.
LEMMA ForkFacts ==
  ASSUME KernelInv, Top \in InitPoint
  PROVE  /\ current = InitTask /\ frame[current] = "none" /\ at[current] = Top
         /\ depth[current] = 0 /\ preempt_count[current] = 0 /\ current \in Task
<1>1. /\ current = InitTask /\ frame[current] = "none" /\ at[current] = Top
      /\ depth[current] = 0 /\ current \in Task
  BY TopFacts DEF InitPoint, BasePoint, ForkPoint
<1>2. preempt_count[current] = 0
  BY <1>1
  DEF KernelInv, PreemptCountIsScheduleDepth, ScheduleDepth, IsTask, InitPoint,
      ForkPoint, SchedPoint
<1> QED
  BY <1>1, <1>2

\* do_fork finds no free page.
LEMMA ForkNoPageInv == KernelInv /\ ForkNoPage => KernelInv'
<1> SUFFICES ASSUME KernelInv, ForkNoPage PROVE KernelInv'
  OBVIOUS
<1> USE DEF KernelInv, ForkNoPage, ForkEnds, Goto
<1>0. /\ current = InitTask /\ frame[current] = "none" /\ at[current] = "start_kernel"
      /\ depth[current] = 0 /\ preempt_count[current] = 0
  BY ForkFacts DEF InitPoint, ForkPoint
<1>7. booted < Len(Threads) /\ booted' \in 0 .. Len(Threads)
  BY <1>0, ThreadsAssumption DEF TypeOK, ForkLocals, ForkPoint
<1>1. TypeOK'
  BY <1>0, <1>7 DEF TypeOK, BasePoint, ForkPoint, pageVars, forkVars, cpuVars
<1>2. StackShape' /\ PreemptCountIsScheduleDepth'
  BY <1>0
  DEF TypeOK, StackShape, PreemptCountIsScheduleDepth, ScheduleDepth, IsTask,
      SchedPoint, pageVars, forkVars, cpuVars
<1>3. ParkedTasks' /\ InterruptMask'
  BY <1>0 DEF TypeOK, ParkedTasks, InterruptMask, Top, TopOf, IsTask, cpuVars
<1>4. InitRunsFirst' /\ MoveToUserLocals'
  BY <1>0, InitNotPage
  DEF TypeOK, InitRunsFirst, InitPoint, ForkPoint, IsTask, MoveToUserLocals, pageVars,
      forkVars, cpuVars
<1>5. ForkLocals'
  BY <1>0
  DEF TypeOK, ForkLocals, ForkPoint, IsTask, InRunList, pageVars, forkVars, cpuVars
<1>6. LinkedTasksBuilt' /\ RunQueueLinked' /\ TaskPagesInUse'
  BY <1>0, InitNotPage
  DEF TypeOK, LinkedTasksBuilt, RunQueueLinked, TaskPagesInUse, IsTask, pageVars,
      forkVars, cpuVars
<1> QED
  BY <1>1, <1>2, <1>3, <1>4, <1>5, <1>6

\* do_fork finds a free page.
LEMMA ForkScanInv == KernelInv /\ ForkScan => KernelInv'
<1> SUFFICES ASSUME KernelInv, ForkScan PROVE KernelInv'
  OBVIOUS
<1> USE DEF KernelInv, ForkScan, Goto
<1>0. /\ current = InitTask /\ frame[current] = "none" /\ at[current] = "start_kernel"
      /\ depth[current] = 0 /\ preempt_count[current] = 0
  BY ForkFacts DEF InitPoint, ForkPoint
<1>7. find_free(mem_map) \in Page /\ mem_map[find_free(mem_map)] = 0
  BY FindFree DEF TypeOK
<1>1. TypeOK'
  BY <1>0, <1>7 DEF TypeOK, BasePoint, ForkPoint, pageVars, forkVars, cpuVars
<1>2. StackShape' /\ PreemptCountIsScheduleDepth'
  BY <1>0
  DEF TypeOK, StackShape, PreemptCountIsScheduleDepth, ScheduleDepth, IsTask,
      SchedPoint, pageVars, forkVars, cpuVars
<1>3. ParkedTasks' /\ InterruptMask'
  BY <1>0 DEF TypeOK, ParkedTasks, InterruptMask, Top, TopOf, IsTask, cpuVars
<1>4. InitRunsFirst' /\ MoveToUserLocals'
  BY <1>0, InitNotPage
  DEF TypeOK, InitRunsFirst, InitPoint, ForkPoint, IsTask, MoveToUserLocals, pageVars,
      forkVars, cpuVars
<1>5. ForkLocals'
  BY <1>0, <1>7
  DEF TypeOK, ForkLocals, ForkPoint, IsTask, InRunList, pageVars, forkVars, cpuVars
<1>6. LinkedTasksBuilt' /\ RunQueueLinked' /\ TaskPagesInUse'
  BY <1>0, InitNotPage
  DEF TypeOK, LinkedTasksBuilt, RunQueueLinked, TaskPagesInUse, IsTask, pageVars,
      forkVars, cpuVars
<1> QED
  BY <1>1, <1>2, <1>3, <1>4, <1>5, <1>6

\* do_fork takes the page.
LEMMA ForkTakeInv == KernelInv /\ ForkTake => KernelInv'
<1> SUFFICES ASSUME KernelInv, ForkTake PROVE KernelInv'
  OBVIOUS
<1> USE DEF KernelInv, ForkTake, Take, take_page, Goto
<1>0. /\ current = InitTask /\ frame[current] = "none" /\ at[current] = "fork_take"
      /\ depth[current] = 0 /\ preempt_count[current] = 0
  BY ForkFacts DEF InitPoint, ForkPoint
<1>7. scan[current] \in Page /\ ~IsTask(scan[current])
  BY <1>0 DEF ForkLocals, ForkPoint, TaskPagesInUse
<1>1. TypeOK'
  BY <1>0, <1>7 DEF TypeOK, BasePoint, ForkPoint, pageVars, forkVars, cpuVars
<1>2. StackShape' /\ PreemptCountIsScheduleDepth'
  BY <1>0
  DEF TypeOK, StackShape, PreemptCountIsScheduleDepth, ScheduleDepth, IsTask,
      SchedPoint, pageVars, forkVars, cpuVars
<1>3. ParkedTasks' /\ InterruptMask'
  BY <1>0 DEF TypeOK, ParkedTasks, InterruptMask, Top, TopOf, IsTask, cpuVars
<1>4. InitRunsFirst' /\ MoveToUserLocals'
  BY <1>0, InitNotPage
  DEF TypeOK, InitRunsFirst, InitPoint, ForkPoint, IsTask, MoveToUserLocals, pageVars,
      forkVars, cpuVars
<1>5. ForkLocals'
  BY <1>0, <1>7
  DEF TypeOK, ForkLocals, ForkPoint, IsTask, InRunList, pageVars, forkVars, cpuVars
<1>6. LinkedTasksBuilt' /\ RunQueueLinked' /\ TaskPagesInUse'
  BY <1>0, InitNotPage, <1>7
  DEF TypeOK, LinkedTasksBuilt, RunQueueLinked, TaskPagesInUse, IsTask, pageVars,
      forkVars, cpuVars
<1> QED
  BY <1>1, <1>2, <1>3, <1>4, <1>5, <1>6

\* do_fork finds no empty slot and frees the page.
LEMMA ForkNoSlotInv == KernelInv /\ ForkNoSlot => KernelInv'
<1> SUFFICES ASSUME KernelInv, ForkNoSlot PROVE KernelInv'
  OBVIOUS
<1> USE DEF KernelInv, ForkNoSlot, free_page, ForkEnds, Goto
<1>0. /\ current = InitTask /\ frame[current] = "none" /\ at[current] = "fork_build"
      /\ depth[current] = 0 /\ preempt_count[current] = 0
  BY ForkFacts DEF InitPoint, ForkPoint
<1>7. /\ scan[current] \in Page /\ ~IsTask(scan[current])
      /\ booted < Len(Threads) /\ booted' \in 0 .. Len(Threads)
  BY <1>0, ThreadsAssumption DEF TypeOK, ForkLocals, ForkPoint
<1>1. TypeOK'
  BY <1>0, <1>7 DEF TypeOK, BasePoint, ForkPoint, pageVars, forkVars, cpuVars
<1>2. StackShape' /\ PreemptCountIsScheduleDepth'
  BY <1>0
  DEF TypeOK, StackShape, PreemptCountIsScheduleDepth, ScheduleDepth, IsTask,
      SchedPoint, pageVars, forkVars, cpuVars
<1>3. ParkedTasks' /\ InterruptMask'
  BY <1>0 DEF TypeOK, ParkedTasks, InterruptMask, Top, TopOf, IsTask, cpuVars
<1>4. InitRunsFirst' /\ MoveToUserLocals'
  BY <1>0, InitNotPage
  DEF TypeOK, InitRunsFirst, InitPoint, ForkPoint, IsTask, MoveToUserLocals, pageVars,
      forkVars, cpuVars
<1>5. ForkLocals'
  BY <1>0
  DEF TypeOK, ForkLocals, ForkPoint, IsTask, InRunList, pageVars, forkVars, cpuVars
<1>6. LinkedTasksBuilt' /\ RunQueueLinked' /\ TaskPagesInUse'
  BY <1>0, InitNotPage, <1>7
  DEF TypeOK, LinkedTasksBuilt, RunQueueLinked, TaskPagesInUse, IsTask, pageVars,
      forkVars, cpuVars
<1> QED
  BY <1>1, <1>2, <1>3, <1>4, <1>5, <1>6

\* The parent gives half its slice away.
LEMMA ForkHalveInv == KernelInv /\ ForkHalve => KernelInv'
<1> SUFFICES ASSUME KernelInv, ForkHalve PROVE KernelInv'
  OBVIOUS
<1> USE DEF KernelInv, ForkHalve, Goto
<1>0. /\ current = InitTask /\ frame[current] = "none" /\ at[current] = "fork_halve"
      /\ depth[current] = 0 /\ preempt_count[current] = 0
  BY ForkFacts DEF InitPoint, ForkPoint
<1>7. counter[current] \div 2 \in 0 .. FullSlice
  BY SliceAssumption DEF TypeOK, FullSlice
<1>1. TypeOK'
  BY <1>0, <1>7 DEF TypeOK, BasePoint, ForkPoint, pageVars, forkVars, cpuVars
<1>2. StackShape' /\ PreemptCountIsScheduleDepth'
  BY <1>0
  DEF TypeOK, StackShape, PreemptCountIsScheduleDepth, ScheduleDepth, IsTask,
      SchedPoint, pageVars, forkVars, cpuVars
<1>3. ParkedTasks' /\ InterruptMask'
  BY <1>0 DEF TypeOK, ParkedTasks, InterruptMask, Top, TopOf, IsTask, cpuVars
<1>4. InitRunsFirst' /\ MoveToUserLocals'
  BY <1>0, InitNotPage
  DEF TypeOK, InitRunsFirst, InitPoint, ForkPoint, IsTask, MoveToUserLocals, pageVars,
      forkVars, cpuVars
<1>5. ForkLocals'
  BY <1>0
  DEF TypeOK, ForkLocals, ForkPoint, IsTask, InRunList, pageVars, forkVars, cpuVars
<1>6. LinkedTasksBuilt' /\ RunQueueLinked' /\ TaskPagesInUse'
  BY <1>0, InitNotPage
  DEF TypeOK, LinkedTasksBuilt, RunQueueLinked, TaskPagesInUse, IsTask, pageVars,
      forkVars, cpuVars
<1> QED
  BY <1>1, <1>2, <1>3, <1>4, <1>5, <1>6

\* g_task[pid] = p.
LEMMA ForkPublishInv == KernelInv /\ ForkPublish => KernelInv'
<1> SUFFICES ASSUME KernelInv, ForkPublish PROVE KernelInv'
  OBVIOUS
<1> USE DEF KernelInv, ForkPublish, Goto
<1>0. /\ current = InitTask /\ frame[current] = "none" /\ at[current] = "fork_publish"
      /\ depth[current] = 0 /\ preempt_count[current] = 0
  BY ForkFacts DEF InitPoint, ForkPoint
<1>7. newpid \in Slot /\ scan[current] \in Page
  BY <1>0 DEF ForkLocals, ForkPoint
<1>1. TypeOK'
  BY <1>0, <1>7, InitNotPage DEF TypeOK, BasePoint, ForkPoint, pageVars, forkVars, cpuVars
<1>2. StackShape' /\ PreemptCountIsScheduleDepth'
  BY <1>0
  DEF TypeOK, StackShape, PreemptCountIsScheduleDepth, ScheduleDepth, IsTask,
      SchedPoint, pageVars, forkVars, cpuVars
<1>3. ParkedTasks' /\ InterruptMask'
  BY <1>0 DEF TypeOK, ParkedTasks, InterruptMask, Top, TopOf, IsTask, cpuVars
<1>4. InitRunsFirst' /\ MoveToUserLocals'
  BY <1>0, InitNotPage
  DEF TypeOK, InitRunsFirst, InitPoint, ForkPoint, IsTask, MoveToUserLocals, pageVars,
      forkVars, cpuVars
<1>5. ForkLocals'
  BY <1>0
  DEF TypeOK, ForkLocals, ForkPoint, IsTask, InRunList, pageVars, forkVars, cpuVars
<1>6. LinkedTasksBuilt' /\ RunQueueLinked' /\ TaskPagesInUse'
  BY <1>0, InitNotPage
  DEF TypeOK, LinkedTasksBuilt, RunQueueLinked, TaskPagesInUse, IsTask, pageVars,
      forkVars, cpuVars
<1> QED
  BY <1>1, <1>2, <1>3, <1>4, <1>5, <1>6

\* enqueue_task on the kernel's run queue.
LEMMA RunListEnqueue ==
  ASSUME run_list \in Seq(Page), RunQueueLinked, NEW p \in Page, ~InRunList(p),
         run_list' = enqueue_task(run_list, p),
         p \in linked', linked \subseteq linked'
  PROVE  run_list' \in Seq(Page) /\ run_list' # <<>> /\ RunQueueLinked'
<1>1. run_list' \in Seq(Page) /\ run_list' # <<>>
  BY EnqueueFacts
<1>2. /\ \A i \in 1 .. Len(run_list) : run_list[i] # p
      /\ \A i, j \in 1 .. Len(run_list) : run_list[i] = run_list[j] => i = j
  BY DEF InRunList, RunQueueLinked
<1>3. \A i, j \in 1 .. Len(run_list') : run_list'[i] = run_list'[j] => i = j
  BY <1>2, EnqueueDistinct
<1>4. \A i \in 1 .. Len(run_list') :
        run_list'[i] = p \/ \E j \in 1 .. Len(run_list) : run_list'[i] = run_list[j]
  BY EnqueueDistinct
<1>5. \A i \in 1 .. Len(run_list') : run_list'[i] \in linked'
  BY <1>4 DEF RunQueueLinked
<1> QED
  BY <1>1, <1>3, <1>5 DEF RunQueueLinked

\* SET_LINKS(p).
LEMMA ForkLinkInv == KernelInv /\ ForkLink => KernelInv'
<1> SUFFICES ASSUME KernelInv, ForkLink PROVE KernelInv'
  OBVIOUS
<1> USE DEF KernelInv, ForkLink, Goto
<1>0. /\ current = InitTask /\ frame[current] = "none" /\ at[current] = "fork_link"
      /\ depth[current] = 0 /\ preempt_count[current] = 0
  BY ForkFacts DEF InitPoint, ForkPoint
<1>7. scan[current] \in Page /\ IsTask(scan[current])
  BY <1>0 DEF ForkLocals, ForkPoint
<1>1. TypeOK'
  BY <1>0, <1>7 DEF TypeOK, BasePoint, ForkPoint, pageVars, forkVars, cpuVars
<1>2. StackShape' /\ PreemptCountIsScheduleDepth'
  BY <1>0
  DEF TypeOK, StackShape, PreemptCountIsScheduleDepth, ScheduleDepth, IsTask,
      SchedPoint, pageVars, forkVars, cpuVars
<1>3. ParkedTasks' /\ InterruptMask'
  BY <1>0 DEF TypeOK, ParkedTasks, InterruptMask, Top, TopOf, IsTask, cpuVars
<1>4. InitRunsFirst' /\ MoveToUserLocals'
  BY <1>0, InitNotPage
  DEF TypeOK, InitRunsFirst, InitPoint, ForkPoint, IsTask, MoveToUserLocals, pageVars,
      forkVars, cpuVars
<1>5. ForkLocals'
  BY <1>0
  DEF TypeOK, ForkLocals, ForkPoint, IsTask, InRunList, pageVars, forkVars, cpuVars
<1>6. LinkedTasksBuilt' /\ RunQueueLinked' /\ TaskPagesInUse'
  BY <1>0, InitNotPage, <1>7
  DEF TypeOK, LinkedTasksBuilt, RunQueueLinked, TaskPagesInUse, IsTask, pageVars,
      forkVars, cpuVars
<1> QED
  BY <1>1, <1>2, <1>3, <1>4, <1>5, <1>6

\* list_add(&p->run_list, &rq->rq_head).
LEMMA ForkEnqueueInv == KernelInv /\ ForkEnqueue => KernelInv'
<1> SUFFICES ASSUME KernelInv, ForkEnqueue PROVE KernelInv'
  OBVIOUS
<1> USE DEF KernelInv, ForkEnqueue, Goto
<1>0. /\ current = InitTask /\ frame[current] = "none" /\ at[current] = "fork_enqueue"
      /\ depth[current] = 0 /\ preempt_count[current] = 0
  BY ForkFacts DEF InitPoint, ForkPoint
<1>7. scan[current] \in Page /\ scan[current] \in linked /\ ~InRunList(scan[current])
  BY <1>0 DEF ForkLocals, ForkPoint
<1>8. run_list' \in Seq(Page) /\ run_list' # <<>> /\ RunQueueLinked'
  BY <1>7, RunListEnqueue DEF TypeOK
<1>1. TypeOK'
  BY <1>0, <1>7, <1>8 DEF TypeOK, BasePoint, ForkPoint, pageVars, forkVars, cpuVars
<1>2. StackShape' /\ PreemptCountIsScheduleDepth'
  BY <1>0
  DEF TypeOK, StackShape, PreemptCountIsScheduleDepth, ScheduleDepth, IsTask,
      SchedPoint, pageVars, forkVars, cpuVars
<1>3. ParkedTasks' /\ InterruptMask'
  BY <1>0 DEF TypeOK, ParkedTasks, InterruptMask, Top, TopOf, IsTask, cpuVars
<1>4. InitRunsFirst' /\ MoveToUserLocals'
  BY <1>0, InitNotPage
  DEF TypeOK, InitRunsFirst, InitPoint, ForkPoint, IsTask, MoveToUserLocals, pageVars,
      forkVars, cpuVars
<1>5. ForkLocals'
  BY <1>0
  DEF TypeOK, ForkLocals, ForkPoint, IsTask, InRunList, pageVars, forkVars, cpuVars
<1>6. LinkedTasksBuilt' /\ RunQueueLinked' /\ TaskPagesInUse'
  BY <1>0, InitNotPage, <1>8
  DEF TypeOK, LinkedTasksBuilt, TaskPagesInUse, IsTask, pageVars,
      forkVars, cpuVars
<1> QED
  BY <1>1, <1>2, <1>3, <1>4, <1>5, <1>6

\* rq->nr_running++, and do_fork returns.
LEMMA ForkAccountInv == KernelInv /\ ForkAccount => KernelInv'
<1> SUFFICES ASSUME KernelInv, ForkAccount PROVE KernelInv'
  OBVIOUS
<1> USE DEF KernelInv, ForkAccount, ForkEnds, Goto
<1>0. /\ current = InitTask /\ frame[current] = "none" /\ at[current] = "fork_account"
      /\ depth[current] = 0 /\ preempt_count[current] = 0
  BY ForkFacts DEF InitPoint, ForkPoint
<1>7. booted < Len(Threads) /\ booted' \in 0 .. Len(Threads)
  BY <1>0, ThreadsAssumption DEF TypeOK, ForkLocals, ForkPoint
<1>1. TypeOK'
  BY <1>0, <1>7 DEF TypeOK, BasePoint, ForkPoint, pageVars, forkVars, cpuVars
<1>2. StackShape' /\ PreemptCountIsScheduleDepth'
  BY <1>0
  DEF TypeOK, StackShape, PreemptCountIsScheduleDepth, ScheduleDepth, IsTask,
      SchedPoint, pageVars, forkVars, cpuVars
<1>3. ParkedTasks' /\ InterruptMask'
  BY <1>0 DEF TypeOK, ParkedTasks, InterruptMask, Top, TopOf, IsTask, cpuVars
<1>4. InitRunsFirst' /\ MoveToUserLocals'
  BY <1>0, InitNotPage
  DEF TypeOK, InitRunsFirst, InitPoint, ForkPoint, IsTask, MoveToUserLocals, pageVars,
      forkVars, cpuVars
<1>5. ForkLocals'
  BY <1>0
  DEF TypeOK, ForkLocals, ForkPoint, IsTask, InRunList, pageVars, forkVars, cpuVars
<1>6. LinkedTasksBuilt' /\ RunQueueLinked' /\ TaskPagesInUse'
  BY <1>0, InitNotPage
  DEF TypeOK, LinkedTasksBuilt, RunQueueLinked, TaskPagesInUse, IsTask, pageVars,
      forkVars, cpuVars
<1> QED
  BY <1>1, <1>2, <1>3, <1>4, <1>5, <1>6

\* The child's task_struct is filled in.
LEMMA ForkBuildInv == KernelInv /\ ForkBuild => KernelInv'
<1> SUFFICES ASSUME KernelInv, ForkBuild PROVE KernelInv'
  OBVIOUS
<1> USE DEF KernelInv, ForkBuild
<1> DEFINE p == scan[InitTask]
<1>0. /\ current = InitTask /\ frame[current] = "none" /\ at[current] = "fork_build"
      /\ depth[current] = 0 /\ preempt_count[current] = 0
  BY ForkFacts DEF InitPoint, ForkPoint
<1>1. /\ p \in Page /\ p # current /\ mem_map[p] = 1 /\ ~IsTask(p)
      /\ booted < Len(Threads)
  BY <1>0, InitNotPage DEF ForkLocals, ForkPoint
<1>2. depth[p] = 0 /\ frame[p] = "none"
  BY <1>1, InitNotPage DEF StackShape, IsTask, InterruptedPoint, BasePoint, ForkPoint
<1>3. ~InRunList(p) /\ p \notin linked
  BY <1>1 DEF LinkedTasksBuilt, RunQueueLinked, InRunList
<1>4. newpid' \in Slot
  BY FindEmpty DEF TypeOK
<1>5. (counter[current] + 1) \div 2 \in 0 .. FullSlice
  BY SliceAssumption DEF TypeOK, FullSlice
<1>6. Threads[booted + 1] \in Body
  BY <1>1, ThreadsAssumption DEF TypeOK
<1> HIDE DEF p
<1>7. TypeOK'
  BY <1>0, <1>1, <1>4, <1>5, <1>6, InitNotPage
  DEF TypeOK, BasePoint, ForkPoint, pageVars, cpuVars, p
<1>8. StackShape' /\ PreemptCountIsScheduleDepth'
  BY <1>0, <1>1, <1>2, InitNotPage
  DEF TypeOK, StackShape, PreemptCountIsScheduleDepth, ScheduleDepth, IsTask,
      SchedPoint, cpuVars, p
<1>9. ParkedTasks' /\ InterruptMask'
  BY <1>0, <1>1, <1>2, InitNotPage
  DEF TypeOK, ParkedTasks, InterruptMask, Top, TopOf, IsTask, cpuVars, p
<1>10. InitRunsFirst' /\ MoveToUserLocals'
  BY <1>0, <1>1, <1>2, InitNotPage
  DEF TypeOK, InitRunsFirst, InitPoint, ForkPoint, IsTask, MoveToUserLocals, pageVars,
      cpuVars, p
<1>11. ForkLocals'
  BY <1>0, <1>1, <1>3, <1>4, InitNotPage
  DEF TypeOK, ForkLocals, ForkPoint, IsTask, InRunList, pageVars, cpuVars, p
<1>12. LinkedTasksBuilt' /\ RunQueueLinked' /\ TaskPagesInUse'
  BY <1>0, <1>1, InitNotPage
  DEF TypeOK, LinkedTasksBuilt, RunQueueLinked, TaskPagesInUse, IsTask, pageVars,
      cpuVars, p
<1> QED
  BY <1>7, <1>8, <1>9, <1>10, <1>11, <1>12

----------------------------------------------------------------------------
(* user_thread and the system calls. *)

\* move_to_user_space finds a page for the stack.
LEMMA MoveToUserScanInv == KernelInv /\ MoveToUserScan => KernelInv'
<1> SUFFICES ASSUME KernelInv, MoveToUserScan PROVE KernelInv'
  OBVIOUS
<1> USE DEF KernelInv, MoveToUserScan, Goto
<1>0. frame[current] = "none" /\ at[current] = "thread" /\ current # InitTask
  BY TopFacts DEF BasePoint, ForkPoint, InitPoint
<1>8. find_free(mem_map) \in Page /\ mem_map[find_free(mem_map)] = 0
  BY FindFree DEF TypeOK
<1>1. TypeOK'
  BY <1>0, <1>8 DEF TypeOK, BasePoint, pageVars, forkVars, cpuVars
<1>2. StackShape' /\ PreemptCountIsScheduleDepth'
  BY <1>0, TopFacts
  DEF TypeOK, StackShape, PreemptCountIsScheduleDepth, ScheduleDepth, IsTask,
      SchedPoint
<1>3. ParkedTasks' /\ InterruptMask'
  BY <1>0 DEF TypeOK, ParkedTasks, InterruptMask, Top, TopOf, IsTask, cpuVars
<1>5. InitRunsFirst' /\ MoveToUserLocals'
  BY <1>0, InitNotPage, <1>8
  DEF TypeOK, InitRunsFirst, InitPoint, ForkPoint, IsTask, MoveToUserLocals, pageVars,
      forkVars, cpuVars
<1>6. ForkLocals'
  BY <1>0, InitNotPage
  DEF TypeOK, ForkLocals, ForkPoint, IsTask, InRunList, pageVars, forkVars, cpuVars
<1>7. LinkedTasksBuilt' /\ RunQueueLinked' /\ TaskPagesInUse'
  BY <1>0, InitNotPage
  DEF TypeOK, LinkedTasksBuilt, RunQueueLinked, TaskPagesInUse, IsTask, pageVars,
      forkVars, cpuVars
<1> QED
  BY <1>1, <1>2, <1>3, <1>5, <1>6, <1>7

\* The user stack is taken and the pt_regs are filled in.
LEMMA MoveToUserTakeInv == KernelInv /\ MoveToUserTake => KernelInv'
<1> SUFFICES ASSUME KernelInv, MoveToUserTake PROVE KernelInv'
  OBVIOUS
<1> USE DEF KernelInv, MoveToUserTake, Goto, Take
<1>0. frame[current] = "none" /\ at[current] = "mtus_take" /\ current # InitTask
  BY TopFacts DEF BasePoint, ForkPoint, InitPoint
<1>8. scan[current] \in Page
  BY <1>0 DEF MoveToUserLocals, TypeOK
<1>1. TypeOK'
  BY <1>0, <1>8 DEF TypeOK, BasePoint, pageVars, forkVars, cpuVars, take_page
<1>2. StackShape' /\ PreemptCountIsScheduleDepth'
  BY <1>0, TopFacts
  DEF TypeOK, StackShape, PreemptCountIsScheduleDepth, ScheduleDepth, IsTask,
      SchedPoint
<1>3. ParkedTasks' /\ InterruptMask'
  BY <1>0 DEF TypeOK, ParkedTasks, InterruptMask, Top, TopOf, IsTask, cpuVars
<1>5. InitRunsFirst' /\ MoveToUserLocals'
  BY <1>0, InitNotPage
  DEF TypeOK, InitRunsFirst, InitPoint, ForkPoint, IsTask, MoveToUserLocals, pageVars,
      forkVars, cpuVars
<1>6. ForkLocals'
  BY <1>0, InitNotPage
  DEF TypeOK, ForkLocals, ForkPoint, IsTask, InRunList, pageVars, forkVars, cpuVars
<1>7. LinkedTasksBuilt' /\ RunQueueLinked' /\ TaskPagesInUse'
  BY <1>0, InitNotPage, <1>8
  DEF TypeOK, LinkedTasksBuilt, RunQueueLinked, TaskPagesInUse, IsTask, pageVars,
      forkVars, cpuVars, take_page
<1> QED
  BY <1>1, <1>2, <1>3, <1>5, <1>6, <1>7

\* sys_malloc takes a page.
LEMMA SysMallocInv == KernelInv /\ SysMalloc => KernelInv'
<1> SUFFICES ASSUME KernelInv, SysMalloc PROVE KernelInv'
  OBVIOUS
<1> USE DEF KernelInv, SysMalloc, Goto, SvcReturn
<1>0. frame[current] = "none" /\ at[current] = "user" /\ current # InitTask
  BY TopFacts DEF BasePoint, ForkPoint, InitPoint
<1>8. find_free(mem_map) \in Page /\ mem_map[find_free(mem_map)] = 0
  BY FindFree DEF TypeOK
<1>1. TypeOK'
  BY <1>0, <1>8 DEF TypeOK, BasePoint, pageVars, forkVars, cpuVars, take_page
<1>2. StackShape' /\ PreemptCountIsScheduleDepth'
  BY <1>0, TopFacts
  DEF TypeOK, StackShape, PreemptCountIsScheduleDepth, ScheduleDepth, IsTask,
      SchedPoint
<1>3. ParkedTasks' /\ InterruptMask'
  BY <1>0 DEF TypeOK, ParkedTasks, InterruptMask, Top, TopOf, IsTask, cpuVars
<1>5. InitRunsFirst' /\ MoveToUserLocals'
  BY <1>0, InitNotPage
  DEF TypeOK, InitRunsFirst, InitPoint, ForkPoint, IsTask, MoveToUserLocals, pageVars,
      forkVars, cpuVars
<1>6. ForkLocals'
  BY <1>0, InitNotPage
  DEF TypeOK, ForkLocals, ForkPoint, IsTask, InRunList, pageVars, forkVars, cpuVars
<1>7. LinkedTasksBuilt' /\ RunQueueLinked' /\ TaskPagesInUse'
  BY <1>0, InitNotPage, <1>8
  DEF TypeOK, LinkedTasksBuilt, RunQueueLinked, TaskPagesInUse, IsTask, pageVars,
      forkVars, cpuVars, take_page
<1> QED
  BY <1>1, <1>2, <1>3, <1>5, <1>6, <1>7

\* do_fork under clone fails and frees its page.
LEMMA SysCloneFailsInv == KernelInv /\ SysCloneFails => KernelInv'
<1> SUFFICES ASSUME KernelInv, SysCloneFails PROVE KernelInv'
  OBVIOUS
<1> USE DEF KernelInv, SysCloneFails, Goto, SvcReturn
<1>0. frame[current] = "none" /\ at[current] = "user" /\ current # InitTask
  BY TopFacts DEF BasePoint, ForkPoint, InitPoint
<1>8. find_free(mem_map) \in Page /\ mem_map[find_free(mem_map)] = 0
  BY FindFree DEF TypeOK
<1>1. TypeOK'
  BY <1>0, <1>8 DEF TypeOK, BasePoint, pageVars, forkVars, cpuVars, take_page, free_page
<1>2. StackShape' /\ PreemptCountIsScheduleDepth'
  BY <1>0, TopFacts
  DEF TypeOK, StackShape, PreemptCountIsScheduleDepth, ScheduleDepth, IsTask,
      SchedPoint
<1>3. ParkedTasks' /\ InterruptMask'
  BY <1>0 DEF TypeOK, ParkedTasks, InterruptMask, Top, TopOf, IsTask, cpuVars
<1>5. InitRunsFirst' /\ MoveToUserLocals'
  BY <1>0, InitNotPage
  DEF TypeOK, InitRunsFirst, InitPoint, ForkPoint, IsTask, MoveToUserLocals, pageVars,
      forkVars, cpuVars
<1>6. ForkLocals'
  BY <1>0, InitNotPage
  DEF TypeOK, ForkLocals, ForkPoint, IsTask, InRunList, pageVars, forkVars, cpuVars
<1>7. LinkedTasksBuilt' /\ RunQueueLinked' /\ TaskPagesInUse'
  BY <1>0, InitNotPage, <1>8
  DEF TypeOK, LinkedTasksBuilt, RunQueueLinked, TaskPagesInUse, IsTask, pageVars,
      forkVars, cpuVars, take_page, free_page
<1> QED
  BY <1>1, <1>2, <1>3, <1>5, <1>6, <1>7

\* do_fork under clone succeeds.
LEMMA SysCloneInv == KernelInv /\ SysClone => KernelInv'
<1> SUFFICES ASSUME KernelInv, SysClone PROVE KernelInv'
  OBVIOUS
<1> DEFINE p == find_free(mem_map)
<1> DEFINE n == find_empty_task(g_task)
<1> USE DEF KernelInv, SysClone
<1>0. frame[current] = "none" /\ at[current] = "user" /\ current # InitTask
  BY TopFacts DEF BasePoint, ForkPoint, InitPoint
<1>1. /\ p \in Page /\ mem_map[p] = 0 /\ ~IsTask(p) /\ p # current
  BY <1>0, FindFree DEF TypeOK, TaskPagesInUse, InitRunsFirst
<1>2. depth[p] = 0 /\ frame[p] = "none"
  BY <1>1, InitNotPage DEF StackShape, IsTask, InterruptedPoint, BasePoint, ForkPoint
<1>3. ~InRunList(p) /\ p \notin linked
  BY <1>1 DEF LinkedTasksBuilt, RunQueueLinked, InRunList
<1>4. n \in Slot
  BY FindEmpty DEF TypeOK
<1>5. /\ (counter[current] + 1) \div 2 \in 0 .. FullSlice
      /\ counter[current] \div 2 \in 0 .. FullSlice
  BY SliceAssumption DEF TypeOK, FullSlice
<1>6. run_list' \in Seq(Page) /\ run_list' # <<>> /\ RunQueueLinked'
  BY <1>1, <1>3, RunListEnqueue DEF TypeOK
<1> HIDE DEF p, n
<1>7. TypeOK'
  <2>1. counter' \in [Task -> 0 .. FullSlice]
    BY <1>1, <1>5, InitNotPage DEF TypeOK, p
  <2>2. /\ mem_map' \in [Page -> {0, 1}] /\ held' \in [Task -> SUBSET Page]
        /\ g_task' \in [Slot -> Task \cup {Null}] /\ linked' \in SUBSET Page
    <3>1. mem_map' \in [Page -> {0, 1}]
      BY <1>1 DEF TypeOK, p, take_page
    <3>2. held' \in [Task -> SUBSET Page]
      BY <1>1 DEF TypeOK, p
    <3>3. g_task' \in [Slot -> Task \cup {Null}]
      BY <1>1, <1>4, InitNotPage DEF TypeOK, p, n
    <3>4. linked' \in SUBSET Page
      BY <1>1 DEF TypeOK, p
    <3> QED
      BY <3>1, <3>2, <3>3, <3>4
  <2>3. /\ need_resched' \in [Task -> {0, 1}] /\ preempt_count' \in [Task -> Nat]
        /\ pid' \in [Task -> Slot] /\ nr_running' \in Nat
    <3>1. need_resched' \in [Task -> {0, 1}]
      BY <1>1 DEF TypeOK, p
    <3>2. preempt_count' \in [Task -> Nat]
      <4>1. preempt_count' = [preempt_count EXCEPT ![p] = 0] /\ preempt_count \in [Task -> Nat]
        BY DEF TypeOK, p
      <4> HIDE DEF KernelInv, SysClone
      <4> QED
        BY <4>1
    <3>3. pid' \in [Task -> Slot]
      BY <1>1, <1>4 DEF TypeOK, p, n
    <3>4. nr_running' \in Nat
      BY DEF TypeOK
    <3> QED
      BY <3>1, <3>2, <3>3, <3>4
  <2>4. /\ fn' \in [Task -> Body \cup {"none"}] /\ pstate' \in [Task -> {"EL1h", "EL0t"}]
        /\ at' \in [Task -> BasePoint \cup {"none"}]
    <3>1. fn' \in [Task -> Body \cup {"none"}]
      BY <1>1 DEF TypeOK, p
    <3>2. pstate' \in [Task -> {"EL1h", "EL0t"}]
      BY <1>1 DEF TypeOK, p
    <3>3. at' \in [Task -> BasePoint \cup {"none"}]
      BY <1>1, InitNotPage DEF TypeOK, BasePoint, p
    <3> QED
      BY <3>1, <3>2, <3>3
  <2> QED
    BY <1>6, <2>1, <2>2, <2>3, <2>4 DEF TypeOK
<1>8. StackShape' /\ PreemptCountIsScheduleDepth'
  <2>1. StackShape'
    BY <1>0, <1>1, <1>2, InitNotPage, TopFacts DEF TypeOK, StackShape, p
  <2>2. preempt_count' = [preempt_count EXCEPT ![p] = 0]
    BY DEF p
  <2>3. \A t \in Task : t # p => ScheduleDepth(t)' = ScheduleDepth(t)
    BY <1>0, <1>1, InitNotPage DEF TypeOK, ScheduleDepth, SchedPoint, p
  <2>4. \A t \in Task : t = p => at'[t] = "ret_from_fork" /\ depth'[t] = 0
    BY <1>1, <1>2, InitNotPage DEF TypeOK, p
  <2>5. \A t \in Task : t = p => ScheduleDepth(t)' = 0
    <3> HIDE DEF KernelInv, SysClone
    <3> SUFFICES ASSUME NEW t \in Task, t = p PROVE ScheduleDepth(t)' = 0
      OBVIOUS
    <3>1. at'[t] = "ret_from_fork" /\ depth'[t] = 0
      BY <2>4
    <3> QED
      BY <3>1 DEF ScheduleDepth, SchedPoint
  <2>6. \A t \in Task : IsTask(t)' => t = p \/ IsTask(t)
    BY <1>0, <1>1, InitNotPage DEF TypeOK, IsTask, p
  <2>7. \A t \in Task : preempt_count'[t] = IF t = p THEN 0 ELSE preempt_count[t]
    BY <1>1, <2>2, InitNotPage DEF TypeOK
  <2>8. PreemptCountIsScheduleDepth'
    <3> HIDE DEF SysClone
    <3> QED
      BY <2>3, <2>5, <2>6, <2>7 DEF PreemptCountIsScheduleDepth
  <2> QED
    BY <2>1, <2>8
<1>9. ParkedTasks' /\ InterruptMask'
  BY <1>0, <1>1, <1>2, InitNotPage
  DEF TypeOK, ParkedTasks, InterruptMask, Top, TopOf, IsTask, p
<1>10. InitRunsFirst' /\ MoveToUserLocals'
  BY <1>0, <1>1, <1>2, <1>6, InitNotPage
  DEF TypeOK, InitRunsFirst, InitPoint, ForkPoint, IsTask, MoveToUserLocals, p
<1>11. ForkLocals'
  BY <1>0, <1>1, InitNotPage
  DEF TypeOK, ForkLocals, ForkPoint, p
<1>12. LinkedTasksBuilt' /\ TaskPagesInUse'
  BY <1>0, <1>1, InitNotPage
  DEF TypeOK, LinkedTasksBuilt, TaskPagesInUse, IsTask, take_page, p
<1> QED
  BY <1>6, <1>7, <1>8, <1>9, <1>10, <1>11, <1>12

\* A stuttering step, panic() included.
LEMMA UnchangedInv == KernelInv /\ UNCHANGED vars => KernelInv'
<1> SUFFICES ASSUME KernelInv, UNCHANGED vars PROVE KernelInv'
  OBVIOUS
<1> USE DEF KernelInv, vars
<1>1. TypeOK' /\ LinkedTasksBuilt' /\ TaskPagesInUse' /\ MoveToUserLocals'
  BY DEF TypeOK, LinkedTasksBuilt, TaskPagesInUse, MoveToUserLocals, IsTask
<1>2. StackShape' /\ PreemptCountIsScheduleDepth'
  BY DEF StackShape, PreemptCountIsScheduleDepth, ScheduleDepth, IsTask
<1>3. ParkedTasks' /\ InterruptMask'
  BY DEF ParkedTasks, InterruptMask, TopOf, Top, IsTask
<1>4. InitRunsFirst'
  BY DEF InitRunsFirst, IsTask
<1>5. ForkLocals' /\ RunQueueLinked'
  BY DEF ForkLocals, InRunList, RunQueueLinked, IsTask
<1> QED
  BY <1>1, <1>2, <1>3, <1>4, <1>5

----------------------------------------------------------------------------
(* The theorems. *)

\* Every step of the kernel preserves KernelInv.
LEMMA NextKernelInv == KernelInv /\ [Next]_vars => KernelInv'
<1> SUFFICES ASSUME KernelInv, [Next]_vars PROVE KernelInv'
  OBVIOUS
<1>1. CASE TimerIrq
  BY <1>1, El1IrqReturnInv, El1IrqPreemptInv, El0IrqInv DEF TimerIrq
<1>2. CASE Schedule
  BY <1>2, ScheduleSameInv, ScheduleGarbageInv, ScheduleSwitchInv DEF Schedule
<1>3. CASE Exit
  BY <1>3, FinishSwitchInv, PreemptReturnInv, SchedReturnInv, RetFromForkInv,
     RetToUserScheduleInv, RetToUserInv, RestoreElrInv, EretInv DEF Exit
<1>4. CASE KernelThread
  BY <1>4, ForkNoPageInv, ForkScanInv, ForkTakeInv, ForkNoSlotInv, ForkBuildInv,
     ForkHalveInv, ForkPublishInv, ForkLinkInv, ForkEnqueueInv, ForkAccountInv
  DEF KernelThread
<1>5. CASE UserThread
  BY <1>5, MoveToUserNoPageInv, MoveToUserScanInv, MoveToUserTakeInv DEF UserThread
<1>6. CASE Svc
  BY <1>6, SysOtherInv, SysMallocInv, SysCloneFailsInv, SysCloneInv DEF Svc
<1>7. CASE Panic \/ UNCHANGED vars
  BY <1>7, UnchangedInv DEF Panic
<1> QED
  BY <1>1, <1>2, <1>3, <1>4, <1>5, <1>6, <1>7 DEF Next, CpuStep

\* KernelInv holds in every state the kernel reaches, whatever interrupts
\* and system calls arrive.
THEOREM KernelInvariant == Spec => []KernelInv
<1>1. Init => KernelInv
  BY InitKernelInv
<1>2. KernelInv /\ [Next]_vars => KernelInv'
  BY NextKernelInv
<1> QED
  BY <1>1, <1>2, PTL DEF Spec

\* Type correctness: in particular no task's counter leaves 0 .. FullSlice.
THEOREM TypeCorrect == Spec => []TypeOK
<1>1. KernelInv => TypeOK
  BY DEF KernelInv
<1> QED
  BY <1>1, KernelInvariant, PTL

\* preempt_schedule_irq() is never entered inside __schedule().
THEOREM PreemptionNeverNests == Spec => []NoNestedPreemption
<1>1. KernelInv => NoNestedPreemption
  BY DEF KernelInv, StackShape, NoNestedPreemption, InterruptedPoint, SchedPoint, TypeOK
<1> QED
  BY <1>1, KernelInvariant, PTL

\* preempt_count is the number of open __schedule() calls of every task.
THEOREM PreemptCountExact == Spec => []PreemptCountIsScheduleDepth
<1>1. KernelInv => PreemptCountIsScheduleDepth
  BY DEF KernelInv
<1> QED
  BY <1>1, KernelInvariant, PTL

\* A task off the CPU is parked in cpu_switch_to, or has never run, and has
\* no reschedule request.
THEOREM OffCpuTasksParked == Spec => []ParkedTasks
<1>1. KernelInv => ParkedTasks
  BY DEF KernelInv
<1> QED
  BY <1>1, KernelInvariant, PTL

\* The interrupt mask is right at every point of the running task.
THEOREM InterruptMaskCorrect == Spec => []InterruptMask
<1>1. KernelInv => InterruptMask
  BY DEF KernelInv
<1> QED
  BY <1>1, KernelInvariant, PTL

\* The loop of pick_next_task_nop ends whenever __schedule() runs it.
THEOREM PickTerminates == Spec => []PickAlwaysEnds
<1>1. KernelInv => PickAlwaysEnds
  BY PickFacts DEF PickAlwaysEnds
<1> QED
  BY <1>1, KernelInvariant, PTL

\* No page that holds a task is ever offered by get_free_page again.
THEOREM TaskPagesStayInUse == Spec => []TaskPagesInUse
<1>1. KernelInv => TaskPagesInUse
  BY DEF KernelInv
<1> QED
  BY <1>1, KernelInvariant, PTL

\* Every queued task is queued once and is on the ring reset_score walks.
THEOREM RunQueueOnRing == Spec => []RunQueueLinked
<1>1. KernelInv => RunQueueLinked
  BY DEF KernelInv
<1> QED
  BY <1>1, KernelInvariant, PTL

\* Only cpu_switch_to changes current, and it goes to a queued task that has
\* ticks left.
LEMMA OnlySwitchChangesCurrent ==
  ASSUME KernelInv, [Next]_vars, current' # current
  PROVE  /\ current' \in Page
         /\ InRunList(current')
         /\ counter'[current'] > 0
<1>1. ScheduleSwitch
  BY DEF Next, CpuStep, TimerIrq, El1IrqReturn, El1IrqPreempt, El0Irq, Schedule,
     ScheduleSame, ScheduleGarbage, Exit, FinishSwitch, PreemptReturn, SchedReturn,
     RetFromFork, RetToUserSchedule, RetToUser, RestoreElr, Eret, KernelThread,
     ForkNoPage, ForkScan, ForkTake, ForkNoSlot, ForkBuild, ForkHalve, ForkPublish,
     ForkLink, ForkEnqueue, ForkAccount, UserThread, MoveToUserNoPage, MoveToUserScan,
     MoveToUserTake, Svc, SysOther, SysMalloc, SysCloneFails, SysClone, Panic, cpuVars,
     vars
<1>2. run_list # <<>> /\ current' = Next_task /\ counter' = Scores
  BY <1>1 DEF ScheduleSwitch
<1> QED
  BY <1>2, PickFacts

\* The CPU is only ever given to a queued task that has ticks left.
THEOREM SwitchesGiveTime == Spec => SwitchGivesTime
<1>1. KernelInv /\ [Next]_vars =>
        [current' # current => InRunList(current') /\ counter'[current'] > 0]_vars
  BY OnlySwitchChangesCurrent
<1> QED
  BY <1>1, KernelInvariant, PTL DEF Spec, SwitchGivesTime

\* Once init_task has lost the CPU it never gets it back: the shell of
\* start_kernel ends with the first preemption.
THEOREM InitLosesCpuForGood == Spec => InitNeverReturns
<1>1. KernelInv /\ [Next]_vars => [current' = InitTask => current = InitTask]_vars
  BY OnlySwitchChangesCurrent, InitNotPage
<1> QED
  BY <1>1, KernelInvariant, PTL DEF Spec, InitNeverReturns

----------------------------------------------------------------------------
(***************************************************************************)
(* Who owns what: no page is given out twice or leaked, a pid names one     *)
(* task, nr_running counts the queue, and kernel threads alone never leave  *)
(* the program.  OwnershipInv and LostInv are inductive relative to         *)
(* KernelInv.                                                               *)
(***************************************************************************)

----------------------------------------------------------------------------
(* Pages. *)

\* PagesExclusive says that a page has at most one holder.
LEMMA OneHolder ==
  ASSUME TypeOK
  PROVE  PagesExclusive <=>
           \A p \in Page : \A t, u \in Task : p \in held[t] /\ p \in held[u] => t = u
<1>1. ASSUME PagesExclusive, NEW p \in Page, NEW t \in Task, NEW u \in Task,
             p \in held[t], p \in held[u]
      PROVE  t = u
  <2>1. p \in held[t] \cap held[u]
    BY <1>1
  <2> QED
    BY <1>1, <2>1 DEF PagesExclusive
<1>2. ASSUME \A p \in Page : \A t, u \in Task : p \in held[t] /\ p \in held[u] => t = u,
             NEW t \in Task, NEW u \in Task, t # u
      PROVE  held[t] \cap held[u] = {}
  BY <1>2 DEF TypeOK
<1> QED
  BY <1>1, <1>2 DEF PagesExclusive

\* Taking a free page keeps the accounts: nobody held it before.
LEMMA TakeKeepsAccounts ==
  ASSUME TypeOK, TypeOK', PagesExclusive, PagesAccounted,
         NEW p \in Page, mem_map[p] = 0,
         mem_map' = take_page(mem_map, p),
         held' = [held EXCEPT ![current] = @ \cup {p}]
  PROVE  PagesExclusive' /\ PagesAccounted'
<1>1. current \in Task /\ held \in [Task -> SUBSET Page]
  BY DEF TypeOK
<1>2. \A t \in Task : p \notin held[t]
  BY DEF PagesAccounted
<1>3. \A t \in Task : \A q \in Page : q \in held'[t] <=> q \in held[t] \/ (q = p /\ t = current)
  BY <1>1
<1>4. \A q \in Page : \A t, u \in Task : q \in held'[t] /\ q \in held'[u] => t = u
  BY <1>2, <1>3, OneHolder
<1>5. PagesExclusive'
  BY <1>4, OneHolder DEF PagesExclusive, TypeOK
<1>6. \A q \in Page : mem_map'[q] = 1 <=> mem_map[q] = 1 \/ q = p
  BY DEF take_page, TypeOK
<1>7. PagesAccounted'
  BY <1>1, <1>3, <1>6 DEF PagesAccounted
<1> QED
  BY <1>5, <1>7

\* Giving back a page one holds keeps them too.
LEMMA FreeKeepsAccounts ==
  ASSUME TypeOK, TypeOK', PagesExclusive, PagesAccounted,
         NEW p \in Page, p \in held[current],
         mem_map' = free_page(mem_map, p),
         held' = [held EXCEPT ![current] = @ \ {p}]
  PROVE  PagesExclusive' /\ PagesAccounted'
<1>1. current \in Task /\ held \in [Task -> SUBSET Page]
  BY DEF TypeOK
<1>2. \A t \in Task : p \in held[t] => t = current
  BY <1>1, OneHolder
<1>3. \A t \in Task : \A q \in Page : q \in held'[t] <=> q \in held[t] /\ q # p
  BY <1>1, <1>2
<1>4. PagesExclusive'
  <2>1. \A q \in Page : \A t, u \in Task : q \in held'[t] /\ q \in held'[u] => t = u
    BY <1>3, OneHolder
  <2> QED
    BY <2>1 DEF PagesExclusive, TypeOK
<1>5. \A q \in Page : mem_map'[q] = 1 <=> mem_map[q] = 1 /\ q # p
  BY DEF free_page, TypeOK
<1>6. PagesAccounted'
  BY <1>3, <1>5 DEF PagesAccounted
<1> QED
  BY <1>4, <1>6

\* do_fork's error path: freeing a free page that was just taken.
LEMMA TakeThenFree ==
  ASSUME TypeOK, NEW p \in Page, mem_map[p] = 0
  PROVE  free_page(take_page(mem_map, p), p) = mem_map
BY DEF TypeOK, free_page, take_page

----------------------------------------------------------------------------
\* The state in which start_kernel enables interrupts.
LEMMA InitOwnershipInv == Init => OwnershipInv /\ LostInv
<1> SUFFICES ASSUME Init PROVE OwnershipInv /\ LostInv
  OBVIOUS
<1> USE DEF Init, sched_init
<1> PICK n \in BootPages :
       /\ mem_map = [p \in Page |-> IF p <= n THEN 1 ELSE 0]
       /\ held = [t \in Task |-> IF t = InitTask THEN 1 .. n ELSE {}]
  OBVIOUS
<1>1. /\ InitTask \in Task /\ InitTask \notin Page /\ Page \subseteq Task
      /\ at[InitTask] = "start_kernel"
      /\ \A p \in Page : at[p] = "none"
      /\ n \in Nat /\ n <= NR_PAGES
  BY InitNotPage, BootPagesAssumption, NrPagesAssumption
<1>2. NrRunningCountsQueue /\ SlotsMatchPids
  BY <1>1 DEF NrRunningCountsQueue, SlotsMatchPids
<1>3. PagesExclusive
  BY DEF PagesExclusive
<1>4. PagesAccounted
  BY <1>1, NrPagesAssumption DEF PagesAccounted, Page
<1>5. ForkOwns /\ OneUserThread /\ UserAfterMove
  BY <1>1 DEF ForkOwns, OneUserThread, UserAfterMove
<1>6. LostInv
  BY <1>1 DEF LostInv
<1> QED
  BY <1>2, <1>3, <1>4, <1>5, <1>6 DEF OwnershipInv

----------------------------------------------------------------------------
(* Steps that move the running task without forking or allocating. *)

\* What such a step may do to the things OwnershipInv speaks of.
QuietStep ==
  /\ UNCHANGED <<pageVars, forkVars, pstate>>
  /\ at'[InitTask] = at[InitTask]
  /\ current' = InitTask => current = InitTask
  /\ \A t \in Task :
       /\ at'[t] = "user" => pstate[t] = "EL0t"
       /\ at'[t] \in {"ret_from_fork", "thread"} =>
            at[t] \in {"ret_from_fork", "thread"}
       /\ at'[t] = "mtus_take" => at[t] = "mtus_take"
  /\ elr' # Null => pstate[elr'] = "EL0t"

\* A quiet step keeps OwnershipInv.
LEMMA QuietOwnership ==
  ASSUME OwnershipInv, QuietStep
  PROVE  OwnershipInv'
<1> USE DEF OwnershipInv, QuietStep, pageVars, forkVars
<1>1. NrRunningCountsQueue' /\ SlotsMatchPids'
  BY DEF NrRunningCountsQueue, SlotsMatchPids
<1>2. PagesExclusive' /\ PagesAccounted'
  BY DEF PagesExclusive, PagesAccounted
<1>3. ForkOwns'
  BY DEF ForkOwns
<1>4. OneUserThread'
  BY DEF OneUserThread
<1>5. UserAfterMove'
  BY DEF UserAfterMove
<1> QED
  BY <1>1, <1>2, <1>3, <1>4, <1>5

\* What a step of a task other than init_task moves to.
QuietTarget(x) ==
  /\ x \notin {"ret_from_fork", "mtus_take"}
  /\ x = "user" => pstate[current] = "EL0t"
  /\ x = "thread" => at[current] = "ret_from_fork"

\* A step that leaves the base points alone, or moves the running task only.
LEMMA QuietMoves ==
  ASSUME KernelInv, OwnershipInv, UNCHANGED <<pageVars, forkVars, pstate>>,
         current' = InitTask => current = InitTask,
         elr' \in {elr, Null} \/ pstate[elr'] = "EL0t",
         \/ UNCHANGED at
         \/ /\ current # InitTask
            /\ \E x \in BasePoint : QuietTarget(x) /\ at' = [at EXCEPT ![current] = x]
  PROVE  QuietStep
<1>1. at \in [Task -> BasePoint \cup {"none"}] /\ current \in Task
  BY DEF KernelInv, TypeOK
<1>2. at'[InitTask] = at[InitTask]
  BY <1>1, InitNotPage
<1>3. elr' # Null => pstate[elr'] = "EL0t"
  BY DEF OwnershipInv, UserAfterMove
<1>4. \A t \in Task :
       /\ at'[t] = "user" => pstate[t] = "EL0t"
       /\ at'[t] \in {"ret_from_fork", "thread"} =>
            at[t] \in {"ret_from_fork", "thread"}
       /\ at'[t] = "mtus_take" => at[t] = "mtus_take"
  BY <1>1 DEF OwnershipInv, UserAfterMove, QuietTarget
<1> QED
  BY <1>2, <1>3, <1>4 DEF QuietStep

\* A task at one of these points, outside preempt_schedule_irq, is not init.
LEMMA NotInit ==
  ASSUME KernelInv, Top \in BasePoint \ (InitPoint \cup {"lost"})
  PROVE  current # InitTask /\ frame[current] = "none" /\ at[current] = Top
BY TopFacts DEF KernelInv, InitRunsFirst

\* The actions of the interrupt path, the scheduler and the exit path are
\* quiet, and so are the calls of user space that fail.
QuietAction ==
  \/ TimerIrq \/ Schedule \/ Exit
  \/ MoveToUserNoPage \/ SysOther \/ SysCloneFails

LEMMA QuietActions ==
  ASSUME KernelInv, OwnershipInv, QuietAction
  PROVE  QuietStep
<1> USE DEF BasePoint, ForkPoint, InitPoint, QuietTarget
<1>1. CASE El1IrqReturn
  BY <1>1, QuietMoves DEF El1IrqReturn, stackVars
<1>2. CASE El1IrqPreempt
  BY <1>2, QuietMoves DEF El1IrqPreempt
<1>3. CASE El0Irq
  BY <1>3, NotInit, QuietMoves DEF El0Irq, Goto
<1>4. CASE ScheduleSame
  <2>1. \/ UNCHANGED at
        \/ current # InitTask /\ at' = [at EXCEPT ![current] = "sched_tail"]
    BY <1>4, TopFacts DEF ScheduleSame, InSchedule, GoOn, Goto
  <2> QED
    BY <1>4, <2>1, QuietMoves DEF ScheduleSame
<1>5. CASE ScheduleGarbage
  <2>1. current = InitTask
    BY <1>5 DEF ScheduleGarbage, KernelInv, InitRunsFirst
  <2>2. UNCHANGED at
    BY <1>5, <2>1, TopFacts DEF ScheduleGarbage, InSchedule, GoOn, Goto
  <2> QED
    BY <1>5, <2>2, QuietMoves DEF ScheduleGarbage
<1>6. CASE ScheduleSwitch
  <2>1. \/ UNCHANGED at
        \/ current # InitTask /\ at' = [at EXCEPT ![current] = "sched_sw"]
    BY <1>6, TopFacts DEF ScheduleSwitch, InSchedule, GoOn, Goto
  <2>2. current' # InitTask
    BY <1>6, PickFacts, InitNotPage DEF ScheduleSwitch
  <2> QED
    BY <1>6, <2>1, <2>2, QuietMoves DEF ScheduleSwitch
<1>7. CASE FinishSwitch
  <2>1. \/ UNCHANGED at
        \/ current # InitTask /\ at' = [at EXCEPT ![current] = "sched_tail"]
    BY <1>7, TopFacts DEF FinishSwitch, GoOn, Goto
  <2> QED
    BY <1>7, <2>1, QuietMoves DEF FinishSwitch
<1>8. CASE PreemptReturn
  BY <1>8, QuietMoves DEF PreemptReturn
<1>9. CASE SchedReturn
  BY <1>9, NotInit, QuietMoves DEF SchedReturn, Goto, cpuVars
<1>10. CASE RetFromFork
  BY <1>10, NotInit, QuietMoves DEF RetFromFork, Goto
<1>11. CASE RetToUserSchedule
  BY <1>11, NotInit, QuietMoves DEF RetToUserSchedule, Goto
<1>12. CASE RetToUser
  <2>1. current # InitTask
    BY <1>12, NotInit DEF RetToUser
  <2>2. CASE pstate[current] = "EL0t"
    BY <1>12, <2>1, <2>2, QuietMoves DEF RetToUser, Goto
  <2>3. CASE pstate[current] # "EL0t"
    BY <1>12, <2>1, <2>3, QuietMoves DEF RetToUser, Goto
  <2> QED
    BY <2>2, <2>3
<1>13. CASE RestoreElr
  BY <1>13, NotInit, QuietMoves DEF RestoreElr, Goto
<1>14. CASE Eret
  <2>1. current # InitTask
    BY <1>14, NotInit DEF Eret
  <2>2. CASE elr = current
    <3>1. pstate[current] = "EL0t"
      BY <2>2, NrPagesAssumption
      DEF KernelInv, TypeOK, OwnershipInv, UserAfterMove, Null, Task, InitTask, Page
    <3> QED
      BY <1>14, <2>1, <2>2, <3>1, QuietMoves DEF Eret, Goto
  <2>3. CASE elr # current
    BY <1>14, <2>1, <2>3, QuietMoves DEF Eret, Goto
  <2> QED
    BY <2>2, <2>3
<1>15. CASE MoveToUserNoPage
  BY <1>15, NotInit, QuietMoves DEF MoveToUserNoPage, Goto, cpuVars
<1>16. CASE SysOther
  BY <1>16, NotInit, QuietMoves DEF SysOther, SvcReturn, Goto
<1>17. CASE SysCloneFails
  <2>1. mem_map' = mem_map
    BY <1>17, FindFree, TakeThenFree DEF SysCloneFails, KernelInv, TypeOK
  <2> QED
    BY <1>17, <2>1, NotInit, QuietMoves DEF SysCloneFails, SvcReturn, Goto, pageVars
<1> QED
  BY <1>1, <1>2, <1>3, <1>4, <1>5, <1>6, <1>7, <1>8, <1>9, <1>10, <1>11, <1>12, <1>13,
     <1>14, <1>15, <1>16, <1>17
  DEF QuietAction, TimerIrq, Schedule, Exit

----------------------------------------------------------------------------
(* The steps of kernel_thread, which init_task takes before any other task  *)
(* has run.                                                                 *)

\* Before init_task loses the CPU nobody has a user context.
LEMMA ForkUserAfterMove ==
  ASSUME KernelInv, KernelInv', OwnershipInv, UNCHANGED cpuVars, current = InitTask,
         \A u \in Task : pstate'[u] = "EL1h"
  PROVE  UserAfterMove'
<1>1. elr = Null
  BY DEF KernelInv, TypeOK, OwnershipInv, UserAfterMove
<1>2. \A t \in Task : at'[t] \in InitPoint \cup {"none", "ret_from_fork"}
  BY InitNotPage DEF KernelInv, InitRunsFirst, cpuVars, Task
<1> QED
  BY <1>1, <1>2 DEF UserAfterMove, cpuVars, InitPoint, ForkPoint

\* A step of start_kernel or do_fork moves init_task, which runs.
LEMMA ForkMoves ==
  ASSUME KernelInv, Top \in InitPoint, NEW x, at' = [at EXCEPT ![current] = x]
  PROVE  current = InitTask /\ at[InitTask] = Top /\ at'[InitTask] = x
<1>1. current = InitTask /\ at[InitTask] = Top
  BY ForkFacts
<1>2. at \in [Task -> BasePoint \cup {"none"}]
  BY DEF KernelInv, TypeOK
<1> QED
  BY <1>1, <1>2, InitNotPage

\* A step of do_fork that changes no field of a task but those of init.
LEMMA ForkUserUnchanged ==
  ASSUME KernelInv, KernelInv', OwnershipInv, UNCHANGED cpuVars, current = InitTask,
         UNCHANGED <<fn, pstate>>,
         \/ UNCHANGED booted /\ (at[InitTask] \in BuiltPoint => at'[InitTask] \in BuiltPoint)
         \/ booted' = booted + 1
  PROVE  OneUserThread' /\ UserAfterMove'
<1>1. UserAfterMove'
  BY ForkUserAfterMove DEF OwnershipInv, UserAfterMove
<1>2. booted \in Nat
  BY DEF KernelInv, TypeOK
<1>3. OneUserThread'
  BY <1>2, ThreadsAssumption DEF OwnershipInv, OneUserThread
<1> QED
  BY <1>1, <1>3

\* do_fork finds no free page.
LEMMA ForkNoPageOwns ==
  ASSUME KernelInv, KernelInv', OwnershipInv, ForkNoPage PROVE OwnershipInv'
<1> USE DEF ForkNoPage, ForkEnds, Goto
<1>1. current = InitTask /\ at[InitTask] = "start_kernel" /\ at'[InitTask] = "start_kernel"
  BY ForkMoves DEF InitPoint, ForkPoint
<1>2. OneUserThread' /\ UserAfterMove'
  BY <1>1, ForkUserUnchanged DEF pageVars
<1>3. NrRunningCountsQueue' /\ SlotsMatchPids' /\ PagesExclusive' /\ PagesAccounted'
  BY <1>1 DEF OwnershipInv, NrRunningCountsQueue, SlotsMatchPids, PagesExclusive,
              PagesAccounted, pageVars
<1>4. ForkOwns'
  BY <1>1 DEF ForkOwns
<1> QED
  BY <1>2, <1>3, <1>4 DEF OwnershipInv

\* get_free_page has found a page.
LEMMA ForkScanOwns ==
  ASSUME KernelInv, KernelInv', OwnershipInv, ForkScan PROVE OwnershipInv'
<1> USE DEF ForkScan, Goto, forkVars
<1>1. current = InitTask /\ at[InitTask] = "start_kernel" /\ at'[InitTask] = "fork_take"
  BY ForkMoves DEF InitPoint, ForkPoint
<1>2. OneUserThread' /\ UserAfterMove'
  BY <1>1, ForkUserUnchanged DEF BuiltPoint
<1>3. NrRunningCountsQueue' /\ SlotsMatchPids' /\ PagesExclusive' /\ PagesAccounted'
  BY <1>1 DEF OwnershipInv, NrRunningCountsQueue, SlotsMatchPids, PagesExclusive,
              PagesAccounted
<1>4. ForkOwns'
  BY <1>1 DEF ForkOwns
<1> QED
  BY <1>2, <1>3, <1>4 DEF OwnershipInv

\* get_free_page takes the page it found.
LEMMA ForkTakeOwns ==
  ASSUME KernelInv, KernelInv', OwnershipInv, ForkTake PROVE OwnershipInv'
<1> USE DEF ForkTake, Take, Goto, forkVars
<1>1. current = InitTask /\ at[InitTask] = "fork_take" /\ at'[InitTask] = "fork_build"
  BY ForkMoves DEF InitPoint, ForkPoint
<1>2. OneUserThread' /\ UserAfterMove'
  BY <1>1, ForkUserUnchanged DEF BuiltPoint
<1>3. NrRunningCountsQueue' /\ SlotsMatchPids'
  BY <1>1 DEF OwnershipInv, NrRunningCountsQueue, SlotsMatchPids
<1>4. scan[current] \in Page /\ mem_map[scan[current]] = 0
  BY <1>1 DEF KernelInv, ForkLocals, ForkPoint
<1>5. PagesExclusive' /\ PagesAccounted'
  BY <1>4, TakeKeepsAccounts DEF OwnershipInv, KernelInv
<1>6. ForkOwns'
  BY <1>1, <1>4, InitNotPage DEF ForkOwns, KernelInv, TypeOK
<1> QED
  BY <1>2, <1>3, <1>5, <1>6 DEF OwnershipInv

\* do_fork finds the task table full and gives its page back.
LEMMA ForkNoSlotOwns ==
  ASSUME KernelInv, KernelInv', OwnershipInv, ForkNoSlot PROVE OwnershipInv'
<1> USE DEF ForkNoSlot, ForkEnds, Goto
<1>1. current = InitTask /\ at[InitTask] = "fork_build" /\ at'[InitTask] = "start_kernel"
  BY ForkMoves DEF InitPoint, ForkPoint
<1>2. OneUserThread' /\ UserAfterMove'
  BY <1>1, ForkUserUnchanged
<1>3. NrRunningCountsQueue' /\ SlotsMatchPids'
  BY <1>1 DEF OwnershipInv, NrRunningCountsQueue, SlotsMatchPids
<1>4. scan[current] \in Page /\ scan[current] \in held[current]
  BY <1>1 DEF KernelInv, ForkLocals, ForkPoint, OwnershipInv, ForkOwns
<1>5. PagesExclusive' /\ PagesAccounted'
  BY <1>4, FreeKeepsAccounts DEF OwnershipInv, KernelInv
<1>6. ForkOwns'
  BY <1>1 DEF ForkOwns
<1> QED
  BY <1>2, <1>3, <1>5, <1>6 DEF OwnershipInv

\* The child is built: its pid is an empty slot, and if its body is
\* user_thread no other task has that body.
LEMMA ForkBuildOwns ==
  ASSUME KernelInv, KernelInv', OwnershipInv, ForkBuild PROVE OwnershipInv'
<1> DEFINE p == scan[InitTask]
<1>0. KernelInv /\ TypeOK
  BY DEF KernelInv
<1>1. current = InitTask /\ at[InitTask] = "fork_build"
  BY ForkFacts DEF ForkBuild, InitPoint, ForkPoint
<1>2. p \in Page /\ p \in Task /\ p # InitTask /\ ~IsTask(p) /\ p \notin linked
  BY <1>1, InitNotPage DEF KernelInv, ForkLocals, ForkPoint, LinkedTasksBuilt
<1>3. at'[InitTask] = "fork_halve"
  BY <1>0, <1>1, <1>2, InitNotPage DEF ForkBuild, TypeOK
<1>4. newpid' \in Slot /\ g_task[newpid'] = Null /\ pid'[p] = newpid'
  BY <1>0, <1>1, <1>2, FindEmpty DEF ForkBuild, TypeOK
<1>5. NrRunningCountsQueue' /\ PagesExclusive' /\ PagesAccounted'
  BY <1>1, <1>3
  DEF OwnershipInv, NrRunningCountsQueue, PagesExclusive, PagesAccounted, ForkBuild, pageVars
<1>6. SlotsMatchPids'
  <2>1. \A q \in linked : pid'[q] = pid[q]
    BY <1>0, <1>1, <1>2, InitNotPage DEF ForkBuild, TypeOK
  <2> QED
    BY <2>1 DEF OwnershipInv, SlotsMatchPids, ForkBuild
<1>7. ForkOwns'
  BY <1>3, <1>4 DEF ForkOwns, ForkBuild, pageVars
<1>8. UserAfterMove'
  <2>1. \A u \in Task : pstate'[u] = "EL1h"
    BY <1>0, <1>1, <1>2 DEF OwnershipInv, UserAfterMove, ForkBuild, TypeOK
  <2> QED
    BY <1>1, <2>1, ForkUserAfterMove DEF ForkBuild
<1>9. OneUserThread'
  <2>1. booted \in Nat /\ booted + 1 \in 1 .. Len(Threads)
    BY <1>0, <1>1, ThreadsAssumption DEF KernelInv, TypeOK, ForkLocals, ForkPoint
  <2>2. /\ booted' = booted
        /\ \A t \in Task : fn'[t] = IF t = p THEN Threads[booted + 1] ELSE fn[t]
    BY <1>0, <1>1, <1>2 DEF ForkBuild, TypeOK
  <2>3. \A t \in Task : fn[t] = "user" =>
          \E i \in 1 .. Len(Threads) : Threads[i] = "user" /\ i <= booted
    BY <1>1, <2>1 DEF OwnershipInv, OneUserThread, BuiltPoint
  <2>4. CASE Threads[booted + 1] = "user"
    <3>1. \A t \in Task : fn[t] # "user"
      BY <2>1, <2>3, <2>4, ThreadsAssumption
    <3> QED
      BY <1>3, <2>1, <2>2, <2>4, <3>1 DEF OneUserThread, BuiltPoint
  <2>5. CASE Threads[booted + 1] # "user"
    BY <1>3, <2>1, <2>2, <2>3, <2>5 DEF OwnershipInv, OneUserThread, BuiltPoint
  <2> QED
    BY <2>4, <2>5
<1> QED
  BY <1>5, <1>6, <1>7, <1>8, <1>9 DEF OwnershipInv

\* do_fork halves the counter of its caller.
LEMMA ForkHalveOwns ==
  ASSUME KernelInv, KernelInv', OwnershipInv, ForkHalve PROVE OwnershipInv'
<1> USE DEF ForkHalve, Goto, forkVars, pageVars
<1>1. current = InitTask /\ at[InitTask] = "fork_halve" /\ at'[InitTask] = "fork_publish"
  BY ForkMoves DEF InitPoint, ForkPoint
<1>2. OneUserThread' /\ UserAfterMove'
  BY <1>1, ForkUserUnchanged DEF BuiltPoint
<1>3. NrRunningCountsQueue' /\ SlotsMatchPids' /\ PagesExclusive' /\ PagesAccounted'
  BY <1>1 DEF OwnershipInv, NrRunningCountsQueue, SlotsMatchPids, PagesExclusive,
              PagesAccounted
<1>4. ForkOwns'
  BY <1>1 DEF OwnershipInv, ForkOwns
<1> QED
  BY <1>2, <1>3, <1>4 DEF OwnershipInv

\* g_task[pid] = p stores into a slot that is still empty.
LEMMA ForkPublishOwns ==
  ASSUME KernelInv, KernelInv', OwnershipInv, ForkPublish PROVE OwnershipInv'
<1> USE DEF ForkPublish, Goto, pageVars
<1>1. current = InitTask /\ at[InitTask] = "fork_publish" /\ at'[InitTask] = "fork_link"
  BY ForkMoves DEF InitPoint, ForkPoint
<1>2. OneUserThread' /\ UserAfterMove'
  BY <1>1, ForkUserUnchanged DEF BuiltPoint
<1>3. NrRunningCountsQueue' /\ PagesExclusive' /\ PagesAccounted'
  BY <1>1 DEF OwnershipInv, NrRunningCountsQueue, PagesExclusive, PagesAccounted
<1>4. /\ newpid \in Slot /\ g_task[newpid] = Null /\ pid[scan[current]] = newpid
      /\ scan[current] \in Page
  BY <1>1 DEF KernelInv, ForkLocals, ForkPoint, OwnershipInv, ForkOwns
<1>5. ForkOwns'
  BY <1>1, <1>4 DEF ForkOwns, KernelInv, TypeOK
<1>6. SlotsMatchPids'
  <2>1. \A q \in linked : q \in Page /\ q # Null /\ pid[q] \in Slot /\ g_task[pid[q]] = q
    BY InitNotPage, NrPagesAssumption
    DEF KernelInv, TypeOK, OwnershipInv, SlotsMatchPids, Null, Page
  <2> QED
    BY <1>4, <2>1 DEF SlotsMatchPids, KernelInv, TypeOK
<1> QED
  BY <1>2, <1>3, <1>5, <1>6 DEF OwnershipInv

\* SET_LINKS(p): the slot already leads to p.
LEMMA ForkLinkOwns ==
  ASSUME KernelInv, KernelInv', OwnershipInv, ForkLink PROVE OwnershipInv'
<1> USE DEF ForkLink, Goto, pageVars
<1>1. current = InitTask /\ at[InitTask] = "fork_link" /\ at'[InitTask] = "fork_enqueue"
  BY ForkMoves DEF InitPoint, ForkPoint
<1>2. OneUserThread' /\ UserAfterMove'
  BY <1>1, ForkUserUnchanged DEF BuiltPoint
<1>3. NrRunningCountsQueue' /\ PagesExclusive' /\ PagesAccounted'
  BY <1>1 DEF OwnershipInv, NrRunningCountsQueue, PagesExclusive, PagesAccounted
<1>4. SlotsMatchPids' /\ ForkOwns'
  BY <1>1 DEF OwnershipInv, SlotsMatchPids, ForkOwns
<1> QED
  BY <1>2, <1>3, <1>4 DEF OwnershipInv

\* enqueue_task makes the queue one longer.
LEMMA EnqueueLength ==
  ASSUME NEW rq \in Seq(Page), NEW p \in Page
  PROVE  Len(enqueue_task(rq, p)) = Len(rq) + 1
BY DEF enqueue_task

\* list_add, and the count has yet to follow.
LEMMA ForkEnqueueOwns ==
  ASSUME KernelInv, KernelInv', OwnershipInv, ForkEnqueue PROVE OwnershipInv'
<1> USE DEF ForkEnqueue, Goto, pageVars
<1>1. current = InitTask /\ at[InitTask] = "fork_enqueue" /\ at'[InitTask] = "fork_account"
  BY ForkMoves DEF InitPoint, ForkPoint
<1>2. OneUserThread' /\ UserAfterMove'
  BY <1>1, ForkUserUnchanged DEF BuiltPoint
<1>3. SlotsMatchPids' /\ ForkOwns' /\ PagesExclusive' /\ PagesAccounted'
  BY <1>1 DEF OwnershipInv, SlotsMatchPids, ForkOwns, PagesExclusive, PagesAccounted
<1>4. Len(run_list') = Len(run_list) + 1
  BY <1>1, EnqueueLength DEF KernelInv, TypeOK, ForkLocals, ForkPoint
<1>5. NrRunningCountsQueue'
  BY <1>1, <1>4 DEF OwnershipInv, NrRunningCountsQueue, KernelInv, TypeOK
<1> QED
  BY <1>2, <1>3, <1>5 DEF OwnershipInv

\* nr_running++ catches up.
LEMMA ForkAccountOwns ==
  ASSUME KernelInv, KernelInv', OwnershipInv, ForkAccount PROVE OwnershipInv'
<1> USE DEF ForkAccount, ForkEnds, Goto, pageVars
<1>1. current = InitTask /\ at[InitTask] = "fork_account" /\ at'[InitTask] = "start_kernel"
  BY ForkMoves DEF InitPoint, ForkPoint
<1>2. OneUserThread' /\ UserAfterMove'
  BY <1>1, ForkUserUnchanged
<1>3. SlotsMatchPids' /\ ForkOwns' /\ PagesExclusive' /\ PagesAccounted'
  BY <1>1 DEF OwnershipInv, SlotsMatchPids, ForkOwns, PagesExclusive, PagesAccounted
<1>4. NrRunningCountsQueue'
  BY <1>1 DEF OwnershipInv, NrRunningCountsQueue, KernelInv, TypeOK
<1> QED
  BY <1>2, <1>3, <1>4 DEF OwnershipInv

----------------------------------------------------------------------------
(* user_thread and the system calls: init_task has lost the CPU. *)

\* A step of a task other than init_task leaves what init_task owns alone.
LEMMA ForkFrozen ==
  ASSUME KernelInv, current # InitTask, UNCHANGED current
  PROVE  ForkOwns'
BY DEF ForkOwns

\* move_to_user_space has found a page.
LEMMA MoveToUserScanOwns ==
  ASSUME KernelInv, OwnershipInv, MoveToUserScan PROVE OwnershipInv'
<1> USE DEF MoveToUserScan, Goto, forkVars, cpuVars
<1>0. current # InitTask /\ at[current] = "thread" /\ fn[current] = "user"
  BY NotInit DEF BasePoint, InitPoint, ForkPoint
<1>1. /\ current \in Task /\ at' = [at EXCEPT ![current] = "mtus_take"]
      /\ at \in [Task -> BasePoint \cup {"none"}]
      /\ scan \in [Task -> Page \cup {Null}] /\ mem_map \in [Page -> {0, 1}]
  BY DEF KernelInv, TypeOK
<1>2. at'[InitTask] = at[InitTask]
  BY <1>0, <1>1, InitNotPage
<1>3. mem_map[find_free(mem_map)] = 0
  BY <1>1, FindFree
<1>4. NrRunningCountsQueue' /\ SlotsMatchPids' /\ PagesExclusive' /\ PagesAccounted'
  BY <1>2 DEF OwnershipInv, NrRunningCountsQueue, SlotsMatchPids, PagesExclusive,
              PagesAccounted
<1>5. ForkOwns'
  BY <1>0, ForkFrozen
<1>6. OneUserThread'
  BY <1>2 DEF OwnershipInv, OneUserThread
<1>7. UserAfterMove'
  BY <1>0, <1>1, <1>3 DEF OwnershipInv, UserAfterMove
<1> QED
  BY <1>4, <1>5, <1>6, <1>7 DEF OwnershipInv

\* move_to_user_space takes the page, which is still free: the only other
\* tasks that run are kernel threads.
LEMMA MoveToUserTakeOwns ==
  ASSUME KernelInv, KernelInv', OwnershipInv, MoveToUserTake PROVE OwnershipInv'
<1> USE DEF MoveToUserTake, Take, Goto, forkVars, cpuVars
<1>0. current # InitTask /\ at[current] = "mtus_take"
  BY NotInit DEF BasePoint, InitPoint, ForkPoint
<1>1. /\ current \in Task /\ at' = [at EXCEPT ![current] = "ret_to_user"]
      /\ at \in [Task -> BasePoint \cup {"none"}]
      /\ pstate' = [pstate EXCEPT ![current] = "EL0t"]
      /\ pstate \in [Task -> {"EL1h", "EL0t"}]
  BY DEF KernelInv, TypeOK
<1>2. at'[InitTask] = at[InitTask]
  BY <1>0, <1>1, InitNotPage
<1>3. fn[current] = "user" /\ scan[current] \in Page /\ mem_map[scan[current]] = 0
  BY <1>0, <1>1 DEF OwnershipInv, UserAfterMove, KernelInv, MoveToUserLocals
<1>4. NrRunningCountsQueue' /\ SlotsMatchPids'
  BY <1>2 DEF OwnershipInv, NrRunningCountsQueue, SlotsMatchPids
<1>5. PagesExclusive' /\ PagesAccounted'
  BY <1>3, TakeKeepsAccounts DEF OwnershipInv, KernelInv
<1>6. ForkOwns'
  BY <1>0, ForkFrozen
<1>7. OneUserThread'
  BY <1>2 DEF OwnershipInv, OneUserThread
<1>8. UserAfterMove'
  <2>1. \A t \in Task : fn[t] = "user" => t = current
    BY <1>1, <1>3 DEF OwnershipInv, OneUserThread
  <2>2. \A t \in Task : at[t] = "mtus_take" => t = current
    BY <2>1 DEF OwnershipInv, UserAfterMove
  <2>3. \A t \in Task : at'[t] # "mtus_take"
    BY <1>1, <2>2
  <2>4. \A t \in Task : fn[t] = "user" => at'[t] = "ret_to_user"
    BY <1>1, <2>1
  <2>5. \A t \in Task : at'[t] = "user" => pstate'[t] = "EL0t"
    BY <1>1 DEF OwnershipInv, UserAfterMove
  <2>6. elr # Null => pstate'[elr] = "EL0t"
    BY <1>1 DEF OwnershipInv, UserAfterMove, KernelInv, TypeOK
  <2> QED
    BY <1>0, <2>3, <2>4, <2>5, <2>6 DEF UserAfterMove
<1> QED
  BY <1>4, <1>5, <1>6, <1>7, <1>8 DEF OwnershipInv

\* When a system call runs, user_thread has left the kernel: no other task
\* is looking for a page.
LEMMA SvcFacts ==
  ASSUME KernelInv, OwnershipInv, Top = "user"
  PROVE  /\ current # InitTask /\ current \in Task /\ at[current] = "user"
         /\ pstate[current] = "EL0t"
         /\ \A t \in Task :
              /\ at[t] # "mtus_take"
              /\ at[t] \in {"ret_from_fork", "thread"} => fn[t] # "user"
<1>1. current # InitTask /\ at[current] = "user" /\ current \in Task
  BY NotInit, TopFacts DEF BasePoint, InitPoint, ForkPoint
<1>2. pstate[current] = "EL0t"
  BY <1>1 DEF OwnershipInv, UserAfterMove
<1> QED
  BY <1>1, <1>2 DEF OwnershipInv, UserAfterMove

\* malloc takes a free page.
LEMMA SysMallocOwns ==
  ASSUME KernelInv, KernelInv', OwnershipInv, SysMalloc PROVE OwnershipInv'
<1> USE DEF SysMalloc, SvcReturn, Goto, forkVars
<1>0. current # InitTask /\ current \in Task /\ \A t \in Task : at[t] # "mtus_take"
  BY SvcFacts
<1>1. /\ at' = [at EXCEPT ![current] = "ret_to_user"]
      /\ at \in [Task -> BasePoint \cup {"none"}]
      /\ mem_map \in [Page -> {0, 1}]
  BY DEF KernelInv, TypeOK
<1>2. at'[InitTask] = at[InitTask]
  BY <1>0, <1>1, InitNotPage
<1>3. NrRunningCountsQueue' /\ SlotsMatchPids'
  BY <1>2 DEF OwnershipInv, NrRunningCountsQueue, SlotsMatchPids
<1>4. PagesExclusive' /\ PagesAccounted'
  BY <1>1, FindFree, TakeKeepsAccounts DEF OwnershipInv, KernelInv
<1>5. ForkOwns'
  BY <1>0, ForkFrozen
<1>6. OneUserThread'
  BY <1>2 DEF OwnershipInv, OneUserThread
<1>7. UserAfterMove'
  BY <1>0, <1>1 DEF OwnershipInv, UserAfterMove
<1> QED
  BY <1>3, <1>4, <1>5, <1>6, <1>7 DEF OwnershipInv

\* clone from user space: a free page, an empty slot, a child with no body.
LEMMA SysCloneOwns ==
  ASSUME KernelInv, KernelInv', OwnershipInv, SysClone PROVE OwnershipInv'
<1> DEFINE p == find_free(mem_map)
           n == find_empty_task(g_task)
<1>0. /\ KernelInv /\ TypeOK /\ current # InitTask /\ current \in Task
      /\ at[current] = "user" /\ pstate[current] = "EL0t"
      /\ \A t \in Task :
           /\ at[t] # "mtus_take"
           /\ at[t] \in {"ret_from_fork", "thread"} => fn[t] # "user"
  BY SvcFacts DEF SysClone, KernelInv
<1>1. p \in Page /\ mem_map[p] = 0 /\ p \in Task /\ p # InitTask
  BY <1>0, FindFree, InitNotPage DEF SysClone, TypeOK
<1>2. ~IsTask(p) /\ p \notin linked /\ p # current
  BY <1>0, <1>1 DEF KernelInv, TaskPagesInUse, LinkedTasksBuilt, IsTask
<1>3. n \in Slot /\ g_task[n] = Null
  BY <1>0, FindEmpty DEF SysClone, TypeOK
<1>4. \A t \in Task : /\ at'[t] = IF t = p THEN "ret_from_fork"
                                  ELSE IF t = current THEN "ret_to_user" ELSE at[t]
                      /\ fn'[t] = IF t = p THEN "none" ELSE fn[t]
                      /\ pstate'[t] = IF t = p THEN "EL0t" ELSE pstate[t]
                      /\ pid'[t] = IF t = p THEN n ELSE pid[t]
  BY <1>0, <1>1, <1>2 DEF SysClone, TypeOK
<1>5. at'[InitTask] = at[InitTask]
  BY <1>0, <1>1, <1>4, InitNotPage
<1>6. NrRunningCountsQueue'
  <2>1. Len(run_list') = Len(run_list) + 1
    BY <1>0, <1>1, EnqueueLength DEF SysClone, TypeOK
  <2>2. nr_running' = nr_running + 1 /\ nr_running \in Nat /\ Len(run_list) \in Nat
    BY <1>0 DEF SysClone, TypeOK
  <2> QED
    BY <1>5, <2>1, <2>2 DEF OwnershipInv, NrRunningCountsQueue
<1>7. SlotsMatchPids'
  <2>1. \A q \in linked : q \in Task /\ q # Null /\ pid[q] \in Slot /\ g_task[pid[q]] = q
    BY <1>0, InitNotPage, NrPagesAssumption
    DEF TypeOK, OwnershipInv, SlotsMatchPids, Null, Page
  <2>2. linked' = linked \cup {p} /\ g_task' = [g_task EXCEPT ![n] = p]
    BY DEF SysClone
  <2>3. g_task \in [Slot -> Task \cup {Null}]
    BY <1>0 DEF TypeOK
  <2> QED
    BY <1>1, <1>2, <1>3, <1>4, <2>1, <2>2, <2>3 DEF SlotsMatchPids
<1>8. PagesExclusive' /\ PagesAccounted'
  BY <1>1, TakeKeepsAccounts DEF OwnershipInv, KernelInv, SysClone
<1>9. ForkOwns'
  BY <1>0, ForkFrozen DEF SysClone
<1>10. OneUserThread'
  BY <1>4, <1>5 DEF OwnershipInv, OneUserThread, SysClone
<1>11. UserAfterMove'
  <2>1. \A t \in Task : at'[t] # "mtus_take" /\ (at'[t] = "user" => pstate'[t] = "EL0t")
    BY <1>0, <1>4 DEF OwnershipInv, UserAfterMove
  <2>2. \A t \in Task : fn'[t] = "user" => at'[t] \notin {"ret_from_fork", "thread", "mtus_take"}
    BY <1>0, <1>4
  <2>3. elr' # Null => pstate'[elr'] = "EL0t"
    BY <1>0, <1>4 DEF OwnershipInv, UserAfterMove, TypeOK, SysClone
  <2>4. current' # InitTask
    BY <1>0 DEF SysClone
  <2> QED
    BY <2>1, <2>2, <2>3, <2>4 DEF UserAfterMove
<1> QED
  BY <1>6, <1>7, <1>8, <1>9, <1>10, <1>11 DEF OwnershipInv

\* A stuttering step, panic() included.
LEMMA UnchangedOwns ==
  ASSUME OwnershipInv, UNCHANGED vars
  PROVE  OwnershipInv'
<1>1. QuietStep
  BY DEF QuietStep, OwnershipInv, UserAfterMove, vars, pageVars, forkVars
<1> QED
  BY <1>1, QuietOwnership

\* Every step of the kernel preserves OwnershipInv.
LEMMA NextOwns ==
  ASSUME KernelInv, KernelInv', OwnershipInv, [Next]_vars
  PROVE  OwnershipInv'
<1>1. CASE QuietAction
  BY <1>1, QuietActions, QuietOwnership
<1>2. CASE KernelThread
  BY <1>2, ForkNoPageOwns, ForkScanOwns, ForkTakeOwns, ForkNoSlotOwns, ForkBuildOwns,
     ForkHalveOwns, ForkPublishOwns, ForkLinkOwns, ForkEnqueueOwns, ForkAccountOwns
  DEF KernelThread
<1>3. CASE MoveToUserScan \/ MoveToUserTake \/ SysMalloc \/ SysClone
  BY <1>3, MoveToUserScanOwns, MoveToUserTakeOwns, SysMallocOwns, SysCloneOwns
<1>4. CASE Panic \/ UNCHANGED vars
  BY <1>4, UnchangedOwns DEF Panic
<1> QED
  BY <1>1, <1>2, <1>3, <1>4 DEF Next, CpuStep, UserThread, Svc, QuietAction

----------------------------------------------------------------------------
(* Where the CPU is lost. *)

AllSpin == \A i \in 1 .. Len(Threads) : Threads[i] = "spin"

\* While the running task is not lost, no stack is.
LEMMA NotLost ==
  ASSUME KernelInv, LostInv, Top # "lost" \/ irq = "on"
  PROVE  \A t \in Task : frame[t] # "lost"
<1>1. Top # "lost"
  BY DEF KernelInv, InterruptMask
<1> QED
  BY <1>1 DEF LostInv, Top, TopOf

\* preempt_schedule_irq() is lost in one step only, that of __schedule() on
\* an empty queue.
LEMMA NextFrameLost ==
  ASSUME KernelInv, LostInv, Next, ~Panic, NEW t \in Task, frame'[t] = "lost"
  PROVE  t = InitTask /\ current' = InitTask /\ run_list' = <<>>
<1>0. frame \in [Task -> FramePoint \cup {"none"}] /\ current \in Task
  BY DEF KernelInv, TypeOK
<1>1. CASE ScheduleGarbage
  <2>1. current = InitTask /\ \A u \in Task : frame[u] # "lost"
    BY <1>1, NotLost DEF ScheduleGarbage, InSchedule, KernelInv, InitRunsFirst
  <2>2. current' = current /\ run_list' = run_list /\ run_list = <<>>
    BY <1>1 DEF ScheduleGarbage, forkVars
  <2>3. frame' = frame \/ frame' = [frame EXCEPT ![current] = "lost"]
    BY <1>1 DEF ScheduleGarbage, GoOn, Goto
  <2> QED
    BY <1>0, <2>1, <2>2, <2>3
<1>2. CASE ~ScheduleGarbage
  <2>1. \/ frame' = frame
        \/ \E f \in {"none", "psi", "psi_sw", "psi_tail"} :
             frame' = [frame EXCEPT ![current] = f]
    <3>1. CASE TimerIrq
      BY <3>1 DEF TimerIrq, El1IrqReturn, El1IrqPreempt, El0Irq, Goto, stackVars
    <3>2. CASE Schedule
      BY <1>2, <3>2 DEF Schedule, ScheduleSame, ScheduleSwitch, GoOn, Goto
    <3>3. CASE FinishSwitch \/ PreemptReturn
      BY <3>3 DEF FinishSwitch, PreemptReturn, GoOn, Goto
    <3>4. CASE SchedReturn \/ RetFromFork \/ RetToUserSchedule \/ RetToUser
               \/ RestoreElr \/ Eret
      BY <3>4 DEF SchedReturn, RetFromFork, RetToUserSchedule, RetToUser, RestoreElr,
                  Eret, Goto
    <3>5. CASE KernelThread
      BY <3>5 DEF KernelThread, ForkNoPage, ForkScan, ForkTake, ForkNoSlot, ForkBuild,
                  ForkHalve, ForkPublish, ForkLink, ForkEnqueue, ForkAccount, ForkEnds, Goto
    <3>6. CASE UserThread
      BY <3>6 DEF UserThread, MoveToUserNoPage, MoveToUserScan, MoveToUserTake, Goto
    <3>7. CASE Svc
      BY <3>7 DEF Svc, SysOther, SysMalloc, SysCloneFails, SysClone, SvcReturn, Goto
    <3> QED
      BY <3>1, <3>2, <3>3, <3>4, <3>5, <3>6, <3>7 DEF Next, CpuStep, Exit
  <2>2. \A u \in Task : frame[u] # "lost"
    <3>1. CASE TimerIrq
      BY <3>1, NotLost DEF TimerIrq, El1IrqReturn, El1IrqPreempt, El0Irq
    <3>2. CASE Schedule
      BY <3>2, NotLost DEF Schedule, ScheduleSame, ScheduleGarbage, ScheduleSwitch, InSchedule
    <3>3. CASE Exit
      BY <3>3, NotLost
      DEF Exit, FinishSwitch, PreemptReturn, SchedReturn, RetFromFork, RetToUserSchedule,
          RetToUser, RestoreElr, Eret
    <3>4. CASE KernelThread
      BY <3>4, NotLost
      DEF KernelThread, ForkNoPage, ForkScan, ForkTake, ForkNoSlot, ForkBuild,
          ForkHalve, ForkPublish, ForkLink, ForkEnqueue, ForkAccount
    <3>5. CASE UserThread
      BY <3>5, NotLost DEF UserThread, MoveToUserNoPage, MoveToUserScan, MoveToUserTake
    <3>6. CASE Svc
      BY <3>6, NotLost DEF Svc, SysOther, SysMalloc, SysCloneFails, SysClone
    <3> QED
      BY <3>1, <3>2, <3>3, <3>4, <3>5, <3>6 DEF Next, CpuStep
  <2> QED
    BY <1>0, <2>1, <2>2
<1> QED
  BY <1>1, <1>2

\* A page that holds no task, or a kernel thread that spins.
SpinPage(p) ==
  /\ at[p] \in {"none", "ret_from_fork", "thread"}
  /\ at[p] # "none" => fn[p] = "spin"

\* With such threads alone, a task other than init_task is in its body or
\* has never run.
LEMMA SpinCurrent ==
  ASSUME KernelInv, LostInv, AllSpin, current # InitTask
  PROVE  at[current] \in {"ret_from_fork", "thread"} /\ fn[current] = "spin"
BY DEF KernelInv, TypeOK, Task, InitRunsFirst, IsTask, LostInv, AllSpin

\* They stay there, and do_fork only makes more of them.
LEMMA NextSpin ==
  ASSUME KernelInv, LostInv, Next, AllSpin, NEW p \in Page
  PROVE  SpinPage(p)'
<1> USE DEF BasePoint, InitPoint, ForkPoint
<1>0. /\ at \in [Task -> BasePoint \cup {"none"}] /\ fn \in [Task -> Body \cup {"none"}]
      /\ current \in Task /\ p \in Task /\ p # InitTask
      /\ SpinPage(p)
  BY InitNotPage DEF KernelInv, TypeOK, LostInv, AllSpin, SpinPage
<1>1. CASE UNCHANGED <<at, fn>>
  BY <1>0, <1>1 DEF SpinPage
<1>2. CASE current = InitTask /\ UNCHANGED fn /\ \E x : at' = [at EXCEPT ![current] = x]
  BY <1>0, <1>2 DEF SpinPage
<1>3. CASE RetFromFork
  <2>1. at[current] = "ret_from_fork" /\ fn[current] = "spin"
    BY <1>3, NotInit, SpinCurrent DEF RetFromFork
  <2> QED
    BY <1>0, <1>3, <2>1 DEF RetFromFork, Goto, SpinPage, forkVars
<1>4. CASE ForkBuild
  <2>1. current = InitTask /\ booted \in Nat /\ booted < Len(Threads) /\ scan[current] \in Page
    BY <1>4, ForkFacts DEF ForkBuild, KernelInv, TypeOK, ForkLocals
  <2>2. Threads[booted + 1] = "spin"
    BY <2>1, ThreadsAssumption DEF AllSpin
  <2> QED
    BY <1>0, <1>4, <2>1, <2>2, InitNotPage DEF ForkBuild, SpinPage
<1>5. ASSUME Top \in {"sched_tail", "ret_to_user", "no_work", "eret", "user", "need_sched",
                      "sched_sw", "mtus_take"}
             \/ (Top = "thread" /\ fn[current] = "user")
      PROVE  FALSE
  BY <1>5, NotInit, SpinCurrent
<1>6. Top \in InitPoint => current = InitTask
  BY ForkFacts
<1>7. CASE TimerIrq
  BY <1>1, <1>5, <1>7
  DEF TimerIrq, El1IrqReturn, El1IrqPreempt, El0Irq, forkVars, stackVars
<1>8. CASE Schedule \/ FinishSwitch
  <2>1. frame[current] # "none"
    BY <1>5, <1>8
    DEF Schedule, ScheduleSame, ScheduleGarbage, ScheduleSwitch, FinishSwitch,
        InSchedule, Top, TopOf, KernelInv, TypeOK
  <2> QED
    BY <1>1, <1>8, <2>1
    DEF Schedule, ScheduleSame, ScheduleGarbage, ScheduleSwitch, FinishSwitch, GoOn, forkVars
<1>9. CASE PreemptReturn \/ Panic
  BY <1>1, <1>9 DEF PreemptReturn, Panic, vars, forkVars
<1>10. CASE SchedReturn \/ RetToUserSchedule \/ RetToUser \/ RestoreElr \/ Eret
  BY <1>5, <1>10 DEF SchedReturn, RetToUserSchedule, RetToUser, RestoreElr, Eret
<1>11. CASE UserThread \/ Svc
  BY <1>5, <1>11
  DEF UserThread, MoveToUserNoPage, MoveToUserScan, MoveToUserTake, Svc, SysOther,
      SysMalloc, SysCloneFails, SysClone
<1>12. CASE KernelThread /\ ~ForkBuild
  BY <1>2, <1>6, <1>12
  DEF KernelThread, ForkNoPage, ForkScan, ForkTake, ForkNoSlot, ForkHalve, ForkPublish,
      ForkLink, ForkEnqueue, ForkAccount, ForkEnds, Goto, forkVars
<1> QED
  BY <1>3, <1>4, <1>7, <1>8, <1>9, <1>10, <1>11, <1>12 DEF Next, CpuStep, Exit

\* Every step of the kernel preserves LostInv.
LEMMA NextLost ==
  ASSUME KernelInv, LostInv, [Next]_vars
  PROVE  LostInv'
<1>1. CASE Panic \/ UNCHANGED vars
  BY <1>1 DEF Panic, vars, LostInv
<1>2. CASE Next /\ ~Panic
  BY <1>2, NextFrameLost, NextSpin DEF LostInv, AllSpin, SpinPage
<1> QED
  BY <1>1, <1>2

----------------------------------------------------------------------------
(* The theorems. *)

\* KernelInv, OwnershipInv and LostInv hold in every state the kernel
\* reaches, whatever interrupts and system calls arrive.
THEOREM OwnershipInvariant == Spec => []InductiveInv
<1>1. Init => InductiveInv
  BY InitKernelInv, InitOwnershipInv DEF InductiveInv
<1>2. InductiveInv /\ [Next]_vars => InductiveInv'
  BY NextKernelInv, NextOwns, NextLost DEF InductiveInv
<1> QED
  BY <1>1, <1>2, PTL DEF Spec

\* get_free_page never gives a page to two tasks: the preemption between its
\* test and its store cannot be used by another allocation.
THEOREM PagesGivenOnce == Spec => []PagesExclusive
<1>1. InductiveInv => PagesExclusive
  BY DEF InductiveInv, OwnershipInv
<1> QED
  BY <1>1, OwnershipInvariant, PTL

\* mem_map marks exactly the pages in use: no error path of do_fork leaks a
\* page or frees one that is held.
THEOREM NoPageLeaks == Spec => []PagesAccounted
<1>1. InductiveInv => PagesAccounted
  BY DEF InductiveInv, OwnershipInv
<1> QED
  BY <1>1, OwnershipInvariant, PTL

\* g_task leads from the pid of every linked task back to it.
THEOREM PidsNameOneTask == Spec => []SlotsMatchPids
<1>1. InductiveInv => SlotsMatchPids
  BY DEF InductiveInv, OwnershipInv
<1> QED
  BY <1>1, OwnershipInvariant, PTL

\* nr_running counts the queue, but for the window inside enqueue_task_nop.
THEOREM NrRunningExact == Spec => []NrRunningCountsQueue
<1>1. InductiveInv => NrRunningCountsQueue
  BY DEF InductiveInv, OwnershipInv
<1> QED
  BY <1>1, OwnershipInvariant, PTL

\* With kernel threads alone the uninitialised `next' of pick_next_task_nop
\* on an empty queue is the only way out of the program, and only init_task
\* can take it.
THEOREM OnlyEmptyQueueLoses == Spec => []LostOnlyByEmptyQueue
<1>1. InductiveInv => LostOnlyByEmptyQueue
  <2> SUFFICES ASSUME InductiveInv, AllSpin, NEW t \in Task, TopOf(t) = "lost"
               PROVE  t = InitTask /\ run_list = <<>>
    BY DEF LostOnlyByEmptyQueue, AllSpin
  <2>1. at[t] # "lost"
    BY DEF InductiveInv, KernelInv, InitRunsFirst, InitPoint, ForkPoint, LostInv, AllSpin,
           Task
  <2> QED
    BY <2>1 DEF InductiveInv, LostInv, TopOf
<1> QED
  BY <1>1, OwnershipInvariant, PTL
=============================================================================
