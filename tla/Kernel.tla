------------------------------- MODULE Kernel -------------------------------
(***************************************************************************)
(* The running kernel on its one CPU: tasks, the preemptive scheduler, the  *)
(* timer interrupt, fork, the page allocator and the entry and exit paths   *)
(* of entry.S.  The model starts where start_kernel() has just called       *)
(* raw_local_irq_enable() (init/main.c); from there on the timer interrupt  *)
(* can arrive between any two steps of a task that runs with interrupts     *)
(* enabled.                                                                 *)
(*                                                                          *)
(* A task is named by the page its task_struct and kernel stack live in     *)
(* (current == sp & ~(THREAD_SIZE - 1)); init_task is statically allocated  *)
(* and is task 0.  What a kernel stack holds is reduced to control points:  *)
(* the point a task has reached outside the interrupt path (at), the number *)
(* of el1_irq frames above it that have called preempt_schedule_irq()       *)
(* (depth), and the point of the innermost one (frame).                     *)
(***************************************************************************)
EXTENDS PageMap, SchedNop, FiniteSets

CONSTANTS NR_TASKS,          \* length of g_task
          BootPages,         \* how many pages irq_domain_add and paging_init took
          HARDIRQ_OFFSET,    \* what __irq_enter adds to preempt_count
          Threads            \* the bodies start_kernel passes to kernel_thread

\* What a kernel thread runs: `while (1)' (kernel_thread1 and 2), or
\* user_thread, which moves to user space.
Body == {"spin", "user"}

ASSUME TasksAssumption == NR_TASKS \in Nat \ {0}
ASSUME BootPagesAssumption == BootPages \subseteq 0 .. NR_PAGES
ASSUME HardirqAssumption == HARDIRQ_OFFSET \in Nat \ {0}
\* As in start_kernel: at most one of the threads is user_thread.
ASSUME ThreadsAssumption ==
  /\ Threads \in Seq(Body)
  /\ \A i, j \in 1 .. Len(Threads) :
       Threads[i] = "user" /\ Threads[j] = "user" => i = j

InitTask == 0
Task == {InitTask} \cup Page
Slot == 0 .. NR_TASKS - 1

(* Points of a task outside the interrupt path.                             *)
ForkPoint == {"fork_take", "fork_build", "fork_halve", "fork_publish",
              "fork_link", "fork_enqueue", "fork_account"}
BasePoint == ForkPoint \cup
  {"start_kernel",           \* between two kernel_thread calls, then the shell
   "ret_from_fork",          \* where copy_thread makes a new task start
   "thread",                 \* the body of a kernel thread
   "mtus_take",              \* in move_to_user_space, a free page found
   "ret_to_user", "user",    \* EL1 on the way out; EL0
   "need_sched",             \* in schedule(), before pick_next_task
   "sched_sw",               \* cpu_switch_to called or returning
   "sched_tail",             \* schedule_tail done, preempt_enable to come
   "no_work", "eret",        \* kernel_context_res 0: before and after msr elr
   "lost"}                   \* wild jump or panic()
(* Points of the frames preempt_schedule_irq() puts above it.               *)
FramePoint == {"psi",        \* preemption off, interrupts on
               "psi_sw", "psi_tail", "lost"}

VARIABLES
  mem_map,                   \* Page -> {0, 1}
  held,                      \* history: pages get_free_page gave to a task
  g_task,                    \* Slot -> task or Null
  linked,                    \* tasks on the next_task ring, init_task apart
  run_list,                  \* rq_head, in list_for_each order
  nr_running,
  counter, need_resched, preempt_count, pid,   \* fields of task_struct
  fn,                        \* cpu_context.x19: a Body or "none" (zero)
  pstate,                    \* pstate of the pt_regs at the top of the stack
  at,                        \* Task -> base point, "none": not a task
  depth, frame,              \* open preempt_schedule_irq frames, innermost
  current,
  irq,                       \* PSTATE.I: "on" when interrupts are enabled
  elr,                       \* whose user context ELR_EL1/SPSR_EL1 hold
  scan,                      \* local of get_free_page: the page it found
  newpid,                    \* local of do_fork, as called by start_kernel
  booted                     \* kernel_thread calls start_kernel has made

pageVars == <<mem_map, held, scan>>
forkVars == <<g_task, linked, run_list, nr_running, pid, fn, newpid, booted>>
cpuVars  == <<current, irq, elr>>
vars == <<mem_map, held, g_task, linked, run_list, nr_running, counter,
          need_resched, preempt_count, pid, fn, pstate, at, depth, frame, current,
          irq, elr, scan, newpid, booted>>

----------------------------------------------------------------------------
(* Control. *)

stackVars == <<at, depth, frame>>

\* The page holds a task_struct that copy_thread has set up.
IsTask(t) == at[t] # "none"
TopOf(t) == IF frame[t] = "none" THEN at[t] ELSE frame[t]
Top == TopOf(current)

Goto(x) == at' = [at EXCEPT ![current] = x] /\ UNCHANGED <<depth, frame>>

\* The next point of __schedule(): x when schedule() called it, y when
\* preempt_schedule_irq() did.
GoOn(x, y) ==
  \/ frame[current] = "none" /\ Goto(x)
  \/ /\ frame[current] # "none"
     /\ frame' = [frame EXCEPT ![current] = y]
     /\ UNCHANGED <<at, depth>>

InRunList(p) == \E i \in 1 .. Len(run_list) : run_list[i] = p

\* INIT_LIST_HEAD(&rq->rq_head), rq->nr_running = 0
sched_init == run_list = <<>> /\ nr_running = 0

Init ==
  /\ \E n \in BootPages :
       /\ mem_map = [p \in Page |-> IF p <= n THEN 1 ELSE 0]
       /\ held = [t \in Task |-> IF t = InitTask THEN 1 .. n ELSE {}]
  /\ g_task = [i \in Slot |-> IF i = 0 THEN InitTask ELSE Null]
  /\ linked = {}
  /\ sched_init
  /\ counter = [t \in Task |-> IF t = InitTask THEN DEF_COUNTER ELSE 0]
  /\ need_resched = [t \in Task |-> 0]
  /\ preempt_count = [t \in Task |-> 0]
  /\ pid = [t \in Task |-> 0]
  /\ fn = [t \in Task |-> "none"]
  /\ pstate = [t \in Task |-> "EL1h"]
  /\ at = [t \in Task |-> IF t = InitTask THEN "start_kernel" ELSE "none"]
  /\ depth = [t \in Task |-> 0]
  /\ frame = [t \in Task |-> "none"]
  /\ current = InitTask
  /\ irq = "on"
  /\ elr = Null
  /\ scan = [t \in Task |-> Null]
  /\ newpid = Null
  /\ booted = 0
----------------------------------------------------------------------------
(* The timer interrupt: irq_handler() calls tick_handle_periodic() on the   *)
(* interrupted task between __irq_enter and __irq_exit, interrupts masked.  *)

Tick(t) ==
  /\ counter' = [counter EXCEPT ![t] = tick_counter(@)]
  /\ need_resched' = [need_resched EXCEPT ![t] =
                         IF tick_expires(counter[t]) THEN 1 ELSE @]

irq_enter(c) == c + HARDIRQ_OFFSET
irq_exit(c) == c - HARDIRQ_OFFSET

\* el1_irq reads both fields after irq_handler has returned.
Preemptible(t) ==
  /\ irq_exit(irq_enter(preempt_count[t])) = 0
  /\ need_resched[t] = 1 \/ tick_expires(counter[t])

El1IrqReturn ==
  /\ irq = "on"
  /\ Top # "user"
  /\ Tick(current)
  /\ ~Preemptible(current)
  /\ preempt_count' = [preempt_count EXCEPT ![current] = irq_exit(irq_enter(@))]
  /\ elr' = Null
  /\ UNCHANGED <<pageVars, forkVars, pstate, stackVars, current, irq>>

\* (mutant: preempt_schedule_irq does not disable preemption)
El1IrqPreempt_stays_on ==
  /\ irq = "on"
  /\ Top # "user"
  /\ Tick(current)
  /\ Preemptible(current)
  /\ preempt_count' = [preempt_count EXCEPT ![current] = irq_exit(irq_enter(@))]
  /\ depth' = [depth EXCEPT ![current] = @ + 1]
  /\ frame' = [frame EXCEPT ![current] = "psi"]
  /\ elr' = Null
  /\ UNCHANGED <<pageVars, forkVars, pstate, at, current, irq>>

\* el1_preempt: preempt_schedule_irq disables preemption, enables interrupts.
El1IrqPreempt ==
  /\ irq = "on"
  /\ Top # "user"
  /\ Tick(current)
  /\ Preemptible(current)
  /\ preempt_count' =
       [preempt_count EXCEPT ![current] = irq_exit(irq_enter(@)) + 1]
  /\ depth' = [depth EXCEPT ![current] = @ + 1]
  /\ frame' = [frame EXCEPT ![current] = "psi"]
  /\ elr' = Null
  /\ UNCHANGED <<pageVars, forkVars, pstate, at, current, irq>>

El0Irq ==
  /\ irq = "on"
  /\ Top = "user"
  /\ Tick(current)
  /\ preempt_count' = [preempt_count EXCEPT ![current] = irq_exit(irq_enter(@))]
  /\ irq' = "off"
  /\ Goto("ret_to_user")
  /\ UNCHANGED <<pageVars, forkVars, pstate, current, elr>>

TimerIrq == El1IrqReturn \/ El1IrqPreempt \/ El0Irq

----------------------------------------------------------------------------
(* __schedule(), called by preempt_schedule_irq ("psi") or by schedule      *)
(* ("need_sched").  task->state is TASK_RUNNING in every task, so the call  *)
(* of dequeue_task is never reached.                                        *)

InSchedule == Top \in {"psi", "need_sched"}
Scores == pick_scores(run_list, counter, linked)

\* (mutant: when every slice is used up, init_task runs as the idle task)
Next_task_idle ==
  IF all_used_up(run_list, counter) THEN InitTask
  ELSE pick_next_task(run_list, counter, linked)

Next_task == pick_next_task(run_list, counter, linked)

\* The loop of pick_next_task_nop leaves only when the best counter is not 0.
PickEnds == ~all_used_up(run_list, Scores)

\* (mutant: the request stays set)
clear_task_resched_forgotten(t) == UNCHANGED need_resched

clear_task_resched(t) == need_resched' = [need_resched EXCEPT ![t] = 0]

\* next == prev; on an empty queue `next' is uninitialised and may be prev.
ScheduleSame ==
  /\ InSchedule
  /\ PickEnds
  /\ run_list # <<>> => Next_task = current
  /\ counter' = Scores
  /\ clear_task_resched(current)
  /\ irq' = "on"
  /\ GoOn("sched_tail", "psi_tail")
  /\ UNCHANGED <<pageVars, forkVars, preempt_count, pstate, current, elr>>

\* On an empty queue `next' may be anything else: cpu_switch_to loads a
\* stack pointer and a return address from there.
ScheduleGarbage ==
  /\ InSchedule
  /\ run_list = <<>>
  /\ clear_task_resched(current)
  /\ irq' = "off"
  /\ GoOn("lost", "lost")
  /\ UNCHANGED <<pageVars, forkVars, counter, preempt_count, pstate, current, elr>>

ScheduleSwitch ==
  /\ InSchedule
  /\ PickEnds
  /\ run_list # <<>>
  /\ Next_task # current
  /\ counter' = Scores
  /\ clear_task_resched(current)
  /\ irq' = "off"
  /\ GoOn("sched_sw", "psi_sw")
  /\ current' = Next_task
  /\ UNCHANGED <<pageVars, forkVars, preempt_count, pstate, elr>>

\* A task that was switched away from returns from cpu_switch_to.
FinishSwitch ==
  /\ Top \in {"psi_sw", "sched_sw"}
  /\ irq' = "on"
  /\ GoOn("sched_tail", "psi_tail")
  /\ UNCHANGED <<pageVars, forkVars, counter, need_resched, preempt_count,
                 pstate, current, elr>>

\* The end of preempt_schedule_irq, and kernel_context_res 1 of el1_irq.  An
\* outer frame could only be where interrupts are on.
PreemptReturn ==
  /\ Top = "psi_tail"
  /\ preempt_count' = [preempt_count EXCEPT ![current] = @ - 1]
  /\ depth' = [depth EXCEPT ![current] = @ - 1]
  /\ \E f \in IF depth[current] = 1 THEN {"none"} ELSE {"psi", "psi_tail"} :
       frame' = [frame EXCEPT ![current] = f]
  /\ irq' = "on"
  /\ elr' = Null
  /\ UNCHANGED <<pageVars, forkVars, counter, need_resched, pstate, at, current>>

\* (mutant: schedule() does not call preempt_enable)
SchedReturn_stays_off ==
  /\ Top = "sched_tail"
  /\ Goto("no_work")
  /\ UNCHANGED <<pageVars, forkVars, counter, need_resched, preempt_count, pstate,
                 cpuVars>>

\* The end of schedule(): interrupts stay as schedule_tail left them.
SchedReturn ==
  /\ Top = "sched_tail"
  /\ preempt_count' = [preempt_count EXCEPT ![current] = @ - 1]
  /\ Goto("no_work")
  /\ UNCHANGED <<pageVars, forkVars, counter, need_resched, pstate, cpuVars>>

\* (mutant: ret_from_fork does not call schedule_tail)
RetFromFork_no_tail ==
  /\ Top = "ret_from_fork"
  /\ Goto(IF fn[current] = "none" THEN "ret_to_user" ELSE "thread")
  /\ UNCHANGED <<pageVars, forkVars, counter, need_resched, preempt_count,
                 pstate, cpuVars>>

\* (mutant: the test of x19 the wrong way round)
RetFromFork_swapped ==
  /\ Top = "ret_from_fork"
  /\ irq' = "on"
  /\ Goto(IF fn[current] = "none" THEN "thread" ELSE "ret_to_user")
  /\ UNCHANGED <<pageVars, forkVars, counter, need_resched, preempt_count,
                 pstate, current, elr>>

\* ret_from_fork: schedule_tail, then the body in x19 if there is one.
RetFromFork ==
  /\ Top = "ret_from_fork"
  /\ irq' = "on"
  /\ Goto(IF fn[current] = "none" THEN "ret_to_user" ELSE "thread")
  /\ UNCHANGED <<pageVars, forkVars, counter, need_resched, preempt_count,
                 pstate, current, elr>>
----------------------------------------------------------------------------
(* Leaving the kernel (entry.S).                                            *)

\* ret_to_user with need_resched set: schedule() is called.
RetToUserSchedule ==
  /\ Top = "ret_to_user"
  /\ need_resched[current] = 1
  /\ preempt_count' = [preempt_count EXCEPT ![current] = @ + 1]
  /\ irq' = "off"
  /\ Goto("need_sched")
  /\ UNCHANGED <<pageVars, forkVars, counter, need_resched, pstate, current, elr>>

\* no_work_pending reached with interrupts masked: nothing can come between
\* the msr elr_el1 and the eret.
RetToUser ==
  /\ Top = "ret_to_user"
  /\ need_resched[current] = 0
  /\ IF pstate[current] = "EL0t"
       THEN Goto("user") /\ irq' = "on" /\ elr' = current
       ELSE Goto("lost") /\ irq' = "off" /\ elr' = Null
  /\ UNCHANGED <<pageVars, forkVars, counter, need_resched, preempt_count,
                 pstate, current>>

\* no_work_pending reached from schedule(), which enabled interrupts.
RestoreElr ==
  /\ Top = "no_work"
  /\ elr' = IF pstate[current] = "EL0t" THEN current ELSE Null
  /\ Goto("eret")
  /\ UNCHANGED <<pageVars, forkVars, counter, need_resched, preempt_count,
                 pstate, current, irq>>

Eret ==
  /\ Top = "eret"
  /\ IF elr = current
       THEN Goto("user") /\ irq' = "on"
       ELSE Goto("lost") /\ irq' = "off"
  /\ UNCHANGED <<pageVars, forkVars, counter, need_resched, preempt_count,
                 pstate, current, elr>>

\* bad_mode ends in panic(), which loops for ever.
Panic == Top = "lost" /\ UNCHANGED vars

----------------------------------------------------------------------------
(* do_fork() as start_kernel calls it through kernel_thread(): interrupts   *)
(* are enabled, and every step may be followed by a preemption.             *)

\* (mutant: the last slot, empty or not)
find_empty_task_last(slots) == NR_TASKS - 1

find_empty_task(slots) ==
  IF \A i \in Slot : slots[i] # Null THEN Null
  ELSE CHOOSE i \in Slot : slots[i] = Null /\ \A j \in Slot : slots[j] = Null => i <= j

ForkEnds == booted' = booted + 1 /\ Goto("start_kernel")

ForkNoPage ==
  /\ Top = "start_kernel"
  /\ booted < Len(Threads)
  /\ find_free(mem_map) = Null
  /\ ForkEnds
  /\ UNCHANGED <<pageVars, g_task, linked, run_list, nr_running, pid, fn, newpid,
                 counter, need_resched, preempt_count, pstate, cpuVars>>

ForkScan ==
  /\ Top = "start_kernel"
  /\ booted < Len(Threads)
  /\ find_free(mem_map) # Null
  /\ scan' = [scan EXCEPT ![current] = find_free(mem_map)]
  /\ Goto("fork_take")
  /\ UNCHANGED <<mem_map, held, forkVars, counter, need_resched, preempt_count,
                 pstate, cpuVars>>

Take ==
  /\ mem_map' = take_page(mem_map, scan[current])
  /\ held' = [held EXCEPT ![current] = @ \cup {scan[current]}]

ForkTake ==
  /\ Top = "fork_take"
  /\ Take
  /\ Goto("fork_build")
  /\ UNCHANGED <<scan, forkVars, counter, need_resched, preempt_count, pstate,
                 cpuVars>>

ForkNoSlot ==
  /\ Top = "fork_build"
  /\ find_empty_task(g_task) = Null
  /\ mem_map' = free_page(mem_map, scan[current])
  /\ held' = [held EXCEPT ![current] = @ \ {scan[current]}]
  /\ ForkEnds
  /\ UNCHANGED <<scan, g_task, linked, run_list, nr_running, pid, fn, newpid,
                 counter, need_resched, preempt_count, pstate, cpuVars>>

\* memset, copy_thread and the fields of the child, which nobody sees yet.
ForkBuild ==
  LET p == scan[current] IN
  /\ Top = "fork_build"
  /\ find_empty_task(g_task) # Null
  /\ newpid' = find_empty_task(g_task)
  /\ pid' = [pid EXCEPT ![p] = newpid']
  /\ fn' = [fn EXCEPT ![p] = Threads[booted + 1]]
  /\ pstate' = [pstate EXCEPT ![p] = "EL1h"]
  /\ counter' = [counter EXCEPT ![p] = (counter[current] + 1) \div 2]
  /\ need_resched' = [need_resched EXCEPT ![p] = 0]
  /\ preempt_count' = [preempt_count EXCEPT ![p] = 0]
  /\ at' = [at EXCEPT ![current] = "fork_halve", ![p] = "ret_from_fork"]
  /\ UNCHANGED <<depth, frame, pageVars, g_task, linked, run_list, nr_running, booted, cpuVars>>

\* current->counter >>= 1
ForkHalve ==
  /\ Top = "fork_halve"
  /\ counter' = [counter EXCEPT ![current] = @ \div 2]
  /\ Goto("fork_publish")
  /\ UNCHANGED <<pageVars, forkVars, need_resched, preempt_count, pstate, cpuVars>>

\* (mutant: SET_LINKS is left out)
ForkPublish_no_links ==
  /\ Top = "fork_publish"
  /\ g_task' = [g_task EXCEPT ![newpid] = scan[current]]
  /\ Goto("fork_enqueue")
  /\ UNCHANGED <<pageVars, linked, run_list, nr_running, pid, fn, newpid, booted,
                 counter, need_resched, preempt_count, pstate, cpuVars>>

\* g_task[pid] = p
ForkPublish ==
  /\ Top = "fork_publish"
  /\ g_task' = [g_task EXCEPT ![newpid] = scan[current]]
  /\ Goto("fork_link")
  /\ UNCHANGED <<pageVars, linked, run_list, nr_running, pid, fn, newpid, booted,
                 counter, need_resched, preempt_count, pstate, cpuVars>>

\* SET_LINKS(p), one step for a reader of the ring (see RunList)
ForkLink ==
  /\ Top = "fork_link"
  /\ linked' = linked \cup {scan[current]}
  /\ Goto("fork_enqueue")
  /\ UNCHANGED <<pageVars, g_task, run_list, nr_running, pid, fn, newpid, booted,
                 counter, need_resched, preempt_count, pstate, cpuVars>>

\* wake_up_process(p): list_add, then nr_running++
ForkEnqueue ==
  /\ Top = "fork_enqueue"
  /\ run_list' = enqueue_task(run_list, scan[current])
  /\ Goto("fork_account")
  /\ UNCHANGED <<pageVars, g_task, linked, nr_running, pid, fn, newpid, booted,
                 counter, need_resched, preempt_count, pstate, cpuVars>>

\* (mutant: nr_running is not counted)
ForkAccount_uncounted ==
  /\ Top = "fork_account"
  /\ ForkEnds
  /\ UNCHANGED <<pageVars, g_task, linked, run_list, nr_running, pid, fn, newpid,
                 counter, need_resched, preempt_count, pstate, cpuVars>>

ForkAccount ==
  /\ Top = "fork_account"
  /\ nr_running' = nr_running + 1
  /\ ForkEnds
  /\ UNCHANGED <<pageVars, g_task, linked, run_list, pid, fn, newpid, counter,
                 need_resched, preempt_count, pstate, cpuVars>>

KernelThread ==
  \/ ForkNoPage \/ ForkScan \/ ForkTake \/ ForkNoSlot \/ ForkBuild
  \/ ForkHalve \/ ForkPublish \/ ForkLink \/ ForkEnqueue \/ ForkAccount
----------------------------------------------------------------------------
(* user_thread(): move_to_user_space(), then the thread returns to          *)
(* ret_from_fork, which falls into ret_to_user.                             *)

MoveToUserNoPage ==
  /\ Top = "thread" /\ fn[current] = "user"
  /\ find_free(mem_map) = Null
  /\ Goto("ret_to_user")
  /\ UNCHANGED <<pageVars, forkVars, counter, need_resched, preempt_count,
                 pstate, cpuVars>>

MoveToUserScan ==
  /\ Top = "thread" /\ fn[current] = "user"
  /\ find_free(mem_map) # Null
  /\ scan' = [scan EXCEPT ![current] = find_free(mem_map)]
  /\ Goto("mtus_take")
  /\ UNCHANGED <<mem_map, held, forkVars, counter, need_resched, preempt_count,
                 pstate, cpuVars>>

\* The user stack is taken and start_user_thread fills the pt_regs.
MoveToUserTake ==
  /\ Top = "mtus_take"
  /\ Take
  /\ pstate' = [pstate EXCEPT ![current] = "EL0t"]
  /\ Goto("ret_to_user")
  /\ UNCHANGED <<scan, forkVars, counter, need_resched, preempt_count, cpuVars>>

UserThread == MoveToUserNoPage \/ MoveToUserScan \/ MoveToUserTake

----------------------------------------------------------------------------
(* el0_sync: every exception of EL0 enters el0_svc_handler; the handlers    *)
(* run with interrupts masked, so each system call is one step.             *)

SvcReturn == irq' = "off" /\ Goto("ret_to_user")

\* open, close, read, write and numbers past the end of the table return -1,
\* as do malloc and clone when no page is free.
SysOther ==
  /\ Top = "user"
  /\ SvcReturn
  /\ UNCHANGED <<pageVars, forkVars, counter, need_resched, preempt_count,
                 pstate, current, elr>>

SysMalloc ==
  LET p == find_free(mem_map) IN
  /\ Top = "user"
  /\ p # Null
  /\ mem_map' = take_page(mem_map, p)
  /\ held' = [held EXCEPT ![current] = @ \cup {p}]
  /\ SvcReturn
  /\ UNCHANGED <<scan, forkVars, counter, need_resched, preempt_count, pstate,
                 current, elr>>

\* do_fork fails after it has a page: no slot, or a misaligned stack.
SysCloneFails ==
  LET p == find_free(mem_map) IN
  /\ Top = "user"
  /\ p # Null
  /\ mem_map' = free_page(take_page(mem_map, p), p)
  /\ SvcReturn
  /\ UNCHANGED <<held, scan, forkVars, counter, need_resched, preempt_count,
                 pstate, current, elr>>

\* clone without PF_KTHREAD: the child gets a copy of the user context and
\* x19 = 0, so ret_from_fork takes it straight to user space.
SysClone ==
  LET p == find_free(mem_map)
      n == find_empty_task(g_task) IN
  /\ Top = "user"
  /\ p # Null /\ n # Null
  /\ mem_map' = take_page(mem_map, p)
  /\ held' = [held EXCEPT ![current] = @ \cup {p}]
  /\ pid' = [pid EXCEPT ![p] = n]
  /\ fn' = [fn EXCEPT ![p] = "none"]
  /\ pstate' = [pstate EXCEPT ![p] = pstate[current]]
  /\ counter' = [counter EXCEPT ![p] = (counter[current] + 1) \div 2,
                                ![current] = @ \div 2]
  /\ need_resched' = [need_resched EXCEPT ![p] = 0]
  /\ preempt_count' = [preempt_count EXCEPT ![p] = 0]
  /\ g_task' = [g_task EXCEPT ![n] = p]
  /\ linked' = linked \cup {p}
  /\ run_list' = enqueue_task(run_list, p)
  /\ nr_running' = nr_running + 1
  /\ at' = [at EXCEPT ![current] = "ret_to_user", ![p] = "ret_from_fork"]
  /\ irq' = "off"
  /\ UNCHANGED <<depth, frame, scan, newpid, booted, current, elr>>

Svc == SysOther \/ SysMalloc \/ SysCloneFails \/ SysClone

----------------------------------------------------------------------------
Schedule == ScheduleSame \/ ScheduleGarbage \/ ScheduleSwitch
Exit == \/ FinishSwitch \/ PreemptReturn \/ SchedReturn \/ RetFromFork
        \/ RetToUserSchedule \/ RetToUser \/ RestoreElr \/ Eret

\* A step of the program, as opposed to an interrupt.
CpuStep == Schedule \/ Exit \/ KernelThread \/ UserThread

Next == TimerIrq \/ CpuStep \/ Svc \/ Panic

\* The timer is periodic and never stopped; the CPU runs on between two
\* ticks.  Nothing obliges a user program to make system calls.
Fairness == WF_vars(TimerIrq) /\ WF_vars(CpuStep)

Spec == Init /\ [][Next]_vars
FairSpec == Spec /\ Fairness
----------------------------------------------------------------------------
(* Properties. *)

\* Type invariant: the range of every variable, counters within a full slice.
TypeOK ==
  /\ mem_map \in [Page -> {0, 1}]
  /\ held \in [Task -> SUBSET Page]
  /\ g_task \in [Slot -> Task \cup {Null}]
  /\ linked \in SUBSET Page
  /\ run_list \in Seq(Page)
  /\ nr_running \in Nat
  /\ counter \in [Task -> 0 .. FullSlice]
  /\ need_resched \in [Task -> {0, 1}]
  /\ preempt_count \in [Task -> Nat]
  /\ pid \in [Task -> Slot]
  /\ fn \in [Task -> Body \cup {"none"}]
  /\ pstate \in [Task -> {"EL1h", "EL0t"}]
  /\ at \in [Task -> BasePoint \cup {"none"}]
  /\ depth \in [Task -> Nat]
  /\ frame \in [Task -> FramePoint \cup {"none"}]
  /\ current \in Task
  /\ irq \in {"on", "off"}
  /\ elr \in Task \cup {Null}
  /\ scan \in [Task -> Page \cup {Null}]
  /\ newpid \in Slot \cup {Null}
  /\ booted \in 0 .. Len(Threads)

SchedPoint == {"need_sched", "sched_sw", "sched_tail"}

\* Calls of __schedule() that are open on the stack of t.
ScheduleDepth(t) == depth[t] + (IF at[t] \in SchedPoint THEN 1 ELSE 0)

\* preempt_schedule_irq() is never entered while the same task is inside
\* __schedule(), whatever interrupts arrive: what the comment in
\* preempt_schedule_irq (kernel/sched.c) claims of preempt_disable.
NoNestedPreemption ==
  \A t \in Task : depth[t] > 0 => depth[t] = 1 /\ at[t] \notin SchedPoint

\* preempt_count is exactly the number of open __schedule() calls, for the
\* running task and for every parked one: neither "BUG: scheduling while
\* atomic" nor "BUG: incorrect preempt count" (kernel/sched.c) can print,
\* and no task is left unpreemptible.
PreemptCountIsScheduleDepth ==
  \A t \in Task : IsTask(t) => preempt_count[t] = ScheduleDepth(t)

\* A task that is not running is parked inside cpu_switch_to or has never
\* run, and carries no reschedule request of its last slice (__schedule
\* clears it before the switch).
ParkedTasks ==
  \A t \in Task :
    t # current /\ IsTask(t) =>
      /\ TopOf(t) \in {"psi_sw", "sched_sw", "ret_from_fork"}
      /\ need_resched[t] = 0

\* Interrupts are masked from the choice of the next task until
\* schedule_tail, and unmasked at every other point of a task except on its
\* way out to user space: no switch can leave a thread or a user program
\* running with the timer shut out.
InterruptMask ==
  /\ Top \in {"psi_sw", "sched_sw", "ret_from_fork", "need_sched", "lost"}
       => irq = "off"
  /\ irq = "off" =>
       Top \in {"psi_sw", "sched_sw", "ret_from_fork", "need_sched", "lost",
                "ret_to_user"}

\* Every queued task is on the next_task ring, is queued once and is not
\* init_task: for_each_task in reset_score then reaches every queued task,
\* which the `goto repeat' of pick_next_task_nop relies on.
RunQueueLinked ==
  /\ \A i \in 1 .. Len(run_list) : run_list[i] \in linked
  /\ \A i, j \in 1 .. Len(run_list) : run_list[i] = run_list[j] => i = j

\* Whenever __schedule() is about to pick, the loop of pick_next_task_nop
\* ends after at most one reset_score.
PickAlwaysEnds == InSchedule => PickEnds

\* nr_running lags behind the queue only between list_add and the increment
\* in enqueue_task_nop, even if init is preempted there for ever.
NrRunningCountsQueue ==
  nr_running = Len(run_list)
               - (IF at[InitTask] = "fork_account" THEN 1 ELSE 0)

\* A pid names one task: g_task leads back to every linked task, although
\* find_empty_task and the store into g_task can be separated by a
\* preemption in which another task forks.
SlotsMatchPids == \A p \in linked : g_task[pid[p]] = p

\* get_free_page never gives the same page to two tasks, although its test
\* and its store are not atomic in do_fork and move_to_user_space.
PagesExclusive ==
  \A t, u \in Task : t # u => held[t] \cap held[u] = {}

\* mem_map marks exactly the pages that somebody holds: nothing leaks on the
\* error paths of do_fork, nothing is freed while in use.
PagesAccounted ==
  \A p \in Page : mem_map[p] = 1 <=> \E t \in Task : p \in held[t]

\* The task_struct and stack of a task never lie in a page that mem_map
\* offers to the next caller of get_free_page.
TaskPagesInUse == \A p \in Page : IsTask(p) => mem_map[p] = 1

\* The context kernel_context_res 0 returns to is the one saved for the
\* current task (struct pt_regs, asm/system.h: "save interrupt context or
\* exception context").
EretToOwnContext ==
  Top = "eret" /\ pstate[current] = "EL0t" => elr = current

\* Every context switch goes to a queued task that has ticks left.
SwitchGivesTime ==
  [][current' # current =>
       InRunList(current') /\ counter'[current'] > 0]_vars

\* init_task is never on the run queue: once preempted, it never runs again.
InitNeverReturns == [][current' = InitTask => current = InitTask]_vars

\* With kernel threads alone the CPU leaves the program in one way only: the
\* slice of start_kernel ends before any thread is queued, and __schedule
\* switches to the uninitialised `next' of pick_next_task_nop.
LostOnlyByEmptyQueue ==
  (\A i \in 1 .. Len(Threads) : Threads[i] = "spin") =>
    \A t \in Task : TopOf(t) = "lost" => t = InitTask /\ run_list = <<>>

\* Every queued task gets the CPU again and again.
EveryTaskRuns == \A p \in Page : InRunList(p) ~> current = p
----------------------------------------------------------------------------
(* The inductive invariant behind the safety properties.                    *)

InitPoint == ForkPoint \cup {"start_kernel"}
InterruptedPoint == BasePoint \ (SchedPoint \cup {"ret_from_fork", "user", "lost"})

\* At most one frame of preempt_schedule_irq, above a point that was
\* interrupted with preemption enabled.
StackShape ==
  \A t \in Task :
    \/ depth[t] = 0 /\ frame[t] = "none"
    \/ depth[t] = 1 /\ frame[t] # "none" /\ at[t] \in InterruptedPoint

\* init_task never leaves start_kernel, and while it runs no other task has
\* run yet; from then on the run queue is not empty.
InitRunsFirst ==
  /\ IsTask(current)
  /\ \A t \in Task : at[t] \in InitPoint <=> t = InitTask
  /\ current = InitTask =>
       \A p \in Page : at[p] \in {"none", "ret_from_fork"} /\ frame[p] = "none"
  /\ current # InitTask => run_list # <<>>

\* What the locals of do_fork mean at each of its points.  Once init has
\* lost the CPU they may be stale: it never runs again.
ForkLocals ==
  LET here == at[InitTask]
      p == scan[InitTask] IN
  here \in ForkPoint =>
    /\ p \in Page
    /\ booted < Len(Threads)
    /\ here \in {"fork_halve", "fork_publish"} => newpid \in Slot
    /\ here = "fork_enqueue" => p \in linked
    /\ current = InitTask =>
         /\ here = "fork_take" => mem_map[p] = 0
         /\ here = "fork_build" => mem_map[p] = 1 /\ ~IsTask(p)
         /\ here \notin {"fork_take", "fork_build"} => IsTask(p)
         /\ here \in {"fork_halve", "fork_publish", "fork_link", "fork_enqueue"} =>
              ~InRunList(p)

\* The local of get_free_page in move_to_user_space is a page.
MoveToUserLocals ==
  \A t \in Task :
    at[t] = "mtus_take" => scan[t] \in Page

\* copy_thread has run before SET_LINKS.
LinkedTasksBuilt == \A p \in linked : IsTask(p)

\* The invariant every step of the kernel preserves.
KernelInv ==
  /\ TypeOK
  /\ StackShape
  /\ PreemptCountIsScheduleDepth
  /\ ParkedTasks
  /\ InterruptMask
  /\ InitRunsFirst
  /\ ForkLocals
  /\ MoveToUserLocals
  /\ LinkedTasksBuilt
  /\ RunQueueLinked
  /\ TaskPagesInUse
----------------------------------------------------------------------------
(* The inductive invariant behind the properties of pages, pids and counts. *)

\* Points of do_fork after the child has been built.
BuiltPoint == {"fork_halve", "fork_publish", "fork_link", "fork_enqueue",
               "fork_account"}

\* What do_fork owns while init runs it: between get_free_page and the test
\* of the pid, its page; from there until g_task[pid] = p, an empty slot.
ForkOwns ==
  LET here == at[InitTask]
      p == scan[InitTask] IN
  current = InitTask =>
    /\ here = "fork_build" => p \in held[InitTask]
    /\ here \in {"fork_halve", "fork_publish"} =>
         g_task[newpid] = Null /\ pid[p] = newpid
    /\ here = "fork_link" => g_task[pid[p]] = p

\* user_thread is started once: at most one task has it as its body.
OneUserThread ==
  \A t \in Task : fn[t] = "user" =>
    /\ \A u \in Task : fn[u] = "user" => u = t
    /\ \E i \in 1 .. Len(Threads) :
         /\ Threads[i] = "user"
         /\ i <= booted + (IF at[InitTask] \in BuiltPoint THEN 1 ELSE 0)

\* No task has a user context before user_thread has filled its own, so
\* nobody makes a system call while move_to_user_space looks for a page.
UserAfterMove ==
  /\ \A t \in Task :
       fn[t] = "user" /\ at[t] \in {"ret_from_fork", "thread", "mtus_take"} =>
         \A u \in Task : pstate[u] = "EL1h"
  /\ \A t \in Task :
       at[t] = "mtus_take" => fn[t] = "user" /\ mem_map[scan[t]] = 0
  /\ current = InitTask => \A u \in Task : pstate[u] = "EL1h"
  /\ \A t \in Task : at[t] = "user" => pstate[t] = "EL0t"
  /\ elr # Null => pstate[elr] = "EL0t"

\* Every step of the kernel preserves this together with KernelInv.
OwnershipInv ==
  /\ NrRunningCountsQueue
  /\ SlotsMatchPids
  /\ PagesExclusive
  /\ PagesAccounted
  /\ ForkOwns
  /\ OneUserThread
  /\ UserAfterMove

\* A stack on which preempt_schedule_irq() is lost is the one of init_task,
\* and nothing moves any more; and a kernel thread that spins never leaves
\* its body.
LostInv ==
  /\ \A t \in Task :
       frame[t] = "lost" => t = InitTask /\ current = InitTask /\ run_list = <<>>
  /\ (\A i \in 1 .. Len(Threads) : Threads[i] = "spin") =>
       \A p \in Page :
         /\ at[p] \in {"none", "ret_from_fork", "thread"}
         /\ at[p] # "none" => fn[p] = "spin"

\* The whole inductive invariant, as a run checks it.
InductiveInv == KernelInv /\ OwnershipInv /\ LostInv
=============================================================================
