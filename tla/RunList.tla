------------------------------ MODULE RunList ------------------------------
(***************************************************************************)
(* The two linked structures a new task is put on at the end of do_fork():  *)
(* the ring of all tasks (SET_LINKS, kernel/fork.c) and the run queue       *)
(* (list_add, include/list.h, called by wake_up_process), store by store.   *)
(* do_fork runs twice over the same pointers: as called by start_kernel     *)
(* with interrupts enabled, where a timer interrupt between any two stores  *)
(* lets the scheduler walk the lists half updated, and as called by the     *)
(* clone system call with interrupts masked.  Once start_kernel has been    *)
(* preempted it never runs again (KernelProofs, InitLosesCpuForGood): its   *)
(* update then stays half done for ever, and clone works on what it left.   *)
(*                                                                          *)
(* Root is rq_head in one structure and init_task in the other.             *)
(***************************************************************************)
EXTENDS Integers, Sequences, FiniteSets

CONSTANTS Task, Root, Nil

ASSUME ListAssumption ==
  Root \notin Task /\ Nil \notin Task /\ Root # Nil /\ IsFiniteSet(Task)

Node == Task \cup {Root}

VARIABLES
  next, prev,                \* struct list_head of rq_head and of every task
  next_task, prev_task,      \* of init_task and of every task
  pc,                        \* the next store of start_kernel's do_fork
  new,                       \* the task it is adding
  after,                     \* head->next, read when list_add was called
  preempted                  \* start_kernel has lost the CPU

vars == <<next, prev, next_task, prev_task, pc, new, after, preempted>>

\* INIT_LIST_HEAD(&rq->rq_head) and INIT_TASK; a task is zeroed by do_fork.
Init ==
  /\ next = [n \in Node |-> IF n = Root THEN Root ELSE Nil]
  /\ prev = [n \in Node |-> IF n = Root THEN Root ELSE Nil]
  /\ next_task = [n \in Node |-> IF n = Root THEN Root ELSE Nil]
  /\ prev_task = [n \in Node |-> IF n = Root THEN Root ELSE Nil]
  /\ pc = "idle"
  /\ new = Nil
  /\ after = Nil
  /\ preempted = FALSE

----------------------------------------------------------------------------
(* do_fork of start_kernel, one store at a time.                            *)

Unused == {p \in Task : next[p] = Nil /\ next_task[p] = Nil /\ p # new}

Store(from, to) == ~preempted /\ pc = from /\ pc' = to /\ UNCHANGED preempted

Fork ==
  /\ Store("idle", "links1")
  /\ new' \in Unused
  /\ UNCHANGED <<next, prev, next_task, prev_task, after>>

\* The four stores of SET_LINKS.
SetLinks1 ==
  /\ Store("links1", "links2")
  /\ next_task' = [next_task EXCEPT ![new] = Root]
  /\ UNCHANGED <<next, prev, prev_task, new, after>>

SetLinks2 ==
  /\ Store("links2", "links3")
  /\ prev_task' = [prev_task EXCEPT ![new] = prev_task[Root]]
  /\ UNCHANGED <<next, prev, next_task, new, after>>

\* (mutant: the old tail is not linked to the new task)
SetLinks3_skipped ==
  /\ Store("links3", "links4")
  /\ UNCHANGED <<next, prev, next_task, prev_task, new, after>>

SetLinks3 ==
  /\ Store("links3", "links4")
  /\ next_task' = [next_task EXCEPT ![prev_task[Root]] = new]
  /\ UNCHANGED <<next, prev, prev_task, new, after>>

\* The last one, and the evaluation of list_add's head->next.
SetLinks4 ==
  /\ Store("links4", "add1")
  /\ prev_task' = [prev_task EXCEPT ![Root] = new]
  /\ after' = next[Root]
  /\ UNCHANGED <<next, prev, next_task, new>>

\* (mutants: head->next is stored first; new->next misses the old first
\* task; new->prev is not stored)
ListAdd1_publishes ==
  /\ Store("add1", "add2")
  /\ next' = [next EXCEPT ![Root] = new]
  /\ UNCHANGED <<prev, next_task, prev_task, new, after>>

ListAdd2_drops ==
  /\ Store("add2", "add3")
  /\ next' = [next EXCEPT ![new] = Root]
  /\ UNCHANGED <<prev, next_task, prev_task, new, after>>

ListAdd3_skipped ==
  /\ Store("add3", "add4")
  /\ UNCHANGED <<next, prev, next_task, prev_task, new, after>>

\* The four stores of __list_add.
ListAdd1 ==
  /\ Store("add1", "add2")
  /\ prev' = [prev EXCEPT ![after] = new]
  /\ UNCHANGED <<next, next_task, prev_task, new, after>>

ListAdd2 ==
  /\ Store("add2", "add3")
  /\ next' = [next EXCEPT ![new] = after]
  /\ UNCHANGED <<prev, next_task, prev_task, new, after>>

ListAdd3 ==
  /\ Store("add3", "add4")
  /\ prev' = [prev EXCEPT ![new] = Root]
  /\ UNCHANGED <<next, next_task, prev_task, new, after>>

ListAdd4 ==
  /\ Store("add4", "idle")
  /\ next' = [next EXCEPT ![Root] = new]
  /\ UNCHANGED <<prev, next_task, prev_task, new, after>>

----------------------------------------------------------------------------
\* A timer interrupt switches away from start_kernel for good.
Preempt == ~preempted /\ preempted' = TRUE
           /\ UNCHANGED <<next, prev, next_task, prev_task, pc, new, after>>

\* do_fork of clone: the same eight stores with interrupts masked.
SetLinks(p) ==
  /\ next_task' = [next_task EXCEPT ![p] = Root, ![prev_task[Root]] = p]
  /\ prev_task' = [prev_task EXCEPT ![p] = prev_task[Root], ![Root] = p]

ListAdd(p) ==
  /\ prev' = [prev EXCEPT ![next[Root]] = p, ![p] = Root]
  /\ next' = [next EXCEPT ![p] = next[Root], ![Root] = p]

Clone ==
  /\ preempted
  /\ \E p \in Unused : SetLinks(p) /\ ListAdd(p)
  /\ UNCHANGED <<pc, new, after, preempted>>

Next ==
  \/ Fork \/ SetLinks1 \/ SetLinks2 \/ SetLinks3 \/ SetLinks4
  \/ ListAdd1 \/ ListAdd2 \/ ListAdd3 \/ ListAdd4 \/ Preempt \/ Clone

Spec == Init /\ [][Next]_vars

----------------------------------------------------------------------------
(* What the scheduler sees: list_for_each and for_each_task follow one kind *)
(* of pointer from Root until they are back at Root.                        *)

Limit == Cardinality(Task) + 1

\* The nodes visited, Nil once a null pointer has been followed.
Visit(nx) ==
  LET v[i \in 0 .. Limit] ==
        IF i = 0 THEN Root
        ELSE IF v[i - 1] = Nil THEN Nil ELSE nx[v[i - 1]]
  IN v

Back(nx) == {i \in 1 .. Limit : Visit(nx)[i] = Root}
Ends(nx) == Back(nx) # {}
WalkLength(nx) == (CHOOSE i \in Back(nx) : \A j \in Back(nx) : i <= j) - 1
Walk(nx) == [i \in 1 .. WalkLength(nx) |-> Visit(nx)[i]]
Walked(nx) == {Walk(nx)[i] : i \in 1 .. WalkLength(nx)}

----------------------------------------------------------------------------
(* Properties. *)

\* Whenever a timer interrupt lets the scheduler in, both walks come back to
\* their head: they neither follow a null pointer nor circle for ever.
WalksEnd == Ends(next) /\ Ends(next_task)

\* Every task pick_next_task_nop can find is a task reset_score gives ticks
\* to, whatever store start_kernel was stopped at and whatever clone added
\* since.
QueuedTasksOnRing == Walked(next) \subseteq Walked(next_task)

\* When no addition is half done, prev leads back along next, as list_del
\* relies on.
PrevLeadsBack ==
  pc \in {"idle", "links1", "links2", "links3", "links4", "add1"} =>
    \A n \in Walked(next) \cup {Root} : prev[next[n]] = n

\* Seen through list_for_each, the stores are one atomic enqueue each.
AbstractQueue == INSTANCE RunQueue WITH queue <- Walk(next)
EnqueueIsAtomic == AbstractQueue!Spec
=============================================================================
