------------------------------ MODULE RunQueue ------------------------------
(***************************************************************************)
(* What the run queue promises to the scheduler: list_for_each sees a       *)
(* sequence of distinct tasks that grows only by a whole task at its head.  *)
(***************************************************************************)
EXTENDS Sequences, Integers

CONSTANT Task

VARIABLE queue

Init == queue = <<>>

Enqueue(p) ==
  /\ \A i \in 1 .. Len(queue) : queue[i] # p
  /\ queue' = <<p>> \o queue

Next == \E p \in Task : Enqueue(p)

Spec == Init /\ [][Next]_queue
=============================================================================
