----------------------------- MODULE MCConsole -----------------------------
(***************************************************************************)
(* Console for TLC: two threads and start_kernel, whose texts differ in     *)
(* length and in every character; the tick's line is shorter than one       *)
(* thread's text and longer than the other's.                               *)
(***************************************************************************)
EXTENDS Console

Threads == {"thread1", "thread2"}
Texts == [thread1 |-> <<"a", "LF">>,
          thread2 |-> <<"b", "c", "d", "LF">>,
          init    |-> <<"e", "LF">>]
TickLine == <<"p", "i", "LF">>

TwoEarly == << <<"u", "LF">>, <<"v">> >>
ThreeEarly == << <<"u", "LF">>, <<"v">>, <<"w", "LF">> >>
=============================================================================
