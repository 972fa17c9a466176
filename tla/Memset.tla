------------------------------- MODULE Memset -------------------------------
(***************************************************************************)
(* __memset (lib/string.c): single bytes up to where it takes the pointer   *)
(* to be aligned, blocks of ALIGN bytes, single bytes for the rest.  The    *)
(* value is the same everywhere, so memory is the set of bytes written.     *)
(***************************************************************************)
EXTENDS Integers

CONSTANTS ALIGN,             \* 16, the width of stp
          SIZE_MOD,          \* size_t is unsigned int: 2^32
          MEM                \* bytes of memory; a store beyond it faults

ASSUME MemsetAssumption ==
  /\ ALIGN \in Nat \ {0} /\ MEM \in Nat /\ SIZE_MOD \in Nat
  /\ MEM < SIZE_MOD /\ SIZE_MOD % ALIGN = 0

VARIABLES s, count,          \* the arguments
          p, left,           \* locals of __memset
          todo,              \* bytes the current loop has still to write
          written, pc

vars == <<s, count, p, left, todo, written, pc>>

Object == s .. s + count - 1

\* address & (align - 1): how far s is past a boundary
head_size(address) == address % ALIGN

Init ==
  /\ s \in 0 .. MEM - 1
  /\ count \in 0 .. MEM - s
  /\ p = s
  /\ left = count
  /\ todo = head_size(s)
  /\ written = {}
  /\ pc = "head"

\* A store of n bytes at p, or the data abort it ends in.
Store(n) ==
  /\ p + n <= MEM
  /\ written' = written \cup p .. p + n - 1
  /\ p' = p + n

Abort(n) ==
  /\ p + n > MEM
  /\ pc' = "abort"
  /\ UNCHANGED <<s, count, p, left, todo, written>>

\* One round of __memset_1bytes, for the head or for the tail.
memset_1bytes ==
  /\ pc \in {"head", "tail"} /\ todo > 0
  /\ \/ Abort(1)
     \/ Store(1) /\ todo' = todo - 1 /\ UNCHANGED <<s, count, left, pc>>

\* (mutants: left >= align; n rounded up; left passed in place of 16*n)
HeadDone_at_align ==
  /\ pc = "head" /\ todo = 0
  /\ left' = (count - head_size(s)) % SIZE_MOD
  /\ IF left' >= ALIGN
       THEN todo' = ALIGN * (left' \div ALIGN) /\ pc' = "blocks"
       ELSE todo' = 0 /\ pc' = "done"
  /\ UNCHANGED <<s, count, p, written>>

HeadDone_rounds_up ==
  /\ pc = "head" /\ todo = 0
  /\ left' = (count - head_size(s)) % SIZE_MOD
  /\ IF left' > ALIGN
       THEN todo' = ALIGN * ((left' + ALIGN - 1) \div ALIGN) /\ pc' = "blocks"
       ELSE todo' = 0 /\ pc' = "done"
  /\ UNCHANGED <<s, count, p, written>>

HeadDone_passes_left ==
  /\ pc = "head" /\ todo = 0
  /\ left' = (count - head_size(s)) % SIZE_MOD
  /\ IF left' > ALIGN
       THEN todo' = left' /\ pc' = "blocks"
       ELSE todo' = 0 /\ pc' = "done"
  /\ UNCHANGED <<s, count, p, written>>

\* left = count - size in unsigned arithmetic; if (left > align) the blocks
\* and the tail, else nothing more.
HeadDone ==
  /\ pc = "head" /\ todo = 0
  /\ left' = (count - head_size(s)) % SIZE_MOD
  /\ IF left' > ALIGN
       THEN todo' = ALIGN * (left' \div ALIGN) /\ pc' = "blocks"
       ELSE todo' = 0 /\ pc' = "done"
  /\ UNCHANGED <<s, count, p, written>>

\* One round of __memset_16bytes_asm: stp, then the test for equality.
memset_16bytes_asm ==
  /\ pc = "blocks"
  /\ \/ Abort(ALIGN)
     \/ /\ Store(ALIGN)
        /\ IF todo = ALIGN
             THEN todo' = left % ALIGN /\ pc' = "tail"
             ELSE todo' = todo - ALIGN /\ pc' = "blocks"
        /\ UNCHANGED <<s, count, left>>

Return ==
  /\ pc = "tail" /\ todo = 0
  /\ pc' = "done"
  /\ UNCHANGED <<s, count, p, left, todo, written>>

Next == memset_1bytes \/ HeadDone \/ memset_16bytes_asm \/ Return

\* Straight-line code and loops: the CPU runs on.
Spec == Init /\ [][Next]_vars /\ WF_vars(Next)
----------------------------------------------------------------------------
\* A call whose object is at least as long as its head: the subtraction does
\* not wrap.  Every caller in the kernel clears 32 bytes or more.
LongEnough == count >= head_size(s)

\* __memset does what memset must do exactly when nothing, or more than one
\* block, is left after the head; a rest of 1 .. ALIGN bytes is not written.
\* The kernel's callers clear 32 bytes or more at an address that is a
\* multiple of 8, which is always served.
FillsObject ==
  pc = "done" /\ LongEnough =>
    LET rest == count - head_size(s) IN
    written = Object <=> rest = 0 \/ rest > ALIGN

\* No store of __memset leaves the object, at any alignment, so that clearing
\* a task_struct or a table cannot touch its neighbour.
StaysInObject ==
  LongEnough => written \subseteq Object /\ pc # "abort"

\* The block loop tests for equality only, and still ends for every length.
Returns == LongEnough ~> pc = "done"
=============================================================================
