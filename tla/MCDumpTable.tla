---------------------------- MODULE MCDumpTable ----------------------------
(***************************************************************************)
(* DumpTable for TLC: four entries per table, so that 16 pages of memory    *)
(* are four sections behind one pud, as all of TOTAL_MEMORY is, and         *)
(* LOW_MEMORY = 8 is two sections, as in the code.  The device regions lie, *)
(* as on the two boards, in another entry of the same pgd slot or behind    *)
(* another pgd slot, with and without section alignment, or end with their  *)
(* pud; the last one goes from one pud to the next.                         *)
(***************************************************************************)
EXTENDS DumpTable

Devices == {<<48, 56>>, <<44, 48>>, <<61, 67>>, <<64, 68>>, <<28, 36>>}
=============================================================================
