---------------------------- MODULE MCPageTable ----------------------------
(***************************************************************************)
(* PageTable for TLC: four entries per table, so that 32 pages of memory    *)
(* are eight sections and LOW_MEMORY = 8 is two, as in the code.  The       *)
(* device regions lie, as on the two boards, in                             *)
(* another entry of the same pgd slot or behind another pgd slot, with and  *)
(* without section alignment.                                               *)
(***************************************************************************)
EXTENDS PageTable

Devices == {<<48, 56>>, <<61, 67>>, <<64, 68>>}
=============================================================================
