------------------------------ MODULE PageMap ------------------------------
(***************************************************************************)
(* The page bitmap of mm/page_alloc.c as operators on a value of mem_map.   *)
(* Page p stands for the byte mem_map[p - 1]; 0 is free, 1 is in use.       *)
(* get_free_page() is two operators, the scan that finds a free byte and    *)
(* the store that takes it, because nothing in the code makes the two       *)
(* atomic: a caller that runs with interrupts enabled can be preempted in   *)
(* between.                                                                 *)
(***************************************************************************)
EXTENDS Integers

CONSTANT NR_PAGES            \* length of mem_map

ASSUME NrPagesAssumption == NR_PAGES \in Nat \ {0}

Page == 1 .. NR_PAGES

\* What get_free_page() returns when no byte is free (address 0).
Null == -1

FreePages(map) == {p \in Page : map[p] = 0}

\* The for loop of get_free_page(): the first free page, or Null.
find_free(map) ==
  IF FreePages(map) = {} THEN Null
  ELSE CHOOSE p \in FreePages(map) : \A q \in FreePages(map) : p <= q

\* (mutant: the byte is not set)
take_page_unmarked(map, p) == map

\* mem_map[i] = 1
take_page(map, p) == [map EXCEPT ![p] = 1]

\* (mutants: the byte is not cleared, or the one before it is)
free_page_leak(map, p) == map
free_page_previous(map, p) == [q \in Page |-> IF q = p - 1 THEN 0 ELSE map[q]]

\* mem_map[(p - LOW_MEMORY)/PAGE_SIZE] = 0
free_page(map, p) == [map EXCEPT ![p] = 0]
=============================================================================
