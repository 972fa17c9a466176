----------------------------- MODULE DumpTable -----------------------------
(***************************************************************************)
(* dump_pgtable and test_walk_pgtable (arch/arm64/mach-rpi/dump_pgtable.c): *)
(* start_kernel, built with DEBUG_DUMP_PGTABLE, prints the identity mapping *)
(* of the memory and of the devices, then makes the last page of the text   *)
(* writable and prints that one.  One step is one iteration of the loop of  *)
(* walk_pgd, with the walks below it.                                       *)
(***************************************************************************)
EXTENDS PageTable, FiniteSets

VARIABLES dump,              \* the call of walk_pgd being served; 0: not built in
          cursor,            \* its addr
          printed,           \* the lines, each with its call
          patched,           \* test_walk_pgtable has stored its descriptor
          runaway            \* a loop that has no end any more

dumpVars == <<dump, cursor, printed, patched, runaway>>

\* linker.ld reserves the last page of the text.
readonly_page == regions[1].to - 1

\* The calls of walk_pgd: start and end.
Walks == << [from |-> 0, to |-> TOTAL_MEMORY],
            [from |-> regions[3].from, to |-> regions[3].to],
            [from |-> readonly_page, to |-> readonly_page + 1] >>

Dumping == dump \in 1 .. Len(Walks)

\* Without DEBUG_DUMP_PGTABLE nothing is dumped.
DumpInit ==
  /\ Init
  /\ dump \in {0, 1}
  /\ cursor = 0
  /\ printed = {}
  /\ patched = FALSE /\ runaway = FALSE

----------------------------------------------------------------------------
\* (mutant: the boundary below)
addr_end_below(a, end, size) ==
  LET boundary == (a \div size) * size
  IN  IF boundary - 1 < end - 1 THEN boundary ELSE end

\* pgd_addr_end, pud_addr_end
addr_end(a, end, size) ==
  LET boundary == (a \div size + 1) * size
  IN  IF boundary - 1 < end - 1 THEN boundary ELSE end

\* A line, if there is anything to show.
print_pgtable(from, to, d) ==
  IF d = Fault THEN {} ELSE {[from |-> from, to |-> to, desc |-> d]}

walk_pte(f, start, end) ==
  UNION {print_pgtable(a, a + 1, table[f][index(0, a)]) : a \in start .. end - 1}

\* (mutant: a section is shown where the range begins only)
walk_pmd_first(f, start, end) ==
  LET d == table[f][index(1, start)]
      next == pmd_addr_end(start, end)
  IN  IF d.type \in {"fault", "sect"} THEN print_pgtable(start, next, d)
                                      ELSE walk_pte(d.out, start, next)

\* An iteration for each section the range meets.
walk_pmd(f, start, end) ==
  UNION { LET d == table[f][index(1, a)]
              next == pmd_addr_end(a, end)
          IN  IF d.type \in {"fault", "sect"} THEN print_pgtable(a, next, d)
                                              ELSE walk_pte(d.out, a, next)
        : a \in {x \in start .. end - 1 : x = start \/ x % PTRS = 0} }

\* The boundary is computed from `start' in every iteration: a range that goes
\* on after the first one keeps its cursor there for good.
walk_pud(f, start, end) ==
  LET d == table[f][index(2, start)]
      next == addr_end(start, end, Span[2])
  IN  [lines |-> IF d.type = "table" THEN walk_pmd(d.out, start, next)
                                     ELSE print_pgtable(start, next, d),
       ends |-> next = end]

\* An iteration of walk_pgd; the last one goes on to the next call.
WalkPgd ==
  /\ mmu /\ ~runaway /\ Dumping
  /\ dump = 3 => patched
  /\ LET w    == Walks[dump]
         next == addr_end(cursor, w.to, Span[3])
         d    == table[Pgd][index(3, cursor)]
         sub  == IF d = Fault THEN [lines |-> {}, ends |-> TRUE]
                              ELSE walk_pud(d.out, cursor, next)
         last == next = w.to /\ sub.ends
     IN  /\ runaway' = ~sub.ends
         /\ printed' = printed \cup {[walk |-> dump, line |-> l] : l \in sub.lines}
         /\ dump' = IF last THEN dump + 1 ELSE dump
         /\ cursor' = CASE last /\ dump < Len(Walks) -> Walks[dump + 1].from
                       [] ~last /\ sub.ends -> next
                       [] OTHER -> cursor
  /\ UNCHANGED <<vars, patched>>

\* Where walk_pgtable's result points: a section in its pmd, a page in its pte.
EntryOf(a) ==
  LET pud == Desc(2, Desc(3, Pgd, a).out, a)
      pmd == Desc(1, pud.out, a)
  IN  IF pmd.type = "sect" THEN <<pud.out, index(1, a)>> ELSE <<pmd.out, index(0, a)>>

\* pte_mkwrite: PTE_WRITE set, PTE_RDONLY cleared; pte_mkyoung changes nothing.
pte_mkwrite(prot) == IF prot = "ROX" THEN "RWX" ELSE prot

\* The first part of test_walk_pgtable; its dump is the third walk.
test_walk_pgtable ==
  /\ mmu /\ ~runaway /\ dump = 3 /\ ~patched
  /\ LET x == EntryOf(readonly_page)
     IN  table' = [table EXCEPT ![x[1]][x[2]].prot = pte_mkwrite(@)]
  /\ patched' = TRUE
  /\ UNCHANGED <<mem_map, regions, call, addr, mmu, wild, dump, cursor, printed, runaway>>

PagingStep == (MapPmd \/ EnableMmu) /\ UNCHANGED dumpVars
LaterPage == ~Dumping /\ GetFreePage /\ UNCHANGED dumpVars

DumpNext == PagingStep \/ WalkPgd \/ test_walk_pgtable \/ LaterPage

DumpSpec == /\ DumpInit /\ [][DumpNext]_<<vars, dumpVars>>
            /\ WF_<<vars, dumpVars>>(PagingStep \/ WalkPgd \/ test_walk_pgtable)

----------------------------------------------------------------------------
(* Properties. *)

\* At every step exactly the addresses covered so far translate, each to
\* itself with the attributes of its region: regions that share a section or
\* a table do not disturb each other, whether mapped by pages or sections.
\* test_walk_pgtable changes readonly_page, and what its section spans if it
\* lies in one, and nothing else.
MappedSoFar ==
  \A a \in Address :
    /\ Mapped(a) <=> \E i \in 1 .. Len(regions) : Covered(i, a)
    /\ \A i \in 1 .. Len(regions) :
         Covered(i, a) =>
           Translation(a) = [to |-> a,
                             prot |-> IF patched /\ EntryOf(a) = EntryOf(readonly_page)
                                        THEN "RWX" ELSE regions[i].prot]

\* What a walk has printed so far is the mapping: each mapped address it has
\* passed is in one line, which shows the descriptor the MMU would use.
Passed(k, a) ==
  /\ Walks[k].from <= a /\ a < Walks[k].to
  /\ k < dump \/ (k = dump /\ a < cursor)
DumpShowsMapping ==
  \A k \in 1 .. Len(Walks), a \in Address :
    ~runaway /\ Passed(k, a) /\ (patched => k = 3) =>
      LET shown == {l \in printed : l.walk = k /\ l.line.from <= a /\ a < l.line.to}
      IN  IF Mapped(a) THEN \E l \in shown : shown = {l} /\ l.line.desc = walk_pgtable(a)
                       ELSE shown = {}

\* The dumps end, provided no walk goes from one pud to another behind the
\* same pgd entry.
OnePudEach ==
  \A k \in 1 .. Len(Walks) : \A a \in Walks[k].from + 1 .. Walks[k].to - 1 :
    a % Span[2] = 0 => a % Span[3] = 0
DumpEnds == OnePudEach => <>~Dumping
=============================================================================
