----------------------------- MODULE PageTable -----------------------------
(***************************************************************************)
(* paging_init (arch/arm64/mach-rpi/mmu.c): the identity mapping is built   *)
(* region by region in a four level table whose tables come from            *)
(* get_free_page, then the MMU is enabled and the kernel goes on allocating *)
(* pages.  Addresses are counted in pages; every bound paging_init uses is  *)
(* page aligned.  Interrupts are masked, and one step is one iteration of   *)
(* the loop of alloc_init_pmd, with the tables it allocates on the way.     *)
(***************************************************************************)
EXTENDS PageMap, Sequences

CONSTANTS PTRS,              \* entries of a table, the same at every level
          LOW_MEMORY,        \* the address of the first byte of mem_map
          DeviceRegions      \* what PBASE and DEVICE_SIZE may be: <<from, to>>

\* NR_PAGES is TOTAL_MEMORY / PAGE_SIZE; LOW_MEMORY is two sections.
TOTAL_MEMORY == NR_PAGES

ASSUME PageTableAssumption ==
  /\ PTRS \in Nat \ {0, 1}
  /\ LOW_MEMORY \in 1 .. TOTAL_MEMORY
  /\ DeviceRegions \subseteq Nat \X Nat
  /\ \A d \in DeviceRegions : TOTAL_MEMORY <= d[1] /\ d[1] < d[2]
                              /\ d[2] <= PTRS * PTRS * PTRS * PTRS

Address == 0 .. PTRS * PTRS * PTRS * PTRS - 1
Index == 0 .. PTRS - 1

\* idmap_pgd_dir and the pages of the allocator can hold tables.
Pgd == 0
Frame == {Pgd} \cup Page

\* The physical address get_free_page returns for page p.
PhysOf(p) == LOW_MEMORY + p - 1

\* pgd_index ... pte_index: levels 3, 2, 1, 0.
Span == <<PTRS, PTRS * PTRS, PTRS * PTRS * PTRS>>
index(level, addr) == (IF level = 0 THEN addr ELSE addr \div Span[level]) % PTRS

\* Descriptors.  A zero descriptor is Fault.
Fault == [type |-> "fault", out |-> 0, prot |-> "none"]
TableDesc(f) == [type |-> "table", out |-> f, prot |-> "none"]
SectDesc(addr, prot) == [type |-> "sect", out |-> addr, prot |-> prot]
PageDesc(addr, prot) == [type |-> "page", out |-> addr, prot |-> prot]
EmptyTable == [i \in Index |-> Fault]

VARIABLES
  mem_map,
  table,                     \* Frame -> Index -> descriptor
  regions,                   \* the calls of __create_pgd_mapping, in order
  call,                      \* the one being served
  addr,                      \* the cursor of the nested loops
  mmu,                       \* SCTLR_ELx_M
  wild                       \* a store went through something not a table

vars == <<mem_map, table, regions, call, addr, mmu, wild>>

\* The linker places the text; it lies below LOW_MEMORY.  The domain of the
\* interrupt controller already has a page.
Init ==
  /\ \E from, to \in 0 .. LOW_MEMORY - 1, dev \in DeviceRegions :
       /\ from < to
       /\ regions = << [from |-> from, to |-> to, prot |-> "ROX"],
                       [from |-> to, to |-> TOTAL_MEMORY, prot |-> "RW"],
                       [from |-> dev[1], to |-> dev[2], prot |-> "DEVICE"] >>
  /\ mem_map = [p \in Page |-> IF p = 1 THEN 1 ELSE 0]
  /\ table = [f \in Frame |-> EmptyTable]
  /\ call = 1
  /\ addr = regions[1].from
  /\ mmu = FALSE
  /\ wild = FALSE

----------------------------------------------------------------------------
\* (mutants: the end is ignored; the boundary below is taken)
pmd_addr_end_uncapped(a, end) == (a \div PTRS + 1) * PTRS
pmd_addr_end_below(a, end) ==
  LET boundary == (a \div PTRS) * PTRS
  IN  IF boundary - 1 < end - 1 THEN boundary ELSE end

\* pmd_addr_end: the next section boundary, but not beyond end.
pmd_addr_end(a, end) ==
  LET boundary == (a \div PTRS + 1) * PTRS
  IN  IF boundary - 1 < end - 1 THEN boundary ELSE end

(* A walk in progress: the allocator, the tables, the table it stands in.   *)

\* Follow entry i of the current table; a missing table is allocated, zeroed
\* and linked.  A section, or a failed allocation, is used as if it were a
\* table (alloc_init_pte does not look at the type, nor at a null page).
descend(w, i) ==
  LET e == w.table[w.in][i]
      f == find_free(w.map) IN
  CASE e.type = "table" -> [w EXCEPT !.in = e.out]
    [] e.type = "fault" /\ f # Null ->
         [map |-> take_page(w.map, f),
          table |-> [w.table EXCEPT ![f] = EmptyTable,
                                    ![w.in] = [@ EXCEPT ![i] = TableDesc(f)]],
          in |-> f,
          wild |-> w.wild]
    [] OTHER -> [w EXCEPT !.wild = TRUE]

\* (mutant: only the start is tested)
IsSection_start(a, next) == a % PTRS = 0

\* (addr | next | phys) & ~PG_SECTION_MASK is zero; phys equals addr.
IsSection(a, next) == a % PTRS = 0 /\ next % PTRS = 0

\* The stores of alloc_init_pmd and alloc_init_pte into table t.
pmd_set_section(t, a, prot) == [t EXCEPT ![index(1, a)] = SectDesc(a, prot)]

set_ptes(t, a, next, prot) ==
  [i \in Index |->
     LET va == (a \div PTRS) * PTRS + i
     IN  IF a <= va /\ va < next THEN PageDesc(va, prot) ELSE t[i]]

\* alloc_init_pud and alloc_init_pmd descend to the table of pmd entries,
\* alloc_init_pte one level further.
MapPmd ==
  /\ ~wild
  /\ call <= Len(regions)
  /\ LET r == regions[call]
         next == pmd_addr_end(addr, r.to)
         sect == IsSection(addr, next)
         top == [map |-> mem_map, table |-> table, in |-> Pgd, wild |-> FALSE]
     IN
     /\ \E pud \in {descend(top, index(3, addr))} :
        \E pmd \in {descend(pud, index(2, addr))} :
        \E w \in {IF sect THEN pmd ELSE descend(pmd, index(1, addr))} :
          /\ mem_map' = w.map
          /\ table' = [w.table EXCEPT ![w.in] =
                         IF sect THEN pmd_set_section(@, addr, r.prot)
                         ELSE set_ptes(@, addr, next, r.prot)]
          /\ wild' = w.wild
     /\ IF next # r.to THEN addr' = next /\ call' = call
        ELSE /\ call' = call + 1
             /\ addr' = IF call < Len(regions) THEN regions[call + 1].from ELSE 0
  /\ UNCHANGED <<regions, mmu>>

\* cpu_init and enable_mmu, on a CPU that supports 4KB pages.
EnableMmu ==
  /\ call > Len(regions) /\ ~mmu
  /\ mmu' = TRUE
  /\ UNCHANGED <<mem_map, table, regions, call, addr, wild>>

\* A later get_free_page, by do_fork, move_to_user_space or sys_malloc.
GetFreePage ==
  /\ mmu
  /\ find_free(mem_map) # Null
  /\ mem_map' = take_page(mem_map, find_free(mem_map))
  /\ UNCHANGED <<table, regions, call, addr, mmu, wild>>

Next == MapPmd \/ EnableMmu \/ GetFreePage

Spec == Init /\ [][Next]_vars

----------------------------------------------------------------------------
(* walk_pgtable: the descriptor that translates an address.                 *)

Desc(level, f, a) == table[f][index(level, a)]

walk_pgtable(a) ==
  LET pgd == Desc(3, Pgd, a)
      pud == Desc(2, pgd.out, a)
      pmd == Desc(1, pud.out, a)
  IN  CASE pgd = Fault -> Fault
        [] pgd # Fault /\ pud = Fault -> Fault
        [] pgd # Fault /\ pud # Fault /\ pmd.type \in {"fault", "sect"} -> pmd
        [] OTHER -> Desc(0, pmd.out, a)

Mapped(a) == walk_pgtable(a) # Fault

\* The address and the attributes the MMU finds.
Translation(a) ==
  LET d == walk_pgtable(a)
  IN  [to |-> IF d.type = "sect" THEN d.out + (a % PTRS) ELSE d.out,
       prot |-> d.prot]

----------------------------------------------------------------------------
(* Properties. *)

\* Call i of __create_pgd_mapping has reached address a.
Covered(i, a) ==
  /\ regions[i].from <= a /\ a < regions[i].to
  /\ i < call \/ (i = call /\ a < addr)

\* No store goes through a section or a null page taken for a table.
OnlyTablesWalked == ~wild

\* The tables form a tree of pages that mem_map marks as in use: no table is
\* reached twice, and none can be handed out again.
Refs(f) == {x \in Frame \X Index : table[x[1]][x[2]] = TableDesc(f)}
TablesOwned ==
  \A f \in Page : \A x \in Refs(f) : mem_map[f] = 1 /\ Refs(f) = {x}

\* The loops, which stop only when the cursor meets the end exactly, do stop.
PagingEnds == <>mmu

\* Every page get_free_page hands out once the MMU is on is memory the
\* identity mapping covers: test_mmu (init/main.c) calls an address above
\* TOTAL_MEMORY unmapped.
AllocatedPagesMapped ==
  mmu => \A p \in Page : mem_map[p] = 1 => Mapped(PhysOf(p))
=============================================================================
