-------------------------- MODULE PageTableProofs --------------------------
(***************************************************************************)
(* The tables paging_init builds, for every size of a table and of the      *)
(* memory and every device region.  They form a tree of pages that are in   *)
(* use, also where the walk meets a section or a failed allocation and      *)
(* takes it for a table.  As long as it takes none, the tree is the         *)
(* identity mapping of what has been covered; with memory enough for the    *)
(* tables it never does; and what the dump prints is that mapping.          *)
(***************************************************************************)
EXTENDS DumpTable, WellFoundedInduction, TLAPS

\* Every non-empty set of natural numbers has a least element.
LEMMA LeastNat ==
  ASSUME NEW S, S \subseteq Nat, S # {}
  PROVE  \E m \in S : \A n \in S : m <= n
<1>1. PICK m \in S : \A n \in S : ~ (<<n, m>> \in OpToRel(<, Nat))
  BY NatLessThanWellFounded, WFMin, Zenon
<1>2. \A n \in S : ~ (n < m)
  BY <1>1 DEF OpToRel
<1> QED
  BY <1>2

----------------------------------------------------------------------------
(* The allocator and the indices. *)

\* get_free_page finds a free page if there is one.
LEMMA FindFree ==
  ASSUME NEW map \in [Page -> {0, 1}], find_free(map) # Null
  PROVE  find_free(map) \in Page /\ map[find_free(map)] = 0
<1>1. FreePages(map) \subseteq Nat /\ FreePages(map) # {}
  BY NrPagesAssumption DEF FreePages, Page, find_free
<1>2. \E p \in FreePages(map) : \A q \in FreePages(map) : p <= q
  BY <1>1, LeastNat
<1>3. find_free(map) \in FreePages(map)
  BY <1>1, <1>2 DEF find_free
<1> QED
  BY <1>3 DEF FreePages

\* pgd_index ... pte_index stay within a table.
LEMMA IndexInTable ==
  ASSUME NEW a \in Int, NEW level \in 0 .. 3
  PROVE  index(level, a) \in Index
<1>1. PTRS \in Nat /\ PTRS >= 2
  BY PageTableAssumption
<1>2. PTRS * PTRS \in Nat /\ PTRS * PTRS > 0
  BY <1>1
<1>3. PTRS * PTRS * PTRS \in Nat /\ PTRS * PTRS * PTRS > 0
  BY <1>1, <1>2
<1>4. level # 0 => Span[level] \in Nat /\ Span[level] > 0
  BY <1>1, <1>2, <1>3 DEF Span
<1>5. \A d \in Nat : d > 0 => a \div d \in Int
  OBVIOUS
<1>6. \A x \in Int : x % PTRS \in 0 .. PTRS - 1
  BY <1>1
<1> QED
  BY <1>4, <1>5, <1>6 DEF index, Index

----------------------------------------------------------------------------
(* A tree of tables. *)

IsTable(t) == t = [k \in Index |-> t[k]]
IsDesc(d) == d = [type |-> d.type, out |-> d.out, prot |-> d.prot]

\* Every table descriptor leads to a page in use, and no two to the same.
Tree(map, tab) ==
  /\ map \in [Page -> {0, 1}]
  /\ tab = [f \in Frame |-> tab[f]] /\ \A f \in Frame : IsTable(tab[f])
  /\ \A f \in Frame, k \in Index :
       /\ IsDesc(tab[f][k])
       /\ tab[f][k].type = "table" =>
            \E p \in Page : tab[f][k] = TableDesc(p) /\ map[p] = 1
  /\ \A f, g \in Frame, k, m \in Index :
       tab[f][k].type = "table" /\ tab[g][m].type = "table" /\ tab[f][k].out = tab[g][m].out
         => f = g /\ k = m

\* A walk in progress stands in the root or in a page in use.
WalkInv(w) ==
  /\ w = [map |-> w.map, table |-> w.table, in |-> w.in, wild |-> w.wild]
  /\ Tree(w.map, w.table)
  /\ w.in \in Frame /\ (w.in # Pgd => w.map[w.in] = 1)

\* What the constructors make.
LEMMA Descriptors ==
  /\ Fault.type = "fault" /\ IsDesc(Fault)
  /\ \A f : TableDesc(f).type = "table" /\ TableDesc(f).out = f /\ IsDesc(TableDesc(f))
  /\ \A a, p : SectDesc(a, p).type = "sect" /\ IsDesc(SectDesc(a, p))
  /\ \A a, p : PageDesc(a, p).type = "page" /\ IsDesc(PageDesc(a, p))
BY DEF Fault, TableDesc, SectDesc, PageDesc, IsDesc

\* The root is not a page.
LEMMA Frames == Pgd \in Frame /\ Pgd \notin Page /\ Page \subseteq Frame
                /\ Frame = Page \cup {Pgd}
BY NrPagesAssumption DEF Frame, Pgd, Page

\* A missing table is allocated, zeroed and linked: a free page is on no
\* descriptor, so the new link is the only one.
LEMMA TreeGrows ==
  ASSUME NEW map, NEW tab, Tree(map, tab), NEW in \in Frame, NEW k \in Index,
         NEW f \in Page, map[f] = 0, in # f, tab[in][k].type # "table",
         NEW tab2, tab2 = [tab EXCEPT ![f] = EmptyTable,
                                      ![in] = [tab[in] EXCEPT ![k] = TableDesc(f)]]
  PROVE  Tree(take_page(map, f), tab2)
<1> DEFINE map2 == take_page(map, f)
<1>1. /\ map \in [Page -> {0, 1}] /\ tab = [g \in Frame |-> tab[g]]
      /\ \A g \in Frame : IsTable(tab[g])
      /\ \A g \in Frame, m \in Index : IsDesc(tab[g][m])
      /\ \A g \in Frame, m \in Index : tab[g][m].type = "table" =>
           \E p \in Page : tab[g][m] = TableDesc(p) /\ map[p] = 1
      /\ \A g, h \in Frame, m, n \in Index :
           tab[g][m].type = "table" /\ tab[h][n].type = "table"
           /\ tab[g][m].out = tab[h][n].out => g = h /\ m = n
  BY DEF Tree
<1>2. f \in Frame
  BY Frames
<1>3. map2 \in [Page -> {0, 1}] /\ map2[f] = 1 /\ \A p \in Page : map[p] = 1 => map2[p] = 1
  BY <1>1 DEF take_page
<1>4. /\ tab2 = [g \in Frame |-> tab2[g]] /\ tab2[f] = EmptyTable
      /\ tab2[in] = [tab[in] EXCEPT ![k] = TableDesc(f)]
      /\ \A g \in Frame : g # f /\ g # in => tab2[g] = tab[g]
  BY <1>1, <1>2
<1>5. /\ \A m \in Index : tab2[f][m] = Fault
      /\ tab2[in][k] = TableDesc(f)
      /\ \A m \in Index : m # k => tab2[in][m] = tab[in][m]
      /\ \A g \in Frame : IsTable(tab2[g])
  <2>1. \A m \in Index : tab2[f][m] = Fault
    BY <1>4 DEF EmptyTable
  <2>2. IsTable(tab2[f])
    <3>1. IsTable(EmptyTable)
      BY DEF EmptyTable, IsTable
    <3> QED
      BY <1>4, <3>1
  <2>3. tab[in] = [m \in Index |-> tab[in][m]]
    <3>1. IsTable(tab[in])
      BY <1>1
    <3> QED
      BY <3>1 DEF IsTable
  <2>4. /\ tab2[in][k] = TableDesc(f)
        /\ \A m \in Index : m # k => tab2[in][m] = tab[in][m]
    BY <1>4, <2>3
  <2>5. IsTable(tab2[in])
    BY <1>4, <2>3 DEF IsTable
  <2>6. \A g \in Frame : g # f /\ g # in => IsTable(tab2[g])
    BY <1>1, <1>4
  <2> QED
    BY <2>1, <2>2, <2>4, <2>5, <2>6
<1> HIDE DEF map2
<1>6. ASSUME NEW g \in Frame, NEW m \in Index
      PROVE  \/ g = f /\ tab2[g][m] = Fault
             \/ g = in /\ m = k /\ tab2[g][m] = TableDesc(f)
             \/ (g # f /\ ~(g = in /\ m = k)) /\ tab2[g][m] = tab[g][m]
  <2>1. CASE g = f
    BY <1>5, <2>1
  <2>2. CASE g = in
    BY <1>5, <2>2
  <2>3. CASE g # f /\ g # in
    BY <1>4, <2>3
  <2> QED
    BY <2>1, <2>2, <2>3
<1>7. ASSUME NEW g \in Frame, NEW m \in Index
      PROVE  /\ IsDesc(tab2[g][m])
             /\ tab2[g][m].type = "table" =>
                  \E p \in Page : tab2[g][m] = TableDesc(p) /\ map2[p] = 1
  BY <1>1, <1>3, <1>6, Descriptors
<1>8. ASSUME NEW g \in Frame, NEW m \in Index, tab2[g][m].type = "table",
             tab2[g][m].out = f
      PROVE  g = in /\ m = k
  <2>1. CASE tab2[g][m] = tab[g][m]
    BY <1>1, <1>8, <2>1, Descriptors
  <2> QED
    BY <1>6, <1>8, <2>1, Descriptors
<1>9. ASSUME NEW g \in Frame, NEW h \in Frame, NEW m \in Index, NEW n \in Index,
             tab2[g][m].type = "table", tab2[h][n].type = "table",
             tab2[g][m].out = tab2[h][n].out
      PROVE  g = h /\ m = n
  <2>1. CASE tab2[g][m].out = f
    BY <1>8, <1>9, <2>1
  <2>2. CASE tab2[g][m].out # f
    <3>1. tab2[g][m] = tab[g][m]
      BY <1>6, <1>9, <2>2, Descriptors
    <3>2. tab2[h][n] = tab[h][n]
      BY <1>6, <1>9, <2>2, Descriptors
    <3> QED
      BY <1>1, <1>9, <3>1, <3>2
  <2> QED
    BY <2>1, <2>2
<1>10. Tree(map2, tab2)
  <2>1. \A g, h \in Frame, m, n \in Index :
          tab2[g][m].type = "table" /\ tab2[h][n].type = "table"
          /\ tab2[g][m].out = tab2[h][n].out => g = h /\ m = n
    BY <1>9
  <2> QED
    BY <1>3, <1>4, <1>5, <1>7, <2>1 DEF Tree
<1> QED
  BY <1>10 DEF map2

\* Sections, pages and changed attributes link no table.
LEMMA TreeStores ==
  ASSUME NEW map, NEW tab, Tree(map, tab), NEW tab2,
         tab2 = [f \in Frame |-> tab2[f]], \A f \in Frame : IsTable(tab2[f]),
         \A f \in Frame, k \in Index :
           \/ tab2[f][k] = tab[f][k]
           \/ IsDesc(tab2[f][k]) /\ tab2[f][k].type # "table"
  PROVE  Tree(map, tab2)
<1>1. /\ map \in [Page -> {0, 1}]
      /\ \A g \in Frame, m \in Index : IsDesc(tab[g][m])
      /\ \A g \in Frame, m \in Index : tab[g][m].type = "table" =>
           \E p \in Page : tab[g][m] = TableDesc(p) /\ map[p] = 1
      /\ \A g, h \in Frame, m, n \in Index :
           tab[g][m].type = "table" /\ tab[h][n].type = "table"
           /\ tab[g][m].out = tab[h][n].out => g = h /\ m = n
  BY DEF Tree
<1>2. \A g \in Frame, m \in Index :
        /\ IsDesc(tab2[g][m])
        /\ tab2[g][m].type = "table" => tab2[g][m] = tab[g][m]
  BY <1>1
<1>3. \A g \in Frame, m \in Index : tab2[g][m].type = "table" =>
        \E p \in Page : tab2[g][m] = TableDesc(p) /\ map[p] = 1
  BY <1>1, <1>2
<1>4. \A g, h \in Frame, m, n \in Index :
        tab2[g][m].type = "table" /\ tab2[h][n].type = "table"
        /\ tab2[g][m].out = tab2[h][n].out => g = h /\ m = n
  BY <1>1, <1>2
<1> QED
  BY <1>1, <1>2, <1>3, <1>4 DEF Tree

\* Following an entry.
LEMMA DescendKeeps ==
  ASSUME NEW w, WalkInv(w), NEW k \in Index
  PROVE  WalkInv(descend(w, k))
<1> DEFINE e == w.table[w.in][k]
           f == find_free(w.map)
<1>1. /\ w = [map |-> w.map, table |-> w.table, in |-> w.in, wild |-> w.wild]
      /\ Tree(w.map, w.table) /\ w.in \in Frame /\ (w.in # Pgd => w.map[w.in] = 1)
      /\ w.map \in [Page -> {0, 1}]
  BY DEF WalkInv, Tree
<1>2. CASE e.type = "table"
  <2>1. PICK p \in Page : e = TableDesc(p) /\ w.map[p] = 1
    BY <1>1, <1>2 DEF Tree
  <2>2. descend(w, k) = [w EXCEPT !.in = p]
    BY <1>2, <2>1, Descriptors DEF descend
  <2>3. [w EXCEPT !.in = p] = [map |-> w.map, table |-> w.table, in |-> p, wild |-> w.wild]
    BY <1>1
  <2> QED
    BY <1>1, <2>1, <2>2, <2>3, Frames DEF WalkInv
<1>3. CASE e.type = "fault" /\ f # Null
  <2> DEFINE tab2 == [w.table EXCEPT ![f] = EmptyTable,
                                     ![w.in] = [@ EXCEPT ![k] = TableDesc(f)]]
  <2>1. f \in Page /\ w.map[f] = 0 /\ f # w.in
    <3>1. f \in Page /\ w.map[f] = 0
      BY <1>1, <1>3, FindFree
    <3> QED
      BY <1>1, <3>1, Frames
  <2>2. descend(w, k) = [map |-> take_page(w.map, f), table |-> tab2, in |-> f, wild |-> w.wild]
    BY <1>3 DEF descend
  <2>3. tab2 = [w.table EXCEPT ![f] = EmptyTable,
                               ![w.in] = [w.table[w.in] EXCEPT ![k] = TableDesc(f)]]
    BY <2>1
  <2>4. take_page(w.map, f)[f] = 1
    BY <1>1, <2>1 DEF take_page
  <2> HIDE DEF tab2, f
  <2>5. Tree(take_page(w.map, f), tab2)
    BY <1>1, <1>3, <2>1, <2>3, TreeGrows
  <2> QED
    BY <2>1, <2>2, <2>4, <2>5, Frames DEF WalkInv
<1>4. CASE e.type # "table" /\ ~(e.type = "fault" /\ f # Null)
  <2>1. PICK b : b = TRUE
    OBVIOUS
  <2>2. descend(w, k) = [w EXCEPT !.wild = b]
    BY <1>4, <2>1 DEF descend
  <2>3. [w EXCEPT !.wild = b] = [map |-> w.map, table |-> w.table, in |-> w.in, wild |-> b]
    BY <1>1
  <2> QED
    BY <1>1, <2>2, <2>3 DEF WalkInv
<1> QED
  BY <1>2, <1>3, <1>4

----------------------------------------------------------------------------
(* paging_init and what comes after it. *)

PagingInv ==
  /\ Tree(mem_map, table)
  /\ Len(regions) \in Nat
  /\ \A k \in 1 .. Len(regions) : regions[k].from \in Int /\ regions[k].to \in Int
  /\ call \in Nat \ {0} /\ addr \in Int

\* The empty tables of the boot are a tree.
LEMMA InitPaging == Init => PagingInv
<1> SUFFICES ASSUME Init PROVE PagingInv
  OBVIOUS
<1>1. PICK from \in 0 .. LOW_MEMORY - 1, to \in 0 .. LOW_MEMORY - 1, dev \in DeviceRegions :
        regions = << [from |-> from, to |-> to, prot |-> "ROX"],
                     [from |-> to, to |-> TOTAL_MEMORY, prot |-> "RW"],
                     [from |-> dev[1], to |-> dev[2], prot |-> "DEVICE"] >>
  BY DEF Init
<1>2. TOTAL_MEMORY \in Nat /\ dev[1] \in Nat /\ dev[2] \in Nat /\ from \in Nat /\ to \in Nat
  BY PageTableAssumption, NrPagesAssumption DEF TOTAL_MEMORY
<1>3. Len(regions) = 3
  BY <1>1
<1>4. \A k \in 1 .. 3 : regions[k].from \in Int /\ regions[k].to \in Int
  <2>1. regions[1].from = from /\ regions[1].to = to
    BY <1>1
  <2>2. regions[2].from = to /\ regions[2].to = TOTAL_MEMORY
    BY <1>1
  <2>3. regions[3].from = dev[1] /\ regions[3].to = dev[2]
    BY <1>1
  <2> QED
    BY <1>2, <2>1, <2>2, <2>3
<1>5. Tree(mem_map, table)
  <2>1. mem_map \in [Page -> {0, 1}]
    BY DEF Init
  <2>2. table = [f \in Frame |-> table[f]] /\ \A f \in Frame : table[f] = EmptyTable
    BY DEF Init
  <2>3. IsTable(EmptyTable) /\ \A k \in Index : EmptyTable[k] = Fault
    BY DEF EmptyTable, IsTable
  <2> QED
    BY <2>1, <2>2, <2>3, Descriptors DEF Tree
<1>6. call = 1 /\ addr = regions[1].from
  BY DEF Init
<1> QED
  BY <1>3, <1>4, <1>5, <1>6 DEF PagingInv

\* An iteration of the loop of alloc_init_pmd.
LEMMA MapPmdPaging == PagingInv /\ MapPmd => PagingInv'
<1> SUFFICES ASSUME PagingInv, MapPmd PROVE PagingInv'
  OBVIOUS
<1> DEFINE r == regions[call]
           next == pmd_addr_end(addr, r.to)
           sect == IsSection(addr, next)
           top == [map |-> mem_map, table |-> table, in |-> Pgd, wild |-> FALSE]
<1>1. /\ Tree(mem_map, table) /\ call \in 1 .. Len(regions) /\ Len(regions) \in Nat
      /\ \A k \in 1 .. Len(regions) : regions[k].from \in Int /\ regions[k].to \in Int
      /\ addr \in Int /\ UNCHANGED regions /\ PTRS \in Nat /\ PTRS >= 2
  BY PageTableAssumption DEF PagingInv, MapPmd
<1>2. next \in Int
  <2>1. addr \div PTRS \in Int
    BY <1>1
  <2>2. (addr \div PTRS + 1) * PTRS \in Int
    BY <1>1, <2>1
  <2>3. r.to \in Int
    BY <1>1
  <2>4. next = (addr \div PTRS + 1) * PTRS \/ next = r.to
    BY DEF pmd_addr_end
  <2> HIDE DEF next, r
  <2> QED
    BY <2>2, <2>3, <2>4
<1>3. /\ \/ addr' = next /\ call' = call
         \/ /\ call' = call + 1
            /\ addr' = IF call < Len(regions) THEN regions[call + 1].from ELSE 0
  BY DEF MapPmd
<1>4. call' \in Nat \ {0} /\ addr' \in Int
  <2>1. call < Len(regions) => call + 1 \in 1 .. Len(regions)
    BY <1>1
  <2> HIDE DEF next
  <2> QED
    BY <1>1, <1>2, <1>3, <2>1
<1>5. PICK w \in {descend(descend(top, index(3, addr)), index(2, addr)),
                  descend(descend(descend(top, index(3, addr)), index(2, addr)),
                          index(1, addr))} :
        /\ mem_map' = w.map
        /\ table' = [w.table EXCEPT ![w.in] =
                       IF sect THEN pmd_set_section(@, addr, r.prot)
                       ELSE set_ptes(@, addr, next, r.prot)]
  BY DEF MapPmd
<1>6. WalkInv(w)
  <2>1. WalkInv(top)
    <3>1. top.map = mem_map /\ top.table = table /\ top.in = Pgd
      OBVIOUS
    <3>2. top = [map |-> top.map, table |-> top.table, in |-> top.in, wild |-> top.wild]
      OBVIOUS
    <3> HIDE DEF top
    <3> QED
      BY <1>1, <3>1, <3>2, Frames DEF WalkInv
  <2>2. index(3, addr) \in Index /\ index(2, addr) \in Index /\ index(1, addr) \in Index
    BY <1>1, IndexInTable
  <2> HIDE DEF top
  <2>3. WalkInv(descend(top, index(3, addr)))
    BY <2>1, <2>2, DescendKeeps
  <2>4. WalkInv(descend(descend(top, index(3, addr)), index(2, addr)))
    BY <2>2, <2>3, DescendKeeps
  <2>5. WalkInv(descend(descend(descend(top, index(3, addr)), index(2, addr)), index(1, addr)))
    BY <2>2, <2>4, DescendKeeps
  <2> QED
    BY <1>5, <2>4, <2>5
<1> HIDE DEF r, next, sect, top
<1>7. /\ Tree(w.map, w.table) /\ w.in \in Frame
      /\ w.table = [f \in Frame |-> w.table[f]] /\ \A f \in Frame : IsTable(w.table[f])
  BY <1>6 DEF WalkInv, Tree
<1>8. PICK t : /\ t = IF sect THEN pmd_set_section(w.table[w.in], addr, r.prot)
                              ELSE set_ptes(w.table[w.in], addr, next, r.prot)
               /\ table' = [w.table EXCEPT ![w.in] = t]
  BY <1>5, <1>7
<1>9. IsTable(t) /\ \A k \in Index : \/ t[k] = w.table[w.in][k]
                                     \/ IsDesc(t[k]) /\ t[k].type # "table"
  <2> DEFINE old == w.table[w.in]
  <2>1. old = [k \in Index |-> old[k]]
    <3>1. IsTable(w.table[w.in])
      BY <1>7
    <3> QED
      BY <3>1 DEF IsTable
  <2> HIDE DEF old
  <2>2. CASE sect
    <3>1. t = [old EXCEPT ![index(1, addr)] = SectDesc(addr, r.prot)]
      BY <1>8, <2>2 DEF pmd_set_section, old
    <3>2. t = [k \in Index |-> t[k]]
      BY <2>1, <3>1
    <3>3. \A k \in Index : t[k] = old[k] \/ t[k] = SectDesc(addr, r.prot)
      BY <2>1, <3>1
    <3> QED
      BY <3>2, <3>3, Descriptors DEF IsTable, old
  <2>3. CASE ~sect
    <3> DEFINE d(k) == PageDesc((addr \div PTRS) * PTRS + k, r.prot)
    <3>1. t = [k \in Index |->
                 LET va == (addr \div PTRS) * PTRS + k
                 IN  IF addr <= va /\ va < next THEN PageDesc(va, r.prot) ELSE old[k]]
      BY <1>8, <2>3 DEF set_ptes, old
    <3>2. \A k \in Index : t[k] = old[k] \/ t[k] = d(k)
      BY <3>1
    <3>3. t = [k \in Index |-> t[k]]
      BY <3>1
    <3> QED
      BY <3>2, <3>3, Descriptors DEF IsTable, old
  <2> QED
    BY <2>2, <2>3
<1>10. /\ table' = [f \in Frame |-> table'[f]] /\ table'[w.in] = t
       /\ \A f \in Frame : f # w.in => table'[f] = w.table[f]
  BY <1>7, <1>8
<1>11. Tree(mem_map, table)'
  <2>1. \A f \in Frame : IsTable(table'[f])
    BY <1>7, <1>9, <1>10
  <2>2. \A f \in Frame, k \in Index :
          \/ table'[f][k] = w.table[f][k]
          \/ IsDesc(table'[f][k]) /\ table'[f][k].type # "table"
    BY <1>9, <1>10
  <2>3. Tree(w.map, table')
    BY <1>7, <1>10, <2>1, <2>2, TreeStores
  <2> QED
    BY <1>5, <2>3
<1> QED
  BY <1>1, <1>4, <1>11 DEF PagingInv

\* get_free_page elsewhere: a page more is in use.
LEMMA GetFreePagePaging == PagingInv /\ GetFreePage => PagingInv'
<1> SUFFICES ASSUME PagingInv, GetFreePage PROVE PagingInv'
  OBVIOUS
<1> DEFINE f == find_free(mem_map)
<1>1. /\ mem_map' = [mem_map EXCEPT ![f] = 1] /\ f # Null
      /\ UNCHANGED <<table, regions, call, addr>>
  BY DEF GetFreePage, take_page
<1>2. Tree(mem_map, table) /\ mem_map \in [Page -> {0, 1}]
  BY DEF PagingInv, Tree
<1>3. f \in Page
  BY <1>1, <1>2, FindFree
<1> HIDE DEF f
<1>4. mem_map' \in [Page -> {0, 1}] /\ \A p \in Page : mem_map[p] = 1 => mem_map'[p] = 1
  BY <1>1, <1>2, <1>3
<1>5. Tree(mem_map, table)'
  BY <1>1, <1>2, <1>4 DEF Tree
<1> QED
  BY <1>1, <1>5 DEF PagingInv

\* The rest leaves tables and pages alone.
LEMMA OtherPaging ==
  PagingInv /\ UNCHANGED <<mem_map, table, regions, call, addr>> => PagingInv'
BY DEF PagingInv, Tree

\* What the invariant says of the references to a page.
LEMMA TreeOwned == PagingInv => TablesOwned
<1> SUFFICES ASSUME PagingInv, NEW f \in Page, NEW x \in Refs(f)
             PROVE  mem_map[f] = 1 /\ Refs(f) = {x}
  BY DEF TablesOwned
<1>1. /\ \A g \in Frame, m \in Index : table[g][m].type = "table" =>
           \E p \in Page : table[g][m] = TableDesc(p) /\ mem_map[p] = 1
      /\ \A g, h \in Frame, m, n \in Index :
           table[g][m].type = "table" /\ table[h][n].type = "table"
           /\ table[g][m].out = table[h][n].out => g = h /\ m = n
  BY DEF PagingInv, Tree
<1>2. \A y \in Refs(f) : /\ y = <<y[1], y[2]>> /\ y[1] \in Frame /\ y[2] \in Index
                         /\ table[y[1]][y[2]] = TableDesc(f)
  BY DEF Refs
<1>3. mem_map[f] = 1
  BY <1>1, <1>2, Descriptors
<1>4. \A y \in Refs(f) : y[1] = x[1] /\ y[2] = x[2]
  BY <1>1, <1>2, Descriptors
<1>5. \A y \in Refs(f) : y = x
  BY <1>2, <1>4
<1> QED
  BY <1>3, <1>5

\* The tables form a tree of pages in use while paging_init builds them and
\* after it.
THEOREM TablesNeverShared == Spec => []TablesOwned
<1>1. PagingInv /\ [Next]_vars => PagingInv'
  BY MapPmdPaging, GetFreePagePaging, OtherPaging DEF Next, EnableMmu, vars
<1> QED
  BY <1>1, InitPaging, TreeOwned, PTL DEF Spec

----------------------------------------------------------------------------
(* The dump and test_walk_pgtable. *)

\* A descriptor made writable keeps its type and what it points to.
LEMMA TestWalkPaging == PagingInv /\ test_walk_pgtable => PagingInv'
<1> SUFFICES ASSUME PagingInv, test_walk_pgtable PROVE PagingInv'
  OBVIOUS
<1>1. PICK x, y : table' = [table EXCEPT ![x][y].prot = pte_mkwrite(@)]
  BY DEF test_walk_pgtable
<1>2. UNCHANGED <<mem_map, regions, call, addr>>
  BY DEF test_walk_pgtable
<1>3. /\ Tree(mem_map, table) /\ table = [f \in Frame |-> table[f]]
      /\ \A f \in Frame : IsTable(table[f])
      /\ \A f \in Frame, k \in Index : IsDesc(table[f][k])
      /\ \A f \in Frame, k \in Index : table[f][k].type = "table" =>
           \E p \in Page : table[f][k] = TableDesc(p) /\ mem_map[p] = 1
  BY DEF PagingInv, Tree
<1>4. /\ table' = [f \in Frame |-> table'[f]]
      /\ \A f \in Frame : f # x => table'[f] = table[f]
      /\ x \in Frame =>
           table'[x] = [table[x] EXCEPT ![y].prot = pte_mkwrite(@)]
  BY <1>1, <1>3
<1>5. ASSUME NEW f \in Frame
      PROVE  /\ IsTable(table'[f])
             /\ \A k \in Index : \/ table'[f][k] = table[f][k]
                                 \/ IsDesc(table'[f][k]) /\ table'[f][k].type # "table"
  <2>1. CASE f # x
    BY <1>3, <1>4, <2>1
  <2>2. CASE f = x
    <3> DEFINE old == table[x]
               e == old[y]
    <3>1. old = [k \in Index |-> old[k]]
      <4>1. IsTable(table[x])
        BY <1>3, <2>2
      <4> QED
        BY <4>1 DEF IsTable
    <3>2. PICK e2 : e2 = [e EXCEPT !.prot = pte_mkwrite(e.prot)]
      OBVIOUS
    <3>3. table'[x] = [old EXCEPT ![y] = e2]
      BY <1>4, <2>2, <3>2
    <3>4. y \in Index => IsDesc(e)
      BY <1>3, <2>2
    <3>5. y \in Index => IsDesc(e2) /\ e2.type = e.type
      BY <3>2, <3>4 DEF IsDesc
    <3>6. y \in Index /\ e.type = "table" => e2 = e
      <4> SUFFICES ASSUME y \in Index, e.type = "table" PROVE e2 = e
        OBVIOUS
      <4>1. PICK p \in Page : e = TableDesc(p)
        BY <1>3, <2>2
      <4>2. e.prot = "none" /\ e = [type |-> "table", out |-> p, prot |-> "none"]
        BY <4>1 DEF TableDesc
      <4>3. pte_mkwrite(e.prot) = "none"
        BY <4>2 DEF pte_mkwrite
      <4> QED
        BY <3>2, <4>2, <4>3
    <3> HIDE DEF old, e
    <3>7. table'[x] = [k \in Index |-> table'[x][k]]
      BY <3>1, <3>3
    <3>8. \A k \in Index : table'[x][k] = old[k] \/ (k = y /\ table'[x][k] = e2)
      BY <3>1, <3>3
    <3>9. \A k \in Index : \/ table'[x][k] = old[k]
                           \/ IsDesc(table'[x][k]) /\ table'[x][k].type # "table"
      BY <3>5, <3>6, <3>8 DEF e
    <3> QED
      BY <2>2, <3>7, <3>9 DEF IsTable, old
  <2> QED
    BY <2>1, <2>2
<1>6. Tree(mem_map, table')
  BY <1>3, <1>4, <1>5, TreeStores
<1>7. Tree(mem_map, table)'
  BY <1>2, <1>6
<1> QED
  BY <1>2, <1>7 DEF PagingInv

\* The same with the dump of start_kernel.
THEOREM TablesNeverSharedDump == DumpSpec => []TablesOwned
<1>1. DumpInit => PagingInv
  BY InitPaging DEF DumpInit
<1>2. PagingInv /\ [DumpNext]_<<vars, dumpVars>> => PagingInv'
  BY MapPmdPaging, GetFreePagePaging, TestWalkPaging, OtherPaging
     DEF DumpNext, PagingStep, LaterPage, WalkPgd, EnableMmu, vars
<1> QED
  BY <1>1, <1>2, TreeOwned, PTL DEF DumpSpec

----------------------------------------------------------------------------
(* Where a table stands: the levels, and the digits of an address. *)

\* The levels of a table: 3 for the root.
Level == {0, 1, 2, 3}
Above(level) == level + 1

\* Four levels, each with one above it but the last.
LEMMA Levels ==
  /\ Level = 0 .. 3 /\ Above(0) = 1 /\ Above(1) = 2 /\ Above(2) = 3
  /\ \A n \in Level : n # 3 => Above(n) \in Level /\ Above(n) # 0 /\ Above(n) = n + 1
  /\ \A m, n \in Level : m # 3 /\ n # 3 /\ Above(m) = Above(n) => m = n
BY DEF Level, Above

\* The largest level comes first: what it has and what goes one level down with
\* it holds at every level.
LEMMA LevelsDown ==
  ASSUME NEW S, 3 \in S, \A n \in Level : n # 3 /\ Above(n) \in S => n \in S
  PROVE  Level \subseteq S
<1>1. Above(2) = 3 /\ Above(1) = 2 /\ Above(0) = 1
  BY Levels
<1>2. 2 \in S
  BY <1>1 DEF Level
<1>3. 1 \in S
  BY <1>1, <1>2 DEF Level
<1>4. 0 \in S
  BY <1>1, <1>3 DEF Level
<1> QED
  BY <1>2, <1>3, <1>4 DEF Level

\* Division.
LEMMA Division ==
  ASSUME NEW d \in Nat, d > 0, NEW a \in Int
  PROVE  a \div d \in Int /\ a % d \in 0 .. d - 1 /\ a = d * (a \div d) + (a % d)
OBVIOUS

\* Quotient and remainder are determined.
LEMMA DivUnique ==
  ASSUME NEW d \in Nat, d > 0, NEW q \in Int, NEW r \in 0 .. d - 1
  PROVE  (d * q + r) \div d = q /\ (d * q + r) % d = r
OBVIOUS

\* Dividing by a product is dividing twice.
LEMMA DivDiv ==
  ASSUME NEW c \in Nat, c > 0, NEW d \in Nat, d > 0, NEW a \in Int
  PROVE  a \div (c * d) = (a \div c) \div d
<1> DEFINE q == a \div c
           r == a % c
           s == q \div d
           t == q % d
<1>1. q \in Int /\ r \in 0 .. c - 1 /\ a = c * q + r
  BY Division
<1>2. s \in Int /\ t \in 0 .. d - 1 /\ q = d * s + t
  BY <1>1, Division
<1> HIDE DEF q, r, s, t
<1>3. c * d \in Nat /\ c * d > 0
  OBVIOUS
<1>4. a = (c * d) * s + (c * t + r)
  BY <1>1, <1>2
<1>5. c * t + r \in 0 .. (c * d) - 1
  <2>1. c * t >= 0 /\ c * t <= c * (d - 1)
    BY <1>2
  <2>2. c * (d - 1) = (c * d) - c
    OBVIOUS
  <2>3. c * t \in Int /\ c * d \in Int
    BY <1>2
  <2> QED
    BY <2>1, <2>2, <2>3, <1>1
<1>6. a \div (c * d) = s
  BY <1>2, <1>3, <1>4, <1>5, DivUnique
<1> QED
  BY <1>6 DEF s, q

\* The powers of PTRS.
LEMMA Powers ==
  /\ PTRS \in Nat /\ PTRS >= 2
  /\ Span[1] = PTRS /\ Span[2] = PTRS * PTRS /\ Span[3] = PTRS * PTRS * PTRS
  /\ \A j \in 1 .. 3 : Span[j] \in Nat /\ Span[j] > 0
<1>1. PTRS \in Nat /\ PTRS >= 2
  BY PageTableAssumption
<1>2. Span[1] = PTRS /\ Span[2] = PTRS * PTRS /\ Span[3] = PTRS * PTRS * PTRS
  BY DEF Span
<1>3. PTRS * PTRS \in Nat /\ PTRS * PTRS > 0
  BY <1>1
<1>4. PTRS * PTRS * PTRS \in Nat /\ PTRS * PTRS * PTRS > 0
  BY <1>1, <1>3
<1>5. 1 .. 3 = {1, 2, 3}
  OBVIOUS
<1> QED
  BY <1>1, <1>2, <1>3, <1>4, <1>5

\* The indexes above the lowest are the digits of the number of the section.
LEMMA IndexDigits ==
  ASSUME NEW a \in Address
  PROVE  /\ a \in Nat /\ a \div PTRS \in Nat
         /\ index(0, a) = a % PTRS
         /\ index(1, a) = (a \div PTRS) % PTRS
         /\ index(2, a) = ((a \div PTRS) \div PTRS) % PTRS
         /\ index(3, a) = ((a \div PTRS) \div PTRS) \div PTRS
<1> DEFINE P == PTRS
           q == a \div P
           s == q \div P
           t == s \div P
<1>1. P \in Nat /\ P >= 2 /\ P > 0 /\ P * P \in Nat /\ P * P > 0 /\ P * P * P \in Nat /\ P * P * P > 0
  BY Powers
<1>2. a \in Nat /\ a < P * P * P * P
  <2>1. P * P * P * P \in Nat
    BY <1>1
  <2> QED
    BY <2>1 DEF Address
<1>3. a \div (P * P) = s
  BY <1>1, <1>2, DivDiv
<1>4. a \div (P * P * P) = t
  BY <1>1, <1>2, <1>3, DivDiv
<1>5. q \in Nat
  BY <1>1, <1>2
<1>6. t \in 0 .. P - 1
  <2> DEFINE C == P * P * P
             r == a % C
             y == a \div C
  <2>1. C \in Nat /\ C > 0 /\ C * P = P * P * P * P /\ a < C * P
    BY <1>1, <1>2
  <2>2. y \in Int /\ r \in 0 .. C - 1 /\ a = C * y + r
    BY <2>1, <1>2, Division
  <2> HIDE DEF C, r, y
  <2>3. y >= 0
    <3>1. CASE y <= -1
      <4>1. C * y <= C * (-1)
        BY <2>1, <2>2, <3>1
      <4>2. C * (-1) = -C
        BY <2>1
      <4>3. C * y \in Int
        BY <2>1, <2>2
      <4> QED
        BY <1>2, <2>1, <2>2, <4>1, <4>2, <4>3
    <3> QED
      BY <2>2, <3>1
  <2>4. y < P
    <3>1. CASE y >= P
      <4>1. C * y >= C * P
        BY <1>1, <2>1, <2>2, <3>1
      <4>2. C * y \in Int /\ C * P \in Int
        BY <1>1, <2>1, <2>2
      <4> QED
        BY <1>2, <2>1, <2>2, <4>1, <4>2
    <3> QED
      BY <1>1, <2>2, <3>1
  <2>5. y \in 0 .. P - 1
    BY <1>1, <2>2, <2>3, <2>4
  <2> QED
    BY <1>4, <2>5 DEF y, C
<1>7. t % P = t
  <2> HIDE DEF t, P
  <2>1. t = P * 0 + t
    BY <1>1, <1>6
  <2>2. (P * 0 + t) % P = t
    BY <1>1, <1>6, DivUnique
  <2> QED
    BY <2>1, <2>2
<1>8. /\ index(0, a) = a % P /\ index(1, a) = (a \div P) % P
      /\ index(2, a) = (a \div (P * P)) % P /\ index(3, a) = (a \div (P * P * P)) % P
  BY Powers DEF index
<1> QED
  BY <1>2, <1>3, <1>4, <1>5, <1>7, <1>8

\* Two addresses have these indexes in common if they are in one section.
LEMMA SameSection ==
  ASSUME NEW a \in Address, NEW b \in Address
  PROVE  (\A j \in 1 .. 3 : index(j, a) = index(j, b)) <=> a \div PTRS = b \div PTRS
<1> DEFINE P == PTRS
<1>1. P \in Nat /\ P > 0
  BY Powers
<1>2. \A x, y \in Int : x \div P = y \div P /\ x % P = y % P => x = y
  <2> SUFFICES ASSUME NEW x \in Int, NEW y \in Int, x \div P = y \div P, x % P = y % P
               PROVE  x = y
    OBVIOUS
  <2>1. x = P * (x \div P) + (x % P) /\ y = P * (y \div P) + (y % P)
    BY <1>1, Division
  <2> QED
    BY <2>1
<1>3. 1 .. 3 = {1, 2, 3}
  OBVIOUS
<1>4. CASE \A j \in 1 .. 3 : index(j, a) = index(j, b)
  <2> DEFINE qa == a \div P
             qb == b \div P
             sa == qa \div P
             sb == qb \div P
  <2>1. qa \in Nat /\ qb \in Nat
    BY IndexDigits
  <2>2. sa \in Int /\ sb \in Int
    BY <1>1, <2>1
  <2>3. sa \div P = sb \div P /\ sa % P = sb % P /\ qa % P = qb % P
    BY <1>3, <1>4, IndexDigits
  <2> HIDE DEF qa, qb, P
  <2>4. sa = sb
    BY <1>2, <2>2, <2>3
  <2>5. qa = qb
    BY <1>2, <2>1, <2>3, <2>4
  <2> QED
    BY <1>4, <2>5 DEF qa, qb, P
<1>5. CASE a \div P = b \div P
  BY <1>3, <1>5, IndexDigits
<1> QED
  BY <1>4, <1>5

----------------------------------------------------------------------------
(* The tables an address leads to. *)

\* Frame f is the table of this level on the way of address a.
At2(tab, a, f) == f \in Page /\ tab[Pgd][index(3, a)] = TableDesc(f)
At1(tab, a, f) ==
  f \in Page /\ \E g \in Frame : At2(tab, a, g) /\ tab[g][index(2, a)] = TableDesc(f)
At0(tab, a, f) ==
  f \in Page /\ \E g \in Frame : At1(tab, a, g) /\ tab[g][index(1, a)] = TableDesc(f)
At(tab, level, a, f) ==
  \/ level = 3 /\ f = Pgd
  \/ level = 2 /\ At2(tab, a, f)
  \/ level = 1 /\ At1(tab, a, f)
  \/ level = 0 /\ At0(tab, a, f)

\* Where the walk of an address stops: at the first descriptor that links no
\* table.
Leaf(tab, a, d) ==
  \E n \in Level, f \in Frame :
    At(tab, n, a, f) /\ d = tab[f][index(n, a)] /\ d.type # "table"

\* An index at any level is one of the table.
LEMMA IndexAt == ASSUME NEW a \in Address, NEW n \in Level PROVE index(n, a) \in Index
BY IndexInTable, IndexDigits, Levels

\* The table of a level is the one the level above leads to.
LEMMA AtUp ==
  ASSUME NEW tab, NEW n \in Level, n # 3, NEW a, NEW f, At(tab, n, a, f)
  PROVE  f \in Page /\ \E g \in Frame : /\ At(tab, Above(n), a, g)
                                        /\ tab[g][index(Above(n), a)] = TableDesc(f)
<1>1. CASE n = 2
  BY <1>1, Levels, Frames DEF At, At2
<1>2. CASE n = 1
  <2>1. At1(tab, a, f)
    BY <1>2 DEF At
  <2>2. \A g : At2(tab, a, g) => At(tab, Above(n), a, g)
    BY <1>2, Levels DEF At
  <2> QED
    BY <1>2, <2>1, <2>2, Levels DEF At1
<1>3. CASE n = 0
  <2>1. At0(tab, a, f)
    BY <1>3 DEF At
  <2>2. \A g : At1(tab, a, g) => At(tab, Above(n), a, g)
    BY <1>3, Levels DEF At
  <2> QED
    BY <1>3, <2>1, <2>2, Levels DEF At0
<1> QED
  BY <1>1, <1>2, <1>3 DEF Level

\* The walk goes on to the table a descriptor links.
LEMMA AtDown ==
  ASSUME NEW tab, NEW n \in Level, n # 3, NEW a, NEW f \in Page, NEW g \in Frame,
         At(tab, Above(n), a, g), tab[g][index(Above(n), a)] = TableDesc(f)
  PROVE  At(tab, n, a, f)
<1>1. CASE n = 2
  BY <1>1, Levels DEF At, At2
<1>2. CASE n = 1
  <2>1. At2(tab, a, g)
    BY <1>2, Levels DEF At
  <2> QED
    BY <1>2, <2>1, Levels DEF At, At1
<1>3. CASE n = 0
  <2>1. At1(tab, a, g)
    BY <1>3, Levels DEF At
  <2> QED
    BY <1>3, <2>1, Levels DEF At, At0
<1> QED
  BY <1>1, <1>2, <1>3 DEF Level

\* Every walk begins in idmap_pgd_dir.
LEMMA AtRoot == \A tab, a, f : At(tab, 3, a, f) <=> f = Pgd
BY DEF At

\* A table the walk reaches is a frame, and a page unless it is the root.
LEMMA AtFrame ==
  ASSUME NEW tab, NEW n \in Level, NEW a, NEW f, At(tab, n, a, f)
  PROVE  f \in Frame /\ (n # 3 => f \in Page)
<1>1. CASE n = 3
  BY <1>1, AtRoot, Frames
<1>2. CASE n # 3
  BY <1>2, AtUp, Frames
<1> QED
  BY <1>1, <1>2

\* One table for a level and an address.
LEMMA AtUnique ==
  ASSUME NEW tab, NEW a
  PROVE  \A n \in Level : \A f, g : At(tab, n, a, f) /\ At(tab, n, a, g) => f = g
<1> DEFINE S == {n \in Level : \A f, g : At(tab, n, a, f) /\ At(tab, n, a, g) => f = g}
<1>1. 3 \in S
  BY AtRoot DEF Level
<1>2. ASSUME NEW n \in Level, n # 3, Above(n) \in S PROVE n \in S
  <2> SUFFICES ASSUME NEW f, NEW g, At(tab, n, a, f), At(tab, n, a, g) PROVE f = g
    OBVIOUS
  <2>1. PICK h \in Frame : At(tab, Above(n), a, h) /\ tab[h][index(Above(n), a)] = TableDesc(f)
    BY <1>2, AtUp
  <2>2. PICK i \in Frame : At(tab, Above(n), a, i) /\ tab[i][index(Above(n), a)] = TableDesc(g)
    BY <1>2, AtUp
  <2>3. h = i
    BY <1>2, <2>1, <2>2
  <2> QED
    BY <2>1, <2>2, <2>3, Descriptors
<1> HIDE DEF S
<1>3. Level \subseteq S
  BY <1>1, <1>2, LevelsDown
<1> QED
  BY <1>3 DEF S

\* A table is on one level only, and the addresses it serves have the indexes
\* above it in common: no table is linked twice and the root is not linked.
LEMMA AtPosition ==
  ASSUME NEW map, NEW tab, Tree(map, tab), NEW a \in Address, NEW b \in Address
  PROVE  \A n \in Level : \A m \in Level : \A f :
           At(tab, n, a, f) /\ At(tab, m, b, f) =>
             m = n /\ \A j \in Level : j > n => index(j, a) = index(j, b)
<1> DEFINE S == {n \in Level : \A m \in Level : \A f :
                   At(tab, n, a, f) /\ At(tab, m, b, f) =>
                     m = n /\ \A j \in Level : j > n => index(j, a) = index(j, b)}
<1>1. 3 \in S
  <2> SUFFICES ASSUME NEW m \in Level, NEW f, At(tab, 3, a, f), At(tab, m, b, f)
               PROVE  m = 3 /\ \A j \in Level : j > 3 => index(j, a) = index(j, b)
    BY DEF Level
  <2>1. f = Pgd
    BY AtRoot
  <2>2. m = 3
    BY <2>1, AtFrame, Frames
  <2> QED
    BY <2>2 DEF Level
<1>2. ASSUME NEW n \in Level, n # 3, Above(n) \in S PROVE n \in S
  <2> SUFFICES ASSUME NEW m \in Level, NEW f, At(tab, n, a, f), At(tab, m, b, f)
               PROVE  m = n /\ \A j \in Level : j > n => index(j, a) = index(j, b)
    OBVIOUS
  <2> HIDE DEF S
  <2>1. PICK g \in Frame : At(tab, Above(n), a, g) /\ tab[g][index(Above(n), a)] = TableDesc(f)
    BY <1>2, AtUp
  <2>2. m # 3
    <3>1. f \in Page
      BY <1>2, AtFrame
    <3> QED
      BY <3>1, AtRoot, Frames
  <2>3. PICK h \in Frame : At(tab, Above(m), b, h) /\ tab[h][index(Above(m), b)] = TableDesc(f)
    BY <2>2, AtUp
  <2>4. Above(n) \in Level /\ Above(m) \in Level
    BY <1>2, <2>2, Levels
  <2>5. index(Above(n), a) \in Index /\ index(Above(m), b) \in Index
    BY <2>4, IndexAt
  <2>6. g = h /\ index(Above(n), a) = index(Above(m), b)
    <3>1. tab[g][index(Above(n), a)].type = "table" /\ tab[h][index(Above(m), b)].type = "table"
          /\ tab[g][index(Above(n), a)].out = tab[h][index(Above(m), b)].out
      BY <2>1, <2>3, Descriptors
    <3> QED
      BY <2>5, <3>1 DEF Tree
  <2>7. Above(m) = Above(n) /\ \A j \in Level : j > Above(n) => index(j, a) = index(j, b)
    BY <1>2, <2>1, <2>3, <2>4, <2>6 DEF S
  <2>8. m = n
    BY <1>2, <2>2, <2>7, Levels
  <2>9. \A j \in Level : j > n => j = Above(n) \/ j > Above(n)
    BY <1>2, Levels
  <2> QED
    BY <2>6, <2>7, <2>8, <2>9
<1> HIDE DEF S
<1>3. Level \subseteq S
  BY <1>1, <1>2, LevelsDown
<1> QED
  BY <1>3 DEF S

\* The levels above a table all lead on.
LEMMA AboveLeads ==
  ASSUME NEW tab, NEW a
  PROVE  \A n \in Level : \A m \in Level : \A f, g :
           At(tab, n, a, f) /\ m > n /\ At(tab, m, a, g) => tab[g][index(m, a)].type = "table"
<1> DEFINE S == {n \in Level : \A m \in Level : \A f, g :
                   At(tab, n, a, f) /\ m > n /\ At(tab, m, a, g)
                     => tab[g][index(m, a)].type = "table"}
<1>1. 3 \in S
  BY DEF Level
<1>2. ASSUME NEW n \in Level, n # 3, Above(n) \in S PROVE n \in S
  <2> SUFFICES ASSUME NEW f, NEW m \in Level, NEW g, At(tab, n, a, f), m > n, At(tab, m, a, g)
               PROVE  tab[g][index(m, a)].type = "table"
    OBVIOUS
  <2> HIDE DEF S
  <2>1. PICK h \in Frame : At(tab, Above(n), a, h) /\ tab[h][index(Above(n), a)] = TableDesc(f)
    BY <1>2, AtUp
  <2>2. Above(n) \in Level /\ (m = Above(n) \/ m > Above(n))
    BY <1>2, Levels
  <2>3. CASE m = Above(n)
    <3>1. g = h
      BY <2>1, <2>2, <2>3, AtUnique
    <3> QED
      BY <2>1, <2>3, <3>1, Descriptors
  <2>4. CASE m > Above(n)
    BY <1>2, <2>1, <2>4 DEF S
  <2> QED
    BY <2>2, <2>3, <2>4
<1> HIDE DEF S
<1>3. Level \subseteq S
  BY <1>1, <1>2, LevelsDown
<1> QED
  BY <1>3 DEF S

\* The walk of an address stops in one place.
LEMMA LeafUnique ==
  ASSUME NEW tab, NEW a, NEW d, NEW e, Leaf(tab, a, d), Leaf(tab, a, e)
  PROVE  d = e
<1>1. PICK n \in Level, f \in Frame :
        At(tab, n, a, f) /\ d = tab[f][index(n, a)] /\ d.type # "table"
  BY DEF Leaf
<1>2. PICK m \in Level, g \in Frame :
        At(tab, m, a, g) /\ e = tab[g][index(m, a)] /\ e.type # "table"
  BY DEF Leaf
<1>3. ~(m > n) /\ ~(n > m)
  BY <1>1, <1>2, AboveLeads
<1>4. m = n
  BY <1>3, Levels
<1>5. f = g
  BY <1>1, <1>2, <1>4, AtUnique
<1> QED
  BY <1>1, <1>2, <1>4, <1>5

\* Which descriptors a level holds.
Kinds(n) ==
  CASE n = 0 -> {"fault", "page"}
    [] n = 1 -> {"fault", "table", "sect"}
    [] OTHER -> {"fault", "table"}
Shape(tab) ==
  /\ \A f \in Frame, k \in Index : tab[f][k].type = "fault" => tab[f][k] = Fault
  /\ \A b \in Address, n \in Level, f \in Frame :
       At(tab, n, b, f) => tab[f][index(n, b)].type \in Kinds(n)

\* The kinds the proofs ask for.
LEMMA KindsFacts ==
  /\ \A n \in Level : "fault" \in Kinds(n) /\ (n # 0 => "table" \in Kinds(n))
  /\ "sect" \in Kinds(1) /\ "page" \in Kinds(0) /\ "table" \notin Kinds(0)
BY DEF Kinds, Level

----------------------------------------------------------------------------
(* A missing table is linked. *)

\* Frame f is cleared and linked by entry k of frame `in'.
Linked(tab, tab2, in, k, f) ==
  /\ \A m \in Index : tab2[f][m] = Fault
  /\ tab2[in][k] = TableDesc(f)
  /\ \A g \in Frame, m \in Index : g # f /\ ~(g = in /\ m = k) => tab2[g][m] = tab[g][m]

\* What the linking store of descend changes.
LEMMA LinkEntries ==
  ASSUME NEW map, NEW tab, Tree(map, tab), NEW in \in Frame, NEW k \in Index,
         NEW f \in Page, in # f,
         NEW tab2, tab2 = [tab EXCEPT ![f] = EmptyTable,
                                      ![in] = [tab[in] EXCEPT ![k] = TableDesc(f)]]
  PROVE  Linked(tab, tab2, in, k, f)
<1>1. tab = [g \in Frame |-> tab[g]] /\ tab[in] = [m \in Index |-> tab[in][m]]
  <2>1. tab = [g \in Frame |-> tab[g]] /\ IsTable(tab[in])
    BY DEF Tree
  <2> QED
    BY <2>1 DEF IsTable
<1>2. f \in Frame
  BY Frames
<1>3. /\ tab2[f] = EmptyTable
      /\ tab2[in] = [tab[in] EXCEPT ![k] = TableDesc(f)]
      /\ \A g \in Frame : g # f /\ g # in => tab2[g] = tab[g]
  BY <1>1, <1>2
<1>4. \A m \in Index : tab2[f][m] = Fault
  BY <1>3 DEF EmptyTable
<1>5. tab2[in][k] = TableDesc(f) /\ \A m \in Index : m # k => tab2[in][m] = tab[in][m]
  BY <1>1, <1>3
<1> QED
  BY <1>3, <1>4, <1>5 DEF Linked

\* A free page is on no address's way.
LEMMA FreeNotAt ==
  ASSUME NEW map, NEW tab, Tree(map, tab), NEW f \in Page, map[f] = 0,
         NEW n \in Level, NEW b \in Address
  PROVE  ~At(tab, n, b, f)
<1> SUFFICES ASSUME At(tab, n, b, f) PROVE FALSE
  OBVIOUS
<1>1. n # 3
  BY AtRoot, Frames
<1>2. PICK g \in Frame : tab[g][index(Above(n), b)] = TableDesc(f)
  BY <1>1, AtUp
<1>3. index(Above(n), b) \in Index
  BY <1>1, Levels, IndexAt
<1>4. PICK p \in Page : TableDesc(f) = TableDesc(p) /\ map[p] = 1
  BY <1>2, <1>3, Descriptors DEF Tree
<1> QED
  BY <1>4, Descriptors

\* The new link leads the addresses of one entry to the new table, and every
\* address to the tables it led to.
LEMMA LinkAt ==
  ASSUME NEW map, NEW tab, Tree(map, tab), NEW in \in Frame, NEW k \in Index,
         NEW f \in Page, map[f] = 0, in # f, tab[in][k].type # "table",
         NEW tab2, Linked(tab, tab2, in, k, f),
         NEW b \in Address
  PROVE  /\ \A n \in Level : \A h : At(tab, n, b, h) => At(tab2, n, b, h)
         /\ \A n \in Level : \A h : At(tab2, n, b, h) => At(tab, n, b, h) \/ h = f
<1>1. /\ \A m \in Index : tab2[f][m] = Fault
      /\ tab2[in][k] = TableDesc(f)
      /\ \A g \in Frame, m \in Index : g # f /\ ~(g = in /\ m = k) => tab2[g][m] = tab[g][m]
  BY DEF Linked
<1> DEFINE S == {n \in Level : \A h : At(tab, n, b, h) => At(tab2, n, b, h)}
           T == {n \in Level : \A h : At(tab2, n, b, h) => At(tab, n, b, h) \/ h = f}
<1>2. 3 \in S /\ 3 \in T
  BY AtRoot DEF Level
<1>3. ASSUME NEW n \in Level, n # 3, Above(n) \in S PROVE n \in S
  <2> SUFFICES ASSUME NEW h, At(tab, n, b, h) PROVE At(tab2, n, b, h)
    OBVIOUS
  <2>1. PICK g \in Frame : At(tab, Above(n), b, g) /\ tab[g][index(Above(n), b)] = TableDesc(h)
    BY <1>3, AtUp
  <2>2. Above(n) \in Level /\ index(Above(n), b) \in Index /\ h \in Page
    BY <1>3, Levels, IndexAt, AtUp
  <2>3. At(tab2, Above(n), b, g)
    BY <1>3, <2>1
  <2>4. g # f
    BY <2>1, <2>2, FreeNotAt
  <2>5. tab2[g][index(Above(n), b)] = TableDesc(h)
    BY <1>1, <2>1, <2>2, <2>4, Descriptors
  <2> QED
    BY <1>3, <2>2, <2>3, <2>5, AtDown
<1>4. ASSUME NEW n \in Level, n # 3, Above(n) \in T PROVE n \in T
  <2> SUFFICES ASSUME NEW h, At(tab2, n, b, h), h # f PROVE At(tab, n, b, h)
    OBVIOUS
  <2>1. PICK g \in Frame : At(tab2, Above(n), b, g) /\ tab2[g][index(Above(n), b)] = TableDesc(h)
    BY <1>4, AtUp
  <2>2. Above(n) \in Level /\ index(Above(n), b) \in Index /\ h \in Page
    BY <1>4, Levels, IndexAt, AtUp
  <2>3. g # f
    BY <1>1, <2>1, <2>2, Descriptors
  <2>4. At(tab, Above(n), b, g)
    BY <1>4, <2>1, <2>3
  <2>5. tab[g][index(Above(n), b)] = TableDesc(h)
    BY <1>1, <2>1, <2>2, <2>3, Descriptors
  <2> QED
    BY <1>4, <2>2, <2>4, <2>5, AtDown
<1> HIDE DEF S, T
<1>5. Level \subseteq S
  BY <1>2, <1>3, LevelsDown
<1>6. Level \subseteq T
  BY <1>2, <1>4, LevelsDown
<1> QED
  BY <1>5, <1>6 DEF S, T

\* No address loses or gains a mapping by it.
LEMMA LinkLeaf ==
  ASSUME NEW map, NEW tab, Tree(map, tab), Shape(tab), NEW in \in Frame, NEW a \in Address,
         NEW n \in Level, n # 3, At(tab, Above(n), a, in),
         NEW k, k = index(Above(n), a),
         NEW f \in Page, map[f] = 0, in # f, tab[in][k].type = "fault",
         NEW tab2, Linked(tab, tab2, in, k, f)
  PROVE  /\ Shape(tab2)
         /\ At(tab2, n, a, f)
         /\ \A b \in Address : \A d : Leaf(tab, b, d) => Leaf(tab2, b, d)
<1>1. Above(n) \in Level /\ Above(n) # 0 /\ k \in Index
  BY Levels, IndexAt
<1>2. /\ \A m \in Index : tab2[f][m] = Fault
      /\ tab2[in][k] = TableDesc(f)
      /\ \A g \in Frame, m \in Index : g # f /\ ~(g = in /\ m = k) => tab2[g][m] = tab[g][m]
  BY DEF Linked
<1>3. ASSUME NEW b \in Address
      PROVE  /\ \A m \in Level : \A h : At(tab, m, b, h) => At(tab2, m, b, h)
             /\ \A m \in Level : \A h : At(tab2, m, b, h) => At(tab, m, b, h) \/ h = f
  BY <1>1, LinkAt
<1>4. ASSUME NEW b \in Address, NEW m \in Level, At(tab, m, b, in)
      PROVE  m = Above(n)
  BY <1>1, <1>4, AtPosition
<1>5. f \in Frame
  BY Frames
<1>6. Shape(tab2)
  <2>1. ASSUME NEW g \in Frame, NEW m \in Index, tab2[g][m].type = "fault"
        PROVE  tab2[g][m] = Fault
    BY <1>2, <2>1, Descriptors DEF Shape
  <2>2. ASSUME NEW b \in Address, NEW m \in Level, NEW h \in Frame, At(tab2, m, b, h)
        PROVE  tab2[h][index(m, b)].type \in Kinds(m)
    <3>1. index(m, b) \in Index
      BY IndexAt
    <3>2. CASE h = f
      BY <1>2, <3>1, <3>2, KindsFacts, Descriptors
    <3>3. CASE h # f
      <4>1. At(tab, m, b, h)
        BY <1>3, <2>2, <3>3
      <4>2. CASE h = in /\ index(m, b) = k
        BY <1>1, <1>2, <1>4, <4>1, <4>2, KindsFacts, Descriptors
      <4>3. CASE ~(h = in /\ index(m, b) = k)
        BY <1>2, <3>1, <3>3, <4>1, <4>3 DEF Shape
      <4> QED
        BY <4>2, <4>3
    <3> QED
      BY <3>2, <3>3
  <2> QED
    BY <2>1, <2>2 DEF Shape
<1>7. ASSUME NEW b \in Address, NEW m \in Level, At(tab, m, b, in), index(m, b) = k
      PROVE  At(tab2, n, b, f)
  <2>1. At(tab2, Above(n), b, in) /\ index(Above(n), b) = k
    BY <1>3, <1>4, <1>7
  <2> QED
    BY <1>2, <2>1, AtDown
<1>8. ASSUME NEW b \in Address, NEW d, Leaf(tab, b, d)
      PROVE  Leaf(tab2, b, d)
  <2>1. PICK m \in Level, h \in Frame :
          At(tab, m, b, h) /\ d = tab[h][index(m, b)] /\ d.type # "table"
    BY <1>8 DEF Leaf
  <2>2. index(m, b) \in Index /\ index(n, b) \in Index
    BY IndexAt
  <2>3. CASE h = in /\ index(m, b) = k
    <3>1. d = Fault
      BY <1>1, <2>1, <2>3 DEF Shape
    <3>2. At(tab2, n, b, f) /\ tab2[f][index(n, b)] = Fault
      BY <1>2, <1>7, <2>1, <2>2, <2>3
    <3> QED
      BY <1>5, <3>1, <3>2, Descriptors DEF Leaf
  <2>4. CASE ~(h = in /\ index(m, b) = k)
    <3>1. h # f
      BY <2>1, FreeNotAt
    <3>2. At(tab2, m, b, h)
      BY <1>3, <2>1
    <3>3. tab2[h][index(m, b)] = d
      BY <1>2, <2>1, <2>2, <2>4, <3>1
    <3> QED
      BY <2>1, <3>2, <3>3 DEF Leaf
  <2> QED
    BY <2>3, <2>4
<1> QED
  BY <1>1, <1>6, <1>7, <1>8

----------------------------------------------------------------------------
(* Descriptors are stored in the table the walk has come to. *)

\* Frame g, of level n, gets descriptors that link no table.
Stored(tab, tab2, n, g) ==
  /\ \A h \in Frame : h # g => tab2[h] = tab[h]
  /\ \A k \in Index : \/ tab2[g][k] = tab[g][k]
                      \/ tab2[g][k].type \in Kinds(n) \ {"table", "fault"}

\* No address is led elsewhere, and those of the levels above are all kept.
LEMMA StoreAt ==
  ASSUME NEW map, NEW tab, Tree(map, tab), NEW a \in Address, NEW n \in Level,
         NEW g \in Frame, At(tab, n, a, g), NEW tab2, Stored(tab, tab2, n, g),
         NEW b \in Address
  PROVE  /\ \A m \in Level : \A h : At(tab2, m, b, h) => At(tab, m, b, h)
         /\ \A m \in Level : \A h : m >= n /\ At(tab, m, b, h) => At(tab2, m, b, h)
<1> DEFINE S == {m \in Level : \A h : At(tab2, m, b, h) => At(tab, m, b, h)}
           T == {m \in Level : \A h : m >= n /\ At(tab, m, b, h) => At(tab2, m, b, h)}
<1>1. 3 \in S /\ 3 \in T
  BY AtRoot DEF Level
<1>2. ASSUME NEW m \in Level, m # 3, Above(m) \in S PROVE m \in S
  <2> SUFFICES ASSUME NEW h, At(tab2, m, b, h) PROVE At(tab, m, b, h)
    OBVIOUS
  <2>1. PICK p \in Frame : At(tab2, Above(m), b, p) /\ tab2[p][index(Above(m), b)] = TableDesc(h)
    BY <1>2, AtUp
  <2>2. Above(m) \in Level /\ index(Above(m), b) \in Index /\ h \in Page
    BY <1>2, Levels, IndexAt, AtUp
  <2>3. At(tab, Above(m), b, p)
    BY <1>2, <2>1
  <2>4. tab[p][index(Above(m), b)] = TableDesc(h)
    <3>1. CASE p = g
      <4>1. tab2[g][index(Above(m), b)].type = "table"
        BY <2>1, <3>1, Descriptors
      <4> QED
        BY <2>1, <2>2, <3>1, <4>1 DEF Stored
    <3> QED
      BY <2>1, <2>2, <3>1 DEF Stored
  <2> QED
    BY <1>2, <2>2, <2>3, <2>4, AtDown
<1>3. ASSUME NEW m \in Level, m # 3, Above(m) \in T PROVE m \in T
  <2> SUFFICES ASSUME NEW h, m >= n, At(tab, m, b, h) PROVE At(tab2, m, b, h)
    OBVIOUS
  <2>1. PICK p \in Frame : At(tab, Above(m), b, p) /\ tab[p][index(Above(m), b)] = TableDesc(h)
    BY <1>3, AtUp
  <2>2. Above(m) \in Level /\ index(Above(m), b) \in Index /\ h \in Page
    BY <1>3, Levels, IndexAt, AtUp
  <2>3. Above(m) >= n /\ Above(m) # n
    BY <1>3, Levels
  <2>4. At(tab2, Above(m), b, p)
    BY <1>3, <2>1, <2>3
  <2>5. p # g
    BY <2>1, <2>2, <2>3, AtPosition
  <2>6. tab2[p][index(Above(m), b)] = TableDesc(h)
    BY <2>1, <2>5 DEF Stored
  <2> QED
    BY <1>3, <2>2, <2>4, <2>6, AtDown
<1> HIDE DEF S, T
<1>4. Level \subseteq S
  BY <1>1, <1>2, LevelsDown
<1>5. Level \subseteq T
  BY <1>1, <1>3, LevelsDown
<1> QED
  BY <1>4, <1>5 DEF S, T

\* An address whose entry in that table is stored gets the new descriptor, and
\* no other address loses its own.
LEMMA StoreLeaf ==
  ASSUME NEW map, NEW tab, Tree(map, tab), Shape(tab), NEW a \in Address,
         NEW n \in Level, NEW g \in Frame, At(tab, n, a, g),
         NEW tab2, Stored(tab, tab2, n, g)
  PROVE  /\ Shape(tab2)
         /\ \A b \in Address :
              At(tab, n, b, g) /\ tab2[g][index(n, b)].type # "table"
                => Leaf(tab2, b, tab2[g][index(n, b)])
         /\ \A b \in Address : \A d :
              /\ Leaf(tab, b, d)
              /\ At(tab, n, b, g) => tab2[g][index(n, b)] = tab[g][index(n, b)]
              => Leaf(tab2, b, d)
<1>1. ASSUME NEW b \in Address
      PROVE  /\ \A m \in Level : \A h : At(tab2, m, b, h) => At(tab, m, b, h)
             /\ \A m \in Level : \A h : m >= n /\ At(tab, m, b, h) => At(tab2, m, b, h)
  BY StoreAt
<1>2. ASSUME NEW b \in Address, NEW m \in Level, At(tab, m, b, g) PROVE m = n
  BY <1>2, AtPosition
<1>3. Shape(tab2)
  <2>1. ASSUME NEW h \in Frame, NEW k \in Index, tab2[h][k].type = "fault"
        PROVE  tab2[h][k] = Fault
    <3>1. tab2[h][k] = tab[h][k]
      BY <2>1 DEF Stored
    <3> QED
      BY <2>1, <3>1 DEF Shape
  <2>2. ASSUME NEW b \in Address, NEW m \in Level, NEW h \in Frame, At(tab2, m, b, h)
        PROVE  tab2[h][index(m, b)].type \in Kinds(m)
    <3>1. At(tab, m, b, h) /\ index(m, b) \in Index
      BY <1>1, <2>2, IndexAt
    <3>2. tab[h][index(m, b)].type \in Kinds(m)
      BY <3>1 DEF Shape
    <3>3. CASE h = g
      <4>1. m = n
        BY <1>2, <3>1, <3>3
      <4> QED
        BY <3>1, <3>2, <3>3, <4>1 DEF Stored
    <3>4. CASE h # g
      BY <3>2, <3>4 DEF Stored
    <3> QED
      BY <3>3, <3>4
  <2> QED
    BY <2>1, <2>2 DEF Shape
<1>4. ASSUME NEW b \in Address, At(tab, n, b, g), tab2[g][index(n, b)].type # "table"
      PROVE  Leaf(tab2, b, tab2[g][index(n, b)])
  <2>1. At(tab2, n, b, g)
    BY <1>1, <1>4, Levels
  <2> QED
    BY <1>4, <2>1 DEF Leaf
<1>5. ASSUME NEW b \in Address, NEW d, Leaf(tab, b, d),
             At(tab, n, b, g) => tab2[g][index(n, b)] = tab[g][index(n, b)]
      PROVE  Leaf(tab2, b, d)
  <2>1. PICK m \in Level, h \in Frame :
          At(tab, m, b, h) /\ d = tab[h][index(m, b)] /\ d.type # "table"
    BY <1>5 DEF Leaf
  <2>2. ASSUME NEW j \in Level, NEW p \in Frame, At(tab, j, b, p)
        PROVE  tab2[p][index(j, b)] = tab[p][index(j, b)]
    <3>1. CASE p = g
      BY <1>2, <1>5, <2>2, <3>1
    <3>2. CASE p # g
      BY <3>2 DEF Stored
    <3> QED
      BY <3>1, <3>2
  <2> DEFINE T == {j \in Level : \A i : At(tab, j, b, i) => At(tab2, j, b, i)}
  <2>3. 3 \in T
    BY AtRoot DEF Level
  <2>4. ASSUME NEW j \in Level, j # 3, Above(j) \in T PROVE j \in T
    <3> SUFFICES ASSUME NEW i, At(tab, j, b, i) PROVE At(tab2, j, b, i)
      OBVIOUS
    <3>1. PICK p \in Frame : At(tab, Above(j), b, p) /\ tab[p][index(Above(j), b)] = TableDesc(i)
      BY <2>4, AtUp
    <3>2. Above(j) \in Level /\ i \in Page
      BY <2>4, Levels, AtUp
    <3>3. At(tab2, Above(j), b, p)
      BY <2>4, <3>1
    <3>4. tab2[p][index(Above(j), b)] = TableDesc(i)
      BY <2>2, <3>1, <3>2
    <3> QED
      BY <2>4, <3>2, <3>3, <3>4, AtDown
  <2> HIDE DEF T
  <2>5. Level \subseteq T
    BY <2>3, <2>4, LevelsDown
  <2>6. At(tab2, m, b, h) /\ tab2[h][index(m, b)] = d
    BY <2>1, <2>2, <2>5 DEF T
  <2> QED
    BY <2>1, <2>6 DEF Leaf
<1> QED
  BY <1>3, <1>4, <1>5

\* Addresses with the same indexes above a level are led to the same table.
LEMMA AtSame ==
  ASSUME NEW tab, NEW a, NEW b, NEW n \in Level,
         \A j \in Level : j > n => index(j, a) = index(j, b)
  PROVE  \A g : At(tab, n, a, g) => At(tab, n, b, g)
<1> DEFINE T == {m \in Level : m >= n => \A g : At(tab, m, a, g) => At(tab, m, b, g)}
<1>1. 3 \in T
  BY AtRoot DEF Level
<1>2. ASSUME NEW m \in Level, m # 3, Above(m) \in T PROVE m \in T
  <2> SUFFICES ASSUME m >= n, NEW g, At(tab, m, a, g) PROVE At(tab, m, b, g)
    OBVIOUS
  <2>1. PICK p \in Frame : At(tab, Above(m), a, p) /\ tab[p][index(Above(m), a)] = TableDesc(g)
    BY <1>2, AtUp
  <2>2. Above(m) \in Level /\ Above(m) > n /\ Above(m) >= n /\ g \in Page
    <3>1. Above(m) \in Level /\ Above(m) > n /\ Above(m) >= n
      BY <1>2, Levels
    <3>2. g \in Page
      BY <1>2, AtUp
    <3> QED
      BY <3>1, <3>2
  <2>3. At(tab, Above(m), b, p) /\ index(Above(m), a) = index(Above(m), b)
    BY <1>2, <2>1, <2>2
  <2> QED
    BY <1>2, <2>1, <2>2, <2>3, AtDown
<1> HIDE DEF T
<1>3. Level \subseteq T
  BY <1>1, <1>2, LevelsDown
<1>4. n \in T /\ n >= n
  BY <1>3, Levels
<1> QED
  BY <1>4 DEF T

----------------------------------------------------------------------------
(* The walk of paging_init. *)

\* It fails only if no page is free, and leaves every address what it has.
LEMMA DescendMaps ==
  ASSUME NEW w, WalkInv(w), w.wild = FALSE, Shape(w.table), NEW a \in Address,
         NEW n \in Level, n # 3, At(w.table, Above(n), a, w.in),
         NEW k, k = index(Above(n), a), w.table[w.in][k].type \in {"fault", "table"},
         NEW v, v = descend(w, k)
  PROVE  \/ v.wild = TRUE /\ find_free(v.map) = Null
         \/ /\ v.wild = FALSE /\ WalkInv(v) /\ Shape(v.table) /\ At(v.table, n, a, v.in)
            /\ \A b \in Address : \A d : Leaf(w.table, b, d) => Leaf(v.table, b, d)
<1> DEFINE e == w.table[w.in][k]
           f == find_free(w.map)
<1>1. /\ w = [map |-> w.map, table |-> w.table, in |-> w.in, wild |-> w.wild]
      /\ Tree(w.map, w.table) /\ w.in \in Frame /\ (w.in # Pgd => w.map[w.in] = 1)
      /\ w.map \in [Page -> {0, 1}] /\ k \in Index
  BY Levels, IndexAt DEF WalkInv, Tree
<1>2. WalkInv(v)
  BY <1>1, DescendKeeps
<1>3. CASE e.type = "table"
  <2>1. PICK p \in Page : e = TableDesc(p) /\ w.map[p] = 1
    BY <1>1, <1>3 DEF Tree
  <2>2. v = [w EXCEPT !.in = p]
    BY <1>3, <2>1, Descriptors DEF descend
  <2>3. v.map = w.map /\ v.table = w.table /\ v.in = p /\ v.wild = w.wild
    BY <1>1, <2>2
  <2>4. At(w.table, n, a, p)
    BY <1>1, <2>1, AtDown
  <2> QED
    BY <1>2, <2>3, <2>4
<1>4. CASE e.type = "fault" /\ f # Null
  <2> DEFINE tab2 == [w.table EXCEPT ![f] = EmptyTable,
                                     ![w.in] = [@ EXCEPT ![k] = TableDesc(f)]]
  <2>1. f \in Page /\ w.map[f] = 0 /\ f # w.in
    <3>1. f \in Page /\ w.map[f] = 0
      BY <1>1, <1>4, FindFree
    <3> QED
      BY <1>1, <3>1, Frames
  <2>2. v = [map |-> take_page(w.map, f), table |-> tab2, in |-> f, wild |-> w.wild]
    BY <1>4 DEF descend
  <2>3. tab2 = [w.table EXCEPT ![f] = EmptyTable,
                               ![w.in] = [w.table[w.in] EXCEPT ![k] = TableDesc(f)]]
    BY <2>1
  <2>4. v.table = tab2 /\ v.in = f /\ v.wild = w.wild
    BY <2>2
  <2> HIDE DEF tab2, f
  <2>5. Linked(w.table, tab2, w.in, k, f)
    BY <1>1, <2>1, <2>3, LinkEntries
  <2>6. /\ Shape(tab2) /\ At(tab2, n, a, f)
        /\ \A b \in Address : \A d : Leaf(w.table, b, d) => Leaf(tab2, b, d)
    BY <1>1, <1>4, <2>1, <2>5, LinkLeaf
  <2> QED
    BY <1>2, <2>4, <2>6
<1>5. CASE e.type = "fault" /\ f = Null
  <2>1. v = [w EXCEPT !.wild = TRUE]
    BY <1>5 DEF descend
  <2>2. v.wild = TRUE /\ v.map = w.map
    BY <1>1, <2>1
  <2> QED
    BY <1>5, <2>2
<1> QED
  BY <1>3, <1>4, <1>5

\* Once it has gone wrong it stays so.
LEMMA WildStays ==
  ASSUME NEW w, WalkInv(w), w.wild = TRUE, NEW k PROVE descend(w, k).wild = TRUE
<1>1. w = [map |-> w.map, table |-> w.table, in |-> w.in, wild |-> TRUE]
  BY DEF WalkInv
<1>2. \A p : [w EXCEPT !.in = p].wild = TRUE
  BY <1>1
<1>3. [w EXCEPT !.wild = TRUE].wild = TRUE
  BY <1>1
<1> QED
  BY <1>2, <1>3 DEF descend

----------------------------------------------------------------------------
(* The regions and the cursor. *)

\* The calls of __create_pgd_mapping go upwards and do not overlap.
RegionsInv ==
  /\ Len(regions) = 3
  /\ \A i \in 1 .. 3 : /\ regions[i].from \in Nat /\ regions[i].to \in Nat
                       /\ regions[i].from < regions[i].to
                       /\ regions[i].to <= PTRS * PTRS * PTRS * PTRS
  /\ \A i, j \in 1 .. 3 : i < j => regions[i].to <= regions[j].from
  /\ regions[1].prot = "ROX"

\* The cursor is in the region being mapped.
CursorInv ==
  /\ RegionsInv
  /\ call \in 1 .. 4 /\ addr \in Nat
  /\ call <= 3 => regions[call].from <= addr /\ addr < regions[call].to
  /\ mmu => call = 4

\* The first call begins at the start of its region.
LEMMA InitCursor == Init => CursorInv
<1> SUFFICES ASSUME Init PROVE CursorInv
  OBVIOUS
<1> DEFINE N == PTRS * PTRS * PTRS * PTRS
<1>1. PICK from \in 0 .. LOW_MEMORY - 1, to \in 0 .. LOW_MEMORY - 1, dev \in DeviceRegions :
        /\ from < to
        /\ regions = << [from |-> from, to |-> to, prot |-> "ROX"],
                        [from |-> to, to |-> TOTAL_MEMORY, prot |-> "RW"],
                        [from |-> dev[1], to |-> dev[2], prot |-> "DEVICE"] >>
  BY DEF Init
<1>2. /\ LOW_MEMORY \in 1 .. TOTAL_MEMORY /\ TOTAL_MEMORY \in Nat
      /\ dev[1] \in Nat /\ dev[2] \in Nat
      /\ TOTAL_MEMORY <= dev[1] /\ dev[1] < dev[2] /\ dev[2] <= N
  BY PageTableAssumption, NrPagesAssumption DEF TOTAL_MEMORY
<1>3. N \in Nat
  BY Powers
<1> HIDE DEF N
<1>4. /\ Len(regions) = 3
      /\ regions[1].from = from /\ regions[1].to = to /\ regions[1].prot = "ROX"
      /\ regions[2].from = to /\ regions[2].to = TOTAL_MEMORY
      /\ regions[3].from = dev[1] /\ regions[3].to = dev[2]
  BY <1>1
<1>5. 1 .. 3 = {1, 2, 3}
  OBVIOUS
<1>6. from \in Nat /\ to \in Nat /\ from < to /\ to < TOTAL_MEMORY
  BY <1>1, <1>2
<1>7. \A i \in 1 .. 3 : /\ regions[i].from \in Nat /\ regions[i].to \in Nat
                        /\ regions[i].from < regions[i].to /\ regions[i].to <= N
  BY <1>2, <1>3, <1>4, <1>5, <1>6
<1>8. \A i, j \in 1 .. 3 : i < j => regions[i].to <= regions[j].from
  BY <1>2, <1>4, <1>5, <1>6
<1>9. RegionsInv
  BY <1>4, <1>7, <1>8 DEF RegionsInv, N
<1>10. call = 1 /\ addr = regions[1].from /\ mmu = FALSE
  BY DEF Init
<1> QED
  BY <1>4, <1>6, <1>9, <1>10 DEF CursorInv

\* The next address of alloc_init_pmd: within the section of addr and the
\* region, and the whole section where a section descriptor is used.
LEMMA NextAddr ==
  ASSUME NEW a \in Nat, NEW end \in Nat, a < end, NEW next, next = pmd_addr_end(a, end)
  PROVE  /\ next \in Nat /\ a < next /\ next <= end
         /\ \A b \in Nat : a <= b /\ b < next => b \div PTRS = a \div PTRS
         /\ IsSection(a, next) =>
              /\ a = (a \div PTRS) * PTRS
              /\ \A b \in Nat : b \div PTRS = a \div PTRS => a <= b /\ b < next
<1> DEFINE P == PTRS
           q == a \div P
           r == a % P
           top == (q + 1) * P
<1>1. P \in Nat /\ P >= 2 /\ P > 0
  BY Powers
<1>2. q \in Int /\ r \in 0 .. P - 1 /\ a = P * q + r
  BY <1>1, Division
<1>3. top = P * q + P /\ P * q \in Int
  BY <1>1, <1>2
<1>4. top \in Int /\ a < top /\ top <= a + P
  BY <1>1, <1>2, <1>3
<1>5. next = IF top - 1 < end - 1 THEN top ELSE end
  BY DEF pmd_addr_end
<1> HIDE DEF q, r, top, P
<1>6. next \in Nat /\ a < next /\ next <= end /\ next <= top
  BY <1>4, <1>5
<1>7. ASSUME NEW b \in Nat, a <= b, b < next PROVE b \div P = q
  <2>1. PICK s \in Int : s = b - P * q
    BY <1>3
  <2>2. s \in 0 .. P - 1 /\ b = P * q + s
    BY <1>1, <1>2, <1>3, <1>6, <1>7, <2>1
  <2> QED
    BY <1>1, <1>2, <2>2, DivUnique
<1>8. ASSUME a % P = 0, next % P = 0
      PROVE  a = q * P /\ \A b \in Nat : b \div P = q => a <= b /\ b < next
  <2>1. r = 0 /\ a = P * q
    <3>1. r = 0
      BY <1>8 DEF r
    <3> QED
      BY <1>2, <1>3, <3>1
  <2>2. next = top
    <3> DEFINE x == next \div P
    <3>1. x \in Int /\ next = P * x + (next % P)
      <4>1. next \in Int
        BY <1>6
      <4>2. /\ next \div P \in Int /\ next % P \in 0 .. P - 1
            /\ next = P * (next \div P) + (next % P)
        BY <1>1, <4>1, Division
      <4> QED
        BY <4>2
    <3> HIDE DEF x
    <3>2. next = P * x /\ P * x \in Int
      BY <1>1, <1>8, <3>1
    <3>3. CASE x <= q
      <4>1. P * x <= P * q
        BY <1>1, <1>2, <3>1, <3>3
      <4> QED
        BY <1>3, <1>6, <2>1, <3>2, <4>1
    <3>4. CASE x >= q + 1
      <4>1. P * x >= P * (q + 1)
        BY <1>1, <1>2, <3>1, <3>4
      <4>2. P * (q + 1) = top
        BY <1>1, <1>2, <1>3
      <4> QED
        BY <1>4, <1>6, <3>2, <4>1, <4>2
    <3> QED
      BY <1>2, <3>1, <3>3, <3>4
  <2>3. ASSUME NEW b \in Nat, b \div P = q PROVE a <= b /\ b < next
    <3>1. b = P * q + (b % P) /\ b % P \in 0 .. P - 1
      <4>1. b \in Int
        OBVIOUS
      <4>2. /\ b \div P \in Int /\ b % P \in 0 .. P - 1
            /\ b = P * (b \div P) + (b % P)
        BY <1>1, <4>1, Division
      <4> QED
        BY <2>3, <4>2
    <3>2. PICK t : t = b % P
      OBVIOUS
    <3> QED
      BY <1>1, <1>2, <1>3, <2>1, <2>2, <3>1, <3>2
  <2>4. a = q * P
    BY <1>1, <1>2, <2>1
  <2> QED
    BY <2>3, <2>4
<1> QED
  BY <1>6, <1>7, <1>8 DEF IsSection, P, q

\* An iteration covers the addresses up to the next one.
LEMMA MapPmdCovers ==
  ASSUME CursorInv, MapPmd, NEW next, next = pmd_addr_end(addr, regions[call].to)
  PROVE  /\ CursorInv'
         /\ \A b \in Address, i \in 1 .. 3 :
              Covered(i, b)' <=> Covered(i, b) \/ (i = call /\ addr <= b /\ b < next)
         /\ \A b \in Address, i \in 1 .. 3 : addr <= b /\ b < next => ~Covered(i, b)
<1> DEFINE N == PTRS * PTRS * PTRS * PTRS
           r == regions[call]
<1>1. /\ Len(regions) = 3 /\ regions' = regions /\ mmu' = mmu
      /\ call \in 1 .. 3 /\ addr \in Nat /\ r.from <= addr /\ addr < r.to
      /\ ~mmu
  BY DEF CursorInv, RegionsInv, MapPmd
<1>2. /\ \A i \in 1 .. 3 : /\ regions[i].from \in Nat /\ regions[i].to \in Nat
                           /\ regions[i].from < regions[i].to /\ regions[i].to <= N
      /\ \A i, j \in 1 .. 3 : i < j => regions[i].to <= regions[j].from
  BY DEF CursorInv, RegionsInv
<1>3. next \in Nat /\ addr < next /\ next <= r.to
  BY <1>1, <1>2, NextAddr
<1>4. IF next # r.to THEN addr' = next /\ call' = call
      ELSE /\ call' = call + 1
           /\ addr' = IF call < 3 THEN regions[call + 1].from ELSE 0
  BY <1>1 DEF MapPmd
<1>5. \A b \in Address : b \in Nat
  BY IndexDigits
<1> HIDE DEF N
<1>6. CursorInv'
  <2>1. RegionsInv'
    BY <1>1 DEF CursorInv, RegionsInv
  <2>2. CASE next # r.to
    BY <1>1, <1>2, <1>3, <1>4, <2>1, <2>2 DEF CursorInv
  <2>3. CASE next = r.to
    <3>1. call < 3 => call + 1 \in 1 .. 3
      BY <1>1
    <3>2. call' = call + 1 /\ (call < 3 => addr' = regions[call'].from)
          /\ (call = 3 => addr' = 0)
      BY <1>1, <1>4, <2>3
    <3> QED
      BY <1>1, <1>2, <2>1, <3>1, <3>2 DEF CursorInv
  <2> QED
    BY <2>2, <2>3
<1>7. ASSUME NEW b \in Nat, NEW i \in 1 .. 3
      PROVE  Covered(i, b)' <=> Covered(i, b) \/ (i = call /\ addr <= b /\ b < next)
  <2>1. Covered(i, b)' <=> /\ regions[i].from <= b /\ b < regions[i].to
                           /\ i < call' \/ (i = call' /\ b < addr')
    BY <1>1 DEF Covered
  <2>2. CASE next # r.to
    BY <1>1, <1>2, <1>3, <1>4, <2>1, <2>2 DEF Covered
  <2>3. CASE next = r.to
    <3>1. call' = call + 1 /\ (call < 3 => addr' = regions[call'].from)
      BY <1>1, <1>4, <2>3
    <3>2. i = call' => ~(regions[i].from <= b /\ b < addr')
      BY <1>1, <1>2, <3>1
    <3>3. Covered(i, b)' <=> /\ regions[i].from <= b /\ b < regions[i].to
                             /\ i < call \/ i = call
      BY <1>1, <2>1, <3>1, <3>2
    <3> QED
      BY <1>1, <1>2, <1>3, <2>3, <3>3 DEF Covered
  <2> QED
    BY <2>2, <2>3
<1>8. ASSUME NEW b \in Nat, NEW i \in 1 .. 3, addr <= b, b < next
      PROVE  ~Covered(i, b)
  <2>1. i < call => ~(b < regions[i].to)
    BY <1>1, <1>2, <1>8
  <2> QED
    BY <1>1, <1>8, <2>1 DEF Covered
<1> QED
  BY <1>5, <1>6, <1>7, <1>8

----------------------------------------------------------------------------
(* The mapping. *)

\* The attributes an address has.
ProtOf(i, b) ==
  IF patched /\ EntryOf(b) = EntryOf(readonly_page) THEN "RWX" ELSE regions[i].prot

\* What is covered is mapped to itself, by a page or by its section; what is
\* not leads to a fault.
MapsInv ==
  /\ Shape(table)
  /\ \A b \in Address : (\A i \in 1 .. 3 : ~Covered(i, b)) => Leaf(table, b, Fault)
  /\ \A b \in Address, i \in 1 .. 3 : Covered(i, b) =>
       \/ Leaf(table, b, SectDesc((b \div PTRS) * PTRS, ProtOf(i, b)))
       \/ Leaf(table, b, PageDesc(b, ProtOf(i, b)))

\* Pages are only taken by a walk.
LEMMA DescendTakes ==
  ASSUME NEW w, WalkInv(w), NEW k
  PROVE  find_free(w.map) = Null => find_free(descend(w, k).map) = Null
<1> SUFFICES ASSUME find_free(w.map) = Null PROVE find_free(descend(w, k).map) = Null
  OBVIOUS
<1>1. w = [map |-> w.map, table |-> w.table, in |-> w.in, wild |-> w.wild]
  BY DEF WalkInv
<1>2. \A p : [w EXCEPT !.in = p].map = w.map
  BY <1>1
<1>3. [w EXCEPT !.wild = TRUE].map = w.map
  BY <1>1
<1> QED
  BY <1>2, <1>3 DEF descend

\* The walk of an iteration ends in the pmd or the pte table of the address,
\* unless the pages have run out.
LEMMA MapPmdWalk ==
  ASSUME PagingInv, CursorInv, MapsInv, MapPmd
  PROVE  LET r == regions[call]
             next == pmd_addr_end(addr, r.to)
             sect == IsSection(addr, next)
             n == IF sect THEN 1 ELSE 0
         IN  \/ wild' = TRUE /\ find_free(mem_map') = Null
             \/ \E w : /\ wild' = FALSE /\ mem_map' = w.map
                       /\ table' = [w.table EXCEPT ![w.in] =
                                      IF sect THEN pmd_set_section(@, addr, r.prot)
                                      ELSE set_ptes(@, addr, next, r.prot)]
                       /\ WalkInv(w) /\ Shape(w.table) /\ At(w.table, n, addr, w.in)
                       /\ \A b \in Address : \A d : Leaf(table, b, d) => Leaf(w.table, b, d)
<1> DEFINE r == regions[call]
           next == pmd_addr_end(addr, r.to)
           sect == IsSection(addr, next)
           top == [map |-> mem_map, table |-> table, in |-> Pgd, wild |-> FALSE]
           i3 == index(3, addr)
           i2 == index(2, addr)
           i1 == index(1, addr)
<1>1. addr \in Address /\ \A i \in 1 .. 3 : ~Covered(i, addr)
  <2> DEFINE N == PTRS * PTRS * PTRS * PTRS
  <2>1. call \in 1 .. 3 /\ addr \in Nat /\ addr < r.to /\ r.to \in Nat /\ r.to <= N
    BY DEF CursorInv, RegionsInv, MapPmd
  <2>2. N \in Nat
    BY Powers
  <2>3. next \in Nat /\ addr < next
    BY <2>1, NextAddr
  <2> HIDE DEF N, next
  <2>4. addr \in 0 .. N - 1
    BY <2>1, <2>2
  <2>5. addr \in Address
    BY <2>4 DEF N, Address
  <2>6. addr <= addr /\ addr < next
    BY <2>1, <2>3
  <2> QED
    BY <2>5, <2>6, MapPmdCovers DEF next
<1>2. Leaf(table, addr, Fault)
  BY <1>1 DEF MapsInv
<1>3. i3 \in Index /\ i2 \in Index /\ i1 \in Index
  BY <1>1, IndexAt DEF Level
<1>4. PICK pud \in {descend(top, i3)} : \E pmd \in {descend(pud, i2)} :
        \E w \in {IF sect THEN pmd ELSE descend(pmd, i1)} :
          /\ mem_map' = w.map
          /\ table' = [w.table EXCEPT ![w.in] =
                         IF sect THEN pmd_set_section(@, addr, r.prot)
                         ELSE set_ptes(@, addr, next, r.prot)]
          /\ wild' = w.wild
  BY DEF MapPmd
<1>5. PICK pmd \in {descend(pud, i2)} :
        \E w \in {IF sect THEN pmd ELSE descend(pmd, i1)} :
          /\ mem_map' = w.map
          /\ table' = [w.table EXCEPT ![w.in] =
                         IF sect THEN pmd_set_section(@, addr, r.prot)
                         ELSE set_ptes(@, addr, next, r.prot)]
          /\ wild' = w.wild
  BY <1>4
<1>6. PICK w \in {IF sect THEN pmd ELSE descend(pmd, i1)} :
          /\ mem_map' = w.map
          /\ table' = [w.table EXCEPT ![w.in] =
                         IF sect THEN pmd_set_section(@, addr, r.prot)
                         ELSE set_ptes(@, addr, next, r.prot)]
          /\ wild' = w.wild
  BY <1>5
<1>7. pud = descend(top, i3) /\ pmd = descend(pud, i2)
      /\ w = IF sect THEN pmd ELSE descend(pmd, i1)
  BY <1>4, <1>5, <1>6
<1>8. WalkInv(top) /\ top.wild = FALSE /\ top.table = table /\ top.in = Pgd
  <2>1. top.map = mem_map /\ top.table = table /\ top.in = Pgd /\ top.wild = FALSE
    OBVIOUS
  <2>2. top = [map |-> top.map, table |-> top.table, in |-> top.in, wild |-> top.wild]
    OBVIOUS
  <2> HIDE DEF top
  <2> QED
    BY <2>1, <2>2, Frames DEF WalkInv, PagingInv
<1> HIDE DEF r, next, sect, top, i3, i2, i1
<1>9. WalkInv(pud) /\ WalkInv(pmd)
  BY <1>3, <1>7, <1>8, DescendKeeps
<1>10. CASE w.wild = TRUE /\ find_free(w.map) = Null
  BY <1>6, <1>10
<1>11. CASE pud.wild = TRUE /\ find_free(pud.map) = Null
  <2>1. pmd.wild = TRUE /\ find_free(pmd.map) = Null
    BY <1>7, <1>9, <1>11, WildStays, DescendTakes
  <2>2. w.wild = TRUE /\ find_free(w.map) = Null
    BY <1>7, <1>9, <2>1, WildStays, DescendTakes
  <2> QED
    BY <1>10, <2>2
<1>12. CASE pmd.wild = TRUE /\ find_free(pmd.map) = Null
  <2>1. w.wild = TRUE /\ find_free(w.map) = Null
    BY <1>7, <1>9, <1>12, WildStays, DescendTakes
  <2> QED
    BY <1>10, <2>1
<1> DEFINE Keeps(v) == \A b \in Address : \A d : Leaf(table, b, d) => Leaf(v.table, b, d)
           Good(v, n) == /\ v.wild = FALSE /\ WalkInv(v) /\ Shape(v.table)
                         /\ At(v.table, n, addr, v.in) /\ Keeps(v)
<1>13. (pud.wild = TRUE /\ find_free(pud.map) = Null) \/ Good(pud, 2)
  <2>1. At(top.table, Above(2), addr, top.in) /\ i3 = index(Above(2), addr)
    BY <1>8, AtRoot, Levels DEF i3
  <2>2. Shape(top.table) /\ 2 \in Level /\ Above(2) \in Level
    BY <1>8, Levels DEF MapsInv, Level
  <2>3. top.table[top.in][i3].type \in {"fault", "table"}
    <3>1. top.table[top.in][i3].type \in Kinds(3)
      BY <1>1, <1>8, <2>1, <2>2, Frames, Levels DEF Shape
    <3> QED
      BY <3>1 DEF Kinds
  <2>4. PICK n \in Level : n = 2
    BY <2>2
  <2>5. \/ pud.wild = TRUE /\ find_free(pud.map) = Null
        \/ /\ pud.wild = FALSE /\ WalkInv(pud) /\ Shape(pud.table) /\ At(pud.table, n, addr, pud.in)
           /\ \A b \in Address : \A d : Leaf(top.table, b, d) => Leaf(pud.table, b, d)
    <3>1. n # 3 /\ At(top.table, Above(n), addr, top.in) /\ i3 = index(Above(n), addr)
      BY <2>1, <2>4
    <3> HIDE DEF Good, Keeps
    <3> QED
      BY <1>1, <1>7, <1>8, <2>2, <2>3, <3>1, DescendMaps
  <2> QED
    BY <1>8, <2>4, <2>5
<1>14. CASE Good(pud, 2)
  <2>1. (pmd.wild = TRUE /\ find_free(pmd.map) = Null) \/ Good(pmd, 1)
    <3>1. At(pud.table, Above(1), addr, pud.in) /\ i2 = index(Above(1), addr) /\ 1 \in Level /\ 2 \in Level
      BY <1>14, Levels DEF i2, Level
    <3>2. pud.table[pud.in][i2].type \in {"fault", "table"}
      <4>1. pud.table[pud.in][i2].type \in Kinds(2)
        BY <1>1, <1>9, <1>14, <3>1 DEF Shape, WalkInv, i2
      <4> QED
        BY <4>1 DEF Kinds
    <3>3. \/ pmd.wild = TRUE /\ find_free(pmd.map) = Null
          \/ /\ pmd.wild = FALSE /\ WalkInv(pmd) /\ Shape(pmd.table) /\ At(pmd.table, 1, addr, pmd.in)
             /\ \A b \in Address : \A d : Leaf(pud.table, b, d) => Leaf(pmd.table, b, d)
      <4>1. PICK n \in Level : n = 1
        BY <3>1
      <4>2. n # 3 /\ At(pud.table, Above(n), addr, pud.in) /\ i2 = index(Above(n), addr)
        BY <3>1, <4>1
      <4>3. WalkInv(pud) /\ pud.wild = FALSE /\ Shape(pud.table)
        BY <1>14
      <4> HIDE DEF Good, Keeps
      <4>4. pmd = descend(pud, i2)
        BY <1>7
      <4>5. \/ pmd.wild = TRUE /\ find_free(pmd.map) = Null
            \/ /\ pmd.wild = FALSE /\ WalkInv(pmd) /\ Shape(pmd.table) /\ At(pmd.table, n, addr, pmd.in)
               /\ \A b \in Address : \A d : Leaf(pud.table, b, d) => Leaf(pmd.table, b, d)
        BY <1>1, <3>2, <4>2, <4>3, <4>4, DescendMaps
      <4> QED
        BY <4>1, <4>5
    <3> QED
      BY <1>14, <3>3
  <2>2. CASE Good(pmd, 1) /\ sect
    <3>1. Good(w, 1)
      BY <1>7, <2>2
    <3> QED
      BY <1>6, <2>2, <3>1 DEF r, next, sect
  <2>3. CASE Good(pmd, 1) /\ ~sect
    <3>1. At(pmd.table, Above(0), addr, pmd.in) /\ i1 = index(Above(0), addr) /\ 0 \in Level /\ 1 \in Level
      BY <2>3, Levels DEF i1, Level
    <3>2. pmd.table[pmd.in][i1].type \in {"fault", "table"}
      <4>1. pmd.table[pmd.in][i1].type \in Kinds(1) /\ pmd.in \in Frame
        BY <1>1, <1>9, <2>3, <3>1 DEF Shape, WalkInv, i1
      <4>2. pmd.table[pmd.in][i1].type # "sect"
        <5> SUFFICES ASSUME pmd.table[pmd.in][i1].type = "sect" PROVE FALSE
          OBVIOUS
        <5>1. Leaf(pmd.table, addr, pmd.table[pmd.in][i1])
          BY <2>3, <3>1, <4>1 DEF Leaf, i1
        <5>2. Leaf(pmd.table, addr, Fault)
          BY <1>1, <1>2, <2>3
        <5>3. pmd.table[pmd.in][i1] = Fault
          BY <5>1, <5>2, LeafUnique
        <5> QED
          BY <5>3, Descriptors
      <4> QED
        BY <4>1, <4>2 DEF Kinds
    <3>3. \/ w.wild = TRUE /\ find_free(w.map) = Null
          \/ /\ w.wild = FALSE /\ WalkInv(w) /\ Shape(w.table) /\ At(w.table, 0, addr, w.in)
             /\ \A b \in Address : \A d : Leaf(pmd.table, b, d) => Leaf(w.table, b, d)
      <4>1. PICK n \in Level : n = 0
        BY <3>1
      <4>2. n # 3 /\ At(pmd.table, Above(n), addr, pmd.in) /\ i1 = index(Above(n), addr)
        BY <3>1, <4>1
      <4>3. WalkInv(pmd) /\ pmd.wild = FALSE /\ Shape(pmd.table)
        BY <2>3
      <4> HIDE DEF Good, Keeps
      <4>4. w = descend(pmd, i1)
        BY <1>7, <2>3
      <4>5. \/ w.wild = TRUE /\ find_free(w.map) = Null
            \/ /\ w.wild = FALSE /\ WalkInv(w) /\ Shape(w.table) /\ At(w.table, n, addr, w.in)
               /\ \A b \in Address : \A d : Leaf(pmd.table, b, d) => Leaf(w.table, b, d)
        BY <1>1, <3>2, <4>2, <4>3, <4>4, DescendMaps
      <4> QED
        BY <4>1, <4>5
    <3>4. (w.wild = TRUE /\ find_free(w.map) = Null) \/ Good(w, 0)
      BY <2>3, <3>3
    <3>5. CASE Good(w, 0)
      BY <1>6, <2>3, <3>5 DEF r, next, sect
    <3> QED
      BY <1>10, <3>4, <3>5
  <2> QED
    BY <1>12, <2>1, <2>2, <2>3
<1> QED
  BY <1>11, <1>13, <1>14

\* Frame g, of level n, gets the descriptors of the addresses from a to next, and
\* no others.
MappedIn(tab, tab2, n, g, a, next, prot) ==
  /\ Stored(tab, tab2, n, g)
  /\ \A b \in Address : a <= b /\ b < next =>
       /\ At(tab, n, b, g)
       /\ \/ tab2[g][index(n, b)] = SectDesc((b \div PTRS) * PTRS, prot)
          \/ tab2[g][index(n, b)] = PageDesc(b, prot)
  /\ \A b \in Address : ~(a <= b /\ b < next) /\ At(tab, n, b, g) =>
       tab2[g][index(n, b)] = tab[g][index(n, b)]

\* What the stores of alloc_init_pmd and alloc_init_pte change: the entry of
\* exactly the addresses up to the next one.
LEMMA MapPmdStores ==
  ASSUME NEW map, NEW tab, Tree(map, tab), NEW g \in Frame, NEW a \in Address, NEW end \in Nat,
         a < end, NEW next, next = pmd_addr_end(a, end), NEW prot,
         NEW n, n = (IF IsSection(a, next) THEN 1 ELSE 0), At(tab, n, a, g),
         NEW t, t = (IF IsSection(a, next) THEN pmd_set_section(tab[g], a, prot)
                     ELSE set_ptes(tab[g], a, next, prot)),
         NEW tab2, tab2 = [tab EXCEPT ![g] = t]
  PROVE  MappedIn(tab, tab2, n, g, a, next, prot)
<1>1. /\ tab = [h \in Frame |-> tab[h]] /\ tab[g] = [k \in Index |-> tab[g][k]]
  <2>1. tab = [h \in Frame |-> tab[h]] /\ IsTable(tab[g])
    BY DEF Tree
  <2> QED
    BY <2>1 DEF IsTable
<1>2. /\ \A h \in Frame : h # g => tab2[h] = tab[h]
      /\ tab2[g] = IF IsSection(a, next) THEN pmd_set_section(tab[g], a, prot) ELSE set_ptes(tab[g], a, next, prot)
  BY <1>1
<1>3. a \in Nat /\ \A b \in Address : b \in Nat
  BY IndexDigits
<1>4. /\ next \in Nat /\ a < next
      /\ \A b \in Nat : a <= b /\ b < next => b \div PTRS = a \div PTRS
      /\ IsSection(a, next) =>
           /\ a = (a \div PTRS) * PTRS
           /\ \A b \in Nat : b \div PTRS = a \div PTRS => a <= b /\ b < next
  BY <1>3, NextAddr
<1>5. ASSUME NEW b \in Address
      PROVE  (\A j \in Level : j > 0 => index(j, a) = index(j, b)) <=> a \div PTRS = b \div PTRS
  <2>1. \A j : j \in Level /\ j > 0 <=> j \in 1 .. 3
    BY DEF Level
  <2> QED
    BY <2>1, SameSection
<1>6. CASE IsSection(a, next)
  <2>1. n = 1 /\ n \in Level /\ index(1, a) \in Index
    BY <1>6, IndexAt DEF Level
  <2>2. tab2[g] = [tab[g] EXCEPT ![index(1, a)] = SectDesc(a, prot)]
    BY <1>2, <1>6 DEF pmd_set_section
  <2>3. /\ tab2[g][index(1, a)] = SectDesc(a, prot)
        /\ \A k \in Index : k # index(1, a) => tab2[g][k] = tab[g][k]
    BY <1>1, <2>1, <2>2
  <2>4. Stored(tab, tab2, n, g)
    <3>1. SectDesc(a, prot).type \in Kinds(n) \ {"table", "fault"}
      BY <2>1, KindsFacts, Descriptors
    <3> QED
      BY <1>2, <2>3, <3>1 DEF Stored
  <2>5. ASSUME NEW b \in Address, a <= b, b < next
        PROVE  At(tab, n, b, g) /\ tab2[g][index(n, b)] = SectDesc((b \div PTRS) * PTRS, prot)
    <3>1. a \div PTRS = b \div PTRS
      BY <1>3, <1>4, <2>5
    <3>2. \A j \in Level : j > 0 => index(j, a) = index(j, b)
      BY <1>5, <3>1
    <3>3. index(1, b) = index(1, a) /\ \A j \in Level : j > n => index(j, a) = index(j, b)
      BY <2>1, <3>2 DEF Level
    <3>4. At(tab, n, b, g)
      BY <2>1, <3>3, AtSame
    <3>5. a = (b \div PTRS) * PTRS
      BY <1>4, <1>6, <3>1
    <3> QED
      BY <2>1, <2>3, <3>3, <3>4, <3>5
  <2>6. ASSUME NEW b \in Address, ~(a <= b /\ b < next), At(tab, n, b, g)
        PROVE  tab2[g][index(n, b)] = tab[g][index(n, b)]
    <3>1. index(1, b) # index(1, a)
      <4> SUFFICES ASSUME index(1, b) = index(1, a) PROVE FALSE
        OBVIOUS
      <4>1. \A j \in Level : j > 1 => index(j, a) = index(j, b)
        BY <2>1, <2>6, AtPosition
      <4>2. \A j \in Level : j > 0 => j = 1 \/ j > 1
        BY DEF Level
      <4>3. a \div PTRS = b \div PTRS
        BY <1>5, <4>1, <4>2
      <4> QED
        BY <1>3, <1>4, <1>6, <2>6, <4>3
    <3>2. index(1, b) \in Index
      BY <2>1, IndexAt
    <3> QED
      BY <2>1, <2>3, <3>1, <3>2
  <2> QED
    BY <2>4, <2>5, <2>6 DEF MappedIn
<1>7. CASE ~IsSection(a, next)
  <2> DEFINE va(k) == (a \div PTRS) * PTRS + k
  <2>1. n = 0 /\ n \in Level
    BY <1>7 DEF Level
  <2>2. \A k \in Index : tab2[g][k] = IF a <= va(k) /\ va(k) < next
                                      THEN PageDesc(va(k), prot) ELSE tab[g][k]
    BY <1>2, <1>7 DEF set_ptes
  <2>3. Stored(tab, tab2, n, g)
    <3>1. \A x : PageDesc(x, prot).type \in Kinds(n) \ {"table", "fault"}
      BY <2>1, KindsFacts, Descriptors
    <3>2. \A k \in Index : \/ tab2[g][k] = tab[g][k]
                           \/ tab2[g][k].type \in Kinds(n) \ {"table", "fault"}
      BY <2>2, <3>1
    <3> QED
      BY <1>2, <3>2 DEF Stored
  <2>4. ASSUME NEW b \in Address, a \div PTRS = b \div PTRS
        PROVE  index(0, b) \in Index /\ va(index(0, b)) = b
    <3>1. PTRS \in Nat /\ PTRS > 0 /\ b \in Int /\ 0 \in Level
      BY <1>3, Powers DEF Level
    <3>2. b \div PTRS \in Int /\ b = PTRS * (b \div PTRS) + (b % PTRS)
      BY <3>1, Division
    <3>3. index(0, b) = b % PTRS /\ index(0, b) \in Index
      BY <3>1, IndexDigits, IndexAt
    <3>4. PTRS * (b \div PTRS) = (a \div PTRS) * PTRS
      BY <2>4, <3>1, <3>2
    <3> QED
      BY <3>2, <3>3, <3>4
  <2> HIDE DEF va
  <2>5. ASSUME NEW b \in Address, a <= b, b < next
        PROVE  At(tab, n, b, g) /\ tab2[g][index(n, b)] = PageDesc(b, prot)
    <3>1. a \div PTRS = b \div PTRS
      BY <1>3, <1>4, <2>5
    <3>2. \A j \in Level : j > n => index(j, a) = index(j, b)
      BY <1>5, <2>1, <3>1
    <3>3. At(tab, n, b, g)
      BY <2>1, <3>2, AtSame
    <3> QED
      BY <2>1, <2>2, <2>4, <2>5, <3>1, <3>3
  <2>6. ASSUME NEW b \in Address, ~(a <= b /\ b < next), At(tab, n, b, g)
        PROVE  tab2[g][index(n, b)] = tab[g][index(n, b)]
    <3>1. \A j \in Level : j > 0 => index(j, a) = index(j, b)
      BY <2>1, <2>6, AtPosition
    <3>2. a \div PTRS = b \div PTRS
      BY <1>5, <3>1
    <3> QED
      BY <2>1, <2>2, <2>4, <2>6, <3>2
  <2> QED
    BY <2>3, <2>5, <2>6 DEF MappedIn
<1> QED
  BY <1>6, <1>7

\* An iteration maps what it covers and nothing else.
LEMMA MapPmdMaps ==
  ASSUME PagingInv, CursorInv, MapsInv, MapPmd, UNCHANGED patched, ~patched
  PROVE  \/ wild' = TRUE /\ find_free(mem_map') = Null
         \/ wild' = FALSE /\ MapsInv'
<1> DEFINE r == regions[call]
           next == pmd_addr_end(addr, r.to)
           sect == IsSection(addr, next)
           n == IF sect THEN 1 ELSE 0
<1>1. CASE wild' = TRUE /\ find_free(mem_map') = Null
  BY <1>1
<1>2. CASE \E w : /\ wild' = FALSE /\ mem_map' = w.map
                  /\ table' = [w.table EXCEPT ![w.in] =
                                 IF sect THEN pmd_set_section(@, addr, r.prot)
                                 ELSE set_ptes(@, addr, next, r.prot)]
                  /\ WalkInv(w) /\ Shape(w.table) /\ At(w.table, n, addr, w.in)
                  /\ \A b \in Address : \A d : Leaf(table, b, d) => Leaf(w.table, b, d)
  <2>1. PICK w : /\ wild' = FALSE /\ mem_map' = w.map
                 /\ table' = [w.table EXCEPT ![w.in] =
                                IF sect THEN pmd_set_section(@, addr, r.prot)
                                ELSE set_ptes(@, addr, next, r.prot)]
                 /\ WalkInv(w) /\ Shape(w.table) /\ At(w.table, n, addr, w.in)
                 /\ \A b \in Address : \A d : Leaf(table, b, d) => Leaf(w.table, b, d)
    BY <1>2
  <2>2. Tree(w.map, w.table) /\ w.in \in Frame
    BY <2>1 DEF WalkInv
  <2>3. call \in 1 .. 3 /\ addr \in Nat /\ addr < r.to /\ r.to \in Nat /\ regions' = regions
    BY DEF CursorInv, RegionsInv, MapPmd
  <2>4. addr \in Address
    <3> DEFINE N == PTRS * PTRS * PTRS * PTRS
    <3>1. N \in Nat /\ r.to <= N
      BY <2>3, Powers DEF CursorInv, RegionsInv
    <3> HIDE DEF N, r
    <3>2. addr \in 0 .. N - 1
      BY <2>3, <3>1
    <3> QED
      BY <3>2 DEF Address, N
  <2>5. n \in Level
    BY DEF Level
  <2>0. n = (IF IsSection(addr, next) THEN 1 ELSE 0) /\ next = pmd_addr_end(addr, r.to)
    OBVIOUS
  <2>t. PICK tab, tab2, g, map : tab = w.table /\ tab2 = table' /\ g = w.in /\ map = w.map
    OBVIOUS
  <2> DEFINE New(b) == tab2[g][index(n, b)]
  <2>6. /\ Stored(tab, tab2, n, g)
        /\ \A b \in Address : addr <= b /\ b < next =>
             /\ At(tab, n, b, g)
             /\ \/ New(b) = SectDesc((b \div PTRS) * PTRS, r.prot)
                \/ New(b) = PageDesc(b, r.prot)
        /\ \A b \in Address : ~(addr <= b /\ b < next) /\ At(tab, n, b, g) =>
             New(b) = tab[g][index(n, b)]
    <3> HIDE DEF n, next, r
    <3>t. PICK t : t = IF IsSection(addr, next) THEN pmd_set_section(tab[g], addr, r.prot)
                       ELSE set_ptes(tab[g], addr, next, r.prot)
      OBVIOUS
    <3>1. /\ tab2 = [tab EXCEPT ![g] = t]
          /\ Tree(map, tab) /\ g \in Frame /\ At(tab, n, addr, g)
      BY <2>1, <2>2, <2>t, <3>t
    <3>2. r.to \in Nat /\ addr < r.to
      BY <2>3
    <3>3. MappedIn(tab, tab2, n, g, addr, next, r.prot)
      BY <2>0, <2>4, <3>t, <3>1, <3>2, MapPmdStores
    <3> QED
      BY <3>3 DEF MappedIn
  <2>7. /\ \A b \in Address, i \in 1 .. 3 :
             Covered(i, b)' <=> Covered(i, b) \/ (i = call /\ addr <= b /\ b < next)
        /\ \A b \in Address, i \in 1 .. 3 : addr <= b /\ b < next => ~Covered(i, b)
    BY MapPmdCovers
  <2> HIDE DEF n, next, sect, r
  <2>8. /\ Shape(tab2)
        /\ \A b \in Address : At(tab, n, b, g) /\ New(b).type # "table" => Leaf(tab2, b, New(b))
        /\ \A b \in Address : \A d :
             /\ Leaf(tab, b, d)
             /\ At(tab, n, b, g) => New(b) = tab[g][index(n, b)]
             => Leaf(tab2, b, d)
    <3>1. Tree(map, tab) /\ Shape(tab) /\ g \in Frame /\ At(tab, n, addr, g)
      BY <2>1, <2>2, <2>t
    <3> QED
      BY <2>4, <2>5, <2>6, <3>1, StoreLeaf
  <2> HIDE DEF New
  <2>9. ASSUME NEW b \in Address, NEW d, Leaf(table, b, d), ~(addr <= b /\ b < next)
        PROVE  Leaf(table', b, d)
    BY <2>1, <2>6, <2>8, <2>9, <2>t
  <2>10. ASSUME NEW b \in Address, addr <= b, b < next
         PROVE  \/ Leaf(table', b, SectDesc((b \div PTRS) * PTRS, r.prot))
                \/ Leaf(table', b, PageDesc(b, r.prot))
    BY <2>6, <2>8, <2>10, <2>t, Descriptors
  <2>11. \A i, b : ProtOf(i, b) = regions[i].prot /\ ProtOf(i, b)' = regions[i].prot
    BY <2>3 DEF ProtOf
  <2>12. ASSUME NEW b \in Address, \A i \in 1 .. 3 : ~Covered(i, b)'
         PROVE  Leaf(table', b, Fault)
    <3>1. (\A i \in 1 .. 3 : ~Covered(i, b)) /\ ~(addr <= b /\ b < next)
      BY <2>3, <2>7, <2>12
    <3> QED
      BY <2>9, <3>1 DEF MapsInv
  <2>13. ASSUME NEW b \in Address, NEW i \in 1 .. 3, Covered(i, b)'
         PROVE  \/ Leaf(table', b, SectDesc((b \div PTRS) * PTRS, regions[i].prot))
                \/ Leaf(table', b, PageDesc(b, regions[i].prot))
    <3>1. CASE Covered(i, b)
      <4>1. ~(addr <= b /\ b < next)
        BY <2>7, <3>1
      <4>2. \/ Leaf(table, b, SectDesc((b \div PTRS) * PTRS, regions[i].prot))
            \/ Leaf(table, b, PageDesc(b, regions[i].prot))
        BY <2>11, <3>1 DEF MapsInv
      <4> QED
        BY <2>9, <4>1, <4>2
    <3>2. CASE i = call /\ addr <= b /\ b < next
      BY <2>10, <3>2 DEF r
    <3> QED
      BY <2>7, <2>13, <3>1, <3>2
  <2>14. MapsInv'
    BY <2>8, <2>11, <2>12, <2>13, <2>t DEF MapsInv
  <2> QED
    BY <2>1, <2>14
<1> QED
  BY <1>1, <1>2, MapPmdWalk

----------------------------------------------------------------------------
(* walk_pgtable and test_walk_pgtable. *)

\* The two as operators on the tables.
DescIn(tab, n, f, a) == tab[f][index(n, a)]
WalkIn(tab, a) ==
  LET pgd == DescIn(tab, 3, Pgd, a)
      pud == DescIn(tab, 2, pgd.out, a)
      pmd == DescIn(tab, 1, pud.out, a)
  IN  CASE pgd = Fault -> Fault
        [] pgd # Fault /\ pud = Fault -> Fault
        [] pgd # Fault /\ pud # Fault /\ pmd.type \in {"fault", "sect"} -> pmd
        [] OTHER -> DescIn(tab, 0, pmd.out, a)
EntryIn(tab, a) ==
  LET pud == DescIn(tab, 2, DescIn(tab, 3, Pgd, a).out, a)
      pmd == DescIn(tab, 1, pud.out, a)
  IN  IF pmd.type = "sect" THEN <<pud.out, index(1, a)>> ELSE <<pmd.out, index(0, a)>>

\* walk_pgtable and EntryOf, for the table of the state.
LEMMA WalkIsIn == \A a : walk_pgtable(a) = WalkIn(table, a) /\ EntryOf(a) = EntryIn(table, a)
BY DEF walk_pgtable, WalkIn, EntryOf, EntryIn, Desc, DescIn

\* walk_pgtable and EntryOf find the leaf.
LEMMA WalkFindsLeaf ==
  ASSUME NEW tab, Shape(tab), NEW a \in Address, NEW n \in Level, NEW f \in Frame,
         At(tab, n, a, f), NEW d, d = tab[f][index(n, a)], d.type # "table"
  PROVE  WalkIn(tab, a) = d /\ (d.type # "fault" => EntryIn(tab, a) = <<f, index(n, a)>>)
<1>1. /\ index(n, a) \in Index /\ d.type \in Kinds(n)
      /\ d.type = "fault" => d = Fault
  BY IndexAt DEF Shape
<1>2. Fault.type = "fault" /\ \A g : /\ TableDesc(g).out = g /\ TableDesc(g).type = "table"
                                     /\ TableDesc(g) # Fault
  BY Descriptors
<1>3. CASE n = 3
  <2>1. f = Pgd /\ d = DescIn(tab, 3, Pgd, a)
    BY <1>3, AtRoot DEF DescIn
  <2>2. d = Fault
    BY <1>1, <1>3 DEF Kinds
  <2> QED
    BY <1>2, <2>1, <2>2 DEF WalkIn
<1>4. CASE n = 2
  <2>1. DescIn(tab, 3, Pgd, a) = TableDesc(f) /\ d = DescIn(tab, 2, f, a)
    BY <1>4 DEF At, At2, DescIn
  <2>2. d = Fault
    BY <1>1, <1>4 DEF Kinds
  <2> QED
    BY <1>2, <2>1, <2>2 DEF WalkIn
<1>5. CASE n = 1
  <2>1. PICK g : /\ DescIn(tab, 3, Pgd, a) = TableDesc(g) /\ DescIn(tab, 2, g, a) = TableDesc(f)
                 /\ d = DescIn(tab, 1, f, a) /\ index(n, a) = index(1, a)
    BY <1>5 DEF At, At1, At2, DescIn
  <2>2. d.type \in {"fault", "sect"}
    BY <1>1, <1>5 DEF Kinds
  <2>3. WalkIn(tab, a) = d
    BY <1>2, <2>1, <2>2 DEF WalkIn
  <2>4. d.type = "sect" => EntryIn(tab, a) = <<f, index(1, a)>>
    BY <1>2, <2>1 DEF EntryIn
  <2> QED
    BY <2>1, <2>2, <2>3, <2>4
<1>6. CASE n = 0
  <2>1. PICK g, h : /\ DescIn(tab, 3, Pgd, a) = TableDesc(g) /\ DescIn(tab, 2, g, a) = TableDesc(h)
                    /\ DescIn(tab, 1, h, a) = TableDesc(f)
                    /\ d = DescIn(tab, 0, f, a) /\ index(n, a) = index(0, a)
    BY <1>6 DEF At, At0, At1, At2, DescIn
  <2>2. WalkIn(tab, a) = d
    BY <1>2, <2>1 DEF WalkIn
  <2>3. EntryIn(tab, a) = <<f, index(0, a)>>
    BY <1>2, <2>1 DEF EntryIn
  <2> QED
    BY <2>1, <2>2, <2>3
<1> QED
  BY <1>3, <1>4, <1>5, <1>6 DEF Level

\* The ways depend on the links only.
LEMMA AtLinks ==
  ASSUME NEW tab, NEW tab2, NEW b \in Address,
         \A f \in Frame, k \in Index : \A h : tab[f][k] = TableDesc(h) => tab2[f][k] = TableDesc(h)
  PROVE  \A n \in Level : \A h : At(tab, n, b, h) => At(tab2, n, b, h)
<1> DEFINE T == {n \in Level : \A h : At(tab, n, b, h) => At(tab2, n, b, h)}
<1>1. 3 \in T
  BY AtRoot DEF Level
<1>2. ASSUME NEW n \in Level, n # 3, Above(n) \in T PROVE n \in T
  <2> SUFFICES ASSUME NEW h, At(tab, n, b, h) PROVE At(tab2, n, b, h)
    OBVIOUS
  <2>1. PICK p \in Frame : At(tab, Above(n), b, p) /\ tab[p][index(Above(n), b)] = TableDesc(h)
    BY <1>2, AtUp
  <2>2. Above(n) \in Level /\ index(Above(n), b) \in Index /\ h \in Page
    BY <1>2, Levels, IndexAt, AtUp
  <2>3. At(tab2, Above(n), b, p) /\ tab2[p][index(Above(n), b)] = TableDesc(h)
    BY <1>2, <2>1, <2>2
  <2> QED
    BY <1>2, <2>2, <2>3, AtDown
<1> HIDE DEF T
<1>3. Level \subseteq T
  BY <1>1, <1>2, LevelsDown
<1> QED
  BY <1>3 DEF T

\* The descriptor made writable is the one of readonly_page and of what shares
\* it; everything else stays.
LEMMA TestWalkMaps ==
  ASSUME PagingInv, CursorInv, MapsInv, test_walk_pgtable PROVE MapsInv'
<1> DEFINE ro == readonly_page
<1>1. /\ Tree(mem_map, table) /\ table = [f \in Frame |-> table[f]]
      /\ \A f \in Frame : table[f] = [k \in Index |-> table[f][k]]
      /\ \A f \in Frame, k \in Index : IsDesc(table[f][k])
  <2>1. Tree(mem_map, table)
    BY DEF PagingInv
  <2>2. \A f \in Frame : IsTable(table[f])
    BY <2>1 DEF Tree
  <2> QED
    BY <2>1, <2>2 DEF Tree, IsTable
<1>2. /\ call = 4 /\ ~patched /\ patched' = TRUE /\ UNCHANGED <<regions, call, addr>>
      /\ regions[1].from \in Nat /\ regions[1].to \in Nat /\ regions[1].from < regions[1].to
      /\ regions[1].to <= PTRS * PTRS * PTRS * PTRS /\ regions[1].prot = "ROX"
  BY DEF test_walk_pgtable, CursorInv, RegionsInv
<1>3. ro = regions[1].to - 1 /\ ro \in Address /\ Covered(1, ro) /\ ro' = ro
  <2> DEFINE N == PTRS * PTRS * PTRS * PTRS
  <2>1. N \in Nat
    BY Powers
  <2>2. ro = regions[1].to - 1 /\ ro' = ro
    BY <1>2 DEF readonly_page
  <2> HIDE DEF N, ro
  <2>3. regions[1].to <= N
    BY <1>2 DEF N
  <2>4. ro \in 0 .. N - 1 /\ regions[1].from <= ro /\ ro < regions[1].to
    BY <1>2, <2>1, <2>2, <2>3
  <2> QED
    BY <1>2, <2>2, <2>4 DEF N, Address, Covered
<1>4. \A i, b : ProtOf(i, b) = regions[i].prot
  BY <1>2 DEF ProtOf
<1>5. PICK d0 : /\ Leaf(table, ro, d0)
                /\ d0 = SectDesc((ro \div PTRS) * PTRS, "ROX") \/ d0 = PageDesc(ro, "ROX")
  <2>1. \/ Leaf(table, ro, SectDesc((ro \div PTRS) * PTRS, "ROX"))
        \/ Leaf(table, ro, PageDesc(ro, "ROX"))
    BY <1>2, <1>3, <1>4 DEF MapsInv
  <2> QED
    BY <2>1
<1> HIDE DEF ro
<1>6. PICK m \in Level, g \in Frame : At(table, m, ro, g) /\ d0 = table[g][index(m, ro)]
  BY <1>5 DEF Leaf
<1>7. d0.type \in {"sect", "page"} /\ d0.prot = "ROX" /\ d0.type # "table" /\ d0.type # "fault"
  BY <1>5 DEF SectDesc, PageDesc
<1>8. PICK k \in Index : k = index(m, ro)
  BY <1>3, IndexAt
<1>9. EntryOf(ro) = <<g, k>>
  BY <1>3, <1>6, <1>7, <1>8, WalkFindsLeaf, WalkIsIn DEF MapsInv
<1>10. PICK e : e = [d0 EXCEPT !.prot = "RWX"]
  OBVIOUS
<1>11. /\ table'[g][k] = e
       /\ \A f \in Frame, j \in Index : ~(f = g /\ j = k) => table'[f][j] = table[f][j]
  <2>1. table' = [table EXCEPT ![g][k].prot = pte_mkwrite(@)]
    BY <1>9 DEF test_walk_pgtable, ro
  <2>2. PICK t : t = [table[g] EXCEPT ![k].prot = pte_mkwrite(@)]
    OBVIOUS
  <2>3. /\ table'[g] = t /\ \A f \in Frame : f # g => table'[f] = table[f]
    BY <1>1, <2>1, <2>2
  <2>4. /\ t[k] = [table[g][k] EXCEPT !.prot = pte_mkwrite(@)]
        /\ \A j \in Index : j # k => t[j] = table[g][j]
    BY <1>1, <2>2
  <2>5. table[g][k] = d0 /\ pte_mkwrite(d0.prot) = "RWX"
    BY <1>6, <1>7, <1>8 DEF pte_mkwrite
  <2>6. t[k] = e
    BY <1>10, <2>4, <2>5
  <2> QED
    BY <2>3, <2>4, <2>6
<1>12. /\ e.type = d0.type
       /\ \A x : d0 = SectDesc(x, "ROX") => e = SectDesc(x, "RWX")
       /\ \A x : d0 = PageDesc(x, "ROX") => e = PageDesc(x, "RWX")
  BY <1>5, <1>10 DEF SectDesc, PageDesc
<1>13. table[g][k] = d0
  BY <1>6, <1>8
<1>14. ASSUME NEW b \in Address, NEW n \in Level, NEW h
       PROVE  At(table', n, b, h) <=> At(table, n, b, h)
  <2>1. \A f \in Frame, j \in Index : \A i : table[f][j] = TableDesc(i) <=> table'[f][j] = TableDesc(i)
    <3>1. \A i : TableDesc(i) # d0 /\ TableDesc(i) # e
      BY <1>7, <1>12, Descriptors
    <3> QED
      BY <1>11, <1>13, <3>1
  <2>2. At(table, n, b, h) => At(table', n, b, h)
    BY <2>1, AtLinks
  <2>3. At(table', n, b, h) => At(table, n, b, h)
    BY <2>1, AtLinks
  <2> QED
    BY <2>2, <2>3
<1>15. Shape(table')
  <2>1. \A f \in Frame, j \in Index : /\ table'[f][j].type = table[f][j].type
                                      /\ table'[f][j].type = "fault" => table'[f][j] = table[f][j]
    BY <1>7, <1>11, <1>12, <1>13
  <2>2. ASSUME NEW b \in Address, NEW n \in Level, NEW f \in Frame, At(table', n, b, f)
        PROVE  table'[f][index(n, b)].type \in Kinds(n)
    <3>1. At(table, n, b, f) /\ index(n, b) \in Index
      BY <1>14, <2>2, IndexAt
    <3> QED
      BY <2>1, <3>1 DEF Shape, MapsInv
  <2>3. \A f \in Frame, j \in Index : table'[f][j].type = "fault" => table'[f][j] = Fault
    BY <2>1 DEF Shape, MapsInv
  <2> QED
    BY <2>2, <2>3 DEF Shape
<1>16. EntryIn(table', ro) = <<g, k>>
  <2>1. At(table', m, ro, g) /\ table'[g][index(m, ro)] = e /\ e.type # "table" /\ e.type # "fault"
    BY <1>3, <1>6, <1>7, <1>8, <1>11, <1>12, <1>14
  <2> QED
    BY <1>3, <1>8, <1>15, <2>1, WalkFindsLeaf
<1>17. ASSUME NEW b \in Address, NEW d, Leaf(table, b, d)
       PROVE  \/ d = Fault /\ Leaf(table', b, d)
              \/ EntryIn(table', b) # <<g, k>> /\ Leaf(table', b, d)
              \/ EntryIn(table', b) = <<g, k>> /\ d = d0 /\ Leaf(table', b, e)
  <2>1. PICK n \in Level, h \in Frame :
          At(table, n, b, h) /\ d = table[h][index(n, b)] /\ d.type # "table"
    BY <1>17 DEF Leaf
  <2>2. PICK j \in Index : j = index(n, b)
    BY IndexAt
  <2>3. At(table', n, b, h)
    BY <1>14, <2>1
  <2>4. d.type = "fault" => d = Fault
    BY <2>1, <2>2 DEF MapsInv, Shape
  <2>5. CASE h = g /\ j = k
    <3>1. d = d0 /\ table'[h][index(n, b)] = e
      BY <1>11, <1>13, <2>1, <2>2, <2>5
    <3>2. Leaf(table', b, e)
      BY <1>7, <1>12, <2>3, <3>1 DEF Leaf
    <3>3. EntryIn(table', b) = <<g, k>>
      BY <1>7, <1>12, <1>15, <2>2, <2>3, <2>5, <3>1, WalkFindsLeaf
    <3> QED
      BY <3>1, <3>2, <3>3
  <2>6. CASE ~(h = g /\ j = k)
    <3>1. table'[h][index(n, b)] = d
      BY <1>11, <2>1, <2>2, <2>6
    <3>2. Leaf(table', b, d)
      BY <2>1, <2>3, <3>1 DEF Leaf
    <3>3. d.type # "fault" => EntryIn(table', b) = <<h, j>>
      BY <1>15, <2>1, <2>2, <2>3, <3>1, WalkFindsLeaf
    <3> QED
      BY <2>4, <2>6, <3>2, <3>3
  <2> QED
    BY <2>5, <2>6
<1>18. ASSUME NEW b \in Address, NEW i \in 1 .. 3
       PROVE  ProtOf(i, b)' = IF EntryIn(table', b) = <<g, k>> THEN "RWX" ELSE regions[i].prot
  <2>1. EntryOf(b)' = EntryIn(table', b)
    BY DEF EntryOf, EntryIn, Desc, DescIn
  <2>2. (EntryOf(readonly_page))' = EntryIn(table', ro)
    BY <1>3 DEF EntryOf, EntryIn, Desc, DescIn, ro
  <2> QED
    BY <1>2, <1>16, <2>1, <2>2 DEF ProtOf
<1>19. \A b \in Address, i \in 1 .. 3 : Covered(i, b)' <=> Covered(i, b)
  BY <1>2 DEF Covered
<1>20. ASSUME NEW b \in Address, \A i \in 1 .. 3 : ~Covered(i, b)
       PROVE  Leaf(table', b, Fault)
  <2>1. Leaf(table, b, Fault)
    BY <1>20 DEF MapsInv
  <2> QED
    BY <1>7, <1>17, <2>1, Descriptors
<1>21. ASSUME NEW b \in Address, NEW i \in 1 .. 3, Covered(i, b)
       PROVE  \/ Leaf(table', b, SectDesc((b \div PTRS) * PTRS, ProtOf(i, b)'))
              \/ Leaf(table', b, PageDesc(b, ProtOf(i, b)'))
  <2>1. PICK x : x = (b \div PTRS) * PTRS
    OBVIOUS
  <2>2. PICK d : /\ Leaf(table, b, d)
                 /\ d = SectDesc(x, regions[i].prot) \/ d = PageDesc(b, regions[i].prot)
    BY <1>4, <1>21, <2>1 DEF MapsInv
  <2>3. d # Fault /\ d.prot = regions[i].prot
    BY <2>2 DEF Fault, SectDesc, PageDesc
  <2>4. CASE EntryIn(table', b) = <<g, k>>
    <3>1. d = d0 /\ Leaf(table', b, e)
      BY <1>17, <2>2, <2>3, <2>4
    <3>2. e = SectDesc(x, "RWX") \/ e = PageDesc(b, "RWX")
      BY <1>7, <1>12, <2>2, <2>3, <3>1
    <3> QED
      BY <1>18, <2>1, <2>4, <3>1, <3>2
  <2>5. CASE EntryIn(table', b) # <<g, k>>
    <3>1. Leaf(table', b, d)
      BY <1>17, <2>2, <2>3, <2>5
    <3> QED
      BY <1>18, <2>1, <2>2, <2>5, <3>1
  <2> QED
    BY <2>4, <2>5
<1> QED
  BY <1>15, <1>19, <1>20, <1>21 DEF MapsInv

----------------------------------------------------------------------------
(* The identity mapping. *)

\* The mapping is right, or the pages have run out.
BuildInv ==
  /\ PagingInv /\ CursorInv
  /\ wild \in BOOLEAN /\ (patched => mmu)
  /\ wild => find_free(mem_map) = Null
  /\ ~wild => MapsInv

\* Nothing is covered and every walk ends at once.
LEMMA InitBuild == DumpInit => BuildInv
<1> SUFFICES ASSUME DumpInit PROVE BuildInv
  OBVIOUS
<1>1. Init /\ patched = FALSE /\ wild = FALSE /\ call = 1 /\ addr = regions[1].from
      /\ table = [f \in Frame |-> EmptyTable]
  BY DEF DumpInit, Init
<1>2. PagingInv /\ CursorInv
  BY <1>1, InitPaging, InitCursor
<1>3. \A f \in Frame, k \in Index : table[f][k] = Fault
  BY <1>1 DEF EmptyTable
<1>4. Shape(table)
  BY <1>3, IndexAt, KindsFacts, Descriptors DEF Shape
<1>5. ASSUME NEW b \in Address PROVE Leaf(table, b, Fault)
  <2>1. At(table, 3, b, Pgd) /\ 3 \in Level /\ Pgd \in Frame
    BY AtRoot, Frames DEF Level
  <2>2. table[Pgd][index(3, b)] = Fault
    BY <1>3, <2>1, IndexAt
  <2> QED
    BY <2>1, <2>2, Descriptors DEF Leaf
<1>6. ASSUME NEW b \in Address, NEW i \in 1 .. 3 PROVE ~Covered(i, b)
  BY <1>1, IndexDigits, <1>2 DEF Covered, CursorInv, RegionsInv
<1> QED
  BY <1>1, <1>2, <1>4, <1>5, <1>6 DEF BuildInv, MapsInv

\* The mapping depends on these only.
LEMMA OtherMaps ==
  ASSUME MapsInv, UNCHANGED <<table, regions, call, addr, patched>> PROVE MapsInv'
<1>1. \A i, b : (Covered(i, b)' <=> Covered(i, b)) /\ ProtOf(i, b)' = ProtOf(i, b)
  BY DEF Covered, ProtOf, EntryOf, Desc, readonly_page
<1> QED
  BY <1>1 DEF MapsInv

\* An iteration of alloc_init_pmd, or the MMU.
LEMMA PagingBuild == BuildInv /\ PagingStep => BuildInv'
<1> SUFFICES ASSUME BuildInv, PagingStep PROVE BuildInv'
  OBVIOUS
<1>1. UNCHANGED patched
  BY DEF PagingStep, dumpVars
<1>2. CASE MapPmd
  <2>1. ~wild /\ call <= 3 /\ ~mmu /\ ~patched
    BY <1>2 DEF MapPmd, BuildInv, CursorInv, RegionsInv
  <2>2. PagingInv' /\ CursorInv'
    BY <1>2, MapPmdPaging, MapPmdCovers DEF BuildInv
  <2>3. \/ wild' = TRUE /\ find_free(mem_map') = Null
        \/ wild' = FALSE /\ MapsInv'
    BY <1>1, <1>2, <2>1, MapPmdMaps DEF BuildInv
  <2> QED
    BY <1>1, <2>1, <2>2, <2>3 DEF BuildInv
<1>3. CASE EnableMmu
  <2>1. UNCHANGED <<mem_map, table, regions, call, addr, wild, patched>> /\ call = 4 /\ mmu' = TRUE
    BY <1>1, <1>3 DEF EnableMmu, BuildInv, CursorInv, RegionsInv
  <2>2. PagingInv' /\ CursorInv'
    BY <2>1, OtherPaging DEF BuildInv, CursorInv, RegionsInv
  <2>3. MapsInv => MapsInv'
    BY <2>1, OtherMaps
  <2> QED
    BY <2>1, <2>2, <2>3 DEF BuildInv
<1> QED
  BY <1>2, <1>3 DEF PagingStep

\* Every step, those of the dump included.
LEMMA DumpBuild == BuildInv /\ [DumpNext]_<<vars, dumpVars>> => BuildInv'
<1> SUFFICES ASSUME BuildInv, [DumpNext]_<<vars, dumpVars>> PROVE BuildInv'
  OBVIOUS
<1>1. CASE PagingStep
  BY <1>1, PagingBuild
<1>2. CASE test_walk_pgtable
  <2>1. UNCHANGED <<mem_map, regions, call, addr, mmu, wild>> /\ mmu
    BY <1>2 DEF test_walk_pgtable
  <2>2. PagingInv' /\ CursorInv'
    BY <1>2, <2>1, TestWalkPaging DEF BuildInv, CursorInv, RegionsInv
  <2>3. ~wild => MapsInv'
    BY <1>2, TestWalkMaps DEF BuildInv
  <2> QED
    BY <2>1, <2>2, <2>3 DEF BuildInv
<1>3. CASE LaterPage
  <2>1. /\ UNCHANGED <<table, regions, call, addr, mmu, wild, patched>>
        /\ find_free(mem_map) # Null /\ GetFreePage
    BY <1>3 DEF LaterPage, GetFreePage, dumpVars
  <2>2. PagingInv' /\ CursorInv'
    BY <2>1, GetFreePagePaging DEF BuildInv, CursorInv, RegionsInv
  <2>3. MapsInv => MapsInv'
    BY <2>1, OtherMaps
  <2> QED
    BY <2>1, <2>2, <2>3 DEF BuildInv
<1>4. CASE WalkPgd \/ UNCHANGED <<vars, dumpVars>>
  <2>1. UNCHANGED <<mem_map, table, regions, call, addr, mmu, wild, patched>>
    BY <1>4 DEF WalkPgd, vars, dumpVars
  <2>2. PagingInv' /\ CursorInv'
    BY <2>1, OtherPaging DEF BuildInv, CursorInv, RegionsInv
  <2>3. MapsInv => MapsInv'
    BY <2>1, OtherMaps
  <2> QED
    BY <2>1, <2>2, <2>3 DEF BuildInv
<1> QED
  BY <1>1, <1>2, <1>3, <1>4 DEF DumpNext

\* The leaves are what walk_pgtable finds and the MMU uses.
LEMMA MapsMapped == PagingInv /\ CursorInv /\ MapsInv => MappedSoFar
<1> SUFFICES ASSUME PagingInv, CursorInv, MapsInv, NEW a \in Address
             PROVE  /\ Mapped(a) <=> \E i \in 1 .. 3 : Covered(i, a)
                    /\ \A i \in 1 .. 3 : Covered(i, a) =>
                         Translation(a) = [to |-> a, prot |-> ProtOf(i, a)]
  BY DEF MappedSoFar, CursorInv, RegionsInv, ProtOf
<1>1. ASSUME NEW d, Leaf(table, a, d) PROVE walk_pgtable(a) = d
  BY <1>1, WalkFindsLeaf, WalkIsIn DEF Leaf, MapsInv
<1>2. (\A i \in 1 .. 3 : ~Covered(i, a)) => ~Mapped(a)
  BY <1>1 DEF MapsInv, Mapped
<1>3. ASSUME NEW i \in 1 .. 3, Covered(i, a)
      PROVE  Mapped(a) /\ Translation(a) = [to |-> a, prot |-> ProtOf(i, a)]
  <2>1. PICK x : x = (a \div PTRS) * PTRS
    OBVIOUS
  <2>2. x + (a % PTRS) = a
    <3>1. PTRS \in Nat /\ PTRS > 0 /\ a \in Int
      BY Powers, IndexDigits
    <3>2. a \div PTRS \in Int /\ a = PTRS * (a \div PTRS) + (a % PTRS)
      BY <3>1, Division
    <3>3. PTRS * (a \div PTRS) = x
      BY <2>1, <3>1, <3>2
    <3> QED
      BY <3>2, <3>3
  <2>3. \/ walk_pgtable(a) = SectDesc(x, ProtOf(i, a))
        \/ walk_pgtable(a) = PageDesc(a, ProtOf(i, a))
    BY <1>1, <1>3, <2>1 DEF MapsInv
  <2>4. CASE walk_pgtable(a) = SectDesc(x, ProtOf(i, a))
    <3>1. /\ walk_pgtable(a).type = "sect" /\ walk_pgtable(a).out = x
          /\ walk_pgtable(a).prot = ProtOf(i, a)
      BY <2>4 DEF SectDesc
    <3> QED
      BY <2>2, <3>1, Descriptors DEF Translation, Mapped
  <2>5. CASE walk_pgtable(a) = PageDesc(a, ProtOf(i, a))
    <3>1. /\ walk_pgtable(a).type = "page" /\ walk_pgtable(a).out = a
          /\ walk_pgtable(a).prot = ProtOf(i, a)
      BY <2>5 DEF PageDesc
    <3> QED
      BY <3>1, Descriptors DEF Translation, Mapped
  <2> QED
    BY <2>3, <2>4, <2>5
<1> QED
  BY <1>2, <1>3

\* As long as no store went through something that is not a table, exactly
\* what __create_pgd_mapping has covered is mapped, each address to itself
\* with the attributes of its region.
THEOREM IdentityMapped == DumpSpec => [](OnlyTablesWalked => MappedSoFar)
<1>1. BuildInv => (OnlyTablesWalked => MappedSoFar)
  BY MapsMapped DEF BuildInv, OnlyTablesWalked
<1> QED
  BY <1>1, InitBuild, DumpBuild, PTL DEF DumpSpec

\* A walk never takes a section for a table: a store goes astray only after
\* get_free_page has returned null, with every page in use.
THEOREM AstrayOnlyWithoutMemory == DumpSpec => [](OnlyTablesWalked \/ FreePages(mem_map) = {})
<1>1. BuildInv => OnlyTablesWalked \/ FreePages(mem_map) = {}
  <2> SUFFICES ASSUME BuildInv, wild PROVE FreePages(mem_map) = {}
    BY DEF OnlyTablesWalked
  <2>1. find_free(mem_map) = Null
    BY DEF BuildInv
  <2>2. Null \notin Page
    BY NrPagesAssumption DEF Null, Page
  <2>3. ASSUME FreePages(mem_map) # {} PROVE FALSE
    <3>1. FreePages(mem_map) \subseteq Nat /\ FreePages(mem_map) \subseteq Page
      BY NrPagesAssumption DEF FreePages, Page
    <3>2. \E p \in FreePages(mem_map) : \A q \in FreePages(mem_map) : p <= q
      BY <2>3, <3>1, LeastNat
    <3>3. find_free(mem_map) \in FreePages(mem_map)
      BY <2>3, <3>2 DEF find_free
    <3> QED
      BY <2>1, <2>2, <3>1, <3>3
  <2> QED
    BY <2>3
<1> QED
  BY <1>1, InitBuild, DumpBuild, PTL DEF DumpSpec

----------------------------------------------------------------------------
(* The pages are enough. *)

\* The iterations of alloc_init_pmd for a region: the sections it meets.
Sections(from, to) == (to - 1) \div PTRS - (from \div PTRS) + 1

\* Three tables for each iteration of the three calls of __create_pgd_mapping,
\* and the page of the interrupt controller: the two regions of the memory
\* have at most one section in common.  The boards need 820 of 131072 pages.
EnoughMemory ==
  \A d \in DeviceRegions :
    3 * (Sections(0, TOTAL_MEMORY) + 1 + Sections(d[1], d[2])) + 1 < NR_PAGES

\* get_free_page takes the lowest free page and paging_init frees none: the
\* pages in use are the first ones.
FirstPages(map, m) ==
  /\ map \in [Page -> {0, 1}] /\ m \in 0 .. NR_PAGES
  /\ \A p \in Page : map[p] = 1 <=> p <= m

\* get_free_page takes the page behind the first ones.
LEMMA FirstPagesFree ==
  ASSUME NEW map, NEW m, FirstPages(map, m)
  PROVE  IF m = NR_PAGES THEN find_free(map) = Null
         ELSE find_free(map) = m + 1 /\ FirstPages(take_page(map, m + 1), m + 1)
<1>1. /\ map \in [Page -> {0, 1}] /\ m \in 0 .. NR_PAGES /\ NR_PAGES \in Nat
      /\ \A p \in Page : map[p] = 1 <=> p <= m
  BY NrPagesAssumption DEF FirstPages
<1>2. \A p : p \in FreePages(map) <=> p \in Page /\ p > m
  BY <1>1 DEF FreePages, Page
<1>3. CASE m = NR_PAGES
  <2>1. FreePages(map) = {}
    BY <1>1, <1>2, <1>3 DEF Page
  <2> QED
    BY <1>3, <2>1 DEF find_free
<1>4. CASE m # NR_PAGES
  <2>1. m + 1 \in Page /\ m + 1 \in FreePages(map) /\ \A q \in FreePages(map) : m + 1 <= q
    BY <1>1, <1>2, <1>4 DEF Page
  <2>2. \A p \in FreePages(map) : (\A q \in FreePages(map) : p <= q) => p = m + 1
    <3> SUFFICES ASSUME NEW p \in FreePages(map), \A q \in FreePages(map) : p <= q
                 PROVE  p = m + 1
      OBVIOUS
    <3>1. p <= m + 1 /\ m + 1 <= p
      BY <2>1
    <3>2. p \in Int
      BY <1>2, NrPagesAssumption DEF Page
    <3> QED
      BY <1>1, <3>1, <3>2
  <2>3. find_free(map) = m + 1
    BY <2>1, <2>2 DEF find_free
  <2>4. FirstPages(take_page(map, m + 1), m + 1)
    <3>1. take_page(map, m + 1) \in [Page -> {0, 1}]
      BY <1>1 DEF take_page
    <3>2. \A p \in Page : take_page(map, m + 1)[p] = IF p = m + 1 THEN 1 ELSE map[p]
      BY <1>1 DEF take_page
    <3>3. m + 1 \in 0 .. NR_PAGES
      BY <1>1, <1>4
    <3>4. \A p \in Page : take_page(map, m + 1)[p] = 1 <=> p <= m + 1
      BY <1>1, <3>2 DEF Page
    <3> QED
      BY <3>1, <3>3, <3>4 DEF FirstPages
  <2> QED
    BY <1>4, <2>3, <2>4
<1> QED
  BY <1>3, <1>4

\* A step of a walk takes one page at most.
LEMMA DescendFirstPages ==
  ASSUME NEW w, WalkInv(w), NEW k, NEW m, FirstPages(w.map, m)
  PROVE  FirstPages(descend(w, k).map, m) \/ FirstPages(descend(w, k).map, m + 1)
<1> DEFINE e == w.table[w.in][k]
           f == find_free(w.map)
<1>1. w = [map |-> w.map, table |-> w.table, in |-> w.in, wild |-> w.wild]
  BY DEF WalkInv
<1>2. \A p : [w EXCEPT !.in = p].map = w.map
  BY <1>1
<1>3. [w EXCEPT !.wild = TRUE].map = w.map
  BY <1>1
<1>4. CASE e.type = "table"
  BY <1>2, <1>4 DEF descend
<1>5. CASE e.type = "fault" /\ f # Null
  <2>1. descend(w, k).map = take_page(w.map, f)
    BY <1>5 DEF descend
  <2>2. f = m + 1 /\ FirstPages(take_page(w.map, m + 1), m + 1)
    BY <1>5, FirstPagesFree
  <2> HIDE DEF f
  <2> QED
    BY <2>1, <2>2
<1>6. CASE ~(e.type = "table") /\ ~(e.type = "fault" /\ f # Null)
  <2>1. descend(w, k) = [w EXCEPT !.wild = TRUE]
    BY <1>6 DEF descend
  <2> QED
    BY <1>3, <2>1
<1> QED
  BY <1>4, <1>5, <1>6

\* An iteration allocates three tables at most.
LEMMA MapPmdFirstPages ==
  ASSUME PagingInv, MapPmd, NEW m, FirstPages(mem_map, m)
  PROVE  \E j \in 0 .. 3 : FirstPages(mem_map', m + j)
<1> DEFINE top == [map |-> mem_map, table |-> table, in |-> Pgd, wild |-> FALSE]
           pud == descend(top, index(3, addr))
           pmd == descend(pud, index(2, addr))
           pte == descend(pmd, index(1, addr))
<1>1. mem_map' = pmd.map \/ mem_map' = pte.map
  BY DEF MapPmd
<1>2. WalkInv(top) /\ top.map = mem_map
  <2>1. top.map = mem_map /\ top.table = table /\ top.in = Pgd
    OBVIOUS
  <2>2. top = [map |-> top.map, table |-> top.table, in |-> top.in, wild |-> top.wild]
    OBVIOUS
  <2> HIDE DEF top
  <2> QED
    BY <2>1, <2>2, Frames DEF WalkInv, PagingInv
<1>3. index(3, addr) \in Index /\ index(2, addr) \in Index /\ m \in Int
  BY IndexInTable, NrPagesAssumption DEF PagingInv, FirstPages
<1> HIDE DEF top
<1>4. WalkInv(pud)
  BY <1>2, <1>3, DescendKeeps
<1>5. WalkInv(pmd)
  BY <1>3, <1>4, DescendKeeps
<1>6. \E j \in 0 .. 1 : FirstPages(pud.map, m + j)
  <2>1. FirstPages(pud.map, m) \/ FirstPages(pud.map, m + 1)
    BY <1>2, DescendFirstPages
  <2>2. m + 0 = m
    BY <1>3
  <2> QED
    BY <2>1, <2>2
<1> HIDE DEF pud
<1>7. \E j \in 0 .. 2 : FirstPages(pmd.map, m + j)
  <2>1. PICK j \in 0 .. 1 : FirstPages(pud.map, m + j)
    BY <1>6
  <2>2. FirstPages(pmd.map, m + j) \/ FirstPages(pmd.map, (m + j) + 1)
    BY <1>4, <2>1, DescendFirstPages
  <2>3. (m + j) + 1 = m + (j + 1)
    BY <1>3
  <2> HIDE DEF pmd
  <2> QED
    BY <2>2, <2>3
<1> HIDE DEF pmd
<1>8. \E j \in 0 .. 3 : FirstPages(pte.map, m + j)
  <2>1. PICK j \in 0 .. 2 : FirstPages(pmd.map, m + j)
    BY <1>7
  <2>2. FirstPages(pte.map, m + j) \/ FirstPages(pte.map, (m + j) + 1)
    BY <1>5, <2>1, DescendFirstPages
  <2>3. (m + j) + 1 = m + (j + 1)
    BY <1>3
  <2> HIDE DEF pte
  <2> QED
    BY <2>2, <2>3
<1> HIDE DEF pte
<1>9. 0 .. 2 \subseteq 0 .. 3
  OBVIOUS
<1> QED
  BY <1>1, <1>7, <1>8, <1>9

\* The iterations of the calls before i, and those done so far.
Before(i) ==
  LET s == [j \in 1 .. 3 |-> Sections(regions[j].from, regions[j].to)]
  IN  CASE i = 1 -> 0 [] i = 2 -> s[1] [] i = 3 -> s[1] + s[2] [] i = 4 -> s[1] + s[2] + s[3]
Done ==
  IF call = 4 THEN Before(4) ELSE Before(call) + (addr \div PTRS - (regions[call].from \div PTRS))

\* Sections are ordered like their addresses.
LEMMA DivMonotone ==
  ASSUME NEW x \in Int, NEW y \in Int, x <= y PROVE x \div PTRS <= y \div PTRS
<1> DEFINE P == PTRS
           p == x \div P
           q == y \div P
<1>1. P \in Nat /\ P > 0
  BY Powers
<1>2. /\ p \in Int /\ x % P \in 0 .. P - 1 /\ x = P * p + (x % P)
      /\ q \in Int /\ y % P \in 0 .. P - 1 /\ y = P * q + (y % P)
  BY <1>1, Division
<1>3. PICK r, s : r = x % P /\ s = y % P
  OBVIOUS
<1>4. /\ r \in 0 .. P - 1 /\ x = P * p + r /\ s \in 0 .. P - 1 /\ y = P * q + s
  BY <1>2, <1>3
<1> HIDE DEF p, q, P
<1>5. CASE p >= q + 1
  <2>1. P * p >= P * (q + 1) /\ P * (q + 1) = P * q + P
    BY <1>1, <1>2, <1>5
  <2>2. P * p \in Int /\ P * q \in Int
    BY <1>1, <1>2
  <2> QED
    BY <1>1, <1>4, <2>1, <2>2
<1>6. CASE p <= q
  BY <1>6 DEF p, q, P
<1>7. p \in Int /\ q \in Int
  BY <1>2
<1> QED
  BY <1>5, <1>6, <1>7

\* Each region adds its sections, at least one.
LEMMA BeforeFacts ==
  ASSUME RegionsInv
  PROVE  /\ Before(1) = 0
         /\ \A i \in 1 .. 3 : /\ Before(i) \in Int
                              /\ Before(i + 1) = Before(i) + Sections(regions[i].from, regions[i].to)
                              /\ Before(i + 1) >= Before(i) + 1
         /\ Before(4) \in Int /\ \A i \in 1 .. 4 : Before(i) <= Before(4) /\ Before(i) >= 0
<1> DEFINE S(i) == Sections(regions[i].from, regions[i].to)
<1>1. ASSUME NEW i \in 1 .. 3 PROVE S(i) \in Int /\ S(i) >= 1
  <2>1. /\ regions[i].from \in Nat /\ regions[i].to \in Nat /\ regions[i].from < regions[i].to
    BY DEF RegionsInv
  <2>2. PICK x, y : x = regions[i].from /\ y = regions[i].to - 1
    OBVIOUS
  <2>3. x \in Int /\ y \in Int /\ x <= y
    BY <2>1, <2>2
  <2>4. x \div PTRS <= y \div PTRS
    BY <2>3, DivMonotone
  <2>5. x \div PTRS \in Int /\ y \div PTRS \in Int
    BY <2>3, Powers, Division
  <2>6. S(i) = y \div PTRS - (x \div PTRS) + 1
    BY <2>2 DEF Sections
  <2> HIDE DEF S
  <2> QED
    BY <2>4, <2>5, <2>6
<1>2. /\ Before(1) = 0 /\ Before(2) = S(1) /\ Before(3) = S(1) + S(2)
      /\ Before(4) = S(1) + S(2) + S(3)
  BY DEF Before
<1> HIDE DEF S
<1>3. S(1) \in Int /\ S(1) >= 1 /\ S(2) \in Int /\ S(2) >= 1 /\ S(3) \in Int /\ S(3) >= 1
  BY <1>1
<1>4. 1 .. 3 = {1, 2, 3} /\ 1 .. 4 = {1, 2, 3, 4}
  OBVIOUS
<1>5. \A i \in 1 .. 3 : Before(i) \in Int /\ Before(i + 1) = Before(i) + S(i) /\ Before(i + 1) >= Before(i) + 1
  BY <1>2, <1>3, <1>4
<1>6. Before(4) \in Int /\ \A i \in 1 .. 4 : Before(i) <= Before(4) /\ Before(i) >= 0
  BY <1>2, <1>3, <1>4
<1> QED
  BY <1>2, <1>5, <1>6 DEF S

\* An iteration goes one section on.
LEMMA MapPmdDone ==
  ASSUME CursorInv, MapPmd
  PROVE  /\ Done \in Int /\ Done' \in Int /\ Done >= 0 /\ Done' >= Done + 1 /\ Done' <= Before(4)
         /\ Before(4)' = Before(4)
<1> DEFINE r == regions[call]
           next == pmd_addr_end(addr, r.to)
           D(x) == x \div PTRS
<1>1. /\ Len(regions) = 3 /\ regions' = regions /\ RegionsInv /\ CursorInv'
      /\ call \in 1 .. 3 /\ addr \in Nat /\ r.from <= addr /\ addr < r.to
      /\ r.from \in Nat /\ r.to \in Nat
  <2>1. CursorInv'
    BY MapPmdCovers
  <2>2. RegionsInv
    BY DEF CursorInv
  <2> QED
    BY <2>1, <2>2 DEF CursorInv, RegionsInv, MapPmd
<1>2. next \in Nat /\ addr < next /\ next <= r.to
  BY <1>1, NextAddr
<1>3. IF next # r.to THEN addr' = next /\ call' = call
      ELSE /\ call' = call + 1
           /\ addr' = IF call < 3 THEN regions[call + 1].from ELSE 0
  BY <1>1 DEF MapPmd
<1>4. \A i : Before(i)' = Before(i)
  BY <1>1 DEF Before
<1>5. \A x \in Int : D(x) \in Int
  BY Powers, Division
<1>6. next # r.to => D(next) = D(addr) + 1
  <2> SUFFICES ASSUME next # r.to PROVE D(next) = D(addr) + 1
    OBVIOUS
  <2>1. next = (addr \div PTRS + 1) * PTRS
    BY DEF pmd_addr_end
  <2>2. PICK q : q = addr \div PTRS + 1
    OBVIOUS
  <2>3. q \in Int /\ PTRS \in Nat /\ PTRS > 0 /\ 0 \in 0 .. PTRS - 1
    BY <1>1, <1>5, <2>2, Powers
  <2>4. next = PTRS * q + 0
    BY <2>1, <2>2, <2>3
  <2>5. (PTRS * q + 0) \div PTRS = q
    BY <2>3, DivUnique
  <2> QED
    BY <2>2, <2>4, <2>5
<1>7. D(r.from) <= D(addr) /\ D(addr) <= D(r.to - 1)
  <2>1. r.from \in Int /\ addr \in Int /\ r.to - 1 \in Int /\ r.from <= addr /\ addr <= r.to - 1
    BY <1>1
  <2> HIDE DEF r
  <2> QED
    BY <2>1, DivMonotone
<1>8. /\ Before(call) \in Int /\ Before(call) >= 0 /\ Before(call + 1) \in Int
      /\ Before(call + 1) = Before(call) + (D(r.to - 1) - D(r.from) + 1)
      /\ Before(call + 1) <= Before(4) /\ Before(4) \in Int
  <2>1. /\ Before(call) \in Int /\ Before(4) \in Int
        /\ Before(call + 1) = Before(call) + Sections(r.from, r.to)
    BY <1>1, BeforeFacts
  <2>2. call \in 1 .. 4 /\ call + 1 \in 1 .. 4
    BY <1>1
  <2>3. Before(call + 1) <= Before(4) /\ Before(call) >= 0
    BY <1>1, <2>2, BeforeFacts
  <2>4. Sections(r.from, r.to) = D(r.to - 1) - D(r.from) + 1
    BY DEF Sections
  <2>5. D(r.to - 1) \in Int /\ D(r.from) \in Int
    BY <1>1, <1>5
  <2> HIDE DEF D, r
  <2> QED
    BY <2>1, <2>3, <2>4, <2>5
<1>9. Done = Before(call) + (D(addr) - D(r.from)) /\ D(addr) \in Int /\ D(r.from) \in Int
      /\ D(r.to - 1) \in Int
  BY <1>1, <1>5 DEF Done
<1>10. CASE next # r.to
  <2>1. call' = call /\ addr' = next /\ regions'[call'].from = r.from
    BY <1>1, <1>3, <1>10
  <2>2. Done' = Before(call) + (D(next) - D(r.from))
    BY <1>1, <1>4, <2>1 DEF Done
  <2>3. D(next) <= D(r.to - 1)
    <3>1. next \in Int /\ r.to - 1 \in Int /\ next <= r.to - 1
      BY <1>1, <1>2, <1>10
    <3> HIDE DEF next, r
    <3> QED
      BY <3>1, DivMonotone
  <2> HIDE DEF D, next, r
  <2> QED
    BY <1>4, <1>6, <1>7, <1>8, <1>9, <1>10, <2>2, <2>3
<1>11. CASE next = r.to
  <2>1. call' = call + 1 /\ (call < 3 => addr' = regions[call'].from)
    BY <1>1, <1>3, <1>11
  <2>2. Done' = Before(call + 1)
    <3>1. CASE call = 3
      BY <1>1, <1>4, <2>1, <3>1 DEF Done
    <3>2. CASE call # 3
      <4>1. call' # 4 /\ addr' = regions'[call'].from /\ call' \in 1 .. 3
        BY <1>1, <2>1, <3>2
      <4>2. D(regions[call'].from) \in Int /\ Before(call + 1) \in Int
        BY <1>1, <1>5, <1>8, <4>1 DEF RegionsInv
      <4>3. Done' = Before(call + 1) + (D(regions[call'].from) - D(regions[call'].from))
        BY <1>1, <1>4, <2>1, <4>1 DEF Done
      <4> HIDE DEF D
      <4> QED
        BY <4>2, <4>3
    <3> QED
      BY <3>1, <3>2
  <2> HIDE DEF D, next, r
  <2> QED
    BY <1>4, <1>7, <1>8, <1>9, <2>2
<1> QED
  BY <1>10, <1>11

\* What EnoughMemory gives: pages for three tables an iteration.
MemoryInv ==
  /\ ~wild
  /\ 3 * Before(4) + 1 < NR_PAGES
  /\ ~mmu => \E m \in Nat : FirstPages(mem_map, m) /\ m <= 3 * Done + 1

\* EnoughMemory bounds the sections of the regions the boot chose.
LEMMA InitMemory == EnoughMemory /\ DumpInit => MemoryInv
<1> SUFFICES ASSUME EnoughMemory, DumpInit PROVE MemoryInv
  OBVIOUS
<1> DEFINE D(x) == x \div PTRS
<1>1. PICK from \in 0 .. LOW_MEMORY - 1, to \in 0 .. LOW_MEMORY - 1, dev \in DeviceRegions :
        /\ from < to
        /\ regions = << [from |-> from, to |-> to, prot |-> "ROX"],
                        [from |-> to, to |-> TOTAL_MEMORY, prot |-> "RW"],
                        [from |-> dev[1], to |-> dev[2], prot |-> "DEVICE"] >>
  BY DEF DumpInit, Init
<1>2. /\ regions[1].from = from /\ regions[1].to = to
      /\ regions[2].from = to /\ regions[2].to = TOTAL_MEMORY
      /\ regions[3].from = dev[1] /\ regions[3].to = dev[2]
  BY <1>1
<1>3. Before(4) = Sections(from, to) + Sections(to, TOTAL_MEMORY) + Sections(dev[1], dev[2])
  BY <1>2 DEF Before
<1>4. /\ from \in Nat /\ to \in Nat /\ TOTAL_MEMORY \in Nat /\ dev[1] \in Nat /\ dev[2] \in Nat
      /\ NR_PAGES \in Nat /\ NR_PAGES > 0 /\ from < to /\ LOW_MEMORY \in Nat
  BY <1>1, PageTableAssumption, NrPagesAssumption DEF TOTAL_MEMORY
<1>5. \A x \in Int : D(x) \in Int
  BY Powers, Division
<1>6. D(to - 1) <= D(to) /\ D(0) <= D(from)
  <2>1. to - 1 \in Int /\ to \in Int /\ to - 1 <= to /\ 0 \in Int /\ from \in Int /\ 0 <= from
    BY <1>4
  <2> QED
    BY <2>1, DivMonotone
<1>7. 3 * (Sections(0, TOTAL_MEMORY) + 1 + Sections(dev[1], dev[2])) + 1 < NR_PAGES
  BY DEF EnoughMemory
<1>8. /\ Sections(from, to) = D(to - 1) - D(from) + 1
      /\ Sections(to, TOTAL_MEMORY) = D(TOTAL_MEMORY - 1) - D(to) + 1
      /\ Sections(0, TOTAL_MEMORY) = D(TOTAL_MEMORY - 1) - D(0) + 1
      /\ Sections(dev[1], dev[2]) = D(dev[2] - 1) - D(dev[1]) + 1
  BY DEF Sections
<1>9. /\ D(to - 1) \in Int /\ D(from) \in Int /\ D(TOTAL_MEMORY - 1) \in Int /\ D(to) \in Int
      /\ D(0) \in Int /\ D(dev[2] - 1) \in Int /\ D(dev[1]) \in Int
  BY <1>4, <1>5
<1>10. 3 * Before(4) + 1 < NR_PAGES
  <2> HIDE DEF D
  <2>1. PICK a1, a2, a3, a4, a5, a6, a7 \in Int :
          /\ a1 = D(to - 1) /\ a2 = D(from) /\ a3 = D(TOTAL_MEMORY - 1) /\ a4 = D(to)
          /\ a5 = D(0) /\ a6 = D(dev[2] - 1) /\ a7 = D(dev[1])
    BY <1>9
  <2>2. Before(4) = (a1 - a2 + 1) + (a3 - a4 + 1) + (a6 - a7 + 1)
    BY <1>3, <1>8, <2>1
  <2>3. 3 * ((a3 - a5 + 1) + 1 + (a6 - a7 + 1)) + 1 < NR_PAGES
    BY <1>7, <1>8, <2>1
  <2>4. a1 <= a4 /\ a5 <= a2
    BY <1>6, <2>1
  <2> QED
    BY <1>4, <2>2, <2>3, <2>4
<1>11. FirstPages(mem_map, 1)
  <2>1. mem_map = [p \in Page |-> IF p = 1 THEN 1 ELSE 0]
    BY DEF DumpInit, Init
  <2> QED
    BY <1>4, <2>1 DEF FirstPages, Page
<1>12. Done = 0
  <2>1. call = 1 /\ addr = regions[1].from
    BY DEF DumpInit, Init
  <2>2. Before(1) = 0
    BY DEF Before
  <2>3. Done = 0 + (D(from) - D(from))
    BY <1>2, <2>1, <2>2 DEF Done
  <2> HIDE DEF D
  <2> QED
    BY <1>9, <2>3
<1>13. wild = FALSE
  BY DEF DumpInit, Init
<1> QED
  BY <1>10, <1>11, <1>12, <1>13 DEF MemoryInv

\* Every iteration of alloc_init_pmd finds the pages it needs.
LEMMA StepMemory == BuildInv /\ MemoryInv /\ [DumpNext]_<<vars, dumpVars>> => MemoryInv'
<1> SUFFICES ASSUME BuildInv, MemoryInv, [DumpNext]_<<vars, dumpVars>> PROVE MemoryInv'
  OBVIOUS
<1>1. CASE MapPmd /\ PagingStep
  <2>1. ~mmu /\ UNCHANGED <<regions, mmu, patched>> /\ PagingInv /\ CursorInv /\ ~wild
        /\ ~patched /\ MapsInv
    BY <1>1 DEF MapPmd, PagingStep, dumpVars, BuildInv, CursorInv, RegionsInv, MemoryInv
  <2>2. PICK m \in Nat : FirstPages(mem_map, m) /\ m <= 3 * Done + 1
    BY <2>1 DEF MemoryInv
  <2>3. PICK j \in 0 .. 3 : FirstPages(mem_map', m + j)
    BY <1>1, <2>1, <2>2, MapPmdFirstPages
  <2>4. /\ Done \in Int /\ Done' \in Int /\ Done' >= Done + 1 /\ Done' <= Before(4)
        /\ Before(4)' = Before(4)
    BY <1>1, <2>1, MapPmdDone
  <2>5. Before(4) \in Int /\ 3 * Before(4) + 1 < NR_PAGES /\ NR_PAGES \in Nat
    BY <2>1, BeforeFacts, NrPagesAssumption DEF CursorInv, MemoryInv
  <2>6. PICK n \in Nat : n = m + j
    OBVIOUS
  <2>7. n <= 3 * Done' + 1 /\ n < NR_PAGES
    <3>1. PICK d, e, b : d = Done /\ e = Done' /\ b = Before(4)
      OBVIOUS
    <3>2. d \in Int /\ e \in Int /\ b \in Int /\ e >= d + 1 /\ e <= b /\ m <= 3 * d + 1
          /\ 3 * b + 1 < NR_PAGES /\ NR_PAGES \in Nat
      BY <2>2, <2>4, <2>5, <3>1
    <3>3. n <= 3 * e + 1 /\ n < NR_PAGES
      BY <2>6, <3>2
    <3> QED
      BY <3>1, <3>3
  <2>8. find_free(mem_map') # Null
    <3>1. PICK map : map = mem_map'
      OBVIOUS
    <3>2. FirstPages(map, n) /\ n # NR_PAGES
      BY <2>3, <2>5, <2>6, <2>7, <3>1
    <3>3. find_free(map) = n + 1
      BY <3>2, FirstPagesFree
    <3> QED
      BY <3>1, <3>3 DEF Null
  <2>9. ~wild'
    <3>1. \/ wild' = TRUE /\ find_free(mem_map') = Null
          \/ wild' = FALSE /\ MapsInv'
      BY <1>1, <2>1, MapPmdMaps
    <3> QED
      BY <2>8, <3>1
  <2>10. 3 * Before(4)' + 1 < NR_PAGES
    BY <2>4, <2>5
  <2> QED
    BY <2>3, <2>6, <2>7, <2>9, <2>10 DEF MemoryInv
<1>2. CASE EnableMmu /\ PagingStep
  <2>1. UNCHANGED <<wild, regions>> /\ mmu' = TRUE
    BY <1>2 DEF EnableMmu
  <2>2. Before(4)' = Before(4)
    BY <2>1 DEF Before
  <2> QED
    BY <2>1, <2>2 DEF MemoryInv
<1>3. CASE LaterPage
  <2>1. UNCHANGED <<wild, regions, mmu>> /\ mmu
    BY <1>3 DEF LaterPage, GetFreePage
  <2>2. Before(4)' = Before(4)
    BY <2>1 DEF Before
  <2> QED
    BY <2>1, <2>2 DEF MemoryInv
<1>4. CASE WalkPgd \/ test_walk_pgtable \/ UNCHANGED <<vars, dumpVars>>
  <2>1. UNCHANGED <<mem_map, regions, call, addr, mmu, wild>>
    BY <1>4 DEF WalkPgd, test_walk_pgtable, vars, dumpVars
  <2>2. Before(4)' = Before(4) /\ Done' = Done
    BY <2>1 DEF Before, Done
  <2> QED
    BY <2>1, <2>2 DEF MemoryInv
<1> QED
  BY <1>1, <1>2, <1>3, <1>4 DEF DumpNext, PagingStep

\* With pages for three tables an iteration, as both boards have, no store of
\* paging_init goes through a section or a null page.
THEOREM NoStoreAstray == EnoughMemory => (DumpSpec => []OnlyTablesWalked)
<1> SUFFICES ASSUME EnoughMemory PROVE DumpSpec => []OnlyTablesWalked
  OBVIOUS
<1>1. DumpInit => MemoryInv
  BY InitMemory
<1>2. MemoryInv => OnlyTablesWalked
  BY DEF MemoryInv, OnlyTablesWalked
<1> QED
  BY <1>1, <1>2, InitBuild, DumpBuild, StepMemory, PTL DEF DumpSpec

\* Then the identity mapping is right at every step.
THEOREM IdentityMapping == EnoughMemory => (DumpSpec => []MappedSoFar)
<1>1. (OnlyTablesWalked => MappedSoFar) /\ OnlyTablesWalked => MappedSoFar
  OBVIOUS
<1> QED
  BY <1>1, IdentityMapped, NoStoreAstray, PTL

----------------------------------------------------------------------------
(* What the dump prints. *)

Shown(lines, a) == {l \in lines : l.from <= a /\ a < l.to}

\* These lines show the mapping of the addresses from lo to hi, and no others.
Exact(lines, lo, hi) ==
  /\ \A l \in lines : l.from \in Int /\ l.to \in Int /\ lo <= l.from /\ l.to <= hi
  /\ \A a \in Address : lo <= a /\ a < hi =>
       IF Mapped(a) THEN \E l \in lines : Shown(lines, a) = {l} /\ l.desc = walk_pgtable(a)
                    ELSE Shown(lines, a) = {}

\* A range with one descriptor is one line.
LEMMA PrintExact ==
  ASSUME NEW lo \in Int, NEW hi \in Int, NEW d,
         \A a \in Address : lo <= a /\ a < hi => walk_pgtable(a) = d
  PROVE  Exact(print_pgtable(lo, hi, d), lo, hi)
<1>1. CASE d = Fault
  <2>1. print_pgtable(lo, hi, d) = {}
    BY <1>1 DEF print_pgtable
  <2> QED
    BY <1>1, <2>1 DEF Exact, Shown, Mapped
<1>2. CASE d # Fault
  <2>1. PICK l : l = [from |-> lo, to |-> hi, desc |-> d]
    OBVIOUS
  <2>2. print_pgtable(lo, hi, d) = {l} /\ l.from = lo /\ l.to = hi /\ l.desc = d
    BY <1>2, <2>1 DEF print_pgtable
  <2>3. \A a \in Address : lo <= a /\ a < hi => Shown({l}, a) = {l} /\ Mapped(a)
    BY <1>2, <2>2 DEF Shown, Mapped
  <2> QED
    BY <2>2, <2>3 DEF Exact
<1> QED
  BY <1>1, <1>2

\* Ranges one after the other.
LEMMA UnionExact ==
  ASSUME NEW S, NEW L, NEW N, NEW lo \in Int, NEW hi \in Int,
         \A x \in S : /\ x \in Int /\ N[x] \in Int /\ lo <= x /\ N[x] <= hi
                      /\ Exact(L[x], x, N[x]),
         \A a \in Address : lo <= a /\ a < hi => \E x \in S : x <= a /\ a < N[x],
         \A x, y \in S : x < y => N[x] <= y
  PROVE  Exact(UNION {L[x] : x \in S}, lo, hi)
<1> DEFINE U == UNION {L[x] : x \in S}
<1>1. \A l : l \in U <=> \E x \in S : l \in L[x]
  OBVIOUS
<1>2. \A x \in S : \A l \in L[x] : /\ l.from \in Int /\ l.to \in Int /\ x <= l.from /\ l.to <= N[x]
  BY DEF Exact
<1> HIDE DEF U
<1>3. \A l \in U : l.from \in Int /\ l.to \in Int /\ lo <= l.from /\ l.to <= hi
  <2> SUFFICES ASSUME NEW l \in U
               PROVE  l.from \in Int /\ l.to \in Int /\ lo <= l.from /\ l.to <= hi
    OBVIOUS
  <2>1. PICK x \in S : l \in L[x]
    BY <1>1
  <2>2. x \in Int /\ N[x] \in Int /\ lo <= x /\ N[x] <= hi
    OBVIOUS
  <2>3. l.from \in Int /\ l.to \in Int /\ x <= l.from /\ l.to <= N[x]
    BY <1>2, <2>1
  <2> QED
    BY <2>2, <2>3
<1>4. ASSUME NEW a \in Address, lo <= a, a < hi
      PROVE  IF Mapped(a) THEN \E l \in U : Shown(U, a) = {l} /\ l.desc = walk_pgtable(a)
                          ELSE Shown(U, a) = {}
  <2>1. PICK x \in S : x <= a /\ a < N[x]
    BY <1>4
  <2>2. a \in Int
    BY IndexDigits
  <2>3. Shown(U, a) = Shown(L[x], a)
    <3>1. ASSUME NEW l \in U, l.from <= a, a < l.to PROVE l \in L[x]
      <4>1. PICK y \in S : l \in L[y]
        BY <1>1
      <4>2. l.from \in Int /\ l.to \in Int /\ y <= l.from /\ l.to <= N[y]
        BY <1>2, <4>1
      <4>3. y \in Int /\ N[y] \in Int /\ x \in Int /\ N[x] \in Int
        OBVIOUS
      <4>4. ~(x < y) /\ ~(y < x)
        <5>1. y <= a /\ a < N[y]
          BY <2>2, <3>1, <4>2, <4>3
        <5>2. x < y => N[x] <= y
          OBVIOUS
        <5>3. y < x => N[y] <= x
          OBVIOUS
        <5> QED
          BY <2>1, <2>2, <4>3, <5>1, <5>2, <5>3
      <4>5. x = y
        BY <4>3, <4>4
      <4> QED
        BY <4>1, <4>5
    <3>2. \A l \in L[x] : l \in U
      BY <1>1
    <3> QED
      BY <3>1, <3>2 DEF Shown
  <2>4. IF Mapped(a) THEN \E l \in L[x] : Shown(L[x], a) = {l} /\ l.desc = walk_pgtable(a)
                     ELSE Shown(L[x], a) = {}
    BY <2>1 DEF Exact
  <2> QED
    BY <1>1, <2>3, <2>4
<1> QED
  BY <1>3, <1>4 DEF Exact, U

\* A descriptor that links no table translates the address.
LEMMA WalkStops ==
  ASSUME Shape(table), NEW a \in Address, NEW n \in Level, NEW f \in Frame, At(table, n, a, f),
         table[f][index(n, a)].type # "table"
  PROVE  walk_pgtable(a) = table[f][index(n, a)]
BY WalkFindsLeaf, WalkIsIn

\* walk_pte prints a line for each page.
LEMMA WalkPteExact ==
  ASSUME Shape(table), NEW f \in Frame, NEW start \in Nat, NEW end \in Nat,
         \A a \in Nat : start <= a /\ a < end => a \in Address /\ At(table, 0, a, f)
  PROVE  Exact(walk_pte(f, start, end), start, end)
<1> DEFINE S == start .. end - 1
           L == [x \in S |-> print_pgtable(x, x + 1, table[f][index(0, x)])]
           N == [x \in S |-> x + 1]
<1>1. walk_pte(f, start, end) = UNION {L[x] : x \in S}
  BY DEF walk_pte
<1>2. ASSUME NEW x \in S
      PROVE  /\ x \in Int /\ N[x] \in Int /\ start <= x /\ N[x] <= end
             /\ Exact(L[x], x, N[x])
  <2>1. x \in Nat /\ start <= x /\ x < end /\ x \in Address /\ At(table, 0, x, f) /\ 0 \in Level
    BY DEF Level
  <2>2. table[f][index(0, x)].type # "table"
    BY <2>1, KindsFacts DEF Shape
  <2>3. walk_pgtable(x) = table[f][index(0, x)]
    BY <2>1, <2>2, WalkStops
  <2>4. \A a \in Address : x <= a /\ a < x + 1 => a = x
    BY <2>1, IndexDigits
  <2>5. Exact(print_pgtable(x, x + 1, table[f][index(0, x)]), x, x + 1)
    BY <2>1, <2>3, <2>4, PrintExact
  <2> QED
    BY <2>1, <2>5
<1>3. \A a \in Address : start <= a /\ a < end => \E x \in S : x <= a /\ a < N[x]
  <2>1. \A a \in Address : start <= a /\ a < end => a \in S /\ a <= a /\ a < N[a]
    BY IndexDigits
  <2> QED
    BY <2>1
<1>4. \A x, y \in S : x < y => N[x] <= y
  OBVIOUS
<1> HIDE DEF S, L, N
<1>5. start \in Int /\ end \in Int
  OBVIOUS
<1>6. \A x \in S : /\ x \in Int /\ N[x] \in Int /\ start <= x /\ N[x] <= end
                  /\ Exact(L[x], x, N[x])
  BY <1>2
<1>7. Exact(UNION {L[x] : x \in S}, start, end)
  BY <1>3, <1>4, <1>5, <1>6, UnionExact
<1> QED
  BY <1>1, <1>7

\* The boundaries: what is before the next one has the same quotient.
LEMMA AddrEnd ==
  ASSUME NEW a \in Nat, NEW end \in Nat, a < end, NEW size \in Nat, size > 0,
         NEW next, next = addr_end(a, end, size)
  PROVE  /\ next \in Nat /\ a < next /\ next <= end
         /\ \A b \in Nat : a <= b /\ b < next => b \div size = a \div size
         /\ \A b \in Nat : b < end /\ b \div size = a \div size => b < next
<1> DEFINE q == a \div size
           r == a % size
           top == (q + 1) * size
<1>1. q \in Int /\ r \in 0 .. size - 1 /\ a = size * q + r
  BY Division
<1>2. top = size * q + size /\ size * q \in Int
  BY <1>1
<1>3. top \in Int /\ a < top
  BY <1>1, <1>2
<1>4. next = IF top - 1 < end - 1 THEN top ELSE end
  BY DEF addr_end
<1> HIDE DEF q, r, top
<1>5. next \in Nat /\ a < next /\ next <= end /\ next <= top
  BY <1>3, <1>4
<1>6. ASSUME NEW b \in Nat, a <= b, b < next PROVE b \div size = q
  <2>1. PICK s \in Int : s = b - size * q
    BY <1>2
  <2>2. s \in 0 .. size - 1 /\ b = size * q + s
    BY <1>1, <1>2, <1>5, <1>6, <2>1
  <2> QED
    BY <1>1, <2>2, DivUnique
<1>7. ASSUME NEW b \in Nat, b < end, b \div size = q PROVE b < next
  <2>1. b \in Int
    OBVIOUS
  <2>2. b % size \in 0 .. size - 1 /\ b = size * (b \div size) + (b % size)
    BY <2>1, Division
  <2>3. PICK s \in 0 .. size - 1 : s = b % size
    BY <2>2
  <2>4. b = size * q + s
    BY <1>7, <2>2, <2>3
  <2>5. b < top
    BY <1>2, <2>3, <2>4
  <2> QED
    BY <1>3, <1>4, <1>7, <2>5
<1> QED
  BY <1>5, <1>6, <1>7 DEF q

\* The same for a section.
LEMMA PmdAddrEnd ==
  ASSUME NEW a \in Nat, NEW end \in Nat, a < end, NEW next, next = pmd_addr_end(a, end)
  PROVE  /\ next \in Nat /\ a < next /\ next <= end
         /\ \A b \in Nat : a <= b /\ b < next => b \div PTRS = a \div PTRS
         /\ \A b \in Nat : b < end /\ b \div PTRS = a \div PTRS => b < next
<1>1. PTRS \in Nat /\ PTRS > 0
  BY Powers
<1>2. next = addr_end(a, end, PTRS)
  BY DEF pmd_addr_end, addr_end
<1> QED
  BY <1>1, <1>2, AddrEnd

\* Before the next boundary of a level its index stays the same.
LEMMA SpanAddrEnd ==
  ASSUME NEW j \in {2, 3}, NEW a \in Nat, NEW end \in Nat, a < end,
         NEW next, next = addr_end(a, end, Span[j])
  PROVE  /\ next \in Nat /\ a < next /\ next <= end
         /\ \A b \in Nat : a <= b /\ b < next => index(j, b) = index(j, a)
<1>1. PICK size : size = Span[j]
  OBVIOUS
<1>2. size \in Nat /\ size > 0 /\ next = addr_end(a, end, size)
  BY <1>1, Powers
<1>3. /\ next \in Nat /\ a < next /\ next <= end
      /\ \A b \in Nat : a <= b /\ b < next => b \div size = a \div size
  BY <1>2, AddrEnd, ZenonT(60)
<1>4. \A b : index(j, b) = (b \div size) % PTRS
  BY <1>1 DEF index
<1> QED
  BY <1>3, <1>4

\* The iterations of walk_pmd: each begins where the one before ends.
LEMMA PmdStarts ==
  ASSUME NEW start \in Nat, NEW end \in Nat, start < end,
         NEW S, S = {x \in start .. end - 1 : x = start \/ x % PTRS = 0}
  PROVE  /\ \A a \in Nat : start <= a /\ a < end =>
              \E x \in S : x <= a /\ a < pmd_addr_end(x, end)
         /\ \A x, y \in S : x < y => pmd_addr_end(x, end) <= y
<1> DEFINE P == PTRS
<1>1. P \in Nat /\ P > 0
  BY Powers
<1>2. ASSUME NEW a \in Nat, start <= a, a < end
      PROVE  \E x \in S : x <= a /\ a < pmd_addr_end(x, end)
  <2> DEFINE q == a \div P
             x0 == P * q
  <2>1. q \in Int /\ a % P \in 0 .. P - 1 /\ a = x0 + (a % P)
    BY <1>1, Division
  <2>2. x0 \in Int
    BY <1>1, <2>1
  <2>3. (x0 + 0) \div P = q /\ (x0 + 0) % P = 0
    <3>1. 0 \in 0 .. P - 1
      BY <1>1
    <3> HIDE DEF q, P
    <3> QED
      BY <1>1, <2>1, <3>1, DivUnique
  <2>4. x0 <= a /\ x0 + 0 = x0
    <3>1. PICK s \in 0 .. P - 1 : s = a % P
      BY <2>1
    <3> HIDE DEF x0
    <3> QED
      BY <2>1, <2>2, <3>1
  <2> HIDE DEF x0
  <2>5. CASE start <= x0
    <3>1. x0 \in S /\ x0 \in Nat /\ x0 < end
      BY <1>2, <2>2, <2>3, <2>4, <2>5
    <3>2. a < pmd_addr_end(x0, end)
      BY <1>2, <2>3, <2>4, <3>1, PmdAddrEnd
    <3> QED
      BY <2>4, <3>1, <3>2
  <2>6. CASE ~(start <= x0)
    <3>1. start \in S
      OBVIOUS
    <3>2. start \div P = q
      <4>1. x0 \div P <= start \div P
        BY <2>2, <2>6, DivMonotone
      <4>2. start \div P <= a \div P
        BY <1>2, DivMonotone
      <4>3. x0 \div P = q /\ start \div P \in Int
        BY <1>1, <2>3, <2>4, Division
      <4> QED
        BY <2>1, <4>1, <4>2, <4>3
    <3>3. a < pmd_addr_end(start, end)
      BY <1>2, <3>2, PmdAddrEnd
    <3> QED
      BY <1>2, <3>1, <3>3
  <2> QED
    BY <2>5, <2>6
<1>3. ASSUME NEW x \in S, NEW y \in S, x < y PROVE pmd_addr_end(x, end) <= y
  <2>1. x \in Nat /\ y \in Nat /\ x < end /\ y < end /\ y % P = 0
    BY <1>3
  <2>2. PICK next : next = pmd_addr_end(x, end)
    OBVIOUS
  <2>3. /\ next \in Nat /\ \A b \in Nat : x <= b /\ b < next => b \div P = x \div P
    BY <2>1, <2>2, PmdAddrEnd
  <2>4. CASE y < next
    <3>1. y \div P = x \div P
      BY <1>3, <2>1, <2>3, <2>4
    <3>2. PICK q, r : q = x \div P /\ r = x % P
      OBVIOUS
    <3>3. q \in Int /\ r \in 0 .. P - 1 /\ x = P * q + r
      BY <1>1, <2>1, <3>2, Division
    <3>4. y = P * (y \div P) + (y % P)
      BY <1>1, <2>1, Division
    <3>5. y = P * q + 0
      BY <2>1, <3>1, <3>2, <3>4
    <3>6. P * q \in Int
      BY <1>1, <3>3
    <3> QED
      BY <1>3, <2>1, <3>3, <3>5, <3>6
  <2> QED
    BY <2>1, <2>2, <2>3, <2>4
<1> QED
  BY <1>2, <1>3

\* walk_pmd prints a section, or the pages behind it.
LEMMA WalkPmdExact ==
  ASSUME PagingInv, Shape(table), NEW f \in Frame, NEW start \in Nat, NEW end \in Nat, start < end,
         \A a \in Nat : start <= a /\ a < end => a \in Address /\ At(table, 1, a, f)
  PROVE  Exact(walk_pmd(f, start, end), start, end)
<1> DEFINE S == {x \in start .. end - 1 : x = start \/ x % PTRS = 0}
           L == [x \in S |-> LET d == table[f][index(1, x)]
                                 next == pmd_addr_end(x, end)
                             IN  IF d.type \in {"fault", "sect"} THEN print_pgtable(x, next, d)
                                                                 ELSE walk_pte(d.out, x, next)]
           N == [x \in S |-> pmd_addr_end(x, end)]
<1>1. walk_pmd(f, start, end) = UNION {L[x] : x \in S}
  BY DEF walk_pmd
<1>2. 1 \in Level /\ 0 \in Level /\ Above(0) = 1 /\ PTRS \in Nat /\ PTRS > 0
  BY Levels, Powers DEF Level
<1>3. ASSUME NEW x \in S
      PROVE  /\ x \in Int /\ N[x] \in Int /\ start <= x /\ N[x] <= end
             /\ Exact(L[x], x, N[x])
  <2>1. x \in Nat /\ start <= x /\ x < end /\ x \in Address /\ At(table, 1, x, f)
    OBVIOUS
  <2>2. PICK next : next = pmd_addr_end(x, end)
    OBVIOUS
  <2>3. PICK d : d = table[f][index(1, x)]
    OBVIOUS
  <2>4. /\ N[x] = next
        /\ L[x] = IF d.type \in {"fault", "sect"} THEN print_pgtable(x, next, d)
                                                  ELSE walk_pte(d.out, x, next)
    BY <2>2, <2>3
  <2> HIDE DEF L, N, S
  <2>5. /\ next \in Nat /\ x < next /\ next <= end
        /\ \A b \in Nat : x <= b /\ b < next => b \div PTRS = x \div PTRS
    BY <2>1, <2>2, PmdAddrEnd
  <2>6. ASSUME NEW a \in Nat, x <= a, a < next
        PROVE  a \in Address /\ At(table, 1, a, f) /\ table[f][index(1, a)] = d
    <3>1. start <= a /\ a < end
      BY <2>1, <2>5, <2>6
    <3>2. a \in Address /\ At(table, 1, a, f)
      BY <3>1
    <3>3. index(1, a) = index(1, x)
      BY <2>1, <2>5, <2>6, <3>2, IndexDigits
    <3> QED
      BY <2>3, <3>2, <3>3
  <2>7. \A a \in Address : a \in Nat
    BY IndexDigits
  <2>8. CASE d.type \in {"fault", "sect"}
    <3>1. \A a \in Address : x <= a /\ a < next => walk_pgtable(a) = d
      BY <1>2, <2>6, <2>7, <2>8, WalkStops
    <3>2. Exact(print_pgtable(x, next, d), x, next)
      BY <2>1, <2>5, <3>1, PrintExact
    <3> QED
      BY <2>1, <2>4, <2>5, <2>8, <3>2
  <2>9. CASE d.type \notin {"fault", "sect"}
    <3>1. d.type = "table"
      <4>1. d.type \in Kinds(1)
        BY <1>2, <2>1, <2>3 DEF Shape
      <4> QED
        BY <2>9, <4>1 DEF Kinds
    <3>2. PICK p \in Page : d = TableDesc(p)
      <4>1. index(1, x) \in Index
        BY <1>2, <2>1, IndexAt
      <4> QED
        BY <2>3, <3>1, <4>1 DEF PagingInv, Tree
    <3>3. d.out = p /\ p \in Frame
      BY <3>2, Descriptors, Frames
    <3>4. ASSUME NEW a \in Nat, x <= a, a < next PROVE a \in Address /\ At(table, 0, a, p)
      <4>1. a \in Address /\ At(table, 1, a, f) /\ table[f][index(1, a)] = TableDesc(p)
        BY <2>6, <3>2, <3>4
      <4>2. PICK n \in Level : n = 0
        BY <1>2
      <4>3. n # 3 /\ At(table, Above(n), a, f) /\ table[f][index(Above(n), a)] = TableDesc(p)
        BY <1>2, <4>1, <4>2
      <4>4. At(table, n, a, p)
        BY <4>3, AtDown
      <4> QED
        BY <4>1, <4>2, <4>4
    <3>5. Exact(walk_pte(p, x, next), x, next)
      BY <2>1, <2>5, <3>3, <3>4, WalkPteExact
    <3> QED
      BY <2>1, <2>4, <2>5, <2>9, <3>3, <3>5
  <2> QED
    BY <2>8, <2>9
<1>4. /\ \A a \in Address : start <= a /\ a < end => \E x \in S : x <= a /\ a < N[x]
      /\ \A x, y \in S : x < y => N[x] <= y
  <2>1. /\ \A a \in Nat : start <= a /\ a < end =>
             \E x \in S : x <= a /\ a < pmd_addr_end(x, end)
        /\ \A x, y \in S : x < y => pmd_addr_end(x, end) <= y
    <3>1. PICK T : T = S
      OBVIOUS
    <3> HIDE DEF L, N, S
    <3>2. T = {x \in start .. end - 1 : x = start \/ x % PTRS = 0}
      BY <3>1 DEF S
    <3>3. /\ \A a \in Nat : start <= a /\ a < end =>
               \E x \in T : x <= a /\ a < pmd_addr_end(x, end)
          /\ \A x, y \in T : x < y => pmd_addr_end(x, end) <= y
      BY <3>2, PmdStarts
    <3> QED
      BY <3>1, <3>3
  <2>2. \A x \in S : N[x] = pmd_addr_end(x, end)
    OBVIOUS
  <2>3. \A a \in Address : a \in Nat
    BY IndexDigits
  <2> HIDE DEF S, L, N
  <2> QED
    BY <2>1, <2>2, <2>3
<1> HIDE DEF S, L, N
<1>5. start \in Int /\ end \in Int
  OBVIOUS
<1>6. \A x \in S : /\ x \in Int /\ N[x] \in Int /\ start <= x /\ N[x] <= end
                  /\ Exact(L[x], x, N[x])
  BY <1>3
<1>7. Exact(UNION {L[x] : x \in S}, start, end)
  BY <1>4, <1>5, <1>6, UnionExact
<1> QED
  BY <1>1, <1>7

\* A walk that ends meets one pud.
LEMMA WalkPudExact ==
  ASSUME PagingInv, Shape(table), NEW f \in Frame, NEW start \in Nat, NEW end \in Nat, start < end,
         \A a \in Nat : start <= a /\ a < end => a \in Address /\ At(table, 2, a, f),
         walk_pud(f, start, end).ends
  PROVE  Exact(walk_pud(f, start, end).lines, start, end)
<1>1. PICK d : d = table[f][index(2, start)]
  OBVIOUS
<1>2. PICK next : next = addr_end(start, end, Span[2])
  OBVIOUS
<1>3. /\ next = end
      /\ walk_pud(f, start, end).lines = IF d.type = "table" THEN walk_pmd(d.out, start, end)
                                                             ELSE print_pgtable(start, end, d)
  BY <1>1, <1>2 DEF walk_pud
<1>5. \A b \in Nat : start <= b /\ b < end => index(2, b) = index(2, start)
  <2>1. \A b \in Nat : start <= b /\ b < next => index(2, b) = index(2, start)
    BY <1>2, SpanAddrEnd
  <2> QED
    BY <1>3, <2>1
<1>6. PICK n \in Level : n = 1
  BY DEF Level
<1>7. Above(n) = 2 /\ 2 \in Level /\ n # 3
  BY <1>6, Levels DEF Level
<1>8. ASSUME NEW a \in Nat, start <= a, a < end
      PROVE  a \in Address /\ At(table, 2, a, f) /\ table[f][index(2, a)] = d
  <2>1. index(2, a) = index(2, start)
    BY <1>5, <1>8
  <2> QED
    BY <1>1, <1>8, <2>1
<1>9. start \in Address /\ At(table, 2, start, f)
  BY <1>8
<1>10. CASE d.type = "table"
  <2>1. PICK p \in Page : d = TableDesc(p)
    <3>1. index(2, start) \in Index
      BY <1>7, <1>9, IndexAt
    <3> QED
      BY <1>1, <1>10, <3>1 DEF PagingInv, Tree
  <2>2. d.out = p /\ p \in Frame
    BY <2>1, Descriptors, Frames
  <2>3. ASSUME NEW a \in Nat, start <= a, a < end PROVE a \in Address /\ At(table, 1, a, p)
    <3>1. a \in Address /\ At(table, 2, a, f) /\ table[f][index(2, a)] = TableDesc(p)
      BY <1>8, <2>1, <2>3
    <3>2. At(table, Above(n), a, f) /\ table[f][index(Above(n), a)] = TableDesc(p)
      BY <1>7, <3>1
    <3>3. At(table, n, a, p)
      BY <1>7, <3>2, AtDown
    <3> QED
      BY <1>6, <3>1, <3>3
  <2>4. Exact(walk_pmd(p, start, end), start, end)
    BY <2>2, <2>3, WalkPmdExact
  <2> QED
    BY <1>3, <1>10, <2>2, <2>4
<1>11. CASE d.type # "table"
  <2>1. \A a \in Address : a \in Nat
    BY IndexDigits
  <2>2. \A a \in Address : start <= a /\ a < end => walk_pgtable(a) = d
    BY <1>7, <1>8, <1>11, <2>1, WalkStops
  <2>3. Exact(print_pgtable(start, end, d), start, end)
    BY <2>2, PrintExact
  <2> QED
    BY <1>3, <1>11, <2>3
<1> QED
  BY <1>10, <1>11

\* What an iteration of walk_pgd prints, if it ends.
LEMMA WalkPgdExact ==
  ASSUME PagingInv, Shape(table), NEW start \in Nat, NEW end \in Nat, start < end,
         \A a \in Nat : start <= a /\ a < end => a \in Address,
         NEW next, next = addr_end(start, end, Span[3]),
         NEW d, d = table[Pgd][index(3, start)],
         NEW sub, sub = IF d = Fault THEN [lines |-> {}, ends |-> TRUE]
                                     ELSE walk_pud(d.out, start, next)
  PROVE  /\ next \in Nat /\ start < next /\ next <= end
         /\ sub.ends \in BOOLEAN
         /\ sub.ends => Exact(sub.lines, start, next)
<1>2. /\ next \in Nat /\ start < next /\ next <= end
      /\ \A b \in Nat : start <= b /\ b < next => index(3, b) = index(3, start)
  BY SpanAddrEnd
<1>3. sub.ends \in BOOLEAN
  BY DEF walk_pud
<1>4. PICK n \in Level : n = 2
  BY DEF Level
<1>5. Above(n) = 3 /\ 3 \in Level /\ n # 3 /\ Pgd \in Frame
  BY <1>4, Levels, Frames DEF Level
<1>6. ASSUME NEW a \in Nat, start <= a, a < next
      PROVE  a \in Address /\ At(table, 3, a, Pgd) /\ table[Pgd][index(3, a)] = d
  <2>2. index(3, a) = index(3, start)
    BY <1>2, <1>6
  <2>3. a \in Address
    BY <1>2, <1>6
  <2> QED
    BY <2>2, <2>3, AtRoot
<1>7. start \in Address /\ At(table, 3, start, Pgd)
  BY <1>2, <1>6
<1>8. ASSUME sub.ends PROVE Exact(sub.lines, start, next)
  <2>1. CASE d = Fault
    <3>1. \A a \in Address : a \in Nat
      BY IndexDigits
    <3>2. d.type # "table"
      BY <2>1, Descriptors
    <3>3. \A a \in Address : start <= a /\ a < next => walk_pgtable(a) = d
      BY <1>5, <1>6, <3>1, <3>2, WalkStops
    <3>4. Exact(print_pgtable(start, next, d), start, next)
      BY <1>2, <3>3, PrintExact
    <3>5. sub.lines = print_pgtable(start, next, d)
      BY <2>1 DEF print_pgtable
    <3> QED
      BY <3>4, <3>5
  <2>2. CASE d # Fault
    <3>1. index(3, start) \in Index
      BY <1>5, <1>7, IndexAt
    <3>2. d.type = "table"
      <4>1. d.type \in Kinds(3)
        BY <1>5, <1>7 DEF Shape
      <4>2. d.type \in {"fault", "table"}
        BY <4>1 DEF Kinds
      <4>3. d.type # "fault"
        BY <1>5, <2>2, <3>1 DEF Shape
      <4> QED
        BY <4>2, <4>3
    <3>3. PICK p \in Page : d = TableDesc(p)
      BY <1>5, <3>1, <3>2 DEF PagingInv, Tree
    <3>4. d.out = p /\ p \in Frame
      BY <3>3, Descriptors, Frames
    <3>5. ASSUME NEW a \in Nat, start <= a, a < next PROVE a \in Address /\ At(table, 2, a, p)
      <4>1. a \in Address /\ At(table, 3, a, Pgd) /\ table[Pgd][index(3, a)] = TableDesc(p)
        BY <1>6, <3>3, <3>5
      <4>2. At(table, Above(n), a, Pgd) /\ table[Pgd][index(Above(n), a)] = TableDesc(p)
        BY <1>5, <4>1
      <4>3. At(table, n, a, p)
        BY <1>5, <4>2, AtDown
      <4> QED
        BY <1>4, <4>1, <4>3
    <3>6. sub = walk_pud(p, start, next)
      BY <2>2, <3>4
    <3>7. walk_pud(p, start, next).ends
      BY <1>8, <3>6
    <3>8. Exact(walk_pud(p, start, next).lines, start, next)
      BY <1>2, <3>4, <3>5, <3>7, WalkPudExact
    <3> QED
      BY <3>6, <3>8
  <2> QED
    BY <2>1, <2>2
<1> QED
  BY <1>2, <1>3, <1>8

\* Lines of one range after those of another.
LEMMA ExactAppend ==
  ASSUME NEW A, NEW B, NEW lo \in Int, NEW mid \in Int, NEW hi \in Int, lo <= mid, mid <= hi,
         Exact(A, lo, mid), Exact(B, mid, hi)
  PROVE  Exact(A \cup B, lo, hi)
<1>1. \A l \in A : l.from \in Int /\ l.to \in Int /\ lo <= l.from /\ l.to <= mid
  BY DEF Exact
<1>2. \A l \in B : l.from \in Int /\ l.to \in Int /\ mid <= l.from /\ l.to <= hi
  BY DEF Exact
<1>3. \A l \in A \cup B : l.from \in Int /\ l.to \in Int /\ lo <= l.from /\ l.to <= hi
  BY <1>1, <1>2
<1>4. ASSUME NEW a \in Address, lo <= a, a < hi
      PROVE  IF Mapped(a)
               THEN \E l \in A \cup B : Shown(A \cup B, a) = {l} /\ l.desc = walk_pgtable(a)
               ELSE Shown(A \cup B, a) = {}
  <2>0. a \in Int
    BY IndexDigits
  <2>1. CASE a < mid
    <3>1. \A l \in B : ~(l.from <= a)
      BY <1>2, <2>0, <2>1
    <3>2. Shown(A \cup B, a) = Shown(A, a)
      BY <3>1 DEF Shown
    <3> QED
      BY <1>4, <2>1, <3>2 DEF Exact
  <2>2. CASE ~(a < mid)
    <3>1. \A l \in A : ~(a < l.to)
      BY <1>1, <2>0, <2>2
    <3>2. Shown(A \cup B, a) = Shown(B, a)
      BY <3>1 DEF Shown
    <3>3. mid <= a
      BY <2>0, <2>2
    <3> QED
      BY <1>4, <3>2, <3>3 DEF Exact
  <2> QED
    BY <2>1, <2>2
<1> QED
  BY <1>3, <1>4 DEF Exact

\* The lines of a call of walk_pgd, and where it stands.
Lines(k) == {x.line : x \in {y \in printed : y.walk = k}}
Reached(k) == CASE k < dump -> Walks[k].to [] k = dump -> cursor [] OTHER -> Walks[k].from
Shows(k) == Exact(Lines(k), Walks[k].from, Reached(k))

DumpInv ==
  /\ TOTAL_MEMORY <= PTRS * PTRS * PTRS * PTRS
  /\ dump \in 0 .. 4 /\ cursor \in Nat /\ patched \in BOOLEAN
  /\ Dumping => Walks[dump].from <= cursor /\ cursor < Walks[dump].to
  /\ ~mmu => dump \in {0, 1} /\ cursor = 0 /\ printed = {} /\ ~patched
  /\ ~patched => dump # 4 /\ (dump = 3 => cursor = Walks[3].from)
  /\ \A x \in printed : x = [walk |-> x.walk, line |-> x.line]
  /\ ~wild /\ ~runaway => \A k \in 1 .. 3 : (patched => k = 3) => Shows(k)

\* The ranges of the three calls lie in the address space.
LEMMA WalksFacts ==
  ASSUME RegionsInv, TOTAL_MEMORY <= PTRS * PTRS * PTRS * PTRS
  PROVE  /\ Len(Walks) = 3 /\ Walks[1].from = 0
         /\ \A k \in 1 .. 3 : /\ Walks[k].from \in Nat /\ Walks[k].to \in Nat
                              /\ Walks[k].from < Walks[k].to
                              /\ Walks[k].to <= PTRS * PTRS * PTRS * PTRS
<1>1. TOTAL_MEMORY \in Nat /\ 0 < TOTAL_MEMORY
  BY NrPagesAssumption DEF TOTAL_MEMORY
<1>2. /\ Len(Walks) = 3
      /\ Walks[1].from = 0 /\ Walks[1].to = TOTAL_MEMORY
      /\ Walks[2].from = regions[3].from /\ Walks[2].to = regions[3].to
      /\ Walks[3].from = regions[1].to - 1 /\ Walks[3].to = regions[1].to - 1 + 1
  BY DEF Walks, readonly_page
<1>3. \A k \in 1 .. 3 : k = 1 \/ k = 2 \/ k = 3
  OBVIOUS
<1>4. PICK top : top = PTRS * PTRS * PTRS * PTRS
  OBVIOUS
<1>5. /\ regions[1].from \in Nat /\ regions[1].to \in Nat /\ regions[1].from < regions[1].to
      /\ regions[1].to <= top
      /\ regions[3].from \in Nat /\ regions[3].to \in Nat /\ regions[3].from < regions[3].to
      /\ regions[3].to <= top
  BY <1>4 DEF RegionsInv
<1> QED
  BY <1>1, <1>2, <1>3, <1>4, <1>5

\* The mapping of an empty range: any lines that keep to it.
LEMMA ShowsNothing ==
  ASSUME NEW k \in 1 .. 3, Walks'[k].from \in Int, Reached(k)' = Walks'[k].from,
         \A l \in Lines(k)' : /\ l.from \in Int /\ l.to \in Int
                              /\ Walks'[k].from <= l.from /\ l.to <= Walks'[k].from
  PROVE  Shows(k)'
<1>1. PICK lo : lo = Walks'[k].from
  OBVIOUS
<1>2. lo \in Int
  BY <1>1
<1>3. \A a \in Address : ~(lo <= a /\ a < lo)
  BY <1>2, IndexDigits
<1> QED
  BY <1>1, <1>2, <1>3 DEF Shows, Exact

\* The same lines for the same table.
LEMMA ExactKept ==
  ASSUME NEW L, NEW lo, NEW hi, Exact(L, lo, hi), UNCHANGED table
  PROVE  /\ \A l \in L : l.from \in Int /\ l.to \in Int /\ lo <= l.from /\ l.to <= hi
         /\ \A a \in Address : lo <= a /\ a < hi =>
              IF Mapped(a)' THEN \E l \in L : Shown(L, a) = {l} /\ l.desc = walk_pgtable(a)'
                            ELSE Shown(L, a) = {}
<1>1. \A a : walk_pgtable(a)' = walk_pgtable(a) /\ Mapped(a)' = Mapped(a)
  BY DEF Mapped, walk_pgtable, Desc
<1> QED
  BY <1>1 DEF Exact

\* A call whose lines and position are known shows the mapping still.
LEMMA ShowsKept ==
  ASSUME NEW k, NEW L, NEW lo, NEW hi, Exact(L, lo, hi), UNCHANGED table,
         Lines(k)' = L, Walks'[k].from = lo, Reached(k)' = hi
  PROVE  Shows(k)'
<1>1. /\ \A l \in L : l.from \in Int /\ l.to \in Int /\ lo <= l.from /\ l.to <= hi
      /\ \A a \in Address : lo <= a /\ a < hi =>
           IF Mapped(a)' THEN \E l \in L : Shown(L, a) = {l} /\ l.desc = walk_pgtable(a)'
                         ELSE Shown(L, a) = {}
  BY ExactKept
<1> QED
  BY <1>1 DEF Shows, Exact

\* Nothing is dumped while paging_init builds the tables.
LEMMA InitDump == DumpInit => DumpInv
<1> SUFFICES ASSUME DumpInit PROVE DumpInv
  OBVIOUS
<1>1. RegionsInv
  BY InitCursor DEF DumpInit, CursorInv
<1>2. TOTAL_MEMORY <= PTRS * PTRS * PTRS * PTRS
  <2>1. PICK dev \in DeviceRegions : TRUE
    BY DEF DumpInit, Init
  <2>2. PICK top : top = PTRS * PTRS * PTRS * PTRS
    OBVIOUS
  <2>3. top \in Int
    <3>1. PTRS \in Int /\ PTRS * PTRS \in Int
      BY PageTableAssumption
    <3>2. PTRS * PTRS * PTRS \in Int
      BY <3>1
    <3> QED
      BY <2>2, <3>1, <3>2
  <2>4. TOTAL_MEMORY <= dev[1] /\ dev[1] < dev[2] /\ dev[2] <= top
    BY <2>2, PageTableAssumption
  <2>5. TOTAL_MEMORY \in Nat /\ dev[1] \in Nat /\ dev[2] \in Nat
    BY PageTableAssumption, NrPagesAssumption DEF TOTAL_MEMORY
  <2> QED
    BY <2>2, <2>3, <2>4, <2>5
<1>3. /\ Walks[1].from = 0 /\ 0 < Walks[1].to /\ Len(Walks) = 3
      /\ \A k \in 1 .. 3 : Walks[k].from \in Nat
  BY <1>1, <1>2, WalksFacts
<1>4. /\ dump \in {0, 1} /\ cursor = 0 /\ printed = {} /\ patched = FALSE /\ runaway = FALSE
  BY DEF DumpInit
<1>5. ASSUME NEW k \in 1 .. 3 PROVE Shows(k)
  <2>1. Lines(k) = {}
    BY <1>4 DEF Lines
  <2>2. Reached(k) = Walks[k].from
    BY <1>3, <1>4 DEF Reached
  <2>3. PICK lo : lo = Walks[k].from
    OBVIOUS
  <2>4. lo \in Int
    BY <1>3, <2>3
  <2>5. \A a \in Address : ~(lo <= a /\ a < lo)
    BY <2>4, IndexDigits
  <2> QED
    BY <2>1, <2>2, <2>3, <2>5 DEF Shows, Exact
<1>6. Dumping => Walks[dump].from <= cursor /\ cursor < Walks[dump].to
  <2>1. Dumping => dump = 1
    BY <1>4 DEF Dumping
  <2> QED
    BY <1>3, <1>4, <2>1
<1>7. dump # 4 /\ dump # 3 /\ dump \in 0 .. 4
  BY <1>4
<1> HIDE DEF DumpInit
<1> QED
  BY <1>2, <1>4, <1>5, <1>6, <1>7 DEF DumpInv

\* The ranges are those of the regions.
LEMMA WalksKept == UNCHANGED regions => Walks' = Walks
BY DEF Walks, readonly_page

\* paging_init runs before anything is printed.
LEMMA PagingDump ==
  ASSUME BuildInv, DumpInv, PagingStep PROVE DumpInv'
<1>1. ~mmu
  BY DEF PagingStep, MapPmd, EnableMmu, BuildInv, CursorInv, RegionsInv
<1>2. /\ dump' = dump /\ dump \in {0, 1} /\ cursor' = 0 /\ printed' = {}
      /\ patched' = FALSE /\ runaway' = runaway
  BY <1>1 DEF DumpInv, PagingStep, dumpVars
<1>3. Walks' = Walks
  BY WalksKept DEF PagingStep, MapPmd, EnableMmu
<1>4. /\ Walks[1].from = 0 /\ 0 < Walks[1].to /\ Len(Walks) = 3
      /\ \A k \in 1 .. 3 : Walks[k].from \in Nat
      /\ TOTAL_MEMORY <= PTRS * PTRS * PTRS * PTRS
  BY WalksFacts DEF DumpInv, BuildInv, CursorInv
<1>5. ASSUME NEW k \in 1 .. 3 PROVE Shows(k)'
  <2>1. Lines(k)' = {}
    BY <1>2 DEF Lines
  <2>2. Reached(k)' = Walks'[k].from
    BY <1>2, <1>3, <1>4 DEF Reached
  <2> QED
    BY <1>3, <1>4, <2>1, <2>2, ShowsNothing
<1>6. (Dumping => Walks[dump].from <= cursor /\ cursor < Walks[dump].to)'
  <2>1. Dumping' => dump' = 1
    BY <1>2 DEF Dumping
  <2> QED
    BY <1>2, <1>3, <1>4, <2>1
<1>7. dump' # 4 /\ dump' # 3 /\ dump' \in 0 .. 4 /\ dump' \in {0, 1}
  BY <1>2
<1>8. \A x \in printed' : x = [walk |-> x.walk, line |-> x.line]
  BY <1>2
<1> QED
  BY <1>2, <1>4, <1>5, <1>6, <1>7, <1>8 DEF DumpInv

\* A step that leaves the table and the dump alone.
LEMMA IdleDump ==
  ASSUME DumpInv, UNCHANGED <<table, regions, mmu, wild, dumpVars>> PROVE DumpInv'
<1>1. Walks' = Walks
  BY WalksKept
<1>2. ASSUME NEW k \in 1 .. 3, Shows(k) PROVE Shows(k)'
  <2>1. PICK L, lo, hi : L = Lines(k) /\ lo = Walks[k].from /\ hi = Reached(k)
    OBVIOUS
  <2>2. Lines(k)' = L /\ Reached(k)' = hi /\ Walks'[k].from = lo
    BY <1>1, <2>1 DEF Lines, Reached, dumpVars
  <2>3. Exact(L, lo, hi)
    BY <1>2, <2>1 DEF Shows
  <2> QED
    BY <2>2, <2>3, ShowsKept
<1> QED
  BY <1>1, <1>2 DEF DumpInv, Dumping, dumpVars

\* The third call of walk_pgd begins with the store of test_walk_pgtable.
LEMMA TestWalkDump ==
  ASSUME BuildInv, DumpInv, test_walk_pgtable PROVE DumpInv'
<1>1. /\ mmu /\ ~runaway /\ dump = 3 /\ ~patched /\ patched' = TRUE
      /\ UNCHANGED <<regions, mmu, wild, dump, cursor, printed, runaway>>
  BY DEF test_walk_pgtable
<1>2. Walks' = Walks
  BY <1>1, WalksKept
<1>3. cursor = Walks[3].from /\ cursor \in Nat
  BY <1>1 DEF DumpInv
<1>4. Reached(3) = Walks[3].from /\ Reached(3)' = Walks'[3].from /\ Lines(3)' = Lines(3)
  BY <1>1, <1>2, <1>3 DEF Reached, Lines
<1>5. ASSUME ~wild' PROVE Shows(3)'
  <2>1. Shows(3)
    BY <1>1, <1>5 DEF DumpInv
  <2>2. \A l \in Lines(3)' : /\ l.from \in Int /\ l.to \in Int
                             /\ Walks'[3].from <= l.from /\ l.to <= Walks'[3].from
    BY <1>2, <1>4, <2>1 DEF Shows, Exact
  <2> QED
    BY <1>2, <1>3, <1>4, <2>2, ShowsNothing
<1> QED
  BY <1>1, <1>2, <1>3, <1>5 DEF DumpInv, Dumping

\* An iteration of walk_pgd.
LEMMA WalkPgdDump ==
  ASSUME BuildInv, DumpInv, WalkPgd PROVE DumpInv'
<1>1. PICK k, start, end : k = dump /\ start = cursor /\ end = Walks[dump].to
  OBVIOUS
<1>2. PICK next, d : /\ next = addr_end(start, end, Span[3])
                     /\ d = table[Pgd][index(3, start)]
  OBVIOUS
<1>3. PICK sub : sub = IF d = Fault THEN [lines |-> {}, ends |-> TRUE]
                                    ELSE walk_pud(d.out, start, next)
  OBVIOUS
<1>4. PICK last : last = (next = end /\ sub.ends)
  OBVIOUS
<1>5. /\ mmu /\ ~runaway /\ (k = 3 => patched) /\ Dumping
      /\ runaway' = ~sub.ends
      /\ printed' = printed \cup {[walk |-> k, line |-> l] : l \in sub.lines}
      /\ dump' = IF last THEN k + 1 ELSE k
      /\ cursor' = CASE last /\ k < Len(Walks) -> Walks[k + 1].from
                     [] ~last /\ sub.ends -> next
                     [] OTHER -> start
      /\ UNCHANGED <<table, regions, mmu, wild, patched>>
  BY <1>1, <1>2, <1>3, <1>4 DEF WalkPgd, vars
<1>6. /\ Len(Walks) = 3 /\ Walks' = Walks
      /\ \A j \in 1 .. 3 : /\ Walks[j].from \in Nat /\ Walks[j].to \in Nat
                           /\ Walks[j].from < Walks[j].to
                           /\ Walks[j].to <= PTRS * PTRS * PTRS * PTRS
  BY <1>5, WalksFacts, WalksKept DEF DumpInv, BuildInv, CursorInv
<1>7. /\ k \in 1 .. 3 /\ start \in Nat /\ end \in Nat
      /\ Walks[k].from <= start /\ start < end /\ end = Walks[k].to
  BY <1>1, <1>5, <1>6 DEF DumpInv, Dumping
<1>8. \A a \in Nat : start <= a /\ a < end => a \in Address
  <2>1. PICK top : top = PTRS * PTRS * PTRS * PTRS
    OBVIOUS
  <2>2. top \in Int
    <3>1. PTRS \in Int /\ PTRS * PTRS \in Int
      BY PageTableAssumption
    <3>2. PTRS * PTRS * PTRS \in Int
      BY <3>1
    <3> QED
      BY <2>1, <3>1, <3>2
  <2>3. end <= top
    BY <1>6, <1>7, <2>1
  <2>4. Address = 0 .. top - 1
    BY <2>1 DEF Address
  <2> QED
    BY <1>7, <2>2, <2>3, <2>4
<1>9. /\ next \in Nat /\ start < next /\ next <= end /\ sub.ends \in BOOLEAN
      /\ ~wild /\ sub.ends => Exact(sub.lines, start, next)
  <2>1. PagingInv /\ (~wild => Shape(table))
    BY DEF BuildInv, MapsInv
  <2>2. Shape(table) => /\ next \in Nat /\ start < next /\ next <= end /\ sub.ends \in BOOLEAN
                        /\ sub.ends => Exact(sub.lines, start, next)
    BY <1>2, <1>3, <1>7, <1>8, <2>1, WalkPgdExact
  <2>3. next \in Nat /\ start < next /\ next <= end
    BY <1>2, <1>7, SpanAddrEnd
  <2>4. sub.ends \in BOOLEAN
    BY <1>3 DEF walk_pud
  <2> QED
    BY <2>1, <2>2, <2>3, <2>4
<1>10. last \in BOOLEAN
  BY <1>4
<1>11. dump' \in 0 .. 4 /\ cursor' \in Nat
  BY <1>5, <1>6, <1>7, <1>9, <1>10
<1>12. (Dumping => Walks[dump].from <= cursor /\ cursor < Walks[dump].to)'
  <2>1. CASE last
    <3>1. k < 3 => dump' = k + 1 /\ k + 1 \in 1 .. 3 /\ cursor' = Walks[k + 1].from
      BY <1>5, <1>6, <1>7, <2>1
    <3>2. k = 3 => ~Dumping'
      <4>1. k = 3 => dump' = 4
        BY <1>5, <2>1
      <4>2. Len(Walks') = 3
        BY <1>6
      <4> QED
        BY <4>1, <4>2 DEF Dumping
    <3> QED
      BY <1>6, <1>7, <3>1, <3>2
  <2>2. CASE ~last
    <3>1. dump' = k /\ (cursor' = start \/ (cursor' = next /\ next # end))
      BY <1>4, <1>5, <2>2
    <3> QED
      BY <1>6, <1>7, <1>9, <3>1
  <2> QED
    BY <1>10, <2>1, <2>2
<1>13. (~patched => dump # 4 /\ (dump = 3 => cursor = Walks[3].from))'
  <2> SUFFICES ASSUME ~patched'
               PROVE  dump' # 4 /\ (dump' = 3 => cursor' = Walks'[3].from)
    OBVIOUS
  <2>1. k < 3
    BY <1>5, <1>7
  <2> QED
    BY <1>5, <1>6, <1>7, <1>10, <2>1
<1>14. \A x \in printed' : x = [walk |-> x.walk, line |-> x.line]
  <2>1. \A x \in printed : x = [walk |-> x.walk, line |-> x.line]
    BY DEF DumpInv
  <2> QED
    BY <1>5, <2>1
<1>15. ASSUME ~wild', ~runaway', NEW j \in 1 .. 3, patched' => j = 3 PROVE Shows(j)'
  <2>1. Shows(j) /\ sub.ends = TRUE /\ ~wild
    BY <1>5, <1>9, <1>15 DEF DumpInv
  <2>2. PICK L, lo, hi : L = Lines(j) /\ lo = Walks[j].from /\ hi = Reached(j)
    OBVIOUS
  <2>3. Exact(L, lo, hi) /\ Walks'[j].from = lo /\ lo \in Int
    BY <1>6, <2>1, <2>2 DEF Shows
  <2>4. CASE j = k
    <3>1. hi = start
      BY <1>1, <1>7, <2>2, <2>4 DEF Reached
    <3>2. PICK M : M = L \cup sub.lines
      OBVIOUS
    <3>3. Exact(M, lo, next)
      BY <1>7, <1>9, <2>1, <2>2, <2>3, <2>4, <3>1, <3>2, ExactAppend
    <3>4. Lines(j)' = M
      <4>1. \A l : l \in Lines(j)' <=> l \in L \/ l \in sub.lines
        <5>1. \A l : [walk |-> k, line |-> l].walk = k /\ [walk |-> k, line |-> l].line = l
          OBVIOUS
        <5>2. PICK Q : Q = {[walk |-> k, line |-> l] : l \in sub.lines}
          OBVIOUS
        <5>3. /\ \A x \in Q : x.walk = k /\ x.line \in sub.lines
              /\ \A l \in sub.lines : \E x \in Q : x.walk = k /\ x.line = l
          BY <5>1, <5>2
        <5>4. printed' = printed \cup Q
          BY <1>5, <5>2
        <5> QED
          BY <2>2, <2>4, <5>3, <5>4 DEF Lines
      <4> QED
        BY <3>2, <4>1
    <3>5. Reached(j)' = next
      <4>1. CASE last
        <5>1. dump' = k + 1 /\ next = end /\ Walks'[k].to = end
          BY <1>4, <1>5, <1>6, <1>7, <4>1
        <5>2. k < dump'
          BY <1>7, <5>1
        <5> QED
          BY <2>4, <5>1, <5>2 DEF Reached
      <4>2. CASE ~last
        BY <1>5, <1>7, <2>1, <2>4, <4>2 DEF Reached
      <4> QED
        BY <1>10, <4>1, <4>2
    <3> QED
      BY <1>5, <2>3, <3>3, <3>4, <3>5, ShowsKept
  <2>5. CASE j # k
    <3>1. Lines(j)' = L
      <4>1. \A l : l \in Lines(j)' <=> l \in L
        BY <1>5, <2>2, <2>5 DEF Lines
      <4> QED
        BY <4>1
    <3>2. Reached(j)' = hi
      BY <1>1, <1>5, <1>6, <1>7, <1>10, <2>2, <2>5 DEF Reached
    <3> QED
      BY <1>5, <2>3, <3>1, <3>2, ShowsKept
  <2> QED
    BY <2>4, <2>5
<1>16. TOTAL_MEMORY <= PTRS * PTRS * PTRS * PTRS /\ mmu' /\ patched' \in BOOLEAN
  BY <1>5 DEF DumpInv
<1> QED
  BY <1>11, <1>12, <1>13, <1>14, <1>15, <1>16 DEF DumpInv

\* DumpInv in the words of DumpShowsMapping.
LEMMA ShowsMapping == BuildInv /\ DumpInv /\ ~wild => DumpShowsMapping
<1> SUFFICES ASSUME BuildInv, DumpInv, ~wild,
                    NEW k \in 1 .. Len(Walks), NEW a \in Address,
                    ~runaway, Passed(k, a), patched => k = 3
             PROVE  LET shown == {l \in printed : l.walk = k /\ l.line.from <= a /\ a < l.line.to}
                    IN  IF Mapped(a)
                          THEN \E l \in shown : shown = {l} /\ l.line.desc = walk_pgtable(a)
                          ELSE shown = {}
  BY DEF DumpShowsMapping
<1> DEFINE shown == {l \in printed : l.walk = k /\ l.line.from <= a /\ a < l.line.to}
<1>1. /\ Len(Walks) = 3
      /\ \A j \in 1 .. 3 : Walks[j].from \in Nat /\ Walks[j].to \in Nat
  BY WalksFacts DEF DumpInv, BuildInv, CursorInv
<1>2. k \in 1 .. 3 /\ Shows(k)
  BY <1>1 DEF DumpInv
<1>3. Walks[k].from <= a /\ a < Reached(k)
  BY <1>1, <1>2 DEF Passed, Reached, DumpInv
<1>4. IF Mapped(a) THEN \E l \in Lines(k) : Shown(Lines(k), a) = {l} /\ l.desc = walk_pgtable(a)
                   ELSE Shown(Lines(k), a) = {}
  BY <1>2, <1>3 DEF Shows, Exact
<1>5. /\ \A x \in shown : x.line \in Shown(Lines(k), a) /\ x = [walk |-> k, line |-> x.line]
      /\ \A l \in Shown(Lines(k), a) : \E x \in shown : x.line = l
  BY DEF Lines, Shown, DumpInv
<1> HIDE DEF shown
<1>6. CASE Mapped(a)
  <2>1. PICK l \in Lines(k) : Shown(Lines(k), a) = {l} /\ l.desc = walk_pgtable(a)
    BY <1>4, <1>6
  <2>2. PICK x \in shown : x.line = l
    BY <1>5, <2>1
  <2>3. \A y \in shown : y = x
    BY <1>5, <2>1, <2>2
  <2>4. shown = {x}
    BY <2>2, <2>3
  <2> QED
    BY <1>6, <2>1, <2>2, <2>4 DEF shown
<1>7. CASE ~Mapped(a)
  <2>1. shown = {}
    BY <1>4, <1>5, <1>7
  <2> QED
    BY <1>7, <2>1 DEF shown
<1> QED
  BY <1>6, <1>7

\* Every step preserves DumpInv.
LEMMA StepDump == BuildInv /\ DumpInv /\ [DumpNext]_<<vars, dumpVars>> => DumpInv'
<1> SUFFICES ASSUME BuildInv, DumpInv, [DumpNext]_<<vars, dumpVars>> PROVE DumpInv'
  OBVIOUS
<1>1. CASE PagingStep
  BY <1>1, PagingDump
<1>2. CASE WalkPgd
  BY <1>2, WalkPgdDump
<1>3. CASE test_walk_pgtable
  BY <1>3, TestWalkDump
<1>4. CASE LaterPage
  BY <1>4, IdleDump DEF LaterPage, GetFreePage
<1>5. CASE UNCHANGED <<vars, dumpVars>>
  BY <1>5, IdleDump DEF vars
<1> QED
  BY <1>1, <1>2, <1>3, <1>4, <1>5 DEF DumpNext

\* Unless paging_init has stored astray, what dump_pgtable has printed is what
\* the MMU translates: each mapped address a call of walk_pgd has passed is in
\* exactly one of its lines, with the descriptor walk_pgtable finds.
THEOREM DumpIsMapping == DumpSpec => [](OnlyTablesWalked => DumpShowsMapping)
<1>1. DumpInit => BuildInv /\ DumpInv
  BY InitBuild, InitDump
<1>2. BuildInv /\ DumpInv /\ [DumpNext]_<<vars, dumpVars>> => (BuildInv /\ DumpInv)'
  BY DumpBuild, StepDump
<1>3. BuildInv /\ DumpInv => (OnlyTablesWalked => DumpShowsMapping)
  BY ShowsMapping DEF OnlyTablesWalked
<1> QED
  BY <1>1, <1>2, <1>3, PTL DEF DumpSpec

\* On a board with memory enough the dump is the mapping.
THEOREM DumpTrue == EnoughMemory => (DumpSpec => []DumpShowsMapping)
<1> SUFFICES ASSUME EnoughMemory PROVE DumpSpec => []DumpShowsMapping
  OBVIOUS
<1>1. DumpSpec => []OnlyTablesWalked
  BY NoStoreAstray
<1>2. DumpSpec => [](OnlyTablesWalked => DumpShowsMapping)
  BY DumpIsMapping
<1> QED
  BY <1>1, <1>2, PTL
=============================================================================
