--------------------------- MODULE RunListProofs ---------------------------
(***************************************************************************)
(* What the scheduler sees of the two lists, for every number of tasks.     *)
(* list_for_each and for_each_task are recursive functions in RunList; they *)
(* are tied here to a sequence the pointers represent, and the invariants   *)
(* and the refinement are proved of that sequence.                          *)
(***************************************************************************)
EXTENDS RunList, WellFoundedInduction, FiniteSetTheorems, TLAPS

\* Every non-empty set of natural numbers has a least element.
LEMMA LeastNat ==
  ASSUME NEW S, S \subseteq Nat, S # {}
  PROVE  \E m \in S : \A n \in S : m <= n
<1>1. PICK m \in S : \A n \in S : ~ (<<n, m>> \in OpToRel(<, Nat))
  BY NatLessThanWellFounded, WFMin, Zenon
<1>2. \A n \in S : ~ (n < m)
  BY <1>1 DEF OpToRel
<1> QED
  BY <1>2

----------------------------------------------------------------------------
(* The walk. *)

\* One step of a walk from node n.
Step(nx, n) == IF n = Nil THEN Nil ELSE nx[n]

\* The first k steps of a walk along nx, as the equation that defines them.
IsVisit(f, nx, k) == f = [i \in 0 .. k |-> IF i = 0 THEN Root ELSE Step(nx, f[i - 1])]

\* A walk of any length exists: the least length without one would extend
\* the walk that is one step shorter.
LEMMA VisitExists ==
  ASSUME NEW nx, NEW k \in Nat
  PROVE  \E f : IsVisit(f, nx, k)
<1> DEFINE S == {m \in Nat : ~ \E f : IsVisit(f, nx, m)}
<1> SUFFICES ASSUME S # {} PROVE FALSE
  OBVIOUS
<1>1. PICK m \in S : \A n \in S : m <= n
  BY LeastNat
<1>2. m # 0
  <2>1. IsVisit([i \in 0 .. 0 |-> Root], nx, 0)
    BY DEF IsVisit
  <2> QED
    BY <2>1
<1>3. m - 1 \in Nat /\ m - 1 \notin S
  BY <1>1, <1>2
<1>4. PICK f : IsVisit(f, nx, m - 1)
  BY <1>3
<1> DEFINE g == [i \in 0 .. m |-> IF i = m THEN Step(nx, f[m - 1]) ELSE f[i]]
<1>5. \A i \in 0 .. m : g[i] = IF i = 0 THEN Root ELSE Step(nx, g[i - 1])
  <2> SUFFICES ASSUME NEW i \in 0 .. m
               PROVE  g[i] = IF i = 0 THEN Root ELSE Step(nx, g[i - 1])
    OBVIOUS
  <2>1. \A j \in 0 .. m - 1 : f[j] = IF j = 0 THEN Root ELSE Step(nx, f[j - 1])
    BY <1>3, <1>4 DEF IsVisit
  <2>2. CASE i = m
    BY <1>2, <1>3, <2>2
  <2>3. CASE i # m
    BY <1>3, <2>1, <2>3
  <2> QED
    BY <2>2, <2>3
<1>6. IsVisit(g, nx, m)
  <2>1. g = [i \in 0 .. m |-> g[i]]
    OBVIOUS
  <2> HIDE DEF g
  <2> QED
    BY <1>5, <2>1 DEF IsVisit
<1> QED
  BY <1>1, <1>6

\* Limit leaves room for every task and the way back.
LEMMA LimitNat == Cardinality(Task) \in Nat /\ Limit \in Nat /\ Limit = Cardinality(Task) + 1
BY ListAssumption, FS_CardinalityType DEF Limit

\* The definition of Visit unfolds.
LEMMA VisitUnfolds ==
  ASSUME NEW nx
  PROVE  /\ Visit(nx)[0] = Root
         /\ \A i \in 1 .. Limit : Visit(nx)[i] = Step(nx, Visit(nx)[i - 1])
<1>1. Visit(nx) = CHOOSE f : IsVisit(f, nx, Limit)
  BY DEF Visit, IsVisit, Step
<1>2. \E f : IsVisit(f, nx, Limit)
  BY LimitNat, VisitExists
<1>3. IsVisit(Visit(nx), nx, Limit)
  BY <1>1, <1>2
<1> DEFINE v == Visit(nx)
<1>4. v = [i \in 0 .. Limit |-> IF i = 0 THEN Root ELSE Step(nx, v[i - 1])]
  BY <1>3 DEF IsVisit
<1> HIDE DEF v
<1>5. \A i \in 0 .. Limit : v[i] = IF i = 0 THEN Root ELSE Step(nx, v[i - 1])
  BY <1>4
<1> QED
  BY <1>5, LimitNat DEF v

----------------------------------------------------------------------------
(* Sequences as chains of pointers. *)

\* Node i of the ring Root, q[1], ..., q[Len(q)], Root.
NodeAt(q, i) == IF i \in 1 .. Len(q) THEN q[i] ELSE Root

\* nx leads from Root through q, a sequence of distinct tasks, back to Root.
IsChain(nx, q) ==
  /\ q \in Seq(Task)
  /\ \A i, j \in 1 .. Len(q) : q[i] = q[j] => i = j
  /\ \A i \in 0 .. Len(q) : nx[NodeAt(q, i)] = NodeAt(q, i + 1)

Elements(q) == {q[i] : i \in 1 .. Len(q)}

\* Distinct tasks are at most as many as there are tasks.
LEMMA ChainFits ==
  ASSUME NEW nx, NEW q, IsChain(nx, q)
  PROVE  Len(q) \in Nat /\ Len(q) + 1 \in 1 .. Limit
<1>1. Len(q) \in Nat
  BY DEF IsChain
<1>2. q \in Injection(1 .. Len(q), Task)
  BY DEF IsChain, Injection, IsInjective
<1>3. Cardinality(1 .. Len(q)) <= Cardinality(Task)
  BY <1>2, ListAssumption, FS_Injection
<1>4. Cardinality(1 .. Len(q)) = Len(q)
  <2>1. Len(q) \in Int /\ 1 \in Int
    BY <1>1
  <2>2. Cardinality(1 .. Len(q)) = IF 1 > Len(q) THEN 0 ELSE Len(q) - 1 + 1
    BY ONLY <2>1, FS_Interval, Zenon
  <2> QED
    BY ONLY <1>1, <2>2
<1> QED
  BY <1>1, <1>3, <1>4, LimitNat

\* The walk visits the nodes of the chain in order.
LEMMA VisitChain ==
  ASSUME NEW nx, NEW q, IsChain(nx, q)
  PROVE  \A i \in 0 .. Len(q) + 1 : Visit(nx)[i] = NodeAt(q, i)
<1> DEFINE v == Visit(nx)
           S == {i \in 0 .. Len(q) + 1 : v[i] # NodeAt(q, i)}
<1>0. Len(q) \in Nat /\ Len(q) + 1 \in 1 .. Limit /\ Limit \in Nat
  BY ChainFits, LimitNat
<1> SUFFICES ASSUME S # {} PROVE FALSE
  OBVIOUS
<1>1. PICK m \in S : \A n \in S : m <= n
  <2>1. S \subseteq Nat
    BY <1>0
  <2> HIDE DEF S
  <2> QED
    BY <2>1, LeastNat
<1>2. m # 0
  BY <1>0, VisitUnfolds DEF NodeAt
<1>3. m - 1 \in 0 .. Len(q) /\ m - 1 \notin S /\ m \in 1 .. Limit
  BY <1>0, <1>1, <1>2
<1>4. v[m - 1] = NodeAt(q, m - 1)
  BY <1>0, <1>3
<1>5. NodeAt(q, m - 1) # Nil
  BY ListAssumption DEF NodeAt, IsChain
<1>6. v[m] = nx[NodeAt(q, m - 1)]
  BY <1>3, <1>4, <1>5, VisitUnfolds DEF Step
<1>7. nx[NodeAt(q, m - 1)] = NodeAt(q, m)
  BY <1>0, <1>3 DEF IsChain
<1> QED
  BY <1>6, <1>7

\* So the walk ends, and what it finds is q.
LEMMA WalkChain ==
  ASSUME NEW nx, NEW q, IsChain(nx, q)
  PROVE  Ends(nx) /\ Walk(nx) = q /\ Walked(nx) = Elements(q)
<1>0. Len(q) \in Nat /\ Len(q) + 1 \in 1 .. Limit /\ Limit \in Nat
  BY ChainFits, LimitNat
<1>1. Len(q) + 1 \in Back(nx)
  BY <1>0, VisitChain DEF Back, NodeAt
<1>2. \A j \in 1 .. Len(q) : Visit(nx)[j] = q[j] /\ q[j] # Root
  <2>1. q \in Seq(Task)
    BY DEF IsChain
  <2> SUFFICES ASSUME NEW j \in 1 .. Len(q)
               PROVE  Visit(nx)[j] = q[j] /\ q[j] # Root
    OBVIOUS
  <2>2. Visit(nx)[j] = NodeAt(q, j)
    BY <1>0, VisitChain
  <2>3. q[j] \in Task
    BY <2>1
  <2> QED
    BY <2>2, <2>3, ListAssumption DEF NodeAt
<1>3. \A j \in Back(nx) : Len(q) + 1 <= j
  BY <1>0, <1>2 DEF Back
<1>4. \A j \in Back(nx) : j \in Nat
  BY <1>0 DEF Back
<1>5. WalkLength(nx) = Len(q)
  <2> DEFINE b == CHOOSE k \in Back(nx) : \A j \in Back(nx) : k <= j
  <2>1. b \in Back(nx) /\ \A j \in Back(nx) : b <= j
    <3>1. \E k \in Back(nx) : \A j \in Back(nx) : k <= j
      BY <1>1, <1>3
    <3> QED
      BY <3>1, Zenon
  <2> HIDE DEF b
  <2>2. b = Len(q) + 1
    BY <1>0, <1>1, <1>3, <1>4, <2>1
  <2>3. WalkLength(nx) = b - 1
    BY Zenon DEF WalkLength, b
  <2> QED
    BY <1>0, <2>2, <2>3
<1>6. Walk(nx) = q
  BY <1>2, <1>5 DEF Walk, IsChain
<1> QED
  BY <1>1, <1>5, <1>6 DEF Ends, Walked, Elements

\* A chain survives stores into other nodes.
LEMMA ChainKept ==
  ASSUME NEW nx, NEW ny, NEW q, IsChain(nx, q),
         ny[Root] = nx[Root], \A i \in 1 .. Len(q) : ny[q[i]] = nx[q[i]]
  PROVE  IsChain(ny, q)
BY DEF IsChain, NodeAt

Push(p, q) == <<p>> \o q

\* list_add: a task whose next leads to the old first one, stored into the
\* head, is the new first one.
LEMMA ChainPush ==
  ASSUME NEW nx, NEW ny, NEW q, IsChain(nx, q), NEW p \in Task, p \notin Elements(q),
         ny[Root] = p, ny[p] = NodeAt(q, 1),
         \A i \in 1 .. Len(q) : ny[q[i]] = nx[q[i]],
         NEW s, s = Push(p, q)
  PROVE  /\ IsChain(ny, s)
         /\ Elements(s) = Elements(q) \cup {p}
         /\ Len(s) = Len(q) + 1
         /\ NodeAt(s, 0) = Root
         /\ \A i \in 1 .. Len(q) + 2 : NodeAt(s, i) = IF i = 1 THEN p ELSE NodeAt(q, i - 1)
<1> DEFINE n == Len(q)
<1>1. q \in Seq(Task) /\ n \in Nat /\ s \in Seq(Task) /\ Len(s) = n + 1
  BY DEF IsChain, Push
<1>2. \A i \in 1 .. n + 1 : s[i] = IF i = 1 THEN p ELSE q[i - 1]
  BY <1>1 DEF Push
<1>3. \A i, j \in 1 .. n : q[i] = q[j] => i = j
  BY DEF IsChain
<1>4. \A i \in 0 .. n : nx[NodeAt(q, i)] = NodeAt(q, i + 1)
  BY DEF IsChain
<1>5. \A i \in 1 .. n : q[i] # p
  BY DEF Elements
<1> HIDE DEF n
<1>6. \A i \in 1 .. n + 2 : NodeAt(s, i) = IF i = 1 THEN p ELSE NodeAt(q, i - 1)
  BY <1>1, <1>2 DEF NodeAt, n
<1>7. \A i, j \in 1 .. Len(s) : s[i] = s[j] => i = j
  <2> SUFFICES ASSUME NEW i \in 1 .. n + 1, NEW j \in 1 .. n + 1, s[i] = s[j] PROVE i = j
    BY <1>1
  <2>1. CASE i = 1 \/ j = 1
    BY <1>1, <1>2, <1>5, <2>1
  <2>2. CASE i # 1 /\ j # 1
    <3>1. i - 1 \in 1 .. n /\ j - 1 \in 1 .. n /\ q[i - 1] = q[j - 1]
      BY <1>1, <1>2, <2>2
    <3>2. i - 1 = j - 1
      BY <1>3, <3>1
    <3> QED
      BY <1>1, <3>2
  <2> QED
    BY <2>1, <2>2
<1>8. NodeAt(s, 0) = Root
  BY DEF NodeAt
<1>9. \A i \in 0 .. n + 1 : ny[NodeAt(s, i)] = NodeAt(s, i + 1)
  <2> SUFFICES ASSUME NEW i \in 0 .. n + 1 PROVE ny[NodeAt(s, i)] = NodeAt(s, i + 1)
    OBVIOUS
  <2>1. CASE i = 0
    BY <1>1, <1>6, <1>8, <2>1
  <2>2. CASE i = 1
    BY <1>1, <1>6, <2>2
  <2>3. CASE i > 1
    <3>1. i - 1 \in 1 .. n /\ NodeAt(s, i) = NodeAt(q, i - 1)
          /\ NodeAt(s, i + 1) = NodeAt(q, i)
      BY <1>1, <1>6, <2>3
    <3>2. NodeAt(q, i - 1) = q[i - 1] /\ nx[NodeAt(q, i - 1)] = NodeAt(q, i)
      BY <1>1, <1>4, <3>1 DEF NodeAt, n
    <3> QED
      BY <3>1, <3>2 DEF n
  <2> QED
    BY <1>1, <2>1, <2>2, <2>3
<1>10. Elements(s) = Elements(q) \cup {p}
  <2>1. ASSUME NEW x \in Elements(s) PROVE x \in Elements(q) \cup {p}
    <3>1. PICK k \in 1 .. n + 1 : x = s[k]
      BY <1>1, <2>1 DEF Elements
    <3>2. k = 1 \/ (k - 1 \in 1 .. n /\ x = q[k - 1])
      BY <1>1, <1>2, <3>1
    <3> QED
      BY <1>1, <1>2, <3>1, <3>2 DEF Elements, n
  <2>2. ASSUME NEW k \in 1 .. n PROVE q[k] \in Elements(s)
    <3>1. k + 1 \in 1 .. Len(s) /\ s[k + 1] = q[k]
      BY <1>1, <1>2
    <3> QED
      BY <3>1 DEF Elements
  <2>3. p \in Elements(s)
    BY <1>1, <1>2 DEF Elements
  <2> QED
    BY <2>1, <2>2, <2>3 DEF Elements, n
<1> QED
  BY <1>1, <1>6, <1>7, <1>8, <1>9, <1>10 DEF IsChain, n

\* SET_LINKS: a task the last one leads to, and that leads to Root, is the
\* new last one; where the last one led before does not matter.
LEMMA ChainAppend ==
  ASSUME NEW ny, NEW r \in Seq(Task), NEW p \in Task, p \notin Elements(r),
         \A i, j \in 1 .. Len(r) : r[i] = r[j] => i = j,
         \A i \in 0 .. Len(r) - 1 : ny[NodeAt(r, i)] = NodeAt(r, i + 1),
         ny[NodeAt(r, Len(r))] = p, ny[p] = Root
  PROVE  /\ IsChain(ny, Append(r, p))
         /\ Elements(Append(r, p)) = Elements(r) \cup {p}
         /\ NodeAt(Append(r, p), Len(Append(r, p))) = p
<1> DEFINE s == Append(r, p)
           n == Len(r)
<1>1. n \in Nat /\ s \in Seq(Task) /\ Len(s) = n + 1
  OBVIOUS
<1>2. \A i \in 1 .. n + 1 : s[i] = IF i = n + 1 THEN p ELSE r[i]
  BY <1>1
<1>3. \A i \in 1 .. n : r[i] # p
  BY DEF Elements
<1> HIDE DEF s
<1>4. \A i \in 0 .. n + 2 : NodeAt(s, i) = IF i = n + 1 THEN p ELSE NodeAt(r, i)
  BY <1>1, <1>2 DEF NodeAt
<1>5. \A i, j \in 1 .. Len(s) : s[i] = s[j] => i = j
  BY <1>1, <1>2, <1>3
<1>6. \A i \in 0 .. n + 1 : ny[NodeAt(s, i)] = NodeAt(s, i + 1)
  <2> SUFFICES ASSUME NEW i \in 0 .. n + 1 PROVE ny[NodeAt(s, i)] = NodeAt(s, i + 1)
    OBVIOUS
  <2>1. CASE i < n
    BY <1>1, <1>4, <2>1
  <2>2. CASE i = n
    BY <1>1, <1>4, <2>2
  <2>3. CASE i = n + 1
    <3>1. NodeAt(s, i) = p /\ NodeAt(s, i + 1) = Root
      BY <1>1, <1>4, <2>3 DEF NodeAt
    <3> QED
      BY <3>1
  <2> QED
    BY <1>1, <2>1, <2>2, <2>3
<1>7. Elements(s) = Elements(r) \cup {p}
  <2>1. ASSUME NEW x \in Elements(s) PROVE x \in Elements(r) \cup {p}
    BY <1>1, <1>2, <2>1 DEF Elements
  <2>2. ASSUME NEW k \in 1 .. n PROVE r[k] \in Elements(s)
    <3>1. k \in 1 .. Len(s) /\ s[k] = r[k]
      BY <1>1, <1>2
    <3> QED
      BY <3>1 DEF Elements
  <2>3. p \in Elements(s)
    <3>1. \E k \in 1 .. Len(s) : s[k] = p
      BY <1>1, <1>2
    <3> QED
      BY <3>1 DEF Elements
  <2>4. Elements(r) \subseteq Elements(s)
    BY <2>2 DEF Elements
  <2> QED
    BY <2>1, <2>3, <2>4
<1>8. NodeAt(s, Len(s)) = p
  BY <1>1, <1>4
<1>9. IsChain(ny, s)
  BY <1>1, <1>5, <1>6 DEF IsChain
<1> QED
  BY <1>7, <1>8, <1>9 DEF s

----------------------------------------------------------------------------
(* The invariant. *)

LinkPoint == {"links1", "links2", "links3", "links4"}
AddPoint == {"add1", "add2", "add3", "add4"}

\* The range of every variable.
ListsType ==
  /\ next \in [Node -> Node \cup {Nil}] /\ prev \in [Node -> Node \cup {Nil}]
  /\ next_task \in [Node -> Node \cup {Nil}] /\ prev_task \in [Node -> Node \cup {Nil}]
  /\ pc \in {"idle"} \cup LinkPoint \cup AddPoint
  /\ new \in Task \cup {Nil} /\ after \in Node \cup {Nil}
  /\ preempted \in BOOLEAN

\* rq_head leads through q; the task being added is not on it, and while
\* start_kernel has the CPU the successor list_add has read is still the
\* first task.
QueueInv(q) ==
  /\ IsChain(next, q)
  /\ pc \in LinkPoint \cup AddPoint => new \in Task /\ new \notin Elements(q)
  /\ pc \in AddPoint /\ ~preempted => after = NodeAt(q, 1)
  /\ pc \in {"add3", "add4"} /\ ~preempted => next[new] = after

\* prev leads back, unless list_add is half done: then only the node after
\* the head is affected, and stays so if start_kernel never comes back.
PrevInv(q) ==
  IF pc \in {"add2", "add3", "add4"}
    THEN ~preempted =>
           /\ \A i \in 1 .. Len(q) : prev[NodeAt(q, i + 1)] = q[i]
           /\ prev[after] = new
           /\ pc = "add4" => prev[new] = Root
    ELSE \A i \in 0 .. Len(q) : prev[NodeAt(q, i + 1)] = NodeAt(q, i)

\* init_task leads through r, whose last task prev_task knows; between the
\* last two stores of SET_LINKS one more task is on the ring, and a clone
\* that comes then takes it off again.
RingInv(q, r) ==
  /\ r \in Seq(Task)
  /\ \A i, j \in 1 .. Len(r) : r[i] = r[j] => i = j
  /\ prev_task[Root] = NodeAt(r, Len(r))
  /\ Elements(q) \subseteq Elements(r)
  /\ \A i \in 0 .. Len(r) - 1 : next_task[NodeAt(r, i)] = NodeAt(r, i + 1)
  /\ \/ IsChain(next_task, r)
     \/ pc = "links4" /\ IsChain(next_task, Append(r, new))
  /\ pc = "links4" /\ ~preempted => IsChain(next_task, Append(r, new))
  /\ pc \in LinkPoint /\ (pc = "links4" => ~preempted) => new \notin Elements(r)
  /\ pc \in {"links2", "links3", "links4"} /\ (pc = "links4" => ~preempted) =>
       next_task[new] = Root
  /\ pc \in AddPoint => new \in Elements(r)

ListsInv(q, r) == ListsType /\ QueueInv(q) /\ PrevInv(q) /\ RingInv(q, r)

\* The queue list_for_each sees is the same as before or one task longer.
Grows(q, q2) == q2 = q \/ \E p \in Task : p \notin Elements(q) /\ q2 = Push(p, q)

\* At boot both lists are empty.
LEMMA InitLists == Init => ListsInv(<<>>, <<>>)
<1> SUFFICES ASSUME Init PROVE ListsInv(<<>>, <<>>)
  OBVIOUS
<1> USE ListAssumption DEF Init, Node
<1>1. next[Root] = Root /\ prev[Root] = Root /\ next_task[Root] = Root /\ prev_task[Root] = Root
  OBVIOUS
<1>2. ListsType
  BY DEF ListsType
<1>3. \A i \in Int : NodeAt(<<>>, i) = Root
  BY DEF NodeAt
<1>4. IsChain(next, <<>>) /\ IsChain(next_task, <<>>)
  BY <1>1, <1>3 DEF IsChain
<1>5. QueueInv(<<>>) /\ PrevInv(<<>>)
  BY <1>1, <1>3, <1>4 DEF QueueInv, PrevInv, LinkPoint, AddPoint
<1>6. RingInv(<<>>, <<>>)
  BY <1>1, <1>3, <1>4 DEF RingInv, LinkPoint, AddPoint
<1> QED
  BY <1>2, <1>5, <1>6 DEF ListsInv

\* A node of a chain leads to a node, so an unused task is not on it.
LEMMA UnusedNotOn ==
  ASSUME NEW nx, NEW r \in Seq(Task), NEW p \in Task, nx[p] = Nil,
         IsChain(nx, r) \/ \E x \in Task : IsChain(nx, Append(r, x))
  PROVE  p \notin Elements(r)
<1> SUFFICES ASSUME NEW k \in 1 .. Len(r), r[k] = p PROVE FALSE
  BY DEF Elements
<1>1. Len(r) \in Nat
  OBVIOUS
<1>2. CASE IsChain(nx, r)
  <2>1. nx[r[k]] = NodeAt(r, k + 1)
    BY <1>1, <1>2 DEF IsChain, NodeAt
  <2> QED
    BY <2>1, ListAssumption DEF NodeAt
<1>3. CASE \E x \in Task : IsChain(nx, Append(r, x))
  <2>1. PICK x \in Task : IsChain(nx, Append(r, x))
    BY <1>3
  <2>2. Len(Append(r, x)) = Len(r) + 1 /\ Append(r, x)[k] = r[k]
    OBVIOUS
  <2>3. nx[r[k]] = NodeAt(Append(r, x), k + 1)
    BY <1>1, <2>1, <2>2 DEF IsChain, NodeAt
  <2>4. NodeAt(Append(r, x), k + 1) # Nil
    BY <2>1, ListAssumption DEF NodeAt, IsChain
  <2> QED
    BY <2>3, <2>4
<1> QED
  BY <1>2, <1>3

----------------------------------------------------------------------------
(* The stores of start_kernel's do_fork. *)

\* Nodes of a sequence are nodes.
LEMMA NodesOf ==
  ASSUME NEW q \in Seq(Task)
  PROVE  /\ Len(q) \in Nat
         /\ Elements(q) \subseteq Task
         /\ \A i \in 1 .. Len(q) : q[i] \in Elements(q)
         /\ \A i : NodeAt(q, i) \in Elements(q) \cup {Root} /\ NodeAt(q, i) \in Node
         /\ Root \in Node /\ Task \subseteq Node /\ Root \notin Task /\ Nil \notin Node
BY ListAssumption DEF Elements, NodeAt, Node

\* The task to be added is chosen.
LEMMA ForkLists ==
  ASSUME NEW q, NEW r, ListsInv(q, r), Fork PROVE ListsInv(q, r)'
<1> USE DEF ListsInv, Fork, Store, LinkPoint, AddPoint
<1>1. /\ new' \in Task /\ next[new'] = Nil /\ next_task[new'] = Nil /\ pc = "idle"
      /\ pc' = "links1" /\ UNCHANGED <<next, prev, next_task, prev_task, after, preempted>>
  BY DEF Unused
<1>2. q \in Seq(Task) /\ r \in Seq(Task) /\ IsChain(next, q) /\ IsChain(next_task, r)
  BY <1>1 DEF QueueInv, RingInv, IsChain
<1>3. new' \notin Elements(q) /\ new' \notin Elements(r)
  BY <1>1, <1>2, UnusedNotOn
<1>4. ListsType'
  BY <1>1 DEF ListsType
<1>5. QueueInv(q)' /\ PrevInv(q)'
  BY <1>1, <1>3 DEF QueueInv, PrevInv
<1>6. RingInv(q, r)'
  BY <1>1, <1>2, <1>3 DEF RingInv
<1> QED
  BY <1>4, <1>5, <1>6

\* new->next_task = init_task
LEMMA SetLinks1Lists ==
  ASSUME NEW q, NEW r, ListsInv(q, r), SetLinks1 PROVE ListsInv(q, r)'
<1> USE DEF ListsInv, SetLinks1, Store, LinkPoint, AddPoint
<1>1. /\ pc = "links1" /\ pc' = "links2"
      /\ UNCHANGED <<next, prev, prev_task, new, after, preempted>>
      /\ new \in Task /\ new \notin Elements(q) /\ new \notin Elements(r)
      /\ q \in Seq(Task) /\ r \in Seq(Task) /\ IsChain(next_task, r)
  BY DEF QueueInv, RingInv, IsChain
<1>2. /\ next_task'[new] = Root
      /\ \A n \in Node : n # new => next_task'[n] = next_task[n]
      /\ next_task' \in [Node -> Node \cup {Nil}]
  BY <1>1, NodesOf DEF ListsType
<1>3. \A k : NodeAt(r, k) # new /\ NodeAt(r, k) \in Node
  BY <1>1, NodesOf
<1>4. IsChain(next_task', r)
  <2>1. next_task'[Root] = next_task[Root]
    BY <1>1, <1>2, NodesOf
  <2>2. \A i \in 1 .. Len(r) : r[i] \in Node /\ r[i] # new
    BY <1>1, NodesOf
  <2>3. \A i \in 1 .. Len(r) : next_task'[r[i]] = next_task[r[i]]
    BY <1>2, <2>2
  <2> QED
    BY <1>1, <2>1, <2>3, ChainKept
<1>5. ListsType'
  BY <1>1, <1>2 DEF ListsType
<1>6. QueueInv(q)' /\ PrevInv(q)'
  BY <1>1 DEF QueueInv, PrevInv
<1>7. RingInv(q, r)'
  BY <1>1, <1>2, <1>3, <1>4 DEF RingInv
<1> QED
  BY <1>5, <1>6, <1>7

\* new->prev_task = init_task->prev_task
LEMMA SetLinks2Lists ==
  ASSUME NEW q, NEW r, ListsInv(q, r), SetLinks2 PROVE ListsInv(q, r)'
<1> USE DEF ListsInv, SetLinks2, Store, LinkPoint, AddPoint
<1>1. /\ pc = "links2" /\ pc' = "links3"
      /\ UNCHANGED <<next, prev, next_task, new, after, preempted>>
      /\ new \in Task /\ q \in Seq(Task)
  BY DEF QueueInv, RingInv, IsChain
<1>2. prev_task'[Root] = prev_task[Root] /\ prev_task' \in [Node -> Node \cup {Nil}]
  BY <1>1, NodesOf DEF ListsType
<1>3. ListsType'
  BY <1>1, <1>2 DEF ListsType
<1>4. QueueInv(q)' /\ PrevInv(q)'
  BY <1>1 DEF QueueInv, PrevInv
<1>5. RingInv(q, r)'
  BY <1>1, <1>2 DEF RingInv
<1> QED
  BY <1>3, <1>4, <1>5

\* Only the last node of the ring is its last node.
LEMMA TailDiffers ==
  ASSUME NEW r \in Seq(Task), \A i, j \in 1 .. Len(r) : r[i] = r[j] => i = j
  PROVE  \A i \in 0 .. Len(r) - 1 : NodeAt(r, i) # NodeAt(r, Len(r))
<1> SUFFICES ASSUME NEW i \in 0 .. Len(r) - 1 PROVE NodeAt(r, i) # NodeAt(r, Len(r))
  OBVIOUS
<1>1. Len(r) \in Nat /\ Len(r) \in 1 .. Len(r) /\ NodeAt(r, Len(r)) = r[Len(r)]
  BY DEF NodeAt
<1>2. CASE i = 0
  BY <1>1, <1>2, ListAssumption DEF NodeAt
<1>3. CASE i # 0
  <2>1. i \in 1 .. Len(r) /\ i # Len(r) /\ NodeAt(r, i) = r[i]
    BY <1>1, <1>3 DEF NodeAt
  <2> QED
    BY <1>1, <2>1
<1> QED
  BY <1>2, <1>3

\* init_task->prev_task->next_task = new
LEMMA SetLinks3Lists ==
  ASSUME NEW q, NEW r, ListsInv(q, r), SetLinks3 PROVE ListsInv(q, r)'
<1> USE DEF ListsInv, SetLinks3, Store, LinkPoint, AddPoint
<1>1. /\ pc = "links3" /\ pc' = "links4" /\ ~preempted
      /\ UNCHANGED <<next, prev, prev_task, new, after, preempted>>
      /\ new \in Task /\ new \notin Elements(r)
      /\ q \in Seq(Task) /\ r \in Seq(Task) /\ IsChain(next_task, r)
      /\ prev_task[Root] = NodeAt(r, Len(r)) /\ next_task[new] = Root
  BY DEF QueueInv, RingInv, IsChain
<1>2. /\ \A i, j \in 1 .. Len(r) : r[i] = r[j] => i = j
      /\ \A i \in 0 .. Len(r) - 1 : next_task[NodeAt(r, i)] = NodeAt(r, i + 1)
  BY DEF RingInv
<1>3. \A k : NodeAt(r, k) # new /\ NodeAt(r, k) \in Node
  BY <1>1, NodesOf
<1>4. /\ next_task' = [next_task EXCEPT ![NodeAt(r, Len(r))] = new]
      /\ next_task \in [Node -> Node \cup {Nil}]
  BY <1>1 DEF ListsType
<1>5. \A i \in 0 .. Len(r) - 1 : NodeAt(r, i) # NodeAt(r, Len(r))
  BY <1>1, <1>2, TailDiffers
<1>6. /\ next_task'[new] = Root /\ next_task'[NodeAt(r, Len(r))] = new
      /\ \A i \in 0 .. Len(r) - 1 : next_task'[NodeAt(r, i)] = NodeAt(r, i + 1)
      /\ next_task' \in [Node -> Node \cup {Nil}]
  BY <1>1, <1>2, <1>3, <1>4, <1>5, NodesOf
<1>7. IsChain(next_task', Append(r, new))
  BY <1>1, <1>2, <1>6, ChainAppend
<1>8. ListsType'
  BY <1>1, <1>6 DEF ListsType
<1>9. QueueInv(q)' /\ PrevInv(q)'
  BY <1>1 DEF QueueInv, PrevInv
<1>10. RingInv(q, r)'
  BY <1>1, <1>6, <1>7 DEF RingInv
<1> QED
  BY <1>8, <1>9, <1>10

\* init_task->prev_task = new: the new task is the last of the ring.
LEMMA SetLinks4Lists ==
  ASSUME NEW q, NEW r, ListsInv(q, r), SetLinks4 PROVE ListsInv(q, Append(r, new))'
<1> DEFINE r2 == Append(r, new)
<1> USE DEF ListsInv, SetLinks4, Store, LinkPoint, AddPoint
<1>1. /\ pc = "links4" /\ pc' = "add1" /\ ~preempted
      /\ UNCHANGED <<next, prev, next_task, new, preempted>>
      /\ new \in Task /\ new \notin Elements(r) /\ new \notin Elements(q)
      /\ q \in Seq(Task) /\ r \in Seq(Task) /\ IsChain(next, q)
      /\ IsChain(next_task, r2) /\ Elements(q) \subseteq Elements(r)
  BY DEF QueueInv, RingInv, IsChain
<1>2. prev_task'[Root] = new /\ prev_task' \in [Node -> Node \cup {Nil}]
  BY <1>1, NodesOf DEF ListsType
<1>3. after' = NodeAt(q, 1) /\ after' \in Node
  <2>1. next[NodeAt(q, 0)] = NodeAt(q, 1)
    BY <1>1, NodesOf DEF IsChain
  <2>2. NodeAt(q, 0) = Root
    BY DEF NodeAt
  <2> QED
    BY <1>1, <2>1, <2>2, NodesOf
<1>4. /\ Len(r2) = Len(r) + 1 /\ Len(r) \in Nat /\ r2 \in Seq(Task)
      /\ r2[Len(r) + 1] = new /\ \A k \in 1 .. Len(r) : r2[k] = r[k]
  BY <1>1
<1>5. /\ NodeAt(r2, Len(r2)) = new /\ Elements(r) \subseteq Elements(r2)
      /\ new \in Elements(r2)
  <2>1. NodeAt(r2, Len(r2)) = new
    BY <1>4 DEF NodeAt
  <2>2. \E k \in 1 .. Len(r2) : r2[k] = new
    BY <1>4
  <2>3. \A k \in 1 .. Len(r) : k \in 1 .. Len(r2) /\ r2[k] = r[k]
    BY <1>4
  <2> HIDE DEF r2
  <2>4. Elements(r) \subseteq Elements(r2)
    BY <2>3 DEF Elements
  <2> QED
    BY <2>1, <2>2, <2>4 DEF Elements
<1>6. r2' = r2
  BY <1>1
<1> HIDE DEF r2
<1>7. ListsType'
  BY <1>1, <1>2, <1>3 DEF ListsType
<1>8. QueueInv(q)' /\ PrevInv(q)'
  BY <1>1, <1>3 DEF QueueInv, PrevInv
<1>9. RingInv(q, r2)'
  BY <1>1, <1>2, <1>4, <1>5, <1>6 DEF RingInv, IsChain
<1> QED
  BY <1>6, <1>7, <1>8, <1>9 DEF r2

\* The nodes after the head are distinct, the head itself being the last.
LEMMA NodesDiffer ==
  ASSUME NEW nx, NEW q, IsChain(nx, q),
         NEW i \in 1 .. Len(q) + 1, NEW j \in 1 .. Len(q) + 1, NodeAt(q, i) = NodeAt(q, j)
  PROVE  i = j
<1>1. /\ q \in Seq(Task) /\ Len(q) \in Nat
      /\ \A k, m \in 1 .. Len(q) : q[k] = q[m] => k = m
      /\ \A k \in 1 .. Len(q) : q[k] # Root
  BY ListAssumption DEF IsChain
<1>2. /\ i = Len(q) + 1 \/ (i \in 1 .. Len(q) /\ NodeAt(q, i) = q[i])
      /\ j = Len(q) + 1 \/ (j \in 1 .. Len(q) /\ NodeAt(q, j) = q[j])
      /\ NodeAt(q, Len(q) + 1) = Root
  BY <1>1 DEF NodeAt
<1> QED
  BY <1>1, <1>2

\* What the state is while list_add runs.
LEMMA AddState ==
  ASSUME NEW q, NEW r, ListsInv(q, r), pc \in AddPoint, ~preempted
  PROVE  /\ q \in Seq(Task) /\ r \in Seq(Task) /\ IsChain(next, q)
         /\ new \in Task /\ new \notin Elements(q) /\ new \in Elements(r)
         /\ after = NodeAt(q, 1) /\ after \in Node /\ after # new
         /\ \A i : NodeAt(q, i) \in Node /\ NodeAt(q, i) # new
         /\ Len(q) \in Nat
<1>1. /\ q \in Seq(Task) /\ r \in Seq(Task) /\ IsChain(next, q)
      /\ new \in Task /\ new \notin Elements(q) /\ new \in Elements(r)
      /\ after = NodeAt(q, 1)
  BY DEF ListsInv, QueueInv, RingInv, IsChain
<1>2. Len(q) \in Nat /\ \A i : NodeAt(q, i) \in Node /\ NodeAt(q, i) # new
  BY <1>1, NodesOf
<1> QED
  BY <1>1, <1>2

\* next->prev = new: only the way back from the first node changes.
LEMMA ListAdd1Lists ==
  ASSUME NEW q, NEW r, ListsInv(q, r), ListAdd1 PROVE ListsInv(q, r)'
<1> USE DEF ListAdd1, Store, LinkPoint, AddPoint
<1>1. /\ pc = "add1" /\ pc' = "add2" /\ ~preempted
      /\ prev' = [prev EXCEPT ![after] = new]
      /\ UNCHANGED <<next, next_task, prev_task, new, after, preempted>>
  OBVIOUS
<1>2. /\ q \in Seq(Task) /\ IsChain(next, q) /\ new \in Task /\ Len(q) \in Nat
      /\ after = NodeAt(q, 1) /\ after \in Node /\ \A i : NodeAt(q, i) \in Node
  BY <1>1, AddState
<1>3. prev \in [Node -> Node \cup {Nil}] /\ new \in Node
  BY <1>2 DEF ListsInv, ListsType, Node
<1>4. \A i \in 0 .. Len(q) : prev[NodeAt(q, i + 1)] = NodeAt(q, i)
  BY <1>1 DEF ListsInv, PrevInv
<1>5. prev'[after] = new /\ prev' \in [Node -> Node \cup {Nil}]
  BY <1>1, <1>2, <1>3
<1>6. ASSUME NEW i \in 1 .. Len(q) PROVE prev'[NodeAt(q, i + 1)] = q[i]
  <2>1. i + 1 \in 1 .. Len(q) + 1 /\ 1 \in 1 .. Len(q) + 1 /\ i + 1 # 1
    BY <1>2
  <2>2. NodeAt(q, i + 1) # NodeAt(q, 1)
    BY <1>2, <2>1, NodesDiffer
  <2>3. prev'[NodeAt(q, i + 1)] = prev[NodeAt(q, i + 1)]
    BY <1>1, <1>2, <1>3, <2>2
  <2>4. prev[NodeAt(q, i + 1)] = NodeAt(q, i) /\ NodeAt(q, i) = q[i]
    BY <1>2, <1>4 DEF NodeAt
  <2> QED
    BY <2>3, <2>4
<1>7. ListsType'
  BY <1>1, <1>5 DEF ListsInv, ListsType
<1>8. QueueInv(q)'
  BY <1>1 DEF ListsInv, QueueInv
<1>9. PrevInv(q)'
  BY <1>1, <1>5, <1>6 DEF PrevInv
<1>10. RingInv(q, r)'
  BY <1>1 DEF ListsInv, RingInv
<1> QED
  BY <1>7, <1>8, <1>9, <1>10 DEF ListsInv

\* new->next = next: new is not on the queue yet.
LEMMA ListAdd2Lists ==
  ASSUME NEW q, NEW r, ListsInv(q, r), ListAdd2 PROVE ListsInv(q, r)'
<1> USE DEF ListAdd2, Store, LinkPoint, AddPoint
<1>1. /\ pc = "add2" /\ pc' = "add3" /\ ~preempted
      /\ next' = [next EXCEPT ![new] = after]
      /\ UNCHANGED <<prev, next_task, prev_task, new, after, preempted>>
  OBVIOUS
<1>2. /\ q \in Seq(Task) /\ IsChain(next, q) /\ new \in Task /\ new \notin Elements(q)
      /\ after = NodeAt(q, 1) /\ after \in Node
  BY <1>1, AddState
<1>3. next \in [Node -> Node \cup {Nil}] /\ new \in Node /\ Root \in Node /\ new # Root
  BY <1>2, ListAssumption DEF ListsInv, ListsType, Node
<1>4. /\ next'[new] = after /\ next' \in [Node -> Node \cup {Nil}]
      /\ next'[Root] = next[Root]
  BY <1>1, <1>2, <1>3
<1>5. \A i \in 1 .. Len(q) : next'[q[i]] = next[q[i]]
  <2>1. \A i \in 1 .. Len(q) : q[i] \in Node /\ q[i] # new
    BY <1>2, NodesOf
  <2> QED
    BY <1>1, <1>3, <2>1
<1>6. IsChain(next', q)
  BY <1>2, <1>4, <1>5, ChainKept
<1>7. ListsType'
  BY <1>1, <1>4 DEF ListsInv, ListsType
<1>8. QueueInv(q)'
  BY <1>1, <1>2, <1>4, <1>6 DEF QueueInv
<1>9. PrevInv(q)'
  BY <1>1 DEF ListsInv, PrevInv
<1>10. RingInv(q, r)'
  BY <1>1 DEF ListsInv, RingInv
<1> QED
  BY <1>7, <1>8, <1>9, <1>10 DEF ListsInv

\* new->prev = head
LEMMA ListAdd3Lists ==
  ASSUME NEW q, NEW r, ListsInv(q, r), ListAdd3 PROVE ListsInv(q, r)'
<1> USE DEF ListAdd3, Store, LinkPoint, AddPoint
<1>1. /\ pc = "add3" /\ pc' = "add4" /\ ~preempted
      /\ prev' = [prev EXCEPT ![new] = Root]
      /\ UNCHANGED <<next, next_task, prev_task, new, after, preempted>>
  OBVIOUS
<1>2. /\ new \in Task /\ after \in Node /\ after # new
      /\ \A i : NodeAt(q, i) \in Node /\ NodeAt(q, i) # new
  BY <1>1, AddState
<1>3. prev \in [Node -> Node \cup {Nil}] /\ new \in Node /\ Root \in Node
  BY <1>2 DEF ListsInv, ListsType, Node
<1>4. /\ prev[after] = new
      /\ \A i \in 1 .. Len(q) : prev[NodeAt(q, i + 1)] = q[i]
  BY <1>1 DEF ListsInv, PrevInv
<1>5. /\ prev'[new] = Root /\ prev'[after] = new
      /\ prev' \in [Node -> Node \cup {Nil}]
  BY <1>1, <1>2, <1>3, <1>4
<1>6. \A i \in 1 .. Len(q) : prev'[NodeAt(q, i + 1)] = q[i]
  BY <1>1, <1>2, <1>3, <1>4
<1>7. ListsType'
  BY <1>1, <1>5 DEF ListsInv, ListsType
<1>8. QueueInv(q)'
  BY <1>1 DEF ListsInv, QueueInv
<1>9. PrevInv(q)'
  BY <1>1, <1>5, <1>6 DEF PrevInv
<1>10. RingInv(q, r)'
  BY <1>1 DEF ListsInv, RingInv
<1> QED
  BY <1>7, <1>8, <1>9, <1>10 DEF ListsInv

\* head->next = new: from here on list_for_each finds the new task.
LEMMA ListAdd4Lists ==
  ASSUME NEW q, NEW r, ListsInv(q, r), ListAdd4
  PROVE  /\ ListsInv(Push(new, q), r)'
         /\ new \in Task /\ new \notin Elements(q) /\ Push(new, q)' = Push(new, q)
<1> USE DEF ListAdd4, Store, LinkPoint, AddPoint
<1> DEFINE q2 == Push(new, q)
<1>1. /\ pc = "add4" /\ pc' = "idle" /\ ~preempted
      /\ next' = [next EXCEPT ![Root] = new]
      /\ UNCHANGED <<prev, next_task, prev_task, new, after, preempted>>
  OBVIOUS
<1>2. /\ q \in Seq(Task) /\ IsChain(next, q) /\ new \in Task /\ new \notin Elements(q)
      /\ new \in Elements(r) /\ after = NodeAt(q, 1) /\ Len(q) \in Nat
  BY <1>1, AddState
<1>3. /\ next \in [Node -> Node \cup {Nil}] /\ new \in Node /\ Root \in Node /\ new # Root
      /\ next[new] = after
  BY <1>1, <1>2, ListAssumption DEF ListsInv, ListsType, QueueInv, Node
<1>4. next'[Root] = new /\ next'[new] = NodeAt(q, 1) /\ next' \in [Node -> Node \cup {Nil}]
  BY <1>1, <1>2, <1>3
<1>5. \A i \in 1 .. Len(q) : next'[q[i]] = next[q[i]]
  <2>1. \A i \in 1 .. Len(q) : q[i] \in Node /\ q[i] # Root
    BY <1>2, NodesOf
  <2> QED
    BY <1>1, <1>3, <2>1
<1>same. q2 = Push(new, q) /\ q2' = q2
  BY <1>1
<1> HIDE DEF q2
<1>6. /\ IsChain(next', q2) /\ Elements(q2) = Elements(q) \cup {new}
      /\ Len(q2) = Len(q) + 1 /\ NodeAt(q2, 0) = Root
      /\ \A i \in 1 .. Len(q) + 2 : NodeAt(q2, i) = IF i = 1 THEN new ELSE NodeAt(q, i - 1)
  <2> HIDE DEF ListAdd4, Store
  <2>1. /\ IsChain(next, q) /\ new \in Task /\ new \notin Elements(q)
        /\ next'[Root] = new /\ next'[new] = NodeAt(q, 1) /\ q2 = Push(new, q)
        /\ \A i \in 1 .. Len(q) : next'[q[i]] = next[q[i]]
    BY <1>2, <1>4, <1>5, <1>same
  <2> QED
    BY <2>1, ChainPush
<1>7. q2' = q2
  BY <1>same
<1>8. ListsType'
  BY <1>1, <1>4 DEF ListsInv, ListsType
<1>9. QueueInv(q2)'
  BY <1>1, <1>6, <1>7 DEF QueueInv
<1>10. \A i \in 0 .. Len(q2) : prev[NodeAt(q2, i + 1)] = NodeAt(q2, i)
  <2> SUFFICES ASSUME NEW i \in 0 .. Len(q2) PROVE prev[NodeAt(q2, i + 1)] = NodeAt(q2, i)
    OBVIOUS
  <2>1. /\ prev[after] = new /\ prev[new] = Root
        /\ \A k \in 1 .. Len(q) : prev[NodeAt(q, k + 1)] = q[k]
    BY <1>1 DEF ListsInv, PrevInv
  <2>2. CASE i = 0
    BY <1>2, <1>6, <2>1, <2>2
  <2>3. CASE i = 1
    BY <1>2, <1>6, <2>1, <2>3
  <2>4. CASE i > 1
    <3>1. /\ i - 1 \in 1 .. Len(q) /\ NodeAt(q2, i + 1) = NodeAt(q, i)
          /\ NodeAt(q2, i) = NodeAt(q, i - 1) /\ (i - 1) + 1 = i
      BY <1>2, <1>6, <2>4
    <3>2. prev[NodeAt(q, i)] = q[i - 1] /\ NodeAt(q, i - 1) = q[i - 1]
      BY <2>1, <3>1 DEF NodeAt
    <3> QED
      BY <3>1, <3>2
  <2> QED
    BY <1>2, <1>6, <2>2, <2>3, <2>4
<1>11. PrevInv(q2)'
  BY <1>1, <1>7, <1>10 DEF PrevInv
<1>12. RingInv(q2, r)'
  <2>1. RingInv(q, r)
    BY DEF ListsInv
  <2>2. Elements(q2) \subseteq Elements(r)
    BY <1>2, <1>6, <2>1 DEF RingInv
  <2> QED
    BY <1>1, <1>7, <2>1, <2>2 DEF RingInv
<1> QED
  BY <1>2, <1>7, <1>8, <1>9, <1>11, <1>12 DEF ListsInv, q2

\* start_kernel loses the CPU: nothing is stored.
LEMMA PreemptLists ==
  ASSUME NEW q, NEW r, ListsInv(q, r), Preempt PROVE ListsInv(q, r)'
<1> USE DEF Preempt, ListsInv
<1>1. ListsType' /\ QueueInv(q)'
  BY DEF ListsType, QueueInv
<1>2. PrevInv(q)'
  BY DEF PrevInv
<1>3. RingInv(q, r)'
  BY DEF RingInv
<1> QED
  BY <1>1, <1>2, <1>3

----------------------------------------------------------------------------
(* do_fork of clone, on the lists start_kernel may have left half updated.  *)

\* A task that has no pointers yet is on neither list.
LEMMA CloneFresh ==
  ASSUME NEW q, NEW r, ListsInv(q, r), NEW p \in Unused
  PROVE  /\ p \in Task /\ p # new /\ p \notin Elements(q) /\ p \notin Elements(r)
         /\ q \in Seq(Task) /\ r \in Seq(Task) /\ IsChain(next, q)
<1>1. p \in Task /\ p # new /\ next[p] = Nil /\ next_task[p] = Nil
  BY DEF Unused
<1>2. q \in Seq(Task) /\ r \in Seq(Task) /\ IsChain(next, q)
  BY DEF ListsInv, QueueInv, RingInv, IsChain
<1>3. p \notin Elements(q)
  BY <1>1, <1>2, UnusedNotOn
<1>4. IsChain(next_task, r) \/ \E x \in Task : IsChain(next_task, Append(r, x))
  <2>1. IsChain(next_task, r) \/ (pc = "links4" /\ IsChain(next_task, Append(r, new)))
    BY DEF ListsInv, RingInv
  <2>2. pc = "links4" => new \in Task
    BY DEF ListsInv, QueueInv, LinkPoint
  <2> QED
    BY <2>1, <2>2
<1>5. p \notin Elements(r)
  BY <1>1, <1>2, <1>4, UnusedNotOn
<1> QED
  BY <1>1, <1>2, <1>3, <1>5

\* list_add in one go.
LEMMA CloneQueue ==
  ASSUME NEW q, NEW r, ListsInv(q, r), NEW p \in Unused, preempted, ListAdd(p),
         UNCHANGED <<pc, new, after, preempted>>
  PROVE  /\ next' \in [Node -> Node \cup {Nil}] /\ prev' \in [Node -> Node \cup {Nil}]
         /\ QueueInv(Push(p, q))' /\ PrevInv(Push(p, q))'
         /\ Elements(Push(p, q)) = Elements(q) \cup {p}
<1> DEFINE q2 == Push(p, q)
<1>1. /\ p \in Task /\ p # new /\ p \notin Elements(q)
      /\ q \in Seq(Task) /\ IsChain(next, q)
  BY CloneFresh
<1>2. /\ Len(q) \in Nat /\ \A i : NodeAt(q, i) \in Node /\ NodeAt(q, i) # p
      /\ \A i \in 1 .. Len(q) : q[i] \in Node /\ q[i] # Root /\ q[i] # p
      /\ Root \in Node /\ p \in Node /\ p # Root
  BY <1>1, NodesOf
<1>3. next[Root] = NodeAt(q, 1)
  <2>1. next[NodeAt(q, 0)] = NodeAt(q, 1)
    BY <1>1, <1>2 DEF IsChain
  <2> QED
    BY <2>1 DEF NodeAt
<1>4. next \in [Node -> Node \cup {Nil}] /\ prev \in [Node -> Node \cup {Nil}]
  BY DEF ListsInv, ListsType
<1>5. /\ next' = [next EXCEPT ![p] = NodeAt(q, 1), ![Root] = p]
      /\ prev' = [prev EXCEPT ![NodeAt(q, 1)] = p, ![p] = Root]
  BY <1>3 DEF ListAdd
<1>6. /\ next' \in [Node -> Node \cup {Nil}]
      /\ next'[Root] = p /\ next'[p] = NodeAt(q, 1)
  BY <1>2, <1>4, <1>5
<1>7. \A i \in 1 .. Len(q) : next'[q[i]] = next[q[i]]
  BY <1>2, <1>4, <1>5
<1>8. /\ prev' \in [Node -> Node \cup {Nil}]
      /\ prev'[p] = Root /\ prev'[NodeAt(q, 1)] = p
      /\ \A n \in Node : n # p /\ n # NodeAt(q, 1) => prev'[n] = prev[n]
  BY <1>2, <1>4, <1>5
<1>same. q2 = Push(p, q)
  OBVIOUS
<1> HIDE DEF q2
<1>9. /\ IsChain(next', q2) /\ Elements(q2) = Elements(q) \cup {p}
      /\ Len(q2) = Len(q) + 1 /\ NodeAt(q2, 0) = Root
      /\ \A i \in 1 .. Len(q) + 2 : NodeAt(q2, i) = IF i = 1 THEN p ELSE NodeAt(q, i - 1)
  BY <1>1, <1>6, <1>7, <1>same, ChainPush
<1>10. QueueInv(q2)'
  BY <1>1, <1>9 DEF ListsInv, QueueInv
<1>11. ASSUME pc \notin {"add2", "add3", "add4"}, NEW i \in 0 .. Len(q2)
       PROVE  prev'[NodeAt(q2, i + 1)] = NodeAt(q2, i)
  <2>1. \A k \in 0 .. Len(q) : prev[NodeAt(q, k + 1)] = NodeAt(q, k)
    BY <1>11 DEF ListsInv, PrevInv
  <2>2. CASE i = 0
    BY <1>2, <1>8, <1>9, <2>2
  <2>3. CASE i = 1
    BY <1>2, <1>8, <1>9, <2>3
  <2>4. CASE i > 1
    <3>1. /\ i - 1 \in 0 .. Len(q) /\ NodeAt(q2, i + 1) = NodeAt(q, i)
          /\ NodeAt(q2, i) = NodeAt(q, i - 1) /\ (i - 1) + 1 = i
          /\ i \in 1 .. Len(q) + 1 /\ 1 \in 1 .. Len(q) + 1 /\ i # 1
      BY <1>2, <1>9, <2>4
    <3>2. NodeAt(q, i) # NodeAt(q, 1)
      BY <1>1, <3>1, NodesDiffer
    <3>3. prev'[NodeAt(q, i)] = prev[NodeAt(q, i)]
      BY <1>2, <1>8, <3>2
    <3>4. prev[NodeAt(q, i)] = NodeAt(q, i - 1)
      BY <2>1, <3>1
    <3> QED
      BY <3>1, <3>3, <3>4
  <2> QED
    BY <1>2, <1>9, <2>2, <2>3, <2>4
<1>12. PrevInv(q2)'
  BY <1>11 DEF PrevInv
<1> QED
  BY <1>6, <1>8, <1>9, <1>10, <1>12 DEF q2

\* SET_LINKS in one go.  If start_kernel was stopped before its last store,
\* the task it had put behind the last one is taken off the ring again.
LEMMA CloneRing ==
  ASSUME NEW q, NEW r, ListsInv(q, r), NEW p \in Unused, preempted, SetLinks(p),
         UNCHANGED <<pc, new, after, preempted>>,
         NEW q2, Elements(q2) = Elements(q) \cup {p}
  PROVE  /\ next_task' \in [Node -> Node \cup {Nil}]
         /\ prev_task' \in [Node -> Node \cup {Nil}]
         /\ RingInv(q2, Append(r, p))'
<1> DEFINE r2 == Append(r, p)
<1>1. p \in Task /\ p # new /\ p \notin Elements(r) /\ r \in Seq(Task)
  BY CloneFresh
<1>2. /\ \A i, j \in 1 .. Len(r) : r[i] = r[j] => i = j
      /\ prev_task[Root] = NodeAt(r, Len(r)) /\ Elements(q) \subseteq Elements(r)
      /\ \A i \in 0 .. Len(r) - 1 : next_task[NodeAt(r, i)] = NodeAt(r, i + 1)
  BY DEF ListsInv, RingInv
<1>3. /\ Len(r) \in Nat /\ Root \in Node /\ p \in Node /\ p # Root
      /\ \A i : NodeAt(r, i) \in Node /\ NodeAt(r, i) # p
  BY <1>1, NodesOf
<1>4. /\ next_task \in [Node -> Node \cup {Nil}]
      /\ prev_task \in [Node -> Node \cup {Nil}]
  BY DEF ListsInv, ListsType
<1>5. /\ next_task' = [next_task EXCEPT ![p] = Root, ![NodeAt(r, Len(r))] = p]
      /\ prev_task' = [prev_task EXCEPT ![p] = NodeAt(r, Len(r)), ![Root] = p]
  BY <1>2 DEF SetLinks
<1>6. /\ next_task' \in [Node -> Node \cup {Nil}]
      /\ prev_task' \in [Node -> Node \cup {Nil}] /\ prev_task'[Root] = p
      /\ next_task'[p] = Root /\ next_task'[NodeAt(r, Len(r))] = p
      /\ \A n \in Node : n # p /\ n # NodeAt(r, Len(r)) => next_task'[n] = next_task[n]
  BY <1>3, <1>4, <1>5
<1>7. \A i \in 0 .. Len(r) - 1 : NodeAt(r, i) # NodeAt(r, Len(r))
  BY <1>1, <1>2, TailDiffers
<1>8. \A i \in 0 .. Len(r) - 1 : next_task'[NodeAt(r, i)] = NodeAt(r, i + 1)
  BY <1>2, <1>3, <1>6, <1>7
<1>9. /\ IsChain(next_task', r2) /\ Elements(r2) = Elements(r) \cup {p}
      /\ NodeAt(r2, Len(r2)) = p
  BY <1>1, <1>2, <1>6, <1>8, ChainAppend
<1> HIDE DEF r2
<1>10. /\ r2 \in Seq(Task) /\ \A i, j \in 1 .. Len(r2) : r2[i] = r2[j] => i = j
       /\ \A i \in 0 .. Len(r2) - 1 : next_task'[NodeAt(r2, i)] = NodeAt(r2, i + 1)
  BY <1>9 DEF IsChain
<1>11. ASSUME pc \in {"links1", "links2", "links3"}
       PROVE  new \notin Elements(r2) /\ (pc # "links1" => next_task'[new] = Root)
  <2>1. new \in Task /\ new \notin Elements(r) /\ (pc # "links1" => next_task[new] = Root)
    BY <1>11 DEF ListsInv, QueueInv, RingInv, LinkPoint
  <2>2. new \in Node /\ new # NodeAt(r, Len(r))
    BY <1>1, <2>1, NodesOf
  <2> QED
    BY <1>1, <1>6, <1>9, <2>1, <2>2
<1>12. pc \in AddPoint => new \in Elements(r)
  BY DEF ListsInv, RingInv
<1>13. RingInv(q2, r2)'
  BY <1>2, <1>6, <1>9, <1>10, <1>11, <1>12 DEF RingInv, LinkPoint, AddPoint
<1> QED
  BY <1>6, <1>13 DEF r2

\* clone adds a task to the front of the queue and to the end of the ring.
LEMMA CloneLists ==
  ASSUME NEW q, NEW r, ListsInv(q, r), Clone
  PROVE  \E p \in Task : p \notin Elements(q) /\ ListsInv(Push(p, q), Append(r, p))'
<1>1. PICK p \in Unused : SetLinks(p) /\ ListAdd(p)
  BY DEF Clone
<1>2. preempted /\ UNCHANGED <<pc, new, after, preempted>>
  BY DEF Clone
<1>3. p \in Task /\ p \notin Elements(q)
  BY CloneFresh
<1>4. /\ next' \in [Node -> Node \cup {Nil}] /\ prev' \in [Node -> Node \cup {Nil}]
      /\ QueueInv(Push(p, q))' /\ PrevInv(Push(p, q))'
      /\ Elements(Push(p, q)) = Elements(q) \cup {p}
  BY <1>1, <1>2, CloneQueue
<1>5. /\ next_task' \in [Node -> Node \cup {Nil}]
      /\ prev_task' \in [Node -> Node \cup {Nil}]
      /\ RingInv(Push(p, q), Append(r, p))'
  BY <1>1, <1>2, <1>4, CloneRing
<1>6. ListsType'
  BY <1>2, <1>4, <1>5 DEF ListsInv, ListsType
<1> QED
  BY <1>3, <1>4, <1>5, <1>6 DEF ListsInv

----------------------------------------------------------------------------
(* Every step, and what follows for the walks. *)

\* Some two sequences are what the pointers represent.
ListInv == \E q, r : ListsInv(q, r)

\* A step leaves the queue alone or puts one task in front of it.
LEMMA NextLists ==
  ASSUME NEW q, NEW r, ListsInv(q, r), [Next]_vars
  PROVE  \E q2, r2 : ListsInv(q2, r2)' /\ Grows(q, q2)
<1>0. Grows(q, q)
  BY DEF Grows
<1>1. CASE Fork
  BY <1>0, <1>1, ForkLists
<1>2. CASE SetLinks1
  BY <1>0, <1>2, SetLinks1Lists
<1>3. CASE SetLinks2
  BY <1>0, <1>3, SetLinks2Lists
<1>4. CASE SetLinks3
  BY <1>0, <1>4, SetLinks3Lists
<1>5. CASE SetLinks4
  BY <1>0, <1>5, SetLinks4Lists
<1>6. CASE ListAdd1
  BY <1>0, <1>6, ListAdd1Lists
<1>7. CASE ListAdd2
  BY <1>0, <1>7, ListAdd2Lists
<1>8. CASE ListAdd3
  BY <1>0, <1>8, ListAdd3Lists
<1>9. CASE ListAdd4
  BY <1>9, ListAdd4Lists DEF Grows
<1>10. CASE Preempt
  BY <1>0, <1>10, PreemptLists
<1>11. CASE Clone
  BY <1>11, CloneLists DEF Grows
<1>12. CASE UNCHANGED vars
  BY <1>0, <1>12 DEF vars, ListsInv, ListsType, QueueInv, PrevInv, RingInv
<1> QED
  BY <1>1, <1>2, <1>3, <1>4, <1>5, <1>6, <1>7, <1>8, <1>9, <1>10, <1>11, <1>12 DEF Next

\* In every reachable state, whatever store start_kernel was stopped at and
\* whatever clone added since, the pointers represent a queue and a ring.
THEOREM ListsInvariant == Spec => []ListInv
<1>1. Init => ListInv
  BY InitLists DEF ListInv
<1>2. ListInv /\ [Next]_vars => ListInv'
  BY NextLists DEF ListInv
<1> QED
  BY <1>1, <1>2, PTL DEF Spec

\* The walk along the ring ends too, with at least the tasks of r.
LEMMA RingWalk ==
  ASSUME NEW q, NEW r, ListsInv(q, r)
  PROVE  Ends(next_task) /\ Elements(r) \subseteq Walked(next_task)
<1>1. CASE IsChain(next_task, r)
  BY <1>1, WalkChain
<1>2. CASE IsChain(next_task, Append(r, new))
  <2> DEFINE s == Append(r, new)
  <2>1. Ends(next_task) /\ Walked(next_task) = Elements(s)
    BY <1>2, WalkChain
  <2>2. r \in Seq(Task) /\ \A k \in 1 .. Len(r) : k \in 1 .. Len(s) /\ s[k] = r[k]
    BY DEF ListsInv, RingInv
  <2> HIDE DEF s
  <2>3. Elements(r) \subseteq Elements(s)
    BY <2>2 DEF Elements
  <2> QED
    BY <2>1, <2>3
<1> QED
  BY <1>1, <1>2 DEF ListsInv, RingInv

\* Whenever a timer interrupt lets the scheduler in, list_for_each and
\* for_each_task come back to their heads.
THEOREM SchedulerWalksEnd == Spec => []WalksEnd
<1>1. ListInv => WalksEnd
  <2> SUFFICES ASSUME NEW q, NEW r, ListsInv(q, r) PROVE WalksEnd
    BY DEF ListInv
  <2>1. Ends(next)
    BY WalkChain DEF ListsInv, QueueInv
  <2> QED
    BY <2>1, RingWalk DEF WalksEnd
<1> QED
  BY <1>1, ListsInvariant, PTL

\* Every task pick_next_task_nop can find is one reset_score gives ticks to.
THEOREM QueuedTasksGetTicks == Spec => []QueuedTasksOnRing
<1>1. ListInv => QueuedTasksOnRing
  <2> SUFFICES ASSUME NEW q, NEW r, ListsInv(q, r) PROVE QueuedTasksOnRing
    BY DEF ListInv
  <2>1. Walked(next) = Elements(q) /\ Elements(q) \subseteq Elements(r)
    BY WalkChain DEF ListsInv, QueueInv, RingInv
  <2> QED
    BY <2>1, RingWalk DEF QueuedTasksOnRing
<1> QED
  BY <1>1, ListsInvariant, PTL

\* When no list_add is half done, prev leads back along next.
THEOREM ListDelFindsNeighbours == Spec => []PrevLeadsBack
<1>1. ListInv => PrevLeadsBack
  <2> SUFFICES ASSUME NEW q, NEW r, ListsInv(q, r),
                      pc \in {"idle", "links1", "links2", "links3", "links4", "add1"},
                      NEW n \in Walked(next) \cup {Root}
               PROVE  prev[next[n]] = n
    BY DEF ListInv, PrevLeadsBack
  <2>1. IsChain(next, q) /\ Walked(next) = Elements(q) /\ Len(q) \in Nat
    BY WalkChain, ChainFits DEF ListsInv, QueueInv
  <2>2. PICK i \in 0 .. Len(q) : n = NodeAt(q, i)
    BY <2>1 DEF Elements, NodeAt
  <2>3. next[NodeAt(q, i)] = NodeAt(q, i + 1)
    BY <2>1 DEF IsChain
  <2>4. prev[NodeAt(q, i + 1)] = NodeAt(q, i)
    BY DEF ListsInv, PrevInv
  <2> QED
    BY <2>2, <2>3, <2>4
<1> QED
  BY <1>1, ListsInvariant, PTL

----------------------------------------------------------------------------
(* The refinement. *)

\* Seen through list_for_each the stores of list_add, and those of clone,
\* are one atomic enqueue, also when start_kernel is stopped between them:
\* Spec implements RunQueue.
THEOREM EnqueueAtomic == Spec => EnqueueIsAtomic
<1>1. Init => AbstractQueue!Init
  <2> SUFFICES ASSUME Init PROVE Walk(next) = <<>>
    BY DEF AbstractQueue!Init
  <2> QED
    BY InitLists, WalkChain DEF ListsInv, QueueInv
<1>2. ListInv /\ [Next]_vars => [AbstractQueue!Next]_(Walk(next))
  <2> SUFFICES ASSUME NEW q, NEW r, ListsInv(q, r), [Next]_vars
               PROVE  AbstractQueue!Next \/ Walk(next)' = Walk(next)
    BY DEF ListInv
  <2>1. PICK q2, r2 : ListsInv(q2, r2)' /\ Grows(q, q2)
    BY NextLists
  <2>2. IsChain(next, q) /\ IsChain(next', q2)
    BY <2>1 DEF ListsInv, QueueInv
  <2>3. Walk(next) = q /\ Walk(next') = q2
    BY <2>2, WalkChain
  <2>4. Walk(next)' = q2
    BY <2>3
  <2>5. CASE q2 = q
    BY <2>3, <2>4, <2>5
  <2>6. CASE \E p \in Task : p \notin Elements(q) /\ q2 = Push(p, q)
    <3>1. PICK p \in Task : p \notin Elements(q) /\ q2 = Push(p, q)
      BY <2>6
    <3>2. \A i \in 1 .. Len(Walk(next)) : Walk(next)[i] # p
      BY <2>3, <3>1 DEF Elements
    <3>3. Walk(next)' = <<p>> \o Walk(next)
      BY <2>3, <2>4, <3>1 DEF Push
    <3> QED
      BY <3>2, <3>3 DEF AbstractQueue!Next, AbstractQueue!Enqueue
  <2> QED
    BY <2>1, <2>5, <2>6 DEF Grows
<1> QED
  BY <1>1, <1>2, ListsInvariant, PTL DEF Spec, EnqueueIsAtomic, AbstractQueue!Spec
=============================================================================
