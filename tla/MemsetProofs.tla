---------------------------- MODULE MemsetProofs ----------------------------
(***************************************************************************)
(* What __memset writes, for every address, every length, every block size  *)
(* and every size of memory.                                                *)
(***************************************************************************)
EXTENDS Memset, TLAPS

\* How far an address lies past a boundary.
LEMMA HeadSize == ASSUME NEW a \in Nat PROVE head_size(a) \in 0 .. ALIGN - 1
BY MemsetAssumption DEF head_size

\* The subtraction in size_t is exact for what fits into memory.
LEMMA SizeFits == ASSUME NEW n \in 0 .. MEM PROVE n % SIZE_MOD = n
BY MemsetAssumption

\* The number of whole blocks in a length, and the bytes of its tail.
Blocks(n) == n \div ALIGN
TailSize(n) == n % ALIGN

\* Whole blocks and the tail make up the length.
LEMMA BlocksAndTail ==
  ASSUME NEW n \in Nat
  PROVE  /\ TailSize(n) \in 0 .. ALIGN - 1
         /\ Blocks(n) \in Nat
         /\ n = ALIGN * Blocks(n) + TailSize(n)
<1> DEFINE q == Blocks(n)
           r == n - ALIGN * q
<1>1. q \in Nat
  BY MemsetAssumption DEF Blocks
<1>2. ALIGN * q <= n /\ n < ALIGN * q + ALIGN
  BY MemsetAssumption DEF Blocks
<1> HIDE DEF q
<1>3. r \in 0 .. ALIGN - 1 /\ n = ALIGN * q + r
  BY <1>1, <1>2, MemsetAssumption
<1> HIDE DEF r
<1>4. TailSize(n) = r
  BY <1>1, <1>3, MemsetAssumption DEF TailSize
<1> QED
  BY <1>1, <1>3, <1>4 DEF q

\* Counting in blocks: whole blocks are natural numbers, at least one of them
\* fills a block, and taking one away leaves one fewer.
LEMMA Multiples ==
  ASSUME NEW k \in Nat
  PROVE  /\ ALIGN * k \in Nat
         /\ k # 0 => ALIGN <= ALIGN * k
         /\ ALIGN * k - ALIGN = ALIGN * (k - 1)
         /\ k = 1 => ALIGN * k = ALIGN
<1> USE MemsetAssumption
<1>1. ALIGN * k \in Nat
  OBVIOUS
<1>2. k # 0 => ALIGN <= ALIGN * k
  OBVIOUS
<1>3. ALIGN * k - ALIGN = ALIGN * (k - 1)
  OBVIOUS
<1>4. k = 1 => ALIGN * k = ALIGN
  OBVIOUS
<1> QED
  BY <1>1, <1>2, <1>3, <1>4

Rest == count - head_size(s)

\* Where the pointer is at each point of __memset, and what is still to be
\* written: all the bytes behind the pointer have been.
MemsetInv ==
  /\ s \in Nat /\ count \in Nat /\ s + count <= MEM
  /\ LongEnough =>
       /\ p \in Nat /\ todo \in Nat /\ s <= p
       /\ written = s .. p - 1
       /\ pc \in {"head", "blocks", "tail", "done"}
       /\ pc = "head" => p + todo = s + head_size(s)
       /\ pc = "blocks" =>
            /\ left = Rest /\ Rest > ALIGN
            /\ \E k \in Nat \ {0} : todo = ALIGN * k
            /\ p + todo + TailSize(left) = s + count
       /\ pc = "tail" => Rest > ALIGN /\ p + todo = s + count
       /\ pc = "done" =>
            p = IF Rest > ALIGN THEN s + count ELSE s + head_size(s)

\* A store at the pointer extends what is written.
LEMMA StoreExtends ==
  ASSUME NEW a \in Nat, NEW b \in Nat, NEW n \in Nat, a <= b
  PROVE  (a .. b - 1) \cup (b .. b + n - 1) = a .. b + n - 1
OBVIOUS

\* Every step of __memset preserves MemsetInv.
LEMMA NextMemset == MemsetInv /\ [Next]_vars => MemsetInv'
<1> SUFFICES ASSUME MemsetInv, [Next]_vars PROVE MemsetInv'
  OBVIOUS
<1> USE DEF MemsetInv
<1> ALIGN \in Nat \ {0} /\ MEM \in Nat
  BY MemsetAssumption
<1>0. /\ UNCHANGED <<s, count>> /\ Rest' = Rest /\ LongEnough' = LongEnough
      /\ head_size(s)' = head_size(s)
  BY DEF Next, memset_1bytes, HeadDone, memset_16bytes_asm, Return, Abort, Store, vars,
         Rest, LongEnough, head_size
<1>1. CASE ~LongEnough
  BY <1>0, <1>1
<1>2. CASE LongEnough
  <2>0. /\ head_size(s) \in 0 .. ALIGN - 1 /\ head_size(s) <= count
        /\ Rest \in 0 .. MEM /\ Rest \in Nat /\ Rest = count - head_size(s)
    <3>1. head_size(s) \in 0 .. ALIGN - 1
      BY HeadSize
    <3>2. head_size(s) <= count
      BY <1>2 DEF LongEnough
    <3> QED
      BY <3>1, <3>2 DEF Rest
  <2>types. s \in Nat /\ count \in Nat /\ p \in Nat /\ todo \in Nat /\ s <= p
    BY <1>2
  <2>1. CASE memset_1bytes
    <3>1. pc \in {"head", "tail"} /\ todo > 0 /\ p + 1 <= MEM
      BY <1>2, <2>0, <2>1 DEF memset_1bytes
    <3>2. Store(1) /\ todo' = todo - 1 /\ UNCHANGED <<s, count, left, pc>>
      BY <1>2, <2>1, <3>1 DEF memset_1bytes, Abort
    <3>3. p' = p + 1 /\ written' = s .. p' - 1
      BY <1>2, <3>2, StoreExtends DEF Store
    <3>4. p' \in Nat /\ todo' \in Nat /\ s' <= p' /\ p' + todo' = p + todo
      BY ONLY <2>types, <3>1, <3>2, <3>3
    <3>5. p + todo = IF pc = "head" THEN s + head_size(s) ELSE s + count
      BY <1>2, <3>1
    <3>6. pc = "tail" => Rest > ALIGN
      BY <1>2
    <3> HIDE DEF MemsetInv
    <3>7. s \in Nat /\ count \in Nat /\ s + count <= MEM
      BY DEF MemsetInv
    <3> QED
      BY <1>0, <3>1, <3>2, <3>3, <3>4, <3>5, <3>6, <3>7 DEF MemsetInv
  <2>2. CASE HeadDone
    <3>1. left' = Rest
      BY <2>0, <2>2, SizeFits DEF HeadDone
    <3>2. p = s + head_size(s) /\ UNCHANGED <<p, written>>
      BY <1>2, <2>0, <2>2 DEF HeadDone
    <3>3. CASE Rest > ALIGN
      <4> DEFINE q == Blocks(Rest)
                 r == TailSize(Rest)
      <4>1. todo' = ALIGN * q /\ pc' = "blocks" /\ TailSize(left') = r
        BY <2>2, <3>1, <3>3 DEF HeadDone, Blocks
      <4>2. r \in 0 .. ALIGN - 1 /\ q \in Nat /\ Rest = ALIGN * q + r
        BY <2>0, BlocksAndTail
      <4> HIDE DEF q, r
      <4>3. q # 0
        BY <3>3, <4>2
      <4>4. todo' \in Nat /\ \E k \in Nat \ {0} : todo' = ALIGN * k
        BY <4>1, <4>2, <4>3, Multiples
      <4>5. p' + todo' + TailSize(left') = s' + count'
        <5> HIDE DEF MemsetInv, Rest
        <5>1. head_size(s) \in Nat /\ r \in Nat
          BY <2>0, <4>2
        <5>2. PICK n \in Nat : n = ALIGN * q
          BY <4>2, Multiples
        <5>3. todo' = n /\ count - head_size(s) = n + r
          BY ONLY <2>0, <4>1, <4>2, <5>2
        <5>4. p' = s + head_size(s) /\ TailSize(left') = r /\ s' = s /\ count' = count
          BY ONLY <1>0, <3>2, <4>1
        <5> QED
          BY ONLY <2>types, <5>1, <5>3, <5>4
      <4> QED
        BY <1>0, <1>2, <3>1, <3>2, <3>3, <4>1, <4>4, <4>5
    <3>4. CASE ~(Rest > ALIGN)
      BY <1>0, <1>2, <2>2, <3>1, <3>2, <3>4 DEF HeadDone
    <3> QED
      BY <3>3, <3>4
  <2>3. CASE memset_16bytes_asm
    <3> DEFINE r == TailSize(left)
    <3>1. pc = "blocks" /\ left = Rest /\ Rest > ALIGN /\ r \in 0 .. ALIGN - 1
      BY <1>2, <2>0, <2>3, BlocksAndTail DEF memset_16bytes_asm
    <3>2. PICK k \in Nat \ {0} : todo = ALIGN * k
      BY <1>2, <3>1
    <3>3. ALIGN <= todo /\ todo - ALIGN = ALIGN * (k - 1) /\ (todo # ALIGN => k # 1)
      BY <3>2, Multiples
    <3>4. p + todo + r = s + count
      BY <1>2, <3>1
    <3>5. p + ALIGN <= MEM
      <4>1. s + count <= MEM /\ ALIGN \in Nat /\ MEM \in Nat /\ ALIGN <= todo
        BY <3>3
      <4>2. r \in Nat
        BY <3>1
      <4> HIDE DEF r
      <4> QED
        BY ONLY <2>types, <3>4, <4>1, <4>2
    <3>6. /\ Store(ALIGN) /\ UNCHANGED <<s, count, left>>
          /\ IF todo = ALIGN THEN todo' = r /\ pc' = "tail"
             ELSE todo' = todo - ALIGN /\ pc' = "blocks"
      BY <1>2, <2>3, <3>5 DEF memset_16bytes_asm, Abort, TailSize
    <3>7. p' = p + ALIGN /\ written' = s .. p' - 1
      BY <1>2, <3>6, StoreExtends DEF Store
    <3>8. TailSize(left') = r
      BY <3>6
    <3> HIDE DEF r
    <3>9. CASE todo = ALIGN
      BY <1>0, <1>2, <3>1, <3>4, <3>6, <3>7, <3>9
    <3>10. CASE todo # ALIGN
      <4>1. \E m \in Nat \ {0} : todo' = ALIGN * m
        BY <3>2, <3>3, <3>6, <3>10
      <4>2. todo' \in Nat /\ p' + todo' + TailSize(left') = s' + count'
        <5> HIDE DEF MemsetInv
        <5> QED
          BY <2>types, <3>1, <3>3, <3>4, <3>6, <3>7, <3>8, <3>10
      <4> QED
        <5>1. p' \in Nat /\ s <= p'
          BY <1>2, <3>7
        <5>2. pc' = "blocks" /\ left' = Rest
          BY <3>1, <3>6, <3>10
        <5> QED
          BY <1>0, <1>2, <3>1, <3>6, <3>7, <4>1, <4>2, <5>1, <5>2
    <3> QED
      BY <3>9, <3>10
  <2>4. CASE Return
    BY <1>0, <1>2, <2>4 DEF Return
  <2>5. CASE UNCHANGED vars
    BY <1>0, <1>2, <2>5 DEF vars
  <2> QED
    BY <2>1, <2>2, <2>3, <2>4, <2>5 DEF Next
<1> QED
  BY <1>1, <1>2

\* At the call nothing is written.
LEMMA InitMemset == Init => MemsetInv
<1> SUFFICES ASSUME Init PROVE MemsetInv
  OBVIOUS
<1>1. s \in Nat /\ count \in Nat /\ s + count <= MEM
  BY MemsetAssumption DEF Init
<1>2. head_size(s) \in Nat
  BY <1>1, HeadSize, MemsetAssumption
<1>3. written = s .. p - 1
  BY <1>1 DEF Init
<1> QED
  BY <1>1, <1>2, <1>3 DEF Init, MemsetInv

\* MemsetInv holds at every point of __memset.
THEOREM MemsetInvariant == Spec => []MemsetInv
<1> QED
  BY InitMemset, NextMemset, PTL DEF Spec

\* No store leaves the object, for every alignment and every length that
\* reaches past the head.
THEOREM NeverBeyondObject == Spec => []StaysInObject
<1>1. MemsetInv => StaysInObject
  <2> SUFFICES ASSUME MemsetInv, LongEnough
               PROVE  written \subseteq Object /\ pc # "abort"
    BY DEF StaysInObject
  <2>1. p <= s + count
    <3>1. head_size(s) \in 0 .. ALIGN - 1 /\ head_size(s) <= count
      BY HeadSize DEF MemsetInv, LongEnough
    <3>2. pc = "blocks" => TailSize(left) \in 0 .. ALIGN - 1
      <4>1. pc = "blocks" => left \in Nat
        BY <3>1, MemsetAssumption DEF MemsetInv, Rest
      <4> QED
        BY <4>1, BlocksAndTail
    <3> QED
      BY <3>1, <3>2, MemsetAssumption DEF MemsetInv
  <2> QED
    BY <2>1 DEF MemsetInv, Object
<1> QED
  BY <1>1, MemsetInvariant, PTL

\* The object is filled exactly when nothing, or more than one block, is left
\* after the head: a rest of 1 .. ALIGN bytes is never written, whatever the
\* block size.
THEOREM FilledExactlyWhen == Spec => []FillsObject
<1>1. MemsetInv => FillsObject
  <2> SUFFICES ASSUME MemsetInv, pc = "done", LongEnough
               PROVE  written = Object <=> Rest = 0 \/ Rest > ALIGN
    BY DEF FillsObject, Rest
  <2>1. head_size(s) \in 0 .. ALIGN - 1 /\ head_size(s) <= count /\ Rest = count - head_size(s)
    BY HeadSize DEF MemsetInv, LongEnough, Rest
  <2>2. /\ s \in Nat /\ count \in Nat /\ written = s .. p - 1
        /\ p = IF Rest > ALIGN THEN s + count ELSE s + head_size(s)
    BY DEF MemsetInv
  <2>3. CASE Rest = 0 \/ Rest > ALIGN
    BY <2>1, <2>2, <2>3, MemsetAssumption DEF Object
  <2>4. CASE ~(Rest = 0 \/ Rest > ALIGN)
    <3>1. p \in Object /\ p \notin written
      BY <2>1, <2>2, <2>4, MemsetAssumption DEF Object
    <3> QED
      BY <2>4, <3>1
  <2> QED
    BY <2>3, <2>4
<1> QED
  BY <1>1, MemsetInvariant, PTL
=============================================================================
