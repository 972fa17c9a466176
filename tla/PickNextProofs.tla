--------------------------- MODULE PickNextProofs ---------------------------
(***************************************************************************)
(* The loop of pick_next_task_nop computes what SchedNop defines, for every *)
(* queue, all counters and every slice.                                     *)
(***************************************************************************)
EXTENDS PickNext, TLAPS

\* The first of the largest counters is unique: best_of is that task.
LEMMA BestUnique ==
  ASSUME NEW T, NEW q \in Seq(T), NEW cnt \in [T -> 0 .. FullSlice],
         NEW k \in 1 .. Len(q), IsBest(q, cnt, k)
  PROVE  best_of(q, cnt) = q[k]
<1> DEFINE b == CHOOSE j \in 1 .. Len(q) : IsBest(q, cnt, j)
<1>1. b \in 1 .. Len(q) /\ IsBest(q, cnt, b)
  OBVIOUS
<1>2. \A j \in 1 .. Len(q) : cnt[q[j]] \in Int
  BY SliceAssumption DEF FullSlice
<1>3. b = k
  <2> HIDE DEF b
  <2>1. ~(b < k) /\ ~(k < b)
    BY <1>1, <1>2 DEF IsBest, goodness
  <2> QED
    BY <1>1, <2>1
<1> QED
  BY <1>3 DEF best_of

\* `next' and c are the first of the largest counters among the first n.
BestOfFirst(n) ==
  \E k \in 1 .. n :
    /\ next = rq[k] /\ c = counter[rq[k]]
    /\ \A j \in 1 .. n : counter[rq[j]] <= c
    /\ \A j \in 1 .. (k - 1) : counter[rq[j]] < c

\* The counters are those of the call, or reset because all were used up.
CountersReset ==
  \/ counter = start
  \/ all_used_up(rq, start) /\ counter = reset_score(start, Task)

\* The invariant of the loop.
LoopInv ==
  /\ rq \in Seq(Task) /\ rq # <<>>
  /\ start \in [Task -> 0 .. FullSlice]
  /\ counter \in [Task -> 0 .. FullSlice]
  /\ CountersReset
  /\ pc \in {"repeat", "scan", "return"}
  /\ pc = "scan" =>
       /\ tmp \in 1 .. Len(rq) + 1
       /\ IF tmp = 1 THEN c = -1000 ELSE BestOfFirst(tmp - 1)
  /\ pc = "return" => BestOfFirst(Len(rq)) /\ c # 0

\* LoopInv holds at the call.
LEMMA InitLoop == Init => LoopInv
<1> SUFFICES ASSUME Init PROVE LoopInv
  OBVIOUS
<1>1. PICK n \in 1 .. Cardinality(Task) : rq \in [1 .. n -> Task]
  BY DEF Init, Queues
<1>2. rq \in Seq(Task) /\ rq # <<>>
  BY <1>1
<1> QED
  BY <1>2 DEF Init, LoopInv, CountersReset

\* One round of list_for_each.
LEMMA ScanLoop ==
  ASSUME LoopInv, Scan PROVE LoopInv'
<1> USE DEF LoopInv, Scan
<1>1. /\ tmp \in 1 .. Len(rq) /\ Len(rq) \in Nat /\ tmp' = tmp + 1
      /\ tmp' \in 1 .. Len(rq) + 1 /\ tmp' # 1 /\ tmp' - 1 = tmp
  OBVIOUS
<1>2. \A j \in 1 .. Len(rq) : counter[rq[j]] \in Nat
  BY SliceAssumption DEF FullSlice
<1>3. tmp # 1 => BestOfFirst(tmp - 1)
  OBVIOUS
<1>4. CASE counter[rq[tmp]] > c
  <2>1. c' = counter[rq[tmp]] /\ next' = rq[tmp] /\ UNCHANGED <<counter, rq>>
    BY <1>4 DEF goodness
  <2>2. \A j \in 1 .. (tmp - 1) : counter[rq[j]] < counter[rq[tmp]]
    <3>1. CASE tmp = 1
      BY <3>1
    <3>2. CASE tmp # 1
      <4>1. PICK k \in 1 .. tmp - 1 :
              c = counter[rq[k]] /\ \A j \in 1 .. tmp - 1 : counter[rq[j]] <= c
        BY <1>3, <3>2 DEF BestOfFirst
      <4>2. c \in Nat
        BY <1>1, <1>2, <4>1
      <4>3. \A j \in 1 .. tmp - 1 : j \in 1 .. Len(rq) /\ counter[rq[j]] \in Nat
        BY <1>1, <1>2
      <4>4. counter[rq[tmp]] \in Nat
        BY <1>1, <1>2
      <4> HIDE DEF LoopInv, Scan
      <4> QED
        BY <1>4, <4>1, <4>2, <4>3, <4>4
    <3> QED
      BY <3>1, <3>2
  <2>3. \A j \in 1 .. tmp : counter[rq[j]] <= counter[rq[tmp]]
    BY <1>1, <1>2, <2>2
  <2>4. \E k \in 1 .. tmp :
          /\ next' = rq[k] /\ c' = counter[rq[k]]
          /\ \A j \in 1 .. tmp : counter[rq[j]] <= c'
          /\ \A j \in 1 .. (k - 1) : counter[rq[j]] < c'
    BY <1>1, <2>1, <2>2, <2>3
  <2>5. BestOfFirst(tmp - 1)'
    BY <1>1, <2>1, <2>4 DEF BestOfFirst
  <2> QED
    BY <1>1, <2>5 DEF CountersReset
<1>5. CASE ~(counter[rq[tmp]] > c)
  <2>1. UNCHANGED <<c, next, counter, rq>>
    BY <1>5 DEF goodness
  <2>2. tmp # 1
    BY <1>1, <1>2, <1>5
  <2>3. BestOfFirst(tmp)
    BY <1>1, <1>2, <1>3, <1>5, <2>2 DEF BestOfFirst
  <2>4. BestOfFirst(tmp - 1)'
    BY <1>1, <2>1, <2>3 DEF BestOfFirst
  <2> QED
    BY <1>1, <2>4 DEF CountersReset
<1> QED
  BY <1>4, <1>5

\* The test of c at the end of list_for_each.
LEMMA TestLoop ==
  ASSUME LoopInv, Test PROVE LoopInv'
<1> USE DEF LoopInv, Test
<1>1. tmp = Len(rq) + 1 /\ Len(rq) \in Nat /\ Len(rq) # 0 /\ tmp - 1 = Len(rq)
  OBVIOUS
<1>2. PICK k \in 1 .. Len(rq) :
        /\ next = rq[k] /\ c = counter[rq[k]]
        /\ \A j \in 1 .. Len(rq) : counter[rq[j]] <= c
        /\ \A j \in 1 .. (k - 1) : counter[rq[j]] < c
  BY <1>1 DEF BestOfFirst
<1>3. CASE c # 0
  BY <1>1, <1>3 DEF CountersReset, BestOfFirst
<1>4. CASE c = 0
  <2>1. counter = start
    <3>1. \A t \in Task : reset_score(start, Task)[t] = FullSlice
      BY DEF reset_score
    <3>2. rq[k] \in Task
      OBVIOUS
    <3> QED
      BY <1>2, <1>4, <3>1, <3>2, SliceAssumption DEF CountersReset, FullSlice
  <2>2. IsBest(rq, start, k)
    BY <1>2, <2>1 DEF IsBest, goodness
  <2>3. all_used_up(rq, start)
    BY <1>2, <1>4, <2>1, <2>2, BestUnique DEF all_used_up, goodness
  <2>4. counter' = reset_score(start, Task) /\ pc' = "repeat"
    BY <1>4, <2>1
  <2>5. counter' \in [Task -> 0 .. FullSlice]
    BY <2>4, SliceAssumption DEF reset_score, FullSlice
  <2> QED
    BY <2>3, <2>4, <2>5 DEF CountersReset
<1> QED
  BY <1>3, <1>4

\* LoopInv at the return gives the result.
LEMMA LoopResult == LoopInv => LoopComputesPick
<1> SUFFICES ASSUME LoopInv, pc = "return"
             PROVE  /\ next = pick_next_task(rq, start, Task)
                    /\ counter = pick_scores(rq, start, Task)
  BY DEF LoopComputesPick
<1>1. PICK k \in 1 .. Len(rq) :
        /\ next = rq[k] /\ c = counter[rq[k]]
        /\ \A j \in 1 .. Len(rq) : counter[rq[j]] <= c
        /\ \A j \in 1 .. (k - 1) : counter[rq[j]] < c
  BY DEF LoopInv, BestOfFirst
<1>2. IsBest(rq, counter, k)
  BY <1>1 DEF IsBest, goodness
<1>3. best_of(rq, counter) = rq[k]
  BY <1>2, BestUnique DEF LoopInv
<1>4. counter = pick_scores(rq, start, Task)
  <2>1. CASE counter = start
    BY <1>1, <1>3, <2>1 DEF LoopInv, pick_scores, all_used_up, goodness
  <2>2. CASE all_used_up(rq, start) /\ counter = reset_score(start, Task)
    BY <2>2 DEF pick_scores
  <2> QED
    BY <2>1, <2>2 DEF LoopInv, CountersReset
<1> QED
  BY <1>1, <1>3, <1>4 DEF pick_next_task

\* pick_next_task_nop returns, if it returns, the task nearest the head among
\* those with the most ticks left, and has reset the counters exactly when
\* all of them were used up.
THEOREM LoopCorrect == Spec => []LoopComputesPick
<1>1. Init => LoopInv
  BY InitLoop
<1>2. LoopInv /\ [Next]_vars => LoopInv'
  <2> SUFFICES ASSUME LoopInv, [Next]_vars PROVE LoopInv'
    OBVIOUS
  <2>1. CASE Repeat
    BY <2>1 DEF Repeat, LoopInv, CountersReset
  <2>2. CASE UNCHANGED vars
    BY <2>2 DEF vars, LoopInv, CountersReset, BestOfFirst
  <2> QED
    BY <2>1, <2>2, ScanLoop, TestLoop DEF Next
<1> QED
  BY <1>1, <1>2, LoopResult, PTL DEF Spec
=============================================================================
