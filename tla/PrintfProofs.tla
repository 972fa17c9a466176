---------------------------- MODULE PrintfProofs ----------------------------
(***************************************************************************)
(* myprintf stays within its format, for every format.                      *)
(***************************************************************************)
EXTENDS Printf, WellFoundedInduction, TLAPS

\* Every non-empty set of natural numbers has a least element.
LEMMA LeastNat ==
  ASSUME NEW S, S \subseteq Nat, S # {}
  PROVE  \E m \in S : \A n \in S : m <= n
<1>1. PICK m \in S : \A n \in S : ~ (<<n, m>> \in OpToRel(<, Nat))
  BY NatLessThanWellFounded, WFMin, Zenon
<1>2. \A n \in S : ~ (n < m)
  BY <1>1 DEF OpToRel
<1> QED
  BY <1>2

----------------------------------------------------------------------------
(* The characters of a format.  FlattenSeq is defined by a recursive        *)
(* function.                                                                *)

\* (a name for \o, which the proofs need not look into)
Join(a, b) == a \o b

\* The first n sums of a sequence of sequences, as the defining equation.
IsFlat(f, ss, n) == f = [k \in 1 .. n |-> IF k = 1 THEN ss[k] ELSE Join(f[k - 1], ss[k])]

\* There is such a function for every length.
LEMMA FlatExists ==
  ASSUME NEW ss, NEW n \in Nat
  PROVE  \E f : IsFlat(f, ss, n)
<1> DEFINE S == {m \in Nat : ~ \E f : IsFlat(f, ss, m)}
<1> SUFFICES ASSUME S # {} PROVE FALSE
  OBVIOUS
<1>1. PICK m \in S : \A k \in S : m <= k
  BY LeastNat
<1>2. m # 0
  <2>1. IsFlat([k \in 1 .. 0 |-> ss[k]], ss, 0)
    BY DEF IsFlat
  <2> QED
    BY <2>1
<1>3. m - 1 \in Nat /\ m - 1 \notin S
  BY <1>1, <1>2
<1>4. PICK f : IsFlat(f, ss, m - 1)
  BY <1>3
<1> DEFINE g == [k \in 1 .. m |-> IF k = m THEN IF m = 1 THEN ss[m] ELSE Join(f[m - 1], ss[m])
                                 ELSE f[k]]
<1>5. \A k \in 1 .. m : g[k] = IF k = 1 THEN ss[k] ELSE Join(g[k - 1], ss[k])
  <2> SUFFICES ASSUME NEW k \in 1 .. m
               PROVE  g[k] = IF k = 1 THEN ss[k] ELSE Join(g[k - 1], ss[k])
    OBVIOUS
  <2>1. \A j \in 1 .. m - 1 : f[j] = IF j = 1 THEN ss[j] ELSE Join(f[j - 1], ss[j])
    BY <1>3, <1>4 DEF IsFlat
  <2>2. CASE k = m
    <3>1. CASE m = 1
      BY <2>2, <3>1
    <3>2. CASE m # 1
      <4>1. g[k - 1] = f[m - 1] /\ g[k] = Join(f[m - 1], ss[m])
        BY <1>2, <1>3, <2>2, <3>2
      <4> QED
        BY <2>2, <3>2, <4>1
    <3> QED
      BY <3>1, <3>2
  <2>3. CASE k # m
    <3>1. k \in 1 .. m - 1 /\ g[k] = f[k] /\ (k # 1 => g[k - 1] = f[k - 1])
      BY <1>3, <2>3
    <3> QED
      BY <2>1, <3>1
  <2> QED
    BY <2>2, <2>3
<1>6. IsFlat(g, ss, m)
  <2>1. g = [k \in 1 .. m |-> g[k]]
    OBVIOUS
  <2> HIDE DEF g
  <2> QED
    BY <1>5, <2>1 DEF IsFlat
<1> QED
  BY <1>1, <1>6

\* FlattenSeq is the last of the sums.
LEMMA FlattenUnfolds ==
  ASSUME NEW ss, Len(ss) \in Nat \ {0}
  PROVE  \E f : IsFlat(f, ss, Len(ss)) /\ FlattenSeq(ss) = f[Len(ss)]
<1> DEFINE f == CHOOSE h : IsFlat(h, ss, Len(ss))
<1>1. FlattenSeq(ss) = f[Len(ss)]
  BY DEF FlattenSeq, IsFlat, Join
<1>2. IsFlat(f, ss, Len(ss))
  BY FlatExists
<1> QED
  BY <1>1, <1>2

\* A flattened sequence of sequences is a sequence.
LEMMA FlattenType ==
  ASSUME NEW A, NEW ss \in Seq(Seq(A))
  PROVE  FlattenSeq(ss) \in Seq(A)
<1>1. CASE Len(ss) = 0
  <2>1. ss = <<>>
    BY <1>1
  <2>2. FlattenSeq(ss) = <<>>
    BY <1>1, <2>1 DEF FlattenSeq
  <2> QED
    BY <2>2
<1>2. CASE Len(ss) # 0
  <2>1. Len(ss) \in Nat \ {0} /\ \A k \in 1 .. Len(ss) : ss[k] \in Seq(A)
    BY <1>2
  <2>2. PICK f : IsFlat(f, ss, Len(ss)) /\ FlattenSeq(ss) = f[Len(ss)]
    BY <2>1, FlattenUnfolds
  <2> DEFINE S == {k \in 1 .. Len(ss) : f[k] \notin Seq(A)}
  <2>3. S = {}
    <3> SUFFICES ASSUME S # {} PROVE FALSE
      OBVIOUS
    <3>1. PICK k \in S : \A j \in S : k <= j
      <4>1. S \subseteq Nat
        OBVIOUS
      <4> HIDE DEF S
      <4> QED
        BY <4>1, LeastNat
    <3>2. f[k] = IF k = 1 THEN ss[k] ELSE Join(f[k - 1], ss[k])
      BY <2>2 DEF IsFlat
    <3>3. k \in 1 .. Len(ss) /\ f[k] \notin Seq(A) /\ ss[k] \in Seq(A)
      BY <2>1
    <3>4. k # 1
      BY <3>2, <3>3
    <3>5. k - 1 \in 1 .. Len(ss) /\ k - 1 \notin S
      BY <2>1, <3>1, <3>3, <3>4
    <3>6. f[k - 1] \in Seq(A)
      BY <3>5
    <3> HIDE DEF S
    <3>7. Join(f[k - 1], ss[k]) \in Seq(A)
      BY <3>3, <3>6 DEF Join
    <3> QED
      BY <3>2, <3>3, <3>4, <3>7
  <2> QED
    BY <2>1, <2>2, <2>3
<1> QED
  BY <1>1, <1>2

\* The format is a string.
LEMMA CharsType ==
  ASSUME format \in Seq(Piece)
  PROVE  chars \in Seq(STRING)
<1> DEFINE ss == [k \in 1 .. Len(format) |-> Spell(format[k])]
<1>1. \A p \in Piece : Spell(p) \in Seq(STRING)
  BY DEF Piece, Spell
<1>2. \A k \in 1 .. Len(format) : format[k] \in Piece
  OBVIOUS
<1>3. ss \in Seq(Seq(STRING))
  BY <1>1, <1>2
<1> HIDE DEF ss
<1>4. FlattenSeq(ss) \in Seq(STRING)
  BY <1>3, FlattenType
<1> QED
  BY <1>4 DEF chars, ss

----------------------------------------------------------------------------
(* Where `fmt' may stand. *)

\* `fmt' has passed a % in every part of the loop body but the first; while
\* the argument is formatted it stands on a character of the format, as the
\* loop steps on afterwards.
ScanInv ==
  /\ format \in Seq(Piece)
  /\ at \in {"for", "flags", "width", "precision", "qualifier", "convert", "number", "return"}
  /\ fmt \in 1 .. Len(chars) + 1
  /\ at \notin {"for", "number", "return"} => fmt > 1
  /\ at = "number" => fmt <= Len(chars)

\* Beyond the last character there is the terminator.
LEMMA BeforeEnd ==
  ASSUME format \in Seq(Piece), NEW k \in 1 .. Len(chars) + 1, Char(k) # NUL
  PROVE  k <= Len(chars)
BY CharsType DEF Char

\* scan_number stops at the terminator at the latest.
LEMMA ScanNumber ==
  ASSUME format \in Seq(Piece), NEW k \in 1 .. Len(chars) + 1
  PROVE  scan_number(k).end \in k .. Len(chars) + 1
<1> DEFINE S == {j \in k .. Len(chars) + 1 : ~is_digit(Char(j))}
<1>1. Len(chars) \in Nat
  BY CharsType
<1>2. ~is_digit(NUL)
  BY DEF is_digit, Digit, UPPER, NUL
<1>3. Len(chars) + 1 \in S
  BY <1>1, <1>2 DEF Char
<1>4. S \subseteq Nat
  BY <1>1
<1>5. scan_number(k).end = Min(S)
  BY DEF scan_number
<1>6. S \subseteq k .. Len(chars) + 1
  OBVIOUS
<1> HIDE DEF S
<1>7. \E m \in S : \A n \in S : m <= n
  BY <1>3, <1>4, LeastNat
<1>8. Min(S) \in S
  BY <1>7 DEF Min
<1> QED
  BY <1>5, <1>6, <1>8

\* The scan begins at the first character.
LEMMA InitScan == Init => ScanInv
<1> SUFFICES ASSUME Init PROVE ScanInv
  OBVIOUS
<1>1. format \in Seq(Piece) /\ fmt = 1 /\ at = "for"
  BY PrintfAssumption DEF Init
<1>2. Len(chars) \in Nat
  BY <1>1, CharsType
<1> QED
  BY <1>1, <1>2 DEF ScanInv

\* One step per part of the loop body.
LEMMA NextScan == ScanInv /\ [Next]_vars => ScanInv'
<1> SUFFICES ASSUME ScanInv, [Next]_vars PROVE ScanInv'
  OBVIOUS
<1>1. /\ format \in Seq(Piece) /\ Len(chars) \in Nat /\ fmt \in 1 .. Len(chars) + 1
      /\ at \notin {"for", "number", "return"} => fmt > 1
      /\ at = "number" => fmt <= Len(chars)
  BY CharsType DEF ScanInv
<1>2. format' = format
  <2>1. CASE Scan \/ Flags \/ Width \/ Precision \/ Qualifier
    BY <2>1 DEF Scan, Flags, Width, Precision, Qualifier
  <2>2. CASE Char_c \/ String_s \/ Count_n \/ Pointer_p
    BY <2>2 DEF Char_c, String_s, Count_n, Pointer_p
  <2>3. CASE Base \/ Default \/ Number \/ Return \/ UNCHANGED vars
    BY <2>3 DEF Base, Default, Number, Return, vars
  <2> QED
    BY <2>1, <2>2, <2>3 DEF Next
<1>3. chars' = chars
  BY <1>2 DEF chars
<1>4. \A k \in 1 .. Len(chars) + 1 : Char(k) # NUL => k <= Len(chars)
  BY <1>1, BeforeEnd
<1> USE DEF NUL
<1>5. CASE Scan
  BY <1>1, <1>2, <1>3, <1>4, <1>5 DEF Scan, ScanInv
<1>6. CASE Flags
  <2>1. /\ at = "flags" /\ at' \in {"flags", "width"}
        /\ fmt' = fmt \/ (fmt' = fmt + 1 /\ Char(fmt) # NUL)
    BY <1>6 DEF Flags, FlagChar
  <2> QED
    BY <1>1, <1>2, <1>3, <1>4, <2>1 DEF ScanInv
<1>7. CASE Width
  <2>1. scan_number(fmt).end \in fmt .. Len(chars) + 1
    BY <1>1, ScanNumber
  <2>2. at = "width" /\ at' = "precision" /\ (fmt' = fmt \/ fmt' = scan_number(fmt).end)
    BY <1>7 DEF Width
  <2> QED
    BY <1>1, <1>2, <1>3, <2>1, <2>2 DEF ScanInv
<1>8. CASE Precision
  <2>1. at = "precision" /\ at' = "qualifier"
    BY <1>8 DEF Precision
  <2>2. CASE Char(fmt) # "."
    BY <1>1, <1>2, <1>3, <1>8, <2>1, <2>2 DEF Precision, ScanInv
  <2>3. CASE Char(fmt) = "."
    <3>1. fmt + 1 \in 1 .. Len(chars) + 1
      BY <1>1, <1>4, <2>3
    <3>2. scan_number(fmt + 1).end \in fmt + 1 .. Len(chars) + 1
      BY <1>1, <3>1, ScanNumber
    <3>3. fmt' = fmt + 1 \/ fmt' = scan_number(fmt + 1).end
      BY <1>8, <2>3 DEF Precision
    <3> QED
      BY <1>1, <1>2, <1>3, <2>1, <3>1, <3>2, <3>3 DEF ScanInv
  <2> QED
    BY <2>2, <2>3
<1>9. CASE Qualifier
  <2>1. at = "qualifier" /\ at' = "convert"
    BY <1>9 DEF Qualifier
  <2>2. CASE Char(fmt) \notin {"h", "l", "L"}
    BY <1>1, <1>2, <1>3, <1>9, <2>1, <2>2 DEF Qualifier, ScanInv
  <2>3. CASE Char(fmt) \in {"h", "l", "L"}
    <3>1. fmt + 1 \in 1 .. Len(chars) + 1
      BY <1>1, <1>4, <2>3
    <3>2. fmt' = fmt + 1 \/ (fmt' = fmt + 2 /\ Char(fmt + 1) = "l")
      BY <1>9, <2>3 DEF Qualifier
    <3>3. Char(fmt + 1) = "l" => fmt + 1 <= Len(chars)
      BY <1>4, <3>1
    <3> QED
      BY <1>1, <1>2, <1>3, <2>1, <3>1, <3>2, <3>3 DEF ScanInv
  <2> QED
    BY <2>2, <2>3
<1>10. CASE Char_c \/ String_s \/ Count_n \/ Pointer_p
  <2>1. Char(fmt) \in {"c", "s", "n", "p"} /\ fmt' = fmt + 1 /\ at' = "for"
    BY <1>10 DEF Char_c, String_s, Count_n, Pointer_p, Emit
  <2> QED
    BY <1>1, <1>2, <1>3, <1>4, <2>1 DEF ScanInv
<1>11. CASE Base
  <2>1. Char(fmt) # NUL /\ at' = "number" /\ fmt' = fmt
    BY <1>11 DEF Base
  <2> QED
    BY <1>1, <1>2, <1>3, <1>4, <2>1 DEF ScanInv
<1>12. CASE Default
  <2>1. /\ at = "convert" /\ at' = "number"
        /\ fmt' = IF Char(fmt) = NUL THEN fmt - 1 ELSE fmt
    BY <1>12 DEF Default
  <2> QED
    BY <1>1, <1>2, <1>3, <1>4, <2>1 DEF ScanInv
<1>13. CASE Number
  <2>1. at = "number" /\ at' = "for" /\ fmt' = fmt + 1
    BY <1>13 DEF Number, Emit
  <2> QED
    BY <1>1, <1>2, <1>3, <2>1 DEF ScanInv
<1>14. CASE Return \/ UNCHANGED vars
  BY <1>2, <1>3, <1>14 DEF Return, vars, ScanInv
<1> QED
  BY <1>5, <1>6, <1>7, <1>8, <1>9, <1>10, <1>11, <1>12, <1>13, <1>14 DEF Next

\* myprintf never reads beyond the terminator of its format, a directive cut
\* off there included.
THEOREM NeverPastTerminator == Spec => []StopsAtNul
<1>1. ScanInv => StopsAtNul
  <2> SUFFICES ASSUME ScanInv PROVE StopsAtNul
    OBVIOUS
  <2>1. Len(chars) \in Nat
    BY CharsType DEF ScanInv
  <2> QED
    BY <2>1 DEF ScanInv, StopsAtNul
<1> QED
  BY <1>1, InitScan, NextScan, PTL DEF Spec
=============================================================================
