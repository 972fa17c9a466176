--------------------------- MODULE ConsoleProofs ---------------------------
(***************************************************************************)
(* printk and the shell, for every number of threads, every text and every  *)
(* size of the buffers.                                                     *)
(***************************************************************************)
EXTENDS Console, WellFoundedInduction, TLAPS

\* Every non-empty set of natural numbers has a least element.
LEMMA LeastNat ==
  ASSUME NEW S, S \subseteq Nat, S # {}
  PROVE  \E m \in S : \A n \in S : m <= n
<1>1. PICK m \in S : \A n \in S : ~ (<<n, m>> \in OpToRel(<, Nat))
  BY NatLessThanWellFounded, WFMin, Zenon
<1>2. \A n \in S : ~ (n < m)
  BY <1>1 DEF OpToRel
<1> QED
  BY <1>2

----------------------------------------------------------------------------
(* What putchar sends of a text, character by character.  FlattenSeq is     *)
(* defined by a recursive function.                                         *)

\* (a name for \o, which the proofs need not look into)
Join(a, b) == a \o b

\* The first n sums of a sequence of sequences, as the defining equation.
IsFlat(f, ss, n) == f = [k \in 1 .. n |-> IF k = 1 THEN ss[k] ELSE Join(f[k - 1], ss[k])]

\* There is such a function for every length.
LEMMA FlatExists ==
  ASSUME NEW ss, NEW n \in Nat
  PROVE  \E f : IsFlat(f, ss, n)
<1> DEFINE S == {m \in Nat : ~ \E f : IsFlat(f, ss, m)}
<1> SUFFICES ASSUME S # {} PROVE FALSE
  OBVIOUS
<1>1. PICK m \in S : \A k \in S : m <= k
  BY LeastNat
<1>2. m # 0
  <2>1. IsFlat([k \in 1 .. 0 |-> ss[k]], ss, 0)
    BY DEF IsFlat
  <2> QED
    BY <2>1
<1>3. m - 1 \in Nat /\ m - 1 \notin S
  BY <1>1, <1>2
<1>4. PICK f : IsFlat(f, ss, m - 1)
  BY <1>3
<1> DEFINE g == [k \in 1 .. m |-> IF k = m THEN IF m = 1 THEN ss[m] ELSE Join(f[m - 1], ss[m])
                                 ELSE f[k]]
<1>5. \A k \in 1 .. m : g[k] = IF k = 1 THEN ss[k] ELSE Join(g[k - 1], ss[k])
  <2> SUFFICES ASSUME NEW k \in 1 .. m
               PROVE  g[k] = IF k = 1 THEN ss[k] ELSE Join(g[k - 1], ss[k])
    OBVIOUS
  <2>1. \A j \in 1 .. m - 1 : f[j] = IF j = 1 THEN ss[j] ELSE Join(f[j - 1], ss[j])
    BY <1>3, <1>4 DEF IsFlat
  <2>2. CASE k = m
    <3>1. CASE m = 1
      BY <2>2, <3>1
    <3>2. CASE m # 1
      <4>1. g[k - 1] = f[m - 1] /\ g[k] = Join(f[m - 1], ss[m])
        BY <1>2, <1>3, <2>2, <3>2
      <4> QED
        BY <2>2, <3>2, <4>1
    <3> QED
      BY <3>1, <3>2
  <2>3. CASE k # m
    <3>1. k \in 1 .. m - 1 /\ g[k] = f[k] /\ (k # 1 => g[k - 1] = f[k - 1])
      BY <1>3, <2>3
    <3> QED
      BY <2>1, <3>1
  <2> QED
    BY <2>2, <2>3
<1>6. IsFlat(g, ss, m)
  <2>1. g = [k \in 1 .. m |-> g[k]]
    OBVIOUS
  <2> HIDE DEF g
  <2> QED
    BY <1>5, <2>1 DEF IsFlat
<1> QED
  BY <1>1, <1>6

\* Two such functions agree as far as their sequences do.
LEMMA FlatAgree ==
  ASSUME NEW f, NEW g, NEW ss, NEW tt, NEW n \in Nat, NEW m \in Nat, n <= m,
         IsFlat(f, ss, n), IsFlat(g, tt, m), \A k \in 1 .. n : ss[k] = tt[k]
  PROVE  \A k \in 1 .. n : f[k] = g[k]
<1> DEFINE S == {k \in 1 .. n : f[k] # g[k]}
<1> SUFFICES ASSUME S # {} PROVE FALSE
  OBVIOUS
<1>1. PICK k \in S : \A j \in S : k <= j
  <2>1. S \subseteq Nat
    OBVIOUS
  <2> HIDE DEF S
  <2> QED
    BY <2>1, LeastNat
<1>2. f[k] = IF k = 1 THEN ss[k] ELSE Join(f[k - 1], ss[k])
  BY DEF IsFlat
<1>3. g[k] = IF k = 1 THEN tt[k] ELSE Join(g[k - 1], tt[k])
  BY DEF IsFlat
<1>4. ss[k] = tt[k] /\ f[k] # g[k]
  OBVIOUS
<1>5. CASE k = 1
  BY <1>2, <1>3, <1>4, <1>5
<1>6. CASE k # 1
  <2>1. k - 1 \in 1 .. n /\ k - 1 \notin S
    BY <1>1, <1>6
  <2>2. f[k - 1] = g[k - 1]
    BY <2>1
  <2> QED
    BY <1>2, <1>3, <1>4, <1>6, <2>2
<1> QED
  BY <1>5, <1>6

\* FlattenSeq is the last of the sums.
LEMMA FlattenUnfolds ==
  ASSUME NEW ss, Len(ss) \in Nat \ {0}
  PROVE  \E f : IsFlat(f, ss, Len(ss)) /\ FlattenSeq(ss) = f[Len(ss)]
<1> DEFINE f == CHOOSE h : IsFlat(h, ss, Len(ss))
<1>1. FlattenSeq(ss) = f[Len(ss)]
  BY DEF FlattenSeq, IsFlat, Join
<1>2. IsFlat(f, ss, Len(ss))
  BY FlatExists
<1> QED
  BY <1>1, <1>2

\* One more character of a text is one more putchar.
LEMMA SentOneMore ==
  ASSUME NEW text \in Seq(STRING), NEW k \in 0 .. Len(text) - 1
  PROVE  Sent(SubSeq(text, 1, k + 1)) = Join(Sent(SubSeq(text, 1, k)), putchar(text[k + 1]))
<1> DEFINE P(n) == [j \in 1 .. n |-> putchar(text[j])]
<1>1. \A n \in 0 .. Len(text) : Sent(SubSeq(text, 1, n)) = FlattenSeq(P(n))
  <2> SUFFICES ASSUME NEW n \in 0 .. Len(text)
               PROVE  Sent(SubSeq(text, 1, n)) = FlattenSeq(P(n))
    OBVIOUS
  <2>1. Len(SubSeq(text, 1, n)) = n /\ \A j \in 1 .. n : SubSeq(text, 1, n)[j] = text[j]
    OBVIOUS
  <2>2. [j \in 1 .. Len(SubSeq(text, 1, n)) |-> putchar(SubSeq(text, 1, n)[j])] = P(n)
    BY <2>1
  <2> QED
    BY <2>2 DEF Sent
<1>2. \A n \in Nat : Len(P(n)) = n
  OBVIOUS
<1>3. \A n \in Nat : \A j \in 1 .. n : P(n)[j] = putchar(text[j])
  OBVIOUS
<1> HIDE DEF P
<1>4. k \in Nat /\ k + 1 \in 0 .. Len(text) /\ k \in 0 .. Len(text) /\ Len(text) \in Nat
  OBVIOUS
<1>5. PICK g : IsFlat(g, P(k + 1), k + 1) /\ FlattenSeq(P(k + 1)) = g[k + 1]
  BY <1>2, <1>4, FlattenUnfolds
<1>6. CASE k = 0
  <2>1. g[1] = putchar(text[1])
    BY <1>3, <1>5, <1>6 DEF IsFlat
  <2>2. FlattenSeq(P(0)) = <<>>
    <3>1. Len(P(0)) = 0 /\ P(0) = <<>>
      BY DEF P
    <3> QED
      BY <3>1 DEF FlattenSeq
  <2>3. /\ <<>> \o <<"CR", "LF">> = <<"CR", "LF">>
        /\ <<>> \o <<text[1]>> = <<text[1]>>
    OBVIOUS
  <2>4. Join(<<>>, putchar(text[1])) = putchar(text[1])
    <3>1. CASE text[1] = "LF"
      BY <2>3, <3>1 DEF putchar, Join
    <3>2. CASE text[1] # "LF"
      BY <2>3, <3>2 DEF putchar, Join
    <3> QED
      BY <3>1, <3>2
  <2>5. /\ Sent(SubSeq(text, 1, 0 + 1)) = putchar(text[1])
        /\ Sent(SubSeq(text, 1, 0)) = <<>>
    BY <1>1, <1>4, <1>5, <1>6, <2>1, <2>2
  <2> QED
    BY <1>6, <2>4, <2>5
<1>7. CASE k # 0
  <2>1. PICK f : IsFlat(f, P(k), k) /\ FlattenSeq(P(k)) = f[k]
    BY <1>2, <1>4, <1>7, FlattenUnfolds
  <2>2. f[k] = g[k]
    <3>1. \A j \in 1 .. k : P(k)[j] = P(k + 1)[j]
      BY <1>3, <1>4
    <3>2. k <= k + 1 /\ k + 1 \in Nat /\ k \in 1 .. k
      BY <1>4, <1>7
    <3> QED
      BY <1>4, <1>5, <2>1, <3>1, <3>2, FlatAgree
  <2>3. g[k + 1] = Join(g[k], P(k + 1)[k + 1])
    BY <1>4, <1>5, <1>7 DEF IsFlat
  <2>4. P(k + 1)[k + 1] = putchar(text[k + 1])
    BY <1>3, <1>4
  <2> QED
    BY <1>1, <1>4, <1>5, <2>1, <2>2, <2>3, <2>4
<1> QED
  BY <1>6, <1>7

\* Nothing of a text is nothing, all of it is the text.
LEMMA SentEnds ==
  ASSUME NEW text \in Seq(STRING)
  PROVE  Sent(SubSeq(text, 1, 0)) = <<>> /\ SubSeq(text, 1, Len(text)) = text
<1>1. Len(SubSeq(text, 1, 0)) = 0
  OBVIOUS
<1> DEFINE s == [j \in 1 .. Len(SubSeq(text, 1, 0)) |-> putchar(SubSeq(text, 1, 0)[j])]
<1>2. s = <<>> /\ Len(s) = 0
  BY <1>1
<1>3. Sent(SubSeq(text, 1, 0)) = FlattenSeq(s)
  BY DEF Sent
<1> HIDE DEF s
<1>4. FlattenSeq(s) = <<>>
  BY <1>2 DEF FlattenSeq
<1> QED
  BY <1>3, <1>4

----------------------------------------------------------------------------
(* The invariant. *)

BeforeShell == {"boot", "idle", "format", "put", "return"}
CallPoint == {"idle", "format", "put", "return"}

\* A buffer of n characters.
IsBuffer(b, n) == b = [k \in 0 .. n - 1 |-> b[k]]

\* The range of the variables that matter here.
ConsoleType ==
  /\ IsBuffer(print_buf, BUF)
  /\ at \in [Task -> BeforeShell \cup {"prompt", "recv", "echo"}]
  /\ i \in [Task -> Nat]
  /\ shown = [t \in Task |-> shown[t]] /\ overlapped \in [Task -> BOOLEAN]
  /\ current \in Task
  /\ IsBuffer(buffer, LINE) /\ index \in Nat
  /\ typed \in Seq(Typed)

\* Until start_kernel is in its shell it has the CPU and no thread has begun;
\* the threads never get into the shell.
BootInv ==
  /\ at[Shell] \in BeforeShell =>
       current = Shell /\ \A t \in Task \ {Shell} : at[t] = "idle"
  /\ \A t \in Task \ {Shell} : at[t] \in CallPoint

\* What print_buf holds for a call nobody has overlapped, and what that call
\* has sent.
CallInv(t) ==
  /\ at[t] = "format" =>
       /\ i[t] <= Len(Text[t]) /\ shown[t] = <<>>
       /\ ~overlapped[t] => \A k \in 0 .. i[t] - 1 : print_buf[k] = Text[t][k + 1]
  /\ at[t] = "put" =>
       /\ i[t] < Len(Text[t])
       /\ ~overlapped[t] =>
            /\ shown[t] = Sent(SubSeq(Text[t], 1, i[t]))
            /\ \A k \in 0 .. Len(Text[t]) - 1 : print_buf[k] = Text[t][k + 1]
  /\ at[t] = "return" /\ ~overlapped[t] => shown[t] = Sent(Text[t])

\* The line in the making, the line terminated, and the line echoed.
ShellInv ==
  /\ at[Shell] \in BeforeShell => typed = <<>>
  /\ at[Shell] = "recv" =>
       /\ index = Len(typed) /\ index < LINE
       /\ \A k \in 0 .. index - 1 : buffer[k] = typed[k + 1]
  /\ at[Shell] = "echo" =>
       /\ index = Len(Line) /\ index < LINE /\ buffer[index] = NUL
       /\ \A k \in 0 .. index - 1 : buffer[k] = Line[k + 1]
  /\ EchoesLine

ConsoleInv == ConsoleType /\ BootInv /\ (\A t \in Task : CallInv(t)) /\ ShellInv

\* Stores into a buffer leave it a buffer.
LEMMA BufferKept ==
  ASSUME NEW b, NEW n, IsBuffer(b, n)
  PROVE  /\ \A x, k : IsBuffer([b EXCEPT ![k] = x], n)
         /\ \A text : IsBuffer(myprintf(b, text), n)
BY DEF IsBuffer, myprintf, memcpy

\* At boot.
LEMMA InitConsole == Init => ConsoleInv
<1> SUFFICES ASSUME Init PROVE ConsoleInv
  OBVIOUS
<1> USE DEF Init, Task
<1>1. at[Shell] = "boot" /\ \A t \in Task \ {Shell} : at[t] = "idle"
  OBVIOUS
<1>2. ConsoleType
  BY <1>1, ConsoleAssumption DEF ConsoleType, BeforeShell, IsBuffer
<1>3. BootInv
  BY <1>1 DEF BootInv, BeforeShell, CallPoint
<1>4. \A t \in Task : CallInv(t)
  BY <1>1 DEF CallInv
<1>5. ShellInv
  BY <1>1 DEF ShellInv, EchoesLine, BeforeShell
<1> QED
  BY <1>2, <1>3, <1>4, <1>5 DEF ConsoleInv

\* The three texts and buffers the provers ask about.
LEMMA Texts ==
  /\ BUF \in Nat /\ LINE \in Nat \ {0} /\ Typed \subseteq STRING /\ Shell \in Task
  /\ \A t \in Task : Text[t] \in Seq(STRING) /\ Len(Text[t]) \in Nat \ {0}
                     /\ Len(Text[t]) < BUF
<1>1. BUF \in Nat /\ LINE \in Nat \ {0} /\ Typed \subseteq STRING /\ Shell \in Task
  BY ConsoleAssumption DEF Task
<1>2. ASSUME NEW t \in Task
      PROVE  Text[t] \in Seq(STRING) /\ Len(Text[t]) \in Nat \ {0} /\ Len(Text[t]) < BUF
  <2>1. Text[t] \in Seq(STRING) /\ Text[t] # <<>> /\ Len(Text[t]) < BUF
    BY ConsoleAssumption
  <2> QED
    BY <2>1
<1> QED
  BY <1>1, <1>2

----------------------------------------------------------------------------
(* Boot. *)

\* An early printk has print_buf to itself.
LEMMA EarlyPrintkConsole == ConsoleInv /\ EarlyPrintk => ConsoleInv'
<1> SUFFICES ASSUME ConsoleInv, EarlyPrintk PROVE ConsoleInv'
  OBVIOUS
<1> USE DEF ConsoleInv
<1>1. /\ at[Shell] = "boot" /\ UNCHANGED <<i, shown, overlapped, at, current>>
      /\ UNCHANGED <<buffer, index, typed, echoed>>
      /\ print_buf' = myprintf(print_buf, EarlyMessages[early + 1])
  BY DEF EarlyPrintk, shellVars
<1>2. \A t \in Task : at[t] \notin {"format", "put", "return"}
  BY <1>1 DEF BootInv, BeforeShell
<1>3. ConsoleType'
  <2>1. IsBuffer(print_buf', BUF)
    BY <1>1, BufferKept DEF ConsoleType
  <2> QED
    BY <1>1, <2>1 DEF ConsoleType, IsBuffer
<1>4. BootInv' /\ ShellInv'
  BY <1>1 DEF BootInv, ShellInv, EchoesLine, Line
<1>5. \A t \in Task : CallInv(t)'
  BY <1>1, <1>2 DEF CallInv
<1> QED
  BY <1>3, <1>4, <1>5

\* init_printk_done sends the log and leaves the calls alone.
LEMMA init_printk_doneConsole == ConsoleInv /\ init_printk_done => ConsoleInv'
<1> SUFFICES ASSUME ConsoleInv, init_printk_done PROVE ConsoleInv'
  OBVIOUS
<1> USE DEF ConsoleInv
<1>1. /\ at[Shell] = "boot" /\ at' = [at EXCEPT ![current] = "idle"]
      /\ UNCHANGED <<print_buf, i, shown, overlapped, current, buffer, index, typed, echoed>>
  BY DEF init_printk_done, shellVars, callVars, Goto
<1>2. current = Shell /\ current \in Task /\ \A t \in Task \ {Shell} : at[t] = "idle"
  BY <1>1 DEF BootInv, BeforeShell, ConsoleType
<1>3. at' \in [Task -> {"idle"}]
  BY <1>1, <1>2 DEF ConsoleType
<1>4. ConsoleType'
  BY <1>1, <1>3 DEF ConsoleType, BeforeShell, IsBuffer
<1>5. BootInv'
  BY <1>1, <1>2, <1>3 DEF BootInv, CallPoint
<1>6. \A t \in Task : CallInv(t)'
  BY <1>3 DEF CallInv
<1>7. ShellInv'
  BY <1>1, <1>2, <1>3 DEF ShellInv, EchoesLine, BeforeShell
<1> QED
  BY <1>4, <1>5, <1>6, <1>7

----------------------------------------------------------------------------
(* The calls of printk. *)

\* A step of the current task between points of a printk, and out of it into
\* the shell, keeps the threads out of the shell and the shell's line.
LEMMA CallStep ==
  ASSUME ConsoleInv, NEW x, at' = at \/ at' = [at EXCEPT ![current] = x],
         at[current] \in CallPoint,
         x \in CallPoint \/ (x = "prompt" /\ current = Shell),
         UNCHANGED <<current, buffer, index, typed, echoed>>
  PROVE  /\ at' \in [Task -> BeforeShell \cup {"prompt", "recv", "echo"}]
         /\ BootInv' /\ ShellInv'
         /\ current \in Task
         /\ \A t \in Task \ {current} : at'[t] = at[t]
<1> USE DEF CallPoint, BeforeShell
<1>1. at \in [Task -> BeforeShell \cup {"prompt", "recv", "echo"}] /\ current \in Task
  BY DEF ConsoleInv, ConsoleType
<1>2. /\ at' \in [Task -> BeforeShell \cup {"prompt", "recv", "echo"}]
      /\ \A t \in Task \ {current} : at'[t] = at[t]
      /\ at'[current] \in CallPoint \/ (at'[current] = "prompt" /\ current = Shell)
  BY <1>1
<1>3. Shell \in Task /\ BootInv /\ ShellInv
  BY Texts DEF ConsoleInv
<1>4. BootInv'
  <2>1. CASE current = Shell
    BY <1>1, <1>2, <1>3, <2>1 DEF BootInv
  <2>2. CASE current # Shell
    BY <1>1, <1>2, <1>3, <2>2 DEF BootInv
  <2> QED
    BY <2>1, <2>2
<1>5. ShellInv'
  <2>1. CASE current = Shell
    <3>1. typed = <<>>
      BY <1>1, <1>3, <2>1 DEF ShellInv
    <3> QED
      BY <1>2, <2>1, <3>1 DEF ShellInv, EchoesLine
  <2>2. CASE current # Shell
    <3>1. at'[Shell] = at[Shell]
      BY <1>2, <1>3, <2>2
    <3> QED
      BY <1>3, <3>1 DEF ShellInv, EchoesLine, Line
  <2> QED
    BY <2>1, <2>2
<1> QED
  BY <1>1, <1>2, <1>4, <1>5

\* The call begins.
LEMMA CallConsole == ConsoleInv /\ Call => ConsoleInv'
<1> SUFFICES ASSUME ConsoleInv, Call PROVE ConsoleInv'
  OBVIOUS
<1>1. /\ at[current] = "idle" /\ at' = [at EXCEPT ![current] = "format"]
      /\ i' = [i EXCEPT ![current] = 0] /\ shown' = [shown EXCEPT ![current] = <<>>]
      /\ overlapped' = [overlapped EXCEPT ![current] = FALSE]
      /\ UNCHANGED <<print_buf, current, buffer, index, typed, echoed>>
  BY DEF Call, Goto, shellVars
<1>2. /\ at' \in [Task -> BeforeShell \cup {"prompt", "recv", "echo"}]
      /\ BootInv' /\ ShellInv' /\ current \in Task
      /\ \A t \in Task \ {current} : at'[t] = at[t]
  BY <1>1, CallStep DEF CallPoint
<1>3. ConsoleType
  BY DEF ConsoleInv
<1>4. ConsoleType'
  BY <1>1, <1>2, <1>3 DEF ConsoleType, IsBuffer
<1>5. ASSUME NEW t \in Task PROVE CallInv(t)'
  <2>1. CASE t = current
    <3>1. at'[t] = "format" /\ i'[t] = 0 /\ shown'[t] = <<>>
      BY <1>1, <1>3, <2>1 DEF ConsoleType
    <3> QED
      BY <3>1, Texts DEF CallInv
  <2>2. CASE t # current
    <3>1. /\ at'[t] = at[t] /\ i'[t] = i[t] /\ shown'[t] = shown[t]
          /\ overlapped'[t] = overlapped[t]
      BY <1>1, <1>2, <1>3, <2>2 DEF ConsoleType
    <3> QED
      BY <1>1, <3>1 DEF CallInv, ConsoleInv
  <2> QED
    BY <2>1, <2>2
<1> QED
  BY <1>2, <1>4, <1>5 DEF ConsoleInv

\* A store of myprintf spoils every other call under way.
LEMMA FormatCharConsole == ConsoleInv /\ FormatChar => ConsoleInv'
<1> SUFFICES ASSUME ConsoleInv, FormatChar PROVE ConsoleInv'
  OBVIOUS
<1> DEFINE n == Len(Text[current])
           k == i[current]
<1>1. /\ at[current] = "format" /\ overlapped' = Overlap(current)
      /\ UNCHANGED <<shown, current, buffer, index, typed, echoed>>
      /\ \/ /\ k < n /\ at' = at
            /\ print_buf' = [print_buf EXCEPT ![k] = Text[current][k + 1]]
            /\ i' = [i EXCEPT ![current] = k + 1]
         \/ /\ ~(k < n) /\ at' = [at EXCEPT ![current] = "put"]
            /\ print_buf' = [print_buf EXCEPT ![k] = NUL]
            /\ i' = [i EXCEPT ![current] = 0]
  BY DEF FormatChar, Goto, shellVars
<1>2. /\ at' \in [Task -> BeforeShell \cup {"prompt", "recv", "echo"}]
      /\ BootInv' /\ ShellInv' /\ current \in Task
      /\ \A t \in Task \ {current} : at'[t] = at[t]
  BY <1>1, CallStep DEF CallPoint
<1>3. ConsoleType
  BY DEF ConsoleInv
<1>4. /\ n \in Nat \ {0} /\ n < BUF /\ BUF \in Nat /\ Text[current] \in Seq(STRING)
      /\ k \in Nat /\ k <= n
  BY <1>1, <1>2, <1>3, Texts DEF ConsoleType, ConsoleInv, CallInv
<1>5. /\ overlapped' \in [Task -> BOOLEAN]
      /\ overlapped'[current] = overlapped[current]
      /\ \A t \in Task \ {current} :
           overlapped'[t] = (overlapped[t] \/ at[t] \in {"format", "put"})
  BY <1>1, <1>2, <1>3 DEF Overlap, Printing, ConsoleType
<1>6. IsBuffer(print_buf', BUF) /\ i' \in [Task -> Nat]
  <2>1. IsBuffer(print_buf, BUF) /\ i \in [Task -> Nat]
    BY <1>3 DEF ConsoleType
  <2>2. i' \in [Task -> Nat]
    BY <1>1, <1>4, <2>1
  <2>3. PICK c : print_buf' = [print_buf EXCEPT ![k] = c]
    BY <1>1
  <2>4. IsBuffer(print_buf', BUF)
    BY <2>1, <2>3 DEF IsBuffer
  <2> QED
    BY <2>2, <2>4
<1>7. ConsoleType'
  BY <1>1, <1>2, <1>3, <1>5, <1>6 DEF ConsoleType, IsBuffer
<1>8. CallInv(current)'
  <2>1. /\ shown[current] = <<>>
        /\ ~overlapped[current] => \A j \in 0 .. k - 1 : print_buf[j] = Text[current][j + 1]
    BY <1>1, <1>2 DEF ConsoleInv, CallInv
  <2>2. CASE k < n
    <3>1. at'[current] = "format" /\ i'[current] = k + 1
      BY <1>1, <1>2, <1>3, <2>2 DEF ConsoleType
    <3>2. /\ print_buf' = [print_buf EXCEPT ![k] = Text[current][k + 1]]
          /\ k \in 0 .. BUF - 1
      BY <1>1, <1>4, <2>2
    <3>3. /\ print_buf'[k] = Text[current][k + 1]
          /\ \A j \in 0 .. k - 1 : print_buf'[j] = print_buf[j]
      BY <1>3, <1>4, <3>2 DEF ConsoleType, IsBuffer
    <3>4. ~overlapped'[current] =>
            \A j \in 0 .. (k + 1) - 1 : print_buf'[j] = Text[current][j + 1]
      BY <1>4, <1>5, <2>1, <3>3
    <3> HIDE DEF n, k
    <3> QED
      BY <1>1, <1>4, <2>1, <2>2, <3>1, <3>4 DEF CallInv, n
  <2>3. CASE ~(k < n)
    <3>1. at'[current] = "put" /\ i'[current] = 0 /\ k = n
      BY <1>1, <1>2, <1>3, <1>4, <2>3 DEF ConsoleType
    <3>2. print_buf' = [print_buf EXCEPT ![n] = NUL] /\ n \in 0 .. BUF - 1
      BY <1>1, <1>4, <2>3, <3>1
    <3>3. \A j \in 0 .. n - 1 : print_buf'[j] = print_buf[j]
      BY <1>3, <1>4, <3>2 DEF ConsoleType, IsBuffer
    <3>4. ~overlapped'[current] =>
            \A j \in 0 .. n - 1 : print_buf'[j] = Text[current][j + 1]
      BY <1>4, <1>5, <2>1, <3>1, <3>3
    <3>5. shown'[current] = Sent(SubSeq(Text[current], 1, 0))
      BY <1>1, <1>4, <2>1, SentEnds
    <3> HIDE DEF n, k
    <3> QED
      BY <1>1, <1>4, <3>1, <3>4, <3>5 DEF CallInv, n
  <2> QED
    BY <2>2, <2>3
<1>9. ASSUME NEW t \in Task, t # current PROVE CallInv(t)'
  <2>1. /\ at'[t] = at[t] /\ i'[t] = i[t] /\ shown'[t] = shown[t]
        /\ overlapped'[t] = (overlapped[t] \/ at[t] \in {"format", "put"})
    BY <1>1, <1>2, <1>3, <1>5, <1>9 DEF ConsoleType
  <2> QED
    BY <2>1 DEF CallInv, ConsoleInv
<1> QED
  BY <1>1, <1>2, <1>7, <1>8, <1>9 DEF ConsoleInv

\* A character goes out.
LEMMA PutCharConsole == ConsoleInv /\ PutChar => ConsoleInv'
<1> SUFFICES ASSUME ConsoleInv, PutChar PROVE ConsoleInv'
  OBVIOUS
<1> DEFINE n == Len(Text[current])
           k == i[current]
<1>1. /\ at[current] = "put"
      /\ shown' = [shown EXCEPT ![current] = Join(shown[current], putchar(print_buf[k]))]
      /\ i' = [i EXCEPT ![current] = k + 1]
      /\ \/ k + 1 = n /\ at' = [at EXCEPT ![current] = "return"]
         \/ k + 1 # n /\ at' = at
      /\ UNCHANGED <<print_buf, overlapped, current, buffer, index, typed, echoed>>
  BY DEF PutChar, Goto, shellVars, Join
<1>2. /\ at' \in [Task -> BeforeShell \cup {"prompt", "recv", "echo"}]
      /\ BootInv' /\ ShellInv' /\ current \in Task
      /\ \A t \in Task \ {current} : at'[t] = at[t]
  BY <1>1, CallStep DEF CallPoint
<1>3. ConsoleType
  BY DEF ConsoleInv
<1>4. n \in Nat \ {0} /\ Text[current] \in Seq(STRING) /\ k \in Nat /\ k < n
  BY <1>1, <1>2, <1>3, Texts DEF ConsoleType, ConsoleInv, CallInv
<1>5. ConsoleType'
  <2>1. i' \in [Task -> Nat]
    BY <1>1, <1>3, <1>4 DEF ConsoleType
  <2>2. shown' = [t \in Task |-> shown'[t]]
    BY <1>1, <1>3 DEF ConsoleType
  <2> QED
    BY <1>1, <1>2, <1>3, <2>1, <2>2 DEF ConsoleType, IsBuffer
<1>6. CallInv(current)'
  <2>1. /\ i'[current] = k + 1
        /\ shown'[current] = Join(shown[current], putchar(print_buf[k]))
        /\ at'[current] = IF k + 1 = n THEN "return" ELSE "put"
    BY <1>1, <1>2, <1>3 DEF ConsoleType
  <2>2. ASSUME ~overlapped[current]
        PROVE  /\ shown'[current] = Sent(SubSeq(Text[current], 1, k + 1))
               /\ \A j \in 0 .. n - 1 : print_buf[j] = Text[current][j + 1]
    <3>1. /\ shown[current] = Sent(SubSeq(Text[current], 1, k))
          /\ \A j \in 0 .. n - 1 : print_buf[j] = Text[current][j + 1]
      BY <1>1, <1>2, <2>2 DEF ConsoleInv, CallInv
    <3>2. print_buf[k] = Text[current][k + 1] /\ k \in 0 .. n - 1
      BY <1>4, <3>1
    <3> HIDE DEF n, k
    <3>3. Sent(SubSeq(Text[current], 1, k + 1)) =
            Join(Sent(SubSeq(Text[current], 1, k)), putchar(Text[current][k + 1]))
      BY <1>4, <3>2, SentOneMore DEF n
    <3> QED
      BY <2>1, <3>1, <3>2, <3>3
  <2>3. SubSeq(Text[current], 1, n) = Text[current]
    BY <1>4, SentEnds
  <2> HIDE DEF n, k
  <2>4. CASE k + 1 = n
    BY <1>1, <2>1, <2>2, <2>3, <2>4 DEF CallInv
  <2>5. CASE k + 1 # n
    <3>1. k + 1 < n /\ at'[current] = "put"
      BY <1>4, <2>1, <2>5
    <3> QED
      BY <1>1, <2>1, <2>2, <3>1 DEF CallInv, n
  <2> QED
    BY <2>4, <2>5
<1>7. ASSUME NEW t \in Task, t # current PROVE CallInv(t)'
  <2>1. /\ at'[t] = at[t] /\ i'[t] = i[t] /\ shown'[t] = shown[t]
        /\ overlapped'[t] = overlapped[t] /\ print_buf' = print_buf
    BY <1>1, <1>2, <1>3, <1>7 DEF ConsoleType
  <2> QED
    BY <2>1 DEF CallInv, ConsoleInv
<1> QED
  BY <1>1, <1>2, <1>5, <1>6, <1>7 DEF ConsoleInv

\* The call returns.
LEMMA ReturnConsole == ConsoleInv /\ Return => ConsoleInv'
<1> SUFFICES ASSUME ConsoleInv, Return PROVE ConsoleInv'
  OBVIOUS
<1> DEFINE x == IF current = Shell THEN "prompt" ELSE "idle"
<1>1. /\ at[current] = "return" /\ at' = [at EXCEPT ![current] = x]
      /\ x \in {"prompt", "idle"} /\ (x = "prompt" => current = Shell)
      /\ UNCHANGED <<print_buf, i, shown, overlapped, current, buffer, index, typed, echoed>>
  BY DEF Return, Goto, callVars, shellVars
<1> HIDE DEF x
<1>2. /\ at' \in [Task -> BeforeShell \cup {"prompt", "recv", "echo"}]
      /\ BootInv' /\ ShellInv' /\ current \in Task
      /\ \A t \in Task \ {current} : at'[t] = at[t]
  BY <1>1, CallStep DEF CallPoint
<1>3. ConsoleType /\ at'[current] = x
  BY <1>1, <1>2 DEF ConsoleInv, ConsoleType
<1>4. ConsoleType'
  BY <1>1, <1>2, <1>3 DEF ConsoleType, IsBuffer
<1>5. ASSUME NEW t \in Task PROVE CallInv(t)'
  BY <1>1, <1>2, <1>3 DEF CallInv, ConsoleInv
<1> QED
  BY <1>2, <1>4, <1>5 DEF ConsoleInv

\* The tick's own printk spoils every call under way.
LEMMA TickConsole == ConsoleInv /\ Tick => ConsoleInv'
<1> SUFFICES ASSUME ConsoleInv, Tick PROVE ConsoleInv'
  OBVIOUS
<1>1. /\ current = Shell => at[Shell] \in {"prompt", "recv", "echo"}
      /\ print_buf' = myprintf(print_buf, TickText)
      /\ overlapped' = [u \in Task |-> overlapped[u] \/ at[u] \in {"format", "put"}]
      /\ current' \in Task
      /\ UNCHANGED <<i, shown, at, buffer, index, typed, echoed>>
  BY DEF Tick, Printing, Task, shellVars
<1>2. ConsoleType /\ BootInv /\ ShellInv
  BY DEF ConsoleInv
<1>3. at[Shell] \notin BeforeShell
  BY <1>1, <1>2 DEF BootInv, BeforeShell
<1>4. ConsoleType'
  <2>1. IsBuffer(print_buf', BUF) /\ overlapped' \in [Task -> BOOLEAN]
    BY <1>1, <1>2, BufferKept DEF ConsoleType
  <2> QED
    BY <1>1, <1>2, <2>1 DEF ConsoleType, IsBuffer
<1>5. BootInv' /\ ShellInv'
  BY <1>1, <1>2, <1>3 DEF BootInv, ShellInv, EchoesLine, Line
<1>6. ASSUME NEW t \in Task PROVE CallInv(t)'
  <2>1. overlapped'[t] = (overlapped[t] \/ at[t] \in {"format", "put"})
    BY <1>1
  <2> QED
    BY <1>1, <2>1 DEF CallInv, ConsoleInv
<1> QED
  BY <1>4, <1>5, <1>6 DEF ConsoleInv

----------------------------------------------------------------------------
(* The shell. *)

\* Only start_kernel is in the shell, and a step of the shell leaves the
\* calls alone.
LEMMA ShellStepKeeps ==
  ASSUME ConsoleInv, NEW x \in {"prompt", "recv", "echo"},
         at[current] \in {"prompt", "recv", "echo"},
         at' = at \/ at' = [at EXCEPT ![current] = x],
         UNCHANGED <<print_buf, i, shown, overlapped, current>>
  PROVE  /\ current = Shell /\ Shell \in Task
         /\ at' \in [Task -> BeforeShell \cup {"prompt", "recv", "echo"}]
         /\ BootInv' /\ \A t \in Task : CallInv(t)'
<1>1. ConsoleType /\ BootInv /\ current \in Task /\ Shell \in Task
  BY Texts DEF ConsoleInv, ConsoleType
<1>2. current = Shell
  BY <1>1 DEF BootInv, CallPoint
<1>3. /\ at' \in [Task -> BeforeShell \cup {"prompt", "recv", "echo"}]
      /\ at'[Shell] \in {"prompt", "recv", "echo"}
      /\ \A t \in Task \ {Shell} : at'[t] = at[t]
  BY <1>1, <1>2 DEF ConsoleType
<1>4. BootInv'
  BY <1>1, <1>3 DEF BootInv, BeforeShell
<1>5. ASSUME NEW t \in Task PROVE CallInv(t)'
  <2>1. CASE t = Shell
    BY <1>3, <2>1 DEF CallInv
  <2>2. CASE t # Shell
    BY <1>3, <2>2 DEF CallInv, ConsoleInv
  <2> QED
    BY <2>1, <2>2
<1> QED
  BY <1>1, <1>2, <1>3, <1>4, <1>5

\* The shell starts a line.
LEMMA PromptConsole == ConsoleInv /\ Prompt => ConsoleInv'
<1> SUFFICES ASSUME ConsoleInv, Prompt PROVE ConsoleInv'
  OBVIOUS
<1>1. /\ at[current] = "prompt" /\ at' = [at EXCEPT ![current] = "recv"]
      /\ index' = 0 /\ typed' = <<>>
      /\ UNCHANGED <<print_buf, i, shown, overlapped, current, buffer>>
  BY DEF Prompt, Goto, callVars
<1>2. /\ current = Shell /\ Shell \in Task
      /\ at' \in [Task -> BeforeShell \cup {"prompt", "recv", "echo"}]
      /\ BootInv' /\ \A t \in Task : CallInv(t)'
  BY <1>1, ShellStepKeeps
<1>3. ConsoleType /\ at'[Shell] = "recv"
  BY <1>1, <1>2 DEF ConsoleInv, ConsoleType
<1>4. ConsoleType'
  <2>1. typed' \in Seq(Typed)
    BY <1>1
  <2> QED
    BY <1>1, <1>2, <1>3, <2>1 DEF ConsoleType, IsBuffer
<1>5. ShellInv'
  BY <1>1, <1>3, Texts DEF ShellInv, EchoesLine, BeforeShell
<1> QED
  BY <1>2, <1>4, <1>5 DEF ConsoleInv

\* A character comes in: it goes to the end of the line, and the terminator
\* behind it or, when the buffer is full, onto it.
LEMMA RecvCharConsole == ConsoleInv /\ RecvChar => ConsoleInv'
<1> SUFFICES ASSUME ConsoleInv, RecvChar PROVE ConsoleInv'
  OBVIOUS
<1> DEFINE full == index + 1 = LINE
           end(c) == c \in LineEnd \/ full
<1>1. PICK c \in Typed :
        /\ typed' = Append(typed, c)
        /\ \/ /\ end(c) /\ at' = [at EXCEPT ![current] = "echo"]
              /\ index' = IF full THEN index ELSE index + 1
              /\ buffer' = [[buffer EXCEPT ![index] = c] EXCEPT ![index'] = NUL]
           \/ /\ ~end(c) /\ at' = at /\ index' = index + 1
              /\ buffer' = [buffer EXCEPT ![index] = c]
  BY DEF RecvChar, Goto
<1>2. at[current] = "recv" /\ UNCHANGED <<print_buf, i, shown, overlapped, current>>
  BY DEF RecvChar, callVars
<1> HIDE DEF end
<1>3. /\ current = Shell /\ Shell \in Task
      /\ at' \in [Task -> BeforeShell \cup {"prompt", "recv", "echo"}]
      /\ BootInv' /\ \A t \in Task : CallInv(t)'
  BY <1>1, <1>2, ShellStepKeeps
<1>4. /\ ConsoleType /\ typed \in Seq(Typed) /\ index = Len(typed) /\ index \in Nat
      /\ index < LINE /\ LINE \in Nat \ {0} /\ IsBuffer(buffer, LINE)
      /\ \A k \in 0 .. index - 1 : buffer[k] = typed[k + 1]
  BY <1>2, <1>3, Texts DEF ConsoleInv, ConsoleType, ShellInv
<1>5. /\ typed' \in Seq(Typed) /\ Len(typed') = index + 1
      /\ typed'[index + 1] = c /\ \A k \in 1 .. index : typed'[k] = typed[k]
  BY <1>1, <1>4
<1>6. index' \in Nat /\ IsBuffer(buffer', LINE)
  BY <1>1, <1>4 DEF IsBuffer
<1>7. ConsoleType'
  BY <1>2, <1>3, <1>4, <1>5, <1>6 DEF ConsoleType, IsBuffer
<1>8. ShellInv'
  <2>1. CASE ~end(c)
    <3>1. /\ at' = at /\ index' = index + 1 /\ buffer' = [buffer EXCEPT ![index] = c]
          /\ index + 1 # LINE /\ at'[Shell] = "recv"
      BY <1>1, <1>2, <1>3, <2>1 DEF end
    <3>2. /\ buffer'[index] = c
          /\ \A k \in 0 .. index - 1 : buffer'[k] = buffer[k]
      BY <1>4, <3>1 DEF IsBuffer
    <3>3. \A k \in 0 .. (index + 1) - 1 : buffer'[k] = typed'[k + 1]
      BY <1>4, <1>5, <3>2
    <3> QED
      BY <1>4, <1>5, <3>1, <3>3 DEF ShellInv, EchoesLine, BeforeShell
  <2>2. CASE end(c)
    <3>1. /\ index' = IF full THEN index ELSE index + 1
          /\ buffer' = [[buffer EXCEPT ![index] = c] EXCEPT ![index'] = NUL]
          /\ at'[Shell] = "echo"
      BY <1>1, <1>3, <1>4, <2>2 DEF ConsoleType
    <3>2. CASE full
      <4>1. /\ index' = index /\ buffer'[index] = NUL
            /\ \A k \in 0 .. index - 1 : buffer'[k] = buffer[k]
        BY <1>4, <3>1, <3>2 DEF IsBuffer
      <4>2. Line' = typed
        <5>1. Line' = SubSeq(typed', 1, Len(typed') - 1)
          BY <1>5, <3>2 DEF Line, Front
        <5> QED
          BY <1>4, <1>5, <5>1
      <4> QED
        BY <1>4, <3>1, <4>1, <4>2 DEF ShellInv, EchoesLine, BeforeShell
    <3>3. CASE ~full
      <4>1. /\ index' = index + 1 /\ index + 1 < LINE
            /\ buffer'[index + 1] = NUL /\ buffer'[index] = c
            /\ \A k \in 0 .. index - 1 : buffer'[k] = buffer[k]
        BY <1>4, <3>1, <3>3 DEF IsBuffer
      <4>2. Line' = typed'
        BY <1>5, <3>3 DEF Line
      <4>3. \A k \in 0 .. (index + 1) - 1 : buffer'[k] = typed'[k + 1]
        BY <1>4, <1>5, <4>1
      <4> QED
        BY <1>5, <3>1, <4>1, <4>2, <4>3 DEF ShellInv, EchoesLine, BeforeShell
    <3> QED
      BY <3>2, <3>3
  <2> QED
    BY <2>1, <2>2
<1> QED
  BY <1>3, <1>7, <1>8 DEF ConsoleInv

\* uart_send_string stops at the first terminator of the buffer.
LEMMA SendString ==
  ASSUME NEW b, NEW n \in Nat, IsBuffer(b, n), NEW m \in 0 .. n - 1, b[m] = NUL
  PROVE  \E k \in 0 .. m : /\ b[k] = NUL /\ \A j \in 0 .. k - 1 : b[j] # NUL
                           /\ uart_send_string(b) = [j \in 1 .. k |-> b[j - 1]]
<1> DEFINE S == {k \in 0 .. n - 1 : b[k] = NUL}
           P(k) == b[k] = NUL /\ \A j \in 0 .. k - 1 : b[j] # NUL
<1>1. DOMAIN b = 0 .. n - 1
  BY DEF IsBuffer
<1>2. PICK k \in S : \A j \in S : k <= j
  <2>1. S \subseteq Nat /\ m \in S
    OBVIOUS
  <2> HIDE DEF S
  <2> QED
    BY <2>1, LeastNat
<1>3. k \in DOMAIN b /\ P(k) /\ k <= m
  BY <1>1, <1>2
<1>4. \A j \in DOMAIN b : P(j) => j = k
  BY <1>1, <1>3
<1>5. (CHOOSE j \in DOMAIN b : P(j)) = k
  <2> HIDE DEF P
  <2> QED
    BY <1>3, <1>4
<1>6. uart_send_string(b) = [j \in 1 .. k |-> b[j - 1]]
  BY <1>5 DEF uart_send_string
<1> QED
  BY <1>1, <1>3, <1>6

\* The shell sends the line back.
LEMMA EchoConsole == ConsoleInv /\ Echo => ConsoleInv'
<1> SUFFICES ASSUME ConsoleInv, Echo PROVE ConsoleInv'
  OBVIOUS
<1>1. /\ at[current] = "echo" /\ at' = [at EXCEPT ![current] = "prompt"]
      /\ echoed' = uart_send_string(buffer)
      /\ UNCHANGED <<print_buf, i, shown, overlapped, current, buffer, index, typed>>
  BY DEF Echo, Goto, callVars
<1>2. /\ current = Shell /\ Shell \in Task
      /\ at' \in [Task -> BeforeShell \cup {"prompt", "recv", "echo"}]
      /\ BootInv' /\ \A t \in Task : CallInv(t)'
  BY <1>1, ShellStepKeeps
<1>3. ConsoleType /\ at'[Shell] = "prompt"
  BY <1>1, <1>2 DEF ConsoleInv, ConsoleType
<1>4. ConsoleType'
  BY <1>1, <1>2, <1>3 DEF ConsoleType, IsBuffer
<1>5. /\ index = Len(Line) /\ index \in Nat /\ index < LINE /\ buffer[index] = NUL
      /\ \A k \in 0 .. index - 1 : buffer[k] = Line[k + 1]
      /\ LINE \in Nat /\ IsBuffer(buffer, LINE)
  BY <1>1, <1>2, <1>3, Texts DEF ConsoleInv, ShellInv, ConsoleType
<1>6. PICK n \in 0 .. index : /\ buffer[n] = NUL /\ \A j \in 0 .. n - 1 : buffer[j] # NUL
                              /\ uart_send_string(buffer) = [j \in 1 .. n |-> buffer[j - 1]]
  BY <1>5, SendString
<1>7. Line \in Seq(Typed) /\ Line' = Line
  BY <1>1, <1>3 DEF Line, Front, ConsoleType
<1>8. /\ Len(echoed') = n /\ \A k \in 1 .. n : echoed'[k] = buffer[k - 1]
      /\ echoed' = [j \in 1 .. n |-> buffer[j - 1]]
  BY <1>1, <1>5, <1>6
<1>9. /\ echoed' = SubSeq(Line, 1, n) /\ n \in 0 .. Len(Line)
      /\ \A k \in 1 .. n : echoed'[k] # NUL
  <2>1. \A k \in 1 .. n : k - 1 \in 0 .. index - 1 /\ k - 1 \in 0 .. n - 1
    BY <1>5
  <2>2. \A k \in 1 .. n : echoed'[k] = Line[k] /\ echoed'[k] # NUL
    BY <1>5, <1>6, <1>8, <2>1
  <2>3. echoed' = [j \in 1 .. n |-> Line[j]]
    BY <1>8, <2>2
  <2>4. SubSeq(Line, 1, n) = [j \in 1 .. n |-> Line[j]]
    BY <1>5, <1>7
  <2> QED
    BY <1>5, <2>2, <2>3, <2>4
<1>10. n # Len(Line) => Line[n + 1] = NUL
  BY <1>5, <1>6
<1>11. EchoesLine'
  <2>1. IsPrefix(echoed', Line)
    BY <1>5, <1>7, <1>8, <1>9 DEF IsPrefix
  <2>2. echoed' # Line => Line[n + 1] = NUL
    BY <1>7, <1>9, <1>10
  <2> QED
    BY <1>7, <1>8, <1>9, <2>1, <2>2 DEF EchoesLine
<1>12. ShellInv'
  BY <1>3, <1>11 DEF ShellInv, BeforeShell
<1> QED
  BY <1>2, <1>4, <1>12 DEF ConsoleInv

----------------------------------------------------------------------------

\* The invariant that carries both properties.
THEOREM ConsoleInvariant == Spec => []ConsoleInv
<1>1. ConsoleInv /\ UNCHANGED vars => ConsoleInv'
  <2> SUFFICES ASSUME ConsoleInv, UNCHANGED vars PROVE ConsoleInv'
    OBVIOUS
  <2>1. UNCHANGED <<print_buf, at, i, shown, overlapped, current, buffer, index, typed, echoed>>
    BY DEF vars, callVars, shellVars
  <2>2. ConsoleType'
    BY <2>1 DEF ConsoleInv, ConsoleType, IsBuffer
  <2>3. BootInv' /\ ShellInv'
    BY <2>1 DEF ConsoleInv, BootInv, ShellInv, EchoesLine, Line
  <2>4. \A t \in Task : CallInv(t)'
    BY <2>1 DEF ConsoleInv, CallInv
  <2> QED
    BY <2>2, <2>3, <2>4 DEF ConsoleInv
<1>2. ConsoleInv /\ [Next]_vars => ConsoleInv'
  BY <1>1, EarlyPrintkConsole, init_printk_doneConsole, CallConsole, FormatCharConsole,
     PutCharConsole, ReturnConsole, TickConsole, PromptConsole, RecvCharConsole,
     EchoConsole DEF Next, ShellStep
<1> QED
  BY <1>2, InitConsole, PTL DEF Spec

\* A call of printk that no other call overlaps puts out its own text and
\* nothing else, whatever is in the shared print_buf when it begins.
THEOREM UndisturbedPrintk == Spec => []CallsIntact
<1>1. ConsoleInv => CallsIntact
  BY DEF ConsoleInv, CallInv, CallsIntact
<1> QED
  BY <1>1, ConsoleInvariant, PTL

\* The shell sends back the line it got, up to a NUL in it.
THEOREM ShellEchoes == Spec => []EchoesLine
<1>1. ConsoleInv => EchoesLine
  BY DEF ConsoleInv, ShellInv
<1> QED
  BY <1>1, ConsoleInvariant, PTL

----------------------------------------------------------------------------
(* The messages before init_printk_done. *)

\* The first n of them, for n up to two.
Upto(n) == IF n = 0 THEN <<>> ELSE IF n = 1 THEN EarlyMessages[1]
                                   ELSE Join(EarlyMessages[1], EarlyMessages[2])

Appended(old, text, new) ==
  /\ old \in Seq(STRING) /\ text \in Seq(STRING) /\ new \in Seq(STRING)
  /\ Len(old) \in Nat /\ Len(text) \in Nat /\ Len(new) = Len(old) + Len(text)
  /\ \A k \in 1 .. Len(old) : new[k] = old[k]
  /\ \A k \in 1 .. Len(text) : new[Len(old) + k] = text[k]

\* One more message is appended.
LEMMA UptoOneMore ==
  ASSUME Len(EarlyMessages) <= 2, NEW n \in 0 .. Len(EarlyMessages) - 1
  PROVE  Appended(Upto(n), EarlyMessages[n + 1], Upto(n + 1))
<1> DEFINE text == EarlyMessages[n + 1]
<1>1. EarlyMessages \in Seq(Seq(STRING)) /\ Len(EarlyMessages) \in Nat
  BY ConsoleAssumption
<1>2. n = 0 \/ n = 1
  BY <1>1
<1>3. text \in Seq(STRING)
  BY <1>1
<1>4. PICK old, new : old = Upto(n) /\ new = Upto(n + 1)
  OBVIOUS
<1>5. \/ old = <<>> /\ new = text
      \/ old \in Seq(STRING) /\ new = old \o text
  <2>1. CASE n = 0
    <3>1. n + 1 = 1
      BY <2>1
    <3>2. Upto(0) = <<>> /\ Upto(1) = EarlyMessages[1]
      BY DEF Upto
    <3> QED
      BY <1>4, <2>1, <3>1, <3>2
  <2>2. CASE n = 1
    <3>1. n + 1 = 2
      BY <2>2
    <3>2. Upto(1) = EarlyMessages[1] /\ Upto(2) = Join(Upto(1), EarlyMessages[2])
      BY DEF Upto
    <3>3. EarlyMessages[1] \in Seq(STRING)
      BY <1>1, <2>2
    <3>4. old = EarlyMessages[1] /\ new = Join(old, text)
      BY <1>4, <2>2, <3>1, <3>2
    <3> QED
      BY <3>3, <3>4 DEF Join
  <2> QED
    BY <1>2, <2>1, <2>2
<1> HIDE DEF text
<1>6. Appended(old, text, new)
  <2>1. CASE old = <<>> /\ new = text
    <3>1. old \in Seq(STRING) /\ Len(old) = 0
      BY <2>1
    <3>2. \A k \in 1 .. Len(text) : Len(old) + k = k
      BY <1>3, <3>1
    <3> QED
      BY <1>3, <2>1, <3>1, <3>2 DEF Appended
  <2>2. CASE old \in Seq(STRING) /\ new = old \o text
    BY <1>3, <2>2 DEF Appended
  <2> QED
    BY <1>5, <2>1, <2>2
<1> QED
  BY <1>4, <1>6 DEF text

\* All of them are the concatenation, and fit the log.
LEMMA UptoAll ==
  ASSUME Len(EarlyMessages) <= 2
  PROVE  /\ Upto(Len(EarlyMessages)) = FlattenSeq(EarlyMessages)
         /\ Upto(Len(EarlyMessages)) \in Seq(STRING)
         /\ Len(Upto(Len(EarlyMessages))) <= LOG_BUF_LEN
<1>1. EarlyMessages \in Seq(Seq(STRING)) /\ Len(EarlyMessages) \in Nat
  BY ConsoleAssumption
<1>2. CASE Len(EarlyMessages) = 0
  <2>1. EarlyMessages = <<>>
    BY <1>1, <1>2
  <2>2. FlattenSeq(EarlyMessages) = <<>>
    BY <1>2, <2>1 DEF FlattenSeq
  <2>3. <<>> \in Seq(STRING)
    OBVIOUS
  <2> QED
    BY <1>2, <2>2, <2>3, ConsoleAssumption DEF Upto
<1>3. CASE Len(EarlyMessages) # 0
  <2>1. PICK n : n = Len(EarlyMessages)
    OBVIOUS
  <2>2. n = 1 \/ n = 2
    BY <1>1, <1>3, <2>1
  <2>3. PICK f : IsFlat(f, EarlyMessages, n) /\ FlattenSeq(EarlyMessages) = f[n]
    BY <1>1, <1>3, <2>1, FlattenUnfolds
  <2>4. f[1] = EarlyMessages[1]
    BY <2>2, <2>3 DEF IsFlat
  <2>5. n = 2 => f[2] = Join(f[1], EarlyMessages[2])
    BY <2>3 DEF IsFlat
  <2>6. Upto(n) = FlattenSeq(EarlyMessages)
    BY <2>2, <2>3, <2>4, <2>5 DEF Upto
  <2>7. n - 1 \in 0 .. n - 1 /\ n - 1 + 1 = n
    BY <2>2
  <2>8. Upto(n) \in Seq(STRING)
    BY <2>1, <2>7, UptoOneMore DEF Appended
  <2> QED
    BY <2>1, <2>6, <2>8, ConsoleAssumption
<1> QED
  BY <1>2, <1>3

\* What log_buf holds until then: the second message goes where the first one
\* ends, because that is where g_record stands; a third would not.
LogInv ==
  /\ at[Shell] = "boot" =>
       /\ early \in 0 .. Len(EarlyMessages) /\ IsBuffer(log_buf, LOG_BUF_LEN)
       /\ g_record_len = Len(Upto(early))
       /\ early < 2 => g_record = Len(Upto(early))
       /\ \A k \in 0 .. Len(Upto(early)) - 1 : log_buf[k] = Upto(early)[k + 1]
  /\ g_printk_status = "READY" => at[Shell] # "boot" /\ EarlyLogReplayed

\* A message goes behind those before it.
LEMMA EarlyPrintkLog ==
  ASSUME Len(EarlyMessages) <= 2, LogInv, EarlyPrintk PROVE LogInv'
<1>1. PICK text : text = EarlyMessages[early + 1]
  OBVIOUS
<1>2. /\ at[Shell] = "boot" /\ early < Len(EarlyMessages) /\ early' = early + 1
      /\ log_buf' = memcpy(log_buf, g_record, text)
      /\ g_record' = Len(text) /\ g_record_len' = g_record_len + Len(text)
      /\ UNCHANGED <<g_printk_status, at>>
  BY <1>1 DEF EarlyPrintk
<1>3. /\ early \in 0 .. Len(EarlyMessages) - 1 /\ early < 2 /\ Len(EarlyMessages) \in Nat
      /\ early + 1 \in 0 .. Len(EarlyMessages)
  <2>1. early \in 0 .. Len(EarlyMessages)
    BY <1>2 DEF LogInv
  <2>2. EarlyMessages \in Seq(Seq(STRING))
    BY ConsoleAssumption
  <2>3. Len(EarlyMessages) \in Nat
    BY <2>2
  <2> QED
    BY <1>2, <2>1, <2>3
<1>4. PICK old, new, m, n : /\ old = Upto(early) /\ new = Upto(early + 1)
                            /\ m = Len(old) /\ n = Len(text)
  OBVIOUS
<1>5. /\ old \in Seq(STRING) /\ text \in Seq(STRING) /\ new \in Seq(STRING)
      /\ Len(new) = m + n /\ m \in Nat /\ n \in Nat
      /\ \A k \in 1 .. m : new[k] = old[k]
      /\ \A k \in 1 .. n : new[m + k] = text[k]
  <2>1. Appended(Upto(early), EarlyMessages[early + 1], Upto(early + 1))
    BY <1>3, UptoOneMore
  <2> QED
    BY <1>1, <1>4, <2>1 DEF Appended
<1>6. m + n <= LOG_BUF_LEN
  <2>1. PICK total : total = Len(Upto(Len(EarlyMessages)))
    OBVIOUS
  <2>2. total <= LOG_BUF_LEN /\ total \in Nat /\ LOG_BUF_LEN \in Nat
    BY <2>1, UptoAll, ConsoleAssumption
  <2>3. CASE early + 1 = Len(EarlyMessages)
    BY <1>4, <1>5, <2>1, <2>2, <2>3
  <2>4. CASE early + 1 # Len(EarlyMessages)
    <3>1. early = 0 /\ Len(EarlyMessages) = 2
      <4>1. PICK n0 : n0 = Len(EarlyMessages)
        OBVIOUS
      <4> QED
        BY <1>3, <2>4, <4>1
    <3>2. 1 \in 0 .. Len(EarlyMessages) - 1 /\ 1 + 1 = 2
      BY <3>1
    <3>3. Len(Upto(2)) = Len(Upto(1)) + Len(EarlyMessages[2]) /\ Len(EarlyMessages[2]) \in Nat
      BY <3>2, UptoOneMore DEF Appended
    <3> QED
      BY <1>4, <1>5, <2>1, <2>2, <3>1, <3>3
  <2> QED
    BY <2>3, <2>4
<1>7. /\ g_record = m /\ g_record_len = m
      /\ \A k \in 0 .. m - 1 : log_buf[k] = old[k + 1]
      /\ log_buf = [k \in 0 .. LOG_BUF_LEN - 1 |-> log_buf[k]]
  BY <1>2, <1>3, <1>4 DEF LogInv, IsBuffer
<1>8. log_buf' = [k \in 0 .. LOG_BUF_LEN - 1 |->
                    IF k \in m .. m + n - 1 THEN text[k - m + 1] ELSE log_buf[k]]
  BY <1>2, <1>4, <1>7 DEF memcpy
<1>9. IsBuffer(log_buf', LOG_BUF_LEN)
  BY <1>8 DEF IsBuffer
<1>10. ASSUME NEW k \in 0 .. Len(new) - 1 PROVE log_buf'[k] = new[k + 1]
  <2>1. k \in 0 .. LOG_BUF_LEN - 1
    BY <1>5, <1>6, ConsoleAssumption
  <2>2. CASE k < m
    <3>1. log_buf'[k] = log_buf[k] /\ k \in 0 .. m - 1 /\ k + 1 \in 1 .. m
      BY <1>5, <1>8, <2>1, <2>2
    <3> QED
      BY <1>5, <1>7, <3>1
  <2>3. CASE ~(k < m)
    <3>1. log_buf'[k] = text[k - m + 1] /\ k - m + 1 \in 1 .. n /\ m + (k - m + 1) = k + 1
      BY <1>5, <1>8, <2>1, <2>3
    <3> QED
      BY <1>5, <3>1
  <2> QED
    BY <2>2, <2>3
<1>11. early' < 2 => g_record' = Len(new)
  <2>1. early' < 2 => early = 0
    BY <1>2, <1>3
  <2>2. early = 0 => m = 0
    BY <1>4 DEF Upto
  <2> QED
    BY <1>2, <1>4, <1>5, <2>1, <2>2
<1>12. g_printk_status' # "READY"
  BY <1>2 DEF LogInv
<1>13. new = Upto(early') /\ g_record_len' = Len(new)
  BY <1>2, <1>4, <1>5, <1>7
<1> QED
  BY <1>2, <1>3, <1>9, <1>10, <1>11, <1>12, <1>13 DEF LogInv, Upto

\* The log is sent as it stands.
LEMMA init_printk_doneLog ==
  ASSUME Len(EarlyMessages) <= 2, ConsoleInv, LogInv, init_printk_done PROVE LogInv'
<1>1. PICK all : all = Upto(Len(EarlyMessages))
  OBVIOUS
<1>2. all = FlattenSeq(EarlyMessages) /\ all \in Seq(STRING)
  BY <1>1, UptoAll
<1>3. /\ at[Shell] = "boot" /\ early = Len(EarlyMessages)
      /\ replayed' = Sent([k \in 1 .. g_record_len |-> log_buf[k - 1]])
      /\ at' = [at EXCEPT ![current] = "idle"]
  BY DEF init_printk_done, Goto
<1>4. g_record_len = Len(all) /\ \A k \in 0 .. Len(all) - 1 : log_buf[k] = all[k + 1]
  BY <1>1, <1>3 DEF LogInv
<1>5. [k \in 1 .. g_record_len |-> log_buf[k - 1]] = all
  <2>1. \A k \in 1 .. Len(all) : k - 1 \in 0 .. Len(all) - 1 /\ k - 1 + 1 = k
    BY <1>2
  <2>2. \A k \in 1 .. Len(all) : log_buf[k - 1] = all[k]
    BY <1>4, <2>1
  <2>3. all = [k \in 1 .. Len(all) |-> all[k]]
    BY <1>2
  <2> QED
    BY <1>4, <2>2, <2>3
<1>6. replayed' = Sent(FlattenSeq(EarlyMessages))
  BY <1>2, <1>3, <1>5
<1>7. at'[Shell] = "idle"
  BY <1>3 DEF ConsoleInv, ConsoleType, BootInv, BeforeShell, Task
<1>8. EarlyLogReplayed'
  BY <1>6 DEF EarlyLogReplayed
<1> QED
  BY <1>7, <1>8 DEF LogInv

\* Everything after it leaves the log alone.
LEMMA LaterLog ==
  ASSUME ConsoleInv, LogInv, UNCHANGED printkVars, NEW x, x # "boot",
         \/ at' = at
         \/ at[current] # "boot" /\ at' = [at EXCEPT ![current] = x]
  PROVE  LogInv'
<1>1. at'[Shell] = "boot" <=> at[Shell] = "boot"
  BY DEF ConsoleInv, ConsoleType, Task
<1> QED
  BY <1>1 DEF LogInv, printkVars, EarlyLogReplayed

\* Every step preserves LogInv.
LEMMA StepLog ==
  ASSUME Len(EarlyMessages) <= 2, ConsoleInv, LogInv, [Next]_vars PROVE LogInv'
<1> USE DEF Goto
<1>1. CASE EarlyPrintk
  BY <1>1, EarlyPrintkLog
<1>2. CASE init_printk_done
  BY <1>2, init_printk_doneLog
<1>3. CASE Call
  BY <1>3, LaterLog DEF Call
<1>4. CASE FormatChar
  BY <1>4, LaterLog DEF FormatChar
<1>5. CASE PutChar
  BY <1>5, LaterLog DEF PutChar
<1>6. CASE Return
  BY <1>6, LaterLog DEF Return
<1>7. CASE Tick
  BY <1>7, LaterLog DEF Tick
<1>8. CASE Prompt
  BY <1>8, LaterLog DEF Prompt
<1>9. CASE RecvChar
  BY <1>9, LaterLog DEF RecvChar
<1>10. CASE Echo
  BY <1>10, LaterLog DEF Echo
<1>11. CASE UNCHANGED vars
  BY <1>11, LaterLog DEF vars
<1> QED
  BY <1>1, <1>2, <1>3, <1>4, <1>5, <1>6, <1>7, <1>8, <1>9, <1>10, <1>11 DEF Next, ShellStep

\* init_printk_done sends the messages printed before it, complete and in
\* order, if there are at most two.  With three it does not: printk sets
\* g_record to the length of a message, not to where it ends.
THEOREM EarlyLogKept == Len(EarlyMessages) <= 2 => (Spec => []EarlyLogReplayed)
<1> SUFFICES ASSUME Len(EarlyMessages) <= 2 PROVE Spec => []EarlyLogReplayed
  OBVIOUS
<1>1. Init => LogInv
  <2> SUFFICES ASSUME Init PROVE LogInv
    OBVIOUS
  <2>1. /\ g_printk_status = "DOWN" /\ early = 0 /\ g_record = 0 /\ g_record_len = 0
        /\ IsBuffer(log_buf, LOG_BUF_LEN)
    BY DEF Init, IsBuffer
  <2>2. Upto(0) = <<>> /\ Len(<<>>) = 0 /\ 0 \in 0 .. Len(EarlyMessages)
    BY ConsoleAssumption DEF Upto
  <2> QED
    BY <2>1, <2>2 DEF LogInv
<1>2. ConsoleInv /\ LogInv /\ [Next]_vars => LogInv'
  BY StepLog
<1>3. LogInv => EarlyLogReplayed
  BY DEF LogInv, EarlyLogReplayed
<1> QED
  BY <1>1, <1>2, <1>3, ConsoleInvariant, PTL DEF Spec
=============================================================================
