------------------------------ MODULE Console ------------------------------
(***************************************************************************)
(* Everything that goes over the serial line: printk and its buffers        *)
(* (lib/printk.c), the UART (mach-rpi/pl_uart.c) and the shell loop of      *)
(* start_kernel (init/main.c).  print_buf is one static buffer for all      *)
(* callers, and one of them is the tick: task_tick_nop prints a line when a *)
(* slice is used up, before the scheduler takes the CPU away.               *)
(*                                                                          *)
(* A text is a sequence of characters; what myprintf makes of a format is   *)
(* module Printf.                                                           *)
(***************************************************************************)
EXTENDS Integers, Sequences, SequencesExt

CONSTANTS Thread,            \* the tasks that call printk in a loop
          Shell,             \* init_task
          Text,              \* what each task prints
          TickText,          \* what task_tick_nop prints
          EarlyMessages,     \* printk calls before init_printk_done, in order
          BUF, LOG_BUF_LEN,  \* sizes of print_buf and log_buf
          LINE,              \* size of the buffer of start_kernel
          Typed              \* what a user may type, line ends included

NUL == "nul"
LineEnd == {"CR", "LF"}
Task == Thread \cup {Shell}

\* myprintf does not look at its size argument: every text must fit.
ASSUME ConsoleAssumption ==
  /\ BUF \in Nat /\ LOG_BUF_LEN \in Nat
  /\ EarlyMessages \in Seq(Seq(STRING))
  /\ \A t \in Task : Text[t] \in Seq(STRING) \ {<<>>} /\ Len(Text[t]) < BUF
  /\ TickText \in Seq(STRING) \ {<<>>} /\ Len(TickText) < BUF
  /\ \A i \in 1 .. Len(EarlyMessages) : Len(EarlyMessages[i]) < BUF
  /\ Len(FlattenSeq(EarlyMessages)) <= LOG_BUF_LEN
  /\ LINE \in Nat \ {0} /\ Typed \subseteq STRING

VARIABLES
  g_printk_status,           \* "DOWN" or "READY"
  log_buf, g_record, g_record_len,
  early,                     \* early calls made so far
  replayed,                  \* what init_printk_done has sent
  print_buf,
  at,                        \* Task -> the point it has reached
  i,                         \* Task -> the index of its printk
  shown,                     \* history: what its call has sent
  overlapped,                \* history: somebody else wrote print_buf meanwhile
  current,
  buffer, index,             \* of start_kernel and uart_recv_string
  typed, echoed              \* history: the line, and what came back

printkVars == <<g_printk_status, log_buf, g_record, g_record_len, early, replayed>>
callVars == <<print_buf, i, shown, overlapped>>
shellVars == <<buffer, index, typed, echoed>>
vars == <<printkVars, callVars, at, current, shellVars>>

Init ==
  /\ g_printk_status = "DOWN"
  /\ log_buf = [k \in 0 .. LOG_BUF_LEN - 1 |-> NUL]
  /\ g_record = 0 /\ g_record_len = 0
  /\ early = 0 /\ replayed = <<>>
  /\ print_buf = [k \in 0 .. BUF - 1 |-> NUL]
  /\ at = [t \in Task |-> IF t = Shell THEN "boot" ELSE "idle"]
  /\ i = [t \in Task |-> 0]
  /\ shown = [t \in Task |-> <<>>]
  /\ overlapped = [t \in Task |-> FALSE]
  /\ current = Shell
  /\ buffer = [k \in 0 .. LINE - 1 |-> NUL]
  /\ index = 0
  /\ typed = <<>> /\ echoed = <<>>

Goto(x) == at' = [at EXCEPT ![current] = x]
----------------------------------------------------------------------------
(* The UART. *)

putchar(c) == IF c = "LF" THEN <<"CR", "LF">> ELSE <<c>>

\* What putchar makes of a text.
Sent(text) == FlattenSeq([k \in 1 .. Len(text) |-> putchar(text[k])])

\* uart_send_string: up to the terminator.
uart_send_string(b) ==
  LET n == CHOOSE k \in DOMAIN b : b[k] = NUL /\ \A j \in 0 .. k - 1 : b[j] # NUL
  IN  [k \in 1 .. n |-> b[k - 1]]

\* memcpy of a text into a buffer, and myprintf, which adds the terminator.
memcpy(b, from, text) ==
  [k \in DOMAIN b |->
     IF k \in from .. from + Len(text) - 1 THEN text[k - from + 1] ELSE b[k]]
myprintf(b, text) == [memcpy(b, 0, text) EXCEPT ![Len(text)] = NUL]

----------------------------------------------------------------------------
(* Before init_printk_done, with interrupts masked.                         *)

\* (mutant: the length is that of the last message)
EarlyPrintk_last_len ==
  /\ at[Shell] = "boot" /\ early < Len(EarlyMessages)
  /\ LET text == EarlyMessages[early + 1] IN
     /\ print_buf' = myprintf(print_buf, text)
     /\ log_buf' = memcpy(log_buf, g_record, text)
     /\ g_record' = Len(text)
     /\ g_record_len' = Len(text)
  /\ early' = early + 1
  /\ UNCHANGED <<g_printk_status, replayed, i, shown, overlapped, at, current,
                 shellVars>>

\* printk with the status still DOWN.
EarlyPrintk ==
  /\ at[Shell] = "boot" /\ early < Len(EarlyMessages)
  /\ LET text == EarlyMessages[early + 1] IN
     /\ print_buf' = myprintf(print_buf, text)
     /\ log_buf' = memcpy(log_buf, g_record, text)
     /\ g_record' = Len(text)
     /\ g_record_len' = g_record_len + Len(text)
  /\ early' = early + 1
  /\ UNCHANGED <<g_printk_status, replayed, i, shown, overlapped, at, current,
                 shellVars>>

init_printk_done ==
  /\ at[Shell] = "boot" /\ early = Len(EarlyMessages)
  /\ g_printk_status' = "READY"
  /\ replayed' = Sent([k \in 1 .. g_record_len |-> log_buf[k - 1]])
  /\ g_record' = 0 /\ g_record_len' = 0
  /\ Goto("idle")
  /\ UNCHANGED <<log_buf, early, callVars, current, shellVars>>

----------------------------------------------------------------------------
(* printk with the status READY, one character at a time.                   *)

Printing(t) == at[t] \in {"format", "put"}

\* Everybody else who is inside printk has lost what it formatted.
Overlap(t) == [u \in Task |-> overlapped[u] \/ (u # t /\ Printing(u))]

Call ==
  /\ at[current] = "idle"
  /\ i' = [i EXCEPT ![current] = 0]
  /\ shown' = [shown EXCEPT ![current] = <<>>]
  /\ overlapped' = [overlapped EXCEPT ![current] = FALSE]
  /\ Goto("format")
  /\ UNCHANGED <<printkVars, print_buf, current, shellVars>>

\* A store of myprintf, the terminator last.
FormatChar ==
  LET k == i[current] IN
  /\ at[current] = "format"
  /\ overlapped' = Overlap(current)
  /\ IF k < Len(Text[current])
       THEN /\ print_buf' = [print_buf EXCEPT ![k] = Text[current][k + 1]]
            /\ i' = [i EXCEPT ![current] = k + 1]
            /\ UNCHANGED at
       ELSE /\ print_buf' = [print_buf EXCEPT ![k] = NUL]
            /\ i' = [i EXCEPT ![current] = 0]
            /\ Goto("put")
  /\ UNCHANGED <<printkVars, shown, current, shellVars>>

\* (mutant: i <= len)
PutChar_past_len ==
  LET k == i[current] IN
  /\ at[current] = "put"
  /\ shown' = [shown EXCEPT ![current] = @ \o putchar(print_buf[k])]
  /\ i' = [i EXCEPT ![current] = k + 1]
  /\ IF k = Len(Text[current]) THEN Goto("return") ELSE UNCHANGED at
  /\ UNCHANGED <<printkVars, print_buf, overlapped, current, shellVars>>

\* for (i = 0; i < len; i++) putchar(print_buf[i])
PutChar ==
  LET k == i[current] IN
  /\ at[current] = "put"
  /\ shown' = [shown EXCEPT ![current] = @ \o putchar(print_buf[k])]
  /\ i' = [i EXCEPT ![current] = k + 1]
  /\ IF k + 1 = Len(Text[current]) THEN Goto("return") ELSE UNCHANGED at
  /\ UNCHANGED <<printkVars, print_buf, overlapped, current, shellVars>>

\* A thread loops; start_kernel goes on to its shell.
Return ==
  /\ at[current] = "return"
  /\ Goto(IF current = Shell THEN "prompt" ELSE "idle")
  /\ UNCHANGED <<printkVars, callVars, current, shellVars>>

\* A tick that uses up a slice: task_tick_nop's printk runs in the interrupt
\* handler, then __schedule picks a thread.  start_kernel enables interrupts
\* before its shell, and is never picked again.
Tick ==
  /\ current = Shell => at[Shell] \in {"prompt", "recv", "echo"}
  /\ print_buf' = myprintf(print_buf, TickText)
  /\ overlapped' = [u \in Task |-> overlapped[u] \/ Printing(u)]
  /\ current' \in Thread
  /\ UNCHANGED <<printkVars, i, shown, at, shellVars>>

----------------------------------------------------------------------------
(* The shell loop.                                                          *)

\* uart_send_string("> "), and the call of uart_recv_string
Prompt ==
  /\ at[current] = "prompt"
  /\ index' = 0
  /\ typed' = <<>> /\ echoed' = <<>>
  /\ Goto("recv")
  /\ UNCHANGED <<printkVars, callVars, current, buffer>>

\* (mutant: only a full line is terminated)
RecvChar_unterminated ==
  /\ at[current] = "recv"
  /\ \E c \in Typed :
       LET b == [buffer EXCEPT ![index] = c] IN
       /\ typed' = Append(typed, c)
       /\ IF c \in LineEnd \/ index + 1 = LINE
            THEN /\ index' = IF index + 1 = LINE THEN index ELSE index + 1
                 /\ buffer' = IF index + 1 = LINE THEN [b EXCEPT ![index'] = NUL] ELSE b
                 /\ Goto("echo")
            ELSE index' = index + 1 /\ buffer' = b /\ UNCHANGED at
  /\ UNCHANGED <<printkVars, callVars, current, echoed>>

\* A round of uart_recv_string with what follows its loop: uart_recv waits
\* for a character, whichever the user types.
RecvChar ==
  /\ at[current] = "recv"
  /\ \E c \in Typed :
       LET b == [buffer EXCEPT ![index] = c] IN
       /\ typed' = Append(typed, c)
       /\ IF c \in LineEnd \/ index + 1 = LINE
            THEN /\ index' = IF index + 1 = LINE THEN index ELSE index + 1
                 /\ buffer' = [b EXCEPT ![index'] = NUL]
                 /\ Goto("echo")
            ELSE index' = index + 1 /\ buffer' = b /\ UNCHANGED at
  /\ UNCHANGED <<printkVars, callVars, current, echoed>>

\* uart_send_string(buffer), and the line feed after it
Echo ==
  /\ at[current] = "echo"
  /\ echoed' = uart_send_string(buffer)
  /\ Goto("prompt")
  /\ UNCHANGED <<printkVars, callVars, current, buffer, index, typed>>

ShellStep == Prompt \/ RecvChar \/ Echo

Next == \/ EarlyPrintk \/ init_printk_done
        \/ Call \/ FormatChar \/ PutChar \/ Return
        \/ Tick \/ ShellStep

Spec == Init /\ [][Next]_vars
----------------------------------------------------------------------------
\* "record it into logbuffer" (lib/printk.c): init_printk_done sends the
\* messages printed before it, complete and in order.
EarlyLogReplayed ==
  g_printk_status = "READY" => replayed = Sent(FlattenSeq(EarlyMessages))

\* A call of printk that no other call overlaps puts out its own text and
\* nothing else, whatever earlier calls, torn ones included, have left in the
\* shared buffer.
CallsIntact ==
  \A t \in Task :
    at[t] = "return" /\ ~overlapped[t] => shown[t] = Sent(Text[t])

\* The shell sends back the line it got, and nothing of an earlier, longer
\* one; a line that fills the buffer loses its last character to the
\* terminator, and one in which a NUL was typed ends there.
Line == IF Len(typed) = LINE THEN Front(typed) ELSE typed
EchoesLine ==
  at[Shell] = "prompt" /\ typed # <<>> =>
    /\ IsPrefix(echoed, Line)
    /\ \A k \in 1 .. Len(echoed) : echoed[k] # NUL
    /\ echoed # Line => Line[Len(echoed) + 1] = NUL
=============================================================================
