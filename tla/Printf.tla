------------------------------- MODULE Printf -------------------------------
(***************************************************************************)
(* myprintf and number of lib/printk.c: the formatter behind every printk.  *)
(* A format is a sequence of pieces that are spelled out as characters;     *)
(* myprintf sees the characters only and has to find the pieces again.      *)
(***************************************************************************)
EXTENDS Integers, Sequences, FiniteSets, SequencesExt, FiniteSetsExt

CONSTANTS Formats,              \* the formats to try, as sequences of pieces
          CHAR, SHORT, INT, LONG, \* bits of the C types
          POINTER,              \* sizeof(void *)
          Slots,                \* arguments for %d and its like, 0 .. 2^LONG - 1
          Chars,                \* arguments for %c
          Strings,              \* arguments for %s
          Ints,                 \* what the int may hold that %n points at
          StaleBases            \* what `base' may hold uninitialised

NUL == "nul"
NULL == <<"null pointer">>

(* Characters. *)
UPPER == <<"0", "1", "2", "3", "4", "5", "6", "7", "8", "9",
           "A", "B", "C", "D", "E", "F">>
SMALLS == <<"0", "1", "2", "3", "4", "5", "6", "7", "8", "9",
            "a", "b", "c", "d", "e", "f">>
Digit == {UPPER[k] : k \in 1 .. 10}
is_digit(c) == c \in Digit
FlagChar == {"-", "+", " ", "#", "0"}
Flag(c) == CASE c = "-" -> "LEFT"    [] c = "+" -> "PLUS" [] c = " " -> "SPACE"
             [] c = "#" -> "SPECIAL" [] c = "0" -> "ZEROPAD"

(* A piece is a directive, or a character with nothing around it.           *)
Piece == [lead : Seq(STRING), flags : Seq(STRING), width : Seq(STRING),
          precision : Seq(STRING), qualifier : Seq(STRING), conversion : STRING]

ASSUME PrintfAssumption ==
  /\ \A f \in Formats : f \in Seq(Piece)
  /\ 0 < CHAR /\ CHAR < SHORT /\ SHORT < INT /\ INT < LONG
  /\ POINTER \in Nat \ {0} /\ Ints \subseteq 0 .. 2^INT - 1
  /\ Slots \subseteq 0 .. 2^LONG - 1
  /\ StaleBases \cap 2 .. 36 \subseteq 2 .. Len(UPPER)

Directive(flags, width, precision, qualifier, conversion) ==
  [lead |-> <<"%">>, flags |-> flags, width |-> width,
   precision |-> precision, qualifier |-> qualifier, conversion |-> conversion]
Character(c) ==
  [lead |-> <<>>, flags |-> <<>>, width |-> <<>>,
   precision |-> <<>>, qualifier |-> <<>>, conversion |-> c]
Spell(p) == p.lead \o p.flags \o p.width \o p.precision \o p.qualifier
              \o <<p.conversion>>
IsDirective(p) == p.lead # <<>>

Times(c, n) == [k \in 1 .. IF n > 0 THEN n ELSE 0 |-> c]
-----------------------------------------------------------------------------
(* number: the sign, the prefix, the padding and the digits.                *)

\* The digits of num: the loop around do_div fills tmp from the right.
do_div(num, base, digits) ==
  LET tmp[n \in Nat] == IF n < base THEN <<digits[n + 1]>>
                        ELSE Append(tmp[n \div base], digits[(n % base) + 1])
  IN  tmp[num]

\* What `while (n-- > 0)' leaves in n.
Spent(n) == IF n > 0 THEN -1 ELSE n - 1

\* `num' is an unsigned long; a `base' out of range makes number return 0.
number(num, base, width, prec, flags) ==
  LET type    == IF "LEFT" \in flags THEN flags \ {"ZEROPAD"} ELSE flags
      digits  == IF "SMALL" \in type THEN SMALLS ELSE UPPER
      minus   == "SIGN" \in type /\ num >= 2^(LONG - 1)
      plain   == "SIGN" \in type /\ ~minus
      sign    == CASE minus -> <<"-">>
                   [] plain /\ "PLUS" \in type -> <<"+">>
                   [] plain /\ "PLUS" \notin type /\ "SPACE" \in type -> <<" ">>
                   [] OTHER -> <<>>
      special == CASE "SPECIAL" \in type /\ base = 16
                        -> <<"0", IF "SMALL" \in type THEN "x" ELSE "X">>
                   [] "SPECIAL" \in type /\ base = 8 -> <<"0">>
                   [] OTHER -> <<>>
      tmp     == do_div(IF minus THEN 2^LONG - num ELSE num, base, digits)
      precision == Max({Len(tmp), prec})
      size0   == width - (IF minus THEN 0 ELSE Len(sign)) - Len(special) - precision
      blank   == type \cap {"ZEROPAD", "LEFT"} = {}
      size1   == IF blank THEN Spent(size0) ELSE size0
      size2   == IF "LEFT" \in type THEN size1 ELSE Spent(size1)
  IN  (IF blank THEN Times(" ", size0) ELSE <<>>)
        \o sign \o special
        \o (IF "LEFT" \in type THEN <<>>
            ELSE Times(IF "ZEROPAD" \in type THEN "0" ELSE " ", size1))
        \o Times("0", precision - Len(tmp)) \o tmp \o Times(" ", size2)

\* (mutant: no sign extension)
Widen_unsigned(a, bits, signed) == a % 2^bits

\* va_arg of the numeric conversions, widened to unsigned long.
Widen(a, bits, signed) ==
  LET v == a % 2^bits
  IN  IF signed /\ v >= 2^(bits - 1) THEN v + 2^LONG - 2^bits ELSE v
-----------------------------------------------------------------------------
VARIABLES
  format,                  \* the pieces
  fmt,                     \* index of the character myprintf looks at
  pos,                     \* the characters before `pos'
  lost,                    \* `pos' is the null pointer number returned
  at,                      \* the part of the loop body
  flags, field_width, precision, qualifier, base,
  args,                    \* history: the arguments taken
  counted                  \* the int that every %n is given a pointer to

locals == <<flags, field_width, precision, qualifier, base>>
vars == <<format, fmt, pos, lost, at, locals, args, counted>>

chars == FlattenSeq([k \in 1 .. Len(format) |-> Spell(format[k])])
Char(k) == IF k \in 1 .. Len(chars) THEN chars[k] ELSE NUL

Init ==
  /\ format \in Formats
  /\ fmt = 1 /\ pos = <<>> /\ lost = FALSE /\ at = "for"
  /\ flags = {} /\ field_width = -1 /\ precision = -1 /\ qualifier = ""
  /\ base \in StaleBases
  /\ args = <<>> /\ counted \in Ints

\* for (; *fmt; fmt++)
Scan ==
  LET c == Char(fmt) IN
  /\ at = "for"
  /\ \/ /\ c = NUL
        /\ at' = "return"
        /\ UNCHANGED <<fmt, pos, flags>>
     \/ /\ c \notin {NUL, "%"}
        /\ pos' = IF lost THEN pos ELSE Append(pos, c)
        /\ fmt' = fmt + 1
        /\ UNCHANGED <<at, flags>>
     \/ /\ c = "%"
        /\ flags' = {}
        /\ fmt' = fmt + 1
        /\ at' = "flags"
        /\ UNCHANGED pos
  /\ UNCHANGED <<format, lost, field_width, precision, qualifier, base, args, counted>>

\* The flags, up to a character that is none.
Flags ==
  LET c == Char(fmt) IN
  /\ at = "flags"
  /\ IF c \in FlagChar
       THEN flags' = flags \cup {Flag(c)} /\ fmt' = fmt + 1 /\ UNCHANGED at
       ELSE at' = "width" /\ UNCHANGED <<flags, fmt>>
  /\ UNCHANGED <<format, pos, lost, field_width, precision, qualifier, base, args, counted>>

\* scan_number: the index after the digits from k, and their value.
scan_number(k) ==
  LET end == Min({j \in k .. Len(chars) + 1 : ~is_digit(Char(j))})
      value(c) == CHOOSE v \in 0 .. 9 : UPPER[v + 1] = c
  IN  [end |-> end,
       value |-> FoldLeft(LAMBDA tmp, c : tmp * 10 + value(c), 0,
                          SubSeq(chars, k, end - 1))]

\* A slot read as an int.
Signed(a) == LET v == a % 2^INT IN IF v >= 2^(INT - 1) THEN v - 2^INT ELSE v

\* `*' takes an argument, and the format does not move past it.
Width ==
  LET c == Char(fmt) IN
  /\ at = "width"
  /\ at' = "precision"
  /\ \/ /\ is_digit(c)
        /\ LET n == scan_number(fmt) IN fmt' = n.end /\ field_width' = n.value
        /\ UNCHANGED <<flags, args>>
     \/ /\ c = "*"
        /\ \E a \in Slots :
             /\ field_width' = IF Signed(a) < 0 THEN -Signed(a) ELSE Signed(a)
             /\ flags' = IF Signed(a) < 0 THEN flags \cup {"LEFT"} ELSE flags
             /\ args' = Append(args, a)
        /\ UNCHANGED fmt
     \/ /\ ~is_digit(c) /\ c # "*"
        /\ field_width' = -1
        /\ UNCHANGED <<fmt, flags, args>>
  /\ UNCHANGED <<format, pos, lost, precision, qualifier, base, counted>>

Precision ==
  LET c == Char(fmt + 1) IN
  /\ at = "precision"
  /\ at' = "qualifier"
  /\ \/ /\ Char(fmt) # "."
        /\ precision' = -1
        /\ UNCHANGED <<fmt, args>>
     \/ /\ Char(fmt) = "." /\ is_digit(c)
        /\ LET n == scan_number(fmt + 1) IN fmt' = n.end /\ precision' = n.value
        /\ UNCHANGED args
     \/ /\ Char(fmt) = "." /\ c = "*"
        /\ \E a \in Slots :
             /\ precision' = Max({0, Signed(a)})
             /\ args' = Append(args, a)
        /\ fmt' = fmt + 1
     \/ /\ Char(fmt) = "." /\ ~is_digit(c) /\ c # "*"
        /\ precision' = 0
        /\ fmt' = fmt + 1
        /\ UNCHANGED args
  /\ UNCHANGED <<format, pos, lost, flags, field_width, qualifier, base, counted>>

Qualifier ==
  LET c == Char(fmt) IN
  /\ at = "qualifier"
  /\ at' = "convert"
  /\ IF c \in {"h", "l", "L"}
       THEN IF c = "l" /\ Char(fmt + 1) = "l"
              THEN qualifier' = "L" /\ fmt' = fmt + 2
              ELSE qualifier' = c /\ fmt' = fmt + 1
       ELSE qualifier' = "" /\ UNCHANGED fmt
  /\ UNCHANGED <<format, pos, lost, flags, field_width, precision, base, args, counted>>

\* A piece of output, and on to the next round of the loop.
Emit(text) ==
  /\ pos' = IF lost THEN pos ELSE pos \o text
  /\ fmt' = fmt + 1
  /\ at' = "for"

\* %c, %s, %n and %p finish their directive.
Char_c ==
  /\ at = "convert" /\ Char(fmt) = "c"
  /\ \E a \in Chars :
       /\ Emit(IF "LEFT" \in flags
                 THEN <<a>> \o Times(" ", field_width - 1)
                 ELSE Times(" ", field_width - 1) \o <<a>>)
       /\ args' = Append(args, a)
  /\ UNCHANGED <<format, lost, locals, counted>>

String_s ==
  /\ at = "convert" /\ Char(fmt) = "s"
  /\ \E a \in Strings \cup {NULL} :
       LET s   == IF a = NULL THEN <<"<", "N", "U", "L", "L", ">">> ELSE a
           len == IF precision < 0 THEN Len(s) ELSE Min({precision, Len(s)})
           pad == Times(" ", field_width - len)
       IN  /\ Emit(IF "LEFT" \in flags THEN SubSeq(s, 1, len) \o pad
                                       ELSE pad \o SubSeq(s, 1, len))
           /\ args' = Append(args, a)
  /\ UNCHANGED <<format, lost, locals, counted>>

\* %n stores a char: the rest of the int stays as it was.  (With `pos' lost,
\* that char is what is left of the difference of two pointers.)
Count_n ==
  /\ at = "convert" /\ Char(fmt) = "n"
  /\ Emit(<<>>)
  /\ \E c \in 0 .. 2^CHAR - 1 :
       /\ ~lost => c = Len(pos) % 2^CHAR
       /\ counted' = 2^CHAR * (counted \div 2^CHAR) + c
  /\ args' = Append(args, "pointer")
  /\ UNCHANGED <<format, lost, locals>>

Pointer_p ==
  /\ at = "convert" /\ Char(fmt) = "p"
  /\ LET wide == field_width = -1 IN
     \E a \in Slots :
       /\ field_width' = IF wide THEN 2 * POINTER ELSE field_width
       /\ flags' = IF wide THEN flags \cup {"ZEROPAD"} ELSE flags
       /\ Emit(number(a, 16, field_width', precision, flags'))
       /\ args' = Append(args, a)
  /\ UNCHANGED <<format, lost, precision, qualifier, base, counted>>

\* The other conversions set the base; the argument comes after the switch.
Base ==
  LET c == Char(fmt) IN
  /\ at = "convert" /\ c \in {"o", "x", "X", "d", "i", "u"}
  /\ base' = CASE c = "o" -> 8 [] c \in {"x", "X"} -> 16 [] OTHER -> 10
  /\ flags' = CASE c = "x" -> flags \cup {"SMALL"}
                [] c \in {"d", "i"} -> flags \cup {"SIGN"}
                [] OTHER -> flags
  /\ at' = "number"
  /\ UNCHANGED <<format, fmt, pos, lost, field_width, precision, qualifier, args, counted>>

Converted == {"c", "s", "n", "p", "o", "x", "X", "d", "i", "u"}

\* (mutant: no --fmt at the end of the format)
Default_past_end ==
  LET c == Char(fmt) IN
  /\ at = "convert" /\ c \notin Converted
  /\ pos' = IF lost THEN pos
            ELSE pos \o (IF c # "%" THEN <<"%">> ELSE <<>>)
                     \o (IF c # NUL THEN <<c>> ELSE <<>>)
  /\ fmt' = fmt
  /\ at' = "number"
  /\ UNCHANGED <<format, lost, locals, args, counted>>

\* default: the characters themselves, and on to number with whatever base
\* there is; at the end of the format it steps back.
Default ==
  LET c == Char(fmt) IN
  /\ at = "convert" /\ c \notin Converted
  /\ pos' = IF lost THEN pos
            ELSE pos \o (IF c # "%" THEN <<"%">> ELSE <<>>)
                     \o (IF c # NUL THEN <<c>> ELSE <<>>)
  /\ fmt' = IF c = NUL THEN fmt - 1 ELSE fmt
  /\ at' = "number"
  /\ UNCHANGED <<format, lost, locals, args, counted>>

\* The argument, by qualifier and sign, and the call of number.
Number ==
  LET bits == CASE qualifier = "h" -> SHORT [] qualifier = "" -> INT [] OTHER -> LONG
      good == base \in 2 .. 36
  IN
  /\ at = "number"
  /\ \E a \in Slots :
       /\ Emit(IF good THEN number(Widen(a, bits, "SIGN" \in flags), base,
                                   field_width, precision, flags)
                       ELSE <<>>)
       /\ args' = Append(args, a)
  /\ lost' = (lost \/ ~good)
  /\ UNCHANGED <<format, locals, counted>>

\* *pos = 0; return pos - string
Return == at = "return" /\ UNCHANGED vars

Next == \/ Scan \/ Flags \/ Width \/ Precision \/ Qualifier
        \/ Char_c \/ String_s \/ Count_n \/ Pointer_p
        \/ Base \/ Default \/ Number \/ Return

Spec == Init /\ [][Next]_vars
-----------------------------------------------------------------------------
(* What a directive stands for, from its parts and its argument.            *)

Decimal(ds) ==
  MapThenSumSet(LAMBDA k : 10^(Len(ds) - k) * (CHOOSE v \in 0 .. 9 : UPPER[v + 1] = ds[k]),
                DOMAIN ds)
Has(p, c) == c \in ToSet(p.flags)
Wide(p) == IF p.width = <<>> THEN 0 ELSE Decimal(p.width)

Numeral(v, b, glyph) ==
  LET n == CHOOSE n \in 1 .. LONG : v < b^n /\ (n > 1 => b^(n - 1) <= v)
  IN  [k \in 1 .. n |-> glyph[((v \div b^(n - k)) % b) + 1]]

Value(p, a) ==
  LET bits == CASE p.conversion = "p" -> LONG
                [] p.qualifier = <<>> -> INT
                [] p.qualifier = <<"h">> -> SHORT
                [] OTHER -> LONG
      v == a % 2^bits
  IN  IF p.conversion \in {"d", "i"} /\ v >= 2^(bits - 1) THEN v - 2^bits ELSE v

\* Sign and prefix, padding, and the digits.
NumberText(p, a) ==
  LET v      == Value(p, a)
      b      == CASE p.conversion = "o" -> 8 [] p.conversion \in {"x", "X", "p"} -> 16
                  [] OTHER -> 10
      small  == p.conversion = "x"
      signed == p.conversion \in {"d", "i"}
      sign   == IF ~signed THEN <<>>
                ELSE IF v < 0 THEN <<"-">>
                ELSE IF Has(p, "+") THEN <<"+">>
                ELSE IF Has(p, " ") THEN <<" ">> ELSE <<>>
      prefix == IF ~Has(p, "#") \/ b = 10 THEN <<>>
                ELSE <<"0", IF small THEN "x" ELSE "X">>
      figures == Numeral(IF v < 0 THEN -v ELSE v, b, IF small THEN SMALLS ELSE UPPER)
      body   == Times("0", (IF p.precision = <<>> THEN 0 ELSE Decimal(Tail(p.precision)))
                             - Len(figures)) \o figures
      bare   == p.conversion = "p" /\ p.width = <<>>
      wide   == IF bare THEN 2 * POINTER ELSE Wide(p)
      gap    == wide - Len(sign) - Len(prefix) - Len(body)
  IN  IF Has(p, "-") THEN sign \o prefix \o body \o Times(" ", gap)
      ELSE IF Has(p, "0") \/ bare THEN sign \o prefix \o Times("0", gap) \o body
      ELSE Times(" ", gap) \o sign \o prefix \o body

StringText(p, a) ==
  LET s    == IF a = NULL THEN <<"<", "N", "U", "L", "L", ">">> ELSE a
      body == IF p.precision = <<>> THEN s
              ELSE SubSeq(s, 1, Min({Len(s), Decimal(Tail(p.precision))}))
  IN  IF Has(p, "-") THEN body \o Times(" ", Wide(p) - Len(body))
                     ELSE Times(" ", Wide(p) - Len(body)) \o body

Meaning(p, a) ==
  CASE p.conversion = "s" -> StringText(p, a)
    [] p.conversion = "c" -> StringText([p EXCEPT !.precision = <<>>], <<a>>)
    [] p.conversion = "n" -> <<>>
    [] OTHER -> NumberText(p, a)

Directives == {k \in DOMAIN format : IsDirective(format[k])}
WellFormed == \A k \in DOMAIN format \ Directives : format[k].conversion # "%"

\* The directives take the arguments in turn.
Argument(k) == args[Cardinality(Directives \cap 1 .. k)]
PieceText(k) ==
  IF k \in Directives THEN Meaning(format[k], Argument(k)) ELSE <<format[k].conversion>>

\* Where myprintf departs from that meaning: `#' puts 0 before an octal number,
\* not the 0x of the comment, and a field with a negative number in it is a
\* character too wide.
Departs(p, a) ==
  \/ p.conversion = "o" /\ Has(p, "#")
  \/ p.conversion \in {"d", "i"} /\ p.width # <<>> /\ Value(p, a) < 0

\* A format made of characters and directives of the kinds the comment above
\* myprintf lists comes out as its pieces' texts, one argument for each
\* directive: no flag, width, base or argument of one directive reaches the
\* next, and %n tells how many characters came before it, as far as a char can
\* and if the caller has cleared the rest of the int.
RendersFormat ==
  at = "return" /\ WellFormed =>
    /\ ~lost
    /\ Len(args) = Cardinality(Directives)
    /\ (\A k \in Directives : ~Departs(format[k], Argument(k))) =>
         /\ pos = FlattenSeq([k \in DOMAIN format |-> PieceText(k)])
         /\ \A k \in Directives :
              LET before == Len(FlattenSeq([j \in 1 .. k - 1 |-> PieceText(j)])) IN
              /\ format[k].conversion = "n" /\ before < 2^CHAR /\ counted < 2^CHAR
              /\ \A j \in Directives : j > k => format[j].conversion # "n"
              => counted = before

\* Whatever the format, a directive cut off at its end included, myprintf does
\* not read beyond the terminator.
StopsAtNul == fmt <= Len(chars) + 1
=============================================================================
