------------------------------ MODULE MCPrintf ------------------------------
(***************************************************************************)
(* Printf for TLC: every single directive over small sets of parts, and     *)
(* every short sequence of a few pieces, with cut-off directives among them.*)
(* The C types are scaled down to 3, 5 and 8 bits.                          *)
(***************************************************************************)
EXTENDS Printf

SomeFlags == {<<>>, <<"-">>, <<"0">>, <<"+">>, <<" ">>, <<"#">>, <<"+", "0">>, <<"#", "0">>,
              <<"0", "-">>, <<" ", "+">>, <<"#", "-">>}
SingleDirectives ==
  { <<Directive(f, w, p, q, c)>> :
      f \in SomeFlags,
      w \in {<<>>, <<"4">>, <<"1", "0">>},
      p \in {<<>>, <<".">>, <<".", "2">>},
      q \in {<<>>, <<"h">>, <<"l">>, <<"l", "l">>, <<"L">>},
      c \in {"d", "i", "u", "o", "x", "X", "p", "c", "s", "n"} }

Pieces ==
  { Character("%"), Character("a"), Character("*"), Character("."), Character("l"),
    Character("7"), Character("-"),
    Directive(<<"0">>, <<"4">>, <<>>, <<>>, "x"), Directive(<<>>, <<>>, <<>>, <<"l">>, "d"),
    Directive(<<"-">>, <<"3">>, <<>>, <<>>, "c"), Directive(<<>>, <<>>, <<>>, <<>>, "n") }
MaxPieces == 3

SomeStrings == {<<>>, <<"u", "v", "w">>}

AllFormats == SingleDirectives \cup UNION {[1 .. n -> Pieces] : n \in 0 .. MaxPieces}
=============================================================================
