---------------------------- MODULE MCFlantermFb ----------------------------
(***************************************************************************)
(* A screen of three lines and two columns on which every cell shows a     *)
(* character of its own, so that it matters which of them is moved.  It    *)
(* has more lines than columns, so the limit of raw_putchar is met.        *)
(***************************************************************************)
EXTENDS FlantermFb

MCChars == {"a", " "}
MCColours == {1}
MCMargins == {<<0, Rows>>, <<1, Rows>>, <<0, Rows - 1>>}
Names == <<"u", "v", "w", "x", "y", "z">>
MCStartCells ==
  {[i \in Cells |-> [c |-> Names[i + 1], fg |-> 1, bg |-> Default]]}
=============================================================================
