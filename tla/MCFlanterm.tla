----------------------------- MODULE MCFlanterm -----------------------------
(***************************************************************************)
(* A screen of three lines and four columns, on which every cell shows a   *)
(* character of its own, and writes of one sequence or part of one.        *)
(***************************************************************************)
EXTENDS Flanterm

MCDefault == <<"canvas", 0>>
MCPrintable == {"a", "q", " "}
MCLeads == [lead2 |-> [remaining |-> 1, point |-> 0], lead3 |-> [remaining |-> 2, point |-> 1],
            lead4 |-> [remaining |-> 3, point |-> 2]]
MCCP437 == [p \in {0} |-> "glyph"]
MCWidth == [p \in {1, 2} |-> IF p = 1 THEN 2 ELSE 0]
MCDecSpecial == [q |-> "line"]
MCStartCells ==
  {[i \in Cells |-> [c |-> <<"r", "s", "t", "u", "v", "w", "x", "y", "z", "j", "k", "l">>[i + 1],
                     fg |-> DefaultFg, bg |-> Default]]}

Sequences1 == {<<f>> : f \in {"A", "B", "E", "F", "C", "D", "d", "G", "@", "P", "X", "M", "L", "J", "K"}}
Counts == {<<>>, <<"0">>, <<"2">>, <<"9">>}
Positions == {<<"3">>, <<"2", ";", "2">>, <<";", "3">>, <<"3", ";", "3">>}
Regions == {<<>>, <<"2">>, <<"1", ";", "2">>, <<"2", ";", "2">>}
Attributes ==
  {<<>>, <<"1">>, <<"2", "2">>, <<"7">>, <<"2", "7">>, <<"3", "1">>, <<"4", "2">>, <<"9", "1">>,
   <<"1", ";", "3", "1", ";", "7">>, <<"7", ";", "4", "2", ";", "5">>,
   <<"1", "0", "2">>, <<"5">>, <<"2", "5">>, <<"3", "9">>, <<"4", "9">>,
   <<"3", "8", ";", "5", ";", "2", "0">>, <<"3", "8", ";", "5", ";", "2">>, <<"4", "8", ";", "2", ";", "1", ";", "1", ";", "1">>}
ControlSequences ==
  {n \o f : n \in Counts, f \in Sequences1}
    \cup {n \o <<"H">> : n \in Positions} \cup {n \o <<"r">> : n \in Regions}
    \cup {n \o <<"m">> : n \in Attributes}
    \cup {<<"1", "J">>, <<"1", "K">>, <<"s">>, <<"u">>, <<"4", "h">>, <<"4", "l">>,
          <<"?", "2", "5", "l">>, <<"?", "2", "5", "h">>, <<"[">>, <<"?">>, <<>>, <<"2", ";">>,
          <<";", ";", ";", ";", ";", ";">>}
Escapes ==
  {<<"[">> \o q : q \in ControlSequences}
    \cup {<<c>> : c \in {"7", "8", "c", "D", "E", "M", "]", "\\"}}
    \cup {<<>>, <<"(", "0">>, <<")", "B">>, <<"]", "a", "BEL">>, <<"]", "ESC", "\\">>}
MCBuffers ==
  {<<"ESC">> \o q : q \in Escapes}
    \cup {<<c>> : c \in {"a", "q", "LF", "BS", "CR", "HT", "SO", "SI", "CAN", "CSI", "NUL",
                         "lead2", "lead4", "continuation"}}
    \cup {<<"a", "a", "a">>, <<"lead3", "continuation", "continuation">>}
=============================================================================
