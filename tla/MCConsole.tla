----------------------------- MODULE MCConsole ------------------------------
(* A small instance of Console. *)
EXTENDS Console

\* Three pages' memory map, and messages cut short; arguments as in the code.
Num(v) == [int |-> v]
Dir(conv, length) == Directive(<<>>, <<>>, <<>>, length, conv)
Message(ch) == Literal(<<ch, "nl">>)
MCTexts ==
  [memory |-> [items |-> <<Char("@"), Directive(<<"#">>, <<>>, <<>>, <<"l">>, "x"),
                           StringDirective, Char("nl")>>,
               args |-> <<Num(31), CString(<<"U">>)>>],
   gdt |-> Message("G"), pmm |-> Message("P"), idt |-> Message("I"),
   pic |-> Message("R"), serial |-> Message("S"), vmm |-> Message("V"),
   kb |-> Message("K"),
   size |-> [items |-> <<Dir("d", <<>>), Char(" "), Dir("d", <<>>), Char("nl")>>,
             args |-> <<Num(8), Num(16)>>],
   info |-> Message("i"), bad |-> Message("b"),
   panic |-> [items |-> <<Char("nl"), Char("!"), StringDirective>>,
              args |-> <<CString(<<"P", "F">>)>>]]

\* One directive, with every combination of flags that means something to it.
Flags(set) == {SetToSeq(f) : f \in SUBSET set}
Lengths == {<<>>, <<"h", "h">>, <<"l">>}
LengthsAll == Lengths \cup {<<"h">>, <<"l", "l">>, <<"t">>, <<"j">>, <<"z">>}
Values == {-128, -9, -1, 0, 5, 8, 127}

Signed ==
  {PrintStep("buffer", BufferRoom, <<Directive(f, w, p, l, "d")>>, <<Num(v)>>, 0) :
     f \in Flags({"0", "-", "+", " "}), w \in {<<>>, <<"4">>},
     p \in {<<>>, <<".">>, <<".", "2">>}, l \in {<<"h", "h">>, <<"l">>}, v \in Values}

Unsigned ==
  {PrintStep("buffer", BufferRoom, <<Directive(f, w, p, <<"l">>, c)>>, <<Num(v)>>, 0) :
     f \in Flags({"0", "-", "#"}), w \in {<<>>, <<"2">>, <<"5">>},
     p \in {<<>>, <<".">>, <<".", "3">>}, c \in {"x", "X", "o", "b", "u"},
     v \in {0, 1, 8, 47, 255}}

\* Every length modifier, each with a value of its type.
Lengthy ==
  {PrintStep("buffer", BufferRoom, <<Directive(<<>>, <<>>, <<>>, l, c)>>, <<Num(v)>>, 0) :
     l \in LengthsAll, c \in {"i", "u", "o"}, v \in {-2, 1, 31}}

Stars ==
  {PrintStep("buffer", BufferRoom, <<Directive(f, <<"*">>, <<".", "*">>, <<>>, "d"), Char("|")>>,
            <<Num(w), Num(p), Num(v)>>, 0) :
     f \in Flags({"0", "-"}), w \in {-4, 0, 4}, p \in {-1, 0, 3}, v \in {0, 5}}

Array(n, t) == [chars |-> SubSeq(<<"x", "y", "z">>, 1, n), terminated |-> t]
\* An array without a terminator has the characters its precision asks for.
Strings ==
  {PrintStep("buffer", BufferRoom, <<Directive(f, w, p, <<>>, "s")>>, <<a>>, 0) :
     f \in Flags({"-"}), w \in {<<>>, <<"4">>},
     p \in {<<>>, <<".">>, <<".", "2">>, <<".", "5">>},
     a \in {NullString} \cup {Array(n, TRUE) : n \in {0, 2, 3}}}
  \cup
  {PrintStep("buffer", BufferRoom, <<Directive(<<>>, <<>>, p, <<>>, "s")>>, <<a>>, 0) :
     p \in {<<".">>, <<".", "0">>, <<".", "1">>, <<".", "2">>}, a \in {Array(n, FALSE) : n \in {2, 3}}}

OneDirectives == Signed \cup Unsigned \cup Lengthy \cup Stars \cup Strings

\* Several directives into buffers of any size, with %n, %% and an unknown one.
Mixed == <<Char("a"), Directive(<<>>, <<"3">>, <<>>, <<>>, "c"), Dir("%", <<>>),
           Dir("n", <<>>), Dir("p", <<>>), Dir("d", <<>>)>>
Buffers ==
  {PrintStep("buffer", max, Mixed, <<[char |-> "c"], Num(0), Num(q), Num(-7)>>, 0) : max \in 0 .. BufferRoom, q \in {0, 29}}

\* Formats that end inside their last directive.
CutOff ==
  {PrintStep("buffer", BufferRoom, items, <<Num(2), Num(2), Num(2)>>, cut) :
     items \in {<<Char("a"), Directive(<<"0", "#">>, <<"3">>, <<".", "2">>, <<"l", "l">>, "x")>>,
                <<Directive(<<"-">>, <<"*">>, <<".", "*">>, <<"h", "h">>, "d")>>},
     cut \in 0 .. 6}

MCCalls == OneDirectives \cup Buffers \cup CutOff

\* printf's loop over a message, at most as often as its format is long.
Rounds(s) ==
  LET first == Begun(s)
      Round(l, j) == IF Finished(l) THEN l ELSE Iterate(l)
  IN  {[loop |-> FoldLeft(Round, first, [j \in 1 .. n |-> j]), text |-> TextOf(s)] :
         n \in 0 .. Len(first.rest)}

HasDirective(s) == \E j \in DOMAIN s.items : s.items[j].conv # "copy"
MCFormatting == UNION {Rounds(s) : s \in {m \in Messages : HasDirective(m)}}
MCAscii == UNION {ToSet(TextOf(s)) : s \in Messages}
=============================================================================
