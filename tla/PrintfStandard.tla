--------------------------- MODULE PrintfStandard ---------------------------
(***************************************************************************)
(* What a call of printf should print, after the C standard (C23, for %b). *)
(* A call is a sequence of items, each a character to be copied or a       *)
(* directive with its parts apart; Spell writes it as a format.  Nothing   *)
(* here is taken from the way printf.c finds its result: numbers are       *)
(* composed from the left, as sign, prefix, zeros and digits.              *)
(***************************************************************************)
EXTENDS Printf

\* Items.  width is <<>>, <<digit>> or <<"*">>; precision is <<>>, <<".">>,
\* <<".", digit>> or <<".", "*">>.
Char(ch) == [conv |-> "copy", ch |-> ch]
Directive(flags, width, precision, length, conv) ==
  [conv |-> conv, flags |-> flags, width |-> width, precision |-> precision,
   length |-> length]
Chars(text) == [j \in DOMAIN text |-> Char(text[j])]

SpellItem(d) ==
  CASE d.conv = "copy" -> <<d.ch>>
    [] OTHER -> <<"%">> \o d.flags \o d.width \o d.precision \o d.length
                  \o <<d.conv>>

Spell(items) == FlattenSeq([j \in DOMAIN items |-> SpellItem(items[j])])

-----------------------------------------------------------------------------

LengthFlags(d) ==
  CASE d.length \in {<<"l">>, <<"l", "l">>, <<"t">>, <<"j">>, <<"z">>} -> {"long"}
    [] d.length = <<"h">> -> {"short"}
    [] d.length = <<"h", "h">> -> {"char"}
    [] OTHER -> {}

\* A directive with the arguments of its asterisks and the one it converts.
\* A negative width is a '-' flag, a negative precision is none (-1).
Resolve(d, args) ==
  LET widthStar == d.width = <<"*">>
      precisionStar == d.precision = <<".", "*">>
      rest == IF widthStar THEN Tail(args) ELSE args
      last == IF precisionStar THEN Tail(rest) ELSE rest
      w == IF widthStar THEN Head(args).int ELSE Atou(d.width)
      p == IF d.precision = <<>> THEN -1
           ELSE IF precisionStar THEN Head(rest).int ELSE Atou(Tail(d.precision))
  IN  [width |-> IF w < 0 THEN -w ELSE w,
       flags |-> ToSet(d.flags) \cup (IF w < 0 THEN {"-"} ELSE {}),
       precision |-> IF p < 0 THEN -1 ELSE p,
       negative |-> p < 0 /\ precisionStar,
       args |-> last]

\* The numeral of m in base, the most significant digit first.
Numeral(m, base, symbols) ==
  LET n == CHOOSE n \in 1 .. (LongBits + 1) :
             m < base^n /\ \A k \in 1 .. (n - 1) : m >= base^k
  IN  [j \in 1 .. n |-> symbols[((m \div base^(n - j)) % base) + 1]]

\* The value of an integer argument.
ValueOf(d, a) ==
  IF d.conv \in {"d", "i"} THEN WrapSigned(a.int, BitsOf(LengthFlags(d)))
                           ELSE Wrap(a.int, BitsOf(LengthFlags(d)))

SignText(d, r, v) ==
  CASE v < 0 -> <<"-">>
    [] v >= 0 /\ d.conv \in {"d", "i"} /\ "+" \in r.flags -> <<"+">>
    [] v >= 0 /\ d.conv \in {"d", "i"} /\ r.flags \cap {"+", " "} = {" "} -> <<" ">>
    [] OTHER -> <<>>

PrefixText(d, r, m) ==
  IF "#" \in r.flags /\ m # 0 /\ d.conv \in {"x", "X", "b"}
  THEN <<"0", d.conv>> ELSE <<>>

\* The magnitude's digits, as many as the precision wants.
DigitsText(d, r, m) ==
  LET Precise(shown) == Repeat("0", r.precision - Len(shown)) \o shown
      Octal(digits) == IF /\ "#" \in r.flags /\ d.conv = "o"
                          /\ digits = <<>> \/ Head(digits) # "0"
                       THEN <<"0">> \o digits ELSE digits
  IN  Octal(Precise(
        IF m = 0 /\ r.precision = 0 THEN <<>>
        ELSE Numeral(m, Base(d.conv), IF d.conv = "X" THEN Upper ELSE Lower)))

\* The '0' flag fills the field with zeros: not with '-' or a precision.
NumberText(d, r, a) ==
  LET v == ValueOf(d, a)
      m == IF v < 0 THEN -v ELSE v
      width == IF "0" \in r.flags /\ "-" \notin r.flags /\ r.precision = -1
               THEN r.width ELSE 0
      Fill(front, digits) ==
        front \o Repeat("0", width - Len(front \o digits)) \o digits
  IN  Fill(SignText(d, r, v) \o PrefixText(d, r, m), DigitsText(d, r, m))

ArgumentText(d, r, a) ==
  CASE d.conv = "c" -> <<a.char>>
    [] d.conv = "s" ->
         IF a = NullString THEN <<"(", "n", "u", "l", "l", ")">>
         ELSE SubSeq(a.chars, 1, IF r.precision = -1 THEN Len(a.chars)
                                 ELSE Smaller(r.precision, Len(a.chars)))
    [] d.conv = "p" ->
         IF a.int = 0 THEN <<"(", "n", "i", "l", ")">>
         ELSE LET n == Numeral(a.int, 16, Lower)
              IN  <<"0", "x">> \o Repeat("0", PointerDigits - Len(n)) \o n
    [] OTHER -> NumberText(d, r, a)

InField(r, text) ==
  LET blanks == Repeat(" ", r.width - Len(text))
  IN  IF "-" \in r.flags THEN text \o blanks ELSE blanks \o text

Integers == {"d", "i", "u", "x", "X", "o", "b"}

\* Where printf.c is known to print something else: a number that needs more
\* than BufferSize characters is cut on the left; a negative precision is
\* taken as 0, not as none; %#.<n>b of 0 has a prefix.
Deviates(d, r, a) ==
  \/ r.negative
  \/ /\ d.conv \in Integers
     /\ \/ Len(NumberText(d, r, a)) > BufferSize
        \/ /\ d.conv = "b" /\ "#" \in r.flags /\ r.precision # -1
           /\ ValueOf(d, a) = 0

\* Directive d, with r what it is resolved to and a its argument, behind s.
Directed(s, d, r, a) ==
  [s EXCEPT !.text = @ \o InField(r, ArgumentText(d, r, a)),
            !.args = Tail(r.args),
            !.deviates = @ \/ Deviates(d, r, a)]
Resolved(s, d, r) == Directed(s, d, r, Head(r.args))

\* The items' text after each other; %n stores how long it is so far.
Printed(items, args) ==
  LET Item(s, d) ==
        CASE d.conv = "copy" -> [s EXCEPT !.text = Append(@, d.ch)]
          [] d.conv = "%" -> [s EXCEPT !.text = Append(@, "%")]
          [] d.conv = "n" -> [s EXCEPT !.stored = Len(s.text), !.args = Tail(@)]
          [] OTHER -> Resolved(s, d, Resolve(d, s.args))
  IN  FoldLeft(Item, [text |-> <<>>, args |-> args, stored |-> -1,
                      deviates |-> FALSE], items)

=============================================================================
