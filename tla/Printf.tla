------------------------------- MODULE Printf -------------------------------
(***************************************************************************)
(* The formatting engine of libc/printf.c as configured here: no floating  *)
(* point, long long, %n.  One call is a record that Iterate advances by    *)
(* one iteration of format_string_loop; what the iteration puts out is     *)
(* appended to text, so that Len(text) is the gadget's pos.                *)
(*                                                                         *)
(* A character is a one-character string, "nl" or "nul"; a format is the   *)
(* sequence of its characters, its '\0' being what is behind the last one. *)
(* An argument is a number (or pointer) [int], a character [char] or an    *)
(* array of characters [chars, terminated].  long long, intmax_t, size_t   *)
(* and ptrdiff_t are long.                                                 *)
(***************************************************************************)
EXTENDS Integers, Sequences, SequencesExt

CONSTANTS
  BufferSize,                             \* PRINTF_INTEGER_BUFFER_SIZE
  CharBits, ShortBits, IntBits, LongBits,
  PointerDigits                           \* sizeof(void*) * 2U

ASSUME PrintfAssumption ==
  /\ {BufferSize, CharBits, PointerDigits} \subseteq Nat \ {0}
  /\ ShortBits >= CharBits /\ IntBits >= ShortBits /\ LongBits >= IntBits

Nul == "nul"
NullString == [chars |-> <<>>, terminated |-> FALSE]
FlagChars == {"0", "-", "+", " ", "#"}
Numerals == <<"0", "1", "2", "3", "4", "5", "6", "7", "8", "9">>
Lower == Numerals \o <<"a", "b", "c", "d", "e", "f">>
Upper == Numerals \o <<"A", "B", "C", "D", "E", "F">>

Smaller(a, b) == IF a < b THEN a ELSE b
Repeat(ch, n) == [j \in 1 .. (IF n > 0 THEN n ELSE 0) |-> ch]
Skip(s, n) == SubSeq(s, n + 1, Len(s))

-----------------------------------------------------------------------------
(* Numbers are built in buf, least significant digit first. *)

\* putchar_via_gadget and the space left in buf.
Push(buf, ch) == IF Len(buf) < BufferSize THEN Append(buf, ch) ELSE buf

ZerosTo(buf, n) == buf \o Repeat("0", Smaller(n, BufferSize) - Len(buf))

\* Mutant: a number padded on the right is padded on the left as well.
OutRevBoth(buf, width, flags) ==
  LET blanks == Repeat(" ", width - Len(buf))
  IN  (IF "0" \in flags THEN <<>> ELSE blanks) \o Reverse(buf)
        \o (IF "-" \in flags THEN blanks ELSE <<>>)

OutRev(buf, width, flags) ==
  LET blanks == Repeat(" ", width - Len(buf))
  IN  (IF flags \cap {"-", "0"} = {} THEN blanks ELSE <<>>) \o Reverse(buf)
        \o (IF "-" \in flags THEN blanks ELSE <<>>)

ZeroPad(flags) == "0" \in flags /\ "-" \notin flags

Signs(negative, flags) ==
  IF negative THEN <<"-">>
  ELSE IF "+" \in flags THEN <<"+">>
  ELSE IF " " \in flags THEN <<" ">> ELSE <<>>

\* The leading zeros: with '0' as many as fill the field.
Zeroed(digits, field, precision, flags) ==
  ZerosTo(IF ZeroPad(flags) THEN ZerosTo(digits, field) ELSE digits, precision)

Prefix(base, flags) ==
  CASE base = 16 /\ "upper" \in flags -> <<"X", "0">>
    [] base = 16 -> <<"x", "0">>
    [] base = 2 -> <<"b", "0">>
    [] OTHER -> <<"0">>

\* The prefix behind number, which has padding leading zeros: some are taken
\* back for it if they filled the field.
Prefixed(number, padding, base, precision, field, flags) ==
  LET hash == \/ "#" \in flags /\ ~(base = 8 /\ padding > 0)
              \/ "pointer" \in flags
      back == IF "precision" \notin flags /\ Len(number) \in {precision, field}
              THEN Smaller(padding, IF base = 8 THEN 1 ELSE 2) ELSE 0
  IN  IF hash THEN FoldLeft(Push, SubSeq(number, 1, Len(number) - back),
                            Prefix(base, flags))
      ELSE number

\* Zeros, prefix and sign are added in a field of the given width.
Assemble(digits, zeroed, signs, base, precision, field, flags) ==
  OutRev(FoldLeft(Push, Prefixed(zeroed, Len(zeroed) - Len(digits), base,
                                 precision, field, flags), signs),
         field, flags)

FinalizeIn(digits, signs, base, precision, field, flags) ==
  Assemble(digits, Zeroed(digits, field, precision, flags), signs, base,
           precision, field, flags)

Finalize(digits, negative, base, precision, width, flags) ==
  FinalizeIn(digits, Signs(negative, flags), base, precision,
             IF width > 0 /\ ZeroPad(flags) /\ Signs(negative, flags) # <<>>
             THEN width - 1 ELSE width,
             flags)

\* At most BufferSize digits; none of 0 with a precision.
Digits(value, base, flags) ==
  LET n == CHOOSE n \in 1 .. (LongBits + 1) :
             base^n > value /\ (n > 1 => base^(n - 1) <= value)
      symbols == IF "upper" \in flags THEN Upper ELSE Lower
  IN  IF value = 0 /\ "precision" \in flags THEN <<>>
      ELSE [j \in 1 .. Smaller(n, BufferSize) |->
              symbols[((value \div base^(j - 1)) % base) + 1]]

\* print_integer: 0 has no prefix, except for %#.<n>o and %#.<n>b.
PrintInteger(value, negative, base, precision, width, flags) ==
  LET plain == value = 0 /\ ("precision" \notin flags \/ base = 16)
  IN  Finalize(Digits(value, base, flags), negative, base, precision, width,
               IF plain THEN flags \ {"#"} ELSE flags)

-----------------------------------------------------------------------------
(* A directive: p has what is left of the format and of the arguments, and *)
(* what was found; cut: ADVANCE_IN_FORMAT_STRING met the end and returned. *)

At(p) == IF p.rest = <<>> THEN Nul ELSE Head(p.rest)

Advance(p) == [p EXCEPT !.rest = Tail(@), !.cut = Len(p.rest) = 1]

\* The number of leading characters of s that are in set.
Span(s, set) ==
  CHOOSE n \in 0 .. Len(s) : /\ \A j \in 1 .. n : s[j] \in set
                             /\ n < Len(s) => s[n + 1] \notin set

ParseFlags(p) ==
  LET n == Span(p.rest, FlagChars)
  IN  [p EXCEPT !.flags = ToSet(SubSeq(p.rest, 1, n)), !.rest = Skip(@, n)]

Atou(s) ==
  LET Value(ch) == (CHOOSE j \in 1 .. 10 : Numerals[j] = ch) - 1
      Next(i, ch) == i * 10 + Value(ch)
  IN  FoldLeft(Next, 0, s)

DigitsAhead(p) == Span(p.rest, ToSet(Numerals))

ParseWidth(p) ==
  LET n == DigitsAhead(p)
      w == Head(p.args).int
  IN  CASE n > 0 -> [p EXCEPT !.width = Atou(SubSeq(p.rest, 1, n)),
                              !.rest = Skip(@, n)]
        [] At(p) = "*" ->
             Advance([p EXCEPT !.width = IF w < 0 THEN -w ELSE w,
                               !.flags = IF w < 0 THEN @ \cup {"-"} ELSE @,
                               !.args = Tail(@)])
        [] OTHER -> p

\* Mutant: the end of the format is not looked for behind the point.
ParsePrecisionBlind(p) ==
  IF At(p) # "." THEN p
  ELSE LET q == [p EXCEPT !.flags = @ \cup {"precision"}, !.rest = Tail(@)]
           n == DigitsAhead(q)
       IN  CASE n > 0 -> [q EXCEPT !.precision = Atou(SubSeq(q.rest, 1, n)),
                                   !.rest = Skip(@, n)]
             [] At(q) = "*" ->
                  Advance([q EXCEPT !.precision =
                                      IF Head(q.args).int > 0 THEN Head(q.args).int ELSE 0,
                                    !.args = Tail(@)])
             [] OTHER -> q

ParsePrecision(p) ==
  IF At(p) # "." THEN p
  ELSE LET q == Advance([p EXCEPT !.flags = @ \cup {"precision"}])
           n == DigitsAhead(q)
       IN  CASE n > 0 -> [q EXCEPT !.precision = Atou(SubSeq(q.rest, 1, n)),
                                   !.rest = Skip(@, n)]
             [] At(q) = "*" ->
                  Advance([q EXCEPT !.precision =
                                      IF Head(q.args).int > 0 THEN Head(q.args).int ELSE 0,
                                    !.args = Tail(@)])
             [] OTHER -> q

Flag(p, f) == Advance([p EXCEPT !.flags = @ \cup {f}])

\* A letter that may be doubled.
Twice(p, ch, f) == IF At(p) = ch THEN Flag(p, f) ELSE p

ParseLength(p) ==
  CASE At(p) = "l" -> Twice(Flag(p, "long"), "l", "longlong")
    [] At(p) = "h" -> Twice(Flag(p, "short"), "h", "char")
    [] At(p) \in {"t", "j", "z"} -> Flag(p, "long")
    [] OTHER -> p

Parse(rest, args) ==
  ParseLength(ParsePrecision(ParseWidth(ParseFlags(
    Advance([rest |-> rest, args |-> args, flags |-> {}, width |-> 0,
             precision |-> 0, cut |-> FALSE])))))

-----------------------------------------------------------------------------
(* Conversions: the text of directive p with the argument a. *)

Wrap(v, bits) == v % 2^bits
WrapSigned(v, bits) == Wrap(v + 2^(bits - 1), bits) - 2^(bits - 1)

BitsOf(flags) ==
  CASE flags \cap {"long", "longlong"} # {} -> LongBits
    [] "char" \in flags -> CharBits
    [] "short" \in flags -> ShortBits
    [] OTHER -> IntBits

Base(conv) ==
  CASE conv \in {"x", "X"} -> 16 [] conv = "o" -> 8 [] conv = "b" -> 2
    [] OTHER -> 10

\* A signed value's magnitude is negated modulo 2^LongBits.
IntegerText(p, conv, a) ==
  LET signed == conv \in {"d", "i"}
      v == IF signed THEN WrapSigned(a, BitsOf(p.flags)) ELSE Wrap(a, BitsOf(p.flags))
      flags == ((p.flags
                  \ (IF Base(conv) = 10 THEN {"#"} ELSE {}))
                  \ (IF "precision" \in p.flags THEN {"0"} ELSE {}))
                  \ (IF signed THEN {} ELSE {"+", " "})
  IN  PrintInteger(Wrap(IF v > 0 THEN v ELSE -v, LongBits), v < 0, Base(conv),
                   p.precision, p.width,
                   IF conv = "X" THEN flags \cup {"upper"} ELSE flags)

Padded(p, text) ==
  LET blanks == Repeat(" ", p.width - Len(text))
  IN  IF "-" \in p.flags THEN text \o blanks ELSE blanks \o text

StringText(p, a) ==
  IF a = NullString THEN OutRev(Reverse(<<"(", "n", "u", "l", "l", ")">>), p.width, p.flags)
  ELSE Padded(p, IF "precision" \in p.flags
                 THEN SubSeq(a.chars, 1, Smaller(p.precision, Len(a.chars)))
                 ELSE a.chars)

\* strnlen_s_ and the copying loop look at a character before they look at
\* the precision, and a precision of 0 does not limit strnlen_s_ at all.
ReadsPast(p, a) ==
  /\ a # NullString /\ ~a.terminated
  /\ p.precision = 0 \/ p.precision >= Len(a.chars)

PointerText(p, a) ==
  LET flags == p.flags \cup {"0", "pointer"}
      width == PointerDigits + 2
  IN  IF a = 0 THEN OutRev(Reverse(<<"(", "n", "i", "l", ")">>), width, flags)
      ELSE PrintInteger(a, FALSE, 16, p.precision, width, flags)

-----------------------------------------------------------------------------
(* One iteration of format_string_loop on the call l:                      *)
(*   rest, args  what is left of the format and of the arguments           *)
(*   text        the characters put out so far                             *)
(*   stored      what %n stored last                                       *)
(*   ended       the loop returned from inside a directive                 *)
(*   past        the format was read behind its end, which ends the model  *)
(*   over        an array was read behind its end                          *)

NewCall(format, args) ==
  [rest |-> format, args |-> args, text |-> <<>>, stored |-> -1,
   ended |-> FALSE, past |-> FALSE, over |-> FALSE]

Finished(l) == l.rest = <<>> \/ l.ended \/ l.past

\* %n has 'h' and 'hh' store fewer bits.
Convert(l, p) ==
  LET conv == At(p)
      a == Head(p.args)
      behind == [l EXCEPT !.rest = Skip(p.rest, 1), !.args = p.args]
      used == [behind EXCEPT !.args = Tail(@)]
      Put(c, text) == [c EXCEPT !.text = @ \o text]
  IN  CASE conv \in {"d", "i", "u", "x", "X", "o", "b"} ->
             Put(used, IntegerText(p, conv, a.int))
        [] conv = "c" -> Put(used, Padded(p, <<a.char>>))
        [] conv = "s" -> [Put(used, StringText(p, a)) EXCEPT
                            !.over = @ \/ ReadsPast(p, a)]
        [] conv = "p" -> Put(used, PointerText(p, a.int))
        [] conv = "n" -> [used EXCEPT
                            !.stored = WrapSigned(Len(l.text), BitsOf(p.flags))]
        [] conv = Nul -> [Put(l, <<Nul>>) EXCEPT !.past = TRUE]
        [] OTHER -> Put(behind, <<conv>>)

AfterParse(l, p) ==
  IF p.cut THEN [l EXCEPT !.ended = TRUE, !.args = p.args] ELSE Convert(l, p)

Iterate(l) ==
  IF Head(l.rest) # "%"
  THEN [l EXCEPT !.text = Append(@, Head(l.rest)), !.rest = Tail(@)]
  ELSE AfterParse(l, Parse(l.rest, l.args))

=============================================================================
