------------------------------ MODULE Flanterm ------------------------------
(***************************************************************************)
(* flanterm.c: the terminal emulator.  flanterm_write passes a buffer to   *)
(* flanterm_putchar byte by byte, which prints characters with the         *)
(* backend's callbacks (TextCallbacks) and parses UTF-8, control           *)
(* characters and escape sequences, whose state is kept between writes.    *)
(*                                                                         *)
(* A byte is a string: a printable character stands for itself, the others *)
(* have names ("ESC", "LF", ...).  No client has set a callback, so        *)
(* sequences that only report something are ignored.                       *)
(***************************************************************************)
EXTENDS TextCallbacks, Sequences, SequencesExt

CONSTANTS
  MaxValues,     \* FLANTERM_MAX_ESC_VALUES
  TabSize,       \* tab_size, set by flanterm_context_reinit
  Printable,     \* the bytes 0x20 .. 0x7e
  Leads,         \* leading bytes of UTF-8: [remaining |-> ..., point |-> ...]
  CP437,         \* code points with a glyph |-> the glyph
  Width,         \* the other code points |-> their width
  DecSpecial,    \* bytes with a glyph in the DEC special charset |-> the glyph
  StartCells,    \* contents of the screen to begin with
  Buffers,       \* what is written
  MaxWrites      \* bounds the writes

ASSUME FlantermAssumption == MaxValues \in Nat \ {0, 1} /\ TabSize \in Nat \ {0}

\* Every code point that a leading byte begins has a glyph or a width, and
\* the screen is full of something.
ASSUME BytesAssumption ==
  /\ Buffers \subseteq Seq(STRING)
  /\ \A c \in DOMAIN Leads : /\ Leads[c].remaining \in 1 .. 3
                            /\ Leads[c].point \in DOMAIN CP437 \cup DOMAIN Width
  /\ \A p \in DOMAIN Width : Width[p] \in Nat
  /\ \A g \in StartCells : g \in [Cells -> {g[i] : i \in Cells}]

VARIABLES
  term,      \* struct flanterm_context, with the backend's
  writes     \* counts them

vars == <<term, writes>>

None == -1
Normal(n) == <<"normal", n>>
Bright(n) == <<"bright", n>>
Rgb(n) == <<"rgb", n>>
Indexed(n) == <<"indexed", n>>
DefaultFg == <<"default fg", 0>>
DefaultFgBright == <<"default fg bright", 0>>
DefaultBgBright == <<"default bg bright", 0>>

-----------------------------------------------------------------------------
(* Select graphic rendition.  Reverse video swaps the palette: the text's  *)
(* foreground is then in bg.                                               *)

Fore(t, col) == IF t.reverse_video THEN [t EXCEPT !.bg = col] ELSE [t EXCEPT !.fg = col]
Back(t, col) == IF t.reverse_video THEN [t EXCEPT !.fg = col] ELSE [t EXCEPT !.bg = col]

SetReverse(t, b) ==
  IF t.reverse_video = b THEN t ELSE [SwapPalette(t) EXCEPT !.reverse_video = b]

ResetAttributes(t) ==
  [SetReverse(t, FALSE) EXCEPT !.bold = FALSE, !.bg_bold = FALSE,
     !.current_primary = None, !.current_bg = None, !.fg = DefaultFg, !.bg = Default]

\* 1, 22: with no colour chosen, the default of the side that is set.
SetBold(t, b) ==
  LET u == [t EXCEPT !.bold = b]
  IN  IF t.current_primary # None
      THEN Fore(u, IF b THEN Bright(t.current_primary) ELSE Normal(t.current_primary))
      ELSE IF t.reverse_video THEN [u EXCEPT !.bg = IF b THEN DefaultBgBright ELSE Default]
      ELSE [u EXCEPT !.fg = IF b THEN DefaultFgBright ELSE DefaultFg]

\* 5, 25.
SetBgBold(t, b) ==
  LET u == [t EXCEPT !.bg_bold = b]
  IN  IF t.current_bg # None
      THEN Back(u, IF b THEN Bright(t.current_bg) ELSE Normal(t.current_bg))
      ELSE IF t.reverse_video THEN [u EXCEPT !.fg = IF b THEN DefaultFgBright ELSE DefaultFg]
      ELSE [u EXCEPT !.bg = IF b THEN DefaultBgBright ELSE Default]

\* Mutant: the colour is set without regard to bold.
SetPrimaryPlain(t, n) ==
  Fore([t EXCEPT !.current_primary = n], Normal(n))

SetPrimary(t, n) ==
  Fore([t EXCEPT !.current_primary = n], IF t.bold THEN Bright(n) ELSE Normal(n))

SetBg(t, n) ==
  Back([t EXCEPT !.current_bg = n], IF t.bg_bold THEN Bright(n) ELSE Normal(n))

\* 39, 49.
DefaultPrimary(t) ==
  Fore([t EXCEPT !.current_primary = None], IF t.bold THEN DefaultFgBright ELSE DefaultFg)
DefaultBackground(t) ==
  Back([t EXCEPT !.current_bg = None], IF t.bg_bold THEN DefaultBgBright ELSE Default)

\* 38, 48: a colour of 256 or of RGB, from value i on, set whatever reverse
\* video says; [t, skip] with the number of values this takes.  Too few end sgr.
\* Indexed(n) looks like Normal(n) or Bright(n - 8).  The table of colours ends
\* with 255 and no line compares with it: a larger number reads what lies behind
\* it, some colour that Rgb(n) stands for like those of the table.
DirectColour(t, i) ==
  LET v == t.esc_values
      left == t.esc_values_i - 1 - i
      Set(col) == IF v[i] = 38 THEN [t EXCEPT !.fg = col] ELSE [t EXCEPT !.bg = col]
      Of256(n) == IF n < 16 THEN Indexed(n) ELSE Rgb(n)
  IN  CASE left = 0 -> [t |-> t, skip |-> MaxValues]
        [] left > 0 /\ v[i + 1] = 2 ->
             IF left < 4 THEN [t |-> t, skip |-> MaxValues]
             ELSE [t |-> Set(Rgb(v[i + 2] * 65536 + v[i + 3] * 256 + v[i + 4])), skip |-> 4]
        [] left > 0 /\ v[i + 1] = 5 ->
             IF left < 2 THEN [t |-> t, skip |-> MaxValues]
             ELSE [t |-> Set(Of256(v[i + 2])), skip |-> 2]
        [] OTHER -> [t |-> t, skip |-> 1]

Attribute(t, n) ==
  CASE n = 0 -> ResetAttributes(t)
    [] n \in {1, 22} -> SetBold(t, n = 1)
    [] n \in {5, 25} -> SetBgBold(t, n = 5)
    [] n \in {7, 27} -> SetReverse(t, n = 7)
    [] n \in 30 .. 37 -> SetPrimary(t, n - 30)
    [] n \in 40 .. 47 -> SetBg(t, n - 40)
    [] n \in 90 .. 97 -> Fore([t EXCEPT !.current_primary = n - 90], Bright(n - 90))
    [] n \in 100 .. 107 -> Back([t EXCEPT !.current_bg = n - 100], Bright(n - 100))
    [] n = 39 -> DefaultPrimary(t)
    [] n = 49 -> DefaultBackground(t)
    [] OTHER -> t

sgr(t) ==
  LET Value(acc, i) ==
        IF acc.skip > 0 THEN [acc EXCEPT !.skip = @ - 1]
        ELSE IF t.esc_values[i] \in {38, 48} THEN DirectColour(acc.t, i)
        ELSE [acc EXCEPT !.t = Attribute(@, t.esc_values[i])]
  IN  IF t.esc_values_i = 0 THEN ResetAttributes(t)
      ELSE FoldLeft(Value, [t |-> t, skip |-> 0], [j \in 1 .. t.esc_values_i |-> j - 1]).t

-----------------------------------------------------------------------------
(* Control sequences.  x and y are the cursor, n and m the first values.   *)

Spaces(t, n) == FoldLeft(LAMBDA u, i : RawPutchar(u, " "), t, [i \in 1 .. n |-> i])
Scrolls(t, n) == FoldLeft(LAMBDA u, i : Scroll(u), t, [i \in 1 .. n |-> i])

\* Mutant: the region does not stop the cursor.
CursorUpFree(t, x, y, n) == SetCursorPos(t, x, IF n > y THEN 0 ELSE y - n)

CursorUp(t, x, y, n) ==
  LET dest == IF n > y THEN 0 ELSE y - n
      inRegion == t.top \in dest .. y \/ t.bottom \in dest .. y
  IN  SetCursorPos(t, x, IF inRegion /\ dest < t.top THEN t.top ELSE dest)

CursorDown(t, x, y, n) ==
  LET dest == IF y + n > Rows - 1 THEN Rows - 1 ELSE y + n
      inRegion == t.top \in y .. dest \/ t.bottom \in y .. dest
  IN  SetCursorPos(t, x, IF inRegion /\ dest >= t.bottom THEN t.bottom - 1 ELSE dest)

\* Counted from 1 on; 0 is the largest number modulo 2^32.
FromOne(n, size) == IF n = 0 \/ n > size THEN size - 1 ELSE n - 1

CursorPosition(t, n, m) ==
  SetCursorPos(t, IF m = 0 THEN 0 ELSE m - 1, IF n = 0 THEN 0 ELSE n - 1)

\* L: the lines from the cursor's on move down.
InsertLines(t, y, n) == FoldLeft(LAMBDA u, i : RevScroll(u, y), t, [i \in 1 .. n |-> i])

EraseInDisplay(t, x, y, n) ==
  CASE n = 0 -> SetCursorPos(Spaces(t, (Rows - (y + 1)) * Cols + Cols - x), x, y)
    [] n = 1 -> SetCursorPos(Spaces(SetCursorPos(t, 0, 0), y * Cols + x + 1), x, y)
    [] n \in {2, 3} -> Clear(t, FALSE)
    [] OTHER -> t

EraseInLine(t, x, y, n) ==
  CASE n = 0 -> SetCursorPos(Spaces(t, Cols - x), x, y)
    [] n = 1 -> Spaces(SetCursorPos(t, 0, y), x)
    [] n = 2 -> SetCursorPos(Spaces(SetCursorPos(t, 0, y), Cols), x, y)
    [] OTHER -> t

\* Mutant: the characters are moved from the cursor on.
InsertCharactersUpward(t, x, y, n) ==
  LET Move(u, i) == RawPutchar(SetCursorPos(MoveCharacter(u, i + n, y, i, y), i, y), " ")
  IN  SetCursorPos(FoldLeft(Move, t, [j \in 1 .. (Cols - x) |-> x + j - 1]), x, y)

InsertCharacters(t, x, y, n) ==
  LET Move(u, i) == RawPutchar(SetCursorPos(MoveCharacter(u, i + n, y, i, y), i, y), " ")
  IN  SetCursorPos(FoldLeft(Move, t, [j \in 1 .. (Cols - x) |-> Cols - j]), x, y)

EraseCharacters(t, x, y, n) == SetCursorPos(Spaces(t, n), x, y)

DeleteCharacters(t, x, y, n) ==
  LET Move(u, i) == MoveCharacter(u, i - n, y, i, y)
      u == FoldLeft(Move, t, [j \in 1 .. (Cols - x - n) |-> x + n + j - 1])
  IN  EraseCharacters(SetCursorPos(u, Cols - n, y), x, y, n)

SetMargins(t, n, m) ==
  LET top == IF t.esc_values_i > 0 /\ n # 0 THEN n - 1 ELSE 0
      bottom == IF t.esc_values_i > 1 THEN IF m = 0 THEN 1 ELSE m ELSE Rows
      ok == top < Rows /\ bottom <= Rows /\ top < bottom - 1
  IN  SetCursorPos([t EXCEPT !.top = IF ok THEN top ELSE 0,
                             !.bottom = IF ok THEN bottom ELSE Rows], 0, 0)

mode_toggle(t, c) ==
  IF t.esc_values_i > 0 /\ t.esc_values[0] = 4
  THEN [t EXCEPT !.insert_mode = (c = "h")] ELSE t

dec_private_parse(t, c) ==
  LET u == [t EXCEPT !.dec_private = FALSE]
  IN  IF c \in {"h", "l"} /\ t.esc_values_i > 0 /\ t.esc_values[0] = 25
      THEN [u EXCEPT !.enabled = (c = "h")] ELSE u

Execute(t, c) ==
  LET x == PosX(t)
      y == PosY(t)
      n == t.esc_values[0]
      m == t.esc_values[1]
  IN  CASE c \in {"A", "F"} -> CursorUp(t, IF c = "F" THEN 0 ELSE x, y, n)
        [] c \in {"B", "e", "E"} -> CursorDown(t, IF c = "E" THEN 0 ELSE x, y, n)
        [] c \in {"a", "C"} -> SetCursorPos(t, x + n, y)
        [] c = "D" -> SetCursorPos(t, x - n, y)
        [] c = "d" -> SetCursorPos(t, x, FromOne(n, Rows))
        [] c \in {"G", "backquote"} -> SetCursorPos(t, FromOne(n, Cols), y)
        [] c \in {"H", "f"} -> CursorPosition(t, n, m)
        [] c = "M" -> Scrolls(t, n)
        [] c = "L" -> InsertLines(t, y, n)
        [] c = "J" -> EraseInDisplay(t, x, y, n)
        [] c = "K" -> EraseInLine(t, x, y, n)
        [] c = "@" -> InsertCharacters(t, x, y, n)
        [] c = "P" -> DeleteCharacters(t, x, y, n)
        [] c = "X" -> EraseCharacters(t, x, y, n)
        [] c = "m" -> sgr(t)
        [] c = "s" -> [t EXCEPT !.saved_cursor = <<x, y>>]
        [] c = "u" -> SetCursorPos(t, t.saved_cursor[1], t.saved_cursor[2])
        [] c = "r" -> SetMargins(t, n, m)
        [] c \in {"h", "l"} -> mode_toggle(t, c)
        [] OTHER -> t

-----------------------------------------------------------------------------
(* The parser *)

Digits == <<"0", "1", "2", "3", "4", "5", "6", "7", "8", "9">>
DigitValue(c) == (CHOOSE i \in 1 .. 10 : Digits[i] = c) - 1

\* What the sequence has left in the values is not looked at again: the next
\* one starts with Introducer.  Here it is cleared at the end.
EndSequence(t) ==
  [t EXCEPT !.control_sequence = FALSE, !.escape = FALSE,
            !.esc_values = [i \in DOMAIN @ |-> 0], !.esc_values_i = 0, !.escape_offset = 0]

\* The final byte: values that were not given have a default, and nothing
\* scrolls while the sequence is executed.
FinalByte(t, c) ==
  LET default == IF c \in {"J", "K", "q"} THEN 0 ELSE 1
      u == [t EXCEPT !.esc_values = [i \in DOMAIN @ |-> IF i < t.esc_values_i THEN @[i] ELSE default]]
  IN  EndSequence(IF t.dec_private THEN dec_private_parse(u, c)
                  ELSE [Execute([u EXCEPT !.scroll = FALSE], c) EXCEPT !.scroll = t.scroll])

\* Mutant: a further value is begun when there is no room for it.
SeparatorUnbounded(t) ==
  IF t.rrr THEN [t EXCEPT !.esc_values_i = @ + 1, !.rrr = FALSE]
  ELSE [t EXCEPT !.esc_values = [i \in DOMAIN @ |-> IF i = t.esc_values_i THEN 0 ELSE @[i]],
                 !.esc_values_i = @ + 1]

\* ';' ends a value, or gives one that is empty.
Separator(t) ==
  IF t.rrr THEN [t EXCEPT !.esc_values_i = @ + 1, !.rrr = FALSE]
  ELSE IF t.esc_values_i = MaxValues THEN t
  ELSE [t EXCEPT !.esc_values[t.esc_values_i] = 0, !.esc_values_i = @ + 1]

Digit(t, c) ==
  IF t.esc_values_i = MaxValues THEN t
  ELSE [t EXCEPT !.esc_values[t.esc_values_i] = @ * 10 + DigitValue(c), !.rrr = TRUE]

control_sequence_parse(t, c) ==
  CASE t.escape_offset = 2 /\ c = "[" -> EndSequence([t EXCEPT !.discard_next = TRUE])
    [] t.escape_offset = 2 /\ c = "?" -> [t EXCEPT !.dec_private = TRUE]
    [] c \in ToSet(Digits) -> Digit(t, c)
    [] c = ";" -> Separator(t)
    [] OTHER -> FinalByte(IF t.rrr THEN Separator(t) ELSE t, c)

osc_parse(t, c) ==
  IF (t.osc_escape /\ c = "\\") \/ c = "BEL"
  THEN [t EXCEPT !.osc_escape = FALSE, !.osc = FALSE, !.escape = FALSE]
  ELSE [t EXCEPT !.osc_escape = (c = "ESC")]

Introducer(t) ==
  [t EXCEPT !.csi = FALSE, !.esc_values = [i \in DOMAIN @ |-> 0], !.esc_values_i = 0,
            !.rrr = FALSE, !.control_sequence = TRUE]

save_state(t) ==
  [SaveState(t) EXCEPT !.attributes =
     <<t.bold, t.bg_bold, t.reverse_video, t.current_charset, t.current_primary, t.current_bg>>]

restore_state(t) ==
  LET a == t.attributes
  IN  [RestoreState(t) EXCEPT !.bold = a[1], !.bg_bold = a[2], !.reverse_video = a[3],
         !.current_charset = a[4], !.current_primary = a[5], !.current_bg = a[6]]

\* The colours and what save_state saved stay.
flanterm_context_reinit(t) ==
  [Reinit(t) EXCEPT !.control_sequence = FALSE, !.csi = FALSE, !.escape = FALSE,
     !.osc = FALSE, !.osc_escape = FALSE, !.rrr = FALSE, !.discard_next = FALSE,
     !.bold = FALSE, !.bg_bold = FALSE, !.reverse_video = FALSE, !.dec_private = FALSE,
     !.insert_mode = FALSE, !.unicode_remaining = 0, !.g_select = 0,
     !.charsets = <<"default", "DEC special">>, !.current_charset = 1,
     !.escape_offset = 0, !.esc_values_i = 0, !.saved_cursor = <<0, 0>>,
     !.current_primary = None, !.current_bg = None]

\* Down to line y + 1, column x; the last line of the region scrolls instead.
NewLine(t, x) ==
  LET y == PosY(t)
  IN  IF y = t.bottom - 1 THEN SetCursorPos(Scroll(t), x, y)
      ELSE SetCursorPos(t, x, y + 1)

ReverseLineFeed(t) ==
  LET y == PosY(t)
  IN  IF y = t.top THEN SetCursorPos(RevScroll(t, t.top), 0, y)
      ELSE SetCursorPos(t, 0, y - 1)

EscapedByte(t, c) ==
  LET Done(u) == [u EXCEPT !.escape = FALSE]
  IN  CASE c = "]" -> [t EXCEPT !.osc_escape = FALSE, !.osc = TRUE]
        [] c = "[" -> Introducer(t)
        [] c = "7" -> Done(save_state(t))
        [] c = "8" -> Done(restore_state(t))
        [] c = "c" -> Clear(flanterm_context_reinit(t), TRUE)
        [] c = "D" -> Done(NewLine(t, PosX(t)))
        [] c = "E" -> Done(NewLine(t, 0))
        [] c = "M" -> Done(ReverseLineFeed(t))
        [] c = "(" -> Done([t EXCEPT !.g_select = 1])
        [] c = ")" -> Done([t EXCEPT !.g_select = 2])
        [] OTHER -> Done(t)

\* escape_offset is compared with 2 only; it stops at 3 here.
escape_parse(t, c) ==
  LET u == [t EXCEPT !.escape_offset = IF @ < 3 THEN @ + 1 ELSE 3]
  IN  IF t.osc THEN osc_parse(u, c)
      ELSE IF t.control_sequence THEN control_sequence_parse(u, c)
      ELSE IF t.csi THEN Introducer(u)
      ELSE EscapedByte(u, c)

\* Mutant: an operating system command is not ended.
CancelKeepsOsc(t) ==
  [t EXCEPT !.discard_next = FALSE, !.escape = FALSE, !.csi = FALSE,
     !.control_sequence = FALSE, !.unicode_remaining = 0, !.g_select = 0]

Cancel(t) ==
  [t EXCEPT !.discard_next = FALSE, !.escape = FALSE, !.csi = FALSE,
     !.control_sequence = FALSE, !.unicode_remaining = 0, !.osc = FALSE,
     !.osc_escape = FALSE, !.g_select = 0]

\* The last byte of a code point: its glyph, or a box as wide as it is.
PrintCodePoint(t) ==
  LET p == t.code_point
  IN  IF p \in DOMAIN CP437 THEN RawPutchar(t, CP437[p])
      ELSE IF Width[p] = 0 THEN t
      ELSE Spaces(RawPutchar(t, "box"), Width[p] - 1)

SelectCharset(t, c) ==
  [t EXCEPT !.g_select = 0,
     !.charsets[t.g_select] = CASE c = "B" -> "default" [] c = "0" -> "DEC special" [] OTHER -> @]

HorizontalTab(t) ==
  LET n == PosX(t) \div TabSize + 1
  IN  SetCursorPos(t, IF n >= Cols THEN Cols - 1 ELSE n * TabSize, PosY(t))

\* In insert mode the rest of the line moves right first, whatever c is.
PrintByte(t, c) ==
  LET y == PosY(t)
      Move(u, i) == MoveCharacter(u, i + 1, y, i, y)
      u == IF t.insert_mode
           THEN FoldLeft(Move, t, [j \in 1 .. (Cols - PosX(t)) |-> Cols - j]) ELSE t
  IN  IF t.charsets[t.current_charset] = "DEC special" /\ c \in DOMAIN DecSpecial
      THEN RawPutchar(u, DecSpecial[c])
      ELSE IF c \in Printable THEN RawPutchar(u, c) ELSE u

Ground(t, c) ==
  CASE c \in {"NUL", "DEL", "BEL"} -> t
    [] c = "CSI" -> [t EXCEPT !.csi = TRUE, !.escape_offset = 0, !.escape = TRUE]
    [] c = "ESC" -> [t EXCEPT !.escape_offset = 0, !.escape = TRUE]
    [] c = "HT" -> HorizontalTab(t)
    [] c \in {"VT", "FF", "LF"} -> NewLine(t, 0)
    [] c = "BS" -> SetCursorPos(t, PosX(t) - 1, PosY(t))
    [] c = "CR" -> SetCursorPos(t, 0, PosY(t))
    [] c = "SO" -> [t EXCEPT !.current_charset = 2]
    [] c = "SI" -> [t EXCEPT !.current_charset = 1]
    [] OTHER -> PrintByte(t, c)

\* A byte that does not continue a code point ends it and is looked at anew.
flanterm_putchar(t, c) ==
  LET u == [t EXCEPT !.unicode_remaining = 0]
      more == [t EXCEPT !.unicode_remaining = @ - 1]
  IN  IF t.discard_next \/ c \in {"CAN", "SUB"} THEN Cancel(t)
      ELSE IF t.unicode_remaining > 0 /\ c \in {"continuation", "CSI"}
      THEN IF t.unicode_remaining > 1 THEN more ELSE PrintCodePoint(more)
      ELSE IF c \in DOMAIN Leads
      THEN [t EXCEPT !.unicode_remaining = Leads[c].remaining, !.code_point = Leads[c].point]
      ELSE IF t.escape THEN escape_parse(u, c)
      ELSE IF t.g_select > 0 THEN SelectCharset(u, c)
      ELSE Ground(u, c)

-----------------------------------------------------------------------------

\* After flanterm_fb_init, which clears the memory of its context.
Init ==
  /\ term \in [cells : StartCells, x : {0}, y : {0}, fg : {DefaultFg}, bg : {Default},
       saved : {[x |-> 0, y |-> 0, fg |-> Rgb(0), bg |-> Rgb(0)]},
       top : {0}, bottom : {Rows}, scroll : {TRUE}, enabled : {TRUE},
       control_sequence : {FALSE}, csi : {FALSE}, escape : {FALSE}, osc : {FALSE},
       osc_escape : {FALSE}, rrr : {FALSE}, discard_next : {FALSE}, bold : {FALSE},
       bg_bold : {FALSE}, reverse_video : {FALSE}, dec_private : {FALSE},
       insert_mode : {FALSE}, unicode_remaining : {0}, code_point : {0}, g_select : {0},
       charsets : {<<"default", "DEC special">>}, current_charset : {1},
       escape_offset : {0}, esc_values : {[i \in 0 .. (MaxValues - 1) |-> 0]},
       esc_values_i : {0}, saved_cursor : {<<0, 0>>}, current_primary : {None},
       current_bg : {None}, attributes : {<<FALSE, FALSE, FALSE, 1, 0, 0>>}]
  /\ writes = 0

\* autoflush is set; what the flush shows is FlantermFb's matter.
flanterm_write(buf) ==
  /\ writes < MaxWrites
  /\ writes' = writes + 1
  /\ term' = FoldLeft(flanterm_putchar, term, buf)

Next == \E buf \in Buffers : flanterm_write(buf)

Spec == Init /\ [][Next]_vars

-----------------------------------------------------------------------------
(* Properties.  Those about an operation are about what it would do next.  *)

\* Types; and what the backend counts on: a scroll region of two lines at least
\* or the whole screen, a cursor on a line or just behind it, and scrolling on again
\* when a sequence that had switched it off has ended.  The cursor's line is on
\* the screen, or below it but less than Cols, raw_putchar's limit.
TypeOK ==
  /\ term.esc_values_i \in 0 .. MaxValues
  /\ term.rrr => term.esc_values_i < MaxValues
  /\ DOMAIN term.esc_values = 0 .. (MaxValues - 1) /\ DOMAIN term.cells = Cells
  /\ term.unicode_remaining \in 0 .. 3 /\ term.g_select \in 0 .. 2
  /\ term.current_primary \in -1 .. 7 /\ term.current_bg \in -1 .. 7
  /\ term.top >= 0 /\ term.bottom <= Rows
  /\ term.top + 1 < term.bottom \/ (term.top = 0 /\ term.bottom = Rows)
  /\ term.x \in 0 .. Cols /\ term.y \in 0 .. (Rows - 1) \cup 0 .. (Cols - 1)
  /\ term.scroll

\* At most one kind of sequence is being read, and only after ESC or CSI;
\* otherwise the next ESC would continue an old one.
OneSequenceAtATime ==
  /\ term.osc \/ term.control_sequence \/ term.csi => term.escape
  /\ ~ (term.osc /\ term.control_sequence) /\ ~ (term.csi /\ term.control_sequence)
  /\ ~ (term.osc /\ term.csi)
  /\ term.osc_escape => term.osc
  /\ term.discard_next => ~ term.escape

InRegion(t) == t.y \in t.top .. (t.bottom - 1)

\* Moving up and down, by any amount, does not leave the scroll region.
CursorStaysInRegion ==
  InRegion(term) =>
    /\ \A n \in 0 .. Rows : /\ InRegion(CursorUp(term, PosX(term), PosY(term), n))
                           /\ InRegion(CursorDown(term, PosX(term), PosY(term), n))
    /\ InRegion(NewLine(term, 0)) /\ InRegion(ReverseLineFeed(term))

ChangedLines(u) == {i \div Cols : i \in {j \in Cells : u.cells[j] # term.cells[j]}}

\* Line feeds and printing change no line outside the region, but the one that
\* is printed on; and with the cursor outside of it they scroll nothing.
ScrollingStaysInRegion ==
  LET region == term.top .. (term.bottom - 1)
      print == RawPutchar(term, "a")
  IN  /\ ChangedLines(NewLine(term, 0)) \subseteq region
      /\ ChangedLines(ReverseLineFeed(term)) \subseteq region
      /\ ChangedLines(print) \subseteq region \cup {print.y}
      /\ PosY(term) \notin region => /\ NewLine(term, 0).cells = term.cells
                                    /\ ReverseLineFeed(term).cells = term.cells
      /\ term.y \notin region => ChangedLines(print) \subseteq {print.y}

\* term as sequences are executed in.
Quiet == [term EXCEPT !.scroll = FALSE]

Erased(first, last) ==
  [Quiet EXCEPT !.cells = [i \in Cells |-> IF i \in first .. last THEN Empty(term) ELSE @[i]]]

\* term with column i of the cursor's line taken from column i - n of it for
\* columns from the cursor on; what comes from left of it or from behind the
\* line is empty.
Shifted(n) ==
  [Quiet EXCEPT !.cells =
     [i \in Cells |-> IF i \div Cols # term.y \/ i % Cols < term.x THEN @[i]
                      ELSE IF (i % Cols) - n \in term.x .. (Cols - 1) THEN @[i - n]
                      ELSE Empty(term)]]

\* term with the cells from first to last erased but one.
ErasedBut(spared, first, last) ==
  [Erased(first, last) EXCEPT !.cells[spared] = term.cells[spared]]

\* With the cursor on the screen, inserting and deleting move the characters from
\* the cursor on and nothing else, and the erasing sequences erase the cells
\* console_codes(4) lists, one of them less one: ESC [ 1 K is to erase from the
\* start of the line to the cursor inclusive, as ESC [ 1 J does, and lines 725-729
\* spare the cursor's cell.  In all of them the cursor stays.  Deleting and
\* ESC [ n X are stated for counts up to the rest of the line, ESC [ J for
\* a region that ends with the screen and a screen not higher than wide; with
\* larger counts, or from behind a full line, other cells than the sequence names
\* are erased.
EditingIsExact ==
  LET x == term.x
      y == term.y
      here == Cell(x, y)
  IN  OnScreen(x, y) =>
        /\ \A n \in 1 .. Cols : InsertCharacters(Quiet, x, y, n) = Shifted(n)
        /\ \A n \in 1 .. (Cols - x) : DeleteCharacters(Quiet, x, y, n) = Shifted(-n)
        /\ EraseInLine(Quiet, x, y, 0) = Erased(here, Cell(Cols - 1, y))
        /\ EraseInLine(Quiet, x, y, 1) = ErasedBut(here, Cell(0, y), here)
        /\ EraseInLine(Quiet, x, y, 2) = Erased(Cell(0, y), Cell(Cols - 1, y))
        /\ \A n \in 0 .. (Cols - x) : EraseCharacters(Quiet, x, y, n) = Erased(here, here + n - 1)
        /\ term.bottom = Rows /\ Rows <= Cols =>
             /\ EraseInDisplay(Quiet, x, y, 0) = Erased(here, Rows * Cols - 1)
             /\ EraseInDisplay(Quiet, x, y, 1) = Erased(0, here)

\* A colour chosen by 30 .. 37 or 90 .. 97 is the one of the text, bright if
\* bold is set, in whatever order it, bold and reverse video were set, unless a
\* direct colour replaces it; and the same for the background.
ColoursFollowAttributes ==
  LET Follows(colour, n, bold) ==
        n # None => \/ colour = Bright(n)
                    \/ colour = Normal(n) /\ ~bold
                    \/ colour[1] \in {"rgb", "indexed"}
  IN  /\ Follows(IF term.reverse_video THEN term.bg ELSE term.fg, term.current_primary, term.bold)
      /\ Follows(IF term.reverse_video THEN term.fg ELSE term.bg, term.current_bg, term.bg_bold)
=============================================================================
