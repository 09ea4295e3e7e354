----------------------------- MODULE TextCursor -----------------------------
(***************************************************************************)
(* The part of flanterm's text screen that the backend keeps besides the   *)
(* characters: the cursor, the colours to print with, their saved copies   *)
(* and the settings of flanterm.c the backend reads.  The operators take   *)
(* and return a record that has at least the fields of Cursor.             *)
(***************************************************************************)
EXTENDS Integers

CONSTANTS
  Rows, Cols,   \* size of the screen in characters
  Default       \* the colour 0xffffffff: the canvas is seen

ASSUME ScreenAssumption ==
  /\ Rows \in Nat \ {0} /\ Cols \in Nat \ {0}

Cells == 0 .. (Rows * Cols - 1)
Cell(x, y) == y * Cols + x
OnScreen(x, y) == x \in 0 .. (Cols - 1) /\ y \in 0 .. (Rows - 1)

\* Mutant: a position off the screen is not corrected.
SetCursorPosRaw(s, x, y) == [s EXCEPT !.x = x, !.y = y]

\* A position off the screen is moved to its edge; the callers compute
\* positions to the left of and above it modulo 2^64, as negative numbers.
SetCursorPos(s, x, y) ==
  LET Clamp(v, n) == IF v < 0 THEN 0 ELSE IF v >= n THEN n - 1 ELSE v
  IN  [s EXCEPT !.x = Clamp(x, Cols), !.y = Clamp(y, Rows)]

\* The cursor as get_cursor_pos reports it: behind the last column it is in it.
PosX(s) == IF s.x >= Cols THEN Cols - 1 ELSE s.x
PosY(s) == IF s.y >= Rows THEN Rows - 1 ELSE s.y

SwapPalette(s) == [s EXCEPT !.fg = s.bg, !.bg = s.fg]
SaveState(s) == [s EXCEPT !.saved = [x |-> s.x, y |-> s.y, fg |-> s.fg, bg |-> s.bg]]
RestoreState(s) ==
  [s EXCEPT !.x = s.saved.x, !.y = s.saved.y, !.fg = s.saved.fg, !.bg = s.saved.bg]

Empty(s) == [c |-> " ", fg |-> s.fg, bg |-> s.bg]

\* raw_putchar continues on the next line when the last one is full, unless
\* scrolling is off and the cursor is on the region's last line (or below).
Wraps(s) == s.x >= Cols /\ (s.y < s.bottom - 1 \/ s.scroll)

\* The cursor after that; the row is limited by cols.
NextLine(s) ==
  LET y == IF s.y + 1 = s.bottom THEN s.y ELSE s.y + 1
  IN  [s EXCEPT !.x = 0, !.y = IF y >= Cols THEN Cols - 1 ELSE y]

\* reinit leaves the colours, the cursor and their saved copies alone.
Reinit(s) ==
  [s EXCEPT !.enabled = TRUE, !.scroll = TRUE, !.top = 0, !.bottom = Rows]
=============================================================================
