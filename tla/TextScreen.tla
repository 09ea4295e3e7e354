----------------------------- MODULE TextScreen -----------------------------
(***************************************************************************)
(* What flanterm.c expects of its backend: a screen of characters that the *)
(* callbacks change at once, and a picture of it that is brought up to     *)
(* date, cursor and all, by double_buffer_flush and by nothing else.       *)
(***************************************************************************)
EXTENDS TextCallbacks

CONSTANTS
  Chars,       \* the characters that are printed, " " among them
  Colours,     \* the colours text is printed in
  Margins,     \* the scroll regions <<top, bottom>> that 'r' sets
  StartCells   \* contents of the screen to begin with

VARIABLES s, shown

vars == <<s, shown>>

Inverted(ch) == [ch EXCEPT !.fg = ch.bg, !.bg = ch.fg]

\* The picture of a screen.
Picture(t) ==
  [i \in Cells |->
     IF t.enabled /\ OnScreen(t.x, t.y) /\ i = Cell(t.x, t.y)
     THEN Inverted(t.cells[i]) ELSE t.cells[i]]

-----------------------------------------------------------------------------

Init ==
  /\ s \in [cells : StartCells, x : {0}, y : {0}, fg : Colours, bg : {Default},
            saved : {[x |-> 0, y |-> 0, fg |-> 0, bg |-> 0]},
            top : {0}, bottom : {Rows}, scroll : {TRUE}, enabled : {TRUE}]
  /\ shown = Picture(s)

\* A callback: s changes and the picture does not.
Callback(t) == s' = t /\ UNCHANGED shown

Flush == shown' = Picture(s) /\ UNCHANGED s

Next ==
  \/ \E c \in Chars : Callback(RawPutchar(s, c))
  \/ Callback(Scroll(s))
  \/ \E top \in {s.top} \cup 0 .. (Rows - 1) : Callback(RevScroll(s, top))
  \/ \E move \in BOOLEAN : Callback(Clear(s, move))
  \/ \E x \in (-1) .. Cols, y \in (-1) .. Rows : Callback(SetCursorPos(s, x, y))
  \/ \E x, z \in 0 .. Cols, y \in 0 .. (Rows - 1) : Callback(MoveCharacter(s, x, y, z, y))
  \/ \E fg \in Colours : Callback([s EXCEPT !.fg = fg])
  \/ \E bg \in Colours \cup {Default} : Callback([s EXCEPT !.bg = bg])
  \/ Callback(SwapPalette(s))
  \/ Callback(SaveState(s))
  \/ Callback(RestoreState(s))
  \/ \E m \in Margins : Callback([s EXCEPT !.top = m[1], !.bottom = m[2]])
  \/ \E b \in BOOLEAN : Callback([s EXCEPT !.scroll = b])
  \/ \E b \in BOOLEAN : Callback([s EXCEPT !.enabled = b])
  \/ Callback(Reinit(s))
  \/ Flush

Spec == Init /\ [][Next]_vars
=============================================================================
