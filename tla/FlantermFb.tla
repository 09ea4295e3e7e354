----------------------------- MODULE FlantermFb -----------------------------
(***************************************************************************)
(* flanterm's framebuffer backend (backends/fb.c).  A callback does not    *)
(* draw: it queues the characters it changes.  grid has the characters as  *)
(* drawn, queue the changed ones, map finds a cell's entry in queue.       *)
(* double_buffer_flush draws the queue and the cursor; where the colours   *)
(* stay the same it draws only the pixels in which the glyphs differ.      *)
(*                                                                         *)
(* flanterm.c calls back while it parses, and flushes after each write     *)
(* with autoflush, or when its user does.  full_refresh is called by       *)
(* flanterm_fb_init only and deinit by nobody.                             *)
(***************************************************************************)
EXTENDS TextCursor, Sequences, FiniteSets, SequencesExt

CONSTANTS
  Chars, Colours, Margins, StartCells,
  MaxCallbacks    \* bounds the callbacks

\* A scroll region has one line at least.  The characters that are there to
\* begin with are in the colours of text.
ASSUME CallbacksAssumption ==
  /\ \A m \in Margins : \E t \in 0 .. (Rows - 1), b \in 1 .. Rows : t < b /\ m = <<t, b>>
  /\ \A g \in StartCells :
       g \in [Cells -> [c : {g[i].c : i \in Cells}, fg : Colours \cup {Default},
                        bg : Colours \cup {Default}]]

VARIABLES
  fb,          \* the backend's context, and the settings it reads
  screen,      \* what the pixels of each cell show
  callbacks    \* counts them

vars == <<fb, screen, callbacks>>

\* Pixels of two glyphs in one cell.
Mixed == [c |-> "mixed", fg |-> 0, bg |-> 0]

-----------------------------------------------------------------------------
(* The queue *)

\* The character of a cell: the queued one, or the one drawn.
CharAt(b, i) == IF b.map[i] # 0 THEN b.queue[b.map[i]].c ELSE b.grid[i]

\* Mutant: a changed character is queued again.
PushAgain(b, ch, x, y) ==
  IF ~OnScreen(x, y) THEN b
  ELSE LET i == Cell(x, y)
       IN  IF b.map[i] = 0 /\ b.grid[i] = ch THEN b
           ELSE [b EXCEPT !.queue = Append(@, [cell |-> i, c |-> ch]),
                          !.map[i] = Len(b.queue) + 1]

\* push_to_queue.
Push(b, ch, x, y) ==
  IF ~OnScreen(x, y) THEN b
  ELSE LET i == Cell(x, y)
       IN  IF b.map[i] # 0 THEN [b EXCEPT !.queue[b.map[i]].c = ch]
           ELSE IF b.grid[i] = ch THEN b
           ELSE [b EXCEPT !.queue = Append(@, [cell |-> i, c |-> ch]),
                          !.map[i] = Len(b.queue) + 1]

\* Pushes the characters of the cells in from, one after the other, by cells
\* further; then fills line y with empty ones.
Shift(b, from, by, y) ==
  LET Move(d, i) == Push(d, CharAt(d, i), (i + by) % Cols, (i + by) \div Cols)
      Blank(d, x) == Push(d, Empty(b), x, y)
  IN  FoldLeft(Blank, FoldLeft(Move, b, from), [j \in 1 .. Cols |-> j - 1])

Upward(first, last) == [j \in 1 .. (last - first + 1) |-> first + j - 1]
Downward(last, first) == [j \in 1 .. (last - first + 1) |-> last - j + 1]

-----------------------------------------------------------------------------
(* The callbacks *)

Scroll(b) ==
  Shift(b, Upward((b.top + 1) * Cols, b.bottom * Cols - 1), -Cols, b.bottom - 1)

\* Mutant: the lines are copied from the top on, as scroll does.
RevScrollUpward(b, top) ==
  Shift(b, Upward(top * Cols, (b.bottom - 1) * Cols - 1), Cols, top)

RevScroll(b, top) ==
  Shift(b, Downward((b.bottom - 1) * Cols - 1, top * Cols), Cols, top)

Clear(b, move) ==
  LET Blank(d, i) == Push(d, Empty(b), i % Cols, i \div Cols)
      d == FoldLeft(Blank, b, Upward(0, Rows * Cols - 1))
  IN  IF move THEN [d EXCEPT !.x = 0, !.y = 0] ELSE d

MoveCharacter(b, newX, newY, oldX, oldY) ==
  IF OnScreen(oldX, oldY) /\ OnScreen(newX, newY)
  THEN Push(b, CharAt(b, Cell(oldX, oldY)), newX, newY) ELSE b

RawPutchar(b, c) ==
  LET d == IF ~Wraps(b) THEN b
           ELSE NextLine(IF b.y + 1 = b.bottom THEN Scroll(b) ELSE b)
  IN  [Push(d, [c |-> c, fg |-> b.fg, bg |-> b.bg], d.x, d.y) EXCEPT !.x = @ + 1]

-----------------------------------------------------------------------------
(* Drawing: v = [fb |-> ..., screen |-> ...] *)

\* plot_char draws every pixel of a cell.
PlotChar(v, ch, i) == [v EXCEPT !.screen[i] = ch]

\* plot_char_fast draws the pixels in which the glyphs differ.
PlotCharFast(v, old, ch, i) ==
  IF old.c = ch.c THEN v
  ELSE [v EXCEPT !.screen[i] = IF @ = old THEN ch ELSE Mixed]

Inverted(ch) == [ch EXCEPT !.fg = ch.bg, !.bg = ch.fg]

\* Mutant: the cell's entry stays in the map, its character is not kept.
DrawCursorOnly(v) ==
  LET i == Cell(v.fb.x, v.fb.y)
  IN  IF OnScreen(v.fb.x, v.fb.y) THEN PlotChar(v, Inverted(CharAt(v.fb, i)), i) ELSE v

\* draw_cursor also takes the character under it off the queue.
DrawCursor(v) ==
  LET i == Cell(v.fb.x, v.fb.y)
      w == PlotChar(v, Inverted(CharAt(v.fb, i)), i)
  IN  IF OnScreen(v.fb.x, v.fb.y)
      THEN [w EXCEPT !.fb.grid[i] = CharAt(v.fb, i), !.fb.map[i] = 0]
      ELSE v

\* One round of the flush's loop.
DrawItem(v, q) ==
  LET old == v.fb.grid[q.cell]
      w == IF q.c.fg = old.fg /\ q.c.bg = old.bg
           THEN PlotCharFast(v, old, q.c, q.cell) ELSE PlotChar(v, q.c, q.cell)
  IN  IF v.fb.map[q.cell] = 0 THEN v
      ELSE [w EXCEPT !.fb.grid[q.cell] = q.c, !.fb.map[q.cell] = 0]

EraseOldCursor(v) ==
  LET b == v.fb
      i == Cell(b.oldX, b.oldY)
  IN  IF (b.oldX # b.x \/ b.oldY # b.y \/ ~b.enabled) /\ OnScreen(b.oldX, b.oldY)
      THEN PlotChar(v, b.grid[i], i) ELSE v

\* double_buffer_flush.
Flushed(v) ==
  LET w == EraseOldCursor(FoldLeft(DrawItem, IF v.fb.enabled THEN DrawCursor(v) ELSE v,
                                   v.fb.queue))
  IN  [w EXCEPT !.fb.oldX = v.fb.x, !.fb.oldY = v.fb.y, !.fb.queue = <<>>]

-----------------------------------------------------------------------------

\* After flanterm_fb_init: full_refresh has drawn everything.
Init ==
  /\ fb \in [grid : StartCells, queue : {<<>>}, map : {[i \in Cells |-> 0]},
             x : {0}, y : {0}, oldX : {0}, oldY : {0},
             fg : Colours, bg : {Default},
             saved : {[x |-> 0, y |-> 0, fg |-> 0, bg |-> 0]},
             top : {0}, bottom : {Rows}, scroll : {TRUE}, enabled : {TRUE}]
  /\ screen = DrawCursor([fb |-> fb, screen |-> fb.grid]).screen
  /\ callbacks = 0

Callback(b) ==
  /\ callbacks < MaxCallbacks
  /\ callbacks' = callbacks + 1
  /\ fb' = b
  /\ UNCHANGED screen

Flush ==
  LET v == Flushed([fb |-> fb, screen |-> screen])
  IN  /\ fb' = v.fb /\ screen' = v.screen
      /\ UNCHANGED callbacks

Next ==
  \/ \E c \in Chars : Callback(RawPutchar(fb, c))
  \/ Callback(Scroll(fb))
  \/ \E top \in {fb.top} \cup 0 .. (Rows - 1) : Callback(RevScroll(fb, top))
  \/ \E move \in BOOLEAN : Callback(Clear(fb, move))
  \/ \E x \in (-1) .. Cols, y \in (-1) .. Rows : Callback(SetCursorPos(fb, x, y))
  \/ \E x, z \in 0 .. Cols, y \in 0 .. (Rows - 1) : Callback(MoveCharacter(fb, x, y, z, y))
  \/ \E fg \in Colours : Callback([fb EXCEPT !.fg = fg])
  \/ \E bg \in Colours \cup {Default} : Callback([fb EXCEPT !.bg = bg])
  \/ Callback(SwapPalette(fb))
  \/ Callback(SaveState(fb))
  \/ Callback(RestoreState(fb))
  \/ \E m \in Margins : Callback([fb EXCEPT !.top = m[1], !.bottom = m[2]])
  \/ \E b \in BOOLEAN : Callback([fb EXCEPT !.scroll = b])
  \/ \E b \in BOOLEAN : Callback([fb EXCEPT !.enabled = b])
  \/ Callback(Reinit(fb))
  \/ Flush

Spec == Init /\ [][Next]_vars

-----------------------------------------------------------------------------
(* Properties. *)

\* A cell has one entry in the queue at most, and map finds it; so the queue,
\* which has room for one entry per cell, never overflows.
QueueAndMapAgree ==
  /\ \A j \in DOMAIN fb.queue : fb.map[fb.queue[j].cell] = j
  /\ \A i \in Cells : fb.map[i] # 0 => fb.queue[fb.map[i]].cell = i
  /\ Len(fb.queue) <= Rows * Cols

\* grid is what the screen shows, but for the cursor drawn at the last flush:
\* plot_char_fast relies on it, or it leaves pixels of the old glyph.
GridIsOnScreen ==
  \A i \in Cells : screen[i] # fb.grid[i] =>
    /\ screen[i] = Inverted(fb.grid[i])
    /\ i = Cell(fb.oldX, fb.oldY) /\ OnScreen(fb.oldX, fb.oldY)

\* With its queue, its map and its partial drawing, the backend shows what a
\* screen without them would.
Abstract ==
  [cells |-> [i \in Cells |-> CharAt(fb, i)], x |-> fb.x, y |-> fb.y,
   fg |-> fb.fg, bg |-> fb.bg, saved |-> fb.saved, top |-> fb.top,
   bottom |-> fb.bottom, scroll |-> fb.scroll, enabled |-> fb.enabled]

Text == INSTANCE TextScreen WITH s <- Abstract, shown <- screen
ImplementsTextScreen == Text!Spec
=============================================================================
