--------------------------- MODULE TextCallbacks ---------------------------
(***************************************************************************)
(* What flanterm.c expects of its backend's callbacks: each changes the    *)
(* characters of the screen at once.  They take and return a record with   *)
(* the fields of TextCursor and cells, the characters.                     *)
(***************************************************************************)
EXTENDS TextCursor

Put(t, ch, x, y) ==
  IF OnScreen(x, y) THEN [t EXCEPT !.cells[Cell(x, y)] = ch] ELSE t

\* Mutant: the lines above the region move, too.
ScrollFromTop(t) ==
  [t EXCEPT !.cells =
     [i \in Cells |->
        IF i \in 0 .. ((t.bottom - 1) * Cols - 1) THEN @[i + Cols]
        ELSE IF i \div Cols = t.bottom - 1 THEN Empty(t) ELSE @[i]]]

\* The lines of the region move up by one; its last line becomes empty.
Scroll(t) ==
  [t EXCEPT !.cells =
     [i \in Cells |->
        IF i \in (t.top * Cols) .. ((t.bottom - 1) * Cols - 1) THEN @[i + Cols]
        ELSE IF i \div Cols = t.bottom - 1 THEN Empty(t) ELSE @[i]]]

\* The lines of the region from top on move down; line top becomes empty.
RevScroll(t, top) ==
  [t EXCEPT !.cells =
     [i \in Cells |->
        IF i \in ((top + 1) * Cols) .. (t.bottom * Cols - 1) THEN @[i - Cols]
        ELSE IF i \div Cols = top THEN Empty(t) ELSE @[i]]]

Clear(t, move) ==
  LET u == [t EXCEPT !.cells = [i \in Cells |-> Empty(t)]]
  IN  IF move THEN [u EXCEPT !.x = 0, !.y = 0] ELSE u

MoveCharacter(t, newX, newY, oldX, oldY) ==
  IF OnScreen(oldX, oldY) THEN Put(t, t.cells[Cell(oldX, oldY)], newX, newY) ELSE t

RawPutchar(t, c) ==
  LET u == IF ~Wraps(t) THEN t
           ELSE NextLine(IF t.y + 1 = t.bottom THEN Scroll(t) ELSE t)
  IN  [Put(u, [c |-> c, fg |-> t.fg, bg |-> t.bg], u.x, u.y) EXCEPT !.x = @ + 1]
=============================================================================
