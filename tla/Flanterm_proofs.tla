-------------------------- MODULE Flanterm_proofs --------------------------
(***************************************************************************)
(* Proofs about flanterm's parser, for screens of any size, any number of  *)
(* values of a sequence, and any writes.                                   *)
(***************************************************************************)
EXTENDS Flanterm, FoldFacts, SequenceTheorems

-----------------------------------------------------------------------------
(* The state of the terminal. *)

Hues == {"normal", "bright", "rgb", "indexed", "default fg", "default fg bright",
         "default bg bright"}
Colours == (Hues \X Int) \cup {Default}
Names ==
  Printable \cup {" ", "box", "a"} \cup {CP437[p] : p \in DOMAIN CP437}
    \cup {DecSpecial[c] : c \in DOMAIN DecSpecial}
Pictures == [c : Names, fg : Colours, bg : Colours]
              \cup UNION {{g[i] : i \in Cells} : g \in StartCells}
Canvas == [Cells -> Pictures]
Columns == 0 .. Cols
Lines == 0 .. (Rows - 1) \cup 0 .. (Cols - 1)
SavedCursors == [x : Columns, y : Lines, fg : Colours, bg : Colours]
Positions == (0 .. (Cols - 1)) \X (0 .. (Rows - 1))
Tops == 0 .. (Rows - 1)
Bottoms == 1 .. Rows
Offsets == 0 .. 3
Points == DOMAIN CP437 \cup DOMAIN Width
CodePoints == Points \cup {0}
Sets == 1 .. 2
Selections == Sets \cup {0}
Charsets == [Sets -> {"default", "DEC special"}]
Values == [0 .. (MaxValues - 1) -> Nat]
ValueCounts == 0 .. MaxValues
Palette == -1 .. 7
Attributes == BOOLEAN \X BOOLEAN \X BOOLEAN \X Sets \X Palette \X Palette

State ==
  [cells : Canvas, x : Nat, y : Lines, fg : Colours, bg : Colours, saved : SavedCursors,
   top : Tops, bottom : Bottoms, scroll : BOOLEAN, enabled : BOOLEAN,
   control_sequence : BOOLEAN, csi : BOOLEAN, escape : BOOLEAN, osc : BOOLEAN,
   osc_escape : BOOLEAN, rrr : BOOLEAN, discard_next : BOOLEAN, bold : BOOLEAN,
   bg_bold : BOOLEAN, reverse_video : BOOLEAN, dec_private : BOOLEAN,
   insert_mode : BOOLEAN, unicode_remaining : Offsets, code_point : CodePoints,
   g_select : Selections, charsets : Charsets, current_charset : Sets,
   escape_offset : Offsets, esc_values : Values, esc_values_i : ValueCounts,
   saved_cursor : Positions, current_primary : Palette, current_bg : Palette,
   attributes : Attributes]

\* t with another picture and another cursor, which is what most callbacks do.
With(t, c, x, y) == [t EXCEPT !.cells = c, !.x = x, !.y = y]
Drawn(t) == {With(t, c, x, y) : c \in Canvas, x \in Nat, y \in Lines}

LEMMA WithFacts ==
  ASSUME NEW t \in State, NEW c \in Canvas, NEW x \in Nat, NEW y \in Lines
  PROVE  /\ With(t, c, x, y) \in State
         /\ With(t, c, x, y).cells = c /\ With(t, c, x, y).x = x /\ With(t, c, x, y).y = y
BY ZenonT(60) DEF With, State

LEMMA DrawnFacts ==
  ASSUME NEW t \in State, NEW u \in Drawn(t)
  PROVE  /\ u \in State
         /\ u = With(t, u.cells, u.x, u.y)
<1>1. PICK c \in Canvas, x \in Nat, y \in Lines : u = With(t, c, x, y)
  BY DEF Drawn
<1> QED BY <1>1, WithFacts

LEMMA DrawnSelf ==
  ASSUME NEW t \in State
  PROVE  t \in Drawn(t)
<1>1. t.cells \in Canvas /\ t.x \in Nat /\ t.y \in Lines
  BY DEF State
<1>2. t = With(t, t.cells, t.x, t.y)
  BY DEF State, With
<1> QED BY <1>1, <1>2 DEF Drawn

LEMMA DrawnAgain ==
  ASSUME NEW t \in State, NEW u \in Drawn(t), NEW w \in Drawn(u)
  PROVE  w \in Drawn(t)
<1>1. PICK c \in Canvas, x \in Nat, y \in Lines : u = With(t, c, x, y)
  BY DEF Drawn
<1>2. PICK d \in Canvas, z \in Nat, l \in Lines : w = With(u, d, z, l)
  BY DEF Drawn
<1>3. w = With(t, d, z, l)
  BY <1>1, <1>2 DEF State, With
<1> QED BY <1>2, <1>3 DEF Drawn

-----------------------------------------------------------------------------
(* The callbacks. *)

LEMMA Sizes ==
  /\ Rows \in Nat /\ Rows > 0 /\ Cols \in Nat /\ Cols > 0 /\ Rows * Cols \in Nat
  /\ Cells = 0 .. (Rows * Cols - 1)
  /\ \A a \in 0 .. Rows : a * Cols \in 0 .. (Rows * Cols)
<1>1. Rows \in Nat /\ Rows > 0 /\ Cols \in Nat /\ Cols > 0 /\ Rows * Cols \in Nat
  BY ScreenAssumption
<1>2. ASSUME NEW a \in 0 .. Rows PROVE a * Cols \in 0 .. (Rows * Cols)
  <2>1. a * Cols >= 0 /\ a * Cols <= Rows * Cols /\ a * Cols \in Int
    BY <1>1
  <2> QED BY <1>1, <2>1
<1> QED BY <1>1, <1>2 DEF Cells

LEMMA SetCursorPosFacts ==
  ASSUME NEW t \in State, NEW x \in Int, NEW y \in Int
  PROVE  /\ SetCursorPos(t, x, y) \in Drawn(t)
         /\ OnScreen(SetCursorPos(t, x, y).x, SetCursorPos(t, x, y).y)
         /\ OnScreen(x, y) => SetCursorPos(t, x, y) = [t EXCEPT !.x = x, !.y = y]
<1> DEFINE Clamp(v, n) == IF v < 0 THEN 0 ELSE IF v >= n THEN n - 1 ELSE v
           a == Clamp(x, Cols)
           b == Clamp(y, Rows)
<1>1. a \in 0 .. (Cols - 1) /\ b \in 0 .. (Rows - 1) /\ (OnScreen(x, y) => a = x /\ b = y)
  BY Sizes DEF OnScreen
<1>2. SetCursorPos(t, x, y) = [t EXCEPT !.x = a, !.y = b]
  BY DEF SetCursorPos
<1> HIDE DEF a, b
<1>3. t.cells \in Canvas /\ a \in Nat /\ b \in Lines
  BY <1>1, Sizes DEF State, Lines
<1>4. [t EXCEPT !.x = a, !.y = b] = With(t, t.cells, a, b)
  BY DEF State, With
<1>5. /\ SetCursorPos(t, x, y) \in Drawn(t)
      /\ SetCursorPos(t, x, y).x = a /\ SetCursorPos(t, x, y).y = b
  BY <1>2, <1>3, <1>4, WithFacts DEF Drawn
<1>6. OnScreen(a, b)
  BY <1>1 DEF OnScreen
<1> QED BY <1>1, <1>2, <1>5, <1>6

\* Another picture alone.
LEMMA Redrawn ==
  ASSUME NEW t \in State, NEW c \in Canvas
  PROVE  /\ [t EXCEPT !.cells = c] \in Drawn(t)
         /\ [t EXCEPT !.cells = c].cells = c
         /\ [t EXCEPT !.cells = c].x = t.x /\ [t EXCEPT !.cells = c].y = t.y
<1>1. t.x \in Nat /\ t.y \in Lines
  BY DEF State
<1>2. [t EXCEPT !.cells = c] = With(t, c, t.x, t.y)
  BY DEF State, With
<1> QED BY <1>1, <1>2, WithFacts DEF Drawn

LEMMA EmptyIsPicture ==
  ASSUME NEW t \in State
  PROVE  Empty(t) \in Pictures
<1>1. t.fg \in Colours /\ t.bg \in Colours /\ " " \in Names
  BY DEF State, Names
<1> QED BY <1>1 DEF Empty, Pictures

LEMMA OnScreenIsCell ==
  ASSUME NEW x \in Int, NEW y \in Int, OnScreen(x, y)
  PROVE  Cell(x, y) \in Cells
<1>1. y + 1 \in 0 .. Rows /\ y \in 0 .. Rows
  BY Sizes DEF OnScreen
<1>2. y * Cols \in Int /\ y * Cols >= 0 /\ (y + 1) * Cols <= Rows * Cols
  BY <1>1, Sizes
<1>3. (y + 1) * Cols = y * Cols + Cols
  BY Sizes
<1>4. y * Cols + x \in 0 .. (Rows * Cols - 1)
  BY <1>2, <1>3, Sizes DEF OnScreen
<1> QED BY <1>4 DEF Cell, Cells

LEMMA PutFacts ==
  ASSUME NEW t \in State, NEW ch \in Pictures, NEW x \in Int, NEW y \in Int
  PROVE  /\ Put(t, ch, x, y) \in Drawn(t)
         /\ Put(t, ch, x, y).x = t.x /\ Put(t, ch, x, y).y = t.y
         /\ Put(t, ch, x, y).cells =
              IF OnScreen(x, y) THEN [t.cells EXCEPT ![Cell(x, y)] = ch] ELSE t.cells
<1>1. CASE ~OnScreen(x, y)
  BY <1>1, DrawnSelf DEF Put
<1>2. CASE OnScreen(x, y)
  <2> DEFINE c == [t.cells EXCEPT ![Cell(x, y)] = ch]
  <2>1. t.cells \in Canvas
    BY DEF State
  <2>2. c \in Canvas
    BY <2>1 DEF Canvas
  <2>3. Put(t, ch, x, y) = [t EXCEPT !.cells = c]
    BY <1>2 DEF Put
  <2> HIDE DEF c
  <2>4. Put(t, ch, x, y).cells = c
    BY <2>2, <2>3, Redrawn
  <2> QED BY <1>2, <2>2, <2>3, <2>4, Redrawn DEF c
<1> QED BY <1>1, <1>2

\* What is drawn by moving lines is a picture.
LEMMA ScrollFacts ==
  ASSUME NEW t \in State
  PROVE  /\ Scroll(t) \in Drawn(t) /\ Scroll(t).x = t.x /\ Scroll(t).y = t.y
<1> DEFINE c == [i \in Cells |->
                   IF i \in (t.top * Cols) .. ((t.bottom - 1) * Cols - 1) THEN t.cells[i + Cols]
                   ELSE IF i \div Cols = t.bottom - 1 THEN Empty(t) ELSE t.cells[i]]
<1>1. Scroll(t) = [t EXCEPT !.cells = c]
  BY DEF Scroll
<1>2. t.cells \in [Cells -> Pictures] /\ t.top \in 0 .. (Rows - 1) /\ t.bottom \in 1 .. Rows
  BY DEF State, Canvas, Tops, Bottoms
<1>3. ASSUME NEW i \in Cells PROVE c[i] \in Pictures
  <2>1. CASE i \in (t.top * Cols) .. ((t.bottom - 1) * Cols - 1)
    <3>1. t.bottom * Cols <= Rows * Cols /\ (t.bottom - 1) * Cols = t.bottom * Cols - Cols
          /\ t.bottom * Cols \in Int
      BY <1>2, Sizes
    <3>2. i + Cols \in Cells
      BY <2>1, <3>1, Sizes
    <3> QED BY <1>2, <2>1, <3>2
  <2>2. CASE i \notin (t.top * Cols) .. ((t.bottom - 1) * Cols - 1)
    BY <1>2, <2>2, EmptyIsPicture
  <2> QED BY <2>1, <2>2
<1>4. c \in Canvas
  <2> HIDE DEF c
  <2>1. c = [i \in Cells |-> c[i]]
    BY DEF c
  <2> QED BY <1>3, <2>1 DEF Canvas
<1> HIDE DEF c
<1> QED BY <1>1, <1>4, Redrawn

LEMMA RevScrollFacts ==
  ASSUME NEW t \in State, NEW top \in Nat
  PROVE  /\ RevScroll(t, top) \in Drawn(t)
         /\ RevScroll(t, top).x = t.x /\ RevScroll(t, top).y = t.y
<1> DEFINE c == [i \in Cells |->
                   IF i \in ((top + 1) * Cols) .. (t.bottom * Cols - 1) THEN t.cells[i - Cols]
                   ELSE IF i \div Cols = top THEN Empty(t) ELSE t.cells[i]]
<1>1. RevScroll(t, top) = [t EXCEPT !.cells = c]
  BY DEF RevScroll
<1>2. t.cells \in [Cells -> Pictures]
  BY DEF State, Canvas
<1>3. ASSUME NEW i \in Cells PROVE c[i] \in Pictures
  <2>1. CASE i \in ((top + 1) * Cols) .. (t.bottom * Cols - 1)
    <3>1. (top + 1) * Cols = top * Cols + Cols /\ top * Cols >= 0 /\ top * Cols \in Int
      BY Sizes
    <3>2. i - Cols \in Cells
      BY <2>1, <3>1, Sizes
    <3> QED BY <1>2, <2>1, <3>2
  <2>2. CASE i \notin ((top + 1) * Cols) .. (t.bottom * Cols - 1)
    BY <1>2, <2>2, EmptyIsPicture
  <2> QED BY <2>1, <2>2
<1>4. c \in Canvas
  <2> HIDE DEF c
  <2>1. c = [i \in Cells |-> c[i]]
    BY DEF c
  <2> QED BY <1>3, <2>1 DEF Canvas
<1> HIDE DEF c
<1> QED BY <1>1, <1>4, Redrawn

LEMMA ClearFacts ==
  ASSUME NEW t \in State, NEW move \in BOOLEAN
  PROVE  /\ Clear(t, move) \in Drawn(t)
         /\ Clear(t, move).x = (IF move THEN 0 ELSE t.x)
<1> DEFINE c == [i \in Cells |-> Empty(t)]
           u == [t EXCEPT !.cells = c]
<1>1. c \in Canvas
  BY EmptyIsPicture DEF Canvas
<1>2. Clear(t, move) = IF move THEN [u EXCEPT !.x = 0, !.y = 0] ELSE u
  BY DEF Clear
<1> HIDE DEF c
<1>3. u \in Drawn(t) /\ u.x = t.x /\ u.y = t.y
  BY <1>1, Redrawn
<1>4. [u EXCEPT !.x = 0, !.y = 0] = With(t, c, 0, 0)
  BY DEF With, State
<1>5. 0 \in Nat /\ 0 \in Lines
  BY Sizes DEF Lines
<1>6. With(t, c, 0, 0) \in Drawn(t) /\ With(t, c, 0, 0).x = 0
  BY <1>1, <1>5, WithFacts DEF Drawn
<1> HIDE DEF u
<1> QED BY <1>2, <1>3, <1>4, <1>6

LEMMA MoveCharacterFacts ==
  ASSUME NEW t \in State, NEW newX \in Int, NEW newY \in Int, NEW oldX \in Int, NEW oldY \in Int
  PROVE  /\ MoveCharacter(t, newX, newY, oldX, oldY) \in Drawn(t)
         /\ MoveCharacter(t, newX, newY, oldX, oldY).x = t.x
         /\ MoveCharacter(t, newX, newY, oldX, oldY).y = t.y
         /\ MoveCharacter(t, newX, newY, oldX, oldY).cells =
              IF OnScreen(oldX, oldY) /\ OnScreen(newX, newY)
              THEN [t.cells EXCEPT ![Cell(newX, newY)] = t.cells[Cell(oldX, oldY)]]
              ELSE t.cells
<1>1. CASE OnScreen(oldX, oldY)
  <2>1. t.cells[Cell(oldX, oldY)] \in Pictures
    BY <1>1, OnScreenIsCell DEF State, Canvas
  <2> DEFINE ch == t.cells[Cell(oldX, oldY)]
  <2>2. MoveCharacter(t, newX, newY, oldX, oldY) = Put(t, ch, newX, newY)
    BY <1>1 DEF MoveCharacter
  <2> HIDE DEF ch
  <2>3. /\ Put(t, ch, newX, newY) \in Drawn(t)
        /\ Put(t, ch, newX, newY).x = t.x /\ Put(t, ch, newX, newY).y = t.y
        /\ Put(t, ch, newX, newY).cells =
             IF OnScreen(newX, newY) THEN [t.cells EXCEPT ![Cell(newX, newY)] = ch] ELSE t.cells
    BY <2>1, PutFacts DEF ch
  <2> QED BY <1>1, <2>2, <2>3 DEF ch
<1>2. CASE ~OnScreen(oldX, oldY)
  BY <1>2, DrawnSelf DEF MoveCharacter
<1> QED BY <1>1, <1>2

LEMMA NextLineFacts ==
  ASSUME NEW t \in State
  PROVE  /\ NextLine(t) \in Drawn(t)
         /\ NextLine(t).x = 0 /\ NextLine(t).cells = t.cells
         /\ NextLine(t).y = LET y == IF t.y + 1 = t.bottom THEN t.y ELSE t.y + 1
                            IN  IF y >= Cols THEN Cols - 1 ELSE y
<1> DEFINE y == IF t.y + 1 = t.bottom THEN t.y ELSE t.y + 1
           z == IF y >= Cols THEN Cols - 1 ELSE y
<1>1. t.y \in Lines /\ t.cells \in Canvas
  BY DEF State
<1>2. z \in Lines
  BY <1>1, Sizes DEF Lines
<1>3. NextLine(t) = [t EXCEPT !.x = 0, !.y = z]
  BY DEF NextLine
<1> HIDE DEF z
<1>4. [t EXCEPT !.x = 0, !.y = z] = With(t, t.cells, 0, z)
  BY DEF With, State
<1>5. /\ With(t, t.cells, 0, z) \in Drawn(t) /\ With(t, t.cells, 0, z).x = 0
      /\ With(t, t.cells, 0, z).y = z /\ With(t, t.cells, 0, z).cells = t.cells
  BY <1>1, <1>2, WithFacts DEF Drawn
<1> QED BY <1>3, <1>4, <1>5 DEF z

Glyph(t, c) == [c |-> c, fg |-> t.fg, bg |-> t.bg]

LEMMA GlyphIsPicture ==
  ASSUME NEW t \in State, NEW c \in Names
  PROVE  Glyph(t, c) \in Pictures
<1>1. t.fg \in Colours /\ t.bg \in Colours
  BY DEF State
<1> QED BY <1>1 DEF Glyph, Pictures

LEMMA DrawnKeepsSettings ==
  ASSUME NEW t \in State, NEW u \in Drawn(t)
  PROVE  u.fg = t.fg /\ u.bg = t.bg /\ u.top = t.top /\ u.bottom = t.bottom /\ u.scroll = t.scroll
<1>1. PICK c \in Canvas, x \in Nat, y \in Lines : u = With(t, c, x, y)
  BY DEF Drawn
<1> QED BY <1>1 DEF With, State

\* A character is drawn at the cursor, which moves on, if the line is not full
\* or cannot be left; otherwise at the beginning of the next line, which may
\* take scrolling.
LEMMA RawPutcharFacts ==
  ASSUME NEW t \in State, NEW c \in Names
  PROVE  /\ RawPutchar(t, c) \in Drawn(t)
         /\ ~Wraps(t) =>
              /\ RawPutchar(t, c).x = t.x + 1 /\ RawPutchar(t, c).y = t.y
              /\ RawPutchar(t, c).cells =
                   IF OnScreen(t.x, t.y)
                   THEN [t.cells EXCEPT ![Cell(t.x, t.y)] = Glyph(t, c)] ELSE t.cells
         /\ Wraps(t) =>
              /\ RawPutchar(t, c).x = 1
              /\ RawPutchar(t, c).y = NextLine(t).y
              /\ LET y == NextLine(t).y
                     h == IF t.y + 1 = t.bottom THEN Scroll(t).cells ELSE t.cells
                 IN  RawPutchar(t, c).cells =
                       IF OnScreen(0, y) THEN [h EXCEPT ![Cell(0, y)] = Glyph(t, c)] ELSE h
<1> DEFINE v == IF t.y + 1 = t.bottom THEN Scroll(t) ELSE t
           u == IF ~Wraps(t) THEN t ELSE NextLine(v)
           p == Put(u, Glyph(t, c), u.x, u.y)
<1>1. v \in Drawn(t) /\ v.x = t.x /\ v.y = t.y
  BY ScrollFacts, DrawnSelf
<1>2. v.bottom = t.bottom /\ v \in State
  BY <1>1, DrawnKeepsSettings, DrawnFacts
<1>3. /\ NextLine(v) \in Drawn(t) /\ NextLine(v).x = 0 /\ NextLine(v).y = NextLine(t).y
      /\ NextLine(v).cells = v.cells
  <2>1. NextLine(v) \in Drawn(v) /\ NextLine(v).cells = v.cells
    BY <1>2, NextLineFacts
  <2>2. NextLine(v) \in Drawn(t)
    BY <1>1, <2>1, DrawnAgain
  <2> QED BY <1>1, <1>2, <2>1, <2>2, NextLineFacts
<1>4. u \in Drawn(t)
  BY <1>3, DrawnSelf
<1>5. u \in State /\ u.fg = t.fg /\ u.bg = t.bg /\ u.x \in Nat /\ u.y \in Int
  <2>1. u \in State
    BY <1>4, DrawnFacts
  <2>2. u.x \in Nat /\ u.y \in Lines
    BY <2>1 DEF State
  <2>3. u.y \in Int
    BY <2>2, Sizes DEF Lines
  <2> QED BY <1>4, <2>1, <2>2, <2>3, DrawnKeepsSettings
<1>6. RawPutchar(t, c) = [p EXCEPT !.x = @ + 1]
  <2>1. [c |-> c, fg |-> t.fg, bg |-> t.bg] = Glyph(t, c)
    BY DEF Glyph
  <2>2. RawPutchar(t, c) = [Put(u, [c |-> c, fg |-> u.fg, bg |-> u.bg], u.x, u.y) EXCEPT !.x = @ + 1]
    BY <1>5 DEF RawPutchar
  <2> QED BY <1>5, <2>1, <2>2
<1>7. /\ p \in Drawn(u) /\ p.x = u.x /\ p.y = u.y
      /\ p.cells = IF OnScreen(u.x, u.y) THEN [u.cells EXCEPT ![Cell(u.x, u.y)] = Glyph(t, c)]
                   ELSE u.cells
  <2> HIDE DEF u
  <2> DEFINE g == Glyph(t, c)
  <2>1. g \in Pictures
    BY GlyphIsPicture
  <2> HIDE DEF g
  <2>2. /\ Put(u, g, u.x, u.y) \in Drawn(u)
        /\ Put(u, g, u.x, u.y).x = u.x /\ Put(u, g, u.x, u.y).y = u.y
        /\ Put(u, g, u.x, u.y).cells =
             IF OnScreen(u.x, u.y) THEN [u.cells EXCEPT ![Cell(u.x, u.y)] = g] ELSE u.cells
    <3>1. u.x \in Int /\ u.y \in Int /\ u \in State
      BY <1>5
    <3> QED BY Zenon, <2>1, <3>1, PutFacts
  <2>3. p = Put(u, g, u.x, u.y) /\ g = Glyph(t, c)
    BY DEF g
  <2> HIDE DEF p
  <2> QED BY Zenon, <2>2, <2>3
<1> HIDE DEF p
<1>8. p \in Drawn(t) /\ p \in State
  BY <1>4, <1>5, <1>7, DrawnAgain, DrawnFacts
<1>9. /\ RawPutchar(t, c) \in Drawn(p) /\ RawPutchar(t, c).x = p.x + 1
      /\ RawPutchar(t, c).y = p.y /\ RawPutchar(t, c).cells = p.cells
  <2>1. p.cells \in Canvas /\ p.x \in Nat /\ p.y \in Lines /\ p.x + 1 \in Nat
    BY <1>8 DEF State
  <2>2. [p EXCEPT !.x = @ + 1] = With(p, p.cells, p.x + 1, p.y)
    BY <1>8 DEF State, With
  <2> QED BY <1>6, <1>8, <2>1, <2>2, WithFacts DEF Drawn
<1>10. RawPutchar(t, c) \in Drawn(t)
  BY <1>8, <1>9, DrawnAgain
<1>11. CASE ~Wraps(t)
  BY <1>7, <1>9, <1>10, <1>11
<1>12. CASE Wraps(t)
  <2>1. u = NextLine(v) /\ v.cells = IF t.y + 1 = t.bottom THEN Scroll(t).cells ELSE t.cells
    BY <1>12
  <2> HIDE DEF u, v
  <2> QED BY <1>3, <1>7, <1>9, <1>10, <1>12, <2>1
<1> QED BY <1>11, <1>12

LEMMA RawPutcharColumn ==
  ASSUME NEW t \in State, NEW c \in Names
  PROVE  /\ RawPutchar(t, c).x <= t.x + 1
         /\ t.scroll /\ t.x <= Cols => RawPutchar(t, c).x <= Cols
<1>1. t.x \in Nat
  BY DEF State
<1>2. CASE Wraps(t)
  <2>1. RawPutchar(t, c).x = 1
    BY <1>2, RawPutcharFacts
  <2> QED BY <1>1, <2>1, Sizes
<1>3. CASE ~Wraps(t)
  <2>1. RawPutchar(t, c).x = t.x + 1
    BY <1>3, RawPutcharFacts
  <2>2. t.scroll => t.x < Cols
    BY <1>1, <1>3, Sizes DEF Wraps
  <2> QED BY <1>1, <2>1, <2>2, Sizes
<1> QED BY <1>2, <1>3

-----------------------------------------------------------------------------
(* The loops of the control sequences: the states each goes through. *)

\* Spaces.
LEMMA SpacesRun ==
  ASSUME NEW t \in State, NEW n \in Nat
  PROVE  \E g \in [0 .. n -> Drawn(t)] :
           /\ g[0] = t /\ Spaces(t, n) = g[n]
           /\ \A k \in 1 .. n : g[k] = RawPutchar(g[k - 1], " ")
<1> DEFINE V == Drawn(t)
           Op(u, i) == RawPutchar(u, " ")
           q == [i \in 1 .. n |-> i]
           step == [p \in V \X (1 .. n) |-> Op(p[1], q[p[2]])]
           Loop(F) == F = [s \in SUBSET (DOMAIN q) |->
                       IF s = {} THEN t ELSE Op(F[s \ {Max(s)}], q[Max(s)])]
           F == CHOOSE F : Loop(F)
<1>1. Spaces(t, n) = F[DOMAIN q]
  BY DEF FoldLeft, MapThenFoldSet, Spaces
<1>2. t \in V /\ \A u \in V, k \in 1 .. n : Op(u, q[k]) \in V
  <2>1. ASSUME NEW u \in V PROVE RawPutchar(u, " ") \in V
    <3>1. u \in State /\ " " \in Names
      BY DrawnFacts DEF Names
    <3> QED BY <3>1, RawPutcharFacts, DrawnAgain
  <2> QED BY <2>1, DrawnSelf
<1> HIDE DEF V, Op
<1>3. step \in [V \X (1 .. n) -> V] /\ \A u \in V, k \in 1 .. n : step[<<u, k>>] = Op(u, q[k])
  BY <1>2
<1>4. DOMAIN q = 1 .. n
  BY DEF q
<1> HIDE DEF q, step
<1>5. PICK f \in [SUBSET (1 .. n) -> V], g \in [0 .. n -> V] :
        /\ Recurs(f, n, t, step) /\ g[0] = t
        /\ \A k \in 1 .. n : g[k] = step[<<g[k - 1], k>>]
        /\ \A G : Follows(G, n, V, t, step) => G[1 .. n] = g[n]
  <2>1. Stepwise(n, V, t, step)
    BY <1>2, <1>3, FoldRun
  <2> QED BY <2>1 DEF Stepwise
<1>6. \A s \in SUBSET (1 .. n) : s # {} => Max(s) \in 1 .. n
  BY LargestOf
<1>7. Loop(F)
  <2>1. Loop(f)
    <3>1. \A s \in SUBSET (1 .. n) : s # {} => f[s \ {Max(s)}] \in V
      BY <1>5
    <3>2. \A s \in SUBSET (1 .. n) :
            (IF s = {} THEN t ELSE step[<<f[s \ {Max(s)}], Max(s)>>])
              = (IF s = {} THEN t ELSE Op(f[s \ {Max(s)}], q[Max(s)]))
      BY <1>3, <1>6, <3>1
    <3> QED BY <1>4, <1>5, <3>2 DEF Recurs
  <2> HIDE DEF Loop
  <2> QED BY <2>1
<1> HIDE DEF F
<1>8. Follows(F, n, V, t, step)
  BY <1>3, <1>4, <1>6, <1>7 DEF Follows
<1>9. Spaces(t, n) = g[n]
  BY <1>1, <1>4, <1>5, <1>8
<1>10. \A k \in 1 .. n : g[k] = Op(g[k - 1], q[k])
  <2>1. \A k \in 1 .. n : g[k - 1] \in V
    BY <1>5
  <2> QED BY <1>3, <1>5, <2>1
<1> QED BY <1>5, <1>9, <1>10 DEF V, Op, q

\* M.
LEMMA ScrollsRun ==
  ASSUME NEW t \in State, NEW n \in Nat
  PROVE  \E g \in [0 .. n -> Drawn(t)] :
           /\ g[0] = t /\ Scrolls(t, n) = g[n]
           /\ \A k \in 1 .. n : g[k] = Scroll(g[k - 1])
<1> DEFINE V == Drawn(t)
           Op(u, i) == Scroll(u)
           q == [i \in 1 .. n |-> i]
           step == [p \in V \X (1 .. n) |-> Op(p[1], q[p[2]])]
           Loop(F) == F = [s \in SUBSET (DOMAIN q) |->
                       IF s = {} THEN t ELSE Op(F[s \ {Max(s)}], q[Max(s)])]
           F == CHOOSE F : Loop(F)
<1>1. Scrolls(t, n) = F[DOMAIN q]
  BY DEF FoldLeft, MapThenFoldSet, Scrolls
<1>2. t \in V /\ \A u \in V, k \in 1 .. n : Op(u, q[k]) \in V
  <2>1. ASSUME NEW u \in V PROVE Scroll(u) \in V
    <3>1. u \in State
      BY DrawnFacts
    <3> QED BY <3>1, ScrollFacts, DrawnAgain
  <2> QED BY <2>1, DrawnSelf
<1> HIDE DEF V, Op
<1>3. step \in [V \X (1 .. n) -> V] /\ \A u \in V, k \in 1 .. n : step[<<u, k>>] = Op(u, q[k])
  BY <1>2
<1>4. DOMAIN q = 1 .. n
  BY DEF q
<1> HIDE DEF q, step
<1>5. PICK f \in [SUBSET (1 .. n) -> V], g \in [0 .. n -> V] :
        /\ Recurs(f, n, t, step) /\ g[0] = t
        /\ \A k \in 1 .. n : g[k] = step[<<g[k - 1], k>>]
        /\ \A G : Follows(G, n, V, t, step) => G[1 .. n] = g[n]
  <2>1. Stepwise(n, V, t, step)
    BY <1>2, <1>3, FoldRun
  <2> QED BY <2>1 DEF Stepwise
<1>6. \A s \in SUBSET (1 .. n) : s # {} => Max(s) \in 1 .. n
  BY LargestOf
<1>7. Loop(F)
  <2>1. Loop(f)
    <3>1. \A s \in SUBSET (1 .. n) : s # {} => f[s \ {Max(s)}] \in V
      BY <1>5
    <3>2. \A s \in SUBSET (1 .. n) :
            (IF s = {} THEN t ELSE step[<<f[s \ {Max(s)}], Max(s)>>])
              = (IF s = {} THEN t ELSE Op(f[s \ {Max(s)}], q[Max(s)]))
      BY <1>3, <1>6, <3>1
    <3> QED BY <1>4, <1>5, <3>2 DEF Recurs
  <2> HIDE DEF Loop
  <2> QED BY <2>1
<1> HIDE DEF F
<1>8. Follows(F, n, V, t, step)
  BY <1>3, <1>4, <1>6, <1>7 DEF Follows
<1>9. Scrolls(t, n) = g[n]
  BY <1>1, <1>4, <1>5, <1>8
<1>10. \A k \in 1 .. n : g[k] = Op(g[k - 1], q[k])
  <2>1. \A k \in 1 .. n : g[k - 1] \in V
    BY <1>5
  <2> QED BY <1>3, <1>5, <2>1
<1> QED BY <1>5, <1>9, <1>10 DEF V, Op, q

\* L.
LEMMA InsertLinesRun ==
  ASSUME NEW t \in State, NEW n \in Nat, NEW y \in Nat
  PROVE  \E g \in [0 .. n -> Drawn(t)] :
           /\ g[0] = t /\ InsertLines(t, y, n) = g[n]
           /\ \A k \in 1 .. n : g[k] = RevScroll(g[k - 1], y)
<1> DEFINE V == Drawn(t)
           Op(u, i) == RevScroll(u, y)
           q == [i \in 1 .. n |-> i]
           step == [p \in V \X (1 .. n) |-> Op(p[1], q[p[2]])]
           Loop(F) == F = [s \in SUBSET (DOMAIN q) |->
                       IF s = {} THEN t ELSE Op(F[s \ {Max(s)}], q[Max(s)])]
           F == CHOOSE F : Loop(F)
<1>1. InsertLines(t, y, n) = F[DOMAIN q]
  BY DEF FoldLeft, MapThenFoldSet, InsertLines
<1>2. t \in V /\ \A u \in V, k \in 1 .. n : Op(u, q[k]) \in V
  <2>1. ASSUME NEW u \in V PROVE RevScroll(u, y) \in V
    <3>1. u \in State
      BY DrawnFacts
    <3> QED BY <3>1, RevScrollFacts, DrawnAgain
  <2> QED BY <2>1, DrawnSelf
<1> HIDE DEF V, Op
<1>3. step \in [V \X (1 .. n) -> V] /\ \A u \in V, k \in 1 .. n : step[<<u, k>>] = Op(u, q[k])
  BY <1>2
<1>4. DOMAIN q = 1 .. n
  BY DEF q
<1> HIDE DEF q, step
<1>5. PICK f \in [SUBSET (1 .. n) -> V], g \in [0 .. n -> V] :
        /\ Recurs(f, n, t, step) /\ g[0] = t
        /\ \A k \in 1 .. n : g[k] = step[<<g[k - 1], k>>]
        /\ \A G : Follows(G, n, V, t, step) => G[1 .. n] = g[n]
  <2>1. Stepwise(n, V, t, step)
    BY <1>2, <1>3, FoldRun
  <2> QED BY <2>1 DEF Stepwise
<1>6. \A s \in SUBSET (1 .. n) : s # {} => Max(s) \in 1 .. n
  BY LargestOf
<1>7. Loop(F)
  <2>1. Loop(f)
    <3>1. \A s \in SUBSET (1 .. n) : s # {} => f[s \ {Max(s)}] \in V
      BY <1>5
    <3>2. \A s \in SUBSET (1 .. n) :
            (IF s = {} THEN t ELSE step[<<f[s \ {Max(s)}], Max(s)>>])
              = (IF s = {} THEN t ELSE Op(f[s \ {Max(s)}], q[Max(s)]))
      BY <1>3, <1>6, <3>1
    <3> QED BY <1>4, <1>5, <3>2 DEF Recurs
  <2> HIDE DEF Loop
  <2> QED BY <2>1
<1> HIDE DEF F
<1>8. Follows(F, n, V, t, step)
  BY <1>3, <1>4, <1>6, <1>7 DEF Follows
<1>9. InsertLines(t, y, n) = g[n]
  BY <1>1, <1>4, <1>5, <1>8
<1>10. \A k \in 1 .. n : g[k] = Op(g[k - 1], q[k])
  <2>1. \A k \in 1 .. n : g[k - 1] \in V
    BY <1>5
  <2> QED BY <1>3, <1>5, <2>1
<1> QED BY <1>5, <1>9, <1>10 DEF V, Op, q

\* @: column i moves n columns on, and a space is left in it.
MoveRight(u, i, n, y) ==
  RawPutchar(SetCursorPos(MoveCharacter(u, i + n, y, i, y), i, y), " ")

LEMMA MoveRightType ==
  ASSUME NEW t \in State, NEW u \in Drawn(t), NEW i \in Int, NEW n \in Int, NEW y \in Int
  PROVE  MoveRight(u, i, n, y) \in Drawn(t)
<1> DEFINE v == MoveCharacter(u, i + n, y, i, y)
           w == SetCursorPos(v, i, y)
<1>1. u \in State /\ " " \in Names /\ i + n \in Int
  BY DrawnFacts DEF Names
<1>2. v \in Drawn(u) /\ v \in State
  BY <1>1, MoveCharacterFacts, DrawnFacts
<1> HIDE DEF v
<1>3. w \in Drawn(v) /\ w \in State
  BY <1>2, SetCursorPosFacts, DrawnFacts
<1> HIDE DEF w
<1>4. RawPutchar(w, " ") \in Drawn(w)
  BY <1>1, <1>3, RawPutcharFacts
<1>5. w \in Drawn(t)
  BY <1>1, <1>2, <1>3, DrawnAgain
<1> QED BY <1>4, <1>5, DrawnAgain DEF MoveRight, w, v

\* P, from state to state: the characters move from the last column to the
\* cursor, and the cursor returns.
Inserts(t, x, y, n) ==
  \E g \in [0 .. (Cols - x) -> Drawn(t)] :
    /\ g[0] = t /\ InsertCharacters(t, x, y, n) = SetCursorPos(g[(Cols - x)], x, y)
    /\ \A k \in 1 .. (Cols - x) : g[k] = MoveRight(g[k - 1], Cols - k, n, y)

LEMMA InsertCharactersRun ==
  ASSUME NEW t \in State, NEW n \in Int, NEW y \in Int, NEW x \in Int, Cols - x \in Nat
  PROVE  Inserts(t, x, y, n)
<1> DEFINE V == Drawn(t)
           Op(u, i) == MoveRight(u, i, n, y)
           q == [j \in 1 .. (Cols - x) |-> Cols - j]
           step == [p \in V \X (1 .. (Cols - x)) |-> Op(p[1], q[p[2]])]
           Loop(F) == F = [s \in SUBSET (DOMAIN q) |->
                       IF s = {} THEN t ELSE Op(F[s \ {Max(s)}], q[Max(s)])]
           F == CHOOSE F : Loop(F)
<1>1. InsertCharacters(t, x, y, n) = SetCursorPos(F[DOMAIN q], x, y)
  BY DEF FoldLeft, MapThenFoldSet, InsertCharacters, MoveRight
<1>2. t \in V /\ \A u \in V, k \in 1 .. (Cols - x) : Op(u, q[k]) \in V
  <2>1. ASSUME NEW u \in V, NEW k \in 1 .. (Cols - x) PROVE MoveRight(u, q[k], n, y) \in V
    <3>1. q[k] \in Int
      BY Sizes
    <3> HIDE DEF q
    <3> QED BY <3>1, MoveRightType
  <2> HIDE DEF q
  <2> QED BY <2>1, DrawnSelf
<1> HIDE DEF V, Op
<1>3. step \in [V \X (1 .. (Cols - x)) -> V] /\ \A u \in V, k \in 1 .. (Cols - x) : step[<<u, k>>] = Op(u, q[k])
  BY <1>2
<1>4. DOMAIN q = 1 .. (Cols - x)
  BY DEF q
<1> HIDE DEF q, step
<1>5. PICK f \in [SUBSET (1 .. (Cols - x)) -> V], g \in [0 .. (Cols - x) -> V] :
        /\ Recurs(f, (Cols - x), t, step) /\ g[0] = t
        /\ \A k \in 1 .. (Cols - x) : g[k] = step[<<g[k - 1], k>>]
        /\ \A G : Follows(G, (Cols - x), V, t, step) => G[1 .. (Cols - x)] = g[(Cols - x)]
  <2>1. Stepwise((Cols - x), V, t, step)
    BY <1>2, <1>3, FoldRun
  <2> QED BY <2>1 DEF Stepwise
<1>6. \A s \in SUBSET (1 .. (Cols - x)) : s # {} => Max(s) \in 1 .. (Cols - x)
  BY LargestOf
<1>7. Loop(F)
  <2>1. Loop(f)
    <3>1. \A s \in SUBSET (1 .. (Cols - x)) : s # {} => f[s \ {Max(s)}] \in V
      BY <1>5
    <3>2. \A s \in SUBSET (1 .. (Cols - x)) :
            (IF s = {} THEN t ELSE step[<<f[s \ {Max(s)}], Max(s)>>])
              = (IF s = {} THEN t ELSE Op(f[s \ {Max(s)}], q[Max(s)]))
      BY <1>3, <1>6, <3>1
    <3> QED BY <1>4, <1>5, <3>2 DEF Recurs
  <2> HIDE DEF Loop
  <2> QED BY <2>1
<1> HIDE DEF F
<1>8. Follows(F, (Cols - x), V, t, step)
  BY <1>3, <1>4, <1>6, <1>7 DEF Follows
<1>9. InsertCharacters(t, x, y, n) = SetCursorPos(g[(Cols - x)], x, y)
  BY <1>1, <1>4, <1>5, <1>8
<1>10. \A k \in 1 .. (Cols - x) : g[k] = Op(g[k - 1], q[k])
  <2>1. \A k \in 1 .. (Cols - x) : g[k - 1] \in V
    BY <1>5
  <2> QED BY <1>3, <1>5, <2>1
<1> QED BY <1>5, <1>9, <1>10 DEF V, Op, q, Inserts

\* P, from state to state: after m characters have moved, the end is erased.
Deletes(t, x, y, n, m) ==
  \E g \in [0 .. m -> Drawn(t)] :
    /\ g[0] = t
    /\ DeleteCharacters(t, x, y, n)
         = EraseCharacters(SetCursorPos(g[m], Cols - n, y), x, y, n)
    /\ \A k \in 1 .. m : g[k] = MoveCharacter(g[k - 1], x + k - 1, y, x + n + k - 1, y)

\* P: the columns behind the deleted ones move back.
LEMMA DeleteCharactersRun ==
  ASSUME NEW t \in State, NEW n \in Int, NEW y \in Int, NEW x \in Int,
         NEW m \in Nat, m = Cols - x - n \/ (m = 0 /\ Cols - x - n < 0)
  PROVE  Deletes(t, x, y, n, m)
<1> DEFINE V == Drawn(t)
           Op(u, i) == MoveCharacter(u, i - n, y, i, y)
           q == [j \in 1 .. (Cols - x - n) |-> x + n + j - 1]
           step == [p \in V \X (1 .. m) |-> Op(p[1], q[p[2]])]
           Loop(F) == F = [s \in SUBSET (DOMAIN q) |->
                       IF s = {} THEN t ELSE Op(F[s \ {Max(s)}], q[Max(s)])]
           F == CHOOSE F : Loop(F)
<1>0. 1 .. m = 1 .. (Cols - x - n)
  BY Sizes
<1>1. DeleteCharacters(t, x, y, n)
                = EraseCharacters(SetCursorPos(F[DOMAIN q], Cols - n, y), x, y, n)
  BY DEF FoldLeft, MapThenFoldSet, DeleteCharacters
<1>2. t \in V /\ \A u \in V, k \in 1 .. m : Op(u, q[k]) \in V
  <2>1. ASSUME NEW u \in V, NEW k \in 1 .. m
        PROVE MoveCharacter(u, q[k] - n, y, q[k], y) \in V
    <3>1. q[k] \in Int /\ q[k] - n \in Int /\ u \in State
      <4>1. k \in 1 .. (Cols - x - n) /\ k \in Int
        BY Sizes
      <4>2. q[k] = x + n + k - 1
        BY <4>1
      <4>3. q[k] \in Int /\ q[k] - n \in Int
        BY <4>1, <4>2
      <4> QED BY <4>3, DrawnFacts
    <3> HIDE DEF q
    <3> QED BY <3>1, MoveCharacterFacts, DrawnAgain
  <2> HIDE DEF q
  <2> QED BY <2>1, DrawnSelf
<1> HIDE DEF V, Op
<1>3. step \in [V \X (1 .. m) -> V] /\ \A u \in V, k \in 1 .. m : step[<<u, k>>] = Op(u, q[k])
  BY <1>2
<1>4. DOMAIN q = 1 .. m
  BY <1>0 DEF q
<1> HIDE DEF q, step
<1>5. PICK f \in [SUBSET (1 .. m) -> V], g \in [0 .. m -> V] :
        /\ Recurs(f, m, t, step) /\ g[0] = t
        /\ \A k \in 1 .. m : g[k] = step[<<g[k - 1], k>>]
        /\ \A G : Follows(G, m, V, t, step) => G[1 .. m] = g[m]
  <2>1. Stepwise(m, V, t, step)
    BY <1>2, <1>3, FoldRun
  <2> QED BY <2>1 DEF Stepwise
<1>6. \A s \in SUBSET (1 .. m) : s # {} => Max(s) \in 1 .. m
  BY LargestOf
<1>7. Loop(F)
  <2>1. Loop(f)
    <3>1. \A s \in SUBSET (1 .. m) : s # {} => f[s \ {Max(s)}] \in V
      BY <1>5
    <3>2. \A s \in SUBSET (1 .. m) :
            (IF s = {} THEN t ELSE step[<<f[s \ {Max(s)}], Max(s)>>])
              = (IF s = {} THEN t ELSE Op(f[s \ {Max(s)}], q[Max(s)]))
      BY <1>3, <1>6, <3>1
    <3> QED BY <1>4, <1>5, <3>2 DEF Recurs
  <2> HIDE DEF Loop
  <2> QED BY <2>1
<1> HIDE DEF F
<1>8. Follows(F, m, V, t, step)
  BY <1>3, <1>4, <1>6, <1>7 DEF Follows
<1>9. DeleteCharacters(t, x, y, n)
                = EraseCharacters(SetCursorPos(g[m], Cols - n, y), x, y, n)
  BY <1>1, <1>4, <1>5, <1>8
<1>10. \A k \in 1 .. m : g[k] = Op(g[k - 1], q[k])
  <2>1. \A k \in 1 .. m : g[k - 1] \in V
    BY <1>5
  <2> QED BY <1>3, <1>5, <2>1
<1>11. \A k \in 1 .. m : q[k] = x + n + k - 1 /\ q[k] - n = x + k - 1
  BY Sizes DEF q
<1> QED BY <1>5, <1>9, <1>10, <1>11 DEF V, Op, Deletes

\* What drawing leaves alone.
Alike(t, u) ==
  /\ u.fg = t.fg /\ u.bg = t.bg /\ u.saved = t.saved /\ u.top = t.top /\ u.bottom = t.bottom
  /\ u.scroll = t.scroll /\ u.enabled = t.enabled
  /\ u.control_sequence = t.control_sequence /\ u.csi = t.csi /\ u.escape = t.escape
  /\ u.osc = t.osc /\ u.osc_escape = t.osc_escape /\ u.rrr = t.rrr
  /\ u.discard_next = t.discard_next /\ u.bold = t.bold /\ u.bg_bold = t.bg_bold
  /\ u.reverse_video = t.reverse_video /\ u.dec_private = t.dec_private
  /\ u.insert_mode = t.insert_mode /\ u.unicode_remaining = t.unicode_remaining
  /\ u.code_point = t.code_point /\ u.g_select = t.g_select /\ u.charsets = t.charsets
  /\ u.current_charset = t.current_charset /\ u.escape_offset = t.escape_offset
  /\ u.esc_values = t.esc_values /\ u.esc_values_i = t.esc_values_i
  /\ u.saved_cursor = t.saved_cursor /\ u.current_primary = t.current_primary
  /\ u.current_bg = t.current_bg /\ u.attributes = t.attributes

LEMMA DrawnIsAlike ==
  ASSUME NEW t \in State, NEW u \in Drawn(t)
  PROVE  Alike(t, u)
<1>1. PICK c \in Canvas, x \in Nat, y \in Lines : u = With(t, c, x, y)
  BY DEF Drawn
<1> QED BY <1>1 DEF With, State, Alike

LEMMA SpacesFacts ==
  ASSUME NEW t \in State, NEW n \in Nat
  PROVE  /\ Spaces(t, n) \in Drawn(t) /\ Spaces(t, n).x <= t.x + n
         /\ t.scroll /\ t.x <= Cols => Spaces(t, n).x <= Cols
<1>1. PICK g \in [0 .. n -> Drawn(t)] :
        /\ g[0] = t /\ Spaces(t, n) = g[n]
        /\ \A k \in 1 .. n : g[k] = RawPutchar(g[k - 1], " ")
  BY SpacesRun
<1> DEFINE T == {k \in 0 .. n : /\ g[k].x <= t.x + k
                                /\ t.scroll /\ t.x <= Cols => g[k].x <= Cols}
<1>2. t.x \in Nat
  BY DEF State
<1>3. 0 \in T
  <2>1. g[0].x = t.x
    BY Zenon, <1>1
  <2>2. g[0].x <= t.x + 0 /\ 0 \in 0 .. n
    BY <1>2, <2>1
  <2> QED BY <2>1, <2>2
<1>4. ASSUME NEW k \in 0 .. (n - 1), k \in T PROVE k + 1 \in T
  <2>1. g[k] \in Drawn(t) /\ g[k] \in State /\ g[k].scroll = t.scroll /\ " " \in Names
    <3>1. k \in 0 .. n
      OBVIOUS
    <3>2. g[k] \in Drawn(t)
      BY <1>1, <3>1
    <3>3. " " \in Names
      BY DEF Names
    <3> QED BY <3>2, <3>3, DrawnFacts, DrawnIsAlike DEF Alike
  <2>2. g[k + 1] = RawPutchar(g[k], " ") /\ g[k + 1] \in Drawn(t)
    <3>1. k + 1 \in 1 .. n /\ k + 1 \in 0 .. n /\ (k + 1) - 1 = k
      OBVIOUS
    <3> QED BY <1>1, <3>1
  <2>3. g[k + 1].x <= g[k].x + 1 /\ (t.scroll /\ g[k].x <= Cols => g[k + 1].x <= Cols)
    BY <2>1, <2>2, RawPutcharColumn
  <2>4. g[k + 1].x \in Nat /\ g[k].x \in Nat
    BY <2>1, <2>2, DrawnFacts DEF State
  <2> QED BY <1>2, <1>4, <2>3, <2>4
<1> HIDE DEF T
<1>5. n \in T
  <2>1. \A k \in 0 .. n : k \in T
    BY <1>3, <1>4, UpTo
  <2> QED BY <2>1
<1> QED BY <1>1, <1>5 DEF T

LEMMA ScrollsFacts ==
  ASSUME NEW t \in State, NEW n \in Nat
  PROVE  Scrolls(t, n) \in Drawn(t) /\ Scrolls(t, n).x = t.x
<1>1. PICK g \in [0 .. n -> Drawn(t)] :
        /\ g[0] = t /\ Scrolls(t, n) = g[n]
        /\ \A k \in 1 .. n : g[k] = Scroll(g[k - 1])
  BY ScrollsRun
<1> DEFINE T == {k \in 0 .. n : g[k].x = t.x}
<1>2. 0 \in T
  BY <1>1
<1>3. ASSUME NEW k \in 0 .. (n - 1), k \in T PROVE k + 1 \in T
  <2>1. g[k] \in State
    BY <1>1, DrawnFacts
  <2>2. g[k + 1] = Scroll(g[k])
    BY <1>1
  <2> QED BY <1>3, <2>1, <2>2, ScrollFacts
<1> HIDE DEF T
<1>4. n \in T
  <2>1. \A k \in 0 .. n : k \in T
    BY <1>2, <1>3, UpTo
  <2> QED BY <2>1
<1> QED BY <1>1, <1>4 DEF T

LEMMA InsertLinesFacts ==
  ASSUME NEW t \in State, NEW n \in Nat, NEW y \in Nat
  PROVE  InsertLines(t, y, n) \in Drawn(t) /\ InsertLines(t, y, n).x = t.x
<1>1. PICK g \in [0 .. n -> Drawn(t)] :
        /\ g[0] = t /\ InsertLines(t, y, n) = g[n]
        /\ \A k \in 1 .. n : g[k] = RevScroll(g[k - 1], y)
  BY ZenonT(60), InsertLinesRun
<1> DEFINE T == {k \in 0 .. n : g[k].x = t.x}
<1>2. 0 \in T
  BY <1>1
<1>3. ASSUME NEW k \in 0 .. (n - 1), k \in T PROVE k + 1 \in T
  <2>1. g[k] \in State
    BY <1>1, DrawnFacts
  <2>2. g[k + 1] = RevScroll(g[k], y)
    BY <1>1
  <2> QED BY <1>3, <2>1, <2>2, RevScrollFacts
<1> HIDE DEF T
<1>4. n \in T
  <2>1. \A k \in 0 .. n : k \in T
    BY <1>2, <1>3, UpTo
  <2> QED BY <2>1
<1> QED BY <1>1, <1>4 DEF T

\* t drawn on, with the cursor in a column or behind the last one.
Placed(t) == {u \in Drawn(t) : u.x <= Cols}

LEMMA PositionFacts ==
  ASSUME NEW t \in State
  PROVE  PosX(t) \in 0 .. (Cols - 1) /\ PosY(t) \in 0 .. (Rows - 1)
BY Sizes DEF PosX, PosY, State, Lines

\* SetCursorPos after drawing.
LEMMA PlacedThere ==
  ASSUME NEW t \in State, NEW u \in Drawn(t), NEW x \in Int, NEW y \in Int
  PROVE  SetCursorPos(u, x, y) \in Placed(t)
<1>1. u \in State
  BY DrawnFacts
<1>2. SetCursorPos(u, x, y) \in Drawn(t) /\ OnScreen(SetCursorPos(u, x, y).x, SetCursorPos(u, x, y).y)
  BY <1>1, SetCursorPosFacts, DrawnAgain
<1>3. SetCursorPos(u, x, y).x <= Cols
  BY <1>2, Sizes DEF OnScreen
<1> QED BY <1>2, <1>3 DEF Placed

LEMMA InsertCharactersType ==
  ASSUME NEW t \in State, NEW n \in Int, NEW y \in Int, NEW x \in 0 .. (Cols - 1)
  PROVE  InsertCharacters(t, x, y, n) \in Placed(t)
<1>1. Cols - x \in Nat /\ x \in Int
  BY Sizes
<1>2. PICK g \in [0 .. (Cols - x) -> Drawn(t)] :
        InsertCharacters(t, x, y, n) = SetCursorPos(g[(Cols - x)], x, y)
  BY <1>1, InsertCharactersRun DEF Inserts
<1>3. g[(Cols - x)] \in Drawn(t)
  BY <1>1, <1>2
<1> QED BY <1>1, <1>2, <1>3, PlacedThere

LEMMA EraseCharactersType ==
  ASSUME NEW t \in State, NEW u \in Drawn(t), NEW n \in Nat, NEW y \in Int, NEW x \in Int
  PROVE  EraseCharacters(u, x, y, n) \in Placed(t)
<1>1. u \in State
  BY DrawnFacts
<1>2. Spaces(u, n) \in Drawn(t)
  BY <1>1, SpacesFacts, DrawnAgain
<1> QED BY <1>2, PlacedThere DEF EraseCharacters

LEMMA DeleteCharactersType ==
  ASSUME NEW t \in State, NEW n \in Nat, NEW y \in Int, NEW x \in Int
  PROVE  DeleteCharacters(t, x, y, n) \in Placed(t)
<1>1. Cols - n \in Int /\ n \in Int
  BY Sizes
<1>2. PICK m \in Nat : m = Cols - x - n \/ (m = 0 /\ Cols - x - n < 0)
  <2>1. CASE Cols - x - n < 0
    BY <2>1
  <2>2. CASE ~(Cols - x - n < 0)
    <3>1. Cols - x - n \in Nat
      BY <2>2, Sizes
    <3> QED BY <3>1
  <2> QED BY <2>1, <2>2
<1>3. PICK g \in [0 .. m -> Drawn(t)] :
        DeleteCharacters(t, x, y, n)
          = EraseCharacters(SetCursorPos(g[m], Cols - n, y), x, y, n)
  <2>1. Deletes(t, x, y, n, m)
    BY <1>1, <1>2, DeleteCharactersRun
  <2> QED BY <2>1 DEF Deletes
<1>4. SetCursorPos(g[m], Cols - n, y) \in Drawn(t)
  BY <1>1, PlacedThere DEF Placed
<1> QED BY <1>3, <1>4, EraseCharactersType

LEMMA EraseInLineType ==
  ASSUME NEW t \in State, t.x <= Cols, NEW x \in 0 .. (Cols - 1), NEW y \in Int, NEW n \in Nat
  PROVE  EraseInLine(t, x, y, n) \in Placed(t)
<1> DEFINE u == SetCursorPos(t, 0, y)
<1>1. x \in Nat /\ Cols - x \in Nat /\ Cols \in Nat /\ 0 \in Int
  BY Sizes
<1>2. u \in Drawn(t) /\ u \in State
  BY <1>1, SetCursorPosFacts, DrawnFacts
<1>3. u.x = 0
  BY Sizes DEF SetCursorPos, State
<1> HIDE DEF u
<1>4. Spaces(u, x) \in Placed(t)
  <2>1. Spaces(u, x) \in Drawn(t) /\ Spaces(u, x).x <= 0 + x /\ Spaces(u, x) \in State
    BY <1>1, <1>2, <1>3, SpacesFacts, DrawnAgain, DrawnFacts
  <2>2. Spaces(u, x).x \in Nat
    BY <2>1 DEF State
  <2>3. Spaces(u, x).x <= Cols
    BY <2>1, <2>2, Sizes
  <2> QED BY <2>1, <2>3 DEF Placed
<1>5. SetCursorPos(Spaces(u, Cols), x, y) \in Placed(t)
  <2>1. Spaces(u, Cols) \in Drawn(t)
    BY <1>1, <1>2, SpacesFacts, DrawnAgain
  <2> QED BY <1>1, <2>1, PlacedThere
<1>6. SetCursorPos(Spaces(t, Cols - x), x, y) \in Placed(t)
  <2>1. Spaces(t, Cols - x) \in Drawn(t)
    BY <1>1, SpacesFacts
  <2> QED BY <1>1, <2>1, PlacedThere
<1>7. t \in Placed(t)
  BY DrawnSelf DEF Placed
<1> QED BY <1>4, <1>5, <1>6, <1>7 DEF EraseInLine, u

LEMMA EraseInDisplayType ==
  ASSUME NEW t \in State, t.x <= Cols, NEW x \in 0 .. (Cols - 1), NEW y \in 0 .. (Rows - 1),
         NEW n \in Nat
  PROVE  EraseInDisplay(t, x, y, n) \in Placed(t)
<1> DEFINE a == (Rows - (y + 1)) * Cols + Cols - x
           b == y * Cols + x + 1
           u == SetCursorPos(t, 0, 0)
<1>1. a \in Nat /\ b \in Nat
  <2>1. (Rows - (y + 1)) * Cols \in 0 .. (Rows * Cols) /\ y * Cols \in 0 .. (Rows * Cols)
    BY Sizes
  <2> QED BY <2>1, Sizes
<1> HIDE DEF a, b
<1>2. u \in Drawn(t) /\ u \in State
  <2>1. 0 \in Int
    OBVIOUS
  <2> QED BY <2>1, SetCursorPosFacts, DrawnFacts
<1> HIDE DEF u
<1>3. Spaces(t, a) \in Drawn(t) /\ Spaces(u, b) \in Drawn(t)
  BY <1>1, <1>2, SpacesFacts, DrawnAgain
<1>4. SetCursorPos(Spaces(t, a), x, y) \in Placed(t) /\ SetCursorPos(Spaces(u, b), x, y) \in Placed(t)
  BY <1>3, PlacedThere
<1>5. Clear(t, FALSE) \in Placed(t)
  BY ClearFacts DEF Placed
<1>6. t \in Placed(t)
  BY DrawnSelf DEF Placed
<1> QED BY <1>4, <1>5, <1>6 DEF EraseInDisplay, u, a, b

-----------------------------------------------------------------------------
(* Printing. *)

\* In insert mode the rest of the line moves right.
MadeRoom(t) ==
  LET y == PosY(t)
      Move(u, i) == MoveCharacter(u, i + 1, y, i, y)
  IN  FoldLeft(Move, t, [j \in 1 .. (Cols - PosX(t)) |-> Cols - j])

\* t drawn on, with the cursor where it is.
DrawnInPlace(t) == {u \in Drawn(t) : u.x = t.x}

LEMMA MoveCharacterType ==
  ASSUME NEW t \in State, NEW newX \in Int, NEW newY \in Int, NEW oldX \in Int, NEW oldY \in Int
  PROVE  MoveCharacter(t, newX, newY, oldX, oldY) \in DrawnInPlace(t)
<1>1. CASE OnScreen(oldX, oldY)
  <2> DEFINE ch == t.cells[Cell(oldX, oldY)]
  <2>1. ch \in Pictures
    BY <1>1, OnScreenIsCell DEF State, Canvas
  <2>2. MoveCharacter(t, newX, newY, oldX, oldY) = Put(t, ch, newX, newY)
    BY <1>1 DEF MoveCharacter
  <2> HIDE DEF ch
  <2>3. Put(t, ch, newX, newY) \in Drawn(t) /\ Put(t, ch, newX, newY).x = t.x
    BY <2>1, PutFacts
  <2> QED BY <2>2, <2>3 DEF DrawnInPlace
<1>2. CASE ~OnScreen(oldX, oldY)
  BY <1>2, DrawnSelf DEF MoveCharacter, DrawnInPlace
<1> QED BY <1>1, <1>2

LEMMA InPlaceAgain ==
  ASSUME NEW t \in State, NEW u \in DrawnInPlace(t), NEW w \in DrawnInPlace(u)
  PROVE  w \in DrawnInPlace(t)
<1>1. u \in Drawn(t) /\ u.x = t.x /\ w \in Drawn(u) /\ w.x = u.x
  BY DEF DrawnInPlace
<1> QED BY <1>1, DrawnAgain DEF DrawnInPlace


LEMMA MadeRoomRun ==
  ASSUME NEW t \in State, NEW n \in Nat, n = Cols - PosX(t), NEW y \in Int, y = PosY(t)
  PROVE  \E g \in [0 .. n -> DrawnInPlace(t)] :
           /\ g[0] = t /\ MadeRoom(t) = g[n]
           /\ \A k \in 1 .. n : g[k] = MoveCharacter(g[k - 1], Cols - k + 1, y, Cols - k, y)
<1> DEFINE V == DrawnInPlace(t)
           Op(u, i) == MoveCharacter(u, i + 1, y, i, y)
           q == [j \in 1 .. n |-> Cols - j]
           step == [p \in V \X (1 .. n) |-> Op(p[1], q[p[2]])]
           Loop(F) == F = [s \in SUBSET (DOMAIN q) |->
                       IF s = {} THEN t ELSE Op(F[s \ {Max(s)}], q[Max(s)])]
           F == CHOOSE F : Loop(F)
<1>1. MadeRoom(t) = F[DOMAIN q]
  BY DEF FoldLeft, MapThenFoldSet, MadeRoom
<1>2. t \in V /\ \A u \in V, k \in 1 .. n : Op(u, q[k]) \in V
  <2>1. ASSUME NEW u \in V, NEW k \in 1 .. n
        PROVE MoveCharacter(u, q[k] + 1, y, q[k], y) \in V
    <3>1. q[k] \in Int /\ q[k] + 1 \in Int
      BY Sizes
    <3> HIDE DEF q
    <3>2. u \in State /\ u \in Drawn(t) /\ u.x = t.x
      BY DrawnFacts DEF DrawnInPlace
    <3>3. MoveCharacter(u, q[k] + 1, y, q[k], y) \in DrawnInPlace(u)
      BY <3>1, <3>2, MoveCharacterType
    <3> HIDE DEF V
    <3> QED BY <3>2, <3>3, InPlaceAgain DEF V
  <2> HIDE DEF q
  <2> QED BY <2>1, DrawnSelf DEF DrawnInPlace
<1> HIDE DEF V, Op
<1>3. step \in [V \X (1 .. n) -> V] /\ \A u \in V, k \in 1 .. n : step[<<u, k>>] = Op(u, q[k])
  BY <1>2
<1>4. DOMAIN q = 1 .. n
  BY DEF q
<1> HIDE DEF q, step
<1>5. PICK f \in [SUBSET (1 .. n) -> V], g \in [0 .. n -> V] :
        /\ Recurs(f, n, t, step) /\ g[0] = t
        /\ \A k \in 1 .. n : g[k] = step[<<g[k - 1], k>>]
        /\ \A G : Follows(G, n, V, t, step) => G[1 .. n] = g[n]
  <2>1. Stepwise(n, V, t, step)
    BY <1>2, <1>3, FoldRun
  <2> QED BY <2>1 DEF Stepwise
<1>6. \A s \in SUBSET (1 .. n) : s # {} => Max(s) \in 1 .. n
  BY LargestOf
<1>7. Loop(F)
  <2>1. Loop(f)
    <3>1. \A s \in SUBSET (1 .. n) : s # {} => f[s \ {Max(s)}] \in V
      BY <1>5
    <3>2. \A s \in SUBSET (1 .. n) :
            (IF s = {} THEN t ELSE step[<<f[s \ {Max(s)}], Max(s)>>])
              = (IF s = {} THEN t ELSE Op(f[s \ {Max(s)}], q[Max(s)]))
      BY <1>3, <1>6, <3>1
    <3> QED BY <1>4, <1>5, <3>2 DEF Recurs
  <2> HIDE DEF Loop
  <2> QED BY <2>1
<1> HIDE DEF F
<1>8. Follows(F, n, V, t, step)
  BY ZenonT(60), <1>3, <1>4, <1>6, <1>7 DEF Follows
<1>9. MadeRoom(t) = g[n]
  BY <1>1, <1>4, <1>5, <1>8
<1>10. \A k \in 1 .. n : g[k] = Op(g[k - 1], q[k])
  <2>1. \A k \in 1 .. n : g[k - 1] \in V
    BY <1>5
  <2> QED BY <1>3, <1>5, <2>1
<1> QED BY <1>5, <1>9, <1>10 DEF V, Op, q

LEMMA MadeRoomType ==
  ASSUME NEW t \in State
  PROVE  MadeRoom(t) \in Drawn(t) /\ MadeRoom(t).x = t.x
<1>1. PosX(t) \in 0 .. (Cols - 1) /\ PosY(t) \in Int
  BY PositionFacts
<1>2. PICK n \in Nat : n = Cols - PosX(t)
  BY <1>1, Sizes
<1>3. PICK g \in [0 .. n -> DrawnInPlace(t)] : MadeRoom(t) = g[n]
  BY <1>1, <1>2, MadeRoomRun
<1> QED BY <1>3 DEF DrawnInPlace

LEMMA PrintByteType ==
  ASSUME NEW t \in State, t.scroll, t.x <= Cols, NEW c
  PROVE  PrintByte(t, c) \in Placed(t)
<1> DEFINE u == IF t.insert_mode THEN MadeRoom(t) ELSE t
<1>1. PrintByte(t, c) =
        IF t.charsets[t.current_charset] = "DEC special" /\ c \in DOMAIN DecSpecial
        THEN RawPutchar(u, DecSpecial[c])
        ELSE IF c \in Printable THEN RawPutchar(u, c) ELSE u
  BY DEF PrintByte, MadeRoom
<1>2. u \in Drawn(t) /\ u.x = t.x
  BY MadeRoomType, DrawnSelf
<1> HIDE DEF u
<1>3. u \in State /\ u.scroll
  BY <1>2, DrawnFacts, DrawnKeepsSettings
<1>4. ASSUME NEW a \in Names PROVE RawPutchar(u, a) \in Placed(t)
  <2>1. RawPutchar(u, a) \in Drawn(t)
    BY <1>2, <1>3, RawPutcharFacts, DrawnAgain
  <2>2. RawPutchar(u, a).x <= Cols
    BY <1>2, <1>3, RawPutcharColumn
  <2> QED BY <2>1, <2>2 DEF Placed
<1>5. u \in Placed(t)
  BY <1>2 DEF Placed
<1>6. c \in DOMAIN DecSpecial => DecSpecial[c] \in Names
  BY DEF Names
<1>7. c \in Printable => c \in Names
  BY DEF Names
<1> QED BY <1>1, <1>4, <1>5, <1>6, <1>7

LEMMA PrintCodePointType ==
  ASSUME NEW t \in State, t.scroll, t.x <= Cols, t.code_point \in Points
  PROVE  PrintCodePoint(t) \in Placed(t)
<1> DEFINE p == t.code_point
<1>1. CASE p \in DOMAIN CP437
  <2>1. CP437[p] \in Names
    BY <1>1 DEF Names
  <2>2. RawPutchar(t, CP437[p]) \in Placed(t)
    BY <2>1, RawPutcharFacts, RawPutcharColumn DEF Placed
  <2> QED BY <1>1, <2>2 DEF PrintCodePoint
<1>2. CASE p \notin DOMAIN CP437 /\ Width[p] = 0
  BY <1>2, DrawnSelf DEF PrintCodePoint, Placed
<1>3. CASE p \notin DOMAIN CP437 /\ Width[p] # 0
  <2> DEFINE u == RawPutchar(t, "box")
             n == Width[p] - 1
  <2>1. n \in Nat
    <3>1. p \in DOMAIN Width
      BY <1>3 DEF Points
    <3>2. Width[p] \in Nat
      BY <3>1, BytesAssumption
    <3> QED BY <1>3, <3>2
  <2>2. u \in Drawn(t) /\ u.x <= Cols
    <3>1. "box" \in Names
      BY DEF Names
    <3> QED BY <3>1, RawPutcharFacts, RawPutcharColumn
  <2>3. PrintCodePoint(t) = Spaces(u, n)
    BY <1>3 DEF PrintCodePoint
  <2> HIDE DEF u, n
  <2>4. u \in State /\ u.scroll
    BY <2>2, DrawnFacts, DrawnKeepsSettings
  <2>5. Spaces(u, n) \in Drawn(u) /\ Spaces(u, n).x <= Cols
    BY <2>1, <2>2, <2>4, SpacesFacts
  <2> QED BY <2>2, <2>3, <2>5, DrawnAgain DEF Placed
<1> QED BY <1>1, <1>2, <1>3

\* Moving to another line, and what that scrolls.
LEMMA NewLineType ==
  ASSUME NEW t \in State, NEW x \in Int
  PROVE  NewLine(t, x) \in Placed(t)
<1>1. PosY(t) \in Int /\ PosY(t) + 1 \in Int
  BY PositionFacts
<1>2. Scroll(t) \in Drawn(t) /\ t \in Drawn(t)
  BY ScrollFacts, DrawnSelf
<1> QED BY <1>1, <1>2, PlacedThere DEF NewLine

LEMMA ReverseLineFeedType ==
  ASSUME NEW t \in State
  PROVE  ReverseLineFeed(t) \in Placed(t)
<1>1. PosY(t) \in Int /\ PosY(t) - 1 \in Int /\ 0 \in Int
  BY PositionFacts
<1>2. RevScroll(t, t.top) \in Drawn(t) /\ t \in Drawn(t)
  <2>1. t.top \in Nat
    BY Sizes DEF State, Tops
  <2> QED BY <2>1, RevScrollFacts, DrawnSelf
<1> QED BY <1>1, <1>2, PlacedThere DEF ReverseLineFeed

LEMMA HorizontalTabType ==
  ASSUME NEW t \in State
  PROVE  HorizontalTab(t) \in Placed(t)
<1> DEFINE n == PosX(t) \div TabSize + 1
           x == IF n >= Cols THEN Cols - 1 ELSE n * TabSize
<1>1. x \in Int /\ PosY(t) \in Int
  <2>1. PosX(t) \in Int /\ PosY(t) \in Int /\ TabSize \in Nat \ {0}
    BY PositionFacts, FlantermAssumption
  <2>2. n \in Int
    BY <2>1
  <2> HIDE DEF n
  <2> QED BY <2>1, <2>2, Sizes
<1>2. HorizontalTab(t) = SetCursorPos(t, x, PosY(t))
  BY DEF HorizontalTab
<1> HIDE DEF x
<1> QED BY <1>1, <1>2, DrawnSelf, PlacedThere

-----------------------------------------------------------------------------
(* Colours and attributes. *)

\* A chosen colour n and the one of the text, or of the background.
Shows(colour, n, bold) ==
  n # None => \/ colour = Bright(n)
              \/ colour = Normal(n) /\ ~bold
              \/ colour[1] \in {"rgb", "indexed"}
ColoursFollow(t) ==
  /\ Shows(IF t.reverse_video THEN t.bg ELSE t.fg, t.current_primary, t.bold)
  /\ Shows(IF t.reverse_video THEN t.fg ELSE t.bg, t.current_bg, t.bg_bold)

\* t with other colours and attributes.
Dressed(t, f, b, o, g, r, p, q) ==
  [t EXCEPT !.fg = f, !.bg = b, !.bold = o, !.bg_bold = g, !.reverse_video = r,
            !.current_primary = p, !.current_bg = q]

\* What they leave alone.
AlikeUndressed(t, u) ==
  /\ u.cells = t.cells /\ u.x = t.x /\ u.y = t.y
  /\ u.saved = t.saved /\ u.top = t.top /\ u.bottom = t.bottom
  /\ u.scroll = t.scroll /\ u.enabled = t.enabled
  /\ u.control_sequence = t.control_sequence /\ u.csi = t.csi /\ u.escape = t.escape
  /\ u.osc = t.osc /\ u.osc_escape = t.osc_escape /\ u.rrr = t.rrr
  /\ u.discard_next = t.discard_next /\ u.dec_private = t.dec_private
  /\ u.insert_mode = t.insert_mode /\ u.unicode_remaining = t.unicode_remaining
  /\ u.code_point = t.code_point /\ u.g_select = t.g_select /\ u.charsets = t.charsets
  /\ u.current_charset = t.current_charset /\ u.escape_offset = t.escape_offset
  /\ u.esc_values = t.esc_values /\ u.esc_values_i = t.esc_values_i
  /\ u.saved_cursor = t.saved_cursor /\ u.attributes = t.attributes

Tinted(t) == {u \in State : AlikeUndressed(t, u) /\ ColoursFollow(u)}

\* The values of a flag.
Flags == BOOLEAN

LEMMA DressedPlain ==
  ASSUME NEW t \in State, NEW f \in Colours, NEW b \in Colours, NEW o \in Flags,
         NEW g \in Flags, NEW p \in Palette, NEW q \in Palette,
         Shows(f, p, o), Shows(b, q, g)
  PROVE  Dressed(t, f, b, o, g, FALSE, p, q) \in Tinted(t)
<1> DEFINE u == Dressed(t, f, b, o, g, FALSE, p, q)
<1>1. u \in State
  BY ZenonT(60) DEF Dressed, State, Flags
<1>2. AlikeUndressed(t, u)
  BY DEF Dressed, State, AlikeUndressed
<1>3. /\ u.fg = f /\ u.bg = b /\ u.bold = o /\ u.bg_bold = g /\ u.reverse_video = FALSE
      /\ u.current_primary = p /\ u.current_bg = q
  BY DEF Dressed, State
<1> HIDE DEF u
<1>4. ColoursFollow(u)
  BY <1>3 DEF ColoursFollow
<1> QED BY <1>1, <1>2, <1>4 DEF Tinted, u

LEMMA DressedReversed ==
  ASSUME NEW t \in State, NEW f \in Colours, NEW b \in Colours, NEW o \in Flags,
         NEW g \in Flags, NEW p \in Palette, NEW q \in Palette,
         Shows(b, p, o), Shows(f, q, g)
  PROVE  Dressed(t, f, b, o, g, TRUE, p, q) \in Tinted(t)
<1> DEFINE u == Dressed(t, f, b, o, g, TRUE, p, q)
<1>1. u \in State
  BY ZenonT(60) DEF Dressed, State, Flags
<1>2. AlikeUndressed(t, u)
  BY DEF Dressed, State, AlikeUndressed
<1>3. /\ u.fg = f /\ u.bg = b /\ u.bold = o /\ u.bg_bold = g /\ u.reverse_video = TRUE
      /\ u.current_primary = p /\ u.current_bg = q
  BY DEF Dressed, State
<1> HIDE DEF u
<1>4. ColoursFollow(u)
  BY <1>3 DEF ColoursFollow
<1> QED BY <1>1, <1>2, <1>4 DEF Tinted, u

LEMMA Attire ==
  ASSUME NEW t \in State
  PROVE  /\ t.fg \in Colours /\ t.bg \in Colours /\ t.bold \in Flags /\ t.bg_bold \in Flags
         /\ t.reverse_video \in BOOLEAN /\ t.current_primary \in Palette /\ t.current_bg \in Palette
         /\ None \in Palette
BY DEF State, Palette, None, Flags

LEMMA TintedSelf ==
  ASSUME NEW t \in State, ColoursFollow(t)
  PROVE  t \in Tinted(t)
BY DEF Tinted, AlikeUndressed

LEMMA TintedAgain ==
  ASSUME NEW t \in State, NEW u \in Tinted(t), NEW w \in Tinted(u)
  PROVE  w \in Tinted(t)
BY DEF Tinted, AlikeUndressed

LEMMA ColoursAre ==
  /\ \A n \in Int : /\ Normal(n) \in Colours /\ Bright(n) \in Colours
                    /\ Rgb(n) \in Colours /\ Indexed(n) \in Colours
                    /\ Rgb(n)[1] = "rgb" /\ Indexed(n)[1] = "indexed"
  /\ DefaultFg \in Colours /\ DefaultFgBright \in Colours /\ DefaultBgBright \in Colours
  /\ Default \in Colours
<1>1. ASSUME NEW h \in Hues, NEW n \in Int PROVE <<h, n>> \in Colours
  BY DEF Colours
<1>2. \A n \in Int : /\ Normal(n) \in Colours /\ Bright(n) \in Colours
                     /\ Rgb(n) \in Colours /\ Indexed(n) \in Colours
  BY <1>1 DEF Hues, Normal, Bright, Rgb, Indexed
<1>3. \A n \in Int : Rgb(n)[1] = "rgb" /\ Indexed(n)[1] = "indexed"
  BY DEF Rgb, Indexed
<1>4. DefaultFg \in Colours /\ DefaultFgBright \in Colours /\ DefaultBgBright \in Colours
  <2>1. 0 \in Int
    OBVIOUS
  <2> QED BY <1>1, <2>1 DEF Hues, DefaultFg, DefaultFgBright, DefaultBgBright
<1>5. Default \in Colours
  BY DEF Colours
<1> QED BY <1>2, <1>3, <1>4, <1>5

LEMMA SetReverseType ==
  ASSUME NEW t \in State, ColoursFollow(t), NEW b \in Flags
  PROVE  SetReverse(t, b) \in Tinted(t)
<1>1. CASE t.reverse_video = b
  BY <1>1, TintedSelf DEF SetReverse
<1>2. CASE t.reverse_video = TRUE /\ b = FALSE
  <2>1. SetReverse(t, b) = Dressed(t, t.bg, t.fg, t.bold, t.bg_bold, FALSE, t.current_primary,
                                   t.current_bg)
    BY <1>2 DEF SetReverse, SwapPalette, Dressed, State
  <2>2. Shows(t.bg, t.current_primary, t.bold) /\ Shows(t.fg, t.current_bg, t.bg_bold)
    BY <1>2 DEF ColoursFollow
  <2> QED BY ZenonT(60), <2>1, <2>2, Attire, DressedPlain
<1>3. CASE t.reverse_video = FALSE /\ b = TRUE
  <2>1. SetReverse(t, b) = Dressed(t, t.bg, t.fg, t.bold, t.bg_bold, TRUE, t.current_primary,
                                   t.current_bg)
    BY <1>3 DEF SetReverse, SwapPalette, Dressed, State
  <2>2. Shows(t.fg, t.current_primary, t.bold) /\ Shows(t.bg, t.current_bg, t.bg_bold)
    BY <1>3 DEF ColoursFollow
  <2> QED BY ZenonT(60), <2>1, <2>2, Attire, DressedReversed
<1> QED BY <1>1, <1>2, <1>3, Attire DEF Flags

LEMMA ResetAttributesType ==
  ASSUME NEW t \in State
  PROVE  ResetAttributes(t) \in Tinted(t)
<1>1. ResetAttributes(t) = Dressed(t, DefaultFg, Default, FALSE, FALSE, FALSE, None, None)
  BY ZenonT(60) DEF ResetAttributes, SetReverse, SwapPalette, Dressed, State
<1>2. Shows(DefaultFg, None, FALSE) /\ Shows(Default, None, FALSE) /\ FALSE \in Flags
  BY DEF Shows, Flags
<1>3. Dressed(t, DefaultFg, Default, FALSE, FALSE, FALSE, None, None) \in Tinted(t)
  BY <1>2, Attire, ColoursAre, DressedPlain
<1> QED BY <1>1, <1>3

\* The text's colour is set to c, the chosen one to n.
LEMMA ForeType ==
  ASSUME NEW t \in State, ColoursFollow(t), NEW n \in Palette, NEW c \in Colours,
         NEW o \in Flags, Shows(c, n, o)
  PROVE  Fore([t EXCEPT !.current_primary = n, !.bold = o], c) \in Tinted(t)
<1> DEFINE u == [t EXCEPT !.current_primary = n, !.bold = o]
<1>1. CASE t.reverse_video = TRUE
  <2>1. Fore(u, c) = Dressed(t, t.fg, c, o, t.bg_bold, TRUE, n, t.current_bg)
    BY <1>1 DEF Fore, Dressed, State
  <2>2. Shows(t.fg, t.current_bg, t.bg_bold)
    BY <1>1 DEF ColoursFollow
  <2>3. Dressed(t, t.fg, c, o, t.bg_bold, TRUE, n, t.current_bg) \in Tinted(t)
    BY <2>2, Attire, DressedReversed
  <2> QED BY <2>1, <2>3
<1>2. CASE t.reverse_video = FALSE
  <2>1. Fore(u, c) = Dressed(t, c, t.bg, o, t.bg_bold, FALSE, n, t.current_bg)
    BY <1>2 DEF Fore, Dressed, State
  <2>2. Shows(t.bg, t.current_bg, t.bg_bold)
    BY <1>2 DEF ColoursFollow
  <2>3. Dressed(t, c, t.bg, o, t.bg_bold, FALSE, n, t.current_bg) \in Tinted(t)
    BY <2>2, Attire, DressedPlain
  <2> QED BY <2>1, <2>3
<1> QED BY <1>1, <1>2, Attire

\* The background's colour is set to c, the chosen one to n.
LEMMA BackType ==
  ASSUME NEW t \in State, ColoursFollow(t), NEW n \in Palette, NEW c \in Colours,
         NEW g \in Flags, Shows(c, n, g)
  PROVE  Back([t EXCEPT !.current_bg = n, !.bg_bold = g], c) \in Tinted(t)
<1> DEFINE u == [t EXCEPT !.current_bg = n, !.bg_bold = g]
<1>1. CASE t.reverse_video = TRUE
  <2>1. Back(u, c) = Dressed(t, c, t.bg, t.bold, g, TRUE, t.current_primary, n)
    BY <1>1 DEF Back, Dressed, State
  <2>2. Shows(t.bg, t.current_primary, t.bold)
    BY <1>1 DEF ColoursFollow
  <2>3. Dressed(t, c, t.bg, t.bold, g, TRUE, t.current_primary, n) \in Tinted(t)
    BY <2>2, Attire, DressedReversed
  <2> QED BY <2>1, <2>3
<1>2. CASE t.reverse_video = FALSE
  <2>1. Back(u, c) = Dressed(t, t.fg, c, t.bold, g, FALSE, t.current_primary, n)
    BY <1>2 DEF Back, Dressed, State
  <2>2. Shows(t.fg, t.current_primary, t.bold)
    BY <1>2 DEF ColoursFollow
  <2>3. Dressed(t, t.fg, c, t.bold, g, FALSE, t.current_primary, n) \in Tinted(t)
    BY <2>2, Attire, DressedPlain
  <2> QED BY <2>1, <2>3
<1> QED BY <1>1, <1>2, Attire

LEMMA ChosenShows ==
  ASSUME NEW n \in Palette, NEW bold \in Flags
  PROVE  /\ Shows(Bright(n), n, bold)
         /\ Shows(IF bold THEN Bright(n) ELSE Normal(n), n, bold)
         /\ \A c \in Colours : Shows(c, None, bold)
BY DEF Shows

LEMMA SetBoldType ==
  ASSUME NEW t \in State, ColoursFollow(t), NEW b \in Flags
  PROVE  SetBold(t, b) \in Tinted(t)
<1> DEFINE n == t.current_primary
           v == [t EXCEPT !.current_primary = n, !.bold = b]
           chosen == IF b THEN Bright(n) ELSE Normal(n)
           c == IF n # None THEN chosen
                ELSE IF t.reverse_video THEN IF b THEN DefaultBgBright ELSE Default
                ELSE IF b THEN DefaultFgBright ELSE DefaultFg
<1>1. n \in Palette /\ n \in Int
  BY Attire DEF Palette
<1>2. c \in Colours
  BY <1>1, ColoursAre
<1>3. Shows(c, n, b)
  <2>1. CASE n = None
    BY <1>1, <1>2, <2>1, ChosenShows
  <2>2. CASE n # None
    BY <1>1, <2>2, ChosenShows
  <2> QED BY <2>1, <2>2
<1>4. SetBold(t, b) = Fore(v, c)
  <2>1. v = [t EXCEPT !.bold = b]
    BY DEF State
  <2>2. CASE n # None
    BY <2>1, <2>2 DEF SetBold
  <2>3. CASE n = None /\ t.reverse_video
    <3>1. v.reverse_video
      BY <2>3 DEF State
    <3> QED BY <2>1, <2>3, <3>1 DEF SetBold, Fore
  <2>4. CASE n = None /\ ~t.reverse_video
    <3>1. ~v.reverse_video
      BY <2>4 DEF State
    <3> QED BY <2>1, <2>4, <3>1 DEF SetBold, Fore
  <2> QED BY <2>2, <2>3, <2>4
<1> HIDE DEF n, c
<1>5. Fore(v, c) \in Tinted(t)
  BY <1>1, <1>2, <1>3, ForeType
<1> QED BY <1>4, <1>5

LEMMA SetBgBoldType ==
  ASSUME NEW t \in State, ColoursFollow(t), NEW b \in Flags
  PROVE  SetBgBold(t, b) \in Tinted(t)
<1> DEFINE n == t.current_bg
           v == [t EXCEPT !.current_bg = n, !.bg_bold = b]
           chosen == IF b THEN Bright(n) ELSE Normal(n)
           c == IF n # None THEN chosen
                ELSE IF t.reverse_video THEN IF b THEN DefaultFgBright ELSE DefaultFg
                ELSE IF b THEN DefaultBgBright ELSE Default
<1>1. n \in Palette /\ n \in Int
  BY Attire DEF Palette
<1>2. c \in Colours
  BY <1>1, ColoursAre
<1>3. Shows(c, n, b)
  <2>1. CASE n = None
    BY <1>1, <1>2, <2>1, ChosenShows
  <2>2. CASE n # None
    BY <1>1, <2>2, ChosenShows
  <2> QED BY <2>1, <2>2
<1>4. SetBgBold(t, b) = Back(v, c)
  <2>1. v = [t EXCEPT !.bg_bold = b]
    BY DEF State
  <2>2. CASE n # None
    BY <2>1, <2>2 DEF SetBgBold
  <2>3. CASE n = None /\ t.reverse_video
    <3>1. v.reverse_video
      BY <2>3 DEF State
    <3> QED BY <2>1, <2>3, <3>1 DEF SetBgBold, Back
  <2>4. CASE n = None /\ ~t.reverse_video
    <3>1. ~v.reverse_video
      BY <2>4 DEF State
    <3> QED BY <2>1, <2>4, <3>1 DEF SetBgBold, Back
  <2> QED BY <2>2, <2>3, <2>4
<1> HIDE DEF n, c
<1>5. Back(v, c) \in Tinted(t)
  BY <1>1, <1>2, <1>3, BackType
<1> QED BY <1>4, <1>5

\* The text's colour alone, bold being left as it is; and the background's.
LEMMA ForeAlone ==
  ASSUME NEW t \in State, ColoursFollow(t), NEW n \in Palette, NEW c \in Colours,
         Shows(c, n, t.bold)
  PROVE  Fore([t EXCEPT !.current_primary = n], c) \in Tinted(t)
<1>1. [t EXCEPT !.current_primary = n] = [t EXCEPT !.current_primary = n, !.bold = t.bold]
  BY DEF State
<1>2. Fore([t EXCEPT !.current_primary = n, !.bold = t.bold], c) \in Tinted(t)
  BY Attire, ForeType
<1> QED BY <1>1, <1>2

LEMMA BackAlone ==
  ASSUME NEW t \in State, ColoursFollow(t), NEW n \in Palette, NEW c \in Colours,
         Shows(c, n, t.bg_bold)
  PROVE  Back([t EXCEPT !.current_bg = n], c) \in Tinted(t)
<1>1. [t EXCEPT !.current_bg = n] = [t EXCEPT !.current_bg = n, !.bg_bold = t.bg_bold]
  BY DEF State
<1>2. Back([t EXCEPT !.current_bg = n, !.bg_bold = t.bg_bold], c) \in Tinted(t)
  BY Attire, BackType
<1> QED BY <1>1, <1>2

LEMMA AttributeType ==
  ASSUME NEW t \in State, ColoursFollow(t), NEW n \in Nat
  PROVE  Attribute(t, n) \in Tinted(t)
<1> DEFINE Within(k) == k \in Palette /\ k \in Int
<1>1. (n = 1) \in Flags /\ (n = 5) \in Flags /\ (n = 7) \in Flags
  BY DEF Flags
<1>2. ASSUME NEW k \in 0 .. 7
      PROVE  /\ k \in Palette /\ Normal(k) \in Colours /\ Bright(k) \in Colours
             /\ Shows(Bright(k), k, t.bold) /\ Shows(Bright(k), k, t.bg_bold)
             /\ Shows(IF t.bold THEN Bright(k) ELSE Normal(k), k, t.bold)
             /\ Shows(IF t.bg_bold THEN Bright(k) ELSE Normal(k), k, t.bg_bold)
  <2>1. k \in Palette /\ k \in Int
    BY DEF Palette
  <2> QED BY <2>1, Attire, ColoursAre, ChosenShows
<1>3. ASSUME NEW k \in 0 .. 7
      PROVE  /\ SetPrimary(t, k) \in Tinted(t) /\ SetBg(t, k) \in Tinted(t)
             /\ Fore([t EXCEPT !.current_primary = k], Bright(k)) \in Tinted(t)
             /\ Back([t EXCEPT !.current_bg = k], Bright(k)) \in Tinted(t)
  <2> DEFINE c == IF t.bold THEN Bright(k) ELSE Normal(k)
             d == IF t.bg_bold THEN Bright(k) ELSE Normal(k)
  <2>1. c \in Colours /\ d \in Colours /\ Shows(c, k, t.bold) /\ Shows(d, k, t.bg_bold)
    BY <1>2
  <2>2. SetPrimary(t, k) = Fore([t EXCEPT !.current_primary = k], c)
    BY DEF SetPrimary
  <2>3. SetBg(t, k) = Back([t EXCEPT !.current_bg = k], d)
    BY DEF SetBg
  <2> HIDE DEF c, d
  <2>4. /\ Fore([t EXCEPT !.current_primary = k], c) \in Tinted(t)
        /\ Fore([t EXCEPT !.current_primary = k], Bright(k)) \in Tinted(t)
    BY <1>2, <2>1, ForeAlone
  <2>5. /\ Back([t EXCEPT !.current_bg = k], d) \in Tinted(t)
        /\ Back([t EXCEPT !.current_bg = k], Bright(k)) \in Tinted(t)
    BY <1>2, <2>1, BackAlone
  <2> QED BY <2>2, <2>3, <2>4, <2>5
<1>4. DefaultPrimary(t) \in Tinted(t)
  <2> DEFINE c == IF t.bold THEN DefaultFgBright ELSE DefaultFg
  <2>1. c \in Colours
    BY ColoursAre
  <2>2. DefaultPrimary(t) = Fore([t EXCEPT !.current_primary = None], c)
    BY DEF DefaultPrimary
  <2> HIDE DEF c
  <2> QED BY <2>1, <2>2, Attire, ChosenShows, ForeAlone
<1>5. DefaultBackground(t) \in Tinted(t)
  <2> DEFINE c == IF t.bg_bold THEN DefaultBgBright ELSE Default
  <2>1. c \in Colours
    BY ColoursAre
  <2>2. DefaultBackground(t) = Back([t EXCEPT !.current_bg = None], c)
    BY DEF DefaultBackground
  <2> HIDE DEF c
  <2> QED BY <2>1, <2>2, Attire, ChosenShows, BackAlone
<1>6. CASE n \in {0, 39, 49}
  BY <1>4, <1>5, <1>6, ResetAttributesType DEF Attribute
<1>7. CASE n \in {1, 22}
  BY <1>1, <1>7, SetBoldType DEF Attribute
<1>8. CASE n \in {5, 25}
  BY <1>1, <1>8, SetBgBoldType DEF Attribute
<1>9. CASE n \in {7, 27}
  BY <1>1, <1>9, SetReverseType DEF Attribute
<1>10. CASE n \in 30 .. 37
  <2>1. n - 30 \in 0 .. 7
    BY <1>10
  <2>2. SetPrimary(t, n - 30) \in Tinted(t)
    BY <1>3, <2>1
  <2> QED BY <1>10, <2>2 DEF Attribute
<1>11. CASE n \in 40 .. 47
  <2>1. n - 40 \in 0 .. 7
    BY <1>11
  <2>2. SetBg(t, n - 40) \in Tinted(t)
    BY <1>3, <2>1
  <2> QED BY <1>11, <2>2 DEF Attribute
<1>12. CASE n \in 90 .. 97
  <2>1. n - 90 \in 0 .. 7
    BY <1>12
  <2>2. Fore([t EXCEPT !.current_primary = n - 90], Bright(n - 90)) \in Tinted(t)
    BY <1>3, <2>1
  <2> QED BY <1>12, <2>2 DEF Attribute
<1>13. CASE n \in 100 .. 107
  <2>1. n - 100 \in 0 .. 7
    BY <1>13
  <2>2. Back([t EXCEPT !.current_bg = n - 100], Bright(n - 100)) \in Tinted(t)
    BY <1>3, <2>1
  <2> QED BY <1>13, <2>2 DEF Attribute
<1>14. CASE n \notin {0, 1, 5, 7, 22, 25, 27, 39, 49} /\ n \notin 30 .. 37 /\ n \notin 40 .. 47
            /\ n \notin 90 .. 97 /\ n \notin 100 .. 107
  <2>1. Attribute(t, n) = t
    BY <1>14 DEF Attribute
  <2> QED BY <2>1, TintedSelf
<1> QED BY <1>6, <1>7, <1>8, <1>9, <1>10, <1>11, <1>12, <1>13, <1>14

\* A direct colour on one side.
LEMMA DirectSide ==
  ASSUME NEW t \in State, ColoursFollow(t), NEW c \in Colours, c[1] \in {"rgb", "indexed"}
  PROVE  [t EXCEPT !.fg = c] \in Tinted(t) /\ [t EXCEPT !.bg = c] \in Tinted(t)
<1>1. \A n, b : Shows(c, n, b)
  BY DEF Shows
<1> DEFINE D(f, b, r) == Dressed(t, f, b, t.bold, t.bg_bold, r, t.current_primary, t.current_bg)
<1>2. CASE t.reverse_video = TRUE
  <2>1. [t EXCEPT !.fg = c] = D(c, t.bg, TRUE) /\ [t EXCEPT !.bg = c] = D(t.fg, c, TRUE)
    BY <1>2 DEF Dressed, State
  <2>2. Shows(t.bg, t.current_primary, t.bold) /\ Shows(t.fg, t.current_bg, t.bg_bold)
    BY <1>2 DEF ColoursFollow
  <2>3. D(c, t.bg, TRUE) \in Tinted(t) /\ D(t.fg, c, TRUE) \in Tinted(t)
    BY <1>1, <2>2, Attire, DressedReversed
  <2> QED BY <2>1, <2>3
<1>3. CASE t.reverse_video = FALSE
  <2>1. [t EXCEPT !.fg = c] = D(c, t.bg, FALSE) /\ [t EXCEPT !.bg = c] = D(t.fg, c, FALSE)
    BY <1>3 DEF Dressed, State
  <2>2. Shows(t.fg, t.current_primary, t.bold) /\ Shows(t.bg, t.current_bg, t.bg_bold)
    BY <1>3 DEF ColoursFollow
  <2>3. D(c, t.bg, FALSE) \in Tinted(t) /\ D(t.fg, c, FALSE) \in Tinted(t)
    BY <1>1, <2>2, Attire, DressedPlain
  <2> QED BY <2>1, <2>3
<1> QED BY <1>2, <1>3, Attire DEF Flags

\* What sgr has made of t, and the values to skip.
Rendered(t) == [t : Tinted(t), skip : Nat]

LEMMA ValuesAre ==
  ASSUME NEW t \in State, NEW i \in 0 .. (MaxValues - 1)
  PROVE  t.esc_values[i] \in Nat
BY DEF State, Values

LEMMA ValueCountIs ==
  ASSUME NEW t \in State
  PROVE  t.esc_values_i \in 0 .. MaxValues /\ MaxValues \in Nat /\ MaxValues >= 2
BY FlantermAssumption DEF State, ValueCounts

LEMMA DirectColourType ==
  ASSUME NEW t \in State, ColoursFollow(t), NEW i \in 0 .. (t.esc_values_i - 1)
  PROVE  DirectColour(t, i) \in Rendered(t)
<1> DEFINE v == t.esc_values
           left == t.esc_values_i - 1 - i
           Set(col) == IF v[i] = 38 THEN [t EXCEPT !.fg = col] ELSE [t EXCEPT !.bg = col]
           Of256(n) == IF n < 16 THEN Indexed(n) ELSE Rgb(n)
<1>1. t.esc_values_i \in 0 .. MaxValues /\ MaxValues \in Nat
  BY ValueCountIs
<1>2. ASSUME NEW u \in Tinted(t), NEW k \in Nat PROVE [t |-> u, skip |-> k] \in Rendered(t)
  BY DEF Rendered
<1>3. ASSUME NEW c \in Colours, c[1] \in {"rgb", "indexed"} PROVE Set(c) \in Tinted(t)
  BY <1>3, DirectSide
<1>4. left \in Nat
  BY <1>1
<1>5. left >= 4 => Set(Rgb(v[i + 2] * 65536 + v[i + 3] * 256 + v[i + 4])) \in Tinted(t)
  <2> SUFFICES ASSUME left >= 4 PROVE Set(Rgb(v[i + 2] * 65536 + v[i + 3] * 256 + v[i + 4])) \in Tinted(t)
    OBVIOUS
  <2>1. i + 2 \in 0 .. (MaxValues - 1) /\ i + 3 \in 0 .. (MaxValues - 1) /\ i + 4 \in 0 .. (MaxValues - 1)
    BY <1>1
  <2>2. v[i + 2] \in Nat /\ v[i + 3] \in Nat /\ v[i + 4] \in Nat
    BY <2>1, ValuesAre
  <2> DEFINE k == v[i + 2] * 65536 + v[i + 3] * 256 + v[i + 4]
  <2>3. k \in Int
    BY <2>2
  <2> HIDE DEF k
  <2>4. Rgb(k) \in Colours /\ Rgb(k)[1] \in {"rgb", "indexed"}
    BY <2>3, ColoursAre
  <2>5. Set(Rgb(k)) \in Tinted(t)
    BY <1>3, <2>4
  <2> QED BY <2>5 DEF k
<1>6. left >= 2 => Set(Of256(v[i + 2])) \in Tinted(t)
  <2> SUFFICES ASSUME left >= 2 PROVE Set(Of256(v[i + 2])) \in Tinted(t)
    OBVIOUS
  <2>1. i + 2 \in 0 .. (MaxValues - 1)
    BY <1>1
  <2> DEFINE k == v[i + 2]
  <2>2. k \in Int
    BY <2>1, ValuesAre
  <2> HIDE DEF k
  <2>3. Of256(k) \in Colours /\ Of256(k)[1] \in {"rgb", "indexed"}
    BY <2>2, ColoursAre
  <2>4. Set(Of256(k)) \in Tinted(t)
    BY <1>3, <2>3
  <2> QED BY <2>4 DEF k
<1>7. t \in Tinted(t) /\ 1 \in Nat /\ 2 \in Nat /\ 4 \in Nat
  BY TintedSelf
<1>8. CASE left = 0
  <2>1. DirectColour(t, i) = [t |-> t, skip |-> MaxValues]
    BY <1>8 DEF DirectColour
  <2> QED BY <1>1, <1>2, <1>7, <2>1
<1>9. CASE left > 0 /\ v[i + 1] = 2
  <2>1. DirectColour(t, i) =
          IF left < 4 THEN [t |-> t, skip |-> MaxValues]
          ELSE [t |-> Set(Rgb(v[i + 2] * 65536 + v[i + 3] * 256 + v[i + 4])), skip |-> 4]
    BY <1>4, <1>9 DEF DirectColour
  <2> HIDE DEF left, Set
  <2> QED BY <1>1, <1>2, <1>4, <1>5, <1>7, <2>1
<1>10. CASE left > 0 /\ v[i + 1] = 5
  <2>1. DirectColour(t, i) =
          IF left < 2 THEN [t |-> t, skip |-> MaxValues]
          ELSE [t |-> Set(Of256(v[i + 2])), skip |-> 2]
    BY <1>4, <1>10 DEF DirectColour
  <2> HIDE DEF left, Set, Of256
  <2> QED BY <1>1, <1>2, <1>4, <1>6, <1>7, <2>1
<1>11. CASE left > 0 /\ v[i + 1] \notin {2, 5}
  <2>1. DirectColour(t, i) = [t |-> t, skip |-> 1]
    BY <1>4, <1>11 DEF DirectColour
  <2> QED BY <1>2, <1>7, <2>1
<1> QED BY <1>4, <1>8, <1>9, <1>10, <1>11

\* One value of sgr.
SgrValue(t, acc, i) ==
  IF acc.skip > 0 THEN [acc EXCEPT !.skip = @ - 1]
  ELSE IF t.esc_values[i] \in {38, 48} THEN DirectColour(acc.t, i)
  ELSE [acc EXCEPT !.t = Attribute(@, t.esc_values[i])]

LEMMA SgrValueType ==
  ASSUME NEW t \in State, NEW acc \in Rendered(t), NEW i \in 0 .. (t.esc_values_i - 1)
  PROVE  SgrValue(t, acc, i) \in Rendered(t)
<1>1. acc = [t |-> acc.t, skip |-> acc.skip] /\ acc.t \in Tinted(t) /\ acc.skip \in Nat
  BY DEF Rendered
<1>2. /\ acc.t \in State /\ ColoursFollow(acc.t)
      /\ acc.t.esc_values = t.esc_values /\ acc.t.esc_values_i = t.esc_values_i
  BY <1>1 DEF Tinted, AlikeUndressed
<1>3. t.esc_values[i] \in Nat
  <2>1. i \in 0 .. (MaxValues - 1)
    BY ValueCountIs
  <2> QED BY <2>1, ValuesAre
<1>4. CASE acc.skip > 0
  <2>1. SgrValue(t, acc, i) = [t |-> acc.t, skip |-> acc.skip - 1]
    BY <1>1, <1>4 DEF SgrValue
  <2>2. acc.skip - 1 \in Nat
    BY <1>1, <1>4
  <2> QED BY <1>1, <2>1, <2>2 DEF Rendered
<1>5. CASE ~(acc.skip > 0) /\ t.esc_values[i] \in {38, 48}
  <2>1. DirectColour(acc.t, i) \in Rendered(acc.t)
    BY <1>2, DirectColourType
  <2>2. PICK w \in Tinted(acc.t), k \in Nat : DirectColour(acc.t, i) = [t |-> w, skip |-> k]
    BY <2>1 DEF Rendered
  <2>3. w \in Tinted(t)
    BY <1>1, TintedAgain
  <2> QED BY <1>5, <2>2, <2>3 DEF SgrValue, Rendered
<1>6. CASE ~(acc.skip > 0) /\ t.esc_values[i] \notin {38, 48}
  <2> DEFINE w == Attribute(acc.t, t.esc_values[i])
  <2>1. w \in Tinted(acc.t)
    BY <1>2, <1>3, AttributeType
  <2>2. SgrValue(t, acc, i) = [t |-> w, skip |-> acc.skip]
    BY <1>1, <1>6 DEF SgrValue
  <2> HIDE DEF w
  <2>3. w \in Tinted(t)
    BY <1>1, <2>1, TintedAgain
  <2> QED BY <1>1, <2>2, <2>3 DEF Rendered
<1> QED BY <1>4, <1>5, <1>6


\* All of them.
LEMMA SgrRun ==
  ASSUME NEW t \in State, ColoursFollow(t), NEW n \in Nat, n = t.esc_values_i, n # 0
  PROVE  \E g \in [0 .. n -> Rendered(t)] :
           /\ g[0] = [t |-> t, skip |-> 0] /\ sgr(t) = g[n].t
           /\ \A k \in 1 .. n : g[k] = SgrValue(t, g[k - 1], k - 1)
<1> DEFINE V == Rendered(t)
           Op(u, i) == SgrValue(t, u, i)
           q == [j \in 1 .. n |-> j - 1]
           step == [p \in V \X (1 .. n) |-> Op(p[1], q[p[2]])]
           Loop(F) == F = [s \in SUBSET (DOMAIN q) |->
                       IF s = {} THEN [t |-> t, skip |-> 0] ELSE Op(F[s \ {Max(s)}], q[Max(s)])]
           F == CHOOSE F : Loop(F)
<1>1. sgr(t) = F[DOMAIN q].t
  BY DEF FoldLeft, MapThenFoldSet, sgr, SgrValue
<1>2. [t |-> t, skip |-> 0] \in V /\ \A u \in V, k \in 1 .. n : Op(u, q[k]) \in V
  <2>1. ASSUME NEW u \in V, NEW k \in 1 .. n
        PROVE SgrValue(t, u, q[k]) \in V
    <3>1. q[k] \in 0 .. (t.esc_values_i - 1)
      OBVIOUS
    <3> HIDE DEF q
    <3> QED BY <3>1, SgrValueType
  <2> HIDE DEF q
  <2>2. [t |-> t, skip |-> 0] \in V
    BY TintedSelf DEF Rendered
  <2> QED BY <2>1, <2>2
<1> HIDE DEF V, Op
<1>3. step \in [V \X (1 .. n) -> V] /\ \A u \in V, k \in 1 .. n : step[<<u, k>>] = Op(u, q[k])
  BY <1>2
<1>4. DOMAIN q = 1 .. n
  BY DEF q
<1> HIDE DEF q, step
<1>5. PICK f \in [SUBSET (1 .. n) -> V], g \in [0 .. n -> V] :
        /\ Recurs(f, n, [t |-> t, skip |-> 0], step) /\ g[0] = [t |-> t, skip |-> 0]
        /\ \A k \in 1 .. n : g[k] = step[<<g[k - 1], k>>]
        /\ \A G : Follows(G, n, V, [t |-> t, skip |-> 0], step) => G[1 .. n] = g[n]
  <2>1. Stepwise(n, V, [t |-> t, skip |-> 0], step)
    BY <1>2, <1>3, FoldRun
  <2> QED BY <2>1 DEF Stepwise
<1>6. \A s \in SUBSET (1 .. n) : s # {} => Max(s) \in 1 .. n
  BY LargestOf
<1>7. Loop(F)
  <2>1. Loop(f)
    <3>1. \A s \in SUBSET (1 .. n) : s # {} => f[s \ {Max(s)}] \in V
      BY <1>5
    <3>2. \A s \in SUBSET (1 .. n) :
            (IF s = {} THEN [t |-> t, skip |-> 0] ELSE step[<<f[s \ {Max(s)}], Max(s)>>])
              = (IF s = {} THEN [t |-> t, skip |-> 0] ELSE Op(f[s \ {Max(s)}], q[Max(s)]))
      BY <1>3, <1>6, <3>1
    <3> QED BY <1>4, <1>5, <3>2 DEF Recurs
  <2> HIDE DEF Loop
  <2> QED BY <2>1
<1> HIDE DEF F
<1>8. Follows(F, n, V, [t |-> t, skip |-> 0], step)
  BY <1>3, <1>4, <1>6, <1>7 DEF Follows
<1>9. sgr(t) = g[n].t
  BY <1>1, <1>4, <1>5, <1>8
<1>10. \A k \in 1 .. n : g[k] = Op(g[k - 1], q[k])
  <2>1. \A k \in 1 .. n : g[k - 1] \in V
    BY <1>5
  <2> QED BY <1>3, <1>5, <2>1
<1> QED BY <1>5, <1>9, <1>10 DEF V, Op, q

LEMMA SgrType ==
  ASSUME NEW t \in State, ColoursFollow(t)
  PROVE  sgr(t) \in Tinted(t)
<1>1. CASE t.esc_values_i = 0
  BY <1>1, ResetAttributesType DEF sgr
<1>2. CASE t.esc_values_i # 0
  <2>1. PICK n \in Nat : n = t.esc_values_i
    BY ValueCountIs
  <2>2. PICK g \in [0 .. n -> Rendered(t)] : sgr(t) = g[n].t
    BY <1>2, <2>1, SgrRun
  <2>3. g[n] \in Rendered(t)
    OBVIOUS
  <2> QED BY <2>2, <2>3 DEF Rendered
<1> QED BY <1>1, <1>2

-----------------------------------------------------------------------------
(* Control sequences. *)

\* A scroll region of two lines at least, or the whole screen.
Region(t) == t.top + 1 < t.bottom \/ (t.top = 0 /\ t.bottom = Rows)

Steady(t) == t \in State /\ t.x <= Cols /\ Region(t) /\ ColoursFollow(t)

\* What no control sequence changes while it is executed.
AlikeParsed(t, u) ==
  /\ u.saved = t.saved /\ u.attributes = t.attributes /\ u.scroll = t.scroll
  /\ u.control_sequence = t.control_sequence /\ u.csi = t.csi /\ u.escape = t.escape
  /\ u.osc = t.osc /\ u.osc_escape = t.osc_escape /\ u.rrr = t.rrr
  /\ u.discard_next = t.discard_next /\ u.unicode_remaining = t.unicode_remaining
  /\ u.code_point = t.code_point /\ u.esc_values_i = t.esc_values_i

Executed(t) == {u \in State : Steady(u) /\ AlikeParsed(t, u)}

LEMMA PlacedIsExecuted ==
  ASSUME NEW t \in State, Steady(t), NEW u \in Placed(t)
  PROVE  u \in Executed(t)
<1>1. u \in Drawn(t) /\ u.x <= Cols /\ u \in State
  BY DrawnFacts DEF Placed
<1>2. Alike(t, u)
  BY <1>1, DrawnIsAlike
<1>3. Region(u) /\ ColoursFollow(u)
  BY <1>2 DEF Steady, Alike, Region, ColoursFollow
<1>4. AlikeParsed(t, u)
  BY <1>2 DEF Alike, AlikeParsed
<1> QED BY <1>1, <1>3, <1>4 DEF Executed, Steady

LEMMA TintedIsExecuted ==
  ASSUME NEW t \in State, Steady(t), NEW u \in Tinted(t)
  PROVE  u \in Executed(t)
<1>1. u \in State /\ AlikeUndressed(t, u) /\ ColoursFollow(u)
  BY DEF Tinted
<1>2. u.x <= Cols /\ Region(u) /\ AlikeParsed(t, u)
  BY <1>1 DEF Steady, AlikeUndressed, Region, AlikeParsed
<1> QED BY <1>1, <1>2 DEF Executed, Steady

LEMMA ExecutedSelf ==
  ASSUME NEW t \in State, Steady(t)
  PROVE  t \in Executed(t)
BY DEF Executed, AlikeParsed

\* A setting that has nothing to do with the above.
LEMMA SettingIsExecuted ==
  ASSUME NEW t \in State, Steady(t), NEW b \in Flags, NEW p \in Positions
  PROVE  /\ [t EXCEPT !.insert_mode = b] \in Executed(t)
         /\ [t EXCEPT !.saved_cursor = p] \in Executed(t)
<1> DEFINE u == [t EXCEPT !.insert_mode = b]
           w == [t EXCEPT !.saved_cursor = p]
<1>1. u \in State /\ w \in State
  BY DEF State, Flags
<1>3. /\ u.x = t.x /\ u.top = t.top /\ u.bottom = t.bottom /\ AlikeParsed(t, u)
      /\ u.fg = t.fg /\ u.bg = t.bg /\ u.reverse_video = t.reverse_video /\ u.bold = t.bold
      /\ u.bg_bold = t.bg_bold /\ u.current_primary = t.current_primary
      /\ u.current_bg = t.current_bg
  BY DEF State, AlikeParsed
<1>4. /\ w.x = t.x /\ w.top = t.top /\ w.bottom = t.bottom /\ AlikeParsed(t, w)
      /\ w.fg = t.fg /\ w.bg = t.bg /\ w.reverse_video = t.reverse_video /\ w.bold = t.bold
      /\ w.bg_bold = t.bg_bold /\ w.current_primary = t.current_primary
      /\ w.current_bg = t.current_bg
  BY DEF State, AlikeParsed
<1> HIDE DEF u, w
<1>5. Steady(u)
  BY <1>1, <1>3 DEF Steady, Region, ColoursFollow
<1>6. Steady(w)
  BY <1>1, <1>4 DEF Steady, Region, ColoursFollow
<1>7. u \in Executed(t) /\ w \in Executed(t)
  BY <1>1, <1>3, <1>4, <1>5, <1>6 DEF Executed
<1> QED BY <1>7 DEF u, w

LEMMA SetMarginsType ==
  ASSUME NEW t \in State, Steady(t), NEW n \in Nat, NEW m \in Nat
  PROVE  SetMargins(t, n, m) \in Executed(t)
<1> DEFINE top == IF t.esc_values_i > 0 /\ n # 0 THEN n - 1 ELSE 0
           bottom == IF t.esc_values_i > 1 THEN IF m = 0 THEN 1 ELSE m ELSE Rows
           ok == top < Rows /\ bottom <= Rows /\ top < bottom - 1
           a == IF ok THEN top ELSE 0
           b == IF ok THEN bottom ELSE Rows
           u == [t EXCEPT !.top = a, !.bottom = b]
           w == SetCursorPos(u, 0, 0)
<1>1. top \in Nat /\ bottom \in Nat
  BY Sizes
<1>2. a \in Tops /\ b \in Bottoms /\ (a + 1 < b \/ (a = 0 /\ b = Rows))
  <2> HIDE DEF top, bottom
  <2>1. CASE ok
    BY <1>1, <2>1, Sizes DEF Tops, Bottoms
  <2>2. CASE ~ok
    BY <2>2, Sizes DEF Tops, Bottoms
  <2> QED BY <2>1, <2>2
<1>3. SetMargins(t, n, m) = w
  BY DEF SetMargins
<1> HIDE DEF a, b
<1>4. u \in State
  BY ZenonT(60), <1>2 DEF State
<1>5. /\ u.x = t.x /\ u.top = a /\ u.bottom = b /\ AlikeParsed(t, u)
      /\ u.fg = t.fg /\ u.bg = t.bg /\ u.reverse_video = t.reverse_video /\ u.bold = t.bold
      /\ u.bg_bold = t.bg_bold /\ u.current_primary = t.current_primary
      /\ u.current_bg = t.current_bg
  BY DEF State, AlikeParsed
<1> HIDE DEF u
<1>6. Steady(u)
  BY <1>2, <1>4, <1>5 DEF Steady, Region, ColoursFollow
<1>7. w \in Placed(u)
  <2>1. 0 \in Int
    OBVIOUS
  <2> QED BY <1>4, <2>1, DrawnSelf, PlacedThere
<1>8. w \in Executed(u)
  BY <1>4, <1>6, <1>7, PlacedIsExecuted
<1> HIDE DEF w
<1>9. w \in Executed(t)
  BY <1>5, <1>8 DEF Executed, AlikeParsed
<1> QED BY <1>3, <1>9

LEMMA CursorUpType ==
  ASSUME NEW t \in State, NEW x \in Int, NEW y \in Nat, NEW n \in Nat
  PROVE  CursorUp(t, x, y, n) \in Placed(t) /\ CursorDown(t, x, y, n) \in Placed(t)
<1> DEFINE up == IF n > y THEN 0 ELSE y - n
           down == IF y + n > Rows - 1 THEN Rows - 1 ELSE y + n
           a == IF (t.top \in up .. y \/ t.bottom \in up .. y) /\ up < t.top THEN t.top ELSE up
           b == IF (t.top \in y .. down \/ t.bottom \in y .. down) /\ down >= t.bottom
                THEN t.bottom - 1 ELSE down
<1>1. t.top \in Int /\ t.bottom \in Int
  BY Sizes DEF State, Tops, Bottoms
<1>2. up \in Int /\ down \in Int
  BY Sizes
<1>3. a \in Int /\ b \in Int
  <2> HIDE DEF up, down
  <2> QED BY <1>1, <1>2
<1>4. CursorUp(t, x, y, n) = SetCursorPos(t, x, a)
  BY DEF CursorUp
<1>5. CursorDown(t, x, y, n) = SetCursorPos(t, x, b)
  BY DEF CursorDown
<1> HIDE DEF a, b
<1> QED BY <1>3, <1>4, <1>5, DrawnSelf, PlacedThere

LEMMA ExecuteType ==
  ASSUME NEW t \in State, Steady(t), NEW c
  PROVE  Execute(t, c) \in Executed(t)
<1> DEFINE x == PosX(t)
           y == PosY(t)
           n == t.esc_values[0]
           m == t.esc_values[1]
<1>1. /\ x \in 0 .. (Cols - 1) /\ y \in 0 .. (Rows - 1) /\ x \in Int /\ y \in Int /\ y \in Nat
      /\ 0 \in Int
  BY PositionFacts
<1>2. n \in Nat /\ m \in Nat /\ n \in Int
  <2>1. 0 \in 0 .. (MaxValues - 1) /\ 1 \in 0 .. (MaxValues - 1)
    BY ValueCountIs
  <2> QED BY <2>1, ValuesAre
<1>3. t.x <= Cols /\ ColoursFollow(t)
  BY DEF Steady
<1> HIDE DEF x, y, n, m
<1>4. \A a, b \in Int : SetCursorPos(t, a, b) \in Executed(t)
  <2>1. \A a, b \in Int : SetCursorPos(t, a, b) \in Placed(t)
    BY DrawnSelf, PlacedThere
  <2> QED BY <2>1, PlacedIsExecuted
<1>5. /\ CursorUp(t, 0, y, n) \in Executed(t) /\ CursorUp(t, x, y, n) \in Executed(t)
      /\ CursorDown(t, 0, y, n) \in Executed(t) /\ CursorDown(t, x, y, n) \in Executed(t)
  BY <1>1, <1>2, CursorUpType, PlacedIsExecuted
<1>6. /\ SetCursorPos(t, x + n, y) \in Executed(t)
      /\ SetCursorPos(t, x - n, y) \in Executed(t)
  <2>1. x + n \in Int /\ x - n \in Int
    BY <1>1, <1>2
  <2> QED BY <1>1, <1>4, <2>1
<1>7. /\ SetCursorPos(t, x, FromOne(n, Rows)) \in Executed(t)
      /\ SetCursorPos(t, FromOne(n, Cols), y) \in Executed(t)
  <2>1. FromOne(n, Rows) \in Int /\ FromOne(n, Cols) \in Int
    BY <1>2, Sizes DEF FromOne
  <2> QED BY <1>1, <1>4, <2>1
<1>8. CursorPosition(t, n, m) \in Executed(t)
  <2>1. (IF m = 0 THEN 0 ELSE m - 1) \in Int /\ (IF n = 0 THEN 0 ELSE n - 1) \in Int
    BY <1>2
  <2> QED BY <1>4, <2>1 DEF CursorPosition
<1>9. Scrolls(t, n) \in Executed(t) /\ InsertLines(t, y, n) \in Executed(t)
  <2>1. /\ Scrolls(t, n) \in Drawn(t) /\ Scrolls(t, n).x = t.x
        /\ InsertLines(t, y, n) \in Drawn(t) /\ InsertLines(t, y, n).x = t.x
    BY <1>1, <1>2, ScrollsFacts, InsertLinesFacts
  <2>2. Scrolls(t, n) \in Placed(t) /\ InsertLines(t, y, n) \in Placed(t)
    BY <1>3, <2>1 DEF Placed
  <2> QED BY <2>2, PlacedIsExecuted
<1>10. EraseInDisplay(t, x, y, n) \in Executed(t) /\ EraseInLine(t, x, y, n) \in Executed(t)
  <2>1. EraseInDisplay(t, x, y, n) \in Placed(t)
    BY <1>1, <1>2, <1>3, EraseInDisplayType
  <2>2. EraseInLine(t, x, y, n) \in Placed(t)
    BY <1>1, <1>2, <1>3, EraseInLineType
  <2> QED BY <2>1, <2>2, PlacedIsExecuted
<1>11. /\ InsertCharacters(t, x, y, n) \in Executed(t)
       /\ DeleteCharacters(t, x, y, n) \in Executed(t)
       /\ EraseCharacters(t, x, y, n) \in Executed(t)
  <2>1. InsertCharacters(t, x, y, n) \in Placed(t)
    BY <1>1, <1>2, InsertCharactersType
  <2>2. DeleteCharacters(t, x, y, n) \in Placed(t)
    BY <1>1, <1>2, DeleteCharactersType
  <2>3. EraseCharacters(t, x, y, n) \in Placed(t)
    BY <1>1, <1>2, DrawnSelf, EraseCharactersType
  <2> QED BY <2>1, <2>2, <2>3, PlacedIsExecuted
<1>12. sgr(t) \in Executed(t)
  BY <1>3, SgrType, TintedIsExecuted
<1>13. [t EXCEPT !.saved_cursor = <<x, y>>] \in Executed(t)
  <2>1. <<x, y>> \in Positions /\ FALSE \in Flags
    BY <1>1 DEF Positions, Flags
  <2> QED BY <2>1, SettingIsExecuted
<1>14. SetCursorPos(t, t.saved_cursor[1], t.saved_cursor[2]) \in Executed(t)
  <2>1. t.saved_cursor[1] \in Int /\ t.saved_cursor[2] \in Int
    BY Sizes DEF State, Positions
  <2> QED BY <1>4, <2>1
<1>15. SetMargins(t, n, m) \in Executed(t)
  BY <1>2, SetMarginsType
<1>16. mode_toggle(t, c) \in Executed(t)
  <2>1. (c = "h") \in Flags /\ <<0, 0>> \in Positions
    BY Sizes DEF Flags, Positions
  <2>2. [t EXCEPT !.insert_mode = (c = "h")] \in Executed(t)
    BY <2>1, SettingIsExecuted
  <2> QED BY <2>2, ExecutedSelf DEF mode_toggle
<1>17. t \in Executed(t)
  BY ExecutedSelf
<1> QED
  <2>1. CASE c \in {"A", "F", "B", "e", "E"}
    BY <1>5, <2>1 DEF Execute, x, y, n
  <2>2. CASE c \in {"a", "C", "D", "d", "G", "backquote", "H", "f"}
    BY <1>6, <1>7, <1>8, <2>2 DEF Execute, x, y, n, m
  <2>3. CASE c \in {"M", "L", "J", "K"}
    BY <1>9, <1>10, <2>3 DEF Execute, x, y, n
  <2>4. CASE c \in {"@", "P", "X", "m"}
    BY <1>11, <1>12, <2>4 DEF Execute, x, y, n
  <2>5. CASE c \in {"s", "u", "r", "h", "l"}
    BY <1>13, <1>14, <1>15, <1>16, <2>5 DEF Execute, x, y, n, m
  <2>6. CASE c \notin {"A", "F", "B", "e", "E", "a", "C", "D", "d", "G", "backquote", "H", "f",
                      "M", "L", "J", "K", "@", "P", "X", "m", "s", "u", "r", "h", "l"}
    BY <1>17, <2>6 DEF Execute
  <2> QED BY <2>1, <2>2, <2>3, <2>4, <2>5, <2>6
-----------------------------------------------------------------------------
(* The parser. *)

\* Between bytes: one sequence at a time, room for the value being read, and a
\* code point as long as its bytes are awaited.
Reading(t) ==
  /\ t.rrr => t.esc_values_i < MaxValues
  /\ t.osc \/ t.control_sequence \/ t.csi => t.escape
  /\ ~ (t.osc /\ t.control_sequence) /\ ~ (t.csi /\ t.control_sequence) /\ ~ (t.osc /\ t.csi)
  /\ t.osc_escape => t.osc
  /\ t.discard_next => ~ t.escape
  /\ t.unicode_remaining > 0 => t.code_point \in Points

\* The saved colours follow the saved attributes.
SavedFollow(t) ==
  LET a == t.attributes
  IN  /\ Shows(IF a[3] THEN t.saved.bg ELSE t.saved.fg, a[5], a[1])
      /\ Shows(IF a[3] THEN t.saved.fg ELSE t.saved.bg, a[6], a[2])

Sound(t) == Steady(t) /\ t.scroll /\ SavedFollow(t) /\ Reading(t)

\* What reading leaves alone.
AlikeText(t, u) ==
  /\ u.x = t.x /\ u.top = t.top /\ u.bottom = t.bottom /\ u.scroll = t.scroll
  /\ u.fg = t.fg /\ u.bg = t.bg /\ u.reverse_video = t.reverse_video /\ u.bold = t.bold
  /\ u.bg_bold = t.bg_bold /\ u.current_primary = t.current_primary
  /\ u.current_bg = t.current_bg /\ u.saved = t.saved /\ u.attributes = t.attributes

LEMMA ReadOn ==
  ASSUME NEW t \in State, Sound(t), NEW u \in State, AlikeText(t, u), Reading(u)
  PROVE  Sound(u)
<1>1. Region(u) /\ ColoursFollow(u)
  BY DEF Sound, Steady, AlikeText, Region, ColoursFollow
<1>2. u.x <= Cols /\ u.scroll /\ SavedFollow(u)
  BY DEF Sound, Steady, AlikeText, SavedFollow
<1> QED BY <1>1, <1>2 DEF Sound, Steady

LEMMA ExecutedIsSound ==
  ASSUME NEW t \in State, Sound(t), NEW u \in Executed(t)
  PROVE  u \in State /\ Sound(u)
<1>1. Steady(u) /\ AlikeParsed(t, u) /\ u \in State
  BY DEF Executed
<1>2. SavedFollow(u) /\ u.scroll
  BY <1>1 DEF Sound, AlikeParsed, SavedFollow
<1>3. Reading(u)
  BY <1>1 DEF Sound, AlikeParsed, Reading
<1> QED BY <1>1, <1>2, <1>3 DEF Sound

LEMMA PlacedIsSound ==
  ASSUME NEW t \in State, Sound(t), NEW u \in Placed(t)
  PROVE  u \in State /\ Sound(u)
<1>1. Steady(t)
  BY DEF Sound
<1> QED BY <1>1, PlacedIsExecuted, ExecutedIsSound

LEMMA EndSequenceSound ==
  ASSUME NEW t \in State, Sound(t), ~t.csi, ~t.osc
  PROVE  EndSequence(t) \in State /\ Sound(EndSequence(t)) /\ EndSequence(t).escape = FALSE
<1> DEFINE v == [i \in DOMAIN t.esc_values |-> 0]
           u == EndSequence(t)
<1>1. v \in Values /\ 0 \in ValueCounts /\ 0 \in Offsets
  BY FlantermAssumption DEF State, Values, ValueCounts, Offsets
<1>2. u = [t EXCEPT !.control_sequence = FALSE, !.escape = FALSE, !.esc_values = v,
                    !.esc_values_i = 0, !.escape_offset = 0]
  BY DEF EndSequence, State
<1> HIDE DEF v
<1>3. u \in State
  <2>1. [t EXCEPT !.control_sequence = FALSE, !.escape = FALSE, !.esc_values = v,
                  !.esc_values_i = 0, !.escape_offset = 0] \in State
    BY ZenonT(60), <1>1 DEF State
  <2> QED BY <1>2, <2>1
<1>4. AlikeText(t, u)
  BY <1>2 DEF State, AlikeText
<1>5. /\ u.rrr = t.rrr /\ u.esc_values_i = 0 /\ u.osc = t.osc /\ u.control_sequence = FALSE
      /\ u.csi = t.csi /\ u.escape = FALSE /\ u.osc_escape = t.osc_escape
      /\ u.unicode_remaining = t.unicode_remaining /\ u.code_point = t.code_point
  BY <1>2 DEF State
<1> HIDE DEF u
<1>6. Reading(u)
  BY <1>5, FlantermAssumption DEF Sound, Reading
<1>7. Sound(u)
  BY <1>3, <1>4, <1>6, ReadOn
<1> QED BY <1>3, <1>5, <1>7 DEF u

LEMMA SeparatorSound ==
  ASSUME NEW t \in State, Sound(t)
  PROVE  /\ Separator(t) \in State /\ Sound(Separator(t)) /\ (t.rrr => ~Separator(t).rrr)
         /\ Separator(t).control_sequence = t.control_sequence
         /\ Separator(t).csi = t.csi /\ Separator(t).osc = t.osc
<1> DEFINE u == Separator(t)
           n == t.esc_values_i
<1>1. n \in 0 .. MaxValues /\ MaxValues \in Nat /\ t.esc_values \in [0 .. (MaxValues - 1) -> Nat]
  BY ValueCountIs DEF State, Values
<1>2. CASE t.rrr
  <2>1. n + 1 \in ValueCounts
    BY <1>1, <1>2 DEF Sound, Reading, ValueCounts
  <2>2. u = [t EXCEPT !.esc_values_i = n + 1, !.rrr = FALSE]
    BY <1>2 DEF Separator, State
  <2>3. u \in State
    <3>1. [t EXCEPT !.esc_values_i = n + 1, !.rrr = FALSE] \in State
      BY ZenonT(60), <2>1 DEF State
    <3> QED BY <2>2, <3>1
  <2>4. AlikeText(t, u)
    BY <2>2 DEF State, AlikeText
  <2>5. /\ u.rrr = FALSE /\ u.osc = t.osc /\ u.control_sequence = t.control_sequence
        /\ u.csi = t.csi /\ u.escape = t.escape /\ u.osc_escape = t.osc_escape
        /\ u.discard_next = t.discard_next
        /\ u.unicode_remaining = t.unicode_remaining /\ u.code_point = t.code_point
    BY <2>2 DEF State
  <2> HIDE DEF u
  <2>6. Reading(u)
    BY <2>5 DEF Sound, Reading
  <2> QED BY <2>3, <2>4, <2>5, <2>6, ReadOn DEF u
<1>3. CASE ~t.rrr /\ n = MaxValues
  BY <1>3 DEF Separator
<1>4. CASE ~t.rrr /\ n # MaxValues
  <2> DEFINE v == [t.esc_values EXCEPT ![n] = 0]
  <2>1. n + 1 \in ValueCounts /\ v \in Values
    BY <1>1, <1>4 DEF ValueCounts, Values
  <2>2. u = [t EXCEPT !.esc_values = v, !.esc_values_i = n + 1]
    BY <1>4 DEF Separator, State
  <2> HIDE DEF v
  <2>3. u \in State
    <3>1. [t EXCEPT !.esc_values = v, !.esc_values_i = n + 1] \in State
      BY ZenonT(60), <2>1 DEF State
    <3> QED BY <2>2, <3>1
  <2>4. AlikeText(t, u)
    BY <2>2 DEF State, AlikeText
  <2>5. /\ u.rrr = t.rrr /\ u.osc = t.osc /\ u.control_sequence = t.control_sequence
        /\ u.csi = t.csi /\ u.escape = t.escape /\ u.osc_escape = t.osc_escape
        /\ u.discard_next = t.discard_next
        /\ u.unicode_remaining = t.unicode_remaining /\ u.code_point = t.code_point
    BY <2>2 DEF State
  <2> HIDE DEF u
  <2>6. Reading(u)
    BY <1>4, <2>5 DEF Sound, Reading
  <2> QED BY <1>4, <2>3, <2>4, <2>5, <2>6, ReadOn DEF u
<1> QED BY <1>2, <1>3, <1>4

LEMMA DigitSound ==
  ASSUME NEW t \in State, Sound(t), NEW c \in ToSet(Digits)
  PROVE  Digit(t, c) \in State /\ Sound(Digit(t, c))
<1> DEFINE u == Digit(t, c)
           n == t.esc_values_i
<1>1. n \in 0 .. MaxValues /\ MaxValues \in Nat /\ t.esc_values \in [0 .. (MaxValues - 1) -> Nat]
  BY ValueCountIs DEF State, Values
<1>2. DigitValue(c) \in Nat
  <2>1. \E i \in 1 .. 10 : Digits[i] = c
    <3>1. DOMAIN Digits = 1 .. 10
      BY DEF Digits
    <3> QED BY <3>1 DEF ToSet
  <2> DEFINE i == CHOOSE k \in 1 .. 10 : Digits[k] = c
  <2>2. i \in 1 .. 10
    BY <2>1
  <2>3. DigitValue(c) = i - 1
    BY DEF DigitValue
  <2> HIDE DEF i
  <2> QED BY <2>2, <2>3
<1>3. CASE n = MaxValues
  BY <1>3 DEF Digit
<1>4. CASE n # MaxValues
  <2> DEFINE k == t.esc_values[n] * 10 + DigitValue(c)
             v == [t.esc_values EXCEPT ![n] = k]
  <2>1. k \in Nat
    <3>1. t.esc_values[n] \in Nat
      BY <1>1, <1>4
    <3> QED BY <1>2, <3>1
  <2>2. u = [t EXCEPT !.esc_values = v, !.rrr = TRUE]
    BY <1>4 DEF Digit, State
  <2> HIDE DEF k
  <2>3. v \in Values
    BY <1>1, <1>4, <2>1 DEF Values
  <2> HIDE DEF v
  <2>4. u \in State
    <3>1. [t EXCEPT !.esc_values = v, !.rrr = TRUE] \in State
      BY ZenonT(60), <2>3 DEF State
    <3> QED BY <2>2, <3>1
  <2>5. AlikeText(t, u)
    BY <2>2 DEF State, AlikeText
  <2>6. /\ u.esc_values_i = n /\ u.osc = t.osc /\ u.control_sequence = t.control_sequence
        /\ u.csi = t.csi /\ u.escape = t.escape /\ u.osc_escape = t.osc_escape
        /\ u.discard_next = t.discard_next
        /\ u.unicode_remaining = t.unicode_remaining /\ u.code_point = t.code_point
    BY <2>2 DEF State
  <2> HIDE DEF u
  <2>7. Reading(u)
    BY <1>1, <1>4, <2>6 DEF Sound, Reading
  <2> QED BY <2>4, <2>5, <2>7, ReadOn DEF u
<1> QED BY <1>3, <1>4

\* The last byte of a sequence.
LEMMA FinalByteSound ==
  ASSUME NEW t \in State, Sound(t), ~t.csi, ~t.osc, NEW c
  PROVE  FinalByte(t, c) \in State /\ Sound(FinalByte(t, c))
<1> DEFINE default == IF c \in {"J", "K", "q"} THEN 0 ELSE 1
           v == [i \in DOMAIN t.esc_values |-> IF i < t.esc_values_i THEN t.esc_values[i] ELSE default]
           u == [t EXCEPT !.esc_values = v]
           d == dec_private_parse(u, c)
           q == [u EXCEPT !.scroll = FALSE]
           e == Execute(q, c)
           z == [e EXCEPT !.scroll = t.scroll]
<1>1. v \in Values
  <2>1. t.esc_values \in [0 .. (MaxValues - 1) -> Nat] /\ default \in Nat
    BY DEF State, Values
  <2> HIDE DEF default
  <2> QED BY <2>1 DEF Values
<1>2. FinalByte(t, c) = EndSequence(IF t.dec_private THEN d ELSE z)
  BY DEF FinalByte, State
<1> HIDE DEF v
<1>3. u \in State
  BY <1>1 DEF State
<1>4. u.csi = FALSE /\ u.osc = FALSE /\ Sound(u)
  <2>1. AlikeText(t, u)
    BY DEF State, AlikeText
  <2>2. /\ u.rrr = t.rrr /\ u.esc_values_i = t.esc_values_i /\ u.osc = t.osc
        /\ u.control_sequence = t.control_sequence
        /\ u.csi = t.csi /\ u.escape = t.escape /\ u.osc_escape = t.osc_escape
        /\ u.discard_next = t.discard_next
        /\ u.unicode_remaining = t.unicode_remaining /\ u.code_point = t.code_point
    BY DEF State
  <2>3. t.csi = FALSE /\ t.osc = FALSE
    BY DEF State
  <2> HIDE DEF u
  <2>4. Reading(u)
    BY <2>2 DEF Sound, Reading
  <2> QED BY <1>3, <2>1, <2>2, <2>3, <2>4, ReadOn
<1> HIDE DEF u
<1>5. d \in State /\ Sound(d) /\ d.csi = FALSE /\ d.osc = FALSE
  <2> DEFINE w == [u EXCEPT !.dec_private = FALSE]
             g == [w EXCEPT !.enabled = (c = "h")]
  <2>1. d \in {w, g}
    BY DEF dec_private_parse
  <2> HIDE DEF d
  <2>2. w \in State /\ g \in State
    <3>1. w \in State
      BY ZenonT(60), <1>3 DEF State
    <3> HIDE DEF w
    <3> QED BY ZenonT(60), <3>1 DEF State
  <2>3. AlikeText(u, w) /\ AlikeText(u, g)
    BY <1>3 DEF State, AlikeText
  <2>4. /\ w.rrr = u.rrr /\ w.esc_values_i = u.esc_values_i /\ w.osc = u.osc
        /\ w.control_sequence = u.control_sequence
        /\ w.csi = u.csi /\ w.escape = u.escape /\ w.osc_escape = u.osc_escape
        /\ w.discard_next = u.discard_next
        /\ w.unicode_remaining = u.unicode_remaining /\ w.code_point = u.code_point
    BY <1>3 DEF State
  <2>5. /\ g.rrr = u.rrr /\ g.esc_values_i = u.esc_values_i /\ g.osc = u.osc
        /\ g.control_sequence = u.control_sequence
        /\ g.csi = u.csi /\ g.escape = u.escape /\ g.osc_escape = u.osc_escape
        /\ g.discard_next = u.discard_next
        /\ g.unicode_remaining = u.unicode_remaining /\ g.code_point = u.code_point
    BY <1>3 DEF State
  <2> HIDE DEF w, g
  <2>6. Reading(w) /\ Reading(g)
    BY <1>4, <2>4, <2>5 DEF Sound, Reading
  <2>7. Sound(w) /\ Sound(g)
    BY <1>3, <1>4, <2>2, <2>3, <2>6, ReadOn
  <2> QED BY <1>4, <2>1, <2>2, <2>4, <2>5, <2>7
<1>6. q \in State /\ Steady(q)
  <2>1. q \in State
    BY ZenonT(60), <1>3 DEF State
  <2>2. /\ q.x = u.x /\ q.top = u.top /\ q.bottom = u.bottom
        /\ q.fg = u.fg /\ q.bg = u.bg /\ q.reverse_video = u.reverse_video /\ q.bold = u.bold
        /\ q.bg_bold = u.bg_bold /\ q.current_primary = u.current_primary
        /\ q.current_bg = u.current_bg
    BY <1>3 DEF State
  <2>3. Region(q) /\ ColoursFollow(q) /\ q.x <= Cols
    <3> HIDE DEF q
    <3> QED BY <1>4, <2>2 DEF Sound, Steady, Region, ColoursFollow
  <2> QED BY <2>1, <2>3 DEF Steady
<1>7. /\ q.saved = u.saved /\ q.attributes = u.attributes
      /\ q.control_sequence = u.control_sequence /\ q.csi = u.csi /\ q.escape = u.escape
      /\ q.osc = u.osc /\ q.osc_escape = u.osc_escape /\ q.rrr = u.rrr
      /\ q.discard_next = u.discard_next /\ q.unicode_remaining = u.unicode_remaining
      /\ q.code_point = u.code_point /\ q.esc_values_i = u.esc_values_i
  BY <1>3 DEF State
<1> HIDE DEF q
<1>8. e \in State /\ Steady(e) /\ AlikeParsed(q, e)
  BY <1>6, ExecuteType DEF Executed
<1> HIDE DEF e
<1>9. t.scroll = TRUE
  BY DEF Sound, State
<1>10. z \in State
  BY <1>8, <1>9 DEF State
<1>11. /\ z.x = e.x /\ z.top = e.top /\ z.bottom = e.bottom /\ z.scroll = TRUE
       /\ z.fg = e.fg /\ z.bg = e.bg /\ z.reverse_video = e.reverse_video /\ z.bold = e.bold
       /\ z.bg_bold = e.bg_bold /\ z.current_primary = e.current_primary
       /\ z.current_bg = e.current_bg
  BY <1>8, <1>9 DEF State
<1>12. /\ z.saved = u.saved /\ z.attributes = u.attributes
       /\ z.control_sequence = u.control_sequence /\ z.csi = u.csi /\ z.escape = u.escape
       /\ z.osc = u.osc /\ z.osc_escape = u.osc_escape /\ z.rrr = u.rrr
       /\ z.discard_next = u.discard_next /\ z.unicode_remaining = u.unicode_remaining
       /\ z.code_point = u.code_point /\ z.esc_values_i = u.esc_values_i
  <2>1. /\ z.saved = e.saved /\ z.attributes = e.attributes
        /\ z.control_sequence = e.control_sequence /\ z.csi = e.csi /\ z.escape = e.escape
        /\ z.osc = e.osc /\ z.osc_escape = e.osc_escape /\ z.rrr = e.rrr
        /\ z.discard_next = e.discard_next /\ z.unicode_remaining = e.unicode_remaining
        /\ z.code_point = e.code_point /\ z.esc_values_i = e.esc_values_i
    BY <1>8 DEF State
  <2> HIDE DEF z
  <2> QED BY <1>7, <1>8, <2>1 DEF AlikeParsed
<1> HIDE DEF z
<1>13. Sound(z)
  <2>1. Steady(z)
    BY <1>8, <1>10, <1>11 DEF Steady, Region, ColoursFollow
  <2>2. SavedFollow(z)
    BY <1>4, <1>12 DEF Sound, SavedFollow
  <2>3. Reading(z)
    BY <1>4, <1>12 DEF Sound, Reading
  <2> QED BY <1>11, <2>1, <2>2, <2>3 DEF Sound
<1> HIDE DEF d
<1>14. EndSequence(d) \in State /\ Sound(EndSequence(d))
  BY <1>5, EndSequenceSound
<1>15. EndSequence(z) \in State /\ Sound(EndSequence(z))
  BY <1>4, <1>10, <1>12, <1>13, EndSequenceSound
<1> QED BY <1>2, <1>14, <1>15

\* What is read of a sequence.
Flagged(t, u) ==
  /\ u.rrr = t.rrr /\ u.esc_values_i = t.esc_values_i /\ u.osc = t.osc
  /\ u.control_sequence = t.control_sequence /\ u.csi = t.csi /\ u.escape = t.escape
  /\ u.osc_escape = t.osc_escape /\ u.discard_next = t.discard_next
  /\ u.unicode_remaining = t.unicode_remaining /\ u.code_point = t.code_point

\* A change to anything else.
LEMMA BesideIt ==
  ASSUME NEW t \in State, Sound(t), NEW u \in State, AlikeText(t, u), Flagged(t, u)
  PROVE  Sound(u)
<1>1. Reading(u)
  BY DEF Sound, Reading, Flagged
<1> QED BY <1>1, ReadOn

LEMMA NoDigits ==
  "[" \notin ToSet(Digits) /\ "?" \notin ToSet(Digits) /\ ";" \notin ToSet(Digits)
<1>1. DOMAIN Digits = 1 .. 10
  BY DEF Digits
<1>2. ASSUME NEW i \in 1 .. 10 PROVE Digits[i] \notin {"[", "?", ";"}
  <2>1. i \in {1, 2, 3, 4, 5, 6, 7, 8, 9, 10}
    OBVIOUS
  <2>2. /\ Digits[1] = "0" /\ Digits[2] = "1" /\ Digits[3] = "2" /\ Digits[4] = "3"
        /\ Digits[5] = "4" /\ Digits[6] = "5" /\ Digits[7] = "6" /\ Digits[8] = "7"
        /\ Digits[9] = "8" /\ Digits[10] = "9"
    BY DEF Digits
  <2> QED BY <2>1, <2>2
<1> QED BY <1>1, <1>2 DEF ToSet

LEMMA ControlSequenceSound ==
  ASSUME NEW t \in State, Sound(t), t.control_sequence, NEW c
  PROVE  control_sequence_parse(t, c) \in State /\ Sound(control_sequence_parse(t, c))
<1>1. ~t.csi /\ ~t.osc
  BY DEF Sound, Reading
<1>2. CASE t.escape_offset = 2 /\ c = "["
  <2> DEFINE e == EndSequence(t)
             u == [e EXCEPT !.discard_next = TRUE]
  <2>1. EndSequence([t EXCEPT !.discard_next = TRUE]) = u
    BY DEF EndSequence, State
  <2>2. e \in State /\ Sound(e) /\ e.escape = FALSE
    BY <1>1, EndSequenceSound
  <2> HIDE DEF e
  <2>3. u \in State /\ AlikeText(e, u)
    BY ZenonT(60), <2>2 DEF State, AlikeText
  <2>4. /\ u.rrr = e.rrr /\ u.esc_values_i = e.esc_values_i /\ u.osc = e.osc
        /\ u.control_sequence = e.control_sequence /\ u.csi = e.csi /\ u.escape = FALSE
        /\ u.osc_escape = e.osc_escape
        /\ u.unicode_remaining = e.unicode_remaining /\ u.code_point = e.code_point
    BY <2>2 DEF State
  <2> HIDE DEF u
  <2>5. Reading(u)
    BY <2>2, <2>4 DEF Sound, Reading
  <2>6. Sound(u)
    BY <2>2, <2>3, <2>5, ReadOn
  <2>7. control_sequence_parse(t, c) = EndSequence([t EXCEPT !.discard_next = TRUE])
    BY <1>2, NoDigits DEF control_sequence_parse
  <2> QED BY <2>1, <2>3, <2>6, <2>7
<1>3. CASE t.escape_offset = 2 /\ c = "?"
  <2> DEFINE u == [t EXCEPT !.dec_private = TRUE]
  <2>1. u \in State /\ AlikeText(t, u) /\ Flagged(t, u)
    BY ZenonT(60) DEF State, AlikeText, Flagged
  <2> HIDE DEF u
  <2>2. Sound(u)
    BY <2>1, BesideIt
  <2>3. control_sequence_parse(t, c) = u
    BY <1>3, NoDigits DEF control_sequence_parse, u
  <2> QED BY <2>1, <2>2, <2>3
<1>4. CASE ~(t.escape_offset = 2 /\ c \in {"[", "?"}) /\ c \in ToSet(Digits)
  <2>1. control_sequence_parse(t, c) = Digit(t, c)
    BY <1>4, NoDigits DEF control_sequence_parse
  <2> QED BY <1>4, <2>1, DigitSound
<1>5. CASE ~(t.escape_offset = 2 /\ c \in {"[", "?"}) /\ c \notin ToSet(Digits) /\ c = ";"
  <2>1. control_sequence_parse(t, c) = Separator(t)
    BY <1>5 DEF control_sequence_parse
  <2> QED BY <2>1, SeparatorSound
<1>6. CASE ~(t.escape_offset = 2 /\ c \in {"[", "?"}) /\ c \notin ToSet(Digits) /\ c # ";"
  <2> DEFINE u == IF t.rrr THEN Separator(t) ELSE t
  <2>1. control_sequence_parse(t, c) = FinalByte(u, c)
    BY <1>6 DEF control_sequence_parse
  <2>2. u \in State /\ Sound(u) /\ ~u.csi /\ ~u.osc
    BY <1>1, SeparatorSound
  <2> HIDE DEF u
  <2> QED BY <2>1, <2>2, FinalByteSound
<1> QED BY <1>2, <1>3, <1>4, <1>5, <1>6

LEMMA OscSound ==
  ASSUME NEW t \in State, Sound(t), t.osc, NEW c
  PROVE  osc_parse(t, c) \in State /\ Sound(osc_parse(t, c))
<1> DEFINE u == [t EXCEPT !.osc_escape = FALSE, !.osc = FALSE, !.escape = FALSE]
           w == [t EXCEPT !.osc_escape = (c = "ESC")]
<1>1. osc_parse(t, c) \in {u, w}
  BY DEF osc_parse
<1>2. u \in State /\ w \in State /\ AlikeText(t, u) /\ AlikeText(t, w)
  <2>1. u \in State
    BY ZenonT(60) DEF State
  <2>2. w \in State
    BY ZenonT(60) DEF State
  <2> QED BY <2>1, <2>2 DEF State, AlikeText
<1>3. /\ u.rrr = t.rrr /\ u.esc_values_i = t.esc_values_i /\ u.osc = FALSE
      /\ u.control_sequence = t.control_sequence /\ u.csi = t.csi /\ u.escape = FALSE
      /\ u.osc_escape = FALSE
      /\ u.unicode_remaining = t.unicode_remaining /\ u.code_point = t.code_point
  BY DEF State
<1>4. /\ w.rrr = t.rrr /\ w.esc_values_i = t.esc_values_i /\ w.osc = t.osc
      /\ w.control_sequence = t.control_sequence /\ w.csi = t.csi /\ w.escape = t.escape
      /\ w.discard_next = t.discard_next
      /\ w.unicode_remaining = t.unicode_remaining /\ w.code_point = t.code_point
  BY DEF State
<1> HIDE DEF u, w
<1>5. Reading(u) /\ Reading(w)
  BY <1>3, <1>4 DEF Sound, Reading
<1>6. Sound(u) /\ Sound(w)
  BY <1>2, <1>5, ReadOn
<1> QED BY <1>1, <1>2, <1>6

\* No sequence is being read but for its first byte.
Unread(t) == ~t.osc /\ ~t.control_sequence /\ ~t.csi

LEMMA IntroducerSound ==
  ASSUME NEW t \in State, Sound(t), t.escape, ~t.osc, ~t.control_sequence
  PROVE  Introducer(t) \in State /\ Sound(Introducer(t))
<1> DEFINE v == [i \in DOMAIN t.esc_values |-> 0]
           u == [t EXCEPT !.csi = FALSE, !.esc_values = v, !.esc_values_i = 0,
                          !.rrr = FALSE, !.control_sequence = TRUE]
<1>1. v \in Values /\ 0 \in ValueCounts
  BY FlantermAssumption DEF State, Values, ValueCounts
<1>2. Introducer(t) = u
  BY DEF Introducer, State
<1> HIDE DEF v
<1>3. u \in State /\ AlikeText(t, u)
  BY ZenonT(60), <1>1 DEF State, AlikeText
<1>4. /\ u.rrr = FALSE /\ u.osc = t.osc /\ u.csi = FALSE /\ u.escape = t.escape
      /\ u.osc_escape = t.osc_escape /\ u.discard_next = t.discard_next
      /\ u.unicode_remaining = t.unicode_remaining /\ u.code_point = t.code_point
  BY DEF State
<1> HIDE DEF u
<1>5. Reading(u)
  BY <1>4 DEF Sound, Reading
<1> QED BY <1>2, <1>3, <1>5, ReadOn

LEMMA DoneSound ==
  ASSUME NEW t \in State, Sound(t), Unread(t)
  PROVE  /\ [t EXCEPT !.escape = FALSE] \in State
         /\ Sound([t EXCEPT !.escape = FALSE])
<1> DEFINE u == [t EXCEPT !.escape = FALSE]
<1>1. u \in State /\ AlikeText(t, u)
  BY ZenonT(60) DEF State, AlikeText
<1>2. /\ u.rrr = t.rrr /\ u.esc_values_i = t.esc_values_i /\ u.osc = t.osc
      /\ u.control_sequence = t.control_sequence /\ u.csi = t.csi /\ u.escape = FALSE
      /\ u.osc_escape = t.osc_escape
      /\ u.unicode_remaining = t.unicode_remaining /\ u.code_point = t.code_point
  BY DEF State
<1> HIDE DEF u
<1>3. Reading(u)
  BY <1>2 DEF Sound, Reading, Unread
<1>4. Sound(u)
  BY <1>1, <1>3, ReadOn
<1> QED BY <1>1, <1>4 DEF u

LEMMA SaveStateSound ==
  ASSUME NEW t \in State, Sound(t)
  PROVE  save_state(t) \in State /\ Sound(save_state(t)) /\ Flagged(t, save_state(t))
<1> DEFINE s == [x |-> t.x, y |-> t.y, fg |-> t.fg, bg |-> t.bg]
           a == <<t.bold, t.bg_bold, t.reverse_video, t.current_charset, t.current_primary,
                  t.current_bg>>
           u == [t EXCEPT !.saved = s, !.attributes = a]
<1>1. s \in SavedCursors
  BY Sizes DEF Sound, Steady, State, SavedCursors, Columns
<1>2. a \in Attributes
  BY DEF State, Attributes
<1>3. save_state(t) = u
  BY DEF save_state, SaveState, State
<1>4. /\ s.fg = t.fg /\ s.bg = t.bg /\ a[1] = t.bold /\ a[2] = t.bg_bold
      /\ a[3] = t.reverse_video /\ a[5] = t.current_primary /\ a[6] = t.current_bg
  OBVIOUS
<1> HIDE DEF s, a
<1>5. u \in State /\ Flagged(t, u)
  BY ZenonT(60), <1>1, <1>2 DEF State, Flagged
<1>6. /\ u.x = t.x /\ u.top = t.top /\ u.bottom = t.bottom /\ u.scroll = t.scroll
      /\ u.fg = t.fg /\ u.bg = t.bg /\ u.reverse_video = t.reverse_video /\ u.bold = t.bold
      /\ u.bg_bold = t.bg_bold /\ u.current_primary = t.current_primary
      /\ u.current_bg = t.current_bg /\ u.saved = s /\ u.attributes = a
  BY DEF State
<1> HIDE DEF u
<1>7. Steady(u) /\ u.scroll
  BY <1>5, <1>6 DEF Sound, Steady, Region, ColoursFollow
<1>8. SavedFollow(u)
  BY <1>4, <1>6 DEF Sound, Steady, ColoursFollow, SavedFollow
<1>9. Reading(u)
  BY <1>5 DEF Sound, Reading, Flagged
<1> QED BY <1>3, <1>5, <1>7, <1>8, <1>9 DEF Sound

LEMMA RestoreStateSound ==
  ASSUME NEW t \in State, Sound(t)
  PROVE  restore_state(t) \in State /\ Sound(restore_state(t)) /\ Flagged(t, restore_state(t))
<1> DEFINE s == t.saved
           a == t.attributes
           u == [t EXCEPT !.x = s.x, !.y = s.y, !.fg = s.fg, !.bg = s.bg, !.bold = a[1],
                          !.bg_bold = a[2], !.reverse_video = a[3], !.current_charset = a[4],
                          !.current_primary = a[5], !.current_bg = a[6]]
<1>1. s.x \in Columns /\ s.y \in Lines /\ s.fg \in Colours /\ s.bg \in Colours
  BY DEF State, SavedCursors
<1>2. /\ a[1] \in BOOLEAN /\ a[2] \in BOOLEAN /\ a[3] \in BOOLEAN /\ a[4] \in Sets
      /\ a[5] \in Palette /\ a[6] \in Palette
  BY DEF State, Attributes
<1>3. s.x \in Nat /\ s.x <= Cols
  BY <1>1, Sizes DEF Columns
<1>4. restore_state(t) = u
  BY DEF restore_state, RestoreState, State
<1>5. /\ Shows(IF a[3] THEN s.bg ELSE s.fg, a[5], a[1])
      /\ Shows(IF a[3] THEN s.fg ELSE s.bg, a[6], a[2])
  BY DEF Sound, SavedFollow
<1>6. /\ u.x = s.x /\ u.top = t.top /\ u.bottom = t.bottom /\ u.scroll = t.scroll
      /\ u.fg = s.fg /\ u.bg = s.bg /\ u.reverse_video = a[3] /\ u.bold = a[1]
      /\ u.bg_bold = a[2] /\ u.current_primary = a[5]
      /\ u.current_bg = a[6] /\ u.saved = t.saved /\ u.attributes = t.attributes
  BY DEF State
<1>7. Flagged(t, u)
  BY DEF State, Flagged
<1> HIDE DEF s, a
<1>8. u \in State
  BY ZenonT(60), <1>1, <1>2, <1>3 DEF State
<1> HIDE DEF u
<1>9. Region(u) /\ ColoursFollow(u)
  BY <1>5, <1>6 DEF Sound, Steady, Region, ColoursFollow
<1>10. SavedFollow(u)
  BY <1>6 DEF Sound, SavedFollow
<1>11. Reading(u)
  BY <1>7 DEF Sound, Reading, Flagged
<1>12. u.scroll /\ u.x <= Cols
  BY <1>3, <1>6 DEF Sound
<1> QED BY <1>4, <1>7, <1>8, <1>9, <1>10, <1>11, <1>12 DEF Sound, Steady

LEMMA InitialCharsets == <<"default", "DEC special">> \in Charsets
<1> DEFINE s == <<"default", "DEC special">>
           V == {"default", "DEC special"}
<1>1. s \in Seq(V) /\ Len(s) = 2
  OBVIOUS
<1> HIDE DEF s
<1>2. s \in [1 .. Len(s) -> V]
  BY <1>1, LenProperties
<1>3. s \in [1 .. 2 -> V]
  BY <1>1, <1>2
<1> QED BY <1>3 DEF s, Charsets, Sets

\* The terminal as after a reset, before the screen is cleared.
LEMMA ReinitSound ==
  ASSUME NEW t \in State, Sound(t)
  PROVE  flanterm_context_reinit(t) \in State /\ Sound(flanterm_context_reinit(t))
<1> DEFINE u == flanterm_context_reinit(t)
           p == <<0, 0>>
           s == <<"default", "DEC special">>
<1>1. /\ 0 \in Tops /\ Rows \in Bottoms /\ 0 \in Offsets /\ 0 \in Selections /\ 1 \in Sets
      /\ 0 \in ValueCounts /\ None \in Palette
  BY Sizes, ValueCountIs DEF Tops, Bottoms, Offsets, Selections, Sets, ValueCounts, None, Palette
<1>2. p \in Positions
  BY Sizes DEF Positions
<1>3. s \in Charsets
  BY InitialCharsets
<1> HIDE DEF p, s
<1>4. u = [t EXCEPT !.enabled = TRUE, !.scroll = TRUE, !.top = 0, !.bottom = Rows,
                    !.control_sequence = FALSE, !.csi = FALSE, !.escape = FALSE,
                    !.osc = FALSE, !.osc_escape = FALSE, !.rrr = FALSE,
                    !.discard_next = FALSE, !.bold = FALSE, !.bg_bold = FALSE,
                    !.reverse_video = FALSE, !.dec_private = FALSE, !.insert_mode = FALSE,
                    !.unicode_remaining = 0, !.g_select = 0, !.charsets = s,
                    !.current_charset = 1, !.escape_offset = 0, !.esc_values_i = 0,
                    !.saved_cursor = p, !.current_primary = None, !.current_bg = None]
  BY DEF flanterm_context_reinit, Reinit, State, p, s
<1>5. u \in State
  <2> DEFINE a == [t EXCEPT !.enabled = TRUE, !.scroll = TRUE, !.top = 0, !.bottom = Rows]
             b == [a EXCEPT !.control_sequence = FALSE, !.csi = FALSE, !.escape = FALSE, !.osc = FALSE]
             c == [b EXCEPT !.osc_escape = FALSE, !.rrr = FALSE, !.discard_next = FALSE, !.bold = FALSE]
             d == [c EXCEPT !.bg_bold = FALSE, !.reverse_video = FALSE, !.dec_private = FALSE, !.insert_mode = FALSE]
             e == [d EXCEPT !.unicode_remaining = 0, !.g_select = 0, !.charsets = s, !.current_charset = 1]
             f == [e EXCEPT !.escape_offset = 0, !.esc_values_i = 0, !.saved_cursor = p]
             g == [f EXCEPT !.current_primary = None, !.current_bg = None]
  <2>1. u = g
    BY <1>4 DEF State
  <2> HIDE DEF u
  <2>2. a \in State
    BY ZenonT(60), <1>1, <1>2, <1>3 DEF State
  <2> HIDE DEF a
  <2>3. b \in State
    BY ZenonT(60), <1>1, <1>2, <1>3, <2>2 DEF State
  <2> HIDE DEF b
  <2>4. c \in State
    BY ZenonT(60), <1>1, <1>2, <1>3, <2>3 DEF State
  <2> HIDE DEF c
  <2>5. d \in State
    BY ZenonT(60), <1>1, <1>2, <1>3, <2>4 DEF State
  <2> HIDE DEF d
  <2>6. e \in State
    BY ZenonT(60), <1>1, <1>2, <1>3, <2>5 DEF State
  <2> HIDE DEF e
  <2>7. f \in State
    BY ZenonT(60), <1>1, <1>2, <1>3, <2>6 DEF State
  <2> HIDE DEF f
  <2>8. g \in State
    BY ZenonT(60), <1>1, <1>2, <1>3, <2>7 DEF State
  <2> HIDE DEF g
  <2> QED BY <2>1, <2>8
<1>6. /\ u.x = t.x /\ u.top = 0 /\ u.bottom = Rows /\ u.scroll = TRUE
      /\ u.current_primary = None /\ u.current_bg = None
      /\ u.saved = t.saved /\ u.attributes = t.attributes
      /\ u.rrr = FALSE /\ u.osc = FALSE /\ u.control_sequence = FALSE /\ u.csi = FALSE
      /\ u.osc_escape = FALSE /\ u.discard_next = FALSE /\ u.unicode_remaining = 0
  BY <1>4 DEF State
<1> HIDE DEF u
<1>7. Steady(u)
  BY <1>5, <1>6 DEF Sound, Steady, Region, ColoursFollow, Shows
<1>8. SavedFollow(u) /\ Reading(u)
  BY <1>6 DEF Sound, SavedFollow, Reading
<1> QED BY <1>5, <1>6, <1>7, <1>8 DEF Sound, u

\* A sequence of one byte, or the beginning of a longer one.
LEMMA EscapedByteSound ==
  ASSUME NEW t \in State, Sound(t), t.escape = TRUE, Unread(t), NEW c
  PROVE  EscapedByte(t, c) \in State /\ Sound(EscapedByte(t, c))
<1> DEFINE Done(u) == [u EXCEPT !.escape = FALSE]
           Good == {u \in State : Sound(u)}
<1>1. ASSUME NEW u \in State, Sound(u), Flagged(t, u) PROVE Done(u) \in Good
  <2>1. Unread(u)
    BY <1>1 DEF Flagged, Unread
  <2> QED BY <1>1, <2>1, DoneSound
<1>2. ASSUME NEW u \in Placed(t) PROVE Done(u) \in Good
  <2>1. u \in State /\ Sound(u)
    BY PlacedIsSound
  <2>2. Flagged(t, u)
    <3>1. u \in Drawn(t)
      BY DEF Placed
    <3> QED BY <3>1, DrawnIsAlike DEF Alike, Flagged
  <2> QED BY <1>1, <2>1, <2>2
<1>3. [t EXCEPT !.osc_escape = FALSE, !.osc = TRUE] \in Good
  <2> DEFINE u == [t EXCEPT !.osc_escape = FALSE, !.osc = TRUE]
  <2>1. u \in State
    BY ZenonT(60) DEF State
  <2>2. AlikeText(t, u)
    BY DEF State, AlikeText
  <2>3. /\ u.rrr = t.rrr /\ u.esc_values_i = t.esc_values_i /\ u.osc = TRUE
        /\ u.control_sequence = t.control_sequence /\ u.csi = t.csi /\ u.escape = t.escape
        /\ u.osc_escape = FALSE /\ u.discard_next = t.discard_next
        /\ u.unicode_remaining = t.unicode_remaining /\ u.code_point = t.code_point
    BY DEF State
  <2> HIDE DEF u
  <2>4. Reading(u)
    BY <2>3 DEF Sound, Reading, Unread
  <2>5. Sound(u)
    BY <2>1, <2>2, <2>4, ReadOn
  <2> QED BY <2>1, <2>5 DEF u
<1>4. Introducer(t) \in Good
  BY IntroducerSound DEF Unread
<1>5. Done(save_state(t)) \in Good /\ Done(restore_state(t)) \in Good
  BY <1>1, SaveStateSound, RestoreStateSound
<1>6. Clear(flanterm_context_reinit(t), TRUE) \in Good
  <2> DEFINE r == flanterm_context_reinit(t)
  <2>1. r \in State /\ Sound(r)
    BY ReinitSound
  <2> HIDE DEF r
  <2>2. Clear(r, TRUE) \in Drawn(r) /\ Clear(r, TRUE).x = 0
    BY <2>1, ClearFacts
  <2>3. Clear(r, TRUE) \in Placed(r)
    <3> DEFINE w == Clear(r, TRUE)
    <3>1. w \in Drawn(r) /\ w.x = 0
      BY <2>2
    <3> HIDE DEF w
    <3>2. w.x <= Cols
      BY <3>1, Sizes
    <3>3. w \in Placed(r)
      BY <3>1, <3>2 DEF Placed
    <3> QED BY <3>3 DEF w
  <2> QED BY <2>1, <2>3, PlacedIsSound DEF r
<1>7. Done(NewLine(t, PosX(t))) \in Good /\ Done(NewLine(t, 0)) \in Good /\ Done(ReverseLineFeed(t)) \in Good
  <2>1. PosX(t) \in Int /\ 0 \in Int
    BY PositionFacts
  <2> HIDE DEF Good
  <2> QED BY <1>2, <2>1, NewLineType, ReverseLineFeedType
<1>8. ASSUME NEW k \in {1, 2} PROVE Done([t EXCEPT !.g_select = k]) \in Good
  <2> DEFINE u == [t EXCEPT !.g_select = k]
  <2>1. u \in State
    BY DEF State, Selections, Sets
  <2>2. AlikeText(t, u) /\ Flagged(t, u)
    BY DEF State, AlikeText, Flagged
  <2> HIDE DEF u
  <2>3. Sound(u)
    BY <2>1, <2>2, BesideIt
  <2>4. Done(u) \in Good
    BY <1>1, <2>1, <2>2, <2>3
  <2> QED BY <2>4 DEF u
<1>9. Done(t) \in Good
  BY <1>1 DEF Flagged
<1>10. 1 \in {1, 2} /\ 2 \in {1, 2}
  OBVIOUS
<1> HIDE DEF Good
<1> DEFINE cleared == Clear(flanterm_context_reinit(t), TRUE)
           e == EscapedByte(t, c)
<1>11. /\ c = "]" => e = [t EXCEPT !.osc_escape = FALSE, !.osc = TRUE]
       /\ c = "[" => e = Introducer(t)
       /\ c = "7" => e = Done(save_state(t))
       /\ c = "8" => e = Done(restore_state(t))
       /\ c = "c" => e = cleared
       /\ c = "D" => e = Done(NewLine(t, PosX(t)))
       /\ c = "E" => e = Done(NewLine(t, 0))
       /\ c = "M" => e = Done(ReverseLineFeed(t))
       /\ c = "(" => e = Done([t EXCEPT !.g_select = 1])
       /\ c = ")" => e = Done([t EXCEPT !.g_select = 2])
       /\ c \notin {"]", "[", "7", "8", "c", "D", "E", "M", "(", ")"} => e = Done(t)
  BY DEF EscapedByte
<1>12. cleared \in Good
  BY <1>6
<1> HIDE DEF cleared, e, Done
<1>13. e \in Good
  BY <1>3, <1>4, <1>5, <1>7, <1>8, <1>9, <1>10, <1>11, <1>12
<1>14. EscapedByte(t, c) \in Good
  BY <1>13 DEF e
<1> QED BY <1>14 DEF Good

LEMMA EscapeSound ==
  ASSUME NEW t \in State, Sound(t), t.escape = TRUE, NEW c
  PROVE  escape_parse(t, c) \in State /\ Sound(escape_parse(t, c))
<1> DEFINE k == IF t.escape_offset < 3 THEN t.escape_offset + 1 ELSE 3
           u == [t EXCEPT !.escape_offset = k]
<1>1. k \in Offsets
  BY DEF State, Offsets
<1>2. escape_parse(t, c) =
        IF t.osc THEN osc_parse(u, c)
        ELSE IF t.control_sequence THEN control_sequence_parse(u, c)
        ELSE IF t.csi THEN Introducer(u)
        ELSE EscapedByte(u, c)
  BY DEF escape_parse, State
<1> HIDE DEF k
<1>3. u \in State /\ AlikeText(t, u) /\ Flagged(t, u)
  BY <1>1 DEF State, AlikeText, Flagged
<1> HIDE DEF u
<1>4. Sound(u) /\ u.escape = t.escape /\ u.osc = t.osc /\ u.csi = t.csi
      /\ u.control_sequence = t.control_sequence
  BY <1>3, BesideIt DEF Flagged
<1>5. CASE t.osc
  BY <1>2, <1>3, <1>4, <1>5, OscSound
<1>6. CASE ~t.osc /\ t.control_sequence
  BY <1>2, <1>3, <1>4, <1>6, ControlSequenceSound
<1>7. CASE ~t.osc /\ ~t.control_sequence /\ t.csi
  BY <1>2, <1>3, <1>4, <1>7, IntroducerSound
<1>8. CASE ~t.osc /\ ~t.control_sequence /\ ~t.csi
  <2>1. Unread(u)
    BY <1>4, <1>8 DEF Unread
  <2> QED BY <1>2, <1>3, <1>4, <1>8, <2>1, EscapedByteSound
<1> QED BY <1>5, <1>6, <1>7, <1>8

\* CAN and SUB end whatever is being read; so does a byte that is discarded.
LEMMA CancelSound ==
  ASSUME NEW t \in State, Sound(t)
  PROVE  Cancel(t) \in State /\ Sound(Cancel(t))
<1> DEFINE a == [t EXCEPT !.discard_next = FALSE, !.escape = FALSE, !.csi = FALSE,
                          !.control_sequence = FALSE]
           u == [a EXCEPT !.unicode_remaining = 0, !.osc = FALSE, !.osc_escape = FALSE,
                          !.g_select = 0]
<1>1. Cancel(t) = u
  BY DEF Cancel, State
<1>2. 0 \in Offsets /\ 0 \in Selections
  BY DEF Offsets, Selections
<1>3. a \in State
  BY ZenonT(60) DEF State
<1>4. AlikeText(t, a) /\ a.rrr = t.rrr /\ a.esc_values_i = t.esc_values_i /\ a.escape = FALSE
      /\ a.csi = FALSE /\ a.control_sequence = FALSE
  BY DEF State, AlikeText
<1> HIDE DEF a
<1>5. u \in State
  BY ZenonT(60), <1>2, <1>3 DEF State
<1>6. AlikeText(a, u) /\ u.rrr = a.rrr /\ u.esc_values_i = a.esc_values_i /\ u.csi = a.csi
      /\ u.control_sequence = a.control_sequence /\ u.escape = a.escape
      /\ u.osc = FALSE /\ u.osc_escape = FALSE /\ u.unicode_remaining = 0
  BY <1>3 DEF State, AlikeText
<1> HIDE DEF u
<1>7. AlikeText(t, u)
  BY <1>4, <1>6 DEF AlikeText
<1>8. Reading(u)
  BY <1>4, <1>6 DEF Sound, Reading
<1> QED BY <1>1, <1>5, <1>7, <1>8, ReadOn

\* The byte that chooses a charset.
LEMMA SelectCharsetSound ==
  ASSUME NEW t \in State, Sound(t), t.g_select > 0, NEW c
  PROVE  SelectCharset(t, c) \in State /\ Sound(SelectCharset(t, c))
<1> DEFINE k == t.g_select
           name == CASE c = "B" -> "default" [] c = "0" -> "DEC special" [] OTHER -> t.charsets[k]
           s == [t.charsets EXCEPT ![k] = name]
           u == [t EXCEPT !.g_select = 0, !.charsets = s]
<1>1. k \in Sets /\ 0 \in Selections /\ t.charsets \in [Sets -> {"default", "DEC special"}]
  <2>1. t.g_select \in Selections /\ t.charsets \in Charsets
    BY DEF State
  <2>2. k \in Sets
    BY <2>1 DEF Selections
  <2> QED BY <2>1, <2>2 DEF Selections, Charsets
<1>2. name \in {"default", "DEC special"}
  BY <1>1
<1>3. SelectCharset(t, c) = u
  BY <1>1 DEF SelectCharset, State
<1> HIDE DEF name, k
<1>4. s \in Charsets
  BY <1>1, <1>2 DEF Charsets
<1> HIDE DEF s
<1>5. u \in State
  BY <1>1, <1>4 DEF State
<1>6. AlikeText(t, u) /\ Flagged(t, u)
  BY DEF State, AlikeText, Flagged
<1> HIDE DEF u
<1> QED BY <1>3, <1>5, <1>6, BesideIt

\* A sequence begins.
LEMMA SequenceBegins ==
  ASSUME NEW t \in State, Sound(t), ~t.escape, ~t.discard_next, NEW b \in Flags
  PROVE  LET u == [t EXCEPT !.csi = b, !.escape_offset = 0, !.escape = TRUE]
         IN  u \in State /\ Sound(u)
<1> DEFINE u == [t EXCEPT !.csi = b, !.escape_offset = 0, !.escape = TRUE]
<1>1. 0 \in Offsets /\ b \in BOOLEAN /\ ~t.osc /\ ~t.control_sequence
  BY DEF Offsets, Flags, Sound, Reading
<1>2. u \in State
  BY <1>1 DEF State
<1>3. AlikeText(t, u)
  BY DEF State, AlikeText
<1>4. /\ u.rrr = t.rrr /\ u.esc_values_i = t.esc_values_i /\ u.osc = t.osc
      /\ u.control_sequence = t.control_sequence /\ u.escape = TRUE
      /\ u.osc_escape = t.osc_escape /\ u.discard_next = t.discard_next
      /\ u.unicode_remaining = t.unicode_remaining /\ u.code_point = t.code_point
  BY DEF State
<1> HIDE DEF u
<1>5. Reading(u)
  BY <1>1, <1>4 DEF Sound, Reading
<1>6. u \in State /\ Sound(u)
  BY <1>2, <1>3, <1>5, ReadOn
<1> QED BY <1>6 DEF u

LEMMA CharsetChosen ==
  ASSUME NEW t \in State, Sound(t), NEW k \in {1, 2}
  PROVE  [t EXCEPT !.current_charset = k] \in State /\ Sound([t EXCEPT !.current_charset = k])
<1> DEFINE u == [t EXCEPT !.current_charset = k]
<1>1. u \in State
  BY DEF State, Sets
<1>2. AlikeText(t, u) /\ Flagged(t, u)
  BY DEF State, AlikeText, Flagged
<1> HIDE DEF u
<1>3. u \in State /\ Sound(u)
  BY <1>1, <1>2, BesideIt
<1> QED BY <1>3 DEF u

\* A byte that is not part of a sequence or of a code point.
LEMMA GroundSound ==
  ASSUME NEW t \in State, Sound(t), ~t.escape, ~t.discard_next, NEW c
  PROVE  Ground(t, c) \in State /\ Sound(Ground(t, c))
<1> DEFINE Good == {u \in State : Sound(u)}
           csi == [t EXCEPT !.csi = TRUE, !.escape_offset = 0, !.escape = TRUE]
           esc == [t EXCEPT !.escape_offset = 0, !.escape = TRUE]
           so == [t EXCEPT !.current_charset = 2]
           si == [t EXCEPT !.current_charset = 1]
<1>1. t \in Good /\ \A u \in Placed(t) : u \in Good
  BY PlacedIsSound
<1>2. ~t.csi /\ t.scroll /\ t.x <= Cols
  BY DEF Sound, Reading, Steady
<1>3. \A b \in Flags : [t EXCEPT !.csi = b, !.escape_offset = 0, !.escape = TRUE] \in Good
  BY SequenceBegins
<1>4. csi \in Good /\ esc \in Good
  <2>1. TRUE \in Flags /\ FALSE \in Flags
    BY DEF Flags
  <2>2. esc = [t EXCEPT !.csi = FALSE, !.escape_offset = 0, !.escape = TRUE]
    BY <1>2 DEF State
  <2> HIDE DEF Good
  <2> QED BY <1>3, <2>1, <2>2
<1>5. so \in Good /\ si \in Good
  BY CharsetChosen
<1>6. \A x, y \in Int : SetCursorPos(t, x, y) \in Placed(t)
  BY DrawnSelf, PlacedThere
<1>7. SetCursorPos(t, PosX(t) - 1, PosY(t)) \in Good /\ SetCursorPos(t, 0, PosY(t)) \in Good
  <2>1. PosX(t) - 1 \in Int /\ PosY(t) \in Int /\ 0 \in Int
    BY PositionFacts
  <2> HIDE DEF Good
  <2> QED BY <1>1, <1>6, <2>1
<1>8. HorizontalTab(t) \in Good /\ NewLine(t, 0) \in Good /\ PrintByte(t, c) \in Good
  <2>1. 0 \in Int
    OBVIOUS
  <2> HIDE DEF Good
  <2> QED BY <1>1, <1>2, <2>1, HorizontalTabType, NewLineType, PrintByteType
<1> HIDE DEF Good
<1>9. Ground(t, c) \in Good
  <2> DEFINE g == Ground(t, c)
  <2>1. /\ c \in {"NUL", "DEL", "BEL"} => g = t
        /\ c = "CSI" => g = csi
        /\ c = "ESC" => g = esc
        /\ c = "HT" => g = HorizontalTab(t)
        /\ c \in {"VT", "FF", "LF"} => g = NewLine(t, 0)
        /\ c = "BS" => g = SetCursorPos(t, PosX(t) - 1, PosY(t))
        /\ c = "CR" => g = SetCursorPos(t, 0, PosY(t))
        /\ c = "SO" => g = so
        /\ c = "SI" => g = si
        /\ c \notin {"NUL", "DEL", "BEL", "CSI", "ESC", "HT", "VT", "FF", "LF", "BS", "CR",
                     "SO", "SI"} => g = PrintByte(t, c)
    BY DEF Ground
  <2> HIDE DEF g, csi, esc, so, si
  <2>2. g \in Good
    BY <1>1, <1>4, <1>5, <1>7, <1>8, <2>1
  <2> QED BY <2>2 DEF g
<1> QED BY <1>9 DEF Good

\* Bytes of a code point.
LEMMA RemainingSound ==
  ASSUME NEW t \in State, Sound(t), NEW k \in Offsets, NEW p \in CodePoints, k > 0 => p \in Points
  PROVE  LET u == [t EXCEPT !.unicode_remaining = k, !.code_point = p]
         IN  u \in State /\ Sound(u)
<1> DEFINE u == [t EXCEPT !.unicode_remaining = k, !.code_point = p]
<1>1. u \in State
  BY ZenonT(60) DEF State
<1>2. AlikeText(t, u)
  BY DEF State, AlikeText
<1>3. /\ u.rrr = t.rrr /\ u.esc_values_i = t.esc_values_i /\ u.osc = t.osc
      /\ u.control_sequence = t.control_sequence /\ u.csi = t.csi /\ u.escape = t.escape
      /\ u.osc_escape = t.osc_escape /\ u.discard_next = t.discard_next
      /\ u.unicode_remaining = k /\ u.code_point = p
  BY DEF State
<1> HIDE DEF u
<1>4. Reading(u)
  BY <1>3 DEF Sound, Reading
<1>5. u \in State /\ Sound(u)
  BY <1>1, <1>2, <1>4, ReadOn
<1> QED BY <1>5 DEF u

LEMMA ByteSound ==
  ASSUME NEW t \in State, Sound(t), NEW c
  PROVE  flanterm_putchar(t, c) \in State /\ Sound(flanterm_putchar(t, c))
<1> DEFINE Good == {u \in State : Sound(u)}
           u == [t EXCEPT !.unicode_remaining = 0]
           more == [t EXCEPT !.unicode_remaining = @ - 1]
           lead == [t EXCEPT !.unicode_remaining = Leads[c].remaining,
                             !.code_point = Leads[c].point]
<1>1. t.unicode_remaining \in Offsets /\ t.code_point \in CodePoints
  BY DEF State
<1>2. 0 \in Offsets /\ Offsets \subseteq Int
  BY DEF Offsets
<1>3. u \in Good /\ u.escape = t.escape /\ u.discard_next = t.discard_next /\ u.g_select = t.g_select
  <2> DEFINE k == 0
  <2>1. u = [t EXCEPT !.unicode_remaining = k, !.code_point = t.code_point]
    BY DEF State
  <2>2. k \in Offsets /\ (k > 0 => t.code_point \in Points)
    BY <1>2
  <2>3. u.escape = t.escape /\ u.discard_next = t.discard_next /\ u.g_select = t.g_select
    BY DEF State
  <2> HIDE DEF k, u
  <2>4. u \in Good
    BY <1>1, <2>1, <2>2, RemainingSound
  <2> QED BY <2>3, <2>4
<1>4. CASE t.discard_next \/ c \in {"CAN", "SUB"}
  <2>1. flanterm_putchar(t, c) = Cancel(t)
    BY <1>4 DEF flanterm_putchar
  <2> QED BY <2>1, CancelSound
<1>5. CASE ~(t.discard_next \/ c \in {"CAN", "SUB"})
           /\ t.unicode_remaining > 0 /\ c \in {"continuation", "CSI"}
  <2> DEFINE k == t.unicode_remaining - 1
  <2>1. k \in Offsets /\ t.code_point \in Points
    BY <1>1, <1>5 DEF Offsets, Sound, Reading
  <2>2. more = [t EXCEPT !.unicode_remaining = k, !.code_point = t.code_point]
    BY DEF State
  <2> HIDE DEF k
  <2>3. more \in Good
    BY <1>1, <2>1, <2>2, RemainingSound
  <2>4. more.code_point = t.code_point /\ more.scroll /\ more.x <= Cols
    <3>1. t.scroll /\ t.x <= Cols /\ more.scroll = t.scroll /\ more.x = t.x
          /\ more.code_point = t.code_point
      BY DEF Sound, Steady, State
    <3> QED BY <3>1
  <2>5. flanterm_putchar(t, c) = IF t.unicode_remaining > 1 THEN more ELSE PrintCodePoint(more)
    BY <1>5 DEF flanterm_putchar
  <2> HIDE DEF more
  <2>6. PrintCodePoint(more) \in Placed(more)
    BY <2>1, <2>3, <2>4, PrintCodePointType
  <2>7. PrintCodePoint(more) \in Good
    BY <2>3, <2>6, PlacedIsSound
  <2> QED BY <2>3, <2>5, <2>7
<1>6. CASE ~(t.discard_next \/ c \in {"CAN", "SUB"})
           /\ ~(t.unicode_remaining > 0 /\ c \in {"continuation", "CSI"}) /\ c \in DOMAIN Leads
  <2>1. Leads[c].remaining \in 1 .. 3 /\ Leads[c].point \in Points
    BY <1>6, BytesAssumption DEF Points
  <2>2. Leads[c].remaining \in Offsets /\ Leads[c].point \in CodePoints
    BY <2>1 DEF Offsets, CodePoints
  <2>3. flanterm_putchar(t, c) = lead
    BY <1>6 DEF flanterm_putchar
  <2> QED BY ZenonT(60), <2>1, <2>2, <2>3, RemainingSound
<1>7. CASE ~(t.discard_next \/ c \in {"CAN", "SUB"})
           /\ ~(t.unicode_remaining > 0 /\ c \in {"continuation", "CSI"}) /\ c \notin DOMAIN Leads
  <2>1. flanterm_putchar(t, c) =
          IF t.escape THEN escape_parse(u, c)
          ELSE IF t.g_select > 0 THEN SelectCharset(u, c)
          ELSE Ground(u, c)
    BY <1>7 DEF flanterm_putchar
  <2> HIDE DEF u
  <2>2. t.escape \in BOOLEAN
    BY DEF State
  <2>3. CASE t.escape
    BY <1>3, <2>1, <2>2, <2>3, EscapeSound
  <2>4. CASE ~t.escape /\ t.g_select > 0
    BY <1>3, <2>1, <2>4, SelectCharsetSound
  <2>5. CASE ~t.escape /\ ~(t.g_select > 0)
    BY <1>3, <1>7, <2>1, <2>5, GroundSound
  <2> QED BY <2>3, <2>4, <2>5
<1> QED BY <1>4, <1>5, <1>6, <1>7

-----------------------------------------------------------------------------
(* Writes. *)

Good == {u \in State : Sound(u)}
Written(t, buf) == FoldLeft(flanterm_putchar, t, buf)

\* A write, byte by byte.
LEMMA WriteRun ==
  ASSUME NEW t \in Good, NEW buf \in Seq(STRING), NEW n \in Nat, n = Len(buf)
  PROVE  \E g \in [0 .. n -> Good] :
           /\ g[0] = t /\ Written(t, buf) = g[n]
           /\ \A k \in 1 .. n : g[k] = flanterm_putchar(g[k - 1], buf[k])
<1> DEFINE V == Good
           Op(u, i) == flanterm_putchar(u, i)
           q == buf
           step == [p \in V \X (1 .. n) |-> Op(p[1], q[p[2]])]
           Loop(F) == F = [s \in SUBSET (DOMAIN q) |->
                       IF s = {} THEN t ELSE Op(F[s \ {Max(s)}], q[Max(s)])]
           F == CHOOSE F : Loop(F)
<1>1. Written(t, buf) = F[DOMAIN q]
  BY DEF FoldLeft, MapThenFoldSet, Written
<1>2. t \in V /\ \A u \in V, k \in 1 .. n : Op(u, q[k]) \in V
  BY ByteSound DEF Good
<1> HIDE DEF V, Op
<1>3. step \in [V \X (1 .. n) -> V] /\ \A u \in V, k \in 1 .. n : step[<<u, k>>] = Op(u, q[k])
  BY <1>2
<1>4. DOMAIN q = 1 .. n
  BY DEF q
<1> HIDE DEF q, step
<1>5. PICK f \in [SUBSET (1 .. n) -> V], g \in [0 .. n -> V] :
        /\ Recurs(f, n, t, step) /\ g[0] = t
        /\ \A k \in 1 .. n : g[k] = step[<<g[k - 1], k>>]
        /\ \A G : Follows(G, n, V, t, step) => G[1 .. n] = g[n]
  <2>1. Stepwise(n, V, t, step)
    BY <1>2, <1>3, FoldRun
  <2> QED BY <2>1 DEF Stepwise
<1>6. \A s \in SUBSET (1 .. n) : s # {} => Max(s) \in 1 .. n
  BY LargestOf
<1>7. Loop(F)
  <2>1. Loop(f)
    <3>1. \A s \in SUBSET (1 .. n) : s # {} => f[s \ {Max(s)}] \in V
      BY <1>5
    <3>2. \A s \in SUBSET (1 .. n) :
            (IF s = {} THEN t ELSE step[<<f[s \ {Max(s)}], Max(s)>>])
              = (IF s = {} THEN t ELSE Op(f[s \ {Max(s)}], q[Max(s)]))
      BY <1>3, <1>6, <3>1
    <3> QED BY <1>4, <1>5, <3>2 DEF Recurs
  <2> HIDE DEF Loop
  <2> QED BY <2>1
<1> HIDE DEF F
<1>8. Follows(F, n, V, t, step)
  BY <1>3, <1>4, <1>6, <1>7 DEF Follows
<1>9. Written(t, buf) = g[n]
  BY <1>1, <1>4, <1>5, <1>8
<1>10. \A k \in 1 .. n : g[k] = Op(g[k - 1], q[k])
  <2>1. \A k \in 1 .. n : g[k - 1] \in V
    BY <1>5
  <2> QED BY <1>3, <1>5, <2>1
<1> QED BY <1>5, <1>9, <1>10 DEF V, Op, q

LEMMA WrittenSound ==
  ASSUME NEW t \in Good, NEW buf \in Seq(STRING)
  PROVE  Written(t, buf) \in Good
<1>1. PICK n \in Nat : n = Len(buf)
  OBVIOUS
<1>2. PICK g \in [0 .. n -> Good] : Written(t, buf) = g[n]
  BY <1>1, WriteRun
<1> QED BY <1>2

LEMMA InitGood == Init => term \in Good
<1> DEFINE c == <<"default", "DEC special">>
           a == <<FALSE, FALSE, FALSE, 1, 0, 0>>
           p == <<0, 0>>
           s == [x |-> 0, y |-> 0, fg |-> Rgb(0), bg |-> Rgb(0)]
           v == [i \in 0 .. (MaxValues - 1) |-> 0]
<1> SUFFICES ASSUME Init PROVE term \in Good
  OBVIOUS
<1>1. c \in Charsets
  BY InitialCharsets
<1>2. a \in Attributes
  <2> DEFINE no == FALSE
  <2>1. no \in BOOLEAN /\ 1 \in Sets /\ 0 \in Palette
    BY DEF Sets, Palette
  <2> HIDE DEF no
  <2>2. <<no, no, no, 1, 0, 0>> \in Attributes
    BY <2>1 DEF Attributes
  <2> QED BY <2>2 DEF no
<1>3. p \in Positions
  BY Sizes DEF Positions
<1>4. Rgb(0) \in Colours /\ DefaultFg \in Colours /\ Default \in Colours
  <2>1. "rgb" \in Hues /\ "default fg" \in Hues /\ 0 \in Int
    BY DEF Hues
  <2> QED BY <2>1 DEF Rgb, Colours, DefaultFg
<1>5. s \in SavedCursors
  BY <1>4, Sizes DEF SavedCursors, Columns, Lines
<1>6. v \in Values
  BY FlantermAssumption DEF Values
<1>7. /\ 0 \in Tops /\ Rows \in Bottoms /\ 0 \in Offsets /\ 0 \in Selections /\ 1 \in Sets
      /\ 0 \in ValueCounts /\ None \in Palette /\ 0 \in Lines /\ 0 \in CodePoints
  <2>1. 0 \in Tops /\ Rows \in Bottoms /\ 0 \in Lines
    BY Sizes DEF Tops, Bottoms, Lines
  <2>2. 0 \in Offsets /\ 0 \in Selections /\ 1 \in Sets /\ 0 \in CodePoints
    BY DEF Offsets, Selections, Sets, CodePoints
  <2>3. 0 \in ValueCounts /\ None \in Palette
    BY FlantermAssumption DEF ValueCounts, None, Palette
  <2> QED BY <2>1, <2>2, <2>3
<1>8. StartCells \subseteq Canvas
  <2>1. ASSUME NEW g \in StartCells PROVE g \in Canvas
    <3>1. g \in [Cells -> {g[i] : i \in Cells}]
      BY BytesAssumption
    <3>2. {g[i] : i \in Cells} \subseteq Pictures
      BY DEF Pictures
    <3> QED BY <3>1, <3>2 DEF Canvas
  <2> QED BY <2>1
<1> HIDE DEF c, a, p, s, v
<1>9. term \in State
  <2>1. term \in [cells : StartCells, x : {0}, y : {0}, fg : {DefaultFg}, bg : {Default},
       saved : {s},
       top : {0}, bottom : {Rows}, scroll : {TRUE}, enabled : {TRUE},
       control_sequence : {FALSE}, csi : {FALSE}, escape : {FALSE}, osc : {FALSE},
       osc_escape : {FALSE}, rrr : {FALSE}, discard_next : {FALSE}, bold : {FALSE},
       bg_bold : {FALSE}, reverse_video : {FALSE}, dec_private : {FALSE},
       insert_mode : {FALSE}, unicode_remaining : {0}, code_point : {0}, g_select : {0},
       charsets : {c}, current_charset : {1},
       escape_offset : {0}, esc_values : {v},
       esc_values_i : {0}, saved_cursor : {p}, current_primary : {None},
       current_bg : {None}, attributes : {a}]
    BY DEF Init, c, a, p, s, v
  <2>2. /\ term.cells \in StartCells /\ term.x = 0 /\ term.y = 0 /\ term.fg = DefaultFg
        /\ term.bg = Default /\ term.saved = s /\ term.top = 0 /\ term.bottom = Rows
        /\ term.unicode_remaining = 0 /\ term.code_point = 0 /\ term.g_select = 0
        /\ term.charsets = c /\ term.current_charset = 1 /\ term.escape_offset = 0
        /\ term.esc_values = v /\ term.esc_values_i = 0 /\ term.saved_cursor = p
        /\ term.current_primary = None /\ term.current_bg = None /\ term.attributes = a
    BY <2>1
  <2>3. /\ term.scroll = TRUE /\ term.enabled = TRUE /\ term.control_sequence = FALSE
        /\ term.csi = FALSE /\ term.escape = FALSE /\ term.osc = FALSE
        /\ term.osc_escape = FALSE /\ term.rrr = FALSE /\ term.discard_next = FALSE
        /\ term.bold = FALSE /\ term.bg_bold = FALSE /\ term.reverse_video = FALSE
        /\ term.dec_private = FALSE /\ term.insert_mode = FALSE
    BY <2>1
  <2>4. term =
          [cells |-> term.cells, x |-> term.x, y |-> term.y, fg |-> term.fg, bg |-> term.bg,
           saved |-> term.saved, top |-> term.top, bottom |-> term.bottom,
           scroll |-> term.scroll, enabled |-> term.enabled,
           control_sequence |-> term.control_sequence, csi |-> term.csi,
           escape |-> term.escape, osc |-> term.osc, osc_escape |-> term.osc_escape,
           rrr |-> term.rrr, discard_next |-> term.discard_next, bold |-> term.bold,
           bg_bold |-> term.bg_bold, reverse_video |-> term.reverse_video,
           dec_private |-> term.dec_private, insert_mode |-> term.insert_mode,
           unicode_remaining |-> term.unicode_remaining, code_point |-> term.code_point,
           g_select |-> term.g_select, charsets |-> term.charsets,
           current_charset |-> term.current_charset, escape_offset |-> term.escape_offset,
           esc_values |-> term.esc_values, esc_values_i |-> term.esc_values_i,
           saved_cursor |-> term.saved_cursor, current_primary |-> term.current_primary,
           current_bg |-> term.current_bg, attributes |-> term.attributes]
    BY <2>1
  <2>5. /\ term.scroll \in BOOLEAN /\ term.enabled \in BOOLEAN
        /\ term.control_sequence \in BOOLEAN /\ term.csi \in BOOLEAN
        /\ term.escape \in BOOLEAN /\ term.osc \in BOOLEAN /\ term.osc_escape \in BOOLEAN
        /\ term.rrr \in BOOLEAN /\ term.discard_next \in BOOLEAN /\ term.bold \in BOOLEAN
        /\ term.bg_bold \in BOOLEAN /\ term.reverse_video \in BOOLEAN
        /\ term.dec_private \in BOOLEAN /\ term.insert_mode \in BOOLEAN
    BY <2>3
  <2>6. /\ term.cells \in Canvas /\ term.x \in Nat /\ term.y \in Lines /\ term.fg \in Colours
        /\ term.bg \in Colours /\ term.saved \in SavedCursors /\ term.top \in Tops
        /\ term.bottom \in Bottoms
        /\ term.unicode_remaining \in Offsets /\ term.code_point \in CodePoints
        /\ term.g_select \in Selections /\ term.charsets \in Charsets
        /\ term.current_charset \in Sets /\ term.escape_offset \in Offsets
        /\ term.esc_values \in Values /\ term.esc_values_i \in ValueCounts
        /\ term.saved_cursor \in Positions /\ term.current_primary \in Palette
        /\ term.current_bg \in Palette /\ term.attributes \in Attributes
    BY <1>1, <1>2, <1>3, <1>4, <1>5, <1>6, <1>7, <1>8, <2>2
  <2> QED BY <2>4, <2>5, <2>6 DEF State
<1>10. /\ term.x = 0 /\ term.top = 0 /\ term.bottom = Rows /\ term.scroll
       /\ term.current_primary = None /\ term.current_bg = None
       /\ term.esc_values_i = 0 /\ term.unicode_remaining = 0
       /\ ~term.rrr /\ ~term.osc /\ ~term.control_sequence /\ ~term.csi
       /\ ~term.osc_escape /\ ~term.discard_next
       /\ term.saved = s /\ term.attributes = a
  BY DEF Init, s, a
<1>11. Steady(term)
  BY <1>9, <1>10, Sizes DEF Steady, Region, ColoursFollow, Shows
<1>12. SavedFollow(term)
  <2>1. s.fg[1] = "rgb" /\ s.bg[1] = "rgb"
    BY DEF s, Rgb
  <2> QED BY <1>10, <2>1 DEF SavedFollow, Shows
<1>13. Reading(term)
  BY <1>10 DEF Reading
<1> QED BY <1>9, <1>10, <1>11, <1>12, <1>13 DEF Good, Sound

LEMMA AlwaysGood == Spec => [](term \in Good)
<1>1. Init => term \in Good
  BY InitGood
<1>2. term \in Good /\ [Next]_vars => (term \in Good)'
  <2> SUFFICES ASSUME term \in Good, [Next]_vars PROVE term' \in Good
    OBVIOUS
  <2>1. ASSUME NEW buf \in Buffers, flanterm_write(buf) PROVE term' \in Good
    <3>1. buf \in Seq(STRING)
      BY BytesAssumption
    <3>2. term' = Written(term, buf)
      BY <2>1 DEF flanterm_write, Written
    <3> QED BY <3>1, <3>2, WrittenSound
  <2>2. CASE UNCHANGED vars
    BY <2>2 DEF vars
  <2> QED BY <2>1, <2>2 DEF Next
<1> QED BY <1>1, <1>2, PTL DEF Spec

-----------------------------------------------------------------------------
(* What the runs check. *)

\* Types, and what the backend counts on: the region, the cursor's place, and
\* that scrolling is on again after each sequence (flanterm.c's scroll_enabled).
THEOREM TypeCorrect == Spec => []TypeOK
<1>1. term \in Good => TypeOK
  <2> SUFFICES ASSUME term \in Good PROVE TypeOK
    OBVIOUS
  <2>1. term \in State /\ Steady(term) /\ Reading(term) /\ term.scroll
    BY DEF Good, Sound
  <2>2. /\ term.x \in Nat /\ term.x <= Cols /\ term.y \in Lines /\ Region(term)
        /\ term.top \in Tops /\ term.bottom \in Bottoms
    BY <2>1 DEF State, Steady
  <2>3. /\ term.esc_values_i \in ValueCounts /\ term.esc_values \in Values
        /\ term.cells \in Canvas /\ term.unicode_remaining \in Offsets
        /\ term.g_select \in Selections /\ term.current_primary \in Palette
        /\ term.current_bg \in Palette
    BY <2>1 DEF State
  <2>4. term.rrr => term.esc_values_i < MaxValues
    BY <2>1 DEF Reading
  <2>5. DOMAIN term.esc_values = 0 .. (MaxValues - 1) /\ DOMAIN term.cells = Cells
    BY <2>3 DEF Values, Canvas
  <2>6. /\ term.esc_values_i \in 0 .. MaxValues /\ term.unicode_remaining \in 0 .. 3
        /\ term.current_primary \in -1 .. 7 /\ term.current_bg \in -1 .. 7
    BY <2>3 DEF ValueCounts, Offsets, Palette
  <2>7. term.g_select \in 0 .. 2
    BY <2>3 DEF Selections, Sets
  <2>8. /\ term.top >= 0 /\ term.bottom <= Rows
        /\ term.top + 1 < term.bottom \/ (term.top = 0 /\ term.bottom = Rows)
    BY <2>2, Sizes DEF Tops, Bottoms, Region
  <2>9. term.x \in 0 .. Cols /\ term.y \in 0 .. (Rows - 1) \cup 0 .. (Cols - 1)
    BY <2>2, Sizes DEF Lines
  <2> QED BY <2>1, <2>4, <2>5, <2>6, <2>7, <2>8, <2>9 DEF TypeOK
<1> QED BY <1>1, AlwaysGood, PTL

\* At most one kind of sequence is being read, and only after ESC or CSI
\* (flanterm_putchar's flags).
THEOREM OneSequence == Spec => []OneSequenceAtATime
<1>1. term \in Good => OneSequenceAtATime
  BY DEF Good, Sound, Reading, OneSequenceAtATime
<1> QED BY <1>1, AlwaysGood, PTL

\* The colours on the screen follow the attributes, in whatever order sgr set
\* them, and whatever was saved and restored meanwhile.
THEOREM ColoursFollowTheAttributes == Spec => []ColoursFollowAttributes
<1>1. term \in Good => ColoursFollowAttributes
  BY DEF Good, Sound, Steady, ColoursFollow, Shows, ColoursFollowAttributes
<1> QED BY <1>1, AlwaysGood, PTL

\* The line that SetCursorPos is asked for, if it is on the screen.
LEMMA LineThere ==
  ASSUME NEW t \in State, NEW x \in Int, NEW y \in 0 .. (Rows - 1)
  PROVE  SetCursorPos(t, x, y).y = y /\ SetCursorPos(t, x, y).cells = t.cells
         /\ SetCursorPos(t, x, y).top = t.top /\ SetCursorPos(t, x, y).bottom = t.bottom
<1> DEFINE a == IF x < 0 THEN 0 ELSE IF x >= Cols THEN Cols - 1 ELSE x
           b == IF y < 0 THEN 0 ELSE IF y >= Rows THEN Rows - 1 ELSE y
<1>1. b = y
  BY Sizes
<1>2. SetCursorPos(t, x, y) = [t EXCEPT !.x = a, !.y = b]
  BY DEF SetCursorPos
<1> HIDE DEF a, b
<1> QED BY <1>1, <1>2 DEF State

LEMMA StaysInRegion ==
  ASSUME NEW t \in State, Region(t), InRegion(t)
  PROVE  /\ \A n \in 0 .. Rows : /\ InRegion(CursorUp(t, PosX(t), PosY(t), n))
                                 /\ InRegion(CursorDown(t, PosX(t), PosY(t), n))
         /\ InRegion(NewLine(t, 0)) /\ InRegion(ReverseLineFeed(t))
<1> DEFINE x == PosX(t)
           y == PosY(t)
<1>1. x \in Int /\ 0 \in Int
  BY PositionFacts
<1>2. /\ t.top \in 0 .. (Rows - 1) /\ t.bottom \in 1 .. Rows /\ t.y = y
      /\ y \in t.top .. (t.bottom - 1) /\ t.top < t.bottom
  <2>1. t.top \in 0 .. (Rows - 1) /\ t.bottom \in 1 .. Rows /\ t.y \in t.top .. (t.bottom - 1)
    BY DEF State, Tops, Bottoms, InRegion
  <2>2. t.y = y
    BY <2>1, Sizes DEF PosY
  <2> QED BY <2>1, <2>2, Sizes
<1> HIDE DEF x, y
<1>3. ASSUME NEW u \in State, u.top = t.top, u.bottom = t.bottom,
             NEW a \in Int, NEW b \in t.top .. (t.bottom - 1)
      PROVE  InRegion(SetCursorPos(u, a, b))
  <2>1. b \in 0 .. (Rows - 1)
    BY <1>2, Sizes
  <2>2. SetCursorPos(u, a, b).y = b /\ SetCursorPos(u, a, b).top = t.top
        /\ SetCursorPos(u, a, b).bottom = t.bottom
    BY <1>3, <2>1, LineThere
  <2> QED BY <2>2 DEF InRegion
<1>4. ASSUME NEW n \in 0 .. Rows
      PROVE  InRegion(CursorUp(t, x, y, n)) /\ InRegion(CursorDown(t, x, y, n))
  <2> DEFINE up == IF n > y THEN 0 ELSE y - n
             down == IF y + n > Rows - 1 THEN Rows - 1 ELSE y + n
             to == IF (t.top \in up .. y \/ t.bottom \in up .. y) /\ up < t.top
                   THEN t.top ELSE up
             fro == IF (t.top \in y .. down \/ t.bottom \in y .. down) /\ down >= t.bottom
                    THEN t.bottom - 1 ELSE down
  <2>1. to \in t.top .. (t.bottom - 1) /\ fro \in t.top .. (t.bottom - 1)
    BY <1>2, Sizes
  <2>2. CursorUp(t, x, y, n) = SetCursorPos(t, x, to)
        /\ CursorDown(t, x, y, n) = SetCursorPos(t, x, fro)
    BY DEF CursorUp, CursorDown
  <2> HIDE DEF to, fro
  <2> QED BY <1>1, <1>3, <2>1, <2>2
<1>5. InRegion(NewLine(t, 0))
  <2>1. Scroll(t) \in State /\ Scroll(t).top = t.top /\ Scroll(t).bottom = t.bottom
    BY ScrollFacts, DrawnFacts, DrawnKeepsSettings
  <2>2. CASE y = t.bottom - 1
    <3>1. NewLine(t, 0) = SetCursorPos(Scroll(t), 0, y)
      BY <2>2 DEF NewLine, y
    <3> QED BY <1>1, <1>2, <1>3, <2>1, <3>1
  <2>3. CASE y # t.bottom - 1
    <3>1. NewLine(t, 0) = SetCursorPos(t, 0, y + 1)
      BY <2>3 DEF NewLine, y
    <3>2. y + 1 \in t.top .. (t.bottom - 1)
      BY <1>2, <2>3
    <3> QED BY <1>1, <1>3, <3>1, <3>2
  <2> QED BY <2>2, <2>3
<1>6. InRegion(ReverseLineFeed(t))
  <2>1. t.top \in Nat
    BY <1>2
  <2>2. RevScroll(t, t.top) \in State /\ RevScroll(t, t.top).top = t.top
        /\ RevScroll(t, t.top).bottom = t.bottom
    BY <2>1, RevScrollFacts, DrawnFacts, DrawnKeepsSettings
  <2>3. CASE y = t.top
    <3>1. ReverseLineFeed(t) = SetCursorPos(RevScroll(t, t.top), 0, y)
      BY <2>3 DEF ReverseLineFeed, y
    <3> QED BY <1>1, <1>2, <1>3, <2>2, <3>1
  <2>4. CASE y # t.top
    <3>1. ReverseLineFeed(t) = SetCursorPos(t, 0, y - 1)
      BY <2>4 DEF ReverseLineFeed, y
    <3>2. y - 1 \in t.top .. (t.bottom - 1)
      BY <1>2, <2>4
    <3> QED BY <1>1, <1>3, <3>1, <3>2
  <2> QED BY <2>3, <2>4
<1> QED BY <1>4, <1>5, <1>6 DEF x, y

\* Moving up and down, by any amount, does not leave the scroll region
\* (csi A, B, E and F, line feeds and reverse line feeds).
THEOREM CursorStays == Spec => []CursorStaysInRegion
<1>1. term \in Good => CursorStaysInRegion
  <2> SUFFICES ASSUME term \in Good PROVE CursorStaysInRegion
    OBVIOUS
  <2>1. term \in State /\ Region(term)
    BY DEF Good, Sound, Steady
  <2> QED BY <2>1, StaysInRegion DEF CursorStaysInRegion
<1> QED BY <1>1, AlwaysGood, PTL

-----------------------------------------------------------------------------
(* Lines. *)

\* The line of a cell that lies between the beginnings of two lines.
LEMMA LineOf ==
  ASSUME NEW i \in Int, NEW a \in Int, NEW b \in Int, i \in (a * Cols) .. (b * Cols - 1)
  PROVE  i \div Cols \in a .. (b - 1)
<1> DEFINE q == i \div Cols
           r == i % Cols
<1>1. Cols \in Nat /\ Cols > 0
  BY ScreenAssumption
<1>2. i = Cols * q + r
  BY <1>1
<1>3. q \in Int /\ r \in 0 .. (Cols - 1)
  BY <1>1
<1> HIDE DEF q, r
<1>4. a * Cols \in Int /\ b * Cols \in Int /\ a * Cols <= i /\ i < b * Cols
  BY <1>1
<1>5. ~(q < a)
  <2> SUFFICES ASSUME q < a PROVE FALSE
    OBVIOUS
  <2>1. (q + 1) * Cols <= a * Cols
    BY <1>1, <1>3
  <2>2. (q + 1) * Cols = Cols * q + Cols
    BY <1>1, <1>3
  <2>3. Cols * q \in Int
    BY <1>1, <1>3
  <2> QED BY <1>1, <1>2, <1>3, <1>4, <2>1, <2>2, <2>3
<1>6. ~(q >= b)
  <2> SUFFICES ASSUME q >= b PROVE FALSE
    OBVIOUS
  <2>1. q * Cols >= b * Cols
    BY <1>1, <1>3
  <2>2. q * Cols = Cols * q /\ Cols * q \in Int
    BY <1>1, <1>3
  <2> QED BY <1>1, <1>2, <1>3, <1>4, <2>1, <2>2
<1>7. q \in a .. (b - 1)
  BY <1>3, <1>5, <1>6
<1> QED BY <1>7 DEF q

LEMMA LineOfCell ==
  ASSUME NEW x \in 0 .. (Cols - 1), NEW y \in Int
  PROVE  Cell(x, y) \div Cols = y
<1>1. y * Cols \in Int /\ (y + 1) * Cols = y * Cols + Cols
  BY Sizes
<1>2. Cell(x, y) \in Int /\ Cell(x, y) \in (y * Cols) .. ((y + 1) * Cols - 1)
  BY <1>1, Sizes DEF Cell
<1>3. Cell(x, y) \div Cols \in y .. (y + 1 - 1)
  BY <1>2, LineOf
<1> QED BY <1>3

\* Scrolling changes the region.
LEMMA ScrollChanges ==
  ASSUME NEW t \in State, Region(t), NEW i \in Cells
  PROVE  /\ Scroll(t).cells[i] # t.cells[i] => i \div Cols \in t.top .. (t.bottom - 1)
         /\ RevScroll(t, t.top).cells[i] # t.cells[i] => i \div Cols \in t.top .. (t.bottom - 1)
<1>1. t.top \in 0 .. (Rows - 1) /\ t.bottom \in 1 .. Rows /\ t.top < t.bottom /\ i \in Int
  BY Sizes DEF State, Tops, Bottoms, Region, Cells
<1>2. Scroll(t).cells[i] =
        IF i \in (t.top * Cols) .. ((t.bottom - 1) * Cols - 1) THEN t.cells[i + Cols]
        ELSE IF i \div Cols = t.bottom - 1 THEN Empty(t) ELSE t.cells[i]
  BY DEF Scroll, State
<1>3. RevScroll(t, t.top).cells[i] =
        IF i \in ((t.top + 1) * Cols) .. (t.bottom * Cols - 1) THEN t.cells[i - Cols]
        ELSE IF i \div Cols = t.top THEN Empty(t) ELSE t.cells[i]
  BY DEF RevScroll, State
<1>4. i \in (t.top * Cols) .. ((t.bottom - 1) * Cols - 1)
        => i \div Cols \in t.top .. (t.bottom - 1 - 1)
  BY <1>1, LineOf
<1>5. i \in ((t.top + 1) * Cols) .. (t.bottom * Cols - 1)
        => i \div Cols \in (t.top + 1) .. (t.bottom - 1)
  BY <1>1, LineOf
<1> DEFINE q == i \div Cols
           within == i \in (t.top * Cols) .. ((t.bottom - 1) * Cols - 1)
           below == i \in ((t.top + 1) * Cols) .. (t.bottom * Cols - 1)
<1>6. /\ Scroll(t).cells[i] # t.cells[i] => within \/ q = t.bottom - 1
      /\ RevScroll(t, t.top).cells[i] # t.cells[i] => below \/ q = t.top
      /\ within => q \in t.top .. (t.bottom - 1 - 1)
      /\ below => q \in (t.top + 1) .. (t.bottom - 1)
  BY <1>2, <1>3, <1>4, <1>5
<1> HIDE DEF q, within, below
<1>7. /\ Scroll(t).cells[i] # t.cells[i] => q \in t.top .. (t.bottom - 1)
      /\ RevScroll(t, t.top).cells[i] # t.cells[i] => q \in t.top .. (t.bottom - 1)
  BY <1>1, <1>6
<1> QED BY <1>7 DEF q

LEMMA ChangesStay ==
  ASSUME term \in State, Region(term), NEW i \in Cells
  PROVE  LET region == term.top .. (term.bottom - 1)
             print == RawPutchar(term, "a")
         IN  /\ NewLine(term, 0).cells[i] # term.cells[i] => i \div Cols \in region
             /\ ReverseLineFeed(term).cells[i] # term.cells[i] => i \div Cols \in region
             /\ print.cells[i] # term.cells[i] => i \div Cols \in region \cup {print.y}
             /\ term.y \notin region /\ print.cells[i] # term.cells[i] => i \div Cols = print.y
<1> DEFINE region == term.top .. (term.bottom - 1)
           print == RawPutchar(term, "a")
           y == PosY(term)
<1>1. Scroll(term).cells[i] # term.cells[i] => i \div Cols \in region
  BY ScrollChanges
<1>2. RevScroll(term, term.top).cells[i] # term.cells[i] => i \div Cols \in region
  BY ScrollChanges
<1>0. term.y \notin region => term.y + 1 # term.bottom
  <2>1. term.top \in 0 .. (Rows - 1) /\ term.bottom \in 1 .. Rows
    BY DEF State, Tops, Bottoms
  <2>2. term.y \in Int
    BY Sizes DEF State, Lines
  <2>3. term.top < term.bottom
    BY <2>1, Sizes DEF Region
  <2> QED BY <2>1, <2>2, <2>3, Sizes
<1> HIDE DEF region
<1>3. y \in 0 .. (Rows - 1) /\ term.top \in 0 .. (Rows - 1) /\ term.bottom \in 1 .. Rows /\ 0 \in Int
  BY PositionFacts DEF State, Tops, Bottoms
<1>4. Scroll(term) \in State /\ RevScroll(term, term.top) \in State
  <2>1. term.top \in Nat
    BY <1>3
  <2> QED BY <2>1, ScrollFacts, RevScrollFacts, DrawnFacts
<1>5. ASSUME NEW u \in State, NEW b \in Int
      PROVE  SetCursorPos(u, 0, b).cells = u.cells
  BY DEF SetCursorPos, State
<1>6. NewLine(term, 0).cells[i] # term.cells[i] => i \div Cols \in region
  <2>1. NewLine(term, 0) = IF y = term.bottom - 1 THEN SetCursorPos(Scroll(term), 0, y)
                           ELSE SetCursorPos(term, 0, y + 1)
    BY DEF NewLine
  <2> HIDE DEF y
  <2>2. y \in Int /\ y + 1 \in Int
    BY <1>3
  <2>3. NewLine(term, 0).cells = Scroll(term).cells \/ NewLine(term, 0).cells = term.cells
    BY <1>4, <1>5, <2>1, <2>2
  <2> QED BY <1>1, <2>3
<1>7. ReverseLineFeed(term).cells[i] # term.cells[i] => i \div Cols \in region
  <2>1. ReverseLineFeed(term) =
          IF y = term.top THEN SetCursorPos(RevScroll(term, term.top), 0, y)
          ELSE SetCursorPos(term, 0, y - 1)
    BY DEF ReverseLineFeed
  <2> HIDE DEF y
  <2>2. y \in Int /\ y - 1 \in Int
    BY <1>3
  <2>3. \/ ReverseLineFeed(term).cells = RevScroll(term, term.top).cells
        \/ ReverseLineFeed(term).cells = term.cells
    BY <1>4, <1>5, <2>1, <2>2
  <2> QED BY <1>2, <2>3
<1>8. /\ print.cells[i] # term.cells[i] => i \div Cols \in region \cup {print.y}
      /\ term.y \notin region /\ print.cells[i] # term.cells[i] => i \div Cols = print.y
  <2> SUFFICES ASSUME print.cells[i] # term.cells[i],
                      i \div Cols \notin region \/ term.y \notin region
               PROVE  i \div Cols = print.y
    OBVIOUS
  <2>1. "a" \in Names
    BY DEF Names
  <2> DEFINE g == Glyph(term, "a")
             z == NextLine(term).y
             h == IF term.y + 1 = term.bottom THEN Scroll(term).cells ELSE term.cells
  <2>2. /\ ~Wraps(term) =>
             /\ print.y = term.y
             /\ print.cells = IF OnScreen(term.x, term.y)
                              THEN [term.cells EXCEPT ![Cell(term.x, term.y)] = g]
                              ELSE term.cells
        /\ Wraps(term) =>
             /\ print.y = z
             /\ print.cells = IF OnScreen(0, z) THEN [h EXCEPT ![Cell(0, z)] = g] ELSE h
    BY <2>1, RawPutcharFacts
  <2>3. term.cells \in Canvas /\ h \in Canvas
    <3>1. term.cells \in Canvas /\ Scroll(term).cells \in Canvas
      BY <1>4 DEF State
    <3> QED BY <3>1
  <2>4. h[i] = term.cells[i]
    BY <1>0, <1>1
  <2>5. DOMAIN term.cells = Cells /\ DOMAIN h = Cells
    BY <2>3 DEF Canvas
  <2> HIDE DEF print, g, z, h
  <2>6. CASE ~Wraps(term)
    <3>1. OnScreen(term.x, term.y) /\ i = Cell(term.x, term.y)
      BY <2>2, <2>5, <2>6
    <3>2. term.x \in 0 .. (Cols - 1) /\ term.y \in Int
      BY <3>1 DEF OnScreen
    <3> QED BY <2>2, <2>6, <3>1, <3>2, LineOfCell
  <2>7. CASE Wraps(term)
    <3>1. OnScreen(0, z) /\ i = Cell(0, z)
      BY <2>2, <2>4, <2>5, <2>7
    <3>2. 0 \in 0 .. (Cols - 1) /\ z \in Int
      BY <3>1 DEF OnScreen
    <3> QED BY <2>2, <2>7, <3>1, <3>2, LineOfCell
  <2> QED BY <2>6, <2>7
<1> QED BY <1>6, <1>7, <1>8 DEF region

\* Outside of the region a line feed only moves.
LEMMA OutsideOnlyMoves ==
  ASSUME term \in State, Region(term), PosY(term) \notin term.top .. (term.bottom - 1)
  PROVE  NewLine(term, 0).cells = term.cells /\ ReverseLineFeed(term).cells = term.cells
<1> DEFINE y == PosY(term)
<1>1. /\ y \in Int /\ term.top \in Int /\ term.bottom \in Int /\ term.top < term.bottom
  <2>1. term.top \in 0 .. (Rows - 1) /\ term.bottom \in 1 .. Rows
    BY DEF State, Tops, Bottoms
  <2>2. y \in Int
    BY PositionFacts, Sizes
  <2>3. term.top < term.bottom
    BY <2>1, Sizes DEF Region
  <2> QED BY <2>1, <2>2, <2>3, Sizes
<1>2. y # term.bottom - 1 /\ y # term.top
  BY <1>1
<1>3. NewLine(term, 0) = SetCursorPos(term, 0, y + 1)
      /\ ReverseLineFeed(term) = SetCursorPos(term, 0, y - 1)
  BY <1>2 DEF NewLine, ReverseLineFeed
<1> HIDE DEF y
<1>4. ASSUME NEW b \in Int PROVE SetCursorPos(term, 0, b).cells = term.cells
  BY DEF SetCursorPos, State
<1> QED BY <1>1, <1>3, <1>4

\* Line feeds and printing change no line outside the region, but the one that
\* is printed on; and with the cursor outside of it they scroll nothing.
THEOREM ScrollingStays == Spec => []ScrollingStaysInRegion
<1>1. term \in Good => ScrollingStaysInRegion
  <2> SUFFICES ASSUME term \in Good PROVE ScrollingStaysInRegion
    OBVIOUS
  <2>1. term \in State /\ Region(term)
    BY DEF Good, Sound, Steady
  <2> DEFINE region == term.top .. (term.bottom - 1)
             print == RawPutchar(term, "a")
  <2>2. \A i \in Cells :
          /\ NewLine(term, 0).cells[i] # term.cells[i] => i \div Cols \in region
          /\ ReverseLineFeed(term).cells[i] # term.cells[i] => i \div Cols \in region
          /\ print.cells[i] # term.cells[i] => i \div Cols \in region \cup {print.y}
          /\ term.y \notin region /\ print.cells[i] # term.cells[i] => i \div Cols = print.y
    BY <2>1, ChangesStay
  <2>4. PosY(term) \notin region => /\ NewLine(term, 0).cells = term.cells
                                   /\ ReverseLineFeed(term).cells = term.cells
    BY <2>1, OutsideOnlyMoves
  <2> HIDE DEF region, print
  <2>3. /\ ChangedLines(NewLine(term, 0)) \subseteq region
        /\ ChangedLines(ReverseLineFeed(term)) \subseteq region
        /\ ChangedLines(print) \subseteq region \cup {print.y}
        /\ term.y \notin region => ChangedLines(print) \subseteq {print.y}
    BY <2>2 DEF ChangedLines
  <2> QED BY <2>3, <2>4 DEF ScrollingStaysInRegion, region, print
<1> QED BY <1>1, AlwaysGood, PTL

-----------------------------------------------------------------------------
(* Editing. *)

\* A cell has one column and one line.
LEMMA CellOf ==
  ASSUME NEW i \in Cells
  PROVE  /\ i % Cols \in 0 .. (Cols - 1) /\ i \div Cols \in 0 .. (Rows - 1)
         /\ i = (i \div Cols) * Cols + (i % Cols)
<1>1. Cols \in Nat /\ Cols > 0 /\ i \in Int
  BY ScreenAssumption DEF Cells
<1>2. i = Cols * (i \div Cols) + (i % Cols) /\ i \div Cols \in Int /\ i % Cols \in 0 .. (Cols - 1)
  BY <1>1
<1>3. i \in (0 * Cols) .. (Rows * Cols - 1)
  BY Sizes
<1>4. i \div Cols \in 0 .. (Rows - 1)
  BY <1>1, <1>3, Sizes, LineOf
<1>5. Cols * (i \div Cols) = (i \div Cols) * Cols
  BY <1>1, <1>2
<1> QED BY <1>2, <1>4, <1>5

LEMMA CellIs ==
  ASSUME NEW i \in Cells, NEW x \in 0 .. (Cols - 1), NEW y \in Int
  PROVE  i = Cell(x, y) <=> i % Cols = x /\ i \div Cols = y
<1> DEFINE c == i % Cols
           r == i \div Cols
<1>1. c \in 0 .. (Cols - 1) /\ r \in 0 .. (Rows - 1) /\ i = r * Cols + c
  BY CellOf
<1>2. ASSUME i = Cell(x, y) PROVE r = y
  BY <1>2, LineOfCell
<1> HIDE DEF c, r
<1>3. y * Cols \in Int
  BY Sizes
<1>4. ASSUME i = y * Cols + x, r = y PROVE c = x
  BY <1>1, <1>3, <1>4, Sizes
<1>5. i = Cell(x, y) <=> c = x /\ r = y
  BY <1>1, <1>2, <1>4 DEF Cell
<1> QED BY <1>5 DEF c, r

\* Two states that were drawn from the same one differ in what is drawn.
LEMMA SameState ==
  ASSUME NEW t \in State, NEW u \in Drawn(t), NEW w \in Drawn(t),
         u.cells = w.cells, u.x = w.x, u.y = w.y
  PROVE  u = w
<1>1. u = With(t, u.cells, u.x, u.y) /\ w = With(t, w.cells, w.x, w.y)
  BY DrawnFacts
<1> QED BY <1>1

\* t with the cells from a to b erased.
Blank(t, a, b) == [i \in Cells |-> IF i \in a .. b THEN Empty(t) ELSE t.cells[i]]

LEMMA BlankType ==
  ASSUME NEW t \in State, NEW a, NEW b
  PROVE  Blank(t, a, b) \in Canvas
<1>1. t.cells \in [Cells -> Pictures]
  BY DEF State, Canvas
<1>2. \A i \in Cells : (IF i \in a .. b THEN Empty(t) ELSE t.cells[i]) \in Pictures
  BY <1>1, EmptyIsPicture
<1> QED BY <1>2 DEF Blank, Canvas

LEMMA BlankGrows ==
  ASSUME NEW t \in State, NEW a \in Int, NEW b \in Int, a <= b + 1, b + 1 \in Cells
  PROVE  [Blank(t, a, b) EXCEPT ![b + 1] = Empty(t)] = Blank(t, a, b + 1)
<1> DEFINE p == b + 1
           f == [Blank(t, a, b) EXCEPT ![p] = Empty(t)]
<1>1. f = [i \in Cells |-> IF i = p THEN Empty(t) ELSE Blank(t, a, b)[i]]
  BY DEF Blank
<1>2. \A i \in Cells : (IF i = p THEN Empty(t) ELSE Blank(t, a, b)[i])
                         = IF i \in a .. p THEN Empty(t) ELSE t.cells[i]
  BY Sizes DEF Blank
<1> HIDE DEF p
<1>3. f = Blank(t, a, p)
  BY <1>1, <1>2 DEF Blank
<1> QED BY <1>3 DEF p

\* A space is printed at the cursor, or, when that is behind a line, in the
\* first column of the next: in the cell that comes next either way.
LEMMA SpaceErases ==
  ASSUME NEW t \in State, NEW u \in Drawn(t), u.y \in 0 .. (Rows - 1), u.x <= Cols,
         u.y * Cols + u.x \in Cells,
         u.x < Cols \/ (t.bottom = Rows /\ Rows <= Cols)
  PROVE  LET v == RawPutchar(u, " ")
             p == u.y * Cols + u.x
         IN  /\ v \in Drawn(t) /\ v.y \in 0 .. (Rows - 1) /\ v.x <= Cols
             /\ v.cells = [u.cells EXCEPT ![p] = Empty(t)]
             /\ v.y * Cols + v.x = p + 1
             /\ u.x < Cols => v.x = u.x + 1 /\ v.y = u.y
<1> DEFINE v == RawPutchar(u, " ")
           p == u.y * Cols + u.x
<1>1. u \in State /\ u.fg = t.fg /\ u.bg = t.bg /\ u.bottom = t.bottom /\ " " \in Names
  BY DrawnFacts, DrawnKeepsSettings DEF Names
<1>2. PICK x \in Nat, y \in 0 .. (Rows - 1), L \in Nat :
        /\ x = u.x /\ y = u.y /\ L = y * Cols /\ L = u.y * Cols
        /\ (y + 1) * Cols = L + Cols /\ x <= Cols
  <2>1. u.x \in Nat
    BY <1>1 DEF State
  <2>2. u.y \in 0 .. Rows
    BY Sizes
  <2>3. u.y * Cols \in 0 .. (Rows * Cols)
    BY <2>2, Sizes
  <2>4. u.y * Cols \in Nat
    BY <2>3, Sizes
  <2>5. (u.y + 1) * Cols = u.y * Cols + Cols
    BY <2>2, Sizes
  <2> QED BY <2>1, <2>4, <2>5
<1>3. Glyph(u, " ") = Empty(t)
  BY <1>1 DEF Glyph, Empty
<1>4. v \in Drawn(t)
  BY <1>1, RawPutcharFacts, DrawnAgain
<1>5. /\ ~Wraps(u) =>
           /\ v.x = u.x + 1 /\ v.y = u.y
           /\ v.cells = IF OnScreen(u.x, u.y)
                        THEN [u.cells EXCEPT ![Cell(u.x, u.y)] = Empty(t)] ELSE u.cells
      /\ Wraps(u) =>
           /\ v.x = 1 /\ v.y = NextLine(u).y
           /\ u.y + 1 # u.bottom /\ OnScreen(0, NextLine(u).y)
                => v.cells = [u.cells EXCEPT ![Cell(0, NextLine(u).y)] = Empty(t)]
  <2> DEFINE z == NextLine(u).y
             h == IF u.y + 1 = u.bottom THEN Scroll(u).cells ELSE u.cells
  <2>1. /\ ~Wraps(u) =>
             /\ v.x = u.x + 1 /\ v.y = u.y
             /\ v.cells = IF OnScreen(u.x, u.y)
                          THEN [u.cells EXCEPT ![Cell(u.x, u.y)] = Glyph(u, " ")] ELSE u.cells
        /\ Wraps(u) =>
             /\ v.x = 1 /\ v.y = z
             /\ v.cells = IF OnScreen(0, z) THEN [h EXCEPT ![Cell(0, z)] = Glyph(u, " ")] ELSE h
    BY <1>1, RawPutcharFacts
  <2> HIDE DEF v, z
  <2> QED BY <1>3, <2>1 DEF z
<1> HIDE DEF v
<1>6. p = L + x /\ L + x \in 0 .. (Rows * Cols - 1)
  BY <1>2 DEF Cells
<1> HIDE DEF p
<1>7. CASE x < Cols
  <2>1. ~Wraps(u)
    BY <1>2, <1>7, Sizes DEF Wraps
  <2>2. OnScreen(u.x, u.y) /\ Cell(u.x, u.y) = p
    <3>1. OnScreen(x, y)
      BY <1>7, Sizes DEF OnScreen
    <3>2. Cell(x, y) = L + x
      BY <1>2 DEF Cell
    <3> QED BY <1>2, <1>6, <3>1, <3>2
  <2>3. v.x = x + 1 /\ v.y = y /\ v.cells = [u.cells EXCEPT ![p] = Empty(t)]
    BY <1>2, <1>5, <2>1, <2>2
  <2>4. v.y * Cols = L
    BY <1>2, <2>3
  <2>5. v.y * Cols + v.x = p + 1 /\ v.x <= Cols
    BY <1>6, <1>7, <2>3, <2>4, Sizes
  <2> QED BY <1>2, <1>4, <2>3, <2>5 DEF v, p
<1>8. CASE x = Cols /\ t.bottom = Rows /\ Rows <= Cols
  <2>1. (y + 1) * Cols = p /\ p < Rows * Cols
    BY <1>2, <1>6, <1>8, Sizes
  <2>2. y + 1 < Rows
    <3> SUFFICES ASSUME y + 1 >= Rows PROVE FALSE
      BY Sizes
    <3>1. y + 1 = Rows
      BY Sizes
    <3> QED BY <1>6, <2>1, <3>1, Sizes
  <2>3. Wraps(u)
    <3>1. u.bottom = Rows /\ u.y = y /\ u.x = Cols
      BY <1>1, <1>2, <1>8
    <3> QED BY <2>2, <3>1, Sizes DEF Wraps
  <2>4. u.y + 1 # u.bottom /\ NextLine(u).y = y + 1
    <3>1. u.y + 1 = y + 1 /\ u.bottom = Rows
      BY <1>1, <1>2, <1>8
    <3>2. y + 1 # Rows /\ ~(y + 1 >= Cols)
      BY <1>8, <2>2, Sizes
    <3>3. NextLine(u).y = LET z == IF u.y + 1 = u.bottom THEN u.y ELSE u.y + 1
                          IN  IF z >= Cols THEN Cols - 1 ELSE z
      BY <1>1, NextLineFacts
    <3> QED BY <3>1, <3>2, <3>3
  <2>5. OnScreen(0, y + 1) /\ Cell(0, y + 1) = p
    <3>1. y + 1 \in 0 .. (Rows - 1) /\ 0 \in 0 .. (Cols - 1)
      BY <2>2, Sizes
    <3>2. Cell(0, y + 1) = p + 0
      BY <2>1 DEF Cell
    <3> QED BY <1>2, <1>6, <3>1, <3>2 DEF OnScreen
  <2>6. v.x = 1 /\ v.y = y + 1 /\ v.cells = [u.cells EXCEPT ![p] = Empty(t)]
    BY <1>5, <2>3, <2>4, <2>5
  <2>7. v.y * Cols = p /\ v.x <= Cols /\ v.y \in 0 .. (Rows - 1)
    BY <2>1, <2>2, <2>6, Sizes
  <2>8. v.y * Cols + v.x = p + 1
    BY <2>6, <2>7
  <2>9. ~(u.x < Cols)
    BY <1>2, <1>8
  <2> QED BY <1>4, <2>6, <2>7, <2>8, <2>9 DEF v, p
<1> QED
  <2>1. x < Cols \/ x = Cols
    BY <1>2, Sizes
  <2>2. x = u.x
    BY <1>2
  <2> QED BY <1>7, <1>8, <2>1, <2>2

\* Spaces erase the cells from the cursor on: the rest of the line, or what
\* follows up to the end of a region that ends with the screen.
LEMMA SpacesErase ==
  ASSUME NEW t \in State, OnScreen(t.x, t.y), NEW n \in Nat,
         \/ n <= Cols - t.x
         \/ t.bottom = Rows /\ Rows <= Cols /\ Cell(t.x, t.y) + n <= Rows * Cols
  PROVE  /\ Spaces(t, n) \in Drawn(t)
         /\ Spaces(t, n).cells = Blank(t, Cell(t.x, t.y), Cell(t.x, t.y) + n - 1)
         /\ n <= Cols - t.x => Spaces(t, n).x = t.x + n /\ Spaces(t, n).y = t.y
<1> DEFINE here == Cell(t.x, t.y)
<1>1. PICK g \in [0 .. n -> Drawn(t)] :
        /\ g[0] = t /\ Spaces(t, n) = g[n]
        /\ \A k \in 1 .. n : g[k] = RawPutchar(g[k - 1], " ")
  BY ZenonT(60), SpacesRun
<1>2. t.x \in 0 .. (Cols - 1) /\ t.y \in 0 .. (Rows - 1) /\ here = t.y * Cols + t.x
      /\ here \in Cells /\ here \in Int /\ t.cells \in Canvas
  <2>1. t.x \in 0 .. (Cols - 1) /\ t.y \in 0 .. (Rows - 1)
    BY DEF OnScreen
  <2>2. here \in Cells /\ here = t.y * Cols + t.x
    <3>1. t.x \in Int /\ t.y \in Int
      BY <2>1, Sizes
    <3>2. here \in Cells
      BY <3>1, OnScreenIsCell
    <3> QED BY <3>2 DEF Cell
  <2>3. t.cells \in Canvas
    BY ZenonT(60) DEF State
  <2> HIDE DEF here
  <2> QED BY <2>1, <2>2, <2>3, Sizes
<1>3. n <= Cols - t.x => here + n <= Rows * Cols
  <2>1. PICK y \in 0 .. (Rows - 1) : y = t.y
    BY <1>2
  <2>2. (y + 1) * Cols \in 0 .. (Rows * Cols) /\ y * Cols \in 0 .. (Rows * Cols)
    BY Sizes
  <2>3. (y + 1) * Cols = y * Cols + Cols
    BY Sizes
  <2>4. here = y * Cols + t.x
    BY <1>2, <2>1
  <2> DEFINE L == y * Cols
             M == Rows * Cols
  <2>5. L + Cols <= M /\ L \in Int /\ M \in Int
    BY <2>2, <2>3, Sizes
  <2>6. here = L + t.x
    BY <2>4
  <2> HIDE DEF here, L, M
  <2>7. n <= Cols - t.x => here + n <= M
    BY <1>2, <2>5, <2>6, Sizes
  <2> QED BY <2>7 DEF M
<1> DEFINE T == {k \in 0 .. n :
                   /\ g[k].y \in 0 .. (Rows - 1) /\ g[k].x <= Cols
                   /\ g[k].y * Cols + g[k].x = here + k
                   /\ g[k].cells = Blank(t, here, here + k - 1)
                   /\ k <= Cols - t.x => g[k].x = t.x + k /\ g[k].y = t.y}
<1> HIDE DEF here
<1>4. 0 \in T
  <2>1. Blank(t, here, here + 0 - 1) = t.cells
    <3>1. \A i \in Cells : ~(i \in here .. (here + 0 - 1))
      BY <1>2, Sizes
    <3>2. Blank(t, here, here + 0 - 1) = [i \in Cells |-> t.cells[i]]
      BY <3>1 DEF Blank
    <3> QED BY <1>2, <3>2 DEF Canvas
  <2> DEFINE z == g[0]
  <2>2. z.x = t.x /\ z.y = t.y /\ z.cells = t.cells
    BY Zenon, <1>1
  <2> HIDE DEF z
  <2>3. /\ z.y \in 0 .. (Rows - 1) /\ z.x <= Cols /\ z.y * Cols + z.x = here + 0
        /\ z.cells = Blank(t, here, here + 0 - 1)
        /\ 0 <= Cols - t.x => z.x = t.x + 0 /\ z.y = t.y
    BY <1>2, <2>1, <2>2, Sizes
  <2> QED BY <2>3 DEF z
<1>5. ASSUME NEW k \in 0 .. (n - 1), k \in T PROVE k + 1 \in T
  <2>1. k \in 0 .. n /\ k + 1 \in 1 .. n /\ k + 1 \in 0 .. n /\ (k + 1) - 1 = k
    OBVIOUS
  <2> DEFINE u == g[k]
             v == g[k + 1]
  <2>2. u \in Drawn(t) /\ v = RawPutchar(u, " ")
    BY <1>1, <2>1
  <2>3. /\ u.y \in 0 .. (Rows - 1) /\ u.x <= Cols /\ u.y * Cols + u.x = here + k
        /\ u.cells = Blank(t, here, here + k - 1)
        /\ k <= Cols - t.x => u.x = t.x + k /\ u.y = t.y
    BY <1>5
  <2> HIDE DEF u, v, T
  <2>4. here + k \in Cells /\ (u.x < Cols \/ (t.bottom = Rows /\ Rows <= Cols))
    <3>1. here + n <= Rows * Cols
      BY <1>3 DEF here
    <3>2. here + k \in Cells
      <4> DEFINE M == Rows * Cols
      <4>1. here \in 0 .. (M - 1) /\ M \in Nat /\ Cells = 0 .. (M - 1) /\ here + n <= M
        BY <1>2, <3>1, Sizes
      <4> HIDE DEF M
      <4>2. here + k \in 0 .. (M - 1)
        BY <4>1
      <4> QED BY <4>1, <4>2
    <3>3. CASE n <= Cols - t.x
      <4>1. u.x = t.x + k
        BY <1>2, <2>3, <3>3, Sizes
      <4> QED BY <1>2, <3>2, <3>3, <4>1, Sizes
    <3> QED BY <3>2, <3>3
  <2>5. /\ v.y \in 0 .. (Rows - 1) /\ v.x <= Cols
        /\ v.cells = [u.cells EXCEPT ![here + k] = Empty(t)]
        /\ v.y * Cols + v.x = here + k + 1
        /\ u.x < Cols => v.x = u.x + 1 /\ v.y = u.y
    BY ZenonT(60), <2>2, <2>3, <2>4, SpaceErases
  <2>6. v.cells = Blank(t, here, here + (k + 1) - 1)
    <3> DEFINE b == here + k - 1
    <3>1. b \in Int /\ b + 1 = here + k /\ here <= b + 1 /\ here + (k + 1) - 1 = b + 1
      BY <1>2
    <3> HIDE DEF b
    <3>2. [Blank(t, here, b) EXCEPT ![b + 1] = Empty(t)] = Blank(t, here, b + 1)
      BY <1>2, <2>4, <3>1, BlankGrows
    <3>3. u.cells = Blank(t, here, b)
      BY <2>3 DEF b
    <3> QED BY <2>5, <3>1, <3>2, <3>3
  <2>7. k + 1 <= Cols - t.x => v.x = t.x + (k + 1) /\ v.y = t.y
    <3> SUFFICES ASSUME k + 1 <= Cols - t.x PROVE v.x = t.x + (k + 1) /\ v.y = t.y
      OBVIOUS
    <3>1. k <= Cols - t.x /\ t.x + k < Cols
      BY <1>2, Sizes
    <3>2. u.x = t.x + k /\ u.y = t.y
      BY <2>3, <3>1
    <3>3. v.x = u.x + 1 /\ v.y = u.y
      BY <2>5, <3>1, <3>2
    <3> QED BY <1>2, <3>2, <3>3
  <2>8. v.y * Cols + v.x = here + (k + 1)
    BY <1>2, <2>5
  <2> QED BY <2>1, <2>5, <2>6, <2>7, <2>8 DEF T, v
<1> HIDE DEF T
<1>6. n \in T
  <2>1. \A k \in 0 .. n : k \in T
    BY <1>4, <1>5, UpTo
  <2> QED BY <2>1
<1> QED BY <1>1, <1>6 DEF T, here

\* Another picture, with the cursor where it was.
LEMMA RedrawnIs ==
  ASSUME NEW t \in State, NEW u \in Drawn(t), u.x = t.x, u.y = t.y
  PROVE  u = [t EXCEPT !.cells = u.cells]
<1>1. u.cells \in Canvas
  BY DrawnFacts DEF State
<1> DEFINE w == [t EXCEPT !.cells = u.cells]
<1>2. w \in Drawn(t) /\ w.cells = u.cells /\ w.x = t.x /\ w.y = t.y
  BY <1>1, Redrawn
<1> HIDE DEF w
<1>3. u = w
  BY <1>2, SameState
<1> QED BY <1>3 DEF w

LEMMA CursorPlaced ==
  ASSUME NEW t \in State, NEW x \in Int, NEW y \in Int, OnScreen(x, y)
  PROVE  /\ SetCursorPos(t, x, y) \in Drawn(t) /\ SetCursorPos(t, x, y) \in State
         /\ SetCursorPos(t, x, y).x = x /\ SetCursorPos(t, x, y).y = y
         /\ SetCursorPos(t, x, y).cells = t.cells
<1> DEFINE Clamp(v, n) == IF v < 0 THEN 0 ELSE IF v >= n THEN n - 1 ELSE v
           a == Clamp(x, Cols)
           b == Clamp(y, Rows)
<1>1. a = x /\ b = y /\ x \in Nat /\ y \in Lines /\ t.cells \in Canvas
  BY Sizes DEF OnScreen, State, Lines
<1>2. SetCursorPos(t, x, y) = [t EXCEPT !.x = a, !.y = b]
  BY DEF SetCursorPos
<1> HIDE DEF a, b
<1>3. [t EXCEPT !.x = a, !.y = b] = With(t, t.cells, a, b)
  BY <1>1 DEF State, With
<1>4. SetCursorPos(t, x, y) = With(t, t.cells, x, y)
  BY <1>1, <1>2, <1>3
<1> QED BY <1>1, <1>4, WithFacts DEF Drawn

\* A character moved, cell by cell.
LEMMA MovedCell ==
  ASSUME NEW t \in State, NEW newX \in Int, NEW newY \in Int, NEW oldX \in Int, NEW oldY \in Int,
         OnScreen(oldX, oldY), NEW j \in Cells
  PROVE  MoveCharacter(t, newX, newY, oldX, oldY).cells[j] =
           IF OnScreen(newX, newY) /\ j = Cell(newX, newY) THEN t.cells[Cell(oldX, oldY)]
           ELSE t.cells[j]
<1> DEFINE ch == t.cells[Cell(oldX, oldY)]
<1>1. ch \in Pictures /\ DOMAIN t.cells = Cells
  BY OnScreenIsCell DEF State, Canvas
<1>2. MoveCharacter(t, newX, newY, oldX, oldY) = Put(t, ch, newX, newY)
  BY DEF MoveCharacter
<1> HIDE DEF ch
<1>3. Put(t, ch, newX, newY).cells =
        IF OnScreen(newX, newY) THEN [t.cells EXCEPT ![Cell(newX, newY)] = ch] ELSE t.cells
  BY <1>1, PutFacts
<1>4. Put(t, ch, newX, newY).cells[j] =
        IF OnScreen(newX, newY) /\ j = Cell(newX, newY) THEN ch ELSE t.cells[j]
  BY <1>1, <1>3
<1> QED BY <1>2, <1>4 DEF ch

\* The cursor put back to where it was.
LEMMA PutBack ==
  ASSUME NEW t \in State, OnScreen(t.x, t.y), NEW u \in Drawn(t)
  PROVE  SetCursorPos(u, t.x, t.y) = [t EXCEPT !.cells = u.cells]
<1> DEFINE w == SetCursorPos(u, t.x, t.y)
<1>1. u \in State /\ t.x \in Int /\ t.y \in Int
  BY DrawnFacts DEF OnScreen
<1>2. w \in Drawn(u) /\ w.cells = u.cells /\ w.x = t.x /\ w.y = t.y
  BY <1>1, CursorPlaced
<1>3. w \in Drawn(t)
  BY <1>1, <1>2, DrawnAgain
<1> HIDE DEF w
<1>4. w = [t EXCEPT !.cells = u.cells]
  BY <1>2, <1>3, RedrawnIs
<1> QED BY <1>4 DEF w

\* Canvases that agree in every cell.
LEMMA SameCanvas ==
  ASSUME NEW c \in Canvas, NEW d \in Canvas, \A i \in Cells : c[i] = d[i]
  PROVE  c = d
BY DEF Canvas

LEMMA DrawnCanvas ==
  ASSUME NEW t \in State, NEW u \in Drawn(t)
  PROVE  u.cells \in Canvas /\ DOMAIN u.cells = Cells /\ Empty(u) = Empty(t) /\ u \in State
<1>1. u.cells \in Canvas /\ u \in State
  BY DrawnFacts DEF State
<1>2. Empty(u) = Empty(t)
  BY DrawnKeepsSettings DEF Empty
<1> QED BY <1>1, <1>2 DEF Canvas

\* The cells of a part of a line.
LEMMA PartOfLine ==
  ASSUME NEW i \in Cells, NEW a \in 0 .. (Cols - 1), NEW b \in -1 .. (Cols - 1), NEW y \in Int
  PROVE  i \in Cell(a, y) .. (y * Cols + b) <=> i \div Cols = y /\ i % Cols \in a .. b
<1> DEFINE c == i % Cols
           r == i \div Cols
           L == y * Cols
<1>1. c \in 0 .. (Cols - 1) /\ r \in 0 .. (Rows - 1) /\ i = r * Cols + c
  BY CellOf
<1>2. L \in Int /\ (y + 1) * Cols = L + Cols /\ i \in Int
  BY Sizes DEF Cells
<1>3. i \in L .. (L + Cols - 1) => r = y
  <2> SUFFICES ASSUME i \in L .. (L + Cols - 1) PROVE r = y
    OBVIOUS
  <2>0. i \in (y * Cols) .. ((y + 1) * Cols - 1)
    BY <1>2, Sizes
  <2>1. r \in y .. (y + 1 - 1)
    BY <1>2, <2>0, LineOf
  <2> HIDE DEF r
  <2> QED BY <2>1
<1>4. r = y => i = L + c
  BY <1>1
<1>5. Cell(a, y) = L + a
  BY DEF Cell
<1> HIDE DEF c, r, L
<1>6. i \in (L + a) .. (L + b) <=> r = y /\ c \in a .. b
  BY <1>1, <1>2, <1>3, <1>4, Sizes
<1> QED BY <1>5, <1>6 DEF c, r, L

-----------------------------------------------------------------------------
(* Inserting. *)

\* The characters of a line from column a on, moved n columns to the right.
ShiftedFrom(t, y, a, n) ==
  [i \in Cells |-> IF i \div Cols # y \/ i % Cols < a THEN t.cells[i]
                   ELSE IF (i % Cols) - n >= a THEN t.cells[i - n] ELSE Empty(t)]

LEMMA MoveRightFacts ==
  ASSUME NEW t \in State, NEW u \in Drawn(t), NEW y \in 0 .. (Rows - 1), NEW i \in 0 .. (Cols - 1),
         NEW n \in 1 .. Cols, NEW j \in Cells
  PROVE  MoveRight(u, i, n, y).cells[j] =
           IF j \div Cols = y /\ j % Cols = i THEN Empty(t)
           ELSE IF j \div Cols = y /\ j % Cols = i + n THEN u.cells[Cell(i, y)]
           ELSE u.cells[j]
<1> DEFINE v == MoveCharacter(u, i + n, y, i, y)
           w == SetCursorPos(v, i, y)
           z == RawPutchar(w, " ")
<1>1. u \in State /\ " " \in Names /\ i \in Int /\ y \in Int /\ i + n \in Int /\ OnScreen(i, y)
      /\ u.cells \in Canvas /\ DOMAIN u.cells = Cells
  BY DrawnCanvas, Sizes DEF Names, OnScreen
<1>2. v \in Drawn(u) /\ v \in State
  <2>1. v \in Drawn(u)
    BY <1>1, MoveCharacterType DEF DrawnInPlace
  <2> HIDE DEF v
  <2> QED BY <1>1, <2>1, DrawnFacts
<1>12. v.cells[j] = IF OnScreen(i + n, y) /\ j = Cell(i + n, y) THEN u.cells[Cell(i, y)]
                    ELSE u.cells[j]
  <2> DEFINE a == i + n
  <2>1. a \in Int
    BY <1>1
  <2> HIDE DEF a
  <2>2. MoveCharacter(u, a, y, i, y).cells[j] =
          IF OnScreen(a, y) /\ j = Cell(a, y) THEN u.cells[Cell(i, y)] ELSE u.cells[j]
    <3>1. u \in State /\ i \in Int /\ y \in Int /\ OnScreen(i, y)
      BY <1>1
    <3> QED BY <3>1, <2>1, MovedCell
  <2> QED BY <2>2 DEF a, v
<1> HIDE DEF v
<1>3. w \in Drawn(v) /\ w \in State
  BY <1>1, <1>2, CursorPlaced
<1>4. w.x = i /\ w.y = y /\ w.cells = v.cells
  <2>1. v \in State /\ i \in Int /\ y \in Int /\ OnScreen(i, y)
    BY <1>1, <1>2
  <2> QED BY <2>1, CursorPlaced DEF w
<1> HIDE DEF w
<1>5. w \in Drawn(t)
  BY <1>1, <1>2, <1>3, DrawnAgain
<1>6. Glyph(w, " ") = Empty(t)
  BY <1>5, DrawnKeepsSettings DEF Glyph, Empty
<1>7. ~Wraps(w)
  BY <1>4, Sizes DEF Wraps
<1>8. z.cells = [v.cells EXCEPT ![Cell(i, y)] = Empty(t)]
  <2>0. PICK s \in Names : s = " "
    BY <1>1
  <2>1. RawPutchar(w, s).cells =
          IF OnScreen(w.x, w.y) THEN [w.cells EXCEPT ![Cell(w.x, w.y)] = Glyph(w, s)]
          ELSE w.cells
    BY <1>3, <1>7, RawPutcharFacts
  <2> QED BY <1>1, <1>4, <1>6, <2>0, <2>1
<1>9. MoveRight(u, i, n, y) = z
  BY DEF MoveRight, w, v, z
<1> HIDE DEF z
<1>10. v.cells \in Canvas /\ DOMAIN v.cells = Cells
  BY <1>1, <1>2, DrawnCanvas
<1>11. z.cells[j] = IF j = Cell(i, y) THEN Empty(t) ELSE v.cells[j]
  BY <1>8, <1>10
<1>13. j = Cell(i, y) <=> j % Cols = i /\ j \div Cols = y
  BY <1>1, CellIs
<1>14. OnScreen(i + n, y) /\ j = Cell(i + n, y) <=> j % Cols = i + n /\ j \div Cols = y
  <2>1. OnScreen(i + n, y) => (j = Cell(i + n, y) <=> j % Cols = i + n /\ j \div Cols = y)
    BY <1>1, CellIs DEF OnScreen
  <2>2. j % Cols \in 0 .. (Cols - 1)
    BY CellOf
  <2>3. j % Cols = i + n => OnScreen(i + n, y)
    BY <2>2 DEF OnScreen
  <2> QED BY <2>1, <2>3
<1> QED BY <1>9, <1>11, <1>12, <1>13, <1>14

LEMMA InsertStep ==
  ASSUME NEW t \in State, NEW u \in Drawn(t), NEW y \in 0 .. (Rows - 1), NEW i \in 0 .. (Cols - 1),
         NEW n \in 1 .. Cols, \A j \in Cells : u.cells[j] = ShiftedFrom(t, y, i + 1, n)[j]
  PROVE  \A j \in Cells : MoveRight(u, i, n, y).cells[j] = ShiftedFrom(t, y, i, n)[j]
<1> SUFFICES ASSUME NEW j \in Cells
             PROVE  MoveRight(u, i, n, y).cells[j] = ShiftedFrom(t, y, i, n)[j]
  OBVIOUS
<1> DEFINE z == MoveRight(u, i, n, y).cells[j]
           c == j % Cols
           r == j \div Cols
           e == Empty(t)
           here == Cell(i, y)
<1>1. z = IF r = y /\ c = i THEN e
          ELSE IF r = y /\ c = i + n THEN u.cells[here] ELSE u.cells[j]
  BY MoveRightFacts
<1>2. c \in 0 .. (Cols - 1) /\ r \in 0 .. (Rows - 1) /\ j = r * Cols + c /\ i \in Int /\ n \in Int
  BY CellOf, Sizes
<1>3. u.cells[j] = IF r # y \/ c < i + 1 THEN t.cells[j]
                   ELSE IF c - n >= i + 1 THEN t.cells[j - n] ELSE e
  BY DEF ShiftedFrom
<1>4. u.cells[here] = t.cells[here]
  <2>1. here \in Cells
    BY OnScreenIsCell, Sizes DEF OnScreen
  <2>2. here % Cols = i
    BY <2>1, CellIs, Sizes
  <2>3. here % Cols < i + 1
    BY <1>2, <2>2
  <2> QED BY <2>1, <2>3 DEF ShiftedFrom
<1>5. ShiftedFrom(t, y, i, n)[j] = IF r # y \/ c < i THEN t.cells[j]
                                   ELSE IF c - n >= i THEN t.cells[j - n] ELSE e
  BY DEF ShiftedFrom
<1>6. r = y /\ c = i + n => j - n = here
  <2> SUFFICES ASSUME r = y, c = i + n PROVE j - n = here
    OBVIOUS
  <2>1. y * Cols \in Int
    BY Sizes
  <2>2. j = y * Cols + (i + n)
    BY <1>2
  <2> HIDE DEF r, c
  <2> QED BY <1>2, <2>1, <2>2 DEF Cell
<1> HIDE DEF z, c, r, e, here
<1>7. CASE r # y
  BY <1>1, <1>3, <1>5, <1>7 DEF z
<1>8. CASE r = y /\ c < i
  BY <1>1, <1>2, <1>3, <1>5, <1>8 DEF z
<1>9. CASE r = y /\ c = i
  BY <1>1, <1>2, <1>3, <1>5, <1>9 DEF z
<1>10. CASE r = y /\ c > i /\ c < i + n
  BY <1>1, <1>2, <1>3, <1>5, <1>10 DEF z
<1>11. CASE r = y /\ c = i + n
  BY <1>1, <1>2, <1>4, <1>5, <1>6, <1>11 DEF z
<1>12. CASE r = y /\ c > i + n
  BY <1>1, <1>2, <1>3, <1>5, <1>12 DEF z
<1> QED BY <1>2, <1>7, <1>8, <1>9, <1>10, <1>11, <1>12

LEMMA InsertExact ==
  ASSUME NEW t \in State, OnScreen(t.x, t.y), NEW n \in 1 .. Cols
  PROVE  /\ InsertCharacters(t, t.x, t.y, n) \in Drawn(t)
         /\ InsertCharacters(t, t.x, t.y, n) =
              [t EXCEPT !.cells = InsertCharacters(t, t.x, t.y, n).cells]
         /\ \A j \in Cells : InsertCharacters(t, t.x, t.y, n).cells[j]
                               = ShiftedFrom(t, t.y, t.x, n)[j]
<1> DEFINE x == t.x
           y == t.y
           m == Cols - x
<1>1. x \in 0 .. (Cols - 1) /\ y \in 0 .. (Rows - 1) /\ m \in Nat /\ x \in Int /\ y \in Int
      /\ n \in 1 .. Cols /\ n \in Int /\ m = Cols - x
  BY Sizes DEF OnScreen
<1>2. PICK g \in [0 .. m -> Drawn(t)] :
        /\ g[0] = t /\ InsertCharacters(t, x, y, n) = SetCursorPos(g[m], x, y)
        /\ \A k \in 1 .. m : g[k] = MoveRight(g[k - 1], Cols - k, n, y)
  <2> HIDE DEF m, x, y
  <2>1. Inserts(t, x, y, n)
    BY <1>1, InsertCharactersRun DEF m
  <2> QED BY <2>1 DEF Inserts, m
<1> DEFINE T == {k \in 0 .. m : \A j \in Cells : g[k].cells[j] = ShiftedFrom(t, y, Cols - k, n)[j]}
<1> HIDE DEF m, y
<1>3. 0 \in T
  <2>1. ASSUME NEW j \in Cells PROVE t.cells[j] = ShiftedFrom(t, y, Cols - 0, n)[j]
    <3>1. j % Cols < Cols - 0
      BY CellOf, Sizes
    <3> QED BY <3>1 DEF ShiftedFrom
  <2>2. g[0].cells = t.cells
    BY Zenon, <1>2
  <2> QED BY <1>1, <2>1, <2>2
<1>4. ASSUME NEW k \in 0 .. (m - 1), k \in T PROVE k + 1 \in T
  <2> DEFINE i == Cols - (k + 1)
  <2>1. k \in 0 .. m /\ k + 1 \in 1 .. m /\ k + 1 \in 0 .. m /\ (k + 1) - 1 = k
    BY <1>1
  <2>2. g[k] \in Drawn(t) /\ g[k + 1] = MoveRight(g[k], i, n, y)
    BY <1>2, <2>1
  <2>3. i \in 0 .. (Cols - 1) /\ i + 1 = Cols - k
    BY <1>1, <2>1, Sizes
  <2>4. \A j \in Cells : g[k].cells[j] = ShiftedFrom(t, y, i + 1, n)[j]
    BY <1>4, <2>3
  <2>5. \A j \in Cells : g[k + 1].cells[j] = ShiftedFrom(t, y, i, n)[j]
    <3> DEFINE a == g[k]
    <3>1. a \in Drawn(t) /\ \A j \in Cells : a.cells[j] = ShiftedFrom(t, y, i + 1, n)[j]
      BY <2>2, <2>4
    <3> HIDE DEF i, a
    <3>2. \A j \in Cells : MoveRight(a, i, n, y).cells[j] = ShiftedFrom(t, y, i, n)[j]
      BY <1>1, <2>3, <3>1, InsertStep
    <3> QED BY <2>2, <3>2 DEF a
  <2> QED BY <2>1, <2>5
<1> HIDE DEF T
<1>5. m \in T
  <2>1. \A k \in 0 .. m : k \in T
    BY <1>1, <1>3, <1>4, UpTo
  <2> QED BY <1>1, <2>1
<1>6. Cols - m = x
  BY <1>1, Sizes
<1>7. \A j \in Cells : g[m].cells[j] = ShiftedFrom(t, y, x, n)[j]
  BY <1>5, <1>6 DEF T
<1>8. g[m] \in Drawn(t)
  BY <1>1, <1>2
<1> DEFINE w == g[m]
<1>9. SetCursorPos(w, x, y) = [t EXCEPT !.cells = w.cells]
  BY <1>8, PutBack DEF y
<1>10. w.cells \in Canvas
  BY <1>8, DrawnCanvas
<1> DEFINE ins == InsertCharacters(t, x, y, n)
<1>11. ins = [t EXCEPT !.cells = w.cells]
  BY <1>2, <1>9
<1> HIDE DEF ins, w
<1>12. ins \in Drawn(t) /\ ins.cells = w.cells
  BY <1>10, <1>11, Redrawn
<1> QED BY <1>7, <1>11, <1>12 DEF ins, w, y

-----------------------------------------------------------------------------
(* Deleting. *)

\* The columns of a line from x on, k of them, taken from n columns further right.
MovedBack(t, y, x, n, k) ==
  [i \in Cells |-> IF i \div Cols = y /\ i % Cols \in x .. (x + k - 1) THEN t.cells[i + n]
                   ELSE t.cells[i]]

LEMMA DeleteStep ==
  ASSUME NEW t \in State, NEW u \in Drawn(t), NEW y \in 0 .. (Rows - 1), NEW x \in 0 .. (Cols - 1),
         NEW n \in 1 .. Cols, NEW k \in Nat, x + k + n <= Cols - 1,
         \A j \in Cells : u.cells[j] = MovedBack(t, y, x, n, k)[j]
  PROVE  \A j \in Cells : MoveCharacter(u, x + k, y, x + k + n, y).cells[j]
                            = MovedBack(t, y, x, n, k + 1)[j]
<1> SUFFICES ASSUME NEW j \in Cells
             PROVE  MoveCharacter(u, x + k, y, x + k + n, y).cells[j]
                      = MovedBack(t, y, x, n, k + 1)[j]
  OBVIOUS
<1> DEFINE a == x + k
           b == x + k + n
           c == j % Cols
           r == j \div Cols
           from == Cell(b, y)
           to == Cell(a, y)
<1>1. a \in 0 .. (Cols - 1) /\ b \in 0 .. (Cols - 1) /\ b = a + n /\ a \in Int /\ b \in Int
      /\ y \in Int /\ n \in Int /\ x \in Int /\ n > 0 /\ a = x + k
  BY Sizes
<1>2. OnScreen(a, y) /\ OnScreen(b, y) /\ u \in State
  BY <1>1, DrawnFacts DEF OnScreen
<1> HIDE DEF a, b
<1>3. from \in Cells /\ to \in Cells /\ y * Cols \in Int
  <2>1. from \in Cells
    BY <1>1, <1>2, OnScreenIsCell
  <2>2. to \in Cells
    BY <1>1, <1>2, OnScreenIsCell
  <2> HIDE DEF from, to
  <2> QED BY <1>1, <2>1, <2>2, Sizes
<1>4. from = to + n
  BY <1>1, <1>3 DEF Cell
<1>5. u.cells[from] = t.cells[from]
  <2>1. from % Cols = b
    BY <1>1, <1>3, CellIs
  <2>2. ~(from % Cols \in x .. (x + k - 1))
    BY <1>1, <2>1
  <2> QED BY <1>3, <2>2 DEF MovedBack
<1> HIDE DEF from, to
<1>6. MoveCharacter(u, a, y, b, y).cells[j] = IF j = to THEN u.cells[from] ELSE u.cells[j]
  <2>1. MoveCharacter(u, a, y, b, y).cells[j] =
          IF OnScreen(a, y) /\ j = Cell(a, y) THEN u.cells[Cell(b, y)] ELSE u.cells[j]
    BY <1>1, <1>2, MovedCell
  <2> QED BY <1>2, <2>1 DEF from, to
<1>7. j = to <=> c = a /\ r = y
  BY <1>1, CellIs DEF to
<1>8. c \in Int
  BY CellOf
<1>9. u.cells[j] = IF r = y /\ c \in x .. (x + k - 1) THEN t.cells[j + n] ELSE t.cells[j]
  BY DEF MovedBack
<1>10. MovedBack(t, y, x, n, k + 1)[j]
         = IF r = y /\ c \in x .. (x + (k + 1) - 1) THEN t.cells[j + n] ELSE t.cells[j]
  BY DEF MovedBack
<1> HIDE DEF c, r
<1>11. c \in x .. (x + (k + 1) - 1) <=> c = a \/ c \in x .. (x + k - 1)
  BY <1>1, <1>8
<1>12. ~(a \in x .. (x + k - 1))
  BY <1>1
<1>13. MoveCharacter(u, a, y, b, y).cells[j] = MovedBack(t, y, x, n, k + 1)[j]
  BY <1>4, <1>5, <1>6, <1>7, <1>9, <1>10, <1>11, <1>12
<1> QED BY <1>13 DEF a, b

\* The characters of a line from column x on, moved n columns to the left.
ShiftedTo(t, y, x, n) ==
  [i \in Cells |-> IF i \div Cols # y \/ i % Cols < x THEN t.cells[i]
                   ELSE IF (i % Cols) + n <= Cols - 1 THEN t.cells[i + n] ELSE Empty(t)]

\* What spaces at the end of a line leave.
LEMMA LineEndErased ==
  ASSUME NEW t \in State, NEW u \in Drawn(t), NEW y \in 0 .. (Rows - 1), NEW n \in 1 .. Cols
  PROVE  LET w == Spaces(SetCursorPos(u, Cols - n, y), n)
         IN  /\ w \in Drawn(t)
             /\ \A j \in Cells : w.cells[j] = IF j \div Cols = y /\ j % Cols \in (Cols - n) .. (Cols - 1)
                                              THEN Empty(t) ELSE u.cells[j]
<1> DEFINE a == Cols - n
           v == SetCursorPos(u, a, y)
           w == Spaces(v, n)
           p == Cell(a, y)
<1>1. a \in 0 .. (Cols - 1) /\ a \in Int /\ y \in Int /\ n = Cols - a /\ n \in Nat /\ u \in State
  BY Sizes, DrawnFacts
<1>2. OnScreen(a, y)
  BY <1>1 DEF OnScreen
<1>3. p \in Int /\ p + n - 1 = y * Cols + (Cols - 1)
  <2>1. y * Cols \in Int /\ p = y * Cols + a
    BY Sizes DEF Cell
  <2> HIDE DEF p, a
  <2> QED BY <1>1, <2>1, Sizes
<1> HIDE DEF a
<1>4. v \in Drawn(u) /\ v \in State /\ v.x = a /\ v.y = y /\ v.cells = u.cells
  BY <1>1, <1>2, CursorPlaced
<1> HIDE DEF v
<1>5. v \in Drawn(t)
  BY <1>4, DrawnAgain
<1>6. OnScreen(v.x, v.y) /\ n <= Cols - v.x /\ Cell(v.x, v.y) = p
  BY <1>1, <1>2, <1>4
<1>7. w \in Drawn(v) /\ w.cells = Blank(v, p, p + n - 1)
  BY <1>1, <1>4, <1>6, SpacesErase
<1>8. Empty(v) = Empty(t)
  BY <1>5, DrawnCanvas
<1> HIDE DEF w, p
<1>9. w \in Drawn(t)
  BY <1>5, <1>7, DrawnAgain
<1>10. ASSUME NEW j \in Cells
       PROVE  w.cells[j] = IF j \div Cols = y /\ j % Cols \in a .. (Cols - 1)
                           THEN Empty(t) ELSE u.cells[j]
  <2>1. w.cells[j] = IF j \in p .. (p + n - 1) THEN Empty(t) ELSE u.cells[j]
    BY <1>4, <1>7, <1>8 DEF Blank
  <2>2. Cols - 1 \in -1 .. (Cols - 1)
    BY Sizes
  <2>3. j \in p .. (y * Cols + (Cols - 1)) <=> j \div Cols = y /\ j % Cols \in a .. (Cols - 1)
    BY <1>1, <2>2, PartOfLine DEF p
  <2> QED BY <1>3, <2>1, <2>3
<1> QED BY <1>9, <1>10 DEF w, v, a

LEMMA DeleteExact ==
  ASSUME NEW t \in State, OnScreen(t.x, t.y), NEW n \in 1 .. (Cols - t.x)
  PROVE  /\ DeleteCharacters(t, t.x, t.y, n) \in Drawn(t)
         /\ DeleteCharacters(t, t.x, t.y, n) =
              [t EXCEPT !.cells = DeleteCharacters(t, t.x, t.y, n).cells]
         /\ \A j \in Cells : DeleteCharacters(t, t.x, t.y, n).cells[j]
                               = ShiftedTo(t, t.y, t.x, n)[j]
<1> DEFINE x == t.x
           y == t.y
           m == Cols - x - n
           del == DeleteCharacters(t, x, y, n)
<1>1. x \in 0 .. (Cols - 1) /\ y \in 0 .. (Rows - 1) /\ m \in Nat /\ x \in Int /\ y \in Int
      /\ n \in 1 .. Cols /\ n \in Int /\ n \in Nat /\ m = Cols - x - n
  BY Sizes DEF OnScreen
<1> HIDE DEF m
<1>2. Deletes(t, x, y, n, m)
  BY <1>1, DeleteCharactersRun
<1> HIDE DEF x, y
<1>3. PICK g \in [0 .. m -> Drawn(t)] :
        /\ g[0] = t
        /\ DeleteCharacters(t, x, y, n)
             = EraseCharacters(SetCursorPos(g[m], Cols - n, y), x, y, n)
        /\ \A k \in 1 .. m : g[k] = MoveCharacter(g[k - 1], x + k - 1, y, x + n + k - 1, y)
  BY <1>2 DEF Deletes
<1> DEFINE T == {k \in 0 .. m : \A j \in Cells : g[k].cells[j] = MovedBack(t, y, x, n, k)[j]}
<1>4. 0 \in T
  <2>1. ASSUME NEW j \in Cells PROVE t.cells[j] = MovedBack(t, y, x, n, 0)[j]
    <3>1. ~(j % Cols \in x .. (x + 0 - 1))
      BY <1>1
    <3> QED BY <3>1 DEF MovedBack
  <2>2. g[0].cells = t.cells
    BY Zenon, <1>3
  <2> QED BY <1>1, <2>1, <2>2
<1>5. ASSUME NEW k \in 0 .. (m - 1), k \in T PROVE k + 1 \in T
  <2>1. k \in 0 .. m /\ k + 1 \in 1 .. m /\ k + 1 \in 0 .. m /\ k \in Nat
        /\ (k + 1) - 1 = k /\ x + (k + 1) - 1 = x + k /\ x + n + (k + 1) - 1 = x + k + n
        /\ x + k + n <= Cols - 1
    BY <1>1, Sizes
  <2> DEFINE u == g[k]
  <2>2. u \in Drawn(t) /\ g[k + 1] = MoveCharacter(u, x + k, y, x + k + n, y)
    BY <1>3, <2>1
  <2>3. \A j \in Cells : u.cells[j] = MovedBack(t, y, x, n, k)[j]
    BY <1>5
  <2> HIDE DEF u, T
  <2>4. \A j \in Cells : MoveCharacter(u, x + k, y, x + k + n, y).cells[j]
                           = MovedBack(t, y, x, n, k + 1)[j]
    BY SMTT(30), <1>1, <2>1, <2>2, <2>3, DeleteStep
  <2> QED BY <2>1, <2>2, <2>4 DEF T
<1> HIDE DEF T
<1>6. m \in T
  <2>1. \A k \in 0 .. m : k \in T
    BY <1>1, <1>4, <1>5, UpTo
  <2> QED BY <1>1, <2>1
<1> DEFINE u == g[m]
           w == Spaces(SetCursorPos(u, Cols - n, y), n)
<1>7. u \in Drawn(t) /\ \A j \in Cells : u.cells[j] = MovedBack(t, y, x, n, m)[j]
  BY <1>1, <1>3, <1>6 DEF T
<1>8. del = SetCursorPos(w, x, y)
  BY <1>3 DEF EraseCharacters
<1> HIDE DEF u
<1>9. w \in Drawn(t)
      /\ \A j \in Cells : w.cells[j] = IF j \div Cols = y /\ j % Cols \in (Cols - n) .. (Cols - 1)
                                       THEN Empty(t) ELSE u.cells[j]
  BY <1>1, <1>7, LineEndErased
<1> HIDE DEF w
<1>10. ASSUME NEW j \in Cells PROVE w.cells[j] = ShiftedTo(t, y, x, n)[j]
  <2> DEFINE c == j % Cols
             r == j \div Cols
  <2>1. c \in 0 .. (Cols - 1)
    BY CellOf
  <2>2. w.cells[j] = IF r = y /\ c \in (Cols - n) .. (Cols - 1) THEN Empty(t)
                     ELSE IF r = y /\ c \in x .. (x + m - 1) THEN t.cells[j + n] ELSE t.cells[j]
    BY <1>7, <1>9 DEF MovedBack
  <2>3. ShiftedTo(t, y, x, n)[j] = IF r # y \/ c < x THEN t.cells[j]
                                   ELSE IF c + n <= Cols - 1 THEN t.cells[j + n] ELSE Empty(t)
    BY DEF ShiftedTo
  <2> HIDE DEF c, r
  <2> QED BY <1>1, <2>1, <2>2, <2>3, Sizes
<1>11. SetCursorPos(w, x, y) = [t EXCEPT !.cells = w.cells]
  BY <1>9, PutBack DEF x, y
<1>12. w.cells \in Canvas
  BY <1>9, DrawnCanvas
<1>13. del = [t EXCEPT !.cells = w.cells]
  BY <1>8, <1>11
<1> HIDE DEF del
<1>14. del \in Drawn(t) /\ del.cells = w.cells
  BY <1>12, <1>13, Redrawn
<1> QED BY <1>10, <1>13, <1>14 DEF del, x, y

-----------------------------------------------------------------------------
(* Erasing, and all the editing. *)

\* Spaces from column a of line b on, n of them, and the cursor put back.
SpacesFrom(t, a, b, n) == Spaces(SetCursorPos(t, a, b), n)

LEMMA SpacesFromErase ==
  ASSUME NEW t \in State, NEW a \in 0 .. (Cols - 1), NEW b \in 0 .. (Rows - 1), NEW n \in Nat,
         \/ n <= Cols - a
         \/ t.bottom = Rows /\ Rows <= Cols /\ Cell(a, b) + n <= Rows * Cols
  PROVE  /\ SpacesFrom(t, a, b, n) \in Drawn(t)
         /\ SpacesFrom(t, a, b, n).cells = Blank(t, Cell(a, b), Cell(a, b) + n - 1)
         /\ n <= Cols - a => SpacesFrom(t, a, b, n).x = a + n /\ SpacesFrom(t, a, b, n).y = b
<1> DEFINE v == SetCursorPos(t, a, b)
           w == Spaces(v, n)
           p == Cell(a, b)
<1>1. a \in Int /\ b \in Int /\ OnScreen(a, b)
  BY Sizes DEF OnScreen
<1>2. v \in Drawn(t) /\ v \in State /\ v.x = a /\ v.y = b /\ v.cells = t.cells
  BY <1>1, CursorPlaced
<1> HIDE DEF v
<1>3. v.bottom = t.bottom
  BY <1>2, DrawnKeepsSettings
<1>4. Empty(v) = Empty(t)
  BY <1>2, DrawnCanvas
<1>5. OnScreen(v.x, v.y) /\ Cell(v.x, v.y) = p
      /\ (n <= Cols - v.x \/ (v.bottom = Rows /\ Rows <= Cols /\ Cell(v.x, v.y) + n <= Rows * Cols))
  BY <1>1, <1>2, <1>3
<1> HIDE DEF p
<1>6. w \in Drawn(v) /\ w.cells = Blank(v, p, p + n - 1)
      /\ (n <= Cols - a => w.x = a + n /\ w.y = b)
  BY <1>2, <1>5, SpacesErase
<1>7. Blank(v, p, p + n - 1) = Blank(t, p, p + n - 1)
  BY <1>2, <1>4 DEF Blank
<1> HIDE DEF w
<1>8. w \in Drawn(t)
  BY <1>2, <1>6, DrawnAgain
<1> QED BY <1>6, <1>7, <1>8 DEF w, v, p, SpacesFrom

\* Where the cursor is is where it is put.
LEMMA CursorThere ==
  ASSUME NEW t \in State, OnScreen(t.x, t.y)
  PROVE  SetCursorPos(t, t.x, t.y) = t
<1> DEFINE w == SetCursorPos(t, t.x, t.y)
<1>1. t.x \in Int /\ t.y \in Int
  BY Sizes DEF OnScreen
<1>2. w \in Drawn(t) /\ w.x = t.x /\ w.y = t.y /\ w.cells = t.cells
  BY <1>1, CursorPlaced
<1> HIDE DEF w
<1>3. w = t
  BY <1>2, SameState, DrawnSelf
<1> QED BY <1>3 DEF w

\* The cells from a to b erased, and nothing else changed.
BlankedOut(t, a, b) == [t EXCEPT !.cells = Blank(t, a, b)]

LEMMA SpacesAndBack ==
  ASSUME NEW t \in State, OnScreen(t.x, t.y),
         NEW a \in 0 .. (Cols - 1), NEW b \in 0 .. (Rows - 1), NEW n \in Nat,
         \/ n <= Cols - a
         \/ t.bottom = Rows /\ Rows <= Cols /\ Cell(a, b) + n <= Rows * Cols
  PROVE  SetCursorPos(SpacesFrom(t, a, b, n), t.x, t.y)
           = BlankedOut(t, Cell(a, b), Cell(a, b) + n - 1)
<1> DEFINE w == SpacesFrom(t, a, b, n)
<1>1. w \in Drawn(t) /\ w.cells = Blank(t, Cell(a, b), Cell(a, b) + n - 1)
  BY SpacesFromErase
<1> HIDE DEF w
<1>2. SetCursorPos(w, t.x, t.y) = [t EXCEPT !.cells = w.cells]
  BY <1>1, PutBack
<1> QED BY <1>1, <1>2 DEF w, BlankedOut

LEMMA EraseInLineExact ==
  ASSUME NEW t \in State, OnScreen(t.x, t.y)
  PROVE  /\ EraseInLine(t, t.x, t.y, 0) = BlankedOut(t, Cell(t.x, t.y), Cell(Cols - 1, t.y))
         /\ EraseInLine(t, t.x, t.y, 1) = BlankedOut(t, Cell(0, t.y), Cell(t.x, t.y) - 1)
         /\ EraseInLine(t, t.x, t.y, 2) = BlankedOut(t, Cell(0, t.y), Cell(Cols - 1, t.y))
<1> DEFINE x == t.x
           y == t.y
<1>1. x \in 0 .. (Cols - 1) /\ y \in 0 .. (Rows - 1) /\ x \in Nat /\ x <= Cols - 0
      /\ 0 \in 0 .. (Cols - 1) /\ Cols \in Nat /\ Cols - x \in Nat
  BY Sizes DEF OnScreen
<1>2. /\ Cell(x, y) + (Cols - x) - 1 = Cell(Cols - 1, y)
      /\ Cell(0, y) + x - 1 = Cell(x, y) - 1
      /\ Cell(0, y) + Cols - 1 = Cell(Cols - 1, y)
  <2>1. PICK L \in Int : y * Cols = L
    BY <1>1
  <2> HIDE DEF x, y
  <2> QED BY <1>1, <2>1 DEF Cell
<1>3. EraseInLine(t, x, y, 0) = BlankedOut(t, Cell(x, y), Cell(Cols - 1, y))
  <2>1. EraseInLine(t, x, y, 0) = SetCursorPos(Spaces(t, Cols - x), x, y)
    BY DEF EraseInLine
  <2>2. Spaces(t, Cols - x) = SpacesFrom(t, x, y, Cols - x)
    BY CursorThere DEF SpacesFrom
  <2>3. SetCursorPos(SpacesFrom(t, x, y, Cols - x), x, y)
          = BlankedOut(t, Cell(x, y), Cell(x, y) + (Cols - x) - 1)
    BY <1>1, SpacesAndBack
  <2> QED BY <1>2, <2>1, <2>2, <2>3
<1>4. EraseInLine(t, x, y, 1) = BlankedOut(t, Cell(0, y), Cell(x, y) - 1)
  <2> DEFINE w == SpacesFrom(t, 0, y, x)
  <2>1. EraseInLine(t, x, y, 1) = w
    BY DEF EraseInLine, SpacesFrom
  <2>2. w \in Drawn(t) /\ w.cells = Blank(t, Cell(0, y), Cell(0, y) + x - 1)
        /\ w.x = 0 + x /\ w.y = y
    BY <1>1, SpacesFromErase
  <2> HIDE DEF w
  <2>3. w.x = t.x /\ w.y = t.y
    BY <1>1, <2>2
  <2>4. w = [t EXCEPT !.cells = w.cells]
    BY <2>2, <2>3, RedrawnIs
  <2> QED BY <1>2, <2>1, <2>2, <2>4 DEF BlankedOut
<1>5. EraseInLine(t, x, y, 2) = BlankedOut(t, Cell(0, y), Cell(Cols - 1, y))
  <2>1. EraseInLine(t, x, y, 2) = SetCursorPos(SpacesFrom(t, 0, y, Cols), x, y)
    BY DEF EraseInLine, SpacesFrom
  <2>2. Cols <= Cols - 0
    BY <1>1
  <2>3. SetCursorPos(SpacesFrom(t, 0, y, Cols), x, y)
          = BlankedOut(t, Cell(0, y), Cell(0, y) + Cols - 1)
    BY <1>1, <2>2, SpacesAndBack
  <2> QED BY <1>2, <2>1, <2>3
<1> QED BY <1>3, <1>4, <1>5

LEMMA EraseCharactersExact ==
  ASSUME NEW t \in State, OnScreen(t.x, t.y), NEW n \in 0 .. (Cols - t.x)
  PROVE  EraseCharacters(t, t.x, t.y, n)
           = BlankedOut(t, Cell(t.x, t.y), Cell(t.x, t.y) + n - 1)
<1>1. t.x \in 0 .. (Cols - 1) /\ t.y \in 0 .. (Rows - 1) /\ n \in Nat /\ n <= Cols - t.x
  BY Sizes DEF OnScreen
<1>2. EraseCharacters(t, t.x, t.y, n) = SetCursorPos(SpacesFrom(t, t.x, t.y, n), t.x, t.y)
  BY CursorThere DEF EraseCharacters, SpacesFrom
<1> QED BY <1>1, <1>2, SpacesAndBack

LEMMA EraseInDisplayExact ==
  ASSUME NEW t \in State, OnScreen(t.x, t.y), t.bottom = Rows, Rows <= Cols
  PROVE  /\ EraseInDisplay(t, t.x, t.y, 0) = BlankedOut(t, Cell(t.x, t.y), Rows * Cols - 1)
         /\ EraseInDisplay(t, t.x, t.y, 1) = BlankedOut(t, 0, Cell(t.x, t.y))
<1> DEFINE x == t.x
           y == t.y
           k == (Rows - (y + 1)) * Cols + Cols - x
           l == y * Cols + x + 1
<1>1. x \in 0 .. (Cols - 1) /\ y \in 0 .. (Rows - 1) /\ x \in Nat
      /\ 0 \in 0 .. (Cols - 1) /\ 0 \in 0 .. (Rows - 1) /\ Cols \in Nat
  BY Sizes DEF OnScreen
<1>2. Cell(x, y) \in Cells /\ Cell(x, y) = y * Cols + x /\ Cell(0, 0) = 0
  BY <1>1, OnScreenIsCell DEF Cell
<1> HIDE DEF x, y
<1>3. k \in Nat /\ Cell(x, y) + k = Rows * Cols
  <2>1. (Rows - (y + 1)) * Cols = Rows * Cols - y * Cols - Cols
    BY <1>1, Sizes
  <2>2. PICK L \in Int, M \in Nat : L = y * Cols /\ M = Rows * Cols
    BY <1>1, Sizes
  <2>3. k = M - (L + x) /\ Cell(x, y) = L + x /\ L + x \in 0 .. (M - 1)
    BY <1>1, <1>2, <2>1, <2>2, Sizes
  <2> HIDE DEF k
  <2> QED BY <1>1, <2>2, <2>3
<1>4. l \in Nat /\ Cell(0, 0) + l <= Rows * Cols /\ Cell(0, 0) + l - 1 = Cell(x, y)
  <2>1. PICK L \in Int, M \in Nat : L = y * Cols /\ M = Rows * Cols
    BY <1>1, Sizes
  <2>2. l = L + x + 1 /\ Cell(x, y) = L + x /\ L + x \in 0 .. (M - 1)
    BY <1>1, <1>2, <2>1, Sizes
  <2> HIDE DEF l
  <2> QED BY <1>1, <1>2, <2>1, <2>2
<1>5. EraseInDisplay(t, x, y, 0) = BlankedOut(t, Cell(x, y), Rows * Cols - 1)
  <2>1. EraseInDisplay(t, x, y, 0) = SetCursorPos(Spaces(t, k), x, y)
    BY DEF EraseInDisplay
  <2> HIDE DEF k
  <2>2. Spaces(t, k) = SpacesFrom(t, x, y, k)
    BY CursorThere DEF SpacesFrom, x, y
  <2>3. SetCursorPos(SpacesFrom(t, x, y, k), x, y)
          = BlankedOut(t, Cell(x, y), Cell(x, y) + k - 1)
    <3>1. k \in Nat /\ Cell(x, y) + k <= Rows * Cols
      BY <1>3, Sizes
    <3>2. t.x \in 0 .. (Cols - 1) /\ t.y \in 0 .. (Rows - 1) /\ k \in Nat
          /\ Cell(t.x, t.y) + k <= Rows * Cols
      BY <1>1, <3>1 DEF x, y
    <3>3. SetCursorPos(SpacesFrom(t, t.x, t.y, k), t.x, t.y)
            = BlankedOut(t, Cell(t.x, t.y), Cell(t.x, t.y) + k - 1)
      BY <3>2, SpacesAndBack
    <3> QED BY <3>3 DEF x, y
  <2>4. Cell(x, y) + k - 1 = Rows * Cols - 1
    BY <1>2, <1>3, Sizes
  <2> QED BY <2>1, <2>2, <2>3, <2>4
<1>6. EraseInDisplay(t, x, y, 1) = BlankedOut(t, 0, Cell(x, y))
  <2>1. EraseInDisplay(t, x, y, 1) = SetCursorPos(SpacesFrom(t, 0, 0, l), x, y)
    BY DEF EraseInDisplay, SpacesFrom
  <2> HIDE DEF l
  <2>2. SetCursorPos(SpacesFrom(t, 0, 0, l), x, y)
          = BlankedOut(t, Cell(0, 0), Cell(0, 0) + l - 1)
    BY <1>1, <1>4, SpacesAndBack DEF x, y
  <2> QED BY <1>2, <1>4, <2>1, <2>2
<1> QED BY <1>5, <1>6 DEF x, y

LEMMA QuietFacts ==
  ASSUME term \in State
  PROVE  /\ Quiet \in State
         /\ Quiet.x = term.x /\ Quiet.y = term.y /\ Quiet.bottom = term.bottom
         /\ Empty(Quiet) = Empty(term)
<1>1. Quiet \in State
  BY ZenonT(60) DEF Quiet, State
<1>2. /\ Quiet.x = term.x /\ Quiet.y = term.y /\ Quiet.bottom = term.bottom
      /\ Quiet.fg = term.fg /\ Quiet.bg = term.bg
  BY DEF Quiet, State
<1> QED BY <1>1, <1>2 DEF Empty

\* The property's words for it.
LEMMA ErasedIs ==
  ASSUME term \in State, NEW a, NEW b
  PROVE  Erased(a, b) = BlankedOut(Quiet, a, b)
<1>1. Empty(Quiet) = Empty(term)
  BY QuietFacts
<1>2. [i \in Cells |-> IF i \in a .. b THEN Empty(term) ELSE Quiet.cells[i]] = Blank(Quiet, a, b)
  BY <1>1 DEF Blank
<1> QED BY <1>2 DEF Erased, BlankedOut

\* Sparing the last cell is erasing up to the one before.
LEMMA SparedIs ==
  ASSUME term \in State, OnScreen(term.x, term.y)
  PROVE  ErasedBut(Cell(term.x, term.y), Cell(0, term.y), Cell(term.x, term.y))
           = BlankedOut(Quiet, Cell(0, term.y), Cell(term.x, term.y) - 1)
<1> DEFINE b == Cell(term.x, term.y)
           a == Cell(0, term.y)
           f == [Blank(Quiet, a, b) EXCEPT ![b] = term.cells[b]]
<1>1. b \in Cells /\ b \in Int /\ a \in Int
  <2>0. term.x \in Int /\ term.y \in Int
    BY Sizes DEF OnScreen
  <2>1. b \in Cells
    BY <2>0, OnScreenIsCell
  <2>2. a \in Int
    BY Sizes DEF Cell, OnScreen
  <2> QED BY <2>1, <2>2 DEF Cells
<1>2. Quiet.cells = term.cells
  BY DEF Quiet, State
<1> HIDE DEF a, b
<1>3. f = Blank(Quiet, a, b - 1)
  <2>1. f = [i \in Cells |-> IF i = b THEN term.cells[b] ELSE Blank(Quiet, a, b)[i]]
    BY DEF Blank
  <2>2. ASSUME NEW i \in Cells
        PROVE  (IF i = b THEN term.cells[b] ELSE Blank(Quiet, a, b)[i]) = Blank(Quiet, a, b - 1)[i]
    <3>1. i \in Int
      BY DEF Cells
    <3>2. i # b => (i \in a .. b <=> i \in a .. (b - 1))
      BY <1>1, <3>1
    <3>3. b \notin a .. (b - 1)
      BY <1>1
    <3> QED BY <1>2, <3>2, <3>3 DEF Blank
  <2>3. Blank(Quiet, a, b - 1) = [i \in Cells |-> Blank(Quiet, a, b - 1)[i]]
    BY DEF Blank
  <2> HIDE DEF f
  <2> QED BY <2>1, <2>2, <2>3
<1>4. Erased(a, b) = [Quiet EXCEPT !.cells = Blank(Quiet, a, b)]
  BY ErasedIs DEF BlankedOut
<1>5. ErasedBut(b, a, b) = [Quiet EXCEPT !.cells = f]
  <2>1. ErasedBut(b, a, b) = [Erased(a, b) EXCEPT !.cells = [Erased(a, b).cells EXCEPT ![b] = term.cells[b]]]
    BY DEF ErasedBut
  <2>2. Quiet \in State
    BY QuietFacts
  <2>3. Erased(a, b).cells = Blank(Quiet, a, b)
    BY <1>4, <2>2 DEF State
  <2>4. [Erased(a, b) EXCEPT !.cells = f] = [Quiet EXCEPT !.cells = f]
    BY <1>4, <2>2 DEF State
  <2> QED BY <2>1, <2>3, <2>4
<1> QED BY <1>3, <1>5 DEF a, b, BlankedOut

LEMMA ShiftedIs ==
  ASSUME term \in State, OnScreen(term.x, term.y), NEW n \in 1 .. Cols
  PROVE  /\ Shifted(n) = [Quiet EXCEPT !.cells = ShiftedFrom(Quiet, term.y, term.x, n)]
         /\ Shifted(-n) = [Quiet EXCEPT !.cells = ShiftedTo(Quiet, term.y, term.x, n)]
<1> DEFINE c(m) == [i \in Cells |->
                      IF i \div Cols # term.y \/ i % Cols < term.x THEN Quiet.cells[i]
                      ELSE IF (i % Cols) - m \in term.x .. (Cols - 1) THEN Quiet.cells[i - m]
                      ELSE Empty(term)]
<1>1. Empty(Quiet) = Empty(term)
  BY QuietFacts
<1>2. term.x \in 0 .. (Cols - 1) /\ n \in Int /\ n > 0
  BY Sizes DEF OnScreen
<1>3. c(n) = ShiftedFrom(Quiet, term.y, term.x, n)
  <2>1. ASSUME NEW i \in Cells, i % Cols >= term.x
        PROVE  (i % Cols) - n \in term.x .. (Cols - 1) <=> (i % Cols) - n >= term.x
    <3>1. i % Cols \in 0 .. (Cols - 1)
      BY CellOf
    <3> QED BY <1>2, <3>1, Sizes
  <2>2. ASSUME NEW i \in Cells PROVE i % Cols < term.x \/ i % Cols >= term.x
    BY <1>2, CellOf
  <2> QED BY <1>1, <2>1, <2>2 DEF ShiftedFrom
<1>4. c(-n) = ShiftedTo(Quiet, term.y, term.x, n)
  <2>1. ASSUME NEW i \in Cells
        PROVE  c(-n)[i] = ShiftedTo(Quiet, term.y, term.x, n)[i]
    <3> DEFINE q == i % Cols
               r == i \div Cols
    <3>1. q \in 0 .. (Cols - 1)
      BY CellOf
    <3>2. c(-n)[i] = IF r # term.y \/ q < term.x THEN Quiet.cells[i]
                     ELSE IF q - (-n) \in term.x .. (Cols - 1) THEN Quiet.cells[i - (-n)]
                     ELSE Empty(term)
      OBVIOUS
    <3>3. ShiftedTo(Quiet, term.y, term.x, n)[i]
            = IF r # term.y \/ q < term.x THEN Quiet.cells[i]
              ELSE IF q + n <= Cols - 1 THEN Quiet.cells[i + n] ELSE Empty(term)
      BY <1>1 DEF ShiftedTo
    <3>4. i - (-n) = i + n /\ q - (-n) = q + n
      BY <1>2, <3>1 DEF Cells
    <3> HIDE DEF q, r, c
    <3>5. q >= term.x => (q + n \in term.x .. (Cols - 1) <=> q + n <= Cols - 1)
      BY <1>2, <3>1, Sizes
    <3>6. q < term.x \/ q >= term.x
      BY <1>2, <3>1
    <3> QED BY <3>2, <3>3, <3>4, <3>5, <3>6
  <2>2. DOMAIN ShiftedTo(Quiet, term.y, term.x, n) = Cells
    BY DEF ShiftedTo
  <2>3. c(-n) = [i \in Cells |-> c(-n)[i]]
        /\ ShiftedTo(Quiet, term.y, term.x, n)
             = [i \in Cells |-> ShiftedTo(Quiet, term.y, term.x, n)[i]]
    BY DEF ShiftedTo
  <2> HIDE DEF c
  <2> QED BY <2>1, <2>3
<1>5. Shifted(n) = [Quiet EXCEPT !.cells = c(n)] /\ Shifted(-n) = [Quiet EXCEPT !.cells = c(-n)]
  BY DEF Shifted
<1> HIDE DEF c
<1> QED BY <1>3, <1>4, <1>5

\* A drawing that is known cell by cell.
LEMMA DrawingIs ==
  ASSUME NEW t \in State, NEW u \in Drawn(t), u = [t EXCEPT !.cells = u.cells], NEW d,
         d = [i \in Cells |-> d[i]], \A j \in Cells : u.cells[j] = d[j]
  PROVE  u = [t EXCEPT !.cells = d]
<1>1. u.cells = [i \in Cells |-> u.cells[i]]
  BY DrawnCanvas DEF Canvas
<1>2. u.cells = d
  BY <1>1
<1> QED BY <1>2

\* Inserting, deleting and erasing change exactly the cells EditingIsExact lists,
\* wherever the cursor stands on the screen and whatever the sequences before have
\* set (control_sequence_parse's '@', 'P', 'K', 'X' and 'J').
THEOREM EditingExact == Spec => []EditingIsExact
<1>1. term \in Good => EditingIsExact
  <2> SUFFICES ASSUME term \in Good, OnScreen(term.x, term.y) PROVE EditingIsExact
    BY DEF EditingIsExact
  <2>1. term \in State
    BY DEF Good
  <2> DEFINE t == Quiet
             x == term.x
             y == term.y
  <2>2. t \in State /\ t.x = x /\ t.y = y /\ t.bottom = term.bottom /\ OnScreen(t.x, t.y)
    BY <2>1, QuietFacts
  <2> HIDE DEF t, x, y
  <2>3. ASSUME NEW n \in 1 .. Cols
        PROVE  InsertCharacters(t, x, y, n) = Shifted(n)
    <3> DEFINE u == InsertCharacters(t, x, y, n)
               d == ShiftedFrom(t, y, x, n)
    <3>1. u \in Drawn(t) /\ u = [t EXCEPT !.cells = u.cells] /\ \A j \in Cells : u.cells[j] = d[j]
      BY <2>2, InsertExact
    <3>2. d = [i \in Cells |-> d[i]]
      BY DEF ShiftedFrom
    <3> HIDE DEF u, d
    <3>3. u = [t EXCEPT !.cells = d]
      BY <2>2, <3>1, <3>2, DrawingIs
    <3>4. Shifted(n) = [t EXCEPT !.cells = d]
      BY <2>1, ShiftedIs DEF t, d, x, y
    <3> QED BY <3>3, <3>4 DEF u
  <2>4. ASSUME NEW n \in 1 .. (Cols - x)
        PROVE  DeleteCharacters(t, x, y, n) = Shifted(-n)
    <3>0. n \in 1 .. Cols
      BY <2>2, Sizes DEF OnScreen
    <3> DEFINE u == DeleteCharacters(t, x, y, n)
               d == ShiftedTo(t, y, x, n)
    <3>1. u \in Drawn(t) /\ u = [t EXCEPT !.cells = u.cells] /\ \A j \in Cells : u.cells[j] = d[j]
      BY <2>2, DeleteExact
    <3>2. d = [i \in Cells |-> d[i]]
      BY DEF ShiftedTo
    <3> HIDE DEF u, d
    <3>3. u = [t EXCEPT !.cells = d]
      BY <2>2, <3>1, <3>2, DrawingIs
    <3>4. Shifted(-n) = [t EXCEPT !.cells = d]
      BY <2>1, <3>0, ShiftedIs DEF t, d, x, y
    <3> QED BY <3>3, <3>4 DEF u
  <2>5. \A a, b : Erased(a, b) = BlankedOut(t, a, b)
    BY <2>1, ErasedIs DEF t
  <2>6. /\ EraseInLine(t, x, y, 0) = Erased(Cell(x, y), Cell(Cols - 1, y))
        /\ EraseInLine(t, x, y, 1) = ErasedBut(Cell(x, y), Cell(0, y), Cell(x, y))
        /\ EraseInLine(t, x, y, 2) = Erased(Cell(0, y), Cell(Cols - 1, y))
    BY <2>1, <2>2, <2>5, EraseInLineExact, SparedIs DEF t, x, y
  <2>7. \A n \in 0 .. (Cols - x) :
          EraseCharacters(t, x, y, n) = Erased(Cell(x, y), Cell(x, y) + n - 1)
    BY <2>2, <2>5, EraseCharactersExact
  <2>8. term.bottom = Rows /\ Rows <= Cols =>
          /\ EraseInDisplay(t, x, y, 0) = Erased(Cell(x, y), Rows * Cols - 1)
          /\ EraseInDisplay(t, x, y, 1) = Erased(0, Cell(x, y))
    BY <2>2, <2>5, EraseInDisplayExact
  <2> QED BY <2>3, <2>4, <2>6, <2>7, <2>8 DEF EditingIsExact, t, x, y
<1> QED BY <1>1, AlwaysGood, PTL
=============================================================================
