------------------------- MODULE FlantermFb_proofs -------------------------
(***************************************************************************)
(* Proofs about flanterm's framebuffer backend, for screens of any size    *)
(* and any number of callbacks between two flushes.                        *)
(***************************************************************************)
EXTENDS FlantermFb, FoldFacts, SequenceTheorems

-----------------------------------------------------------------------------
(* Cells and positions. *)

LEMMA DivMod ==
  ASSUME NEW i \in Int
  PROVE  /\ i \div Cols \in Int /\ i % Cols \in 0 .. (Cols - 1)
         /\ i = (i \div Cols) * Cols + (i % Cols)
<1>1. Cols \in Nat /\ Cols > 0
  BY ScreenAssumption
<1>2. i = Cols * (i \div Cols) + (i % Cols)
  BY <1>1
<1>3. i \div Cols \in Int /\ i % Cols \in 0 .. (Cols - 1)
  BY <1>1
<1> QED BY <1>1, <1>2, <1>3

\* Row and column of a cell number are found by division.
LEMMA DivModOf ==
  ASSUME NEW x \in 0 .. (Cols - 1), NEW y \in Int
  PROVE  (y * Cols + x) \div Cols = y /\ (y * Cols + x) % Cols = x
<1>1. Cols \in Nat /\ Cols > 0
  BY ScreenAssumption
<1> DEFINE i == y * Cols + x
           q == i \div Cols
           r == i % Cols
<1>2. y * Cols \in Int /\ i \in Int
  BY <1>1
<1>3. q \in Int /\ r \in 0 .. (Cols - 1) /\ i = q * Cols + r
  BY <1>2, DivMod
<1>4. q = y
  <2>1. q * Cols + r = y * Cols + x
    BY <1>3
  <2> HIDE DEF i, q, r
  <2>2. (q - y) * Cols = x - r
    BY <1>1, <1>3, <2>1
  <2>3. x - r < Cols /\ x - r > - Cols
    BY <1>1, <1>3
  <2>4. CASE q > y
    <3>1. (q - y) * Cols >= Cols
      BY <1>1, <1>3, <2>4
    <3> QED BY <1>1, <1>3, <2>2, <2>3, <3>1
  <2>5. CASE q < y
    <3>1. (q - y) * Cols <= - Cols
      BY <1>1, <1>3, <2>5
    <3> QED BY <1>1, <1>3, <2>2, <2>3, <3>1
  <2> QED BY <1>3, <2>4, <2>5
<1>5. r = x
  <2>1. y * Cols + r = y * Cols + x
    BY <1>3, <1>4
  <2> HIDE DEF r
  <2> QED BY <1>2, <1>3, <2>1
<1> QED BY <1>4, <1>5

LEMMA OnScreenIsCell ==
  ASSUME NEW x \in 0 .. (Cols - 1), NEW y \in Int
  PROVE  OnScreen(x, y) <=> Cell(x, y) \in Cells
<1>1. Rows \in Nat /\ Cols \in Nat /\ Rows > 0 /\ Cols > 0
  BY ScreenAssumption
<1>2. y * Cols \in Int /\ Rows * Cols \in Int
  BY <1>1
<1>3. CASE y < 0
  <2>1. y * Cols <= - Cols
    BY <1>1, <1>3
  <2> QED BY <1>1, <1>2, <1>3, <2>1 DEF OnScreen, Cell, Cells
<1>4. CASE y \in 0 .. (Rows - 1)
  <2>1. y * Cols >= 0
    BY <1>1, <1>4
  <2>2. (y + 1) * Cols <= Rows * Cols
    BY <1>1, <1>4
  <2>3. (y + 1) * Cols = y * Cols + Cols
    BY <1>1
  <2> QED BY <1>1, <1>2, <1>4, <2>1, <2>2, <2>3 DEF OnScreen, Cell, Cells
<1>5. CASE y >= Rows
  <2>1. y * Cols >= Rows * Cols
    BY <1>1, <1>5
  <2> QED BY <1>1, <1>2, <1>5, <2>1 DEF OnScreen, Cell, Cells
<1> QED BY <1>1, <1>3, <1>4, <1>5

LEMMA CellsDiffer ==
  ASSUME NEW x, NEW y, NEW p, NEW q, OnScreen(x, y), OnScreen(p, q), Cell(x, y) = Cell(p, q)
  PROVE  x = p /\ y = q
<1>1. x \in 0 .. (Cols - 1) /\ p \in 0 .. (Cols - 1) /\ y \in Int /\ q \in Int
  BY DEF OnScreen
<1>2. Cell(x, y) \div Cols = y /\ Cell(x, y) % Cols = x
  BY <1>1, DivModOf DEF Cell
<1>3. Cell(p, q) \div Cols = q /\ Cell(p, q) % Cols = p
  BY <1>1, DivModOf DEF Cell
<1> QED BY <1>2, <1>3

\* Every cell has its position.
LEMMA CellFacts ==
  ASSUME NEW i \in Int
  PROVE  /\ i % Cols \in 0 .. (Cols - 1) /\ i \div Cols \in Int
         /\ Cell(i % Cols, i \div Cols) = i
         /\ OnScreen(i % Cols, i \div Cols) <=> i \in Cells
<1>1. /\ i \div Cols \in Int /\ i % Cols \in 0 .. (Cols - 1)
      /\ i = (i \div Cols) * Cols + (i % Cols)
  BY DivMod
<1>2. Cell(i % Cols, i \div Cols) = i
  BY <1>1 DEF Cell
<1> QED BY <1>1, <1>2, OnScreenIsCell

-----------------------------------------------------------------------------
(* The backend's state. *)

\* The characters and colours of the cells.
Names == Chars \cup {" "} \cup UNION {{g[i].c : i \in Cells} : g \in StartCells}
Tints == Colours \cup {Default, 0}
Char == [c : Names, fg : Tints, bg : Tints]
Item == [cell : Cells, c : Char]

Backend ==
  [grid : [Cells -> Char], queue : Seq(Item), map : [Cells -> Nat],
   x : Nat, y : Nat, oldX : Nat, oldY : Nat, fg : Tints, bg : Tints,
   saved : [x : Nat, y : Nat, fg : Tints, bg : Tints],
   top : 0 .. (Rows - 1), bottom : 1 .. Rows, scroll : BOOLEAN, enabled : BOOLEAN]

\* map finds the entries of queue: QueueAndMapAgree and that an entry found
\* is one of the queue's.
Indexed(b) ==
  /\ \A j \in DOMAIN b.queue : b.map[b.queue[j].cell] = j
  /\ \A i \in Cells : b.map[i] # 0 =>
       b.map[i] \in DOMAIN b.queue /\ b.queue[b.map[i]].cell = i

Good == {b \in Backend : b.top < b.bottom /\ Indexed(b)}

\* d is b but for the queue and its map.
Alike(b, d) ==
  /\ d.grid = b.grid /\ d.x = b.x /\ d.y = b.y /\ d.oldX = b.oldX /\ d.oldY = b.oldY
  /\ d.fg = b.fg /\ d.bg = b.bg /\ d.saved = b.saved
  /\ d.top = b.top /\ d.bottom = b.bottom /\ d.scroll = b.scroll /\ d.enabled = b.enabled

LEMMA CharAtType ==
  ASSUME NEW b \in Good, NEW i \in Cells
  PROVE  CharAt(b, i) \in Char
<1>1. b.queue \in Seq(Item) /\ b.grid[i] \in Char /\ Indexed(b) /\ b.map[i] \in Nat
  BY DEF Good, Backend
<1>2. CASE b.map[i] # 0
  <2>1. b.map[i] \in 1 .. Len(b.queue)
    BY <1>1, <1>2, LenProperties DEF Indexed
  <2>2. b.queue[b.map[i]] \in Item
    BY <1>1, <2>1, ElementOfSeq
  <2> QED BY <1>2, <2>2 DEF CharAt, Item
<1>3. CASE b.map[i] = 0
  BY <1>1, <1>3 DEF CharAt
<1> QED BY <1>2, <1>3

\* A pushed character is what its cell has from then on, and no other cell
\* changes.
LEMMA PushFacts ==
  ASSUME NEW b \in Good, NEW ch \in Char, NEW x \in Int, NEW y \in Int
  PROVE  /\ Push(b, ch, x, y) \in Good
         /\ Alike(b, Push(b, ch, x, y))
         /\ \A i \in Cells : CharAt(Push(b, ch, x, y), i) =
              IF OnScreen(x, y) /\ i = Cell(x, y) THEN ch ELSE CharAt(b, i)
<1> DEFINE d == Push(b, ch, x, y)
           c == Cell(x, y)
           n == Len(b.queue)
<1>1. /\ b \in Backend /\ Indexed(b) /\ b.top < b.bottom
      /\ b.queue \in Seq(Item) /\ n \in Nat /\ DOMAIN b.queue = 1 .. n
      /\ b.map \in [Cells -> Nat]
  BY LenProperties DEF Good, Backend
<1>2. CASE ~OnScreen(x, y)
  BY <1>2 DEF Push, Alike
<1>3. CASE OnScreen(x, y) /\ b.map[c] # 0
  <2>1. c \in Cells
    BY <1>3, OnScreenIsCell DEF OnScreen
  <2> DEFINE k == b.map[c]
             q == [b.queue EXCEPT ![k].c = ch]
  <2>2. k \in 1 .. n /\ b.queue[k].cell = c /\ b.queue[k] \in Item
    BY <1>1, <1>3, <2>1, ElementOfSeq DEF Indexed
  <2>3. d = [b EXCEPT !.queue = q]
    BY <1>3 DEF Push
  <2>4. [b.queue[k] EXCEPT !.c = ch] \in Item /\ [b.queue[k] EXCEPT !.c = ch].cell = c
        /\ [b.queue[k] EXCEPT !.c = ch].c = ch
    BY <2>2 DEF Item
  <2>5. q \in Seq(Item) /\ Len(q) = n /\ DOMAIN q = 1 .. n
        /\ \A j \in 1 .. n : q[j] = IF j = k THEN [b.queue[k] EXCEPT !.c = ch] ELSE b.queue[j]
    BY <1>1, <2>2, <2>4, ExceptSeq
  <2> HIDE DEF q
  <2>6. d \in Backend /\ d.queue = q /\ d.map = b.map /\ d.grid = b.grid /\ Alike(b, d)
        /\ d.top < d.bottom
    BY <1>1, <2>3, <2>5 DEF Backend, Alike
  <2>7. \A j \in 1 .. n : q[j].cell = b.queue[j].cell
    BY <2>2, <2>4, <2>5
  <2> HIDE DEF d, k
  <2>8. Indexed(d)
    BY SMTT(30), <1>1, <2>5, <2>6, <2>7 DEF Indexed
  <2>9. ASSUME NEW i \in Cells
        PROVE CharAt(d, i) = IF i = c THEN ch ELSE CharAt(b, i)
    <3>1. CASE i = c
      BY <1>3, <2>2, <2>4, <2>5, <2>6, <3>1 DEF CharAt, k
    <3>2. CASE i # c
      <4>1. b.map[i] # 0 => b.map[i] \in 1 .. n /\ b.map[i] # k
        BY <1>1, <2>2, <3>2 DEF Indexed
      <4> QED BY <2>5, <2>6, <3>2, <4>1 DEF CharAt
    <3> QED BY <3>1, <3>2
  <2> QED BY <1>3, <2>6, <2>8, <2>9 DEF Good, d
<1>4. CASE OnScreen(x, y) /\ b.map[c] = 0 /\ b.grid[c] = ch
  BY <1>4 DEF Push, Alike, CharAt
<1>5. CASE OnScreen(x, y) /\ b.map[c] = 0 /\ b.grid[c] # ch
  <2>1. c \in Cells
    BY <1>5, OnScreenIsCell DEF OnScreen
  <2> DEFINE e == [cell |-> c, c |-> ch]
             q == Append(b.queue, e)
             m == [b.map EXCEPT ![c] = n + 1]
  <2>2. e \in Item
    BY <2>1 DEF Item
  <2>3. q \in Seq(Item) /\ Len(q) = n + 1 /\ DOMAIN q = 1 .. (n + 1)
        /\ (\A j \in 1 .. n : q[j] = b.queue[j]) /\ q[n + 1] = e
    BY <1>1, <2>2, AppendProperties, LenProperties
  <2>4. m \in [Cells -> Nat] /\ \A i \in Cells : m[i] = IF i = c THEN n + 1 ELSE b.map[i]
    BY <1>1, <2>1
  <2>5. d = [b EXCEPT !.queue = q, !.map = m]
    BY <1>1, <1>5 DEF Push, Backend
  <2> HIDE DEF q, m
  <2>6. d \in Backend /\ d.queue = q /\ d.map = m /\ d.grid = b.grid /\ Alike(b, d)
        /\ d.top < d.bottom
    BY ZenonT(60), <1>1, <2>3, <2>4, <2>5 DEF Backend, Alike
  <2>7. e.cell = c /\ e.c = ch
    OBVIOUS
  <2> HIDE DEF d, e
  <2>8. Indexed(d)
    <3>1. ASSUME NEW j \in 1 .. (n + 1) PROVE m[q[j].cell] = j
      <4>1. CASE j = n + 1
        BY <2>1, <2>3, <2>4, <2>7, <4>1
      <4>2. CASE j \in 1 .. n
        <5>1. b.map[b.queue[j].cell] = j /\ b.queue[j] \in Item
          BY <1>1, <4>2, ElementOfSeq DEF Indexed
        <5>2. b.queue[j].cell \in Cells /\ b.queue[j].cell # c
          BY <1>5, <4>2, <5>1 DEF Item
        <5> QED BY <2>3, <2>4, <4>2, <5>1, <5>2
      <4> QED BY <1>1, <4>1, <4>2
    <3>2. ASSUME NEW i \in Cells, m[i] # 0 PROVE m[i] \in 1 .. (n + 1) /\ q[m[i]].cell = i
      BY SMTT(30), <1>1, <2>3, <2>4, <2>7, <3>2 DEF Indexed
    <3> QED BY <2>3, <2>6, <3>1, <3>2 DEF Indexed
  <2>9. ASSUME NEW i \in Cells
        PROVE CharAt(d, i) = IF i = c THEN ch ELSE CharAt(b, i)
    <3>1. CASE i = c
      BY <1>1, <2>3, <2>4, <2>6, <2>7, <3>1 DEF CharAt
    <3>2. CASE i # c
      <4>1. b.map[i] # 0 => b.map[i] \in 1 .. n
        BY <1>1 DEF Indexed
      <4> QED BY <2>3, <2>4, <2>6, <3>2, <4>1 DEF CharAt
    <3> QED BY <3>1, <3>2
  <2> QED BY <1>5, <2>6, <2>8, <2>9 DEF Good, d
<1> QED BY <1>2, <1>3, <1>4, <1>5

-----------------------------------------------------------------------------
(* The callbacks that push many characters. *)

\* The loops of scroll, revscroll and clear.
Moved(b, from, by) ==
  FoldLeft(LAMBDA d, i : Push(d, CharAt(d, i), (i + by) % Cols, (i + by) \div Cols), b, from)

Blanked(b, ch, y) ==
  FoldLeft(LAMBDA d, x : Push(d, ch, x, y), b, [j \in 1 .. Cols |-> j - 1])

Wiped(b, ch, cells) ==
  FoldLeft(LAMBDA d, i : Push(d, ch, i % Cols, i \div Cols), b, cells)

LEMMA ShiftIs ==
  ASSUME NEW b, NEW from, NEW by, NEW y
  PROVE  Shift(b, from, by, y) = Blanked(Moved(b, from, by), Empty(b), y)
BY DEF Shift, Blanked, Moved, FoldLeft, MapThenFoldSet

LEMMA ClearIs ==
  ASSUME NEW b, NEW move
  PROVE  Clear(b, move) =
           LET d == Wiped(b, Empty(b), Upward(0, Rows * Cols - 1))
           IN  IF move THEN [d EXCEPT !.x = 0, !.y = 0] ELSE d
BY DEF Clear, Wiped, FoldLeft, MapThenFoldSet

\* Characters can be moved in this order: none is pushed to a cell that is
\* still to be moved.
Movable(from, by) ==
  /\ \A k \in DOMAIN from : from[k] + by \in Cells
  /\ \A j, k \in DOMAIN from : j < k => from[j] + by # from[k]

\* The backend while characters are moved.
LEMMA MovedFacts ==
  ASSUME NEW b \in Good, NEW by \in Int, NEW from \in Seq(Cells), Movable(from, by)
  PROVE  /\ Moved(b, from, by) \in Good
         /\ Alike(b, Moved(b, from, by))
         /\ \A i \in Cells : CharAt(Moved(b, from, by), i) =
              IF \E k \in DOMAIN from : i = from[k] + by
              THEN CharAt(b, i - by) ELSE CharAt(b, i)
<1> DEFINE Op(d, i) == Push(d, CharAt(d, i), (i + by) % Cols, (i + by) \div Cols)
           n == Len(from)
           V == Good
           step == [p \in V \X (1 .. n) |-> Op(p[1], from[p[2]])]
           Good1(F) == F = [s \in SUBSET (DOMAIN from) |->
                       IF s = {} THEN b ELSE Op(F[s \ {Max(s)}], from[Max(s)])]
           F == CHOOSE F : Good1(F)
<1>1. n \in Nat /\ DOMAIN from = 1 .. n /\ \A k \in 1 .. n : from[k] \in Cells
  BY LenProperties, ElementOfSeq
<1>2. Moved(b, from, by) = F[DOMAIN from]
  BY DEF Moved, FoldLeft, MapThenFoldSet
<1>3. ASSUME NEW d \in V, NEW k \in 1 .. n
      PROVE  /\ Op(d, from[k]) \in V /\ Alike(d, Op(d, from[k]))
             /\ \A i \in Cells : CharAt(Op(d, from[k]), i) =
                  IF i = from[k] + by THEN CharAt(d, from[k]) ELSE CharAt(d, i)
  <2> DEFINE t == from[k] + by
  <2>1. from[k] \in Cells /\ t \in Cells /\ t \in Int
    BY <1>1 DEF Cells, Movable
  <2> HIDE DEF t
  <2>2. CharAt(d, from[k]) \in Char
    BY <2>1, CharAtType
  <2>3. t % Cols \in Int /\ t \div Cols \in Int /\ OnScreen(t % Cols, t \div Cols)
        /\ Cell(t % Cols, t \div Cols) = t
    BY <2>1, CellFacts
  <2>4. Op(d, from[k]) = Push(d, CharAt(d, from[k]), t % Cols, t \div Cols)
    BY DEF t
  <2> HIDE DEF Op
  <2> QED BY <2>2, <2>3, <2>4, PushFacts DEF t
<1>4. step \in [V \X (1 .. n) -> V]
  BY <1>3
<1>5. PICK f \in [SUBSET (1 .. n) -> V], g \in [0 .. n -> V] :
        /\ Recurs(f, n, b, step)
        /\ g[0] = b
        /\ \A k \in 1 .. n : g[k] = step[<<g[k - 1], k>>]
        /\ \A G : Follows(G, n, V, b, step) => G[1 .. n] = g[n]
  <2>1. b \in V /\ n \in Nat
    BY <1>1
  <2> HIDE DEF V, step, n
  <2>2. Stepwise(n, V, b, step)
    BY <1>4, <2>1, FoldRun
  <2> QED BY <2>2 DEF Stepwise
<1>6. \A d \in V, k \in 1 .. n : step[<<d, k>>] = Op(d, from[k])
  OBVIOUS
<1>7. Good1(f)
  <2>1. \A s \in SUBSET (1 .. n) : s # {} => f[s \ {Max(s)}] \in V /\ Max(s) \in 1 .. n
    BY <1>1, LargestOf
  <2> QED BY <1>1, <1>5, <1>6, <2>1 DEF Recurs
<1>8. Good1(F)
  <2> HIDE DEF Good1
  <2> QED BY <1>7
<1>9. F[1 .. n] = g[n]
  <2> HIDE DEF F, step, V, Op
  <2>1. Follows(F, n, V, b, step)
    <3>1. \A s \in SUBSET (1 .. n) : s # {} => Max(s) \in 1 .. n
      BY <1>1, LargestOf
    <3> QED BY <1>1, <1>6, <1>8, <3>1 DEF Follows
  <2> QED BY <1>5, <2>1
<1> HIDE DEF F, step, Op
<1>10. \A k \in 1 .. n : g[k] = Op(g[k - 1], from[k])
  <2> TAKE k \in 1 .. n
  <2>1. g[k - 1] \in V
    BY <1>1, <1>5
  <2> QED BY <1>5, <1>6, <2>1
<1> DEFINE P(k) == /\ Alike(b, g[k])
                   /\ \A i \in Cells : CharAt(g[k], i) =
                         IF \E m \in 1 .. k : i = from[m] + by
                         THEN CharAt(b, i - by) ELSE CharAt(b, i)
           T == {k \in 0 .. n : P(k)}
<1>11. 0 \in T
  BY <1>1, <1>5 DEF Alike
<1>12. ASSUME NEW k \in 0 .. (n - 1), k \in T PROVE k + 1 \in T
  <2>1. k + 1 \in 1 .. n /\ g[k] \in V /\ g[k + 1] = Op(g[k], from[k + 1])
    <3>1. k + 1 \in 1 .. n /\ (k + 1) - 1 = k
      BY <1>1
    <3> QED BY SMTT(30), <1>1, <1>5, <1>10, <3>1
  <2>2. Alike(b, g[k + 1])
    BY <1>3, <1>12, <2>1 DEF Alike
  <2>3. from[k + 1] \in Cells /\ from[k + 1] \in Int
    BY <1>1, <2>1 DEF Cells
  <2>4. CharAt(g[k], from[k + 1]) = CharAt(b, from[k + 1])
    <3>1. \A m \in 1 .. k : from[m] + by # from[k + 1]
      BY <1>1, <2>1 DEF Movable
    <3> QED BY <1>12, <2>3, <3>1
  <2>5. ASSUME NEW i \in Cells
        PROVE  CharAt(g[k + 1], i) = IF \E m \in 1 .. (k + 1) : i = from[m] + by
                                     THEN CharAt(b, i - by) ELSE CharAt(b, i)
    <3>1. CharAt(g[k + 1], i) = IF i = from[k + 1] + by THEN CharAt(g[k], from[k + 1])
                                                        ELSE CharAt(g[k], i)
      BY <1>3, <2>1
    <3>2. CASE i = from[k + 1] + by
      <4>1. i - by = from[k + 1] /\ k + 1 \in 1 .. (k + 1)
        BY <2>3, <3>2
      <4> QED BY <2>4, <3>1, <3>2, <4>1
    <3>3. CASE i # from[k + 1] + by
      <4>1. (\E m \in 1 .. (k + 1) : i = from[m] + by) <=> (\E m \in 1 .. k : i = from[m] + by)
        BY <3>3
      <4> QED BY <1>12, <3>1, <3>3, <4>1
    <3> QED BY <3>2, <3>3
  <2> QED BY <1>12, <2>1, <2>2, <2>5
<1>13. n \in T
  <2> HIDE DEF T
  <2>1. \A k \in 0 .. n : k \in T
    BY <1>1, <1>11, <1>12, UpTo
  <2> QED BY <1>1, <2>1
<1>14. Moved(b, from, by) = g[n] /\ g[n] \in Good
  BY <1>1, <1>2, <1>5, <1>9
<1>15. P(n)
  BY <1>13
<1> HIDE DEF n
<1> QED BY <1>1, <1>14, <1>15

\* d is b after pushes of ch to the cells in S.
Painted(b, ch, S, d) ==
  /\ Alike(b, d)
  /\ \A i \in Cells : CharAt(d, i) = IF i \in S THEN ch ELSE CharAt(b, i)

FirstOf(t, n) == {t[k] : k \in 1 .. n}

\* Pushes to the cells t[1], t[2], ... one after the other.
LEMMA PaintedRun ==
  ASSUME NEW ch, NEW n \in Nat, NEW t, NEW g,
         \A k \in 1 .. n : Painted(g[k - 1], ch, {t[k]}, g[k])
  PROVE  Painted(g[0], ch, FirstOf(t, n), g[n])
<1> DEFINE T == {k \in 0 .. n : Painted(g[0], ch, FirstOf(t, k), g[k])}
<1>1. 0 \in T
  BY DEF Painted, Alike, FirstOf
<1>2. ASSUME NEW k \in 0 .. (n - 1), k \in T PROVE k + 1 \in T
  <2>1. k + 1 \in 1 .. n /\ (k + 1) - 1 = k
    OBVIOUS
  <2>2. Painted(g[k], ch, {t[k + 1]}, g[k + 1])
    BY <2>1
  <2>3. FirstOf(t, k + 1) = FirstOf(t, k) \cup {t[k + 1]}
    BY DEF FirstOf
  <2>4. Painted(g[0], ch, FirstOf(t, k), g[k])
    BY <1>2
  <2>5. Painted(g[0], ch, FirstOf(t, k + 1), g[k + 1])
    BY <2>2, <2>3, <2>4 DEF Painted, Alike
  <2> QED BY <2>1, <2>5
<1>3. n \in T
  <2> HIDE DEF T
  <2>1. \A k \in 0 .. n : k \in T
    BY <1>1, <1>2, UpTo
  <2> QED BY <2>1
<1> QED BY <1>3

\* A line that is filled has the character, and no other line changes.
LEMMA BlankedFacts ==
  ASSUME NEW b \in Good, NEW ch \in Char, NEW y \in 0 .. (Rows - 1)
  PROVE  /\ Blanked(b, ch, y) \in Good
         /\ Alike(b, Blanked(b, ch, y))
         /\ \A i \in Cells : CharAt(Blanked(b, ch, y), i) =
              IF i \div Cols = y THEN ch ELSE CharAt(b, i)
<1> DEFINE Op(d, x) == Push(d, ch, x, y)
           from == [j \in 1 .. Cols |-> j - 1]
           n == Cols
           V == Good
           step == [p \in V \X (1 .. n) |-> Op(p[1], from[p[2]])]
           Good1(F) == F = [s \in SUBSET (DOMAIN from) |->
                       IF s = {} THEN b ELSE Op(F[s \ {Max(s)}], from[Max(s)])]
           F == CHOOSE F : Good1(F)
           t == [k \in 1 .. n |-> Cell(from[k], y)]
<1>1. /\ n \in Nat /\ DOMAIN from = 1 .. n
      /\ \A k \in 1 .. n : from[k] = k - 1 /\ from[k] \in 0 .. (Cols - 1)
  BY ScreenAssumption
<1>2. Blanked(b, ch, y) = F[DOMAIN from]
  BY DEF Blanked, FoldLeft, MapThenFoldSet
<1> HIDE DEF from
<1>3. ASSUME NEW d \in V, NEW k \in 1 .. n
      PROVE  /\ Op(d, from[k]) \in V /\ Alike(d, Op(d, from[k]))
             /\ \A i \in Cells : CharAt(Op(d, from[k]), i) =
                  IF i = t[k] THEN ch ELSE CharAt(d, i)
  <2>1. from[k] \in Int /\ y \in Int /\ OnScreen(from[k], y) /\ t[k] = Cell(from[k], y)
    BY <1>1, ScreenAssumption DEF OnScreen
  <2> HIDE DEF t
  <2> QED BY <2>1, PushFacts
<1>4. step \in [V \X (1 .. n) -> V]
  BY <1>3
<1>5. PICK f \in [SUBSET (1 .. n) -> V], g \in [0 .. n -> V] :
        /\ Recurs(f, n, b, step)
        /\ g[0] = b
        /\ \A k \in 1 .. n : g[k] = step[<<g[k - 1], k>>]
        /\ \A G : Follows(G, n, V, b, step) => G[1 .. n] = g[n]
  <2>1. b \in V /\ n \in Nat
    BY <1>1
  <2> HIDE DEF V, step, n
  <2>2. Stepwise(n, V, b, step)
    BY <1>4, <2>1, FoldRun
  <2> QED BY <2>2 DEF Stepwise
<1>6. \A d \in V, k \in 1 .. n : step[<<d, k>>] = Op(d, from[k])
  OBVIOUS
<1>7. Good1(f)
  <2>1. \A s \in SUBSET (1 .. n) : s # {} => f[s \ {Max(s)}] \in V /\ Max(s) \in 1 .. n
    BY <1>1, LargestOf
  <2> QED BY <1>1, <1>5, <1>6, <2>1 DEF Recurs
<1>8. Good1(F)
  <2> HIDE DEF Good1
  <2> QED BY <1>7
<1>9. F[1 .. n] = g[n]
  <2> HIDE DEF F, step, V, Op
  <2>1. Follows(F, n, V, b, step)
    <3>1. \A s \in SUBSET (1 .. n) : s # {} => Max(s) \in 1 .. n
      BY <1>1, LargestOf
    <3> QED BY <1>1, <1>6, <1>8, <3>1 DEF Follows
  <2> QED BY <1>5, <2>1
<1> HIDE DEF F, step, Op, n
<1>10. \A k \in 1 .. n : g[k - 1] \in V /\ g[k] = Op(g[k - 1], from[k])
  <2> TAKE k \in 1 .. n
  <2>1. g[k - 1] \in V
    BY <1>1, <1>5
  <2> QED BY <1>5, <1>6, <2>1
<1>11. /\ Alike(b, g[n])
       /\ \A i \in Cells : CharAt(g[n], i) =
            IF \E k \in 1 .. n : i = t[k] THEN ch ELSE CharAt(b, i)
  <2> HIDE DEF t, V
  <2>1. \A k \in 1 .. n : Painted(g[k - 1], ch, {t[k]}, g[k])
    BY <1>3, <1>10 DEF Painted
  <2>2. n \in Nat
    BY <1>1
  <2>3. Painted(g[0], ch, FirstOf(t, n), g[n])
    BY <2>1, <2>2, PaintedRun
  <2> QED BY <1>5, <2>3 DEF Painted, FirstOf
<1>12. ASSUME NEW i \in Cells
       PROVE  (\E k \in 1 .. n : i = t[k]) <=> i \div Cols = y
  <2>0. i \in Int
    BY DEF Cells
  <2>1. i \in Int /\ i \div Cols \in Int /\ i % Cols \in 0 .. (Cols - 1)
        /\ i = (i \div Cols) * Cols + (i % Cols)
    BY <2>0, DivMod
  <2>2. ASSUME NEW k \in 1 .. n, i = t[k] PROVE i \div Cols = y
    <3>1. k - 1 \in 0 .. (Cols - 1) /\ i = y * Cols + (k - 1) /\ y \in Int
      BY <1>1, <2>2, ScreenAssumption DEF Cell
    <3> QED BY <3>1, DivModOf
  <2>3. ASSUME i \div Cols = y PROVE \E k \in 1 .. n : i = t[k]
    <3>1. (i % Cols) + 1 \in 1 .. n /\ ((i % Cols) + 1) - 1 = i % Cols
      BY <2>1, ScreenAssumption DEF n
    <3>2. t[(i % Cols) + 1] = y * Cols + (i % Cols)
      BY <1>1, <3>1 DEF Cell
    <3> QED BY <2>1, <2>3, <3>1, <3>2
  <2> QED BY <2>2, <2>3
<1> HIDE DEF t
<1>13. g[n] \in V
  BY <1>1, <1>5
<1> QED BY <1>1, <1>2, <1>9, <1>11, <1>12, <1>13

\* A screen that is cleared has the character in every cell.
LEMMA WipedFacts ==
  ASSUME NEW b \in Good, NEW ch \in Char, NEW from \in Seq(Cells),
         \A i \in Cells : \E k \in DOMAIN from : from[k] = i
  PROVE  /\ Wiped(b, ch, from) \in Good
         /\ Alike(b, Wiped(b, ch, from))
         /\ \A i \in Cells : CharAt(Wiped(b, ch, from), i) = ch
<1> DEFINE Op(d, i) == Push(d, ch, i % Cols, i \div Cols)
           n == Len(from)
           V == Good
           step == [p \in V \X (1 .. n) |-> Op(p[1], from[p[2]])]
           Good1(F) == F = [s \in SUBSET (DOMAIN from) |->
                       IF s = {} THEN b ELSE Op(F[s \ {Max(s)}], from[Max(s)])]
           F == CHOOSE F : Good1(F)
<1>1. n \in Nat /\ DOMAIN from = 1 .. n /\ \A k \in 1 .. n : from[k] \in Cells
  BY LenProperties, ElementOfSeq
<1>2. Wiped(b, ch, from) = F[DOMAIN from]
  BY DEF Wiped, FoldLeft, MapThenFoldSet
<1>3. ASSUME NEW d \in V, NEW k \in 1 .. n
      PROVE  /\ Op(d, from[k]) \in V /\ Alike(d, Op(d, from[k]))
             /\ \A i \in Cells : CharAt(Op(d, from[k]), i) =
                  IF i = from[k] THEN ch ELSE CharAt(d, i)
  <2> DEFINE t == from[k]
  <2>1. t \in Cells /\ t \in Int
    BY <1>1 DEF Cells
  <2> HIDE DEF t
  <2>3. t % Cols \in Int /\ t \div Cols \in Int /\ OnScreen(t % Cols, t \div Cols)
        /\ Cell(t % Cols, t \div Cols) = t
    BY <2>1, CellFacts
  <2>4. Op(d, t) = Push(d, ch, t % Cols, t \div Cols)
    OBVIOUS
  <2> HIDE DEF Op
  <2> QED BY <2>3, <2>4, PushFacts DEF t
<1>4. step \in [V \X (1 .. n) -> V]
  BY <1>3
<1>5. PICK f \in [SUBSET (1 .. n) -> V], g \in [0 .. n -> V] :
        /\ Recurs(f, n, b, step)
        /\ g[0] = b
        /\ \A k \in 1 .. n : g[k] = step[<<g[k - 1], k>>]
        /\ \A G : Follows(G, n, V, b, step) => G[1 .. n] = g[n]
  <2>1. b \in V /\ n \in Nat
    BY <1>1
  <2> HIDE DEF V, step, n
  <2>2. Stepwise(n, V, b, step)
    BY <1>4, <2>1, FoldRun
  <2> QED BY <2>2 DEF Stepwise
<1>6. \A d \in V, k \in 1 .. n : step[<<d, k>>] = Op(d, from[k])
  OBVIOUS
<1>7. Good1(f)
  <2>1. \A s \in SUBSET (1 .. n) : s # {} => f[s \ {Max(s)}] \in V /\ Max(s) \in 1 .. n
    BY <1>1, LargestOf
  <2> QED BY <1>1, <1>5, <1>6, <2>1 DEF Recurs
<1>8. Good1(F)
  <2> HIDE DEF Good1
  <2> QED BY <1>7
<1>9. F[1 .. n] = g[n]
  <2> HIDE DEF F, step, V, Op
  <2>1. Follows(F, n, V, b, step)
    <3>1. \A s \in SUBSET (1 .. n) : s # {} => Max(s) \in 1 .. n
      BY <1>1, LargestOf
    <3> QED BY <1>1, <1>6, <1>8, <3>1 DEF Follows
  <2> QED BY <1>5, <2>1
<1> HIDE DEF F, step, Op, n
<1>10. \A k \in 1 .. n : g[k - 1] \in V /\ g[k] = Op(g[k - 1], from[k])
  <2> TAKE k \in 1 .. n
  <2>1. g[k - 1] \in V
    BY <1>1, <1>5
  <2> QED BY <1>5, <1>6, <2>1
<1>11. /\ Alike(b, g[n])
       /\ \A i \in Cells : CharAt(g[n], i) =
            IF \E k \in 1 .. n : i = from[k] THEN ch ELSE CharAt(b, i)
  <2> HIDE DEF V
  <2>1. \A k \in 1 .. n : Painted(g[k - 1], ch, {from[k]}, g[k])
    BY <1>3, <1>10 DEF Painted
  <2>2. n \in Nat
    BY <1>1
  <2>3. Painted(g[0], ch, FirstOf(from, n), g[n])
    BY <2>1, <2>2, PaintedRun
  <2> QED BY <1>5, <2>3 DEF Painted, FirstOf
<1>13. g[n] \in V
  BY <1>1, <1>5
<1> QED BY <1>1, <1>2, <1>9, <1>11, <1>13

-----------------------------------------------------------------------------
(* What the callbacks do to the text that the backend stands for. *)

\* The text: Abstract is Abs(fb).
Abs(b) ==
  [cells |-> [i \in Cells |-> CharAt(b, i)], x |-> b.x, y |-> b.y,
   fg |-> b.fg, bg |-> b.bg, saved |-> b.saved, top |-> b.top,
   bottom |-> b.bottom, scroll |-> b.scroll, enabled |-> b.enabled]

LEMMA SameCells ==
  /\ Text!Cells = Cells
  /\ \A x, y : Text!Cell(x, y) = Cell(x, y) /\ Text!OnScreen(x, y) = OnScreen(x, y)
BY DEF Text!Cells, Cells, Text!Cell, Cell, Text!OnScreen, OnScreen

\* The row of a cell.
LEMMA RowIs ==
  ASSUME NEW i \in Int, NEW y \in Int
  PROVE  i \div Cols = y <=> i \in (y * Cols) .. (y * Cols + Cols - 1)
<1>1. Cols \in Nat /\ Cols > 0
  BY ScreenAssumption
<1>2. i \div Cols \in Int /\ i % Cols \in 0 .. (Cols - 1)
      /\ i = (i \div Cols) * Cols + (i % Cols)
  BY DivMod
<1>3. y * Cols \in Int
  BY <1>1
<1>4. ASSUME i \div Cols = y PROVE i \in (y * Cols) .. (y * Cols + Cols - 1)
  <2>1. i = y * Cols + (i % Cols)
    BY <1>2, <1>4
  <2> QED BY <1>1, <1>2, <1>3, <2>1
<1>5. ASSUME i \in (y * Cols) .. (y * Cols + Cols - 1) PROVE i \div Cols = y
  <2> DEFINE x == i - y * Cols
  <2>1. x \in 0 .. (Cols - 1) /\ i = y * Cols + x
    BY <1>1, <1>3, <1>5
  <2> QED BY <2>1, DivModOf
<1> QED BY <1>4, <1>5

\* The cells of the region from line t up to line u: where its lines begin.
LEMMA Lines ==
  ASSUME NEW t \in 0 .. (Rows - 1), NEW u \in 1 .. Rows
  PROVE  /\ t * Cols \in Nat /\ u * Cols \in Nat /\ Rows * Cols \in Nat
         /\ Cols \in Nat /\ Cols > 0
         /\ (t + 1) * Cols = t * Cols + Cols
         /\ (u - 1) * Cols = u * Cols - Cols
         /\ u * Cols <= Rows * Cols
         /\ t < u => t * Cols + Cols <= u * Cols
         /\ t >= u => t * Cols >= u * Cols
<1>1. Rows \in Nat /\ Cols \in Nat /\ Cols > 0
  BY ScreenAssumption
<1>2. t * Cols \in Nat /\ u * Cols \in Nat /\ Rows * Cols \in Nat
  BY <1>1
<1>3. (t + 1) * Cols = t * Cols + Cols
  BY <1>1
<1>4. (u - 1) * Cols = u * Cols - Cols
  BY <1>1
<1>5. u * Cols <= Rows * Cols
  BY <1>1
<1>6. t < u => (t + 1) * Cols <= u * Cols
  BY <1>1
<1>7. t >= u => t * Cols >= u * Cols
  BY <1>1
<1> QED BY <1>1, <1>2, <1>3, <1>4, <1>5, <1>6, <1>7

LEMMA UpwardFacts ==
  ASSUME NEW lo \in Int, NEW hi \in Int, lo .. hi \subseteq Cells
  PROVE  /\ Upward(lo, hi) \in Seq(Cells)
         /\ DOMAIN Upward(lo, hi) = 1 .. (hi - lo + 1)
         /\ \A k \in 1 .. (hi - lo + 1) : Upward(lo, hi)[k] = lo + k - 1
<1> DEFINE q == Upward(lo, hi)
           m == IF hi < lo THEN 0 ELSE hi - lo + 1
<1>1. m \in Nat /\ 1 .. m = 1 .. (hi - lo + 1)
  OBVIOUS
<1>2. q = [k \in 1 .. (hi - lo + 1) |-> lo + k - 1]
  BY DEF Upward
<1>3. \A k \in 1 .. (hi - lo + 1) : lo + k - 1 \in lo .. hi
  OBVIOUS
<1> HIDE DEF q
<1>4. q \in [1 .. m -> Cells]
  BY <1>1, <1>2, <1>3
<1>5. q \in Seq(Cells)
  <2> HIDE DEF m
  <2> QED BY <1>1, <1>4
<1>6. DOMAIN q = 1 .. (hi - lo + 1) /\ \A k \in 1 .. (hi - lo + 1) : q[k] = lo + k - 1
  BY <1>2
<1> QED BY <1>5, <1>6 DEF q

LEMMA DownwardFacts ==
  ASSUME NEW lo \in Int, NEW hi \in Int, lo .. hi \subseteq Cells
  PROVE  /\ Downward(hi, lo) \in Seq(Cells)
         /\ DOMAIN Downward(hi, lo) = 1 .. (hi - lo + 1)
         /\ \A k \in 1 .. (hi - lo + 1) : Downward(hi, lo)[k] = hi - k + 1
<1> DEFINE q == Downward(hi, lo)
           m == IF hi < lo THEN 0 ELSE hi - lo + 1
<1>1. m \in Nat /\ 1 .. m = 1 .. (hi - lo + 1)
  OBVIOUS
<1>2. q = [k \in 1 .. (hi - lo + 1) |-> hi - k + 1]
  BY DEF Downward
<1>3. \A k \in 1 .. (hi - lo + 1) : hi - k + 1 \in lo .. hi
  OBVIOUS
<1> HIDE DEF q
<1>4. q \in [1 .. m -> Cells]
  BY <1>1, <1>2, <1>3
<1>5. q \in Seq(Cells)
  <2> HIDE DEF m
  <2> QED BY <1>1, <1>4
<1>6. DOMAIN q = 1 .. (hi - lo + 1) /\ \A k \in 1 .. (hi - lo + 1) : q[k] = hi - k + 1
  BY <1>2
<1> QED BY <1>5, <1>6 DEF q

LEMMA EmptyType ==
  ASSUME NEW b \in Good
  PROVE  Empty(b) \in Char
<1>1. b.fg \in Tints /\ b.bg \in Tints
  BY DEF Good, Backend
<1>2. " " \in Names
  BY DEF Names
<1> QED BY <1>1, <1>2 DEF Empty, Char

\* d is b after a shift.
Shifted(b, from, by, y, d) ==
  /\ d \in Good
  /\ Alike(b, d)
  /\ \A i \in Cells : CharAt(d, i) =
       IF i \div Cols = y THEN Empty(b)
       ELSE IF \E k \in DOMAIN from : i = from[k] + by
       THEN CharAt(b, i - by) ELSE CharAt(b, i)

\* Shift with the characters it moves in an order in which none is overwritten.
LEMMA ShiftFacts ==
  ASSUME NEW b \in Good, NEW by \in Int, NEW from \in Seq(Cells), NEW y \in 0 .. (Rows - 1),
         Movable(from, by)
  PROVE  Shifted(b, from, by, y, Shift(b, from, by, y))
<1> DEFINE d == Moved(b, from, by)
           e == Blanked(d, Empty(b), y)
<1>1. /\ d \in Good /\ Alike(b, d)
      /\ \A i \in Cells : CharAt(d, i) =
              IF \E k \in DOMAIN from : i = from[k] + by
              THEN CharAt(b, i - by) ELSE CharAt(b, i)
  BY MovedFacts
<1>2. Empty(b) \in Char
  BY EmptyType
<1>3. Shift(b, from, by, y) = e
  BY ShiftIs
<1> HIDE DEF d
<1>4. /\ e \in Good /\ Alike(d, e)
      /\ \A i \in Cells : CharAt(e, i) = IF i \div Cols = y THEN Empty(b) ELSE CharAt(d, i)
  BY <1>1, <1>2, BlankedFacts
<1> HIDE DEF e
<1>5. Alike(b, e)
  BY <1>1, <1>4 DEF Alike
<1> QED BY <1>1, <1>3, <1>4, <1>5 DEF Shifted

\* A state that is Alike stands for the same text but for its characters.
LEMMA AbsAlike ==
  ASSUME NEW b, NEW d, NEW h, Alike(b, d), \A i \in Cells : CharAt(d, i) = h[i],
         h = [i \in Cells |-> h[i]]
  PROVE  Abs(d) = [Abs(b) EXCEPT !.cells = h]
<1>1. [i \in Cells |-> CharAt(d, i)] = h
  OBVIOUS
<1> DEFINE r == [cells |-> h, x |-> b.x, y |-> b.y,
                 fg |-> b.fg, bg |-> b.bg, saved |-> b.saved, top |-> b.top,
                 bottom |-> b.bottom, scroll |-> b.scroll, enabled |-> b.enabled]
<1>2. Abs(d) = r
  BY <1>1 DEF Abs, Alike
<1> DEFINE c == [i \in Cells |-> CharAt(b, i)]
<1>3. Abs(b) = [cells |-> c, x |-> b.x, y |-> b.y,
                fg |-> b.fg, bg |-> b.bg, saved |-> b.saved, top |-> b.top,
                bottom |-> b.bottom, scroll |-> b.scroll, enabled |-> b.enabled]
  BY DEF Abs
<1> HIDE DEF c
<1>4. [Abs(b) EXCEPT !.cells = h] = r
  BY <1>3
<1> QED BY <1>2, <1>4

LEMMA ScrollFacts ==
  ASSUME NEW b \in Good
  PROVE  /\ Scroll(b) \in Good
         /\ Alike(b, Scroll(b))
         /\ Abs(Scroll(b)) = Text!Scroll(Abs(b))
<1> DEFINE T == b.top * Cols
           B == b.bottom * Cols
           by == -Cols
           from == Upward(T + Cols, B - 1)
           y == b.bottom - 1
           h == [i \in Cells |-> IF i \in T .. (B - Cols - 1) THEN CharAt(b, i + Cols)
                                 ELSE IF i \div Cols = y THEN Empty(b) ELSE CharAt(b, i)]
<1>1. b.top \in 0 .. (Rows - 1) /\ b.bottom \in 1 .. Rows /\ b.top < b.bottom
  BY DEF Good, Backend
<1>2. /\ T \in Nat /\ B \in Nat /\ Rows * Cols \in Nat /\ Cols \in Nat /\ Cols > 0
      /\ (b.top + 1) * Cols = T + Cols /\ y * Cols = B - Cols
      /\ B <= Rows * Cols /\ T + Cols <= B
  BY <1>1, Lines
<1>3. y \in 0 .. (Rows - 1) /\ y \in Int
  BY <1>1, ScreenAssumption
<1>4. Scroll(b) = Shift(b, from, by, y)
  BY <1>2 DEF Scroll
<1>5. Text!Scroll(Abs(b)) = [Abs(b) EXCEPT !.cells = h]
  <2>1. Abs(b).top = b.top /\ Abs(b).bottom = b.bottom
        /\ Text!Empty(Abs(b)) = Empty(b)
    BY DEF Abs, Text!Empty, Empty
  <2>2. Abs(b).cells = [i \in Cells |-> CharAt(b, i)]
    BY DEF Abs
  <2>3. \A i \in Cells : i \in T .. (B - Cols - 1) => i + Cols \in Cells
    BY <1>2 DEF Cells
  <2>4. [i \in Cells |-> IF i \in T .. (y * Cols - 1) THEN Abs(b).cells[i + Cols]
                         ELSE IF i \div Cols = y THEN Empty(b) ELSE Abs(b).cells[i]] = h
    BY <1>2, <2>2, <2>3
  <2> HIDE DEF h
  <2> QED BY <2>1, <2>4, SameCells DEF Text!Scroll
<1> HIDE DEF T, B, y
<1>6. (T + Cols) .. (B - 1) \subseteq Cells /\ T + Cols \in Int /\ B - 1 \in Int
  BY <1>2 DEF Cells
<1>7. /\ from \in Seq(Cells) /\ DOMAIN from = 1 .. (B - T - Cols)
      /\ \A k \in DOMAIN from : from[k] = T + Cols + k - 1
  <2>1. (B - 1) - (T + Cols) + 1 = B - T - Cols
    BY <1>2
  <2> QED BY <1>6, <2>1, UpwardFacts
<1> HIDE DEF from
<1>8. by \in Int /\ Movable(from, by)
  <2>1. ASSUME NEW k \in DOMAIN from PROVE from[k] + by \in Cells
    <3>1. k \in 1 .. (B - T - Cols) /\ from[k] = T + Cols + k - 1
      BY <1>7
    <3>2. T + k - 1 \in T .. (B - 1)
      BY <1>2, <3>1
    <3>3. T + k - 1 \in Cells
      BY <1>2, <3>2 DEF Cells
    <3>4. from[k] + by = T + k - 1
      BY <1>2, <3>1
    <3> QED BY <3>3, <3>4
  <2>2. ASSUME NEW j \in DOMAIN from, NEW k \in DOMAIN from, j < k
        PROVE  from[j] + by # from[k]
    BY <1>2, <1>7, <2>2
  <2>3. by \in Int
    BY <1>2
  <2> HIDE DEF by
  <2> QED BY <2>1, <2>2, <2>3 DEF Movable
<1>10. Shifted(b, from, by, y, Scroll(b))
  <2> HIDE DEF by
  <2> QED BY <1>3, <1>4, <1>7, <1>8, ShiftFacts
<1>11. ASSUME NEW i \in Cells PROVE CharAt(Scroll(b), i) = h[i]
  <2>1. i \in Int /\ i - by = i + Cols
    BY <1>2 DEF Cells
  <2>2. i \div Cols = y <=> i \in (B - Cols) .. (B - 1)
    <3>1. y * Cols + Cols - 1 = B - 1
      BY <1>2
    <3> QED BY <1>2, <1>3, <2>1, <3>1, RowIs
  <2>3. (\E k \in DOMAIN from : i = from[k] + by) <=> i \in T .. (B - Cols - 1)
    <3>1. ASSUME i \in T .. (B - Cols - 1) PROVE \E k \in DOMAIN from : i = from[k] + by
      <4> DEFINE k == i - T + 1
      <4>1. k \in 1 .. (B - T - Cols) /\ i = T + Cols + k - 1 + by
        BY <1>2, <2>1, <3>1
      <4> HIDE DEF k
      <4> QED BY <1>7, <4>1
    <3> QED BY <1>2, <1>7, <2>1, <3>1
  <2>4. ~ (i \in T .. (B - Cols - 1) /\ i \in (B - Cols) .. (B - 1))
    BY <1>2
  <2> QED BY <1>10, <2>1, <2>2, <2>3, <2>4 DEF Shifted
<1> HIDE DEF h
<1>12. h = [i \in Cells |-> h[i]]
  BY DEF h
<1> QED BY <1>5, <1>10, <1>11, <1>12, AbsAlike DEF Shifted

LEMMA RevScrollFacts ==
  ASSUME NEW b \in Good, NEW top \in 0 .. (Rows - 1)
  PROVE  /\ RevScroll(b, top) \in Good
         /\ Alike(b, RevScroll(b, top))
         /\ Abs(RevScroll(b, top)) = Text!RevScroll(Abs(b), top)
<1> DEFINE T == top * Cols
           B == b.bottom * Cols
           by == Cols
           from == Downward(B - Cols - 1, T)
           h == [i \in Cells |-> IF i \in (T + Cols) .. (B - 1) THEN CharAt(b, i - Cols)
                                 ELSE IF i \div Cols = top THEN Empty(b) ELSE CharAt(b, i)]
<1>1. b.bottom \in 1 .. Rows
  BY DEF Good, Backend
<1>2. /\ T \in Nat /\ B \in Nat /\ Rows * Cols \in Nat /\ Cols \in Nat /\ Cols > 0
      /\ (top + 1) * Cols = T + Cols /\ (b.bottom - 1) * Cols = B - Cols
      /\ B <= Rows * Cols
  BY <1>1, Lines
<1>3. top \in Int
  OBVIOUS
<1>4. RevScroll(b, top) = Shift(b, from, by, top)
  BY <1>2 DEF RevScroll
<1>5. Text!RevScroll(Abs(b), top) = [Abs(b) EXCEPT !.cells = h]
  <2>1. Abs(b).bottom = b.bottom /\ Text!Empty(Abs(b)) = Empty(b)
    BY DEF Abs, Text!Empty, Empty
  <2>2. Abs(b).cells = [i \in Cells |-> CharAt(b, i)]
    BY DEF Abs
  <2>3. \A i \in Cells : i \in (T + Cols) .. (B - 1) => i - Cols \in Cells
    BY <1>2 DEF Cells
  <2>4. [i \in Cells |-> IF i \in ((top + 1) * Cols) .. (B - 1) THEN Abs(b).cells[i - Cols]
                         ELSE IF i \div Cols = top THEN Empty(b) ELSE Abs(b).cells[i]] = h
    BY <1>2, <2>2, <2>3
  <2> HIDE DEF h
  <2> QED BY <2>1, <2>4, SameCells DEF Text!RevScroll
<1> HIDE DEF T, B
<1>6. T .. (B - Cols - 1) \subseteq Cells /\ T \in Int /\ B - Cols - 1 \in Int
  BY <1>2 DEF Cells
<1>7. /\ from \in Seq(Cells) /\ DOMAIN from = 1 .. (B - T - Cols)
      /\ \A k \in DOMAIN from : from[k] = B - Cols - k
  <2>1. (B - Cols - 1) - T + 1 = B - T - Cols
    BY <1>2
  <2>2. \A k \in 1 .. (B - T - Cols) : (B - Cols - 1) - k + 1 = B - Cols - k
    BY <1>2
  <2> QED BY ZenonT(60), <1>6, <2>1, <2>2, DownwardFacts
<1> HIDE DEF from
<1>8. by \in Int /\ Movable(from, by)
  <2>1. ASSUME NEW k \in DOMAIN from PROVE from[k] + by \in Cells
    BY <1>2, <1>7 DEF Cells
  <2>2. ASSUME NEW j \in DOMAIN from, NEW k \in DOMAIN from, j < k
        PROVE  from[j] + by # from[k]
    BY <1>2, <1>7, <2>2
  <2>3. by \in Int
    BY <1>2
  <2> HIDE DEF by
  <2> QED BY <2>1, <2>2, <2>3 DEF Movable
<1>10. Shifted(b, from, by, top, RevScroll(b, top))
  <2> HIDE DEF by
  <2> QED BY <1>4, <1>7, <1>8, ShiftFacts
<1>11. ASSUME NEW i \in Cells PROVE CharAt(RevScroll(b, top), i) = h[i]
  <2>1. i \in Int /\ i - by = i - Cols
    BY <1>2 DEF Cells
  <2>2. i \div Cols = top <=> i \in T .. (T + Cols - 1)
    BY <1>2, <1>3, <2>1, RowIs DEF T
  <2>3. (\E k \in DOMAIN from : i = from[k] + by) <=> i \in (T + Cols) .. (B - 1)
    <3>1. ASSUME i \in (T + Cols) .. (B - 1) PROVE \E k \in DOMAIN from : i = from[k] + by
      <4> DEFINE k == B - i
      <4>1. k \in 1 .. (B - T - Cols) /\ i = B - Cols - k + by
        BY <1>2, <2>1, <3>1
      <4> HIDE DEF k
      <4> QED BY <1>7, <4>1
    <3>2. ASSUME NEW k \in DOMAIN from, i = from[k] + by PROVE i \in (T + Cols) .. (B - 1)
      BY <1>2, <1>7, <2>1, <3>2
    <3> QED BY <3>1, <3>2
  <2>4. ~ (i \in (T + Cols) .. (B - 1) /\ i \in T .. (T + Cols - 1))
    BY <1>2
  <2> QED BY <1>10, <2>1, <2>2, <2>3, <2>4 DEF Shifted
<1> HIDE DEF h
<1>12. h = [i \in Cells |-> h[i]]
  BY DEF h
<1> QED BY <1>5, <1>10, <1>11, <1>12, AbsAlike DEF Shifted

\* Moving the cursor or changing a setting keeps the queue and the characters.
LEMMA GoodAlike ==
  ASSUME NEW b \in Good, NEW d \in Backend, d.top < d.bottom,
         d.grid = b.grid, d.queue = b.queue, d.map = b.map
  PROVE  d \in Good /\ \A i \in Cells : CharAt(d, i) = CharAt(b, i)
BY DEF Good, Indexed, CharAt

LEMMA BothExcept ==
  ASSUME NEW b, NEW x, NEW y
  PROVE  [Abs(b) EXCEPT !.x = x, !.y = y]
           = [cells |-> [i \in Cells |-> CharAt(b, i)], x |-> x, y |-> y,
              fg |-> b.fg, bg |-> b.bg, saved |-> b.saved, top |-> b.top,
              bottom |-> b.bottom, scroll |-> b.scroll, enabled |-> b.enabled]
<1> DEFINE c == [i \in Cells |-> CharAt(b, i)]
           a == Abs(b)
           e == [a EXCEPT !.x = x]
<1>1. a = [cells |-> c, x |-> b.x, y |-> b.y,
           fg |-> b.fg, bg |-> b.bg, saved |-> b.saved, top |-> b.top,
           bottom |-> b.bottom, scroll |-> b.scroll, enabled |-> b.enabled]
  BY DEF Abs
<1> HIDE DEF c, a
<1>2. e = [cells |-> c, x |-> x, y |-> b.y,
           fg |-> b.fg, bg |-> b.bg, saved |-> b.saved, top |-> b.top,
           bottom |-> b.bottom, scroll |-> b.scroll, enabled |-> b.enabled]
  BY <1>1
<1>3. [a EXCEPT !.x = x, !.y = y] = [e EXCEPT !.y = y]
  OBVIOUS
<1> HIDE DEF e
<1>4. [e EXCEPT !.y = y]
        = [cells |-> c, x |-> x, y |-> y,
           fg |-> b.fg, bg |-> b.bg, saved |-> b.saved, top |-> b.top,
           bottom |-> b.bottom, scroll |-> b.scroll, enabled |-> b.enabled]
  BY <1>2
<1> QED BY <1>3, <1>4 DEF c, a

LEMMA ClearFacts ==
  ASSUME NEW b \in Good, NEW move \in BOOLEAN
  PROVE  /\ Clear(b, move) \in Good
         /\ Abs(Clear(b, move)) = Text!Clear(Abs(b), move)
         /\ Clear(b, move).grid = b.grid
         /\ Clear(b, move).oldX = b.oldX /\ Clear(b, move).oldY = b.oldY
<1> DEFINE from == Upward(0, Rows * Cols - 1)
           d == Wiped(b, Empty(b), from)
           e == [d EXCEPT !.x = 0, !.y = 0]
           h == [i \in Cells |-> Empty(b)]
           u == [Abs(b) EXCEPT !.cells = h]
<1>1. Rows * Cols \in Nat /\ Cells = 0 .. (Rows * Cols - 1)
  BY ScreenAssumption DEF Cells
<1>2. from \in Seq(Cells) /\ \A i \in Cells : \E k \in DOMAIN from : from[k] = i
  <2>1. /\ from \in Seq(Cells)
        /\ DOMAIN from = 1 .. ((Rows * Cols - 1) - 0 + 1)
        /\ \A k \in 1 .. ((Rows * Cols - 1) - 0 + 1) : from[k] = 0 + k - 1
    BY <1>1, UpwardFacts
  <2> HIDE DEF from
  <2>2. ASSUME NEW i \in Cells PROVE \E k \in DOMAIN from : from[k] = i
    <3>1. i + 1 \in DOMAIN from /\ from[i + 1] = i
      BY <1>1, <2>1
    <3> QED BY <3>1
  <2> QED BY <2>1, <2>2
<1>3. /\ d \in Good /\ Alike(b, d)
      /\ \A i \in Cells : CharAt(d, i) = Empty(b)
  <2> HIDE DEF from
  <2> QED BY <1>2, EmptyType, WipedFacts
<1>4. Clear(b, move) = IF move THEN e ELSE d
  BY ClearIs
<1>5. Text!Clear(Abs(b), move) = IF move THEN [u EXCEPT !.x = 0, !.y = 0] ELSE u
  <2>1. Text!Empty(Abs(b)) = Empty(b)
    BY DEF Abs, Text!Empty, Empty
  <2> QED BY <2>1, SameCells DEF Text!Clear
<1> HIDE DEF d
<1>6. Abs(d) = u
  <2>1. h = [i \in Cells |-> h[i]] /\ \A i \in Cells : CharAt(d, i) = h[i]
    BY <1>3
  <2> HIDE DEF h
  <2> QED BY <1>3, <2>1, AbsAlike
<1>7. e \in Backend /\ e.top < e.bottom
      /\ e.grid = d.grid /\ e.queue = d.queue /\ e.map = d.map
      /\ e.oldX = d.oldX /\ e.oldY = d.oldY
  BY <1>3 DEF Good, Backend
<1>8. e \in Good /\ \A i \in Cells : CharAt(e, i) = CharAt(d, i)
  <2> HIDE DEF e
  <2> QED BY <1>3, <1>7, GoodAlike
<1>9. Abs(e) = [Abs(d) EXCEPT !.x = 0, !.y = 0]
  <2> DEFINE c == [i \in Cells |-> CharAt(d, i)]
  <2>1. [i \in Cells |-> CharAt(e, i)] = c
    BY <1>8
  <2>2. d \in Backend
    BY <1>3 DEF Good
  <2>4. Abs(e) = [cells |-> c, x |-> e.x, y |-> e.y,
                  fg |-> e.fg, bg |-> e.bg, saved |-> e.saved, top |-> e.top,
                  bottom |-> e.bottom, scroll |-> e.scroll, enabled |-> e.enabled]
    BY <2>1 DEF Abs
  <2>5. e.x = 0 /\ e.y = 0 /\ e.fg = d.fg /\ e.bg = d.bg /\ e.saved = d.saved /\ e.top = d.top
        /\ e.bottom = d.bottom /\ e.scroll = d.scroll /\ e.enabled = d.enabled
    BY <2>2 DEF Backend
  <2> DEFINE r == [cells |-> c, x |-> 0, y |-> 0,
                   fg |-> d.fg, bg |-> d.bg, saved |-> d.saved, top |-> d.top,
                   bottom |-> d.bottom, scroll |-> d.scroll, enabled |-> d.enabled]
  <2>6. [Abs(d) EXCEPT !.x = 0, !.y = 0] = r
    BY BothExcept
  <2> HIDE DEF c, e
  <2>7. Abs(e) = r
    BY <2>4, <2>5
  <2> QED BY <2>6, <2>7
<1> QED BY <1>3, <1>4, <1>5, <1>6, <1>7, <1>8, <1>9 DEF Alike


\* Put is what a push does to the text.
LEMMA PushIsPut ==
  ASSUME NEW b \in Good, NEW ch \in Char, NEW x \in Int, NEW y \in Int
  PROVE  Abs(Push(b, ch, x, y)) = Text!Put(Abs(b), ch, x, y)
<1> DEFINE d == Push(b, ch, x, y)
           c == [i \in Cells |-> CharAt(b, i)]
           h == [c EXCEPT ![Cell(x, y)] = ch]
<1>1. /\ Alike(b, d)
      /\ \A i \in Cells : CharAt(d, i) =
              IF OnScreen(x, y) /\ i = Cell(x, y) THEN ch ELSE CharAt(b, i)
  BY PushFacts
<1> HIDE DEF d
<1>2. CASE OnScreen(x, y)
  <2>1. Text!Put(Abs(b), ch, x, y) = [Abs(b) EXCEPT !.cells[Cell(x, y)] = ch]
    BY <1>2, SameCells DEF Text!Put
  <2>2. Abs(b).cells = c
    BY DEF Abs
  <2>3. [Abs(b) EXCEPT !.cells[Cell(x, y)] = ch] = [Abs(b) EXCEPT !.cells = h]
    <3> DEFINE a == Abs(b)
    <3>1. a.cells = c
      BY <2>2
    <3>2. h = [a.cells EXCEPT ![Cell(x, y)] = ch]
      BY <3>1
    <3> HIDE DEF a, c, h
    <3>3. [a EXCEPT !.cells[Cell(x, y)] = ch]
            = [a EXCEPT !.cells = [a.cells EXCEPT ![Cell(x, y)] = ch]]
      OBVIOUS
    <3> QED BY <3>2, <3>3 DEF a
  <2>4. h = [i \in Cells |-> h[i]] /\ \A i \in Cells : CharAt(d, i) = h[i]
    BY <1>1, <1>2
  <2> HIDE DEF h
  <2>5. Abs(d) = [Abs(b) EXCEPT !.cells = h]
    BY <1>1, <2>4, AbsAlike
  <2> QED BY <2>1, <2>3, <2>5 DEF d
<1>3. CASE ~OnScreen(x, y)
  <2>1. Text!Put(Abs(b), ch, x, y) = Abs(b)
    BY <1>3, SameCells DEF Text!Put
  <2>2. Push(b, ch, x, y) = b
    BY <1>3 DEF Push
  <2> QED BY <2>1, <2>2
<1> QED BY <1>2, <1>3

LEMMA MoveCharacterFacts ==
  ASSUME NEW b \in Good, NEW newX \in Int, NEW newY \in Int, NEW oldX \in Int, NEW oldY \in Int
  PROVE  /\ MoveCharacter(b, newX, newY, oldX, oldY) \in Good
         /\ Alike(b, MoveCharacter(b, newX, newY, oldX, oldY))
         /\ Abs(MoveCharacter(b, newX, newY, oldX, oldY))
              = Text!MoveCharacter(Abs(b), newX, newY, oldX, oldY)
<1> DEFINE d == MoveCharacter(b, newX, newY, oldX, oldY)
           ch == CharAt(b, Cell(oldX, oldY))
<1>1. Alike(b, b)
  BY DEF Alike
<1>2. CASE OnScreen(oldX, oldY)
  <2>1. Cell(oldX, oldY) \in Cells
    BY <1>2, OnScreenIsCell DEF OnScreen
  <2>2. ch \in Char /\ Abs(b).cells[Cell(oldX, oldY)] = ch
    BY <2>1, CharAtType DEF Abs
  <2>3. Text!MoveCharacter(Abs(b), newX, newY, oldX, oldY) = Text!Put(Abs(b), ch, newX, newY)
    BY <1>2, <2>2, SameCells DEF Text!MoveCharacter
  <2>4. CASE OnScreen(newX, newY)
    <3>1. d = Push(b, ch, newX, newY)
      BY <1>2, <2>4 DEF MoveCharacter
    <3> HIDE DEF ch
    <3> QED BY <2>2, <2>3, <3>1, PushFacts, PushIsPut
  <2>5. CASE ~OnScreen(newX, newY)
    <3>1. d = b
      BY <2>5 DEF MoveCharacter
    <3>2. Text!Put(Abs(b), ch, newX, newY) = Abs(b)
      BY <2>5, SameCells DEF Text!Put
    <3> QED BY <1>1, <2>3, <3>1, <3>2
  <2> QED BY <2>4, <2>5
<1>3. CASE ~OnScreen(oldX, oldY)
  <2>1. d = b
    BY <1>3 DEF MoveCharacter
  <2>2. Text!MoveCharacter(Abs(b), newX, newY, oldX, oldY) = Abs(b)
    BY <1>3, SameCells DEF Text!MoveCharacter
  <2> QED BY <1>1, <2>1, <2>2
<1> QED BY <1>2, <1>3

\* Two backends that differ in the cursor only.
At(b, x, y) == [b EXCEPT !.x = x, !.y = y]

LEMMA CursorMoves ==
  ASSUME NEW b \in Good, NEW x \in Nat, NEW y \in Nat
  PROVE  At(b, x, y) \in Good /\ Abs(At(b, x, y)) = At(Abs(b), x, y)
<1> DEFINE d == [b EXCEPT !.x = x, !.y = y]
           c == [i \in Cells |-> CharAt(b, i)]
<1>1. b \in Backend /\ b.top < b.bottom
  BY DEF Good
<1>2. /\ d \in Backend /\ d.top < d.bottom /\ d.x = x /\ d.y = y
      /\ d.grid = b.grid /\ d.queue = b.queue /\ d.map = b.map
      /\ d.oldX = b.oldX /\ d.oldY = b.oldY
      /\ d.fg = b.fg /\ d.bg = b.bg /\ d.saved = b.saved
      /\ d.top = b.top /\ d.bottom = b.bottom /\ d.scroll = b.scroll /\ d.enabled = b.enabled
  BY <1>1 DEF Backend
<1> HIDE DEF d
<1>3. d \in Good /\ [i \in Cells |-> CharAt(d, i)] = c
  BY <1>2, GoodAlike
<1>5. Abs(d) = [cells |-> c, x |-> d.x, y |-> d.y,
                fg |-> d.fg, bg |-> d.bg, saved |-> d.saved, top |-> d.top,
                bottom |-> d.bottom, scroll |-> d.scroll, enabled |-> d.enabled]
  BY <1>3 DEF Abs
<1>6. Abs(d) = [Abs(b) EXCEPT !.x = x, !.y = y]
  <2> DEFINE r == [cells |-> c, x |-> x, y |-> y,
                   fg |-> b.fg, bg |-> b.bg, saved |-> b.saved, top |-> b.top,
                   bottom |-> b.bottom, scroll |-> b.scroll, enabled |-> b.enabled]
  <2>1. [Abs(b) EXCEPT !.x = x, !.y = y] = r
    BY BothExcept
  <2> HIDE DEF c
  <2>2. Abs(d) = r
    BY <1>2, <1>5
  <2> QED BY <2>1, <2>2
<1> QED BY <1>3, <1>6 DEF d, At

\* A backend whose queue and characters are b's stands for b's characters.
LEMMA SetFacts ==
  ASSUME NEW b \in Good, NEW d \in Backend, d.top < d.bottom,
         d.grid = b.grid, d.queue = b.queue, d.map = b.map
  PROVE  /\ d \in Good
         /\ Abs(d) = [cells |-> [i \in Cells |-> CharAt(b, i)], x |-> d.x, y |-> d.y,
                      fg |-> d.fg, bg |-> d.bg, saved |-> d.saved, top |-> d.top,
                      bottom |-> d.bottom, scroll |-> d.scroll, enabled |-> d.enabled]
<1>1. d \in Good /\ [i \in Cells |-> CharAt(d, i)] = [i \in Cells |-> CharAt(b, i)]
  BY GoodAlike
<1> QED BY <1>1 DEF Abs

LEMMA ColumnMoves ==
  ASSUME NEW b \in Good
  PROVE  /\ [b EXCEPT !.x = @ + 1] \in Good
         /\ Abs([b EXCEPT !.x = @ + 1]) = [Abs(b) EXCEPT !.x = @ + 1]
<1> DEFINE d == [b EXCEPT !.x = @ + 1]
           c == [i \in Cells |-> CharAt(b, i)]
           a == Abs(b)
           r == [cells |-> c, x |-> b.x + 1, y |-> b.y,
                 fg |-> b.fg, bg |-> b.bg, saved |-> b.saved, top |-> b.top,
                 bottom |-> b.bottom, scroll |-> b.scroll, enabled |-> b.enabled]
<1>1. b \in Backend /\ b.top < b.bottom
  BY DEF Good
<1>2. /\ d \in Backend /\ d.top < d.bottom /\ d.x = b.x + 1 /\ d.y = b.y
      /\ d.grid = b.grid /\ d.queue = b.queue /\ d.map = b.map
      /\ d.fg = b.fg /\ d.bg = b.bg /\ d.saved = b.saved
      /\ d.top = b.top /\ d.bottom = b.bottom /\ d.scroll = b.scroll /\ d.enabled = b.enabled
  <2> DEFINE n == b.x + 1
  <2>1. n \in Nat
    BY <1>1 DEF Backend
  <2>2. d = [b EXCEPT !.x = n]
    OBVIOUS
  <2> HIDE DEF n, d
  <2>3. /\ d \in Backend /\ d.top < d.bottom /\ d.x = n /\ d.y = b.y
        /\ d.grid = b.grid /\ d.queue = b.queue /\ d.map = b.map
        /\ d.fg = b.fg /\ d.bg = b.bg /\ d.saved = b.saved
        /\ d.top = b.top /\ d.bottom = b.bottom /\ d.scroll = b.scroll /\ d.enabled = b.enabled
    BY <1>1, <2>1, <2>2 DEF Backend
  <2> QED BY <2>3 DEF n
<1> HIDE DEF d
<1>3. d \in Good /\ Abs(d) = r
  BY <1>2, SetFacts
<1>4. a = [cells |-> c, x |-> b.x, y |-> b.y,
           fg |-> b.fg, bg |-> b.bg, saved |-> b.saved, top |-> b.top,
           bottom |-> b.bottom, scroll |-> b.scroll, enabled |-> b.enabled]
  BY DEF Abs
<1> HIDE DEF a, c
<1>5. [a EXCEPT !.x = @ + 1] = r
  BY <1>4
<1> QED BY <1>3, <1>5 DEF a, d

LEMMA RawPutcharFacts ==
  ASSUME NEW b \in Good, NEW c \in Chars
  PROVE  /\ RawPutchar(b, c) \in Good
         /\ Abs(RawPutchar(b, c)) = Text!RawPutchar(Abs(b), c)
         /\ RawPutchar(b, c).grid = b.grid
         /\ RawPutchar(b, c).oldX = b.oldX /\ RawPutchar(b, c).oldY = b.oldY
<1> DEFINE d == IF ~Wraps(b) THEN b
                ELSE NextLine(IF b.y + 1 = b.bottom THEN Scroll(b) ELSE b)
           u == IF ~Text!Wraps(Abs(b)) THEN Abs(b)
                ELSE Text!NextLine(IF Abs(b).y + 1 = Abs(b).bottom THEN Text!Scroll(Abs(b))
                                   ELSE Abs(b))
           ch == [c |-> c, fg |-> b.fg, bg |-> b.bg]
           e == Push(d, ch, d.x, d.y)
<1>1. ASSUME NEW f \in Good
      PROVE  /\ Abs(f).x = f.x /\ Abs(f).y = f.y /\ Abs(f).fg = f.fg /\ Abs(f).bg = f.bg
             /\ Abs(f).bottom = f.bottom /\ Abs(f).scroll = f.scroll
             /\ f.x \in Nat /\ f.y \in Nat /\ f.bottom \in Nat /\ f \in Backend
             /\ f.fg \in Tints /\ f.bg \in Tints
  <2>1. f \in Backend
    BY DEF Good
  <2>2. f.x \in Nat /\ f.y \in Nat /\ f.bottom \in Nat /\ f.fg \in Tints /\ f.bg \in Tints
    BY <2>1, ScreenAssumption DEF Backend
  <2>3. /\ Abs(f).x = f.x /\ Abs(f).y = f.y /\ Abs(f).fg = f.fg /\ Abs(f).bg = f.bg
        /\ Abs(f).bottom = f.bottom /\ Abs(f).scroll = f.scroll
    BY DEF Abs
  <2> QED BY <2>1, <2>2, <2>3
<1>2. ASSUME NEW f \in Good
      PROVE  /\ NextLine(f) \in Good /\ Abs(NextLine(f)) = Text!NextLine(Abs(f))
             /\ NextLine(f).grid = f.grid
             /\ NextLine(f).oldX = f.oldX /\ NextLine(f).oldY = f.oldY
  <2> DEFINE y == IF f.y + 1 = f.bottom THEN f.y ELSE f.y + 1
             z == IF y >= Cols THEN Cols - 1 ELSE y
  <2>1. NextLine(f) = [f EXCEPT !.x = 0, !.y = z]
    BY DEF NextLine
  <2>2. Text!NextLine(Abs(f)) = [Abs(f) EXCEPT !.x = 0, !.y = z]
    BY <1>1 DEF Text!NextLine
  <2>3. z \in Nat /\ 0 \in Nat
    BY <1>1, ScreenAssumption
  <2>4. NextLine(f).grid = f.grid /\ NextLine(f).oldX = f.oldX /\ NextLine(f).oldY = f.oldY
    BY <1>1, <2>1 DEF Backend
  <2> HIDE DEF z
  <2>5. At(f, 0, z) \in Good /\ Abs(At(f, 0, z)) = At(Abs(f), 0, z)
    BY <2>3, CursorMoves
  <2> QED BY <2>1, <2>2, <2>4, <2>5 DEF At
<1>3. /\ d \in Good /\ Abs(d) = u /\ d.grid = b.grid /\ d.oldX = b.oldX /\ d.oldY = b.oldY
  <2>1. Text!Wraps(Abs(b)) <=> Wraps(b)
    BY <1>1 DEF Text!Wraps, Wraps
  <2>2. CASE ~Wraps(b)
    BY <2>1, <2>2
  <2>3. CASE Wraps(b) /\ b.y + 1 = b.bottom
    <3>1. d = NextLine(Scroll(b)) /\ u = Text!NextLine(Text!Scroll(Abs(b)))
      BY <1>1, <2>1, <2>3
    <3>2. Scroll(b) \in Good /\ Alike(b, Scroll(b)) /\ Abs(Scroll(b)) = Text!Scroll(Abs(b))
      BY ScrollFacts
    <3> HIDE DEF d, u
    <3> QED BY <1>2, <3>1, <3>2 DEF Alike
  <2>4. CASE Wraps(b) /\ b.y + 1 # b.bottom
    <3>1. d = NextLine(b) /\ u = Text!NextLine(Abs(b))
      BY <1>1, <2>1, <2>4
    <3> HIDE DEF d, u
    <3> QED BY <1>2, <3>1
  <2> QED BY <2>2, <2>3, <2>4
<1>4. RawPutchar(b, c) = [e EXCEPT !.x = @ + 1]
  BY DEF RawPutchar
<1>5. Text!RawPutchar(Abs(b), c) = [Text!Put(u, ch, u.x, u.y) EXCEPT !.x = @ + 1]
  <2>1. Abs(b).fg = b.fg /\ Abs(b).bg = b.bg
    BY <1>1
  <2> HIDE DEF ch
  <2>2. Text!RawPutchar(Abs(b), c) = [Text!Put(u, [c |-> c, fg |-> Abs(b).fg, bg |-> Abs(b).bg],
                                               u.x, u.y) EXCEPT !.x = @ + 1]
    BY DEF Text!RawPutchar
  <2> QED BY <2>1, <2>2 DEF ch
<1> HIDE DEF d, u
<1>6. ch \in Char
  <2>1. c \in Names
    BY DEF Names
  <2>2. b.fg \in Tints /\ b.bg \in Tints
    BY <1>1
  <2> QED BY <2>1, <2>2 DEF Char
<1> HIDE DEF ch
<1>7. u.x = d.x /\ u.y = d.y /\ d.x \in Int /\ d.y \in Int
  BY <1>1, <1>3
<1>8. e \in Good /\ Alike(d, e) /\ Abs(e) = Text!Put(u, ch, u.x, u.y)
  BY <1>3, <1>6, <1>7, PushFacts, PushIsPut
<1> HIDE DEF e
<1>9. [e EXCEPT !.x = @ + 1] \in Good /\ Abs([e EXCEPT !.x = @ + 1]) = [Abs(e) EXCEPT !.x = @ + 1]
  BY <1>8, ColumnMoves
<1>10. LET f == [e EXCEPT !.x = @ + 1] IN
       f.grid = e.grid /\ f.oldX = e.oldX /\ f.oldY = e.oldY
  <2>1. e \in Backend
    BY <1>8 DEF Good
  <2> QED BY <2>1 DEF Backend
<1> QED BY <1>3, <1>4, <1>5, <1>8, <1>9, <1>10 DEF Alike

-----------------------------------------------------------------------------
(* The flush. *)

Shades == Char \cup {Mixed}
View == [fb : Backend, screen : [Cells -> Shades]]

\* Drawing a cell's character: it is kept in grid, and is off the map.
Kept(b, c, ch) == [b EXCEPT !.grid[c] = ch, !.map[c] = 0]

KeptIn(w, c, ch) == [w EXCEPT !.fb.grid[c] = ch, !.fb.map[c] = 0]

LEMMA KeptInIs ==
  ASSUME NEW b, NEW sc, NEW c, NEW ch, NEW w, w = [fb |-> b, screen |-> sc]
  PROVE  KeptIn(w, c, ch) = [fb |-> Kept(b, c, ch), screen |-> sc]
<1> DEFINE w1 == [w EXCEPT !.fb.grid[c] = ch]
           b1 == [b EXCEPT !.grid[c] = ch]
           b2 == [b1 EXCEPT !.map[c] = 0]
<1>1. w1 = [fb |-> b1, screen |-> sc]
  OBVIOUS
<1>2. KeptIn(w, c, ch) = [w1 EXCEPT !.fb.map[c] = 0]
  BY DEF KeptIn
<1>3. Kept(b, c, ch) = b2
  BY DEF Kept
<1> HIDE DEF w1, b1
<1>4. [w1 EXCEPT !.fb.map[c] = 0] = [fb |-> b2, screen |-> sc]
  BY <1>1
<1> QED BY <1>2, <1>3, <1>4

\* d is b but for grid and map.
Still(b, d) ==
  /\ d.queue = b.queue /\ d.x = b.x /\ d.y = b.y /\ d.oldX = b.oldX /\ d.oldY = b.oldY
  /\ d.fg = b.fg /\ d.bg = b.bg /\ d.saved = b.saved
  /\ d.top = b.top /\ d.bottom = b.bottom /\ d.scroll = b.scroll /\ d.enabled = b.enabled

LEMMA KeptFacts ==
  ASSUME NEW b \in Backend, NEW c \in Cells, NEW ch \in Char
  PROVE  /\ Kept(b, c, ch) \in Backend
         /\ Still(b, Kept(b, c, ch))
         /\ \A i \in Cells : /\ Kept(b, c, ch).grid[i] = IF i = c THEN ch ELSE b.grid[i]
                             /\ Kept(b, c, ch).map[i] = IF i = c THEN 0 ELSE b.map[i]
<1> DEFINE g == [b.grid EXCEPT ![c] = ch]
           m == [b.map EXCEPT ![c] = 0]
           e == [b EXCEPT !.grid = g]
           d == [e EXCEPT !.map = m]
<1>1. b.grid \in [Cells -> Char] /\ b.map \in [Cells -> Nat]
  BY DEF Backend
<1>2. g \in [Cells -> Char] /\ \A i \in Cells : g[i] = IF i = c THEN ch ELSE b.grid[i]
  BY <1>1
<1>3. m \in [Cells -> Nat] /\ \A i \in Cells : m[i] = IF i = c THEN 0 ELSE b.map[i]
  BY <1>1
<1>4. Kept(b, c, ch) = d
  BY DEF Kept, Backend
<1> HIDE DEF g, m
<1>5. e \in Backend /\ e.grid = g /\ e.map = b.map /\ Still(b, e)
  BY <1>2 DEF Backend, Still
<1> HIDE DEF e
<1>6. d \in Backend /\ d.grid = g /\ d.map = m /\ Still(e, d)
  BY <1>3, <1>5 DEF Backend, Still
<1> HIDE DEF d
<1> QED BY <1>2, <1>3, <1>4, <1>5, <1>6 DEF Still

\* The colours of an empty cell and of "mixed" pixels do not matter here: what
\* a flush draws in a cell is what the screen shows of it afterwards.
LEMMA DrawItemFacts ==
  ASSUME NEW v \in View, NEW q \in Item
  PROVE  /\ DrawItem(v, q) \in View
         /\ v.fb.map[q.cell] = 0 => DrawItem(v, q) = v
         /\ v.fb.map[q.cell] # 0 =>
              /\ DrawItem(v, q).fb = Kept(v.fb, q.cell, q.c)
              /\ \A i \in Cells : i # q.cell => DrawItem(v, q).screen[i] = v.screen[i]
              /\ v.screen[q.cell] = v.fb.grid[q.cell] => DrawItem(v, q).screen[q.cell] = q.c
<1> DEFINE c == q.cell
           ch == q.c
           old == v.fb.grid[c]
           w == IF ch.fg = old.fg /\ ch.bg = old.bg
                THEN PlotCharFast(v, old, ch, c) ELSE PlotChar(v, ch, c)
           sc == IF ch.fg = old.fg /\ ch.bg = old.bg
                 THEN IF old.c = ch.c THEN v.screen
                      ELSE [v.screen EXCEPT ![c] = IF @ = old THEN ch ELSE Mixed]
                 ELSE [v.screen EXCEPT ![c] = ch]
<1>1. c \in Cells /\ ch \in Char /\ q = [cell |-> c, c |-> ch]
  BY DEF Item
<1>2. /\ v.fb \in Backend /\ v.screen \in [Cells -> Shades]
      /\ v = [fb |-> v.fb, screen |-> v.screen]
  BY DEF View
<1>3. old \in Char
  BY <1>1, <1>2 DEF Backend
<1>4. w = [fb |-> v.fb, screen |-> sc]
  BY <1>2 DEF PlotCharFast, PlotChar
<1>5. sc \in [Cells -> Shades]
  BY <1>1, <1>2 DEF Shades
<1>6. \A i \in Cells : i # c => sc[i] = v.screen[i]
  BY <1>1, <1>2
<1>7. v.screen[c] = old => sc[c] = ch
  <2>1. old.c = ch.c /\ ch.fg = old.fg /\ ch.bg = old.bg => old = ch
    BY <1>1, <1>3 DEF Char
  <2> QED BY <1>1, <1>2, <2>1
<1>8. DrawItem(v, q) = IF v.fb.map[c] = 0 THEN v
                       ELSE KeptIn(w, c, ch)
  BY DEF DrawItem, KeptIn
<1> HIDE DEF c, ch, sc, w
<1>9. KeptIn(w, c, ch) = [fb |-> Kept(v.fb, c, ch), screen |-> sc]
  BY <1>4, KeptInIs
<1>10. Kept(v.fb, c, ch) \in Backend
  BY <1>1, <1>2, KeptFacts
<1>11. [fb |-> Kept(v.fb, c, ch), screen |-> sc] \in View
  BY <1>5, <1>10 DEF View
<1>12. CASE v.fb.map[c] = 0
  BY <1>8, <1>12 DEF c
<1>13. CASE v.fb.map[c] # 0
  BY <1>6, <1>7, <1>8, <1>9, <1>11, <1>13 DEF c, ch
<1> QED BY <1>12, <1>13

LEMMA InvertedType ==
  ASSUME NEW ch \in Char
  PROVE  Inverted(ch) \in Char
<1> DEFINE e == [ch EXCEPT !.fg = ch.bg]
<1>1. ch.bg \in Tints /\ ch.fg \in Tints
  BY DEF Char
<1>2. e \in Char
  BY <1>1 DEF Char
<1>3. Inverted(ch) = [e EXCEPT !.bg = ch.fg]
  BY DEF Inverted
<1> HIDE DEF e
<1> QED BY <1>1, <1>2, <1>3 DEF Char

HasCursor(b, i) == b.enabled /\ OnScreen(b.x, b.y) /\ i = Cell(b.x, b.y)

\* The cell in which the flush draws over the old cursor.
Erased(b, i) ==
  /\ b.oldX # b.x \/ b.oldY # b.y \/ ~b.enabled
  /\ OnScreen(b.oldX, b.oldY) /\ i = Cell(b.oldX, b.oldY)

\* GridIsOnScreen for the backend b and the screen sc.
GridShown(b, sc) ==
  \A i \in Cells : sc[i] # b.grid[i] =>
    /\ sc[i] = Inverted(b.grid[i])
    /\ i = Cell(b.oldX, b.oldY) /\ OnScreen(b.oldX, b.oldY)

\* v is where the flush of b is after the first k entries of the queue.
Drawing(b, k, v) ==
  /\ v \in View /\ Still(b, v.fb)
  /\ \A i \in Cells :
       /\ CharAt(v.fb, i) = CharAt(b, i)
       /\ v.fb.map[i] \in {0, b.map[i]}
       /\ v.fb.map[i] # 0 => v.fb.map[i] > k
       /\ HasCursor(b, i) => v.fb.map[i] = 0
       /\ ~Erased(b, i) => v.screen[i] = IF HasCursor(b, i) THEN Inverted(v.fb.grid[i])
                                         ELSE v.fb.grid[i]

Begun(v) == IF v.fb.enabled THEN DrawCursor(v) ELSE v

LEMMA BegunFacts ==
  ASSUME NEW b \in Good, NEW sc \in [Cells -> Char], GridShown(b, sc)
  PROVE  Drawing(b, 0, Begun([fb |-> b, screen |-> sc]))
<1> DEFINE v == [fb |-> b, screen |-> sc]
           c == Cell(b.x, b.y)
           ch == CharAt(b, c)
<1>1. /\ b \in Backend /\ b.map \in [Cells -> Nat] /\ b.grid \in [Cells -> Char]
      /\ b.enabled \in BOOLEAN /\ v.fb = b /\ v.screen = sc
  BY DEF Good, Backend
<1>2. CASE ~(b.enabled /\ OnScreen(b.x, b.y))
  <2>1. Begun(v) = v
    BY <1>2 DEF Begun, DrawCursor
  <2>2. v \in View
    BY <1>1 DEF View, Shades
  <2>3. ASSUME NEW i \in Cells
        PROVE  /\ b.map[i] # 0 => b.map[i] > 0
               /\ ~HasCursor(b, i)
               /\ ~Erased(b, i) => sc[i] = b.grid[i]
    <3>1. b.map[i] # 0 => b.map[i] > 0
      BY <1>1
    <3>2. ~HasCursor(b, i)
      BY <1>2 DEF HasCursor
    <3>3. ~Erased(b, i) => sc[i] = b.grid[i]
      BY <1>2 DEF GridShown, Erased
    <3> QED BY <3>1, <3>2, <3>3
  <2> HIDE DEF v
  <2> QED BY <1>1, <2>1, <2>2, <2>3 DEF Drawing, Still, v
<1>3. CASE b.enabled /\ OnScreen(b.x, b.y)
  <2> DEFINE s1 == [sc EXCEPT ![c] = Inverted(ch)]
             w == [fb |-> b, screen |-> s1]
             d == Kept(b, c, ch)
  <2>1. c \in Cells
    BY <1>3, OnScreenIsCell DEF OnScreen
  <2>2. ch \in Char /\ Inverted(ch) \in Char
    BY <2>1, CharAtType, InvertedType
  <2>3. Begun(v) = KeptIn(w, c, ch)
    <3>1. w = PlotChar(v, Inverted(ch), c)
      BY DEF PlotChar
    <3>2. DrawCursor(v) = IF OnScreen(v.fb.x, v.fb.y)
            THEN KeptIn(PlotChar(v, Inverted(CharAt(v.fb, Cell(v.fb.x, v.fb.y))),
                                 Cell(v.fb.x, v.fb.y)),
                        Cell(v.fb.x, v.fb.y), CharAt(v.fb, Cell(v.fb.x, v.fb.y)))
            ELSE v
      BY DEF DrawCursor, KeptIn
    <3> HIDE DEF v, w
    <3> QED BY <1>1, <1>3, <3>1, <3>2 DEF Begun
  <2> HIDE DEF ch, c, s1
  <2>4. KeptIn(w, c, ch) = [fb |-> d, screen |-> s1]
    BY KeptInIs
  <2>5. s1 \in [Cells -> Char] /\ \A i \in Cells : s1[i] = IF i = c THEN Inverted(ch) ELSE sc[i]
    BY <2>1, <2>2 DEF s1
  <2>6. /\ d \in Backend /\ Still(b, d)
        /\ \A i \in Cells : /\ d.grid[i] = IF i = c THEN ch ELSE b.grid[i]
                            /\ d.map[i] = IF i = c THEN 0 ELSE b.map[i]
    BY <1>1, <2>1, <2>2, KeptFacts
  <2> HIDE DEF d
  <2>7. [fb |-> d, screen |-> s1] \in View
    BY <2>5, <2>6 DEF View, Shades
  <2>8. ASSUME NEW i \in Cells
        PROVE  /\ CharAt(d, i) = CharAt(b, i)
               /\ d.map[i] \in {0, b.map[i]}
               /\ d.map[i] # 0 => d.map[i] > 0
               /\ HasCursor(b, i) => d.map[i] = 0
               /\ ~Erased(b, i) => s1[i] = IF HasCursor(b, i) THEN Inverted(d.grid[i])
                                           ELSE d.grid[i]
    <3>1. CharAt(d, i) = CharAt(b, i)
      BY <2>6 DEF CharAt, Still, ch
    <3>2. d.map[i] \in {0, b.map[i]} /\ (d.map[i] # 0 => d.map[i] > 0)
      BY <1>1, <2>6
    <3>3. HasCursor(b, i) <=> i = c
      BY <1>3 DEF HasCursor, c
    <3>4. i # c /\ ~Erased(b, i) => sc[i] = b.grid[i]
      BY <1>3 DEF GridShown, Erased, c
    <3> QED BY <2>5, <2>6, <3>1, <3>2, <3>3, <3>4
  <2> HIDE DEF v
  <2> QED BY <2>3, <2>4, <2>6, <2>7, <2>8 DEF Drawing, v
<1> QED BY <1>2, <1>3

LEMMA DrawStep ==
  ASSUME NEW b \in Good, NEW k \in Nat, k + 1 \in DOMAIN b.queue, NEW v, Drawing(b, k, v)
  PROVE  Drawing(b, k + 1, DrawItem(v, b.queue[k + 1]))
<1> DEFINE q == b.queue[k + 1]
           c == q.cell
           d == DrawItem(v, q)
<1>1. /\ b \in Backend /\ Indexed(b) /\ b.queue \in Seq(Item)
      /\ b.map \in [Cells -> Nat] /\ v \in View /\ v.fb \in Backend /\ Still(b, v.fb)
  BY DEF Good, Backend, Drawing, View
<1>2. q \in Item /\ c \in Cells /\ q.c \in Char /\ b.map[c] = k + 1
  <2>1. q \in Item
    BY <1>1, ElementOfSeq, LenProperties
  <2> QED BY <1>1, <2>1 DEF Indexed, Item
<1>3. \A i \in Cells : b.map[i] = k + 1 => i = c
  BY <1>1 DEF Indexed
<1>4. \A i \in Cells : v.fb.map[i] \in Nat
  BY <1>1 DEF Backend
<1>5. /\ d \in View
      /\ v.fb.map[c] = 0 => d = v
      /\ v.fb.map[c] # 0 =>
              /\ d.fb = Kept(v.fb, c, q.c)
              /\ \A i \in Cells : i # c => d.screen[i] = v.screen[i]
              /\ v.screen[c] = v.fb.grid[c] => d.screen[c] = q.c
  BY <1>1, <1>2, DrawItemFacts
<1> HIDE DEF c, d, q
<1>6. CASE v.fb.map[c] = 0
  <2>1. \A i \in Cells : v.fb.map[i] # 0 => v.fb.map[i] > k + 1
    <3> TAKE i \in Cells
    <3> HAVE v.fb.map[i] # 0
    <3>1. v.fb.map[i] > k /\ v.fb.map[i] = b.map[i] /\ v.fb.map[i] \in Nat
      BY <1>4 DEF Drawing
    <3>2. b.map[i] # k + 1
      BY <1>3, <1>6
    <3> QED BY <3>1, <3>2
  <2> QED BY <1>5, <1>6, <2>1 DEF Drawing, d, q
<1>7. CASE v.fb.map[c] # 0
  <2> DEFINE f == Kept(v.fb, c, q.c)
  <2>1. /\ f \in Backend /\ Still(v.fb, f)
        /\ \A i \in Cells : /\ f.grid[i] = IF i = c THEN q.c ELSE v.fb.grid[i]
                            /\ f.map[i] = IF i = c THEN 0 ELSE v.fb.map[i]
    BY <1>1, <1>2, KeptFacts
  <2> HIDE DEF f
  <2>2. d.fb = f
    BY <1>5, <1>7 DEF f
  <2>3. Still(b, f)
    BY <1>1, <2>1 DEF Still
  <2>4. CharAt(v.fb, c) = q.c
    <3>1. v.fb.map[c] = k + 1
      BY <1>2, <1>7 DEF Drawing
    <3>2. v.fb.queue[k + 1] = q
      BY <1>1 DEF Still, q
    <3> QED BY <1>7, <3>1, <3>2 DEF CharAt
  <2>5. ASSUME NEW i \in Cells
        PROVE  /\ CharAt(f, i) = CharAt(b, i)
               /\ f.map[i] \in {0, b.map[i]}
               /\ f.map[i] # 0 => f.map[i] > k + 1
               /\ HasCursor(b, i) => f.map[i] = 0
               /\ ~Erased(b, i) => d.screen[i] = IF HasCursor(b, i) THEN Inverted(f.grid[i])
                                                 ELSE f.grid[i]
    <3>1. CASE i = c
      <4>1. f.map[c] = 0 /\ f.grid[c] = q.c /\ CharAt(f, c) = q.c
        BY <1>2, <2>1 DEF CharAt
      <4>2. ~HasCursor(b, c)
        BY <1>2, <1>7 DEF Drawing
      <4>3. ~Erased(b, c) => v.screen[c] = v.fb.grid[c]
        BY <1>2, <4>2 DEF Drawing
      <4>4. CharAt(v.fb, c) = CharAt(b, c)
        BY <1>2 DEF Drawing
      <4> QED BY <1>5, <1>7, <2>4, <3>1, <4>1, <4>2, <4>3, <4>4
    <3>2. CASE i # c
      <4>1. f.map[i] = v.fb.map[i] /\ f.grid[i] = v.fb.grid[i] /\ f.queue = v.fb.queue
        BY <2>1, <3>2 DEF Still
      <4>2. CharAt(f, i) = CharAt(v.fb, i)
        BY <4>1 DEF CharAt
      <4>3. d.screen[i] = v.screen[i]
        BY <1>5, <1>7, <3>2
      <4>4. v.fb.map[i] # 0 => v.fb.map[i] > k + 1
        <5> HAVE v.fb.map[i] # 0
        <5>1. v.fb.map[i] > k /\ v.fb.map[i] = b.map[i] /\ v.fb.map[i] \in Nat
          BY <1>4 DEF Drawing
        <5>2. b.map[i] # k + 1
          BY <1>3, <3>2
        <5> QED BY <5>1, <5>2
      <4> QED BY <4>1, <4>2, <4>3, <4>4 DEF Drawing
    <3> QED BY <3>1, <3>2
  <2> QED BY <1>5, <2>2, <2>3, <2>5 DEF Drawing, d, q
<1> QED BY <1>6, <1>7

Drawn(b, v) == FoldLeft(LAMBDA u, q : DrawItem(u, q), v, b.queue)

\* The loop of the flush: every entry is drawn.
LEMMA DrawnFacts ==
  ASSUME NEW b \in Good, NEW v, Drawing(b, 0, v)
  PROVE  Drawing(b, Len(b.queue), Drawn(b, v))
<1> DEFINE Op(d, q) == DrawItem(d, q)
           from == b.queue
           n == Len(from)
           V == View
           step == [p \in V \X (1 .. n) |-> Op(p[1], from[p[2]])]
           Good1(F) == F = [s \in SUBSET (DOMAIN from) |->
                       IF s = {} THEN v ELSE Op(F[s \ {Max(s)}], from[Max(s)])]
           F == CHOOSE F : Good1(F)
<1>1. n \in Nat /\ DOMAIN from = 1 .. n /\ \A k \in 1 .. n : from[k] \in Item
  <2>1. from \in Seq(Item)
    BY DEF Good, Backend
  <2> QED BY <2>1, LenProperties, ElementOfSeq
<1>2. Drawn(b, v) = F[DOMAIN from]
  BY DEF Drawn, FoldLeft, MapThenFoldSet
<1> HIDE DEF from
<1>3. \A d \in V, k \in 1 .. n : Op(d, from[k]) \in V
  BY <1>1, DrawItemFacts
<1>4. step \in [V \X (1 .. n) -> V]
  BY <1>3
<1>5. PICK f \in [SUBSET (1 .. n) -> V], g \in [0 .. n -> V] :
        /\ Recurs(f, n, v, step)
        /\ g[0] = v
        /\ \A k \in 1 .. n : g[k] = step[<<g[k - 1], k>>]
        /\ \A G : Follows(G, n, V, v, step) => G[1 .. n] = g[n]
  <2>1. v \in V /\ n \in Nat
    BY <1>1 DEF Drawing
  <2> HIDE DEF V, step, n
  <2>2. Stepwise(n, V, v, step)
    BY <1>4, <2>1, FoldRun
  <2> QED BY <2>2 DEF Stepwise
<1>6. \A d \in V, k \in 1 .. n : step[<<d, k>>] = Op(d, from[k])
  OBVIOUS
<1>7. Good1(f)
  <2>1. \A s \in SUBSET (1 .. n) : s # {} => f[s \ {Max(s)}] \in V /\ Max(s) \in 1 .. n
    BY <1>1, LargestOf
  <2> QED BY <1>1, <1>5, <1>6, <2>1 DEF Recurs
<1>8. Good1(F)
  <2> HIDE DEF Good1
  <2> QED BY <1>7
<1>9. F[1 .. n] = g[n]
  <2> HIDE DEF F, step, V, Op
  <2>1. Follows(F, n, V, v, step)
    <3>1. \A s \in SUBSET (1 .. n) : s # {} => Max(s) \in 1 .. n
      BY <1>1, LargestOf
    <3> QED BY <1>1, <1>6, <1>8, <3>1 DEF Follows
  <2> QED BY <1>5, <2>1
<1> HIDE DEF F, step, n
<1>10. \A k \in 1 .. n : g[k] = DrawItem(g[k - 1], from[k])
  <2> TAKE k \in 1 .. n
  <2>1. g[k - 1] \in V
    BY <1>1, <1>5
  <2> QED BY <1>5, <1>6, <2>1
<1> DEFINE T == {k \in 0 .. n : Drawing(b, k, g[k])}
<1>11. 0 \in T
  BY <1>1, <1>5
<1>12. ASSUME NEW k \in 0 .. (n - 1), k \in T PROVE k + 1 \in T
  <2>1. k \in Nat /\ k + 1 \in 1 .. n /\ (k + 1) - 1 = k
    BY <1>1
  <2>2. g[k + 1] = DrawItem(g[k], from[k + 1])
    BY <1>10, <2>1
  <2>3. Drawing(b, k, g[k])
    BY <1>12
  <2>4. Drawing(b, k + 1, DrawItem(g[k], b.queue[k + 1]))
    BY <1>1, <2>1, <2>3, DrawStep DEF from
  <2> QED BY <1>1, <2>1, <2>2, <2>4 DEF from
<1>13. n \in T
  <2> HIDE DEF T
  <2>1. \A k \in 0 .. n : k \in T
    BY <1>1, <1>11, <1>12, UpTo
  <2> QED BY <1>1, <2>1
<1> QED BY <1>1, <1>2, <1>9, <1>13 DEF n, from

\* What the flush leaves: nothing is queued, grid has the characters, and the
\* screen is the picture of the text.
LEMMA FlushFacts ==
  ASSUME NEW b \in Good, NEW sc \in [Cells -> Char], GridShown(b, sc)
  PROVE  LET v == Flushed([fb |-> b, screen |-> sc])
         IN  /\ v.fb \in Good /\ v.screen \in [Cells -> Char]
             /\ GridShown(v.fb, v.screen)
             /\ Abs(v.fb) = Abs(b)
             /\ v.screen = Text!Picture(Abs(b))
<1> DEFINE v0 == [fb |-> b, screen |-> sc]
           n == Len(b.queue)
           u == Drawn(b, Begun(v0))
           w == EraseOldCursor(u)
           v == [w EXCEPT !.fb.oldX = b.x, !.fb.oldY = b.y, !.fb.queue = <<>>]
           c == Cell(b.x, b.y)
           o == Cell(b.oldX, b.oldY)
<1>1. /\ b \in Backend /\ b.top < b.bottom /\ Indexed(b) /\ b.queue \in Seq(Item)
      /\ b.map \in [Cells -> Nat] /\ n \in Nat /\ DOMAIN b.queue = 1 .. n
  BY LenProperties DEF Good, Backend
<1>2. Flushed(v0) = v
  BY DEF Flushed, Drawn, Begun, FoldLeft, MapThenFoldSet
<1>3. Drawing(b, n, u)
  BY BegunFacts, DrawnFacts
<1> HIDE DEF u, v0, n
<1>4. /\ u \in View /\ u.fb \in Backend /\ u.screen \in [Cells -> Shades]
      /\ u = [fb |-> u.fb, screen |-> u.screen] /\ Still(b, u.fb)
  BY <1>3 DEF Drawing, View
<1>5. \A i \in Cells : u.fb.map[i] = 0 /\ u.fb.grid[i] = CharAt(b, i)
  <2> TAKE i \in Cells
  <2>1. u.fb.map[i] = 0
    <3> SUFFICES ASSUME u.fb.map[i] # 0 PROVE FALSE
      OBVIOUS
    <3>1. u.fb.map[i] > n /\ u.fb.map[i] = b.map[i]
      BY <1>3 DEF Drawing
    <3>2. b.map[i] \in 1 .. n
      BY <1>1, <3>1 DEF Indexed
    <3> QED BY <1>1, <3>1, <3>2
  <2>2. CharAt(u.fb, i) = CharAt(b, i)
    BY <1>3 DEF Drawing
  <2> QED BY <2>1, <2>2 DEF CharAt
<1>6. \A i \in Cells : ~Erased(b, i) =>
        u.screen[i] = IF HasCursor(b, i) THEN Inverted(u.fb.grid[i]) ELSE u.fb.grid[i]
  BY <1>3 DEF Drawing
<1> DEFINE s1 == IF \E i \in Cells : Erased(b, i) THEN [u.screen EXCEPT ![o] = u.fb.grid[o]]
                 ELSE u.screen
<1>7. w = [fb |-> u.fb, screen |-> s1]
  <2>1. (\E i \in Cells : Erased(b, i)) <=>
          (b.oldX # b.x \/ b.oldY # b.y \/ ~b.enabled) /\ OnScreen(b.oldX, b.oldY)
    BY OnScreenIsCell DEF Erased, OnScreen
  <2>2. w = IF (b.oldX # b.x \/ b.oldY # b.y \/ ~b.enabled) /\ OnScreen(b.oldX, b.oldY)
            THEN PlotChar(u, u.fb.grid[o], o) ELSE u
    BY <1>4 DEF EraseOldCursor, Still
  <2> HIDE DEF w
  <2> QED BY <1>4, <2>1, <2>2 DEF PlotChar
<1>8. ASSUME NEW i \in Cells
      PROVE  s1[i] = IF HasCursor(b, i) THEN Inverted(u.fb.grid[i]) ELSE u.fb.grid[i]
  <2>1. CASE Erased(b, i)
    <3>1. i = o /\ s1[i] = u.fb.grid[i]
      BY <1>4, <2>1 DEF Erased
    <3>2. ~HasCursor(b, i)
      BY <2>1, CellsDiffer DEF Erased, HasCursor
    <3> QED BY <3>1, <3>2
  <2>2. CASE ~Erased(b, i)
    <3>1. (\E j \in Cells : Erased(b, j)) => o # i
      BY <2>2 DEF Erased
    <3>2. s1[i] = u.screen[i]
      BY <1>4, <3>1
    <3> HIDE DEF s1
    <3> QED BY <1>6, <2>2, <3>2
  <2> QED BY <2>1, <2>2
<1> HIDE DEF s1
<1>9. s1 \in [Cells -> Char]
  <2>1. s1 \in [Cells -> Shades]
    BY <1>4, <1>5 DEF s1, Backend, Shades
  <2>2. \A i \in Cells : s1[i] \in Char
    BY <1>5, <1>8, CharAtType, InvertedType
  <2> QED BY <2>1, <2>2
<1> DEFINE f == u.fb
           d == [[[f EXCEPT !.oldX = b.x] EXCEPT !.oldY = b.y] EXCEPT !.queue = <<>>]
<1>10. v = [fb |-> d, screen |-> s1]
  <2> DEFINE d1 == [f EXCEPT !.oldX = b.x]
             d2 == [d1 EXCEPT !.oldY = b.y]
             w1 == [w EXCEPT !.fb.oldX = b.x]
             w2 == [w1 EXCEPT !.fb.oldY = b.y]
             w3 == [w2 EXCEPT !.fb.queue = <<>>]
  <2>1. v = w3
    OBVIOUS
  <2>2. w1 = [fb |-> d1, screen |-> s1]
    <3> HIDE DEF w
    <3> QED BY <1>7
  <2> HIDE DEF w1, d1
  <2>3. w2 = [fb |-> d2, screen |-> s1]
    BY <2>2
  <2> HIDE DEF w2, d2
  <2>4. w3 = [fb |-> [d2 EXCEPT !.queue = <<>>], screen |-> s1]
    BY <2>3
  <2> QED BY <2>1, <2>4 DEF d2, d1
<1> HIDE DEF v, w
<1>11. f \in Backend /\ f.map \in [Cells -> Nat] /\ f.grid \in [Cells -> Char]
  BY <1>4 DEF Backend
<1> HIDE DEF f
<1>12. /\ d \in Backend /\ d.grid = f.grid /\ d.map = f.map /\ d.queue = <<>>
       /\ d.oldX = b.x /\ d.oldY = b.y /\ d.x = f.x /\ d.y = f.y
       /\ d.fg = f.fg /\ d.bg = f.bg /\ d.saved = f.saved /\ d.top = f.top
       /\ d.bottom = f.bottom /\ d.scroll = f.scroll /\ d.enabled = f.enabled
  <2>1. b.x \in Nat /\ b.y \in Nat
    BY <1>1 DEF Backend
  <2>2. <<>> \in Seq(Item)
    OBVIOUS
  <2> QED BY <1>11, <2>1, <2>2 DEF Backend
<1> HIDE DEF d
<1>13. /\ d.x = b.x /\ d.y = b.y /\ d.fg = b.fg /\ d.bg = b.bg /\ d.saved = b.saved
       /\ d.top = b.top /\ d.bottom = b.bottom /\ d.scroll = b.scroll /\ d.enabled = b.enabled
  BY <1>4, <1>12 DEF Still, f
<1>14. \A i \in Cells : d.map[i] = 0 /\ d.grid[i] = CharAt(b, i) /\ CharAt(d, i) = CharAt(b, i)
  BY <1>5, <1>12 DEF CharAt, f
<1>15. d \in Good
  <2>1. DOMAIN d.queue = {}
    BY <1>12
  <2>2. Indexed(d)
    BY <1>14, <2>1 DEF Indexed
  <2> QED BY <1>1, <1>12, <1>13, <2>2 DEF Good
<1>16. GridShown(d, s1)
  BY <1>8, <1>12, <1>14, <1>5 DEF GridShown, HasCursor
<1>17. Abs(d) = Abs(b)
  <2>1. [i \in Cells |-> CharAt(d, i)] = [i \in Cells |-> CharAt(b, i)]
    BY <1>14
  <2> QED BY <1>13, <2>1 DEF Abs
<1>18. s1 = Text!Picture(Abs(b))
  <2> DEFINE t == Abs(b)
  <2>1. t.enabled = b.enabled /\ t.x = b.x /\ t.y = b.y /\ \A i \in Cells : t.cells[i] = CharAt(b, i)
    BY DEF Abs
  <2> HIDE DEF t
  <2>2. \A ch : Text!Inverted(ch) = Inverted(ch)
    BY DEF Text!Inverted, Inverted
  <2>3. Text!Picture(t) = [i \in Cells |-> IF t.enabled /\ OnScreen(t.x, t.y) /\ i = Cell(t.x, t.y)
                                           THEN Inverted(t.cells[i]) ELSE t.cells[i]]
    BY <2>2, SameCells DEF Text!Picture
  <2>4. \A i \in Cells : s1[i] = IF HasCursor(b, i) THEN Inverted(t.cells[i]) ELSE t.cells[i]
    BY <1>5, <1>8, <2>1
  <2>5. \A i \in Cells : HasCursor(b, i) <=> (t.enabled /\ OnScreen(t.x, t.y) /\ i = Cell(t.x, t.y))
    BY <2>1 DEF HasCursor
  <2>6. s1 = [i \in Cells |-> s1[i]]
    BY <1>9
  <2> QED BY <2>3, <2>4, <2>5, <2>6 DEF t
<1>19. v.fb = d /\ v.screen = s1
  BY <1>10
<1> QED BY <1>2, <1>9, <1>15, <1>16, <1>17, <1>18, <1>19 DEF v0

-----------------------------------------------------------------------------
(* The callbacks that change the cursor, the colours or a setting. *)

\* A callback leaves the cells as drawn, and where the cursor was drawn, alone.
Keeps(b, d) == d \in Good /\ d.grid = b.grid /\ d.oldX = b.oldX /\ d.oldY = b.oldY

Fg(b, v) == [b EXCEPT !.fg = v]

LEMMA FgFacts ==
  ASSUME NEW b \in Good, NEW v \in Tints
  PROVE  Keeps(b, Fg(b, v)) /\ Abs(Fg(b, v)) = Fg(Abs(b), v)
<1> DEFINE d == Fg(b, v)
           c == [i \in Cells |-> CharAt(b, i)]
           a == Abs(b)
           r == [cells |-> c, x |-> b.x, y |-> b.y,
                 fg |-> v, bg |-> b.bg, saved |-> b.saved, top |-> b.top,
                 bottom |-> b.bottom, scroll |-> b.scroll, enabled |-> b.enabled]
<1>1. b \in Backend /\ b.top < b.bottom
  BY DEF Good
<1>2. /\ d \in Backend /\ d.top < d.bottom /\ d.fg = v
      /\ d.grid = b.grid /\ d.queue = b.queue /\ d.map = b.map
      /\ d.oldX = b.oldX /\ d.oldY = b.oldY
      /\ d.x = b.x /\ d.y = b.y /\ d.bg = b.bg /\ d.saved = b.saved
      /\ d.top = b.top /\ d.bottom = b.bottom /\ d.scroll = b.scroll /\ d.enabled = b.enabled
  BY <1>1 DEF Backend, Fg
<1> HIDE DEF d
<1>3. d \in Good /\ Abs(d) = r
  BY <1>2, SetFacts
<1>4. a = [cells |-> c, x |-> b.x, y |-> b.y,
           fg |-> b.fg, bg |-> b.bg, saved |-> b.saved, top |-> b.top,
           bottom |-> b.bottom, scroll |-> b.scroll, enabled |-> b.enabled]
  BY DEF Abs
<1> HIDE DEF a, c
<1>5. Fg(a, v) = r
  BY <1>4 DEF Fg
<1> QED BY <1>2, <1>3, <1>5 DEF a, d, Keeps

Bg(b, v) == [b EXCEPT !.bg = v]

LEMMA BgFacts ==
  ASSUME NEW b \in Good, NEW v \in Tints
  PROVE  Keeps(b, Bg(b, v)) /\ Abs(Bg(b, v)) = Bg(Abs(b), v)
<1> DEFINE d == Bg(b, v)
           c == [i \in Cells |-> CharAt(b, i)]
           a == Abs(b)
           r == [cells |-> c, x |-> b.x, y |-> b.y,
                 fg |-> b.fg, bg |-> v, saved |-> b.saved, top |-> b.top,
                 bottom |-> b.bottom, scroll |-> b.scroll, enabled |-> b.enabled]
<1>1. b \in Backend /\ b.top < b.bottom
  BY DEF Good
<1>2. /\ d \in Backend /\ d.top < d.bottom /\ d.bg = v
      /\ d.grid = b.grid /\ d.queue = b.queue /\ d.map = b.map
      /\ d.oldX = b.oldX /\ d.oldY = b.oldY
      /\ d.x = b.x /\ d.y = b.y /\ d.fg = b.fg /\ d.saved = b.saved
      /\ d.top = b.top /\ d.bottom = b.bottom /\ d.scroll = b.scroll /\ d.enabled = b.enabled
  BY <1>1 DEF Backend, Bg
<1> HIDE DEF d
<1>3. d \in Good /\ Abs(d) = r
  BY <1>2, SetFacts
<1>4. a = [cells |-> c, x |-> b.x, y |-> b.y,
           fg |-> b.fg, bg |-> b.bg, saved |-> b.saved, top |-> b.top,
           bottom |-> b.bottom, scroll |-> b.scroll, enabled |-> b.enabled]
  BY DEF Abs
<1> HIDE DEF a, c
<1>5. Bg(a, v) = r
  BY <1>4 DEF Bg
<1> QED BY <1>2, <1>3, <1>5 DEF a, d, Keeps

Saved(b, v) == [b EXCEPT !.saved = v]

LEMMA SavedFacts ==
  ASSUME NEW b \in Good, NEW v \in [x : Nat, y : Nat, fg : Tints, bg : Tints]
  PROVE  Keeps(b, Saved(b, v)) /\ Abs(Saved(b, v)) = Saved(Abs(b), v)
<1> DEFINE d == Saved(b, v)
           c == [i \in Cells |-> CharAt(b, i)]
           a == Abs(b)
           r == [cells |-> c, x |-> b.x, y |-> b.y,
                 fg |-> b.fg, bg |-> b.bg, saved |-> v, top |-> b.top,
                 bottom |-> b.bottom, scroll |-> b.scroll, enabled |-> b.enabled]
<1>1. b \in Backend /\ b.top < b.bottom
  BY DEF Good
<1>2. /\ d \in Backend /\ d.top < d.bottom /\ d.saved = v
      /\ d.grid = b.grid /\ d.queue = b.queue /\ d.map = b.map
      /\ d.oldX = b.oldX /\ d.oldY = b.oldY
      /\ d.x = b.x /\ d.y = b.y /\ d.fg = b.fg /\ d.bg = b.bg
      /\ d.top = b.top /\ d.bottom = b.bottom /\ d.scroll = b.scroll /\ d.enabled = b.enabled
  BY <1>1 DEF Backend, Saved
<1> HIDE DEF d
<1>3. d \in Good /\ Abs(d) = r
  BY <1>2, SetFacts
<1>4. a = [cells |-> c, x |-> b.x, y |-> b.y,
           fg |-> b.fg, bg |-> b.bg, saved |-> b.saved, top |-> b.top,
           bottom |-> b.bottom, scroll |-> b.scroll, enabled |-> b.enabled]
  BY DEF Abs
<1> HIDE DEF a, c
<1>5. Saved(a, v) = r
  BY <1>4 DEF Saved
<1> QED BY <1>2, <1>3, <1>5 DEF a, d, Keeps

Scrolls(b, v) == [b EXCEPT !.scroll = v]

LEMMA ScrollsFacts ==
  ASSUME NEW b \in Good, NEW v \in BOOLEAN
  PROVE  Keeps(b, Scrolls(b, v)) /\ Abs(Scrolls(b, v)) = Scrolls(Abs(b), v)
<1> DEFINE d == Scrolls(b, v)
           c == [i \in Cells |-> CharAt(b, i)]
           a == Abs(b)
           r == [cells |-> c, x |-> b.x, y |-> b.y,
                 fg |-> b.fg, bg |-> b.bg, saved |-> b.saved, top |-> b.top,
                 bottom |-> b.bottom, scroll |-> v, enabled |-> b.enabled]
<1>1. b \in Backend /\ b.top < b.bottom
  BY DEF Good
<1>2. /\ d \in Backend /\ d.top < d.bottom /\ d.scroll = v
      /\ d.grid = b.grid /\ d.queue = b.queue /\ d.map = b.map
      /\ d.oldX = b.oldX /\ d.oldY = b.oldY
      /\ d.x = b.x /\ d.y = b.y /\ d.fg = b.fg /\ d.bg = b.bg /\ d.saved = b.saved
      /\ d.top = b.top /\ d.bottom = b.bottom /\ d.enabled = b.enabled
  BY <1>1 DEF Backend, Scrolls
<1> HIDE DEF d
<1>3. d \in Good /\ Abs(d) = r
  BY <1>2, SetFacts
<1>4. a = [cells |-> c, x |-> b.x, y |-> b.y,
           fg |-> b.fg, bg |-> b.bg, saved |-> b.saved, top |-> b.top,
           bottom |-> b.bottom, scroll |-> b.scroll, enabled |-> b.enabled]
  BY DEF Abs
<1> HIDE DEF a, c
<1>5. Scrolls(a, v) = r
  BY <1>4 DEF Scrolls
<1> QED BY <1>2, <1>3, <1>5 DEF a, d, Keeps

Enables(b, v) == [b EXCEPT !.enabled = v]

LEMMA EnablesFacts ==
  ASSUME NEW b \in Good, NEW v \in BOOLEAN
  PROVE  Keeps(b, Enables(b, v)) /\ Abs(Enables(b, v)) = Enables(Abs(b), v)
<1> DEFINE d == Enables(b, v)
           c == [i \in Cells |-> CharAt(b, i)]
           a == Abs(b)
           r == [cells |-> c, x |-> b.x, y |-> b.y,
                 fg |-> b.fg, bg |-> b.bg, saved |-> b.saved, top |-> b.top,
                 bottom |-> b.bottom, scroll |-> b.scroll, enabled |-> v]
<1>1. b \in Backend /\ b.top < b.bottom
  BY DEF Good
<1>2. /\ d \in Backend /\ d.top < d.bottom /\ d.enabled = v
      /\ d.grid = b.grid /\ d.queue = b.queue /\ d.map = b.map
      /\ d.oldX = b.oldX /\ d.oldY = b.oldY
      /\ d.x = b.x /\ d.y = b.y /\ d.fg = b.fg /\ d.bg = b.bg /\ d.saved = b.saved
      /\ d.top = b.top /\ d.bottom = b.bottom /\ d.scroll = b.scroll
  BY <1>1 DEF Backend, Enables
<1> HIDE DEF d
<1>3. d \in Good /\ Abs(d) = r
  BY <1>2, SetFacts
<1>4. a = [cells |-> c, x |-> b.x, y |-> b.y,
           fg |-> b.fg, bg |-> b.bg, saved |-> b.saved, top |-> b.top,
           bottom |-> b.bottom, scroll |-> b.scroll, enabled |-> b.enabled]
  BY DEF Abs
<1> HIDE DEF a, c
<1>5. Enables(a, v) = r
  BY <1>4 DEF Enables
<1> QED BY <1>2, <1>3, <1>5 DEF a, d, Keeps

Region(b, t, u) == [b EXCEPT !.top = t, !.bottom = u]

LEMMA RegionFacts ==
  ASSUME NEW b \in Good, NEW t \in 0 .. (Rows - 1), NEW u \in 1 .. Rows, t < u
  PROVE  Keeps(b, Region(b, t, u)) /\ Abs(Region(b, t, u)) = Region(Abs(b), t, u)
<1> DEFINE d1 == [b EXCEPT !.top = t]
           d == [d1 EXCEPT !.bottom = u]
           c == [i \in Cells |-> CharAt(b, i)]
           a == Abs(b)
           a1 == [a EXCEPT !.top = t]
           r == [cells |-> c, x |-> b.x, y |-> b.y,
                 fg |-> b.fg, bg |-> b.bg, saved |-> b.saved, top |-> t,
                 bottom |-> u, scroll |-> b.scroll, enabled |-> b.enabled]
<1>1. b \in Backend
  BY DEF Good
<1>2. /\ d1 \in Backend /\ d1.top = t
      /\ d1.grid = b.grid /\ d1.queue = b.queue /\ d1.map = b.map
      /\ d1.oldX = b.oldX /\ d1.oldY = b.oldY
      /\ d1.x = b.x /\ d1.y = b.y /\ d1.fg = b.fg /\ d1.bg = b.bg /\ d1.saved = b.saved
      /\ d1.scroll = b.scroll /\ d1.enabled = b.enabled
  BY <1>1 DEF Backend
<1>3. Region(b, t, u) = d /\ Region(a, t, u) = [a1 EXCEPT !.bottom = u]
  BY DEF Region
<1> HIDE DEF d1
<1>4. /\ d \in Backend /\ d.top = t /\ d.bottom = u
      /\ d.grid = b.grid /\ d.queue = b.queue /\ d.map = b.map
      /\ d.oldX = b.oldX /\ d.oldY = b.oldY
      /\ d.x = b.x /\ d.y = b.y /\ d.fg = b.fg /\ d.bg = b.bg /\ d.saved = b.saved
      /\ d.scroll = b.scroll /\ d.enabled = b.enabled
  BY <1>2 DEF Backend
<1> HIDE DEF d
<1>5. d \in Good /\ Abs(d) = r
  BY <1>4, SetFacts
<1>6. a = [cells |-> c, x |-> b.x, y |-> b.y,
           fg |-> b.fg, bg |-> b.bg, saved |-> b.saved, top |-> b.top,
           bottom |-> b.bottom, scroll |-> b.scroll, enabled |-> b.enabled]
  BY DEF Abs
<1> HIDE DEF a, c
<1>7. a1 = [cells |-> c, x |-> b.x, y |-> b.y,
            fg |-> b.fg, bg |-> b.bg, saved |-> b.saved, top |-> t,
            bottom |-> b.bottom, scroll |-> b.scroll, enabled |-> b.enabled]
  BY <1>6
<1> HIDE DEF a1
<1>8. [a1 EXCEPT !.bottom = u] = r
  BY <1>7
<1> QED BY <1>3, <1>4, <1>5, <1>8 DEF a, Keeps

-----------------------------------------------------------------------------
(* The theorems. *)

\* What holds between the queue, the map, the cells as drawn and the screen.
Inv == fb \in Good /\ screen \in [Cells -> Char] /\ GridShown(fb, screen)

\* The queue never has more entries than there are cells.
LEMMA QueueFits ==
  ASSUME NEW b \in Good
  PROVE  Len(b.queue) <= Rows * Cols
<1> DEFINE n == Len(b.queue)
           f == [j \in 1 .. n |-> b.queue[j].cell]
<1>1. /\ b.queue \in Seq(Item) /\ n \in Nat /\ DOMAIN b.queue = 1 .. n /\ Indexed(b)
      /\ \A j \in 1 .. n : b.queue[j] \in Item
  BY LenProperties, ElementOfSeq DEF Good, Backend
<1>2. f \in [1 .. n -> Cells]
  BY <1>1 DEF Item
<1>3. \A j, k \in 1 .. n : j # k => f[j] # f[k]
  BY <1>1 DEF Indexed
<1>4. Rows * Cols \in Nat /\ Rows * Cols - 1 \in Int
  BY ScreenAssumption
<1>5. IsFiniteSet(Cells) /\ Cardinality(Cells) = Rows * Cols
  <2> DEFINE m == Rows * Cols - 1
  <2>1. m \in Int /\ 0 \in Int /\ m >= -1 /\ Rows * Cols = m + 1
    BY <1>4
  <2>2. Cells = 0 .. m
    BY DEF Cells
  <2> HIDE DEF m
  <2>3. IsFiniteSet(0 .. m) /\ Cardinality(0 .. m) = IF 0 > m THEN 0 ELSE m - 0 + 1
    BY <2>1, FS_Interval
  <2> QED BY <2>1, <2>2, <2>3
<1>6. IsFiniteSet(1 .. n) /\ Cardinality(1 .. n) = n
  <2>1. n \in Int /\ 1 \in Int
    BY <1>1
  <2> HIDE DEF n
  <2>2. IsFiniteSet(1 .. n) /\ Cardinality(1 .. n) = IF 1 > n THEN 0 ELSE n - 1 + 1
    BY <2>1, FS_Interval
  <2> QED BY <1>1, <2>2
<1>7. ~ (n > Rows * Cols)
  <2> HIDE DEF f, n
  <2> SUFFICES ASSUME n > Rows * Cols PROVE FALSE
    OBVIOUS
  <2>1. Cardinality(1 .. n) > Cardinality(Cells)
    BY <1>5, <1>6
  <2> QED BY <1>2, <1>3, <1>5, <1>6, <2>1, FS_PigeonHole
<1> QED BY <1>1, <1>4, <1>7

LEMMA InvImplies ==
  Inv => QueueAndMapAgree /\ GridIsOnScreen
<1> SUFFICES ASSUME Inv PROVE QueueAndMapAgree /\ GridIsOnScreen
  OBVIOUS
<1>1. fb \in Good /\ Indexed(fb) /\ GridShown(fb, screen)
  BY DEF Inv, Good
<1>2. Len(fb.queue) <= Rows * Cols
  BY <1>1, QueueFits
<1> QED BY <1>1, <1>2 DEF Indexed, GridShown, QueueAndMapAgree, GridIsOnScreen

\* At first the cells are drawn, nothing is queued and the cursor is drawn in
\* the first cell: also what the abstract screen begins with.
LEMMA InitFacts ==
  Init => Inv /\ Text!Init
<1> SUFFICES ASSUME Init PROVE Inv /\ Text!Init
  OBVIOUS
<1> DEFINE v == [fb |-> fb, screen |-> fb.grid]
<1>1. Rows \in Nat /\ Cols \in Nat /\ Rows > 0 /\ Cols > 0
  BY ScreenAssumption
<1>2. /\ fb.grid \in StartCells /\ fb.queue = <<>> /\ fb.map = [i \in Cells |-> 0]
      /\ fb.x = 0 /\ fb.y = 0 /\ fb.oldX = 0 /\ fb.oldY = 0
      /\ fb.fg \in Colours /\ fb.bg = Default
      /\ fb.saved = [x |-> 0, y |-> 0, fg |-> 0, bg |-> 0]
      /\ fb.top = 0 /\ fb.bottom = Rows /\ fb.scroll = TRUE /\ fb.enabled = TRUE
  BY DEF Init
<1>3. fb.grid \in [Cells -> Char]
  <2> DEFINE g == fb.grid
  <2>1. g \in [Cells -> [c : {g[i].c : i \in Cells}, fg : Colours \cup {Default},
                         bg : Colours \cup {Default}]]
    BY <1>2, CallbacksAssumption
  <2>2. g \in StartCells
    BY <1>2
  <2> HIDE DEF g
  <2>3. {g[i].c : i \in Cells} \subseteq Names
    BY <2>2 DEF Names
  <2>4. ASSUME NEW i \in Cells PROVE g[i] \in Char
    <3>1. g[i] \in [c : Names, fg : Tints, bg : Tints]
      BY <2>1, <2>3 DEF Tints
    <3> QED BY <3>1 DEF Char
  <2>5. g \in [Cells -> Char]
    BY <2>1, <2>4
  <2> QED BY <2>5 DEF g
<1>4. fb \in Backend
  <2>1. fb.saved \in [x : Nat, y : Nat, fg : Tints, bg : Tints]
    BY <1>2 DEF Tints
  <2>2. fb.fg \in Tints /\ fb.bg \in Tints
    BY <1>2 DEF Tints
  <2>3. fb.queue \in Seq(Item) /\ fb.map \in [Cells -> Nat]
    BY <1>2
  <2>4. fb.top \in 0 .. (Rows - 1) /\ fb.bottom \in 1 .. Rows
    BY <1>1, <1>2
  <2>5. fb.scroll \in BOOLEAN /\ fb.enabled \in BOOLEAN
    BY <1>2
  <2>6. fb.x \in Nat /\ fb.y \in Nat /\ fb.oldX \in Nat /\ fb.oldY \in Nat
    BY <1>2
  <2>7. fb = [grid |-> fb.grid, queue |-> fb.queue, map |-> fb.map,
              x |-> fb.x, y |-> fb.y, oldX |-> fb.oldX, oldY |-> fb.oldY,
              fg |-> fb.fg, bg |-> fb.bg, saved |-> fb.saved, top |-> fb.top,
              bottom |-> fb.bottom, scroll |-> fb.scroll, enabled |-> fb.enabled]
    BY DEF Init
  <2> QED BY <1>3, <2>1, <2>2, <2>3, <2>4, <2>5, <2>6, <2>7 DEF Backend
<1>5. fb \in Good
  <2>1. Indexed(fb)
    BY <1>2 DEF Indexed
  <2> QED BY <1>1, <1>2, <1>4, <2>1 DEF Good
<1>6. \A i \in Cells : CharAt(fb, i) = fb.grid[i]
  BY <1>2 DEF CharAt
<1>7. Cell(0, 0) = 0 /\ OnScreen(0, 0) /\ Cell(0, 0) \in Cells
  BY <1>1, OnScreenIsCell DEF Cell, OnScreen
<1>8. screen = [fb.grid EXCEPT ![Cell(0, 0)] = Inverted(fb.grid[Cell(0, 0)])]
  <2> DEFINE c == Cell(v.fb.x, v.fb.y)
             w == PlotChar(v, Inverted(CharAt(v.fb, c)), c)
             s1 == [fb.grid EXCEPT ![Cell(0, 0)] = Inverted(fb.grid[Cell(0, 0)])]
  <2>1. screen = DrawCursor(v).screen
    BY DEF Init
  <2>2. DrawCursor(v) = KeptIn(w, c, CharAt(v.fb, c))
    BY <1>2, <1>7 DEF DrawCursor, KeptIn
  <2>3. c = Cell(0, 0) /\ CharAt(v.fb, c) = fb.grid[Cell(0, 0)]
    BY <1>2, <1>6, <1>7
  <2>4. w = [fb |-> fb, screen |-> s1]
    BY <2>3 DEF PlotChar
  <2> HIDE DEF w, v, c, s1
  <2>5. KeptIn(w, c, CharAt(v.fb, c)) = [fb |-> Kept(fb, c, CharAt(v.fb, c)), screen |-> s1]
    BY <2>4, KeptInIs
  <2> QED BY <2>1, <2>2, <2>5 DEF s1
<1>9. /\ screen \in [Cells -> Char]
      /\ \A i \in Cells : screen[i] = IF i = Cell(0, 0) THEN Inverted(fb.grid[i]) ELSE fb.grid[i]
  BY <1>3, <1>7, <1>8, InvertedType
<1>10. GridShown(fb, screen)
  BY <1>2, <1>7, <1>9 DEF GridShown
<1>11. Abstract = [cells |-> fb.grid, x |-> 0, y |-> 0, fg |-> fb.fg, bg |-> Default,
                   saved |-> [x |-> 0, y |-> 0, fg |-> 0, bg |-> 0], top |-> 0,
                   bottom |-> Rows, scroll |-> TRUE, enabled |-> TRUE]
  <2>1. [i \in Cells |-> CharAt(fb, i)] = fb.grid
    BY <1>3, <1>6
  <2> QED BY <1>2, <2>1 DEF Abstract
<1>12. screen = Text!Picture(Abstract)
  <2> DEFINE t == Abstract
  <2>1. t.enabled = TRUE /\ t.x = 0 /\ t.y = 0 /\ t.cells = fb.grid
    BY <1>11
  <2> HIDE DEF t
  <2>2. \A ch : Text!Inverted(ch) = Inverted(ch)
    BY DEF Text!Inverted, Inverted
  <2>3. Text!Picture(t) = [i \in Cells |-> IF t.enabled /\ OnScreen(t.x, t.y) /\ i = Cell(t.x, t.y)
                                           THEN Inverted(t.cells[i]) ELSE t.cells[i]]
    BY <2>2, SameCells DEF Text!Picture
  <2>4. screen = [i \in Cells |-> IF i = Cell(0, 0) THEN Inverted(fb.grid[i]) ELSE fb.grid[i]]
    BY <1>9
  <2> QED BY <1>7, <2>1, <2>3, <2>4 DEF t
<1> QED BY <1>2, <1>5, <1>9, <1>10, <1>11, <1>12 DEF Inv, Text!Init

LEMMA AbstractIs ==
  Abstract = Abs(fb)
BY DEF Abstract, Abs

LEMMA CallbackFacts ==
  ASSUME Inv, NEW b, Keeps(fb, b), Callback(b)
  PROVE  Inv' /\ Text!Callback(Abs(b))
<1>1. fb' = b /\ screen' = screen
  BY DEF Callback
<1>2. Inv'
  BY <1>1 DEF Inv, Keeps, GridShown
<1>3. Abstract' = Abs(b)
  BY <1>1 DEF Abstract, Abs
<1> QED BY <1>1, <1>2, <1>3 DEF Text!Callback

LEMMA FlushStep ==
  ASSUME Inv, Flush
  PROVE  Inv' /\ Text!Flush
<1> DEFINE v == Flushed([fb |-> fb, screen |-> screen])
<1>1. /\ v.fb \in Good /\ v.screen \in [Cells -> Char] /\ GridShown(v.fb, v.screen)
      /\ Abs(v.fb) = Abs(fb) /\ v.screen = Text!Picture(Abs(fb))
  BY FlushFacts DEF Inv
<1>2. fb' = v.fb /\ screen' = v.screen
  BY DEF Flush
<1> HIDE DEF v
<1>3. Inv'
  BY <1>1, <1>2 DEF Inv, GridShown
<1>4. Abstract' = Abs(v.fb)
  BY <1>2 DEF Abstract, Abs
<1> QED BY <1>1, <1>2, <1>3, <1>4, AbstractIs DEF Text!Flush

LEMMA AtFacts ==
  ASSUME NEW b \in Good, NEW x \in Nat, NEW y \in Nat
  PROVE  Keeps(b, At(b, x, y)) /\ Abs(At(b, x, y)) = At(Abs(b), x, y)
<1>1. At(b, x, y) \in Good /\ Abs(At(b, x, y)) = At(Abs(b), x, y)
  BY CursorMoves
<1>2. b \in Backend
  BY DEF Good
<1>3. /\ At(b, x, y).grid = b.grid /\ At(b, x, y).oldX = b.oldX /\ At(b, x, y).oldY = b.oldY
  BY <1>2 DEF At, Backend
<1> QED BY <1>1, <1>3 DEF Keeps

LEMMA FieldFacts ==
  ASSUME NEW b \in Good
  PROVE  /\ b.x \in Nat /\ b.y \in Nat /\ b.fg \in Tints /\ b.bg \in Tints
         /\ b.saved \in [x : Nat, y : Nat, fg : Tints, bg : Tints]
         /\ b.top \in 0 .. (Rows - 1)
         /\ Abs(b).x = b.x /\ Abs(b).y = b.y /\ Abs(b).fg = b.fg /\ Abs(b).bg = b.bg
         /\ Abs(b).saved = b.saved /\ Abs(b).top = b.top
<1>1. b \in Backend
  BY DEF Good
<1>2. /\ b.x \in Nat /\ b.y \in Nat /\ b.fg \in Tints /\ b.bg \in Tints
      /\ b.saved \in [x : Nat, y : Nat, fg : Tints, bg : Tints]
      /\ b.top \in 0 .. (Rows - 1)
  BY <1>1 DEF Backend
<1> QED BY <1>2 DEF Abs

LEMMA SwapPaletteFacts ==
  ASSUME NEW b \in Good
  PROVE  Keeps(b, SwapPalette(b)) /\ Abs(SwapPalette(b)) = Text!SwapPalette(Abs(b))
<1> DEFINE d == Fg(b, b.bg)
           e == Bg(d, b.fg)
           a == Abs(b)
<1>1. SwapPalette(b) = e
  BY DEF SwapPalette, Fg, Bg
<1>2. a.fg = b.fg /\ a.bg = b.bg /\ b.fg \in Tints /\ b.bg \in Tints
  BY FieldFacts
<1> HIDE DEF a
<1>3. Text!SwapPalette(a) = Bg(Fg(a, b.bg), b.fg)
  BY <1>2 DEF Text!SwapPalette, Fg, Bg
<1>4. Keeps(b, d) /\ Abs(d) = Fg(a, b.bg)
  BY <1>2, FgFacts DEF a
<1> HIDE DEF d
<1>5. Keeps(d, e) /\ Abs(e) = Bg(Abs(d), b.fg)
  BY <1>2, <1>4, BgFacts DEF Keeps
<1> QED BY <1>1, <1>3, <1>4, <1>5 DEF Keeps, a

LEMMA RestoreStateFacts ==
  ASSUME NEW b \in Good
  PROVE  Keeps(b, RestoreState(b)) /\ Abs(RestoreState(b)) = Text!RestoreState(Abs(b))
<1> DEFINE sv == b.saved
           d == At(b, sv.x, sv.y)
           e == Fg(d, sv.fg)
           f == Bg(e, sv.bg)
           a == Abs(b)
<1>1. RestoreState(b) = f
  BY DEF RestoreState, At, Fg, Bg
<1>2. a.saved = sv /\ sv.x \in Nat /\ sv.y \in Nat /\ sv.fg \in Tints /\ sv.bg \in Tints
  BY FieldFacts
<1> HIDE DEF a, sv
<1>3. Text!RestoreState(a) = Bg(Fg(At(a, sv.x, sv.y), sv.fg), sv.bg)
  BY <1>2 DEF Text!RestoreState, At, Fg, Bg
<1>4. Keeps(b, d) /\ Abs(d) = At(a, sv.x, sv.y)
  BY <1>2, AtFacts DEF a
<1> HIDE DEF d
<1>5. Keeps(d, e) /\ Abs(e) = Fg(Abs(d), sv.fg)
  BY <1>2, <1>4, FgFacts DEF Keeps
<1> HIDE DEF e
<1>6. Keeps(e, f) /\ Abs(f) = Bg(Abs(e), sv.bg)
  BY <1>2, <1>5, BgFacts DEF Keeps
<1> HIDE DEF f
<1> QED BY <1>1, <1>3, <1>4, <1>5, <1>6 DEF Keeps, a

LEMMA ReinitFacts ==
  ASSUME NEW b \in Good
  PROVE  Keeps(b, Reinit(b)) /\ Abs(Reinit(b)) = Text!Reinit(Abs(b))
<1> DEFINE d == Enables(b, TRUE)
           e == Scrolls(d, TRUE)
           f == Region(e, 0, Rows)
           a == Abs(b)
<1>1. Reinit(b) = f /\ Text!Reinit(a) = Region(Scrolls(Enables(a, TRUE), TRUE), 0, Rows)
  BY DEF Reinit, Text!Reinit, Enables, Scrolls, Region
<1>2. Keeps(b, d) /\ Abs(d) = Enables(a, TRUE)
  BY EnablesFacts
<1> HIDE DEF a, d
<1>3. Keeps(d, e) /\ Abs(e) = Scrolls(Abs(d), TRUE)
  BY <1>2, ScrollsFacts DEF Keeps
<1> HIDE DEF e
<1>4. Keeps(e, f) /\ Abs(f) = Region(Abs(e), 0, Rows)
  <2>1. 0 \in 0 .. (Rows - 1) /\ Rows \in 1 .. Rows /\ 0 < Rows
    BY ScreenAssumption
  <2> QED BY <1>3, <2>1, RegionFacts DEF Keeps
<1> HIDE DEF f
<1> QED BY <1>1, <1>2, <1>3, <1>4 DEF Keeps, a

\* Every step keeps the invariant, and is a step of the abstract screen.
LEMMA StepFacts ==
  ASSUME Inv, Next
  PROVE  Inv' /\ Text!Next
<1> DEFINE a == Abs(fb)
<1>0. fb \in Good /\ Abstract = a
  BY AbstractIs DEF Inv
<1> HIDE DEF a
<1>1. ASSUME NEW c \in Chars, Callback(RawPutchar(fb, c)) PROVE Inv' /\ Text!Next
  <2>1. /\ Keeps(fb, RawPutchar(fb, c))
        /\ Abs(RawPutchar(fb, c)) = Text!RawPutchar(a, c)
    BY <1>0, RawPutcharFacts DEF Keeps, a
  <2>2. Inv' /\ Text!Callback(Text!RawPutchar(Abstract, c))
    BY <1>0, <1>1, <2>1, CallbackFacts
  <2> QED BY <2>2 DEF Text!Next
<1>2. ASSUME Callback(Scroll(fb)) PROVE Inv' /\ Text!Next
  <2>1. Keeps(fb, Scroll(fb)) /\ Abs(Scroll(fb)) = Text!Scroll(a)
    BY <1>0, ScrollFacts DEF Keeps, a, Alike
  <2>2. Inv' /\ Text!Callback(Text!Scroll(Abstract))
    BY <1>0, <1>2, <2>1, CallbackFacts
  <2> QED BY <2>2 DEF Text!Next
<1>3. ASSUME NEW top \in {fb.top} \cup 0 .. (Rows - 1), Callback(RevScroll(fb, top))
      PROVE  Inv' /\ Text!Next
  <2>1. a.top = fb.top /\ fb.top \in 0 .. (Rows - 1)
    BY <1>0, FieldFacts DEF a
  <2>2. top \in 0 .. (Rows - 1) /\ top \in {Abstract.top} \cup 0 .. (Rows - 1)
    BY <1>0, <2>1
  <2>3. Keeps(fb, RevScroll(fb, top)) /\ Abs(RevScroll(fb, top)) = Text!RevScroll(a, top)
    BY <1>0, <2>2, RevScrollFacts DEF Keeps, a, Alike
  <2>4. Inv' /\ Text!Callback(Text!RevScroll(Abstract, top))
    BY <1>0, <1>3, <2>3, CallbackFacts
  <2> QED BY <2>2, <2>4 DEF Text!Next
<1>4. ASSUME NEW move \in BOOLEAN, Callback(Clear(fb, move)) PROVE Inv' /\ Text!Next
  <2>1. Keeps(fb, Clear(fb, move)) /\ Abs(Clear(fb, move)) = Text!Clear(a, move)
    BY <1>0, ClearFacts DEF Keeps, a
  <2>2. Inv' /\ Text!Callback(Text!Clear(Abstract, move))
    BY <1>0, <1>4, <2>1, CallbackFacts
  <2> QED BY <2>2 DEF Text!Next
<1>5. ASSUME NEW x \in (-1) .. Cols, NEW y \in (-1) .. Rows, Callback(SetCursorPos(fb, x, y))
      PROVE  Inv' /\ Text!Next
  <2> DEFINE p == IF x < 0 THEN 0 ELSE IF x >= Cols THEN Cols - 1 ELSE x
             q == IF y < 0 THEN 0 ELSE IF y >= Rows THEN Rows - 1 ELSE y
  <2>1. p \in Nat /\ q \in Nat
    BY ScreenAssumption
  <2>2. SetCursorPos(fb, x, y) = At(fb, p, q) /\ Text!SetCursorPos(a, x, y) = At(a, p, q)
    BY DEF SetCursorPos, Text!SetCursorPos, At
  <2> HIDE DEF p, q
  <2>3. Keeps(fb, SetCursorPos(fb, x, y))
        /\ Abs(SetCursorPos(fb, x, y)) = Text!SetCursorPos(a, x, y)
    BY <1>0, <2>1, <2>2, AtFacts DEF a
  <2>4. Inv' /\ Text!Callback(Text!SetCursorPos(Abstract, x, y))
    BY <1>0, <1>5, <2>3, CallbackFacts
  <2> QED BY <2>4 DEF Text!Next
<1>6. ASSUME NEW x \in 0 .. Cols, NEW z \in 0 .. Cols, NEW y \in 0 .. (Rows - 1),
             Callback(MoveCharacter(fb, x, y, z, y))
      PROVE  Inv' /\ Text!Next
  <2>1. x \in Int /\ y \in Int /\ z \in Int
    OBVIOUS
  <2>2. /\ Keeps(fb, MoveCharacter(fb, x, y, z, y))
        /\ Abs(MoveCharacter(fb, x, y, z, y)) = Text!MoveCharacter(a, x, y, z, y)
    BY <1>0, <2>1, MoveCharacterFacts DEF Keeps, a, Alike
  <2>3. Inv' /\ Text!Callback(Text!MoveCharacter(Abstract, x, y, z, y))
    BY <1>0, <1>6, <2>2, CallbackFacts
  <2> QED BY <2>3 DEF Text!Next
<1>7. ASSUME NEW fg \in Colours, Callback([fb EXCEPT !.fg = fg]) PROVE Inv' /\ Text!Next
  <2>1. fg \in Tints
    BY DEF Tints
  <2>2. Keeps(fb, Fg(fb, fg)) /\ Abs(Fg(fb, fg)) = Fg(a, fg)
    BY <1>0, <2>1, FgFacts DEF a
  <2>3. Callback(Fg(fb, fg))
    BY <1>7 DEF Fg
  <2>4. Inv' /\ Text!Callback(Fg(Abstract, fg))
    BY <1>0, <2>2, <2>3, CallbackFacts
  <2> QED BY <2>4 DEF Text!Next, Fg
<1>8. ASSUME NEW bg \in Colours \cup {Default}, Callback([fb EXCEPT !.bg = bg])
      PROVE  Inv' /\ Text!Next
  <2>1. bg \in Tints
    BY DEF Tints
  <2>2. Keeps(fb, Bg(fb, bg)) /\ Abs(Bg(fb, bg)) = Bg(a, bg)
    BY <1>0, <2>1, BgFacts DEF a
  <2>3. Callback(Bg(fb, bg))
    BY <1>8 DEF Bg
  <2>4. Inv' /\ Text!Callback(Bg(Abstract, bg))
    BY <1>0, <2>2, <2>3, CallbackFacts
  <2> QED BY <2>4 DEF Text!Next, Bg
<1>9. ASSUME Callback(SwapPalette(fb)) PROVE Inv' /\ Text!Next
  <2>1. Inv' /\ Text!Callback(Text!SwapPalette(Abstract))
    BY <1>0, <1>9, SwapPaletteFacts, CallbackFacts DEF a
  <2> QED BY <2>1 DEF Text!Next
<1>10. ASSUME Callback(SaveState(fb)) PROVE Inv' /\ Text!Next
  <2> DEFINE v == [x |-> fb.x, y |-> fb.y, fg |-> fb.fg, bg |-> fb.bg]
  <2>1. v \in [x : Nat, y : Nat, fg : Tints, bg : Tints]
    BY <1>0, FieldFacts
  <2>2. a.x = fb.x /\ a.y = fb.y /\ a.fg = fb.fg /\ a.bg = fb.bg
    BY <1>0, FieldFacts DEF a
  <2>3. SaveState(fb) = Saved(fb, v) /\ Text!SaveState(a) = Saved(a, v)
    BY <2>2 DEF SaveState, Text!SaveState, Saved
  <2> HIDE DEF v
  <2>4. Keeps(fb, Saved(fb, v)) /\ Abs(Saved(fb, v)) = Saved(a, v)
    BY <1>0, <2>1, SavedFacts DEF a
  <2>5. Inv' /\ Text!Callback(Text!SaveState(Abstract))
    BY <1>0, <1>10, <2>3, <2>4, CallbackFacts
  <2> QED BY <2>5 DEF Text!Next
<1>11. ASSUME Callback(RestoreState(fb)) PROVE Inv' /\ Text!Next
  <2>1. Inv' /\ Text!Callback(Text!RestoreState(Abstract))
    BY <1>0, <1>11, RestoreStateFacts, CallbackFacts DEF a
  <2> QED BY <2>1 DEF Text!Next
<1>12. ASSUME NEW m \in Margins, Callback([fb EXCEPT !.top = m[1], !.bottom = m[2]])
       PROVE  Inv' /\ Text!Next
  <2>1. PICK t \in 0 .. (Rows - 1), u \in 1 .. Rows : t < u /\ m = <<t, u>>
    BY CallbacksAssumption
  <2>2. m[1] = t /\ m[2] = u
    BY <2>1
  <2>3. Keeps(fb, Region(fb, t, u)) /\ Abs(Region(fb, t, u)) = Region(a, t, u)
    BY <1>0, <2>1, RegionFacts DEF a
  <2>4. Callback(Region(fb, t, u))
    BY <1>12, <2>2 DEF Region
  <2>5. Inv' /\ Text!Callback(Region(Abstract, t, u))
    BY <1>0, <2>3, <2>4, CallbackFacts
  <2>6. Text!Callback([Abstract EXCEPT !.top = m[1], !.bottom = m[2]])
    BY <2>2, <2>5 DEF Region
  <2> QED BY <2>5, <2>6 DEF Text!Next
<1>13. ASSUME NEW b \in BOOLEAN, Callback([fb EXCEPT !.scroll = b]) PROVE Inv' /\ Text!Next
  <2>1. Keeps(fb, Scrolls(fb, b)) /\ Abs(Scrolls(fb, b)) = Scrolls(a, b)
    BY <1>0, ScrollsFacts DEF a
  <2>2. Callback(Scrolls(fb, b))
    BY <1>13 DEF Scrolls
  <2>3. Inv' /\ Text!Callback(Scrolls(Abstract, b))
    BY <1>0, <2>1, <2>2, CallbackFacts
  <2> QED BY <2>3 DEF Text!Next, Scrolls
<1>14. ASSUME NEW b \in BOOLEAN, Callback([fb EXCEPT !.enabled = b]) PROVE Inv' /\ Text!Next
  <2>1. Keeps(fb, Enables(fb, b)) /\ Abs(Enables(fb, b)) = Enables(a, b)
    BY <1>0, EnablesFacts DEF a
  <2>2. Callback(Enables(fb, b))
    BY <1>14 DEF Enables
  <2>3. Inv' /\ Text!Callback(Enables(Abstract, b))
    BY <1>0, <2>1, <2>2, CallbackFacts
  <2> QED BY <2>3 DEF Text!Next, Enables
<1>15. ASSUME Callback(Reinit(fb)) PROVE Inv' /\ Text!Next
  <2>1. Inv' /\ Text!Callback(Text!Reinit(Abstract))
    BY <1>0, <1>15, ReinitFacts, CallbackFacts DEF a
  <2> QED BY <2>1 DEF Text!Next
<1>16. ASSUME Flush PROVE Inv' /\ Text!Next
  BY <1>16, FlushStep DEF Text!Next
<1> QED BY <1>1, <1>2, <1>3, <1>4, <1>5, <1>6, <1>7, <1>8, <1>9, <1>10, <1>11, <1>12, <1>13,
           <1>14, <1>15, <1>16 DEF Next

LEMMA Stutters ==
  ASSUME Inv, UNCHANGED vars
  PROVE  Inv' /\ UNCHANGED Text!vars
<1>1. fb' = fb /\ screen' = screen
  BY DEF vars
<1>2. Abstract' = Abstract
  BY <1>1 DEF Abstract, CharAt
<1> QED BY <1>1, <1>2 DEF Inv, GridShown, Text!vars

LEMMA Invariance ==
  Spec => []Inv
<1>1. Init => Inv
  BY InitFacts
<1>2. Inv /\ [Next]_vars => Inv'
  BY StepFacts, Stutters
<1> QED BY <1>1, <1>2, PTL DEF Spec

\* Whatever callbacks are made between two flushes, and on a screen of any
\* size: every entry of the queue is found by its cell, no cell has two, and so
\* push_to_queue never writes behind the queue, which has room for one entry
\* per cell.
THEOREM QueueNeverOverflows ==
  Spec => []QueueAndMapAgree
BY Invariance, InvImplies, PTL

\* What the flush takes to be on the screen, and draws over pixel by pixel, is
\* there, but for the cursor it drew itself.
THEOREM DrawnIsOnScreen ==
  Spec => []GridIsOnScreen
BY Invariance, InvImplies, PTL

\* The backend implements the screen flanterm.c expects: every callback has
\* its whole effect on the text at once, and after each flush the pixels are
\* the picture of the text, cursor and all.
THEOREM BackendImplementsTextScreen ==
  Spec => ImplementsTextScreen
<1>1. Init => Text!Init
  BY InitFacts
<1>2. Inv /\ [Next]_vars => [Text!Next]_(Text!vars)
  BY StepFacts, Stutters
<1> QED BY <1>1, <1>2, Invariance, PTL DEF Spec, ImplementsTextScreen, Text!Spec
=============================================================================
