-------------------------- MODULE Terminal_proofs --------------------------
(***************************************************************************)
(* Proofs about the terminal, for screens, fonts, line buffers and texts   *)
(* of any size.                                                            *)
(***************************************************************************)
EXTENDS Terminal, FoldFacts, FiniteSetTheorems, SequenceTheorems

-----------------------------------------------------------------------------
(* The line buffer. *)

Plain == Keys \ {"nl", "bs"}

BufferInv ==
  /\ buffer \in [0 .. (Size - 1) -> Plain \cup {Nul}]
  /\ bufferIdx \in 0 .. Size
  /\ line \in Seq(Plain)
  /\ BufferIsTheLine

LEMMA NulIsNoKey ==
  Nul \notin Keys
BY TextsAssumption DEF Nul

\* The C string in buffer is the line.
LEMMA CStringIsLine ==
  ASSUME BufferInv, \E j \in DOMAIN buffer : buffer[j] = Nul
  PROVE  CString = line
<1> DEFINE n == Len(line)
           Ends(m) == buffer[m] = Nul /\ \A i \in 0 .. (m - 1) : buffer[i] # Nul
           c == CHOOSE m \in 0 .. (Size - 1) : Ends(m)
<1>1. /\ line \in Seq(Plain) /\ n \in Nat /\ DOMAIN line = 1 .. n
      /\ \A j \in 1 .. n : line[j] \in Plain
  BY LenProperties, ElementOfSeq DEF BufferInv
<1>2. /\ DOMAIN buffer = 0 .. (Size - 1) /\ Size \in Nat
      /\ \A j \in 0 .. (Size - 1) : buffer[j] = IF j < n THEN line[j + 1] ELSE Nul
  BY TerminalAssumption DEF BufferInv, BufferIsTheLine
<1> HIDE DEF n
<1>3. \A j \in 0 .. (Size - 1) : buffer[j] = Nul <=> j >= n
  <2> TAKE j \in 0 .. (Size - 1)
  <2>1. ASSUME j < n PROVE buffer[j] # Nul
    <3>1. j + 1 \in 1 .. n
      BY <1>1, <2>1
    <3>2. line[j + 1] # Nul
      BY <1>1, <3>1, NulIsNoKey DEF Plain
    <3> QED BY <1>2, <2>1, <3>2
  <2> QED BY <1>1, <1>2, <2>1
<1>4. n \in 0 .. (Size - 1)
  BY <1>1, <1>2, <1>3
<1>5. Ends(n)
  <2>1. buffer[n] = Nul
    BY <1>1, <1>3, <1>4
  <2>2. ASSUME NEW i \in 0 .. (n - 1) PROVE buffer[i] # Nul
    <3>1. i \in 0 .. (Size - 1) /\ ~ (i >= n)
      BY <1>1, <1>2, <1>4
    <3> QED BY <1>3, <3>1
  <2> QED BY <2>1, <2>2
<1>6. \A m \in 0 .. (Size - 1) : Ends(m) => m = n
  <2> SUFFICES ASSUME NEW m \in 0 .. (Size - 1), Ends(m) PROVE m = n
    OBVIOUS
  <2>1. m >= n
    BY <1>3
  <2>2. ASSUME m > n PROVE FALSE
    <3>1. n \in 0 .. (m - 1)
      BY <1>1, <2>2
    <3> QED BY <1>5, <3>1
  <2> QED BY <1>1, <2>1, <2>2
<1>7. c = n
  <2> HIDE DEF Ends
  <2> QED BY <1>4, <1>5, <1>6
<1>8. CString = [j \in 1 .. c |-> buffer[j - 1]]
  BY DEF CString
<1> HIDE DEF c
<1>9. \A j \in 1 .. n : buffer[j - 1] = line[j]
  <2> TAKE j \in 1 .. n
  <2>1. j - 1 \in 0 .. (Size - 1) /\ j - 1 < n /\ (j - 1) + 1 = j
    BY <1>1, <1>2, <1>4
  <2> QED BY <1>2, <2>1
<1>10. line = [j \in 1 .. n |-> line[j]]
  BY <1>1
<1> QED BY <1>7, <1>8, <1>9, <1>10

\* strcmp of the command's name and the line.
LEMMA StrcmpTellsApart ==
  ASSUME NEW x \in Seq(Keys), NEW y \in Seq(Keys)
  PROVE  ~strcmp(x, y) <=> x = y
<1>1. DOMAIN x = 1 .. Len(x) /\ DOMAIN y = 1 .. Len(y)
  BY LenProperties
<1>2. ASSUME ~strcmp(x, y) PROVE x = y
  <2>1. Len(x) = Len(y) /\ \A j \in 1 .. Len(x) : x[j] = y[j]
    BY <1>1, <1>2 DEF strcmp
  <2> QED BY <2>1, SeqEqual
<1>3. ASSUME x = y PROVE ~strcmp(x, y)
  BY <1>3 DEF strcmp
<1> QED BY <1>2, <1>3

LEMMA BufferStep ==
  ASSUME BufferInv, [Next]_vars
  PROVE  BufferInv'
<1>0. /\ buffer \in [0 .. (Size - 1) -> Plain \cup {Nul}] /\ DOMAIN buffer = 0 .. (Size - 1)
      /\ bufferIdx \in 0 .. Size /\ bufferIdx = Len(line)
      /\ line \in Seq(Plain) /\ Len(line) \in Nat /\ Size \in Nat \ {0}
      /\ \A j \in 0 .. (Size - 1) : buffer[j] = IF j < Len(line) THEN line[j + 1] ELSE Nul
  BY TerminalAssumption, LenProperties DEF BufferInv, BufferIsTheLine
<1>1. CASE UNCHANGED <<buffer, bufferIdx, line>>
  BY <1>1 DEF BufferInv, BufferIsTheLine
<1>2. CASE TermInit
  BY <1>1, <1>2 DEF TermInit
<1>3. CASE Idle
  BY <1>1, <1>3 DEF Idle
<1>4. CASE Enter
  <2>1. buffer' = [j \in 0 .. (Size - 1) |-> Nul] /\ bufferIdx' = 0 /\ line' = <<>>
    BY <1>0, <1>4 DEF Enter
  <2>2. line' \in Seq(Plain) /\ Len(line') = 0
    BY <2>1, EmptySeq
  <2>3. buffer' \in [0 .. (Size - 1) -> Plain \cup {Nul}] /\ DOMAIN buffer' = 0 .. (Size - 1)
    BY <2>1
  <2>4. \A j \in 0 .. (Size - 1) : buffer'[j] = Nul /\ ~ (j < 0)
    BY <1>0, <2>1
  <2>5. bufferIdx' \in 0 .. Size
    BY <1>0, <2>1
  <2> QED BY <2>1, <2>2, <2>3, <2>4, <2>5 DEF BufferInv, BufferIsTheLine
<1>5. CASE Backspace /\ bufferIdx > 0
  <2> DEFINE n == Len(line) - 1
             l == SubSeq(line, 1, n)
  <2>1. /\ bufferIdx' = bufferIdx - 1 /\ line' = l
        /\ buffer' = [buffer EXCEPT ![bufferIdx - 1] = Nul]
    BY <1>5 DEF Backspace
  <2>2. n \in Int /\ n >= 0 /\ n = bufferIdx - 1 /\ n \in 0 .. (Size - 1) /\ n + 1 = Len(line)
    BY <1>0, <1>5
  <2>3. \A i \in 1 .. n : line[i] \in Plain
    BY <1>0, <2>2, ElementOfSeq
  <2>4. /\ l \in Seq(Plain) /\ Len(l) = n /\ \A i \in 1 .. n : l[i] = line[i]
    <3>1. /\ l \in Seq(Plain) /\ Len(l) = (IF 1 <= n THEN n - 1 + 1 ELSE 0)
          /\ \A i \in 1 .. (n - 1 + 1) : l[i] = line[1 + i - 1]
      <4> HIDE DEF n
      <4> QED BY <2>2, <2>3, SubSeqProperties
    <3> HIDE DEF l, n
    <3>2. ASSUME NEW i \in 1 .. n PROVE l[i] = line[i]
      <4>1. i \in 1 .. (n - 1 + 1) /\ 1 + i - 1 = i
        BY <2>2
      <4> QED BY <3>1, <4>1
    <3>3. Len(l) = n
      BY <2>2, <3>1
    <3> QED BY <3>1, <3>2, <3>3
  <2> HIDE DEF l, n
  <2>5. /\ buffer' \in [0 .. (Size - 1) -> Plain \cup {Nul}] /\ DOMAIN buffer' = 0 .. (Size - 1)
        /\ \A j \in 0 .. (Size - 1) : buffer'[j] = IF j = n THEN Nul ELSE buffer[j]
    BY <1>0, <2>1, <2>2
  <2>6. \A j \in 0 .. (Size - 1) : buffer'[j] = IF j < n THEN l[j + 1] ELSE Nul
    <3> TAKE j \in 0 .. (Size - 1)
    <3>1. CASE j < n
      <4>1. j + 1 \in 1 .. n /\ j < Len(line) /\ j # n
        BY <2>2, <3>1
      <4> QED BY <1>0, <2>4, <2>5, <3>1, <4>1
    <3>2. CASE j >= n
      BY <1>0, <2>2, <2>5, <3>2
    <3> QED BY <2>2, <3>1, <3>2
  <2>7. bufferIdx' \in 0 .. Size
    BY <2>1, <2>2, <1>0
  <2> QED BY <2>1, <2>2, <2>4, <2>5, <2>6, <2>7 DEF BufferInv, BufferIsTheLine
<1>6. CASE Backspace /\ ~ (bufferIdx > 0)
  BY <1>1, <1>6 DEF Backspace
<1>7. ASSUME NEW c \in Keys, TypeChar(c) PROVE BufferInv'
  <2> DEFINE n == Len(line)
             l == Append(line, c)
  <2>1. /\ c \in Plain /\ bufferIdx < Size /\ bufferIdx' = bufferIdx + 1 /\ line' = l
        /\ buffer' = [buffer EXCEPT ![bufferIdx] = c]
    BY <1>7 DEF TypeChar, Plain
  <2>2. n \in 0 .. (Size - 1) /\ n = bufferIdx /\ n \in Nat
    BY <1>0, <2>1
  <2>3. /\ l \in Seq(Plain) /\ Len(l) = n + 1 /\ l[n + 1] = c
        /\ \A i \in 1 .. n : l[i] = line[i]
    BY <1>0, <2>1, AppendProperties
  <2> HIDE DEF l, n
  <2>5. /\ buffer' \in [0 .. (Size - 1) -> Plain \cup {Nul}] /\ DOMAIN buffer' = 0 .. (Size - 1)
        /\ \A j \in 0 .. (Size - 1) : buffer'[j] = IF j = n THEN c ELSE buffer[j]
    BY <1>0, <2>1, <2>2
  <2>6. \A j \in 0 .. (Size - 1) : buffer'[j] = IF j < n + 1 THEN l[j + 1] ELSE Nul
    <3> TAKE j \in 0 .. (Size - 1)
    <3>1. CASE j < n
      <4>1. j + 1 \in 1 .. n /\ j < n + 1 /\ j # n
        BY <2>2, <3>1
      <4> QED BY <1>0, <2>3, <2>5, <3>1, <4>1 DEF n
    <3>2. CASE j = n
      BY <2>2, <2>3, <2>5, <3>2
    <3>3. CASE j > n
      <4>1. ~ (j < n + 1) /\ j # n /\ ~ (j < n)
        BY <2>2, <3>3
      <4> QED BY <1>0, <2>5, <4>1 DEF n
    <3> QED BY <2>2, <3>1, <3>2, <3>3
  <2>7. bufferIdx' \in 0 .. Size
    BY <2>1, <2>2, <1>0
  <2> QED BY <2>1, <2>2, <2>3, <2>5, <2>6, <2>7 DEF BufferInv, BufferIsTheLine
<1>8. ASSUME NEW c \in Keys, LeaveBuffer(c) PROVE BufferInv'
  BY <1>1, <1>8 DEF LeaveBuffer
<1>9. CASE FbUpdate
  BY <1>1, <1>9 DEF FbUpdate
<1>10. CASE UNCHANGED vars
  BY <1>1, <1>10 DEF vars
<1> QED BY <1>2, <1>3, <1>4, <1>5, <1>6, <1>7, <1>8, <1>9, <1>10 DEF Next, TermUpdate

LEMMA BufferInit ==
  Init => BufferInv
<1> SUFFICES ASSUME Init PROVE BufferInv
  OBVIOUS
<1>1. buffer = [j \in 0 .. (Size - 1) |-> Nul] /\ bufferIdx = 0 /\ line = <<>>
  BY DEF Init
<1>2. line \in Seq(Plain) /\ Len(line) = 0
  BY <1>1, EmptySeq
<1>3. Size \in Nat
  BY TerminalAssumption
<1>4. \A j \in 0 .. (Size - 1) : buffer[j] = Nul /\ ~ (j < 0)
  BY <1>1, <1>3
<1> QED BY <1>1, <1>2, <1>3, <1>4 DEF BufferInv, BufferIsTheLine

\* However a line is typed and corrected, buffer has its characters and '\0'
\* behind them: neither a character taken back nor one of an older line is
\* left for strcmp to see.
THEOREM BufferHoldsTheLine ==
  Spec => []BufferIsTheLine
<1>1. BufferInv => BufferIsTheLine
  BY DEF BufferInv
<1> QED BY <1>1, BufferInit, BufferStep, PTL DEF Spec

LEMMA AnswerStep ==
  ASSUME BufferInv, RunsTheNamedCommand, [Next]_vars
  PROVE  RunsTheNamedCommand'
<1>1. CASE UNCHANGED answers
  BY <1>1 DEF RunsTheNamedCommand
<1>2. CASE Enter
  <2>1. answers' = [line |-> line, fetch |-> ~strcmp(FetchName, CString)] /\ CString = line
    BY <1>2, CStringIsLine DEF Enter
  <2>2. line \in Seq(Keys) /\ FetchName \in Seq(Keys)
    <3>1. line \in Seq(Plain) /\ Plain \subseteq Keys
      BY DEF BufferInv, Plain
    <3> QED BY <3>1, SeqMonotonic, TextsAssumption
  <2>3. ~strcmp(FetchName, line) <=> FetchName = line
    BY <2>2, StrcmpTellsApart
  <2> QED BY <2>1, <2>3 DEF RunsTheNamedCommand
<1>3. Next => Enter \/ UNCHANGED answers
  BY DEF Next, TermInit, TermUpdate, Idle, Backspace, TypeChar, LeaveBuffer, FbUpdate
<1>4. UNCHANGED vars => UNCHANGED answers
  BY DEF vars
<1> QED BY <1>1, <1>2, <1>3, <1>4

\* The command runs when its name is typed, and for no other line: not for a
\* part of the name, and not for one that begins with it.
THEOREM TheNamedCommandRuns ==
  Spec => []RunsTheNamedCommand
<1>1. Init => RunsTheNamedCommand
  BY TextsAssumption DEF Init, RunsTheNamedCommand
<1> QED BY <1>1, BufferInit, BufferStep, AnswerStep, PTL DEF Spec

-----------------------------------------------------------------------------
(* What is drawn, and where. *)

Elements(text) == {text[j] : j \in DOMAIN text}

Symbols ==
  Keys \cup {">", " ", "?", ".", "bs", "nl"}
    \cup Elements(LogText) \cup Elements(Banner) \cup Elements(FetchText)

Shades == {Blank, White} \cup (Symbols \X Columns \X Rows)

Drawings == [back : [Pixels -> Shades], cx : Int, cy : Nat,
             outside : BOOLEAN, wrapped : BOOLEAN]

\* Drawing that begins with b and has come to d.
Reach(b, d) ==
  /\ d.cy >= b.cy
  /\ \A p \in Pixels : p < b.cy * Width => d.back[p] = b.back[p]
  /\ b.wrapped => d.wrapped
  /\ d.outside => b.outside \/ d.cy + H > Height \/ d.wrapped

LEMMA Sizes ==
  /\ Width \in Nat /\ Width > 0 /\ Height \in Nat /\ Height > 0
  /\ W \in Nat /\ W > 0 /\ H \in Nat /\ H > 0
  /\ Bar \in Nat /\ Bar > 0 /\ Bar <= H /\ W <= Width
  /\ Size \in Nat /\ Size > 0
BY TerminalAssumption

LEMMA TimesIsMonotone ==
  ASSUME NEW i \in Int, NEW j \in Int, NEW k \in Nat, i <= j
  PROVE  i * k \in Int /\ j * k \in Int /\ i * k <= j * k
BY SMT

LEMMA TimesIsNat ==
  ASSUME NEW i \in Nat, NEW k \in Nat
  PROVE  i * k \in Nat
BY SMT

LEMMA ReachTransitive ==
  ASSUME NEW a \in Drawings, NEW b \in Drawings, NEW c \in Drawings,
         Reach(a, b), Reach(b, c)
  PROVE  Reach(a, c)
<1>1. a.cy \in Nat /\ b.cy \in Nat /\ c.cy \in Nat /\ H \in Nat /\ Height \in Nat
  BY Sizes DEF Drawings
<1>2. a.cy <= b.cy /\ b.cy <= c.cy
  BY DEF Reach
<1>3. c.cy >= a.cy
  BY <1>1, <1>2
<1>4. ASSUME NEW p \in Pixels, p < a.cy * Width PROVE c.back[p] = a.back[p]
  <2>1. p \in Int
    BY DEF Pixels
  <2>2. a.cy * Width \in Int /\ b.cy * Width \in Int /\ a.cy * Width <= b.cy * Width
    BY <1>1, <1>2, Sizes, TimesIsMonotone
  <2>3. p < b.cy * Width
    BY <1>4, <2>1, <2>2
  <2> QED BY <1>4, <2>3 DEF Reach
<1>5. b.cy + H > Height => c.cy + H > Height
  BY <1>1, <1>2
<1> QED BY <1>3, <1>4, <1>5 DEF Reach

LEMMA ReachReflexive ==
  ASSUME NEW a \in Drawings
  PROVE  Reach(a, a)
BY DEF Reach, Drawings

\* Painting a shape that lies in the cell at the cursor.
LEMMA PaintFacts ==
  ASSUME NEW d \in Drawings, NEW D \in SUBSET (Columns \X Rows),
         NEW shape \in [D -> Shades]
  PROVE  /\ Paint(d, shape) \in Drawings
         /\ Paint(d, shape).cx = d.cx /\ Paint(d, shape).cy = d.cy
         /\ d.cx >= 0 => Reach(d, Paint(d, shape))
<1> DEFINE Index(q) == (d.cy + q[2]) * Width + d.cx + q[1]
           set == {Index(q) : q \in DOMAIN shape}
           b == [p \in Pixels |-> IF p \in set
                   THEN shape[CHOOSE q \in DOMAIN shape : Index(q) = p]
                   ELSE d.back[p]]
           o == d.outside \/ ~(set \subseteq Pixels)
           w == d.wrapped \/ d.cx + W > Width
           e == [back |-> b, cx |-> d.cx, cy |-> d.cy, outside |-> o, wrapped |-> w]
<1>1. /\ d = [back |-> d.back, cx |-> d.cx, cy |-> d.cy,
              outside |-> d.outside, wrapped |-> d.wrapped]
      /\ d.back \in [Pixels -> Shades] /\ d.cx \in Int /\ d.cy \in Nat
      /\ d.outside \in BOOLEAN /\ d.wrapped \in BOOLEAN
  BY DEF Drawings
<1>2. Paint(d, shape) = [d EXCEPT !.back = b, !.outside = o, !.wrapped = w]
  BY DEF Paint
<1>3. b \in [Pixels -> Shades]
  <2> SUFFICES ASSUME NEW p \in Pixels
               PROVE  (IF p \in set
                       THEN shape[CHOOSE q \in DOMAIN shape : Index(q) = p]
                       ELSE d.back[p]) \in Shades
    OBVIOUS
  <2>1. CASE p \in set
    <3> DEFINE c == CHOOSE q \in DOMAIN shape : Index(q) = p
    <3>1. c \in DOMAIN shape
      BY <2>1
    <3> HIDE DEF c
    <3> QED BY <2>1, <3>1
  <2>2. CASE p \notin set
    BY <1>1, <2>2
  <2> QED BY <2>1, <2>2
<1>4. o \in BOOLEAN /\ w \in BOOLEAN
  OBVIOUS
<1>5. ASSUME NEW q \in D, d.cx >= 0
      PROVE  /\ Index(q) \in Int /\ Index(q) >= d.cy * Width
             /\ d.cy + H <= Height /\ d.cx + W <= Width => Index(q) \in Pixels
  <2>1. q[1] \in 0 .. (W - 1) /\ q[2] \in 0 .. (H - 1)
    BY DEF Columns, Rows
  <2>2. q[1] \in Int /\ q[1] >= 0 /\ q[1] <= W - 1 /\ q[2] \in Int /\ q[2] >= 0 /\ q[2] <= H - 1
    BY <2>1, Sizes
  <2> DEFINE y == d.cy + q[2]
  <2>3. y \in Int /\ d.cy <= y
    BY <1>1, <2>2
  <2> HIDE DEF y
  <2>4. d.cy * Width \in Int /\ y * Width \in Int /\ d.cy * Width <= y * Width
    BY <1>1, <2>3, Sizes, TimesIsMonotone
  <2>5. 0 <= d.cy * Width
    <3>1. d.cy * Width \in Nat
      BY <1>1, Sizes, TimesIsNat
    <3> QED BY <3>1
  <2>6. ASSUME d.cy + H <= Height, d.cx + W <= Width PROVE Index(q) \in Pixels
    <3>1. y <= Height - 1 /\ Height - 1 \in Int
      BY <1>1, <2>2, <2>6, Sizes DEF y
    <3>2. y * Width <= (Height - 1) * Width /\ (Height - 1) * Width \in Int
      BY <2>3, <3>1, Sizes, TimesIsMonotone
    <3>3. (Height - 1) * Width = Width * Height - Width /\ Width * Height \in Int
      BY Sizes
    <3>4. y * Width + d.cx + q[1] \in 0 .. (Width * Height - 1)
      BY <1>1, <1>5, <2>2, <2>4, <2>5, <2>6, <3>2, <3>3, Sizes
    <3> QED BY <3>4 DEF Pixels, y
  <2>7. y * Width + d.cx + q[1] \in Int /\ y * Width + d.cx + q[1] >= d.cy * Width
    BY <1>1, <1>5, <2>2, <2>4
  <2> QED BY <2>6, <2>7 DEF y
<1>6. ASSUME NEW p \in Pixels, d.cx >= 0, p < d.cy * Width PROVE b[p] = d.back[p]
  <2>1. p \notin set
    <3> SUFFICES ASSUME NEW q \in D, Index(q) = p PROVE FALSE
      OBVIOUS
    <3>1. Index(q) \in Int /\ Index(q) >= d.cy * Width
      BY <1>5, <1>6
    <3>2. d.cy * Width \in Int
      BY <1>1, Sizes, TimesIsMonotone
    <3> HIDE DEF Index
    <3> QED BY <1>6, <3>1, <3>2
  <2> QED BY <2>1
<1>7. ASSUME d.cx >= 0, o PROVE d.outside \/ d.cy + H > Height \/ w
  <2> SUFFICES ASSUME ~ (d.cy + H > Height), ~w PROVE d.outside
    OBVIOUS
  <2>1. d.cy + H <= Height /\ d.cx + W <= Width
    BY <1>1, Sizes
  <2>2. set \subseteq Pixels
    BY <1>5, <1>7, <2>1
  <2> QED BY <1>7, <2>2
<1> HIDE DEF b, o, w, Index, set
<1>8. Paint(d, shape) = e
  <2> DEFINE d1 == [d EXCEPT !.back = b]
             d2 == [d1 EXCEPT !.outside = o]
  <2>1. d1 = [back |-> b, cx |-> d.cx, cy |-> d.cy,
              outside |-> d.outside, wrapped |-> d.wrapped]
    BY <1>1
  <2>2. Paint(d, shape) = [d2 EXCEPT !.wrapped = w]
    BY <1>2
  <2> HIDE DEF d1
  <2>3. d2 = [back |-> b, cx |-> d.cx, cy |-> d.cy, outside |-> o, wrapped |-> d.wrapped]
    BY <2>1
  <2> HIDE DEF d2
  <2> QED BY <2>2, <2>3
<1>9. e \in Drawings
  BY <1>1, <1>3, <1>4 DEF Drawings
<1>10. d.cx >= 0 => Reach(d, e)
  <2> SUFFICES ASSUME d.cx >= 0 PROVE Reach(d, e)
    OBVIOUS
  <2>1. d.wrapped => w
    BY DEF w
  <2> QED BY <1>1, <1>6, <1>7, <2>1 DEF Reach
<1> QED BY <1>8, <1>9, <1>10

LEMMA GlyphType ==
  ASSUME NEW ch \in Symbols
  PROVE  Glyph(ch) \in [Columns \X Rows -> Shades]
<1>1. ASSUME NEW q \in Columns \X Rows
      PROVE  (IF ch = " " THEN Blank ELSE <<ch, q[1], q[2]>>) \in Shades
  <2>1. q[1] \in Columns /\ q[2] \in Rows
    OBVIOUS
  <2>2. <<ch, q[1], q[2]>> \in Symbols \X Columns \X Rows
    BY <2>1
  <2> QED BY <2>2 DEF Shades
<1> QED BY <1>1 DEF Glyph

\* The cursor bar and the cell it is erased from.
BarRows == (H - Bar) .. (H - 1)

LEMMA BarFacts ==
  ASSUME NEW d \in Drawings, NEW color \in {Blank, White}
  PROVE  LET e == Paint(d, BarShape(color))
         IN  e \in Drawings /\ e.cx = d.cx /\ e.cy = d.cy /\ (d.cx >= 0 => Reach(d, e))
<1>1. BarRows \subseteq Rows
  BY Sizes DEF BarRows, Rows
<1>2. Columns \X BarRows \in SUBSET (Columns \X Rows)
  BY <1>1
<1>3. BarShape(color) \in [Columns \X BarRows -> Shades]
  BY DEF BarShape, BarRows, Shades
<1> QED BY <1>2, <1>3, PaintFacts

\* One character, wherever the cursor is.
LEMMA WriteCharFacts ==
  ASSUME NEW d \in Drawings, NEW ch \in Symbols
  PROVE  /\ WriteChar(d, ch) \in Drawings
         /\ d.cx >= 0 \/ ch \in {"nl", "bs"} => Reach(d, WriteChar(d, ch))
         /\ ch \notin {"nl", "bs"} => WriteChar(d, ch).cx = d.cx + W
         /\ ch = "nl" => WriteChar(d, ch).cx = 0
         /\ ch = "bs" => WriteChar(d, ch).cx = d.cx - W
<1>1. /\ d = [back |-> d.back, cx |-> d.cx, cy |-> d.cy,
              outside |-> d.outside, wrapped |-> d.wrapped]
      /\ d.back \in [Pixels -> Shades] /\ d.cx \in Int /\ d.cy \in Nat
      /\ d.outside \in BOOLEAN /\ d.wrapped \in BOOLEAN
  BY DEF Drawings
<1>2. CASE ch = "nl"
  <2> DEFINE e == [back |-> d.back, cx |-> 0, cy |-> d.cy + H,
                   outside |-> d.outside, wrapped |-> d.wrapped]
  <2>1. WriteChar(d, ch) = e
    <3> DEFINE d1 == [d EXCEPT !.cx = 0]
    <3>1. d1 = [back |-> d.back, cx |-> 0, cy |-> d.cy,
                outside |-> d.outside, wrapped |-> d.wrapped]
      BY <1>1
    <3>2. WriteChar(d, ch) = [d1 EXCEPT !.cy = d.cy + H]
      BY <1>1, <1>2 DEF WriteChar
    <3> HIDE DEF d1
    <3> QED BY <3>1, <3>2
  <2>2. d.cy + H \in Nat /\ d.cy + H >= d.cy
    BY <1>1, Sizes
  <2>3. e \in Drawings
    BY <1>1, <2>2 DEF Drawings
  <2>4. Reach(d, e)
    BY <1>1, <2>2 DEF Reach
  <2>5. e.cx = 0
    OBVIOUS
  <2> HIDE DEF e
  <2> QED BY <1>2, <2>1, <2>3, <2>4, <2>5
<1>3. CASE ch = "bs"
  <2> DEFINE e == [back |-> d.back, cx |-> d.cx - W, cy |-> d.cy,
                   outside |-> d.outside, wrapped |-> d.wrapped]
  <2>1. WriteChar(d, ch) = e
    BY <1>1, <1>3 DEF WriteChar
  <2>2. d.cx - W \in Int /\ d.cy >= d.cy
    BY <1>1, Sizes
  <2>3. e \in Drawings
    BY <1>1, <2>2 DEF Drawings
  <2>4. Reach(d, e)
    BY <1>1, <2>2 DEF Reach
  <2>5. e.cx = d.cx - W
    OBVIOUS
  <2> HIDE DEF e
  <2> QED BY <1>3, <2>1, <2>3, <2>4, <2>5
<1>4. CASE ch \notin {"nl", "bs"}
  <2> DEFINE c == Paint(d, Glyph(ch))
             e == [back |-> c.back, cx |-> c.cx + W, cy |-> c.cy,
                   outside |-> c.outside, wrapped |-> c.wrapped]
  <2>1. c \in Drawings /\ c.cx = d.cx /\ c.cy = d.cy /\ (d.cx >= 0 => Reach(d, c))
    BY GlyphType, PaintFacts
  <2>2. WriteChar(d, ch) = [c EXCEPT !.cx = c.cx + W]
    BY <1>4 DEF WriteChar
  <2> HIDE DEF c
  <2>3. c = [back |-> c.back, cx |-> c.cx, cy |-> c.cy,
             outside |-> c.outside, wrapped |-> c.wrapped]
    BY <2>1 DEF Drawings
  <2>4. WriteChar(d, ch) = e
    BY <2>2, <2>3
  <2>5. e \in Drawings
    BY <2>1, Sizes DEF Drawings
  <2>6. d.cx >= 0 => Reach(d, e)
    BY <2>1 DEF Reach
  <2>7. e.cx = d.cx + W
    BY <2>1
  <2> HIDE DEF e
  <2> QED BY <1>4, <2>4, <2>5, <2>6, <2>7
<1> QED BY <1>2, <1>3, <1>4

\* The states printf's loop goes through.
Printed(d, text, g) ==
  /\ g \in [0 .. Len(text) -> Drawings]
  /\ g[0] = d
  /\ \A k \in 1 .. Len(text) : g[k] = WriteChar(g[k - 1], text[k])
  /\ Printf(d, text) = g[Len(text)]

LEMMA PrintfRun ==
  ASSUME NEW d \in Drawings, NEW text \in Seq(Symbols)
  PROVE  \E g : Printed(d, text, g)
<1> DEFINE Op(c, ch) == WriteChar(c, ch)
           n == Len(text)
           V == Drawings
           step == [p \in V \X (1 .. n) |-> Op(p[1], text[p[2]])]
           Loop(F) == F = [s \in SUBSET (DOMAIN text) |->
                       IF s = {} THEN d ELSE Op(F[s \ {Max(s)}], text[Max(s)])]
           F == CHOOSE F : Loop(F)
<1>1. n \in Nat /\ DOMAIN text = 1 .. n /\ \A k \in 1 .. n : text[k] \in Symbols
  BY LenProperties, ElementOfSeq
<1>2. Printf(d, text) = F[DOMAIN text]
  BY DEF Printf, FoldLeft, MapThenFoldSet
<1>3. \A c \in V, k \in 1 .. n : Op(c, text[k]) \in V
  BY <1>1, WriteCharFacts
<1>4. step \in [V \X (1 .. n) -> V]
  BY <1>3
<1>5. PICK f \in [SUBSET (1 .. n) -> V], g \in [0 .. n -> V] :
        /\ Recurs(f, n, d, step)
        /\ g[0] = d
        /\ \A k \in 1 .. n : g[k] = step[<<g[k - 1], k>>]
        /\ \A G : Follows(G, n, V, d, step) => G[1 .. n] = g[n]
  <2> HIDE DEF V, step, n
  <2>1. Stepwise(n, V, d, step)
    BY <1>1, <1>4, FoldRun DEF V
  <2> QED BY <2>1 DEF Stepwise
<1>6. \A c \in V, k \in 1 .. n : step[<<c, k>>] = Op(c, text[k])
  OBVIOUS
<1>7. Loop(f)
  <2>1. \A s \in SUBSET (1 .. n) : s # {} => f[s \ {Max(s)}] \in V /\ Max(s) \in 1 .. n
    BY <1>1, LargestOf
  <2> QED BY <1>1, <1>5, <1>6, <2>1 DEF Recurs
<1>8. Loop(F)
  <2> HIDE DEF Loop
  <2> QED BY <1>7
<1>9. F[1 .. n] = g[n]
  <2> HIDE DEF F, step, V, Op
  <2>1. Follows(F, n, V, d, step)
    <3>1. \A s \in SUBSET (1 .. n) : s # {} => Max(s) \in 1 .. n
      BY <1>1, LargestOf
    <3> QED BY <1>1, <1>6, <1>8, <3>1 DEF Follows
  <2> QED BY <1>5, <2>1
<1> HIDE DEF F, step, n
<1>10. \A k \in 1 .. n : g[k] = WriteChar(g[k - 1], text[k])
  <2> TAKE k \in 1 .. n
  <2>1. g[k - 1] \in V
    BY <1>1, <1>5
  <2> QED BY <1>5, <1>6, <2>1
<1>11. Printed(d, text, g)
  BY <1>1, <1>2, <1>5, <1>9, <1>10 DEF Printed, n
<1> QED BY <1>11

\* Text without a backspace, whose characters after the first m are on one
\* line: the cursor ends at least as far to the right as these reach.
LEMMA PrintfFacts ==
  ASSUME NEW d \in Drawings, d.cx >= 0, NEW text \in Seq(Symbols \ {"bs"}),
         NEW m \in 0 .. Len(text), \A k \in (m + 1) .. Len(text) : text[k] # "nl"
  PROVE  /\ Printf(d, text) \in Drawings
         /\ Reach(d, Printf(d, text))
         /\ Printf(d, text).cx >= W * (Len(text) - m)
<1> DEFINE n == Len(text)
           Far(k) == IF k <= m THEN 0 ELSE W * (k - m)
<1>1. n \in Nat /\ \A k \in 1 .. n : text[k] \in Symbols \ {"bs"}
  BY LenProperties, ElementOfSeq
<1>2. text \in Seq(Symbols)
  BY SeqMonotonic
<1>3. PICK g : Printed(d, text, g)
  BY <1>2, PrintfRun
<1>4. /\ g \in [0 .. n -> Drawings] /\ g[0] = d
      /\ \A k \in 1 .. n : g[k] = WriteChar(g[k - 1], text[k])
      /\ Printf(d, text) = g[n]
  BY <1>3 DEF Printed
<1> DEFINE T == {k \in 0 .. n : g[k].cx >= Far(k) /\ Reach(d, g[k])}
<1>5. 0 \in T
  BY <1>1, <1>4, ReachReflexive
<1> HIDE DEF n
<1>6. \A k \in 0 .. n : Far(k) \in Int /\ Far(k) >= 0
  <2> TAKE k \in 0 .. n
  <2>1. CASE k <= m
    BY <2>1
  <2>2. CASE k > m
    <3>1. m \in Nat /\ k - m \in Nat
      BY <1>1, <2>2 DEF n
    <3>2. W * (k - m) \in Nat
      BY <3>1, Sizes, TimesIsNat
    <3>3. Far(k) = W * (k - m)
      BY <1>1, <2>2, <3>1 DEF n
    <3> HIDE DEF Far
    <3> QED BY <3>2, <3>3
  <2> QED BY <1>1, <2>1, <2>2 DEF n
<1>7. ASSUME NEW k \in 0 .. (n - 1), k \in T PROVE k + 1 \in T
  <2>1. k \in Nat /\ k + 1 \in 1 .. n /\ k + 1 \in 0 .. n /\ k \in 0 .. n /\ (k + 1) - 1 = k /\ m \in Nat
    BY <1>1 DEF n
  <2>2. g[k + 1] = WriteChar(g[k], text[k + 1]) /\ g[k] \in Drawings /\ g[k + 1] \in Drawings
    BY <1>4, <2>1
  <2>3. g[k].cx \in Int /\ g[k].cx >= Far(k) /\ g[k].cx >= 0 /\ Reach(d, g[k])
    <3>1. g[k].cx \in Int
      BY <2>2 DEF Drawings
    <3>2. Far(k) \in Int /\ Far(k) >= 0
      BY <1>6, <2>1
    <3> HIDE DEF Far
    <3> QED BY <1>7, <3>1, <3>2
  <2>4. text[k + 1] \in Symbols /\ text[k + 1] # "bs"
    BY <1>1, <2>1
  <2>5. Reach(g[k], g[k + 1])
    BY <2>2, <2>3, <2>4, WriteCharFacts
  <2>6. Reach(d, g[k + 1])
    BY <2>2, <2>3, <2>5, ReachTransitive
  <2>7. g[k + 1].cx >= Far(k + 1)
    <3>1. CASE text[k + 1] = "nl"
      <4>1. ~ (k + 1 \in (m + 1) .. n)
        BY <3>1 DEF n
      <4>2. k + 1 <= m
        BY <1>1, <2>1, <4>1
      <4>3. g[k + 1].cx = 0
        BY <2>2, <2>4, <3>1, WriteCharFacts
      <4> QED BY <4>2, <4>3
    <3>2. CASE text[k + 1] # "nl"
      <4>1. g[k + 1].cx = g[k].cx + W
        BY <2>2, <2>4, <3>2, WriteCharFacts
      <4>2. Far(k + 1) <= Far(k) + W
        <5>1. CASE k + 1 <= m
          BY <2>1, <5>1, Sizes
        <5>2. CASE k = m
          <6>1. W * ((k + 1) - m) = W
            BY <2>1, <5>2, Sizes
          <6> QED BY <2>1, <5>2, <6>1, Sizes
        <5>3. CASE k > m
          <6>1. W * ((k + 1) - m) = W * (k - m) + W
            BY <2>1, <5>3, Sizes
          <6>2. W * (k - m) \in Int
            BY <2>1, Sizes
          <6> QED BY <2>1, <5>3, <6>1, <6>2, Sizes
        <5> QED BY <2>1, <5>1, <5>2, <5>3
      <4>3. Far(k) \in Int /\ Far(k + 1) \in Int
        BY <1>6, <2>1
      <4> HIDE DEF Far
      <4> QED BY SMTT(30), <2>3, <4>1, <4>2, <4>3, Sizes
    <3> QED BY <3>1, <3>2
  <2> QED BY <2>1, <2>6, <2>7
<1>8. n \in T
  <2> HIDE DEF T
  <2>1. \A k \in 0 .. n : k \in T
    BY <1>1, <1>5, <1>7, UpTo
  <2> QED BY <1>1, <2>1
<1>9. Far(n) = W * (n - m)
  <2>1. CASE n = m
    <3>1. n - m = 0 /\ W * 0 = 0
      BY <1>1, <2>1, Sizes
    <3> QED BY <1>1, <2>1, <3>1
  <2>2. CASE n > m
    <3>1. ~ (n <= m)
      BY <1>1, <2>2 DEF n
    <3> QED BY <3>1
  <2> QED BY <1>1, <2>1, <2>2 DEF n
<1> HIDE DEF Far
<1> QED BY <1>1, <1>4, <1>8, <1>9 DEF n

-----------------------------------------------------------------------------
(* The cursor stays behind the prompt and the line. *)

DInv ==
  /\ Drawing \in Drawings
  /\ cx >= 0
  /\ pc = "init" => bufferIdx = 0
  /\ pc # "init" => cx >= W * (2 + bufferIdx)

\* What one step does to the screen, as in WritesStayInLine.
Stays ==
  /\ \A p \in Pixels : p < cy * Width => back'[p] = back[p]
  /\ outside' => outside \/ ~OnScreen' \/ wrapped'

\* Text that leaves the cursor behind the prompt.
Text == Seq(Symbols \ {"bs"})

LEMMA ShortTexts ==
  ASSUME NEW S, NEW a \in S, NEW b \in S, NEW c \in S
  PROVE  <<a>> \in Seq(S) /\ <<a, b>> \in Seq(S) /\ <<a, b, c>> \in Seq(S)
<1>1. <<a>> \in Seq(S)
  OBVIOUS
<1>2. <<a, b>> \in Seq(S)
  OBVIOUS
<1>3. <<a, b, c>> \in Seq(S)
  OBVIOUS
<1> QED BY <1>1, <1>2, <1>3

LEMMA TextTypes ==
  /\ LogText \in Text /\ Banner \in Text /\ FetchText \in Text
  /\ Prompt \in Text /\ Len(Prompt) = 2 /\ Prompt[1] = ">" /\ Prompt[2] = " "
  /\ Seq(Plain) \subseteq Text
<1>1. ASSUME NEW t \in {LogText, Banner, FetchText} PROVE t \in Text
  <2>1. t \in Seq(Elements(t) \ {"bs", "bar"})
    BY TextsAssumption DEF Elements
  <2>2. Elements(t) \ {"bs", "bar"} \subseteq Symbols \ {"bs"}
    BY DEF Symbols
  <2> HIDE DEF Symbols, Elements
  <2> QED BY <2>1, <2>2, SeqMonotonic DEF Text
<1>2. Prompt \in Text
  <2>1. ">" \in Symbols \ {"bs"} /\ " " \in Symbols \ {"bs"}
    BY DEF Symbols
  <2> DEFINE S == Symbols \ {"bs"}
  <2> HIDE DEF S
  <2>2. <<">", " ">> \in Seq(S)
    BY <2>1, ShortTexts DEF S
  <2> QED BY <2>2 DEF Prompt, Text, S
<1>3. Len(Prompt) = 2 /\ Prompt[1] = ">" /\ Prompt[2] = " "
  BY DEF Prompt
<1>4. ASSUME NEW l \in Seq(Plain) PROVE l \in Text
  <2>1. Plain \subseteq Symbols \ {"bs"}
    BY DEF Plain, Symbols
  <2> QED BY <2>1, SeqMonotonic DEF Text
<1> QED BY <1>1, <1>2, <1>3, <1>4

\* The prompt behind a text takes two cells, at the start of a line or not.
LEMMA PromptFacts ==
  ASSUME NEW d \in Drawings, d.cx >= 0, NEW text \in Text
  PROVE  LET e == Printf(d, text \o Prompt)
         IN  e \in Drawings /\ Reach(d, e) /\ e.cx >= W * 2
<1> DEFINE all == text \o Prompt
           m == Len(text)
           S == Symbols \ {"bs"}
<1>1. text \in Seq(S) /\ Prompt \in Seq(S) /\ m \in Nat
  BY TextTypes, LenProperties DEF Text
<1>2. /\ all \in Seq(S) /\ Len(all) = m + 2
      /\ \A i \in 1 .. (m + 2) : all[i] = IF i <= m THEN text[i] ELSE Prompt[i - m]
  <2>1. Len(Prompt) = 2
    BY TextTypes
  <2> HIDE DEF S
  <2>2. /\ all \in Seq(S) /\ Len(all) = m + Len(Prompt)
        /\ \A i \in 1 .. (m + Len(Prompt)) :
             all[i] = IF i <= m THEN text[i] ELSE Prompt[i - m]
    BY <1>1, ConcatProperties
  <2> HIDE DEF all, m
  <2> QED BY <2>1, <2>2
<1> HIDE DEF m, all
<1>3. m \in 0 .. Len(all)
  BY <1>1, <1>2
<1>4. ASSUME NEW k \in (m + 1) .. Len(all) PROVE all[k] # "nl"
  <2>1. k \in 1 .. (m + 2) /\ ~ (k <= m) /\ k - m \in 1 .. 2
    BY <1>1, <1>2, <1>4
  <2>2. all[k] = Prompt[k - m]
    BY <1>2, <2>1
  <2>3. k - m = 1 \/ k - m = 2
    BY <2>1
  <2> QED BY <2>2, <2>3, TextTypes
<1>5. Len(all) - m = 2
  BY <1>1, <1>2
<1>6. /\ Printf(d, all) \in Drawings /\ Reach(d, Printf(d, all))
      /\ Printf(d, all).cx >= W * (Len(all) - m)
  BY <1>2, <1>3, <1>4, PrintfFacts
<1> QED BY <1>5, <1>6 DEF all

\* Every update erases the bar, prints, and draws the bar.
LEMMA UpdateFacts ==
  ASSUME Drawing \in Drawings, cx >= 0, NEW c, NEW e, NEW f,
         c = TermCurErase(Drawing) \/ c = Drawing,
         e \in Drawings, Reach(c, e), e.cx >= 0,
         f = TermCurDraw(e), Draw(f)
  PROVE  Drawing' \in Drawings /\ cx' = e.cx /\ Stays
<1>1. Drawing.cx = cx /\ Drawing.cy = cy /\ Drawing.back = back
      /\ Drawing.outside = outside /\ Drawing.wrapped = wrapped
  BY DEF Drawing
<1>2. c \in Drawings /\ Reach(Drawing, c)
  <2>1. CASE c = TermCurErase(Drawing)
    BY <1>1, <2>1, BarFacts DEF TermCurErase
  <2>2. CASE c = Drawing
    BY <2>2, ReachReflexive
  <2> QED BY <2>1, <2>2
<1>3. f \in Drawings /\ f.cx = e.cx /\ Reach(e, f)
  BY BarFacts DEF TermCurDraw
<1>4. Reach(Drawing, f)
  <2>1. Reach(Drawing, e)
    BY <1>2, ReachTransitive
  <2> QED BY <1>3, <2>1, ReachTransitive
<1>5. back' = f.back /\ cx' = f.cx /\ cy' = f.cy /\ outside' = f.outside /\ wrapped' = f.wrapped
  BY DEF Draw
<1>6. Drawing' = f
  BY <1>3, <1>5 DEF Drawing, Drawings
<1>7. H \in Nat /\ Height \in Nat /\ cy' \in Int
  BY <1>3, <1>5, Sizes DEF Drawings
<1>8. Stays
  BY <1>1, <1>4, <1>5, <1>7 DEF Reach, Stays, OnScreen
<1> QED BY <1>3, <1>5, <1>6, <1>8

\* What Enter prints before the prompt.
LEMMA AnswerType ==
  ASSUME NEW cmd \in Seq(Plain)
  PROVE  <<"nl">> \o Answer(cmd) \in Text
<1> DEFINE S == Symbols \ {"bs"}
<1>1. "nl" \in S /\ "?" \in S /\ "." \in S
  BY DEF Symbols
<1>2. cmd \in Seq(S) /\ FetchText \in Seq(S)
  BY TextTypes DEF Text
<1> HIDE DEF S
<1>3. <<"nl">> \in Seq(S) /\ <<"?">> \in Seq(S) /\ <<".", "nl">> \in Seq(S)
  BY <1>1, ShortTexts
<1>4. NotFound(cmd) \in Seq(S)
  <2>1. <<"?">> \o cmd \in Seq(S)
    BY <1>2, <1>3, ConcatProperties
  <2>2. (<<"?">> \o cmd) \o <<".", "nl">> \in Seq(S)
    BY <1>3, <2>1, ConcatProperties
  <2> QED BY <2>2 DEF NotFound
<1>5. Answer(cmd) \in Seq(S)
  BY <1>2, <1>4 DEF Answer
<1>6. <<"nl">> \o Answer(cmd) \in Seq(S)
  BY <1>3, <1>5, ConcatProperties
<1> QED BY <1>6 DEF S, Text

\* A step that draws nothing, or copies the picture.
LEMMA NoDrawing ==
  ASSUME BufferInv, DInv, UNCHANGED <<back, cx, cy, outside, wrapped, bufferIdx>>,
         pc' = pc \/ (pc # "init" /\ pc' # "init")
  PROVE  DInv' /\ Stays
<1>1. Drawing' = Drawing /\ cx' = cx /\ W * (2 + bufferIdx') = W * (2 + bufferIdx)
  BY DEF Drawing
<1>2. DInv'
  BY <1>1 DEF DInv
<1>3. Stays
  BY DEF Stays
<1> QED BY <1>2, <1>3

LEMMA DrawStep ==
  ASSUME BufferInv, DInv, [Next]_vars
  PROVE  DInv' /\ (Stays \/ UNCHANGED vars)
<1>0. /\ Drawing \in Drawings /\ cx \in Int /\ cx >= 0 /\ Drawing.cx = cx
      /\ bufferIdx \in Nat /\ W \in Nat /\ W > 0 /\ W * (2 + bufferIdx) \in Int
  <2>1. Drawing \in Drawings /\ cx >= 0 /\ Drawing.cx = cx /\ cx \in Int
    BY DEF DInv, Drawing, Drawings
  <2>2. bufferIdx \in Nat
    BY Sizes DEF BufferInv
  <2> QED BY <2>1, <2>2, Sizes, TimesIsNat
<1> DEFINE c == TermCurErase(Drawing)
<1>1. c \in Drawings /\ c.cx = cx /\ Reach(Drawing, c)
  BY <1>0, BarFacts DEF TermCurErase
<1>2. CASE UNCHANGED vars
  BY <1>2, NoDrawing DEF vars, fbVars
<1>3. CASE Idle
  BY <1>3, NoDrawing DEF Idle, fbVars
<1>4. CASE FbUpdate
  BY <1>4, NoDrawing DEF FbUpdate
<1>5. ASSUME NEW k \in Keys, LeaveBuffer(k) PROVE DInv' /\ Stays
  BY <1>5, NoDrawing DEF LeaveBuffer, Key, fbVars
<1>6. CASE TermInit
  <2> DEFINE e == Printf(Drawing, Banner \o Prompt)
             f == TermCurDraw(e)
  <2>1. e \in Drawings /\ Reach(Drawing, e) /\ e.cx >= W * 2
    BY <1>0, TextTypes, PromptFacts
  <2>2. Draw(f) /\ pc = "init" /\ pc' = "term" /\ bufferIdx' = bufferIdx
    BY <1>6 DEF TermInit
  <2> HIDE DEF e, f
  <2>3. e.cx >= 0 /\ e.cx \in Int
    BY <1>0, <2>1 DEF Drawings
  <2>4. Drawing' \in Drawings /\ cx' = e.cx /\ Stays
    BY <1>0, <2>1, <2>2, <2>3, UpdateFacts DEF f
  <2>5. bufferIdx' = 0
    BY <2>2 DEF DInv
  <2>6. W * (2 + bufferIdx') = W * 2
    BY <1>0, <2>5
  <2> QED BY <2>1, <2>2, <2>3, <2>4, <2>6 DEF DInv
<1>7. CASE Enter
  <2> DEFINE text == <<"nl">> \o Answer(CString)
             e == Printf(c, text \o Prompt)
             f == TermCurDraw(e)
  <2>1. text \in Text
    <3>1. CString = line /\ line \in Seq(Plain)
      BY <1>7, CStringIsLine DEF Enter, BufferInv
    <3> QED BY <3>1, AnswerType
  <2>2. Draw(f) /\ pc' = "fb" /\ bufferIdx' = 0
    BY <1>7 DEF Enter, Key
  <2> HIDE DEF text, c
  <2>3. e \in Drawings /\ Reach(c, e) /\ e.cx >= W * 2
    BY <1>0, <1>1, <2>1, PromptFacts
  <2> HIDE DEF e, f
  <2>4. e.cx >= 0 /\ e.cx \in Int
    BY <1>0, <2>3 DEF Drawings
  <2>5. Drawing' \in Drawings /\ cx' = e.cx /\ Stays
    BY <1>0, <1>1, <2>2, <2>3, <2>4, UpdateFacts DEF c, f
  <2>6. W * (2 + bufferIdx') = W * 2
    BY <1>0, <2>2
  <2> QED BY <2>2, <2>3, <2>4, <2>5, <2>6 DEF DInv
<1>8. CASE Backspace /\ bufferIdx > 0
  <2> DEFINE text == <<"bs", " ", "bs">>
             e == Printf(c, text)
             f == TermCurDraw(e)
  <2>1. /\ Draw(f) /\ pc = "term" /\ pc' = "fb" /\ bufferIdx' = bufferIdx - 1
    BY <1>8 DEF Backspace, Key
  <2>2. text \in Seq(Symbols) /\ Len(text) = 3 /\ "bs" \in Symbols /\ " " \in Symbols
    <3>1. "bs" \in Symbols /\ " " \in Symbols
      BY DEF Symbols
    <3> QED BY <3>1, ShortTexts
  <2>3. text[1] = "bs" /\ text[2] = " " /\ text[3] = "bs"
    OBVIOUS
  <2> HIDE DEF text, c
  <2>4. PICK g : Printed(c, text, g)
    BY <1>1, <2>2, PrintfRun
  <2>5. /\ g[0] = c /\ g[1] = WriteChar(g[0], "bs") /\ g[2] = WriteChar(g[1], " ")
        /\ g[3] = WriteChar(g[2], "bs") /\ e = g[3]
        /\ g[0] \in Drawings /\ g[1] \in Drawings /\ g[2] \in Drawings /\ g[3] \in Drawings
    <3>1. /\ g \in [0 .. 3 -> Drawings] /\ g[0] = c /\ e = g[3]
          /\ \A k \in 1 .. 3 : g[k] = WriteChar(g[k - 1], text[k])
      BY <2>2, <2>4 DEF Printed
    <3>2. g[1] = WriteChar(g[1 - 1], text[1]) /\ g[2] = WriteChar(g[2 - 1], text[2])
          /\ g[3] = WriteChar(g[3 - 1], text[3])
      BY <3>1
    <3>3. 1 - 1 = 0 /\ 2 - 1 = 1 /\ 3 - 1 = 2
      OBVIOUS
    <3>4. g[0] \in Drawings /\ g[1] \in Drawings /\ g[2] \in Drawings /\ g[3] \in Drawings
      BY <3>1
    <3> HIDE DEF e
    <3> QED BY <2>3, <3>1, <3>2, <3>3, <3>4
  <2> HIDE DEF e, f
  <2>6. W * (2 + bufferIdx') = W * (2 + bufferIdx) - W /\ W * (2 + bufferIdx') >= 0
    <3>1. 2 + bufferIdx' = 2 + bufferIdx - 1 /\ bufferIdx' \in Int
      BY <1>0, <2>1
    <3>2. 2 + bufferIdx' \in Nat
      BY <1>0, <1>8, <2>1
    <3>3. W * (2 + bufferIdx') \in Nat
      BY <1>0, <3>2, TimesIsNat
    <3>4. W * (2 + bufferIdx - 1) = W * (2 + bufferIdx) - W
      BY <1>0
    <3> QED BY <3>1, <3>3, <3>4
  <2>7. cx - W >= W * (2 + bufferIdx') /\ cx - W >= 0
    <3>1. cx >= W * (2 + bufferIdx)
      BY <2>1 DEF DInv
    <3> DEFINE a == W * (2 + bufferIdx)
               z == W * (2 + bufferIdx')
    <3>2. a \in Int /\ z = a - W /\ z >= 0 /\ cx >= a
      BY <1>0, <2>6, <3>1
    <3> HIDE DEF a, z
    <3>3. cx - W >= z /\ cx - W >= 0
      BY <1>0, <3>2
    <3> QED BY <3>3 DEF z
  <2>8. g[1].cx = cx - W /\ g[2].cx = cx /\ g[3].cx = cx - W
    <3>1. g[1].cx = cx - W
      BY <1>1, <2>2, <2>5, WriteCharFacts
    <3>2. g[2].cx = (cx - W) + W
      <4>1. WriteChar(g[1], " ").cx = g[1].cx + W
        BY <2>2, <2>5, WriteCharFacts
      <4> QED BY <2>5, <3>1, <4>1
    <3>3. (cx - W) + W = cx
      BY <1>0
    <3>4. g[3].cx = cx - W
      <4>1. WriteChar(g[2], "bs").cx = g[2].cx - W
        BY <2>2, <2>5, WriteCharFacts
      <4> QED BY <2>5, <3>2, <3>3, <4>1
    <3> QED BY <3>1, <3>2, <3>3, <3>4
  <2>9. e.cx = cx - W
    BY <2>5, <2>8
  <2>10. Reach(c, g[1]) /\ Reach(g[1], g[2]) /\ Reach(g[2], g[3])
    BY <1>0, <2>2, <2>5, <2>7, <2>8, WriteCharFacts
  <2>11. Reach(c, e) /\ e \in Drawings
    <3>1. Reach(c, g[2])
      BY <1>1, <2>5, <2>10, ReachTransitive
    <3> QED BY <1>1, <2>5, <2>10, <3>1, ReachTransitive
  <2>12. Drawing' \in Drawings /\ cx' = e.cx /\ Stays
    BY <1>0, <1>1, <2>1, <2>7, <2>9, <2>11, UpdateFacts DEF c, f
  <2> QED BY <2>1, <2>7, <2>9, <2>12 DEF DInv
<1>9. CASE Backspace /\ ~ (bufferIdx > 0)
  <2> DEFINE f == TermCurDraw(c)
  <2>1. Draw(f) /\ pc = "term" /\ pc' = "fb" /\ bufferIdx' = bufferIdx
    BY <1>9 DEF Backspace, Key
  <2> HIDE DEF f, c
  <2>2. Drawing' \in Drawings /\ cx' = cx /\ Stays
    BY <1>0, <1>1, <2>1, ReachReflexive, UpdateFacts DEF c, f
  <2> QED BY <1>0, <2>1, <2>2 DEF DInv
<1>10. ASSUME NEW k \in Keys, TypeChar(k) PROVE DInv' /\ Stays
  <2> DEFINE text == <<k>>
             e == Printf(c, text)
             f == TermCurDraw(e)
  <2>1. /\ Draw(f) /\ pc = "term" /\ pc' = "fb" /\ bufferIdx' = bufferIdx + 1
        /\ k \notin {"nl", "bs"}
    BY <1>10 DEF TypeChar, Key
  <2>2. text \in Seq(Symbols) /\ Len(text) = 1 /\ k \in Symbols /\ text[1] = k
    <3>1. k \in Symbols
      BY DEF Symbols
    <3> QED BY <3>1, ShortTexts
  <2> HIDE DEF text, c
  <2>3. PICK g : Printed(c, text, g)
    BY <1>1, <2>2, PrintfRun
  <2>4. e = WriteChar(c, k) /\ e \in Drawings
    <3>1. /\ g \in [0 .. 1 -> Drawings] /\ g[0] = c /\ e = g[1]
          /\ \A j \in 1 .. 1 : g[j] = WriteChar(g[j - 1], text[j])
      BY <2>2, <2>3 DEF Printed
    <3>2. g[1] = WriteChar(g[1 - 1], text[1]) /\ 1 - 1 = 0 /\ g[1] \in Drawings
      BY <3>1
    <3> HIDE DEF e
    <3> QED BY <2>2, <3>1, <3>2
  <2> HIDE DEF e, f
  <2>5. e.cx = cx + W /\ Reach(c, e)
    BY <1>0, <1>1, <2>1, <2>2, <2>4, WriteCharFacts
  <2>6. cx + W >= W * (2 + bufferIdx') /\ cx + W >= 0
    <3>1. cx >= W * (2 + bufferIdx)
      BY <2>1 DEF DInv
    <3>2. 2 + bufferIdx' = 2 + bufferIdx + 1
      BY <1>0, <2>1
    <3>3. W * (2 + bufferIdx + 1) = W * (2 + bufferIdx) + W
      BY <1>0
    <3> DEFINE a == W * (2 + bufferIdx)
               z == W * (2 + bufferIdx')
    <3>4. a \in Int /\ z = a + W /\ cx >= a
      BY <1>0, <3>1, <3>2, <3>3
    <3> HIDE DEF a, z
    <3>5. cx + W >= z /\ cx + W >= 0
      BY <1>0, <3>4
    <3> QED BY <3>5 DEF z
  <2>7. Drawing' \in Drawings /\ cx' = e.cx /\ Stays
    BY <1>0, <1>1, <2>1, <2>4, <2>5, <2>6, UpdateFacts DEF c, f
  <2> QED BY <2>1, <2>5, <2>6, <2>7 DEF DInv
<1> QED BY <1>2, <1>3, <1>4, <1>5, <1>6, <1>7, <1>8, <1>9, <1>10 DEF Next, TermUpdate

\* KeStart's messages are printed on a blank screen.
LEMMA DrawInit ==
  Init => DInv
<1> SUFFICES ASSUME Init PROVE DInv
  OBVIOUS
<1> DEFINE d == [back |-> [p \in Pixels |-> Blank], cx |-> 0, cy |-> 0,
                 outside |-> FALSE, wrapped |-> FALSE]
           e == Printf(d, LogText)
           n == Len(LogText)
<1>1. d \in Drawings /\ d.cx >= 0
  BY DEF Drawings, Shades
<1>2. /\ back = e.back /\ cx = e.cx /\ cy = e.cy /\ outside = e.outside /\ wrapped = e.wrapped
      /\ pc = "init" /\ bufferIdx = 0
  BY DEF Init
<1> HIDE DEF d
<1>3. n \in Nat /\ LogText \in Seq(Symbols \ {"bs"})
  BY TextTypes, LenProperties DEF Text
<1>4. e \in Drawings /\ e.cx >= W * (n - n)
  <2>1. n \in 0 .. n /\ \A k \in (n + 1) .. n : LogText[k] # "nl"
    BY <1>3
  <2> QED BY <1>1, <1>3, <2>1, PrintfFacts
<1> HIDE DEF e, n
<1>5. W * (n - n) = 0
  BY <1>3, Sizes
<1>6. Drawing = e
  BY <1>2, <1>4 DEF Drawing, Drawings
<1> QED BY <1>2, <1>4, <1>5, <1>6 DEF DInv

\* However a line is corrected and however long it gets, the text above it
\* stays; and the back buffer is left only by text that has run over the bottom
\* or the right edge, never because the cursor has gone back too far.
THEOREM TextAboveStays ==
  Spec => WritesStayInLine
<1>1. BufferInv /\ DInv /\ [Next]_vars =>
        [/\ \A p \in Pixels : p < cy * Width => back'[p] = back[p]
         /\ outside' => outside \/ ~OnScreen' \/ wrapped']_vars
  BY DrawStep DEF Stays
<1>2. DInv /\ BufferInv /\ [Next]_vars => DInv'
  BY DrawStep
<1> QED BY <1>1, <1>2, BufferInit, BufferStep, DrawInit, PTL DEF Spec, WritesStayInLine

-----------------------------------------------------------------------------
(* Where the pixels of a drawing are. *)

XRange == 0 .. (Width - 1)
YRange == 0 .. (Height - 1)
At(x, y) == y * Width + x

LEMMA AtIsPixel ==
  ASSUME NEW x \in XRange, NEW y \in YRange
  PROVE  At(x, y) \in Pixels
<1>1. x \in Int /\ x >= 0 /\ x <= Width - 1 /\ y \in Nat /\ y <= Height - 1 /\ Height - 1 \in Int
  BY Sizes DEF XRange, YRange
<1>2. y * Width \in Nat /\ y * Width <= (Height - 1) * Width /\ (Height - 1) * Width \in Int
  BY <1>1, Sizes, TimesIsNat, TimesIsMonotone
<1>3. (Height - 1) * Width = Width * Height - Width /\ Width * Height \in Int
  BY Sizes
<1> DEFINE a == y * Width
           b == (Height - 1) * Width
           c == Width * Height
<1>4. a \in Nat /\ a <= b /\ b \in Int /\ b = c - Width /\ c \in Int
  BY <1>2, <1>3
<1> HIDE DEF a, b, c
<1>5. a + x \in 0 .. (c - 1)
  BY <1>1, <1>4, Sizes
<1> QED BY <1>5 DEF At, Pixels, a, c

\* A pixel has one place.
LEMMA AtIsOne ==
  ASSUME NEW x \in XRange, NEW y \in Int, NEW u \in XRange, NEW v \in Int, At(x, y) = At(u, v)
  PROVE  x = u /\ y = v
<1>1. x \in Int /\ x >= 0 /\ x < Width /\ u \in Int /\ u >= 0 /\ u < Width
  BY Sizes DEF XRange
<1>2. ASSUME NEW a \in Int, NEW b \in Int, NEW p \in Int, NEW q \in Int, a < b,
             p >= 0, p < Width, q >= 0, a * Width + p = b * Width + q
      PROVE  FALSE
  <2>1. a + 1 <= b /\ a + 1 \in Int
    BY <1>2
  <2>2. (a + 1) * Width <= b * Width /\ b * Width \in Int
    BY <2>1, Sizes, TimesIsMonotone
  <2>3. (a + 1) * Width = a * Width + Width /\ a * Width \in Int
    BY Sizes
  <2> DEFINE r == a * Width
             s == b * Width
  <2>4. r \in Int /\ s \in Int /\ r + Width <= s /\ r + p = s + q
    BY <1>2, <2>2, <2>3
  <2> HIDE DEF r, s
  <2> QED BY <1>2, <2>4, Sizes
<1>3. y * Width + x = v * Width + u
  BY DEF At
<1>4. ~ (y < v)
  BY <1>1, <1>2, <1>3
<1>5. ~ (v < y)
  BY <1>1, <1>2, <1>3
<1>6. y = v
  BY <1>4, <1>5
<1> DEFINE r == y * Width
<1>7. r + x = r + u /\ r \in Int
  BY <1>3, <1>6, Sizes
<1> HIDE DEF r
<1> QED BY <1>1, <1>6, <1>7

\* What a shape painted at the cursor, inside the screen, leaves at a place.
LEMMA PaintedAt ==
  ASSUME NEW d \in Drawings, d.cx >= 0, d.cx + W <= Width, d.cy + H <= Height,
         NEW D \in SUBSET (Columns \X Rows), NEW shape \in [D -> Shades],
         NEW x \in XRange, NEW y \in YRange
  PROVE  Paint(d, shape).back[At(x, y)]
           = IF <<x - d.cx, y - d.cy>> \in D THEN shape[<<x - d.cx, y - d.cy>>]
             ELSE d.back[At(x, y)]
<1> DEFINE Index(q) == (d.cy + q[2]) * Width + d.cx + q[1]
           set == {Index(q) : q \in DOMAIN shape}
           p == At(x, y)
           s == <<x - d.cx, y - d.cy>>
           Chosen == CHOOSE q \in DOMAIN shape : Index(q) = p
<1>1. d.cx \in Int /\ d.cy \in Nat /\ x \in Int /\ y \in Int
  BY DEF Drawings, XRange, YRange
<1>2. p \in Pixels
  BY AtIsPixel
<1>3. Paint(d, shape).back[p] = IF p \in set THEN shape[Chosen] ELSE d.back[p]
  <2> DEFINE b == [i \in Pixels |-> IF i \in set
                     THEN shape[CHOOSE q \in DOMAIN shape : Index(q) = i] ELSE d.back[i]]
             o == d.outside \/ ~(set \subseteq Pixels)
             w == d.wrapped \/ d.cx + W > Width
  <2>1. Paint(d, shape) = [d EXCEPT !.back = b, !.outside = o, !.wrapped = w]
    BY DEF Paint
  <2>2. b[p] = IF p \in set THEN shape[Chosen] ELSE d.back[p]
    BY <1>2
  <2> HIDE DEF b, o, w, p, set
  <2>3. [d EXCEPT !.back = b, !.outside = o, !.wrapped = w].back = b
    BY DEF Drawings
  <2> QED BY <2>1, <2>2, <2>3
<1>4. ASSUME NEW q \in D
      PROVE  Index(q) = At(d.cx + q[1], d.cy + q[2]) /\ d.cx + q[1] \in XRange /\ d.cy + q[2] \in Int
             /\ q = <<q[1], q[2]>> /\ q[1] \in Int /\ q[2] \in Int
  <2>1. q[1] \in 0 .. (W - 1) /\ q[2] \in 0 .. (H - 1) /\ q = <<q[1], q[2]>>
    BY DEF Columns, Rows
  <2>2. d.cx + q[1] \in XRange /\ d.cy + q[2] \in Int /\ q[1] \in Int /\ q[2] \in Int
    BY <1>1, <2>1, Sizes DEF XRange
  <2>3. (d.cy + q[2]) * Width \in Int
    BY <2>2, Sizes
  <2>4. Index(q) = At(d.cx + q[1], d.cy + q[2])
    BY <1>1, <2>2, <2>3 DEF At
  <2> QED BY <2>1, <2>2, <2>4
<1>5. ASSUME NEW q \in D PROVE Index(q) = p <=> q = s
  <2>1. ASSUME Index(q) = p PROVE q = s
    <3>1. d.cx + q[1] = x /\ d.cy + q[2] = y
      <4> DEFINE a == d.cx + q[1]
                 b == d.cy + q[2]
      <4>1. At(a, b) = At(x, y) /\ a \in XRange /\ b \in Int
        BY <1>4, <2>1
      <4> HIDE DEF a, b
      <4>2. a = x /\ b = y
        BY <1>1, <4>1, AtIsOne
      <4> QED BY <4>2 DEF a, b
    <3>2. q[1] = x - d.cx /\ q[2] = y - d.cy
      BY <1>1, <1>4, <3>1
    <3> QED BY <1>4, <3>2
  <2>2. ASSUME q = s PROVE Index(q) = p
    <3>1. q[1] = x - d.cx /\ q[2] = y - d.cy
      BY <2>2
    <3>2. d.cx + q[1] = x /\ d.cy + q[2] = y
      BY <1>1, <3>1
    <3> QED BY <1>4, <3>2
  <2> QED BY <2>1, <2>2
<1>6. DOMAIN shape = D
  OBVIOUS
<1> HIDE DEF Index, p, s
<1>7. CASE s \in D
  <2>1. p \in set
    BY <1>5, <1>6, <1>7
  <2>2. Chosen = s
    BY <1>5, <1>6, <1>7
  <2> QED BY <1>3, <1>7, <2>1, <2>2 DEF p, s
<1>8. CASE s \notin D
  <2>1. p \notin set
    BY <1>5, <1>6, <1>8
  <2> QED BY <1>3, <1>8, <2>1 DEF p, s
<1> QED BY <1>7, <1>8

\* What painting does to the rest of a drawing, wherever the cursor is.
LEMMA PaintKeeps ==
  ASSUME NEW d \in Drawings, NEW D \in SUBSET (Columns \X Rows), NEW shape \in [D -> Shades]
  PROVE  LET e == Paint(d, shape)
         IN  e \in Drawings /\ e.cx = d.cx /\ e.cy = d.cy
             /\ (e.wrapped <=> d.wrapped \/ d.cx + W > Width)
<1> DEFINE e == Paint(d, shape)
<1>1. e \in Drawings /\ e.cx = d.cx /\ e.cy = d.cy
  BY PaintFacts
<1>2. PICK b, o : e = [d EXCEPT !.back = b, !.outside = o,
                                !.wrapped = d.wrapped \/ d.cx + W > Width]
  BY DEF Paint
<1>3. e.wrapped <=> d.wrapped \/ d.cx + W > Width
  BY <1>2 DEF Drawings
<1> QED BY <1>1, <1>3

-----------------------------------------------------------------------------
(* The picture of a line. *)

Clean == Symbols \ {"bs"}

\* The text line of the cursor shows s from its first column on, then the bar
\* if b, and nothing behind it; below is nothing, and no other bar anywhere.
Pic(d, s, b) ==
  /\ s \in Seq(Symbols) /\ d.cx = W * Len(s) /\ d.cx <= Width
  /\ b => d.cx + W <= Width
  /\ \A j \in 1 .. Len(s), q \in Columns \X Rows :
       d.back[At(W * (j - 1) + q[1], d.cy + q[2])] = Glyph(s[j])[q]
  /\ \A x \in XRange, y \in YRange :
       /\ d.back[At(x, y)] = White <=> b /\ <<x - d.cx, y - d.cy>> \in Columns \X BarRows
       /\ y >= d.cy + H \/ (y >= d.cy /\ x >= d.cx) =>
            d.back[At(x, y)] \in {Blank, White}

Fine(d) == ~d.wrapped /\ d.cy + H <= Height

\* Where the places of a line's characters are.
LEMMA PlaceOf ==
  ASSUME NEW n \in Nat, NEW j \in 1 .. n, NEW q \in Columns \X Rows, W * n <= Width,
         NEW c \in Nat, c + H <= Height
  PROVE  /\ W * (j - 1) + q[1] \in XRange /\ c + q[2] \in YRange
         /\ W * (j - 1) + q[1] < W * n /\ W * n \in Nat
         /\ j < n => W * (j - 1) + q[1] < W * (n - 1)
         /\ q[1] \in 0 .. (W - 1) /\ q[2] \in 0 .. (H - 1)
<1>1. q[1] \in 0 .. (W - 1) /\ q[2] \in 0 .. (H - 1) /\ j - 1 \in Nat /\ j \in Int
  BY DEF Columns, Rows
<1>2. W * (j - 1) \in Nat /\ W * n \in Nat
  BY <1>1, Sizes, TimesIsNat
<1>3. W * j = W * (j - 1) + W
  BY <1>1, Sizes
<1>4. W * j <= W * n /\ W * j \in Int
  <2>1. j * W <= n * W /\ j * W = W * j /\ n * W = W * n /\ j * W \in Int
    BY <1>1, Sizes, TimesIsMonotone
  <2> QED BY <2>1
<1>5. j < n => W * j <= W * (n - 1)
  <2> SUFFICES ASSUME j < n PROVE W * j <= W * (n - 1)
    OBVIOUS
  <2>1. j <= n - 1 /\ n - 1 \in Int
    BY <1>1
  <2>2. j * W <= (n - 1) * W /\ j * W = W * j /\ (n - 1) * W = W * (n - 1)
    BY <1>1, <2>1, Sizes, TimesIsMonotone
  <2> QED BY <2>2
<1>6. W * (n - 1) \in Int
  BY Sizes
<1> DEFINE a == W * (j - 1)
           b == W * j
           e == W * n
           f == W * (n - 1)
<1>7. a \in Nat /\ e \in Nat /\ b = a + W /\ b <= e /\ b \in Int /\ (j < n => b <= f) /\ f \in Int /\ e <= Width
  BY <1>2, <1>3, <1>4, <1>5, <1>6
<1> HIDE DEF a, b, e, f
<1>8. a + q[1] \in XRange /\ c + q[2] \in YRange /\ a + q[1] < e /\ (j < n => a + q[1] < f)
  BY <1>1, <1>7, Sizes DEF XRange, YRange
<1> QED BY <1>1, <1>7, <1>8 DEF a, e, f

\* No pixel of a character is one of the bar.
LEMMA GlyphIsNotWhite ==
  ASSUME NEW ch \in Symbols, NEW q \in Columns \X Rows
  PROVE  Glyph(ch)[q] # White /\ Glyph(" ")[q] = Blank /\ Blank # White
<1>1. "bar" \notin Symbols
  <2>1. ASSUME NEW t \in {LogText, Banner, FetchText} PROVE "bar" \notin Elements(t)
    <3>1. t \in Seq(Elements(t) \ {"bs", "bar"})
      BY TextsAssumption DEF Elements
    <3>2. \A j \in DOMAIN t : t[j] \in Elements(t) \ {"bs", "bar"}
      <4> DEFINE S == Elements(t) \ {"bs", "bar"}
      <4> HIDE DEF S
      <4>1. t \in Seq(S)
        BY <3>1 DEF S
      <4>2. \A j \in DOMAIN t : t[j] \in S
        BY <4>1
      <4> QED BY <4>2 DEF S
    <3> QED BY <3>2 DEF Elements
  <2> QED BY <2>1, TextsAssumption DEF Symbols
<1>2. Glyph(ch)[q] = IF ch = " " THEN Blank ELSE <<ch, q[1], q[2]>>
  BY DEF Glyph
<1>3. Glyph(" ")[q] = Blank
  BY DEF Glyph
<1>4. Blank # White
  BY DEF Blank, White
<1>5. <<ch, q[1], q[2]>> # White
  BY <1>1 DEF White
<1> QED BY <1>2, <1>3, <1>4, <1>5

\* e is d with shape painted at the cursor, in a cell on the screen, behind the
\* characters s.
CellPainted(d, e, s, D, shape) ==
  /\ e \in Drawings /\ e.cx = d.cx /\ e.cy = d.cy /\ d.cx + W <= Width /\ Fine(d)
  /\ d.cx \in Nat /\ d.cy \in Nat /\ Len(s) \in Nat
  /\ \A x \in XRange, y \in YRange :
       e.back[At(x, y)] = IF <<x - d.cx, y - d.cy>> \in D
                          THEN shape[<<x - d.cx, y - d.cy>>] ELSE d.back[At(x, y)]
  /\ \A j \in 1 .. Len(s), q \in Columns \X Rows :
       e.back[At(W * (j - 1) + q[1], d.cy + q[2])] = Glyph(s[j])[q]

\* Painting at the cursor leaves the characters before it.
LEMMA PaintPic ==
  ASSUME NEW d \in Drawings, NEW s, NEW b, Pic(d, s, b),
         NEW D \in SUBSET (Columns \X Rows), NEW shape \in [D -> Shades],
         NEW e, e = Paint(d, shape), Fine(e)
  PROVE  CellPainted(d, e, s, D, shape)
<1>1. e \in Drawings /\ e.cx = d.cx /\ e.cy = d.cy /\ (e.wrapped <=> d.wrapped \/ d.cx + W > Width)
  BY PaintKeeps
<1>2. d.cx \in Int /\ d.cy \in Nat /\ Len(s) \in Nat /\ d.cx = W * Len(s) /\ d.cx <= Width
  <2>1. s \in Seq(Symbols) /\ d.cx = W * Len(s) /\ d.cx <= Width
    BY DEF Pic
  <2> QED BY <2>1, LenProperties DEF Drawings
<1>3. d.cx \in Nat
  <2>1. W * Len(s) \in Nat
    BY <1>2, Sizes, TimesIsNat
  <2> QED BY <1>2, <2>1
<1>4. d.cx + W <= Width /\ d.cy + H <= Height /\ Fine(d)
  BY <1>1, <1>2, Sizes DEF Fine
<1>5. ASSUME NEW x \in XRange, NEW y \in YRange
      PROVE  e.back[At(x, y)] = IF <<x - d.cx, y - d.cy>> \in D
                                THEN shape[<<x - d.cx, y - d.cy>>] ELSE d.back[At(x, y)]
  BY <1>3, <1>4, PaintedAt
<1>6. ASSUME NEW j \in 1 .. Len(s), NEW q \in Columns \X Rows
      PROVE  e.back[At(W * (j - 1) + q[1], d.cy + q[2])] = Glyph(s[j])[q]
  <2> DEFINE x == W * (j - 1) + q[1]
             y == d.cy + q[2]
  <2>1. x \in XRange /\ y \in YRange /\ x < d.cx
    BY <1>2, <1>4, PlaceOf
  <2>2. d.back[At(x, y)] = Glyph(s[j])[q]
    BY DEF Pic
  <2> HIDE DEF x, y
  <2>3. x \in Int
    BY <2>1 DEF XRange
  <2>4. x - d.cx \notin Columns
    BY <1>2, <2>1, <2>3 DEF Columns
  <2>5. <<x - d.cx, y - d.cy>> \notin D
    BY <2>4
  <2>6. e.back[At(x, y)] = d.back[At(x, y)]
    BY <1>5, <2>1, <2>5
  <2> QED BY <2>2, <2>6 DEF x, y
<1> QED BY <1>1, <1>2, <1>3, <1>4, <1>5, <1>6 DEF CellPainted

LEMMA BarType ==
  ASSUME NEW color \in {Blank, White}
  PROVE  /\ Columns \X BarRows \in SUBSET (Columns \X Rows)
         /\ BarShape(color) \in [Columns \X BarRows -> Shades]
         /\ \A q \in Columns \X BarRows : BarShape(color)[q] = color
<1>1. BarRows \subseteq Rows
  BY Sizes DEF BarRows, Rows
<1>2. BarShape(color) \in [Columns \X BarRows -> Shades]
  BY DEF BarShape, BarRows, Shades
<1> QED BY <1>1, <1>2 DEF BarShape, BarRows

\* TermCurErase and TermCurDraw.
LEMMA BarPic ==
  ASSUME NEW d \in Drawings, NEW s, NEW b \in BOOLEAN, Pic(d, s, b), NEW on \in BOOLEAN,
         NEW e, e = Paint(d, BarShape(IF on THEN White ELSE Blank)), Fine(e)
  PROVE  Pic(e, s, on)
<1> DEFINE color == IF on THEN White ELSE Blank
           D == Columns \X BarRows
           shape == BarShape(color)
<1>1. color \in {Blank, White} /\ (color = White <=> on)
  BY DEF Blank, White
<1> HIDE DEF color
<1>2. D \in SUBSET (Columns \X Rows) /\ shape \in [D -> Shades] /\ \A q \in D : shape[q] = color
  BY <1>1, BarType
<1>3. e = Paint(d, shape)
  BY DEF color
<1> HIDE DEF D, shape
<1>4. /\ e \in Drawings /\ e.cx = d.cx /\ e.cy = d.cy /\ d.cx + W <= Width /\ Fine(d)
      /\ d.cx \in Nat /\ d.cy \in Nat /\ Len(s) \in Nat
      /\ \A x \in XRange, y \in YRange :
           e.back[At(x, y)] = IF <<x - d.cx, y - d.cy>> \in D
                              THEN shape[<<x - d.cx, y - d.cy>>] ELSE d.back[At(x, y)]
      /\ \A j \in 1 .. Len(s), q \in Columns \X Rows :
           e.back[At(W * (j - 1) + q[1], d.cy + q[2])] = Glyph(s[j])[q]
  <2>1. CellPainted(d, e, s, D, shape)
    BY <1>2, <1>3, PaintPic
  <2> QED BY <2>1 DEF CellPainted
<1>5. ASSUME NEW x \in XRange, NEW y \in YRange
      PROVE  /\ e.back[At(x, y)] = White <=> on /\ <<x - e.cx, y - e.cy>> \in Columns \X BarRows
             /\ y >= e.cy + H \/ (y >= e.cy /\ x >= e.cx) => e.back[At(x, y)] \in {Blank, White}
  <2> DEFINE p == At(x, y)
             q == <<x - d.cx, y - d.cy>>
  <2>1. e.back[p] = IF q \in D THEN color ELSE d.back[p]
    BY <1>2, <1>4
  <2>2. /\ d.back[p] = White <=> b /\ q \in D
        /\ y >= d.cy + H \/ (y >= d.cy /\ x >= d.cx) => d.back[p] \in {Blank, White}
    BY DEF Pic, D
  <2> HIDE DEF p, q
  <2>3. e.back[p] = White <=> on /\ q \in D
    BY <1>1, <2>1, <2>2
  <2>4. y >= e.cy + H \/ (y >= e.cy /\ x >= e.cx) => e.back[p] \in {Blank, White}
    BY <1>1, <1>4, <2>1, <2>2
  <2> QED BY <1>4, <2>3, <2>4 DEF p, q, D
<1>6. s \in Seq(Symbols) /\ e.cx = W * Len(s) /\ e.cx <= Width
  BY <1>4 DEF Pic
<1> QED BY <1>4, <1>5, <1>6 DEF Pic

\* A character and the cursor behind it.
LEMMA CharPic ==
  ASSUME NEW d \in Drawings, NEW s, Pic(d, s, FALSE), NEW ch \in Clean \ {"nl"},
         NEW e, e = WriteChar(d, ch), Fine(e)
  PROVE  Pic(e, Append(s, ch), FALSE) /\ Fine(d)
<1> DEFINE c == Paint(d, Glyph(ch))
           D == Columns \X Rows
           shape == Glyph(ch)
           t == Append(s, ch)
           n == Len(s)
<1>1. ch \in Symbols /\ ch \notin {"nl", "bs"}
  BY DEF Clean
<1>2. shape \in [D -> Shades] /\ D \in SUBSET (Columns \X Rows)
  BY <1>1, GlyphType
<1>3. c \in Drawings
  BY <1>2, PaintKeeps
<1>4. e = [c EXCEPT !.cx = c.cx + W]
  BY <1>1 DEF WriteChar
<1> HIDE DEF c
<1>5. e.cx = c.cx + W /\ e.cy = c.cy /\ e.back = c.back /\ e.wrapped = c.wrapped
  BY <1>3, <1>4 DEF Drawings
<1>6. Fine(c)
  BY <1>5 DEF Fine
<1>7. c = Paint(d, shape)
  BY DEF c
<1> HIDE DEF D, shape
<1>8. /\ c.cx = d.cx /\ c.cy = d.cy /\ d.cx + W <= Width /\ Fine(d)
      /\ d.cx \in Nat /\ d.cy \in Nat /\ n \in Nat
      /\ \A x \in XRange, y \in YRange :
           c.back[At(x, y)] = IF <<x - d.cx, y - d.cy>> \in D
                              THEN shape[<<x - d.cx, y - d.cy>>] ELSE d.back[At(x, y)]
      /\ \A j \in 1 .. n, q \in Columns \X Rows :
           c.back[At(W * (j - 1) + q[1], d.cy + q[2])] = Glyph(s[j])[q]
  <2>1. CellPainted(d, c, s, D, shape)
    BY <1>2, <1>6, <1>7, PaintPic DEF D
  <2> QED BY <2>1 DEF CellPainted, n
<1>9. s \in Seq(Symbols) /\ d.cx = W * n
  BY DEF Pic
<1>10. t \in Seq(Symbols) /\ Len(t) = n + 1 /\ t[n + 1] = ch /\ \A j \in 1 .. n : t[j] = s[j]
  BY <1>1, <1>9, AppendProperties
<1>11. e.cx = W * Len(t) /\ e.cx <= Width
  <2>1. W * (n + 1) = W * n + W
    BY <1>8, Sizes
  <2> QED BY <1>5, <1>8, <1>9, <1>10, <2>1
<1>12. ASSUME NEW j \in 1 .. (n + 1), NEW q \in Columns \X Rows
       PROVE  e.back[At(W * (j - 1) + q[1], e.cy + q[2])] = Glyph(t[j])[q]
  <2>1. CASE j \in 1 .. n
    BY <1>5, <1>8, <1>10, <2>1
  <2>2. CASE j = n + 1
    <3> DEFINE x == d.cx + q[1]
               y == d.cy + q[2]
    <3>1. q[1] \in 0 .. (W - 1) /\ q[2] \in 0 .. (H - 1) /\ q = <<q[1], q[2]>>
      BY DEF Columns, Rows
    <3>2. x \in XRange /\ y \in YRange /\ <<x - d.cx, y - d.cy>> = q
      <4>1. x \in XRange /\ y \in YRange
        <5>1. d.cx \in Nat /\ d.cx + W <= Width /\ d.cy \in Nat /\ d.cy + H <= Height
          BY <1>8 DEF Fine
        <5> DEFINE u == q[1]
                   v == q[2]
        <5>2. u \in Int /\ 0 <= u /\ u <= W - 1 /\ v \in Int /\ 0 <= v /\ v <= H - 1
          BY <3>1, Sizes
        <5> HIDE DEF u, v
        <5> DEFINE a == d.cx
                   z == d.cy
        <5>3. a \in Nat /\ a + W <= Width /\ z \in Nat /\ z + H <= Height
          BY <5>1
        <5> HIDE DEF a, z
        <5>4. a + u \in 0 .. (Width - 1)
          BY <5>2, <5>3, Sizes
        <5>5. z + v \in 0 .. (Height - 1)
          BY <5>2, <5>3, Sizes
        <5> QED BY <5>4, <5>5 DEF XRange, YRange, u, v, a, z
      <4>2. x - d.cx = q[1] /\ y - d.cy = q[2]
        BY <1>8, <3>1
      <4> QED BY <3>1, <4>1, <4>2
    <3>3. c.back[At(x, y)] = shape[q]
      BY <1>8, <3>2 DEF D
    <3>4. W * (j - 1) + q[1] = x
      <4>1. j - 1 = n
        BY <1>8, <2>2
      <4> QED BY <1>9, <4>1
    <3> QED BY <1>5, <1>8, <1>10, <2>2, <3>3, <3>4 DEF shape
  <2> QED BY <1>8, <2>1, <2>2
<1>13. ASSUME NEW x \in XRange, NEW y \in YRange
       PROVE  /\ e.back[At(x, y)] # White
              /\ y >= e.cy + H \/ (y >= e.cy /\ x >= e.cx) => e.back[At(x, y)] \in {Blank, White}
  <2> DEFINE p == At(x, y)
             q == <<x - d.cx, y - d.cy>>
  <2>1. e.back[p] = IF q \in D THEN shape[q] ELSE d.back[p]
    BY <1>5, <1>8
  <2>2. /\ d.back[p] # White
        /\ y >= d.cy + H \/ (y >= d.cy /\ x >= d.cx) => d.back[p] \in {Blank, White}
    BY DEF Pic
  <2>3. q \in D => shape[q] # White
    BY <1>1, GlyphIsNotWhite DEF D, shape
  <2>4. q \in D => y < d.cy + H /\ x < d.cx + W
    <3>1. x \in Int /\ y \in Int
      BY DEF XRange, YRange
    <3> SUFFICES ASSUME q \in D PROVE y < d.cy + H /\ x < d.cx + W
      OBVIOUS
    <3>2. x - d.cx \in 0 .. (W - 1) /\ y - d.cy \in 0 .. (H - 1)
      BY DEF D, Columns, Rows
    <3>3. d.cx \in Int /\ d.cy \in Int
      BY <1>8
    <3> HIDE DEF q
    <3> QED BY <3>1, <3>2, <3>3, Sizes
  <2>5. x \in Int /\ y \in Int /\ W > 0 /\ W \in Int
    BY Sizes DEF XRange, YRange
  <2> HIDE DEF p, q
  <2>6. e.back[p] # White
    BY <2>1, <2>2, <2>3
  <2>7. y >= e.cy + H \/ (y >= e.cy /\ x >= e.cx) => e.back[p] \in {Blank, White}
    <3> SUFFICES ASSUME y >= d.cy + H \/ (y >= d.cy /\ x >= d.cx + W)
                 PROVE  e.back[p] \in {Blank, White}
      BY <1>5, <1>8
    <3>1. q \notin D
      BY <1>8, <2>4, <2>5, Sizes
    <3>2. y >= d.cy + H \/ (y >= d.cy /\ x >= d.cx)
      BY <1>8, <2>5
    <3> QED BY <2>1, <2>2, <3>1, <3>2
  <2> QED BY <2>6, <2>7 DEF p
<1> HIDE DEF t, n
<1>14. Pic(e, t, FALSE)
  BY <1>10, <1>11, <1>12, <1>13 DEF Pic
<1> QED BY <1>8, <1>14 DEF t

LEMMA FineBefore ==
  ASSUME NEW a \in Drawings, NEW b \in Drawings, Reach(a, b), Fine(b)
  PROVE  Fine(a)
<1>1. a.cy \in Int /\ b.cy \in Int /\ b.cy >= a.cy /\ b.cy + H <= Height
  BY DEF Drawings, Reach, Fine
<1>2. ~a.wrapped
  BY DEF Reach, Fine
<1> QED BY <1>1, <1>2, Sizes DEF Fine

\* A line break.
LEMMA BreakPic ==
  ASSUME NEW d \in Drawings, NEW s, Pic(d, s, FALSE), NEW e, e = WriteChar(d, "nl")
  PROVE  Pic(e, <<>>, FALSE)
<1> DEFINE d1 == [d EXCEPT !.cx = 0]
<1>1. d1 \in Drawings /\ d1.cx = 0 /\ d1.cy = d.cy /\ d1.back = d.back
  BY DEF Drawings
<1>2. e = [d1 EXCEPT !.cy = d.cy + H]
  BY DEF WriteChar
<1> HIDE DEF d1
<1>3. e.cx = 0 /\ e.cy = d.cy + H /\ e.back = d.back
  BY <1>1, <1>2 DEF Drawings
<1>4. d.cy \in Nat
  BY DEF Drawings
<1> DEFINE t == <<>>
<1>5. t \in Seq(Symbols) /\ Len(t) = 0 /\ W * 0 = 0
  BY EmptySeq, Sizes
<1>6. e.cx = W * Len(t) /\ e.cx <= Width
  BY <1>3, <1>5, Sizes
<1>7. 1 .. Len(t) = {}
  BY <1>5
<1>8. ASSUME NEW x \in XRange, NEW y \in YRange
      PROVE  /\ e.back[At(x, y)] # White
             /\ y >= e.cy + H \/ (y >= e.cy /\ x >= e.cx) => e.back[At(x, y)] \in {Blank, White}
  <2> DEFINE p == At(x, y)
  <2>1. d.back[p] # White /\ (y >= d.cy + H => d.back[p] \in {Blank, White})
    BY DEF Pic
  <2>2. y \in Int
    BY DEF YRange
  <2> HIDE DEF p
  <2>3. y >= e.cy + H \/ y >= e.cy => y >= d.cy + H
    BY <1>3, <1>4, <2>2, Sizes
  <2> QED BY <1>3, <2>1, <2>3 DEF p
<1> HIDE DEF t
<1>9. Pic(e, t, FALSE)
  BY <1>5, <1>6, <1>7, <1>8 DEF Pic
<1> QED BY <1>9 DEF t

Space == " "

LEMMA SpaceFacts ==
  Space \in Symbols /\ Space \notin {"nl", "bs"} /\ Glyph(Space) \in [Columns \X Rows -> Shades]
  /\ \A q \in Columns \X Rows : Glyph(Space)[q] = Blank
<1>1. Space \in Symbols /\ Space \notin {"nl", "bs"}
  BY DEF Space, Symbols
<1>2. \A q \in Columns \X Rows : Glyph(Space)[q] = Blank
  BY <1>1, GlyphIsNotWhite DEF Space
<1> QED BY <1>1, <1>2, GlyphType

\* Backspace, a space and backspace: s loses its last character.
LEMMA BackPic ==
  ASSUME NEW d \in Drawings, NEW s, Pic(d, s, FALSE), NEW n \in Nat, Len(s) = n + 1,
         NEW t \in Seq(Symbols), Len(t) = n, \A j \in 1 .. n : t[j] = s[j],
         NEW a, a = WriteChar(d, "bs"), NEW c, c = WriteChar(a, Space),
         NEW e, e = WriteChar(c, "bs"), d.cy + H <= Height
  PROVE  Pic(e, t, FALSE)
<1> DEFINE D == Columns \X Rows
           shape == Glyph(Space)
           k == W * n
           b == Paint(a, shape)
<1>1. d.cx = W * (n + 1) /\ d.cx <= Width /\ s \in Seq(Symbols)
  BY DEF Pic
<1>2. k \in Nat /\ d.cx = k + W /\ k + W <= Width /\ W * (n + 1) <= Width
  <2>1. k \in Nat
    BY Sizes, TimesIsNat
  <2>2. W * (n + 1) = W * n + W
    BY Sizes
  <2> QED BY <1>1, <2>1, <2>2
<1> HIDE DEF k
<1>3. a \in Drawings /\ a.cx = k /\ a.cy = d.cy /\ a.back = d.back
  <2>1. a = [d EXCEPT !.cx = d.cx - W]
    BY DEF WriteChar
  <2>2. d.cx - W = k /\ k \in Int
    BY <1>2, Sizes
  <2>3. a = [d EXCEPT !.cx = k]
    BY <2>1, <2>2
  <2> QED BY <2>2, <2>3 DEF Drawings
<1>4. shape \in [D -> Shades] /\ D \in SUBSET (Columns \X Rows)
  BY SpaceFacts
<1>5. b \in Drawings /\ b.cx = k /\ b.cy = d.cy
  BY <1>3, <1>4, PaintKeeps
<1>6. ASSUME NEW x \in XRange, NEW y \in YRange
      PROVE  b.back[At(x, y)] = IF <<x - k, y - d.cy>> \in D
                                THEN Blank ELSE d.back[At(x, y)]
  <2>1. a.cx >= 0 /\ a.cx + W <= Width /\ a.cy + H <= Height
    BY <1>2, <1>3
  <2>2. b.back[At(x, y)] = IF <<x - a.cx, y - a.cy>> \in D
                           THEN shape[<<x - a.cx, y - a.cy>>] ELSE a.back[At(x, y)]
    <3> HIDE DEF shape, D
    <3>1. Paint(a, shape).back[At(x, y)]
            = IF <<x - a.cx, y - a.cy>> \in D
              THEN shape[<<x - a.cx, y - a.cy>>] ELSE a.back[At(x, y)]
      BY SMTT(30), <1>3, <1>4, <2>1, PaintedAt
    <3> QED BY <3>1 DEF b
  <2>3. \A q \in D : shape[q] = Blank
    BY SpaceFacts
  <2> HIDE DEF D, shape, b
  <2> QED BY <1>3, <2>2, <2>3
<1> HIDE DEF b
<1>7. e.cx = k /\ e.cy = d.cy /\ e.back = b.back
  <2>1. c = [b EXCEPT !.cx = b.cx + W]
    BY SpaceFacts DEF WriteChar, b
  <2>2. c \in Drawings /\ c.cx = k + W /\ c.cy = d.cy /\ c.back = b.back
    <3>1. b.cx + W \in Int
      BY <1>2, <1>5, Sizes
    <3> QED BY <1>5, <2>1, <3>1 DEF Drawings
  <2>3. e = [c EXCEPT !.cx = c.cx - W]
    BY DEF WriteChar
  <2>4. c.cx - W = k
    BY <1>2, <2>2, Sizes
  <2> QED BY <2>2, <2>3, <2>4 DEF Drawings
<1>8. d.cy \in Nat
  BY DEF Drawings
<1>9. e.cx = W * Len(t) /\ e.cx <= Width
  BY <1>2, <1>7, Sizes DEF k
<1>10. ASSUME NEW j \in 1 .. n, NEW q \in D
       PROVE  e.back[At(W * (j - 1) + q[1], e.cy + q[2])] = Glyph(t[j])[q]
  <2> DEFINE x == W * (j - 1) + q[1]
             y == d.cy + q[2]
  <2>1. j \in 1 .. (n + 1) /\ j < n + 1 /\ n + 1 \in Nat /\ (n + 1) - 1 = n
    OBVIOUS
  <2>2. x \in XRange /\ y \in YRange /\ x < k
    <3> DEFINE m == n + 1
    <3>1. m \in Nat /\ j \in 1 .. m /\ j < m /\ W * m <= Width /\ m - 1 = n
      BY <1>2, <2>1
    <3> HIDE DEF m
    <3>2. x \in XRange /\ y \in YRange /\ x < W * (m - 1)
      BY <1>8, <3>1, PlaceOf
    <3> QED BY <3>1, <3>2 DEF k
  <2>3. d.back[At(x, y)] = Glyph(s[j])[q]
    BY <2>1 DEF Pic
  <2> HIDE DEF x, y
  <2>4. x \in Int /\ x - k \notin Columns
    BY <1>2, <2>2 DEF XRange, Columns
  <2>5. <<x - k, y - d.cy>> \notin D
    BY <2>4
  <2>6. b.back[At(x, y)] = d.back[At(x, y)]
    BY <1>6, <2>2, <2>5
  <2> QED BY <1>7, <2>3, <2>6 DEF x, y
<1>11. ASSUME NEW x \in XRange, NEW y \in YRange
       PROVE  /\ e.back[At(x, y)] # White
              /\ y >= e.cy + H \/ (y >= e.cy /\ x >= e.cx) => e.back[At(x, y)] \in {Blank, White}
  <2> DEFINE p == At(x, y)
             q == <<x - k, y - d.cy>>
  <2>1. e.back[p] = IF q \in D THEN Blank ELSE d.back[p]
    BY <1>6, <1>7
  <2>2. /\ d.back[p] # White
        /\ y >= d.cy + H \/ (y >= d.cy /\ x >= d.cx) => d.back[p] \in {Blank, White}
    BY DEF Pic
  <2>3. Blank # White
    BY DEF Blank, White
  <2>4. x \in Int /\ y \in Int
    BY DEF XRange, YRange
  <2>5. q \notin D /\ y >= d.cy /\ x >= k => y >= d.cy + H \/ x >= d.cx
    <3> SUFFICES ASSUME y >= d.cy, x >= k, ~ (y >= d.cy + H), ~ (x >= d.cx) PROVE q \in D
      OBVIOUS
    <3>1. x - k \in 0 .. (W - 1) /\ y - d.cy \in 0 .. (H - 1)
      BY <1>2, <1>8, <2>4, Sizes
    <3> QED BY <3>1 DEF D, Columns, Rows
  <2> HIDE DEF p, q, D
  <2>6. e.back[p] # White
    BY <2>1, <2>2, <2>3
  <2>7. y >= e.cy + H \/ (y >= e.cy /\ x >= e.cx) => e.back[p] \in {Blank, White}
    BY <1>7, <2>1, <2>2, <2>5
  <2> QED BY <2>6, <2>7 DEF p
<1>12. 1 .. Len(t) = 1 .. n
  OBVIOUS
<1> QED BY <1>9, <1>10, <1>11, <1>12 DEF Pic

-----------------------------------------------------------------------------
(* Texts. *)

\* d shows some line without a bar, as long as it is on the screen.
Neat(d) == Fine(d) => \E s : Pic(d, s, FALSE)

LEMMA CharIsNeat ==
  ASSUME NEW d \in Drawings, d.cx >= 0, Neat(d), NEW ch \in Clean
  PROVE  /\ WriteChar(d, ch) \in Drawings /\ WriteChar(d, ch).cx >= 0
         /\ Reach(d, WriteChar(d, ch)) /\ Neat(WriteChar(d, ch))
         /\ ch = "nl" /\ Fine(WriteChar(d, ch)) => Pic(WriteChar(d, ch), <<>>, FALSE)
<1> DEFINE e == WriteChar(d, ch)
<1>1. ch \in Symbols /\ ch # "bs"
  BY DEF Clean
<1>2. /\ e \in Drawings /\ Reach(d, e)
      /\ ch # "nl" => e.cx = d.cx + W
      /\ ch = "nl" => e.cx = 0
  BY <1>1, WriteCharFacts
<1> HIDE DEF e
<1>3. e.cx >= 0
  BY <1>2, Sizes DEF Drawings
<1>4. ASSUME Fine(e) PROVE /\ \E s : Pic(e, s, FALSE)
                           /\ ch = "nl" => Pic(e, <<>>, FALSE)
  <2>1. Fine(d)
    BY <1>2, <1>4, FineBefore
  <2>2. PICK s : Pic(d, s, FALSE)
    BY <2>1 DEF Neat
  <2>3. CASE ch = "nl"
    <3>1. e = WriteChar(d, "nl")
      BY <2>3 DEF e
    <3>2. Pic(e, <<>>, FALSE)
      BY <2>2, <3>1, BreakPic
    <3> QED BY <3>2
  <2>4. CASE ch # "nl"
    <3>1. ch \in Clean \ {"nl"}
      BY <2>4
    <3>2. Pic(e, Append(s, ch), FALSE)
      BY <1>4, <2>2, <3>1, CharPic DEF e
    <3> QED BY <2>4, <3>2
  <2> QED BY <2>3, <2>4
<1>5. Neat(e)
  BY <1>4 DEF Neat
<1> QED BY <1>2, <1>3, <1>4, <1>5 DEF e

LEMMA TextIsNeat ==
  ASSUME NEW d \in Drawings, d.cx >= 0, Neat(d), NEW text \in Seq(Clean),
         NEW g, Printed(d, text, g), NEW k \in 0 .. Len(text)
  PROVE  g[k] \in Drawings /\ g[k].cx >= 0 /\ Reach(d, g[k]) /\ Neat(g[k])
<1> DEFINE n == Len(text)
           Is(c) == c \in Drawings /\ c.cx >= 0 /\ Reach(d, c) /\ Neat(c)
           T == {i \in 0 .. n : Is(g[i])}
<1>1. n \in Nat /\ \A i \in 1 .. n : text[i] \in Clean
  BY LenProperties, ElementOfSeq
<1>2. g[0] = d /\ \A i \in 1 .. n : g[i] = WriteChar(g[i - 1], text[i])
  BY DEF Printed
<1>3. Is(d)
  BY ReachReflexive
<1>4. ASSUME NEW c, Is(c), NEW ch \in Clean PROVE Is(WriteChar(c, ch))
  <2>1. /\ WriteChar(c, ch) \in Drawings /\ WriteChar(c, ch).cx >= 0
        /\ Reach(c, WriteChar(c, ch)) /\ Neat(WriteChar(c, ch))
    BY <1>4, CharIsNeat
  <2>2. Reach(d, WriteChar(c, ch))
    BY <1>4, <2>1, ReachTransitive
  <2> QED BY <2>1, <2>2
<1>n. k \in 0 .. n
  OBVIOUS
<1> HIDE DEF Is, n
<1>5. 0 \in T
  BY <1>1, <1>2, <1>3
<1>6. ASSUME NEW i \in 0 .. (n - 1), i \in T PROVE i + 1 \in T
  <2>1. i + 1 \in 1 .. n /\ i + 1 \in 0 .. n /\ (i + 1) - 1 = i
    BY <1>1
  <2>2. g[i + 1] = WriteChar(g[i], text[i + 1]) /\ text[i + 1] \in Clean
    BY <1>1, <1>2, <2>1
  <2>3. Is(g[i])
    BY <1>6
  <2>4. Is(g[i + 1])
    BY <1>4, <2>2, <2>3
  <2> QED BY <2>1, <2>4
<1>7. k \in T
  <2> HIDE DEF T
  <2>1. \A i \in 0 .. n : i \in T
    BY <1>1, <1>5, <1>6, UpTo
  <2> QED BY <1>n, <2>1
<1> QED BY <1>7 DEF Is

\* The prompt behind a text that ends with a line break is a line of its own.
LEMMA PromptPic ==
  ASSUME NEW d \in Drawings, d.cx >= 0, Neat(d),
         NEW text \in Text, text # <<>>, text[Len(text)] = "nl",
         NEW e, e = Printf(d, text \o Prompt), Fine(e)
  PROVE  Pic(e, Prompt, FALSE)
<1> DEFINE all == text \o Prompt
           m == Len(text)
           S == Clean
<1>1. text \in Seq(S) /\ Prompt \in Seq(S) /\ m \in Nat /\ m # 0 /\ Len(Prompt) = 2
  BY TextTypes, LenProperties, EmptySeq DEF Text, Clean
<1>2. /\ all \in Seq(S) /\ Len(all) = m + 2
      /\ \A i \in 1 .. (m + 2) : all[i] = IF i <= m THEN text[i] ELSE Prompt[i - m]
  <2> HIDE DEF S
  <2>2. /\ all \in Seq(S) /\ Len(all) = m + Len(Prompt)
        /\ \A i \in 1 .. (m + Len(Prompt)) :
             all[i] = IF i <= m THEN text[i] ELSE Prompt[i - m]
    BY <1>1, ConcatProperties
  <2> HIDE DEF all, m
  <2> QED BY <1>1, <2>2
<1>3. text[m] = "nl" /\ e = Printf(d, all)
  OBVIOUS
<1> HIDE DEF m, all
<1>4. all[m] = "nl" /\ all[m + 1] = Prompt[1] /\ all[m + 2] = Prompt[2]
  <2>1. m \in 1 .. (m + 2) /\ m + 1 \in 1 .. (m + 2) /\ m + 2 \in 1 .. (m + 2)
        /\ (m + 1) - m = 1 /\ (m + 2) - m = 2 /\ m <= m /\ ~ (m + 1 <= m) /\ ~ (m + 2 <= m)
    BY <1>1
  <2> QED BY <1>2, <1>3, <2>1
<1>5. Prompt[1] \in Clean \ {"nl"} /\ Prompt[2] \in Clean \ {"nl"}
  <2>1. Prompt[1] \in Clean /\ Prompt[2] \in Clean
    <3>1. 1 \in 1 .. Len(Prompt) /\ 2 \in 1 .. Len(Prompt)
      BY <1>1
    <3> QED BY <1>1, <3>1, ElementOfSeq
  <2>2. Prompt[1] # "nl" /\ Prompt[2] # "nl"
    BY TextTypes
  <2> QED BY <2>1, <2>2
<1>6. PICK g : Printed(d, all, g)
  <2>1. all \in Seq(Symbols)
    <3>1. S \subseteq Symbols
      BY DEF Clean
    <3> QED BY <1>2, <3>1, SeqMonotonic
  <2> QED BY <2>1, PrintfRun
<1> DEFINE g0 == g[m - 1]
           g1 == g[m]
           g2 == g[m + 1]
           g3 == g[m + 2]
<1>7. /\ g1 = WriteChar(g0, "nl") /\ g2 = WriteChar(g1, Prompt[1])
      /\ g3 = WriteChar(g2, Prompt[2]) /\ e = g3
  <2>1. m \in 1 .. (m + 2) /\ m + 1 \in 1 .. (m + 2) /\ m + 2 \in 1 .. (m + 2)
        /\ (m + 1) - 1 = m /\ (m + 2) - 1 = m + 1
    BY <1>1
  <2>2. e = g[m + 2] /\ \A i \in 1 .. (m + 2) : g[i] = WriteChar(g[i - 1], all[i])
    BY <1>2, <1>3, <1>6 DEF Printed
  <2> QED BY <1>4, <2>1, <2>2
<1>8. g0 \in Drawings /\ g0.cx >= 0 /\ Neat(g0)
  <2> DEFINE i == m - 1
  <2>1. i \in 0 .. Len(all)
    BY <1>1, <1>2
  <2> HIDE DEF i
  <2>2. g[i] \in Drawings /\ g[i].cx >= 0 /\ Neat(g[i])
    BY <1>2, <1>6, <2>1, TextIsNeat
  <2> QED BY <2>2 DEF i
<1> HIDE DEF g0, g1, g2, g3
<1>9. "nl" \in Clean
  BY DEF Clean, Symbols
<1>10. /\ g1 \in Drawings /\ g1.cx >= 0 /\ Neat(g1)
       /\ Fine(g1) => Pic(g1, <<>>, FALSE)
  BY <1>7, <1>8, <1>9, CharIsNeat
<1>11. /\ g2 \in Drawings /\ g2.cx >= 0 /\ Neat(g2) /\ Reach(g1, g2)
  BY <1>5, <1>7, <1>10, CharIsNeat
<1>12. g3 \in Drawings /\ Reach(g2, g3)
  BY <1>5, <1>7, <1>11, CharIsNeat
<1>13. Fine(g3) /\ Fine(g2) /\ Fine(g1)
  BY <1>7, <1>10, <1>11, <1>12, FineBefore
<1> DEFINE s0 == <<>>
           s1 == Append(s0, Prompt[1])
           s2 == Append(s1, Prompt[2])
<1>14. Pic(g1, s0, FALSE)
  BY <1>10, <1>13
<1>15. s2 = Prompt
  <2>1. s0 \in Seq(Clean) /\ Len(s0) = 0
    BY EmptySeq
  <2> HIDE DEF s0
  <2>2. s1 \in Seq(Clean) /\ Len(s1) = 1 /\ s1[1] = Prompt[1]
    BY <1>5, <2>1, AppendProperties
  <2> HIDE DEF s1
  <2>3. s2 \in Seq(Clean) /\ Len(s2) = 2 /\ s2[1] = Prompt[1] /\ s2[2] = Prompt[2]
    <3>1. Prompt[2] \in Clean
      BY <1>5
    <3>2. /\ s2 \in Seq(Clean) /\ Len(s2) = Len(s1) + 1 /\ s2[Len(s1) + 1] = Prompt[2]
          /\ \A i \in 1 .. Len(s1) : s2[i] = s1[i]
      <4> DEFINE z == Prompt[2]
      <4>1. z \in Clean /\ s1 \in Seq(Clean)
        BY <2>2, <3>1
      <4> HIDE DEF z
      <4>2. /\ Append(s1, z) \in Seq(Clean) /\ Len(Append(s1, z)) = Len(s1) + 1
            /\ Append(s1, z)[Len(s1) + 1] = z
            /\ \A i \in 1 .. Len(s1) : Append(s1, z)[i] = s1[i]
        BY <4>1, AppendProperties
      <4> QED BY <4>2 DEF z
    <3>3. Len(s1) + 1 = 2 /\ 1 \in 1 .. Len(s1)
      BY <2>2
    <3> HIDE DEF s2
    <3> QED BY <2>2, <3>2, <3>3
  <2> HIDE DEF s2
  <2>4. \A i \in 1 .. 2 : s2[i] = Prompt[i]
    BY <2>3
  <2> QED BY <1>1, <2>3, <2>4, SeqEqual
<1> HIDE DEF s0
<1>16. Pic(g2, s1, FALSE)
  BY <1>5, <1>7, <1>10, <1>13, <1>14, CharPic
<1> HIDE DEF s1
<1>17. Pic(g3, s2, FALSE)
  BY <1>5, <1>7, <1>11, <1>13, <1>16, CharPic
<1> QED BY <1>7, <1>15, <1>17

-----------------------------------------------------------------------------
(* The screen shows the line. *)

Shown == Prompt \o line

\* With the bar, as long as the line is on the screen.
ShowsBar(d, s) == Fine(d) => Pic(d, s, TRUE)

LineInv ==
  /\ pc = "init" => Neat(Drawing)
  /\ pc # "init" => ShowsBar(Drawing, Shown)

LEMMA ErasePic ==
  ASSUME NEW d \in Drawings, d.cx >= 0, NEW s, ShowsBar(d, s)
  PROVE  Fine(TermCurErase(d)) => Pic(TermCurErase(d), s, FALSE)
<1> DEFINE e == TermCurErase(d)
           on == FALSE
           was == TRUE
<1> SUFFICES ASSUME Fine(e) PROVE Pic(e, s, on)
  OBVIOUS
<1>1. e = Paint(d, BarShape(IF on THEN White ELSE Blank)) /\ e = Paint(d, BarShape(Blank))
  BY DEF TermCurErase
<1> HIDE DEF e
<1>2. e \in Drawings /\ Reach(d, e)
  BY <1>1, BarFacts
<1>3. Fine(d)
  BY <1>2, FineBefore
<1>4. Pic(d, s, was) /\ was \in BOOLEAN /\ on \in BOOLEAN
  BY <1>3 DEF ShowsBar
<1> HIDE DEF on, was
<1> QED BY <1>1, <1>4, BarPic

LEMMA DrawPic ==
  ASSUME NEW d \in Drawings, d.cx >= 0, NEW s, Fine(d) => Pic(d, s, FALSE)
  PROVE  ShowsBar(TermCurDraw(d), s)
<1> DEFINE e == TermCurDraw(d)
           on == TRUE
           was == FALSE
<1> SUFFICES ASSUME Fine(e) PROVE Pic(e, s, on)
  BY DEF ShowsBar
<1>1. e = Paint(d, BarShape(IF on THEN White ELSE Blank)) /\ e = Paint(d, BarShape(White))
  BY DEF TermCurDraw
<1> HIDE DEF e
<1>2. e \in Drawings /\ Reach(d, e)
  BY <1>1, BarFacts
<1>3. Fine(d)
  BY <1>2, FineBefore
<1>4. Pic(d, s, was) /\ was \in BOOLEAN /\ on \in BOOLEAN
  BY <1>3
<1> HIDE DEF on, was
<1> QED BY <1>1, <1>4, BarPic

\* The drawing after an update.
LEMMA NewDrawing ==
  ASSUME NEW e \in Drawings, Draw(TermCurDraw(e))
  PROVE  Drawing' = TermCurDraw(e)
<1> DEFINE f == TermCurDraw(e)
<1>1. f \in Drawings
  BY BarFacts DEF TermCurDraw
<1>2. back' = f.back /\ cx' = f.cx /\ cy' = f.cy /\ outside' = f.outside /\ wrapped' = f.wrapped
  BY DEF Draw
<1> HIDE DEF f
<1>3. Drawing' = f
  BY <1>1, <1>2 DEF Drawing, Drawings
<1> QED BY <1>3 DEF f

\* A text and a prompt on a line of their own.
LEMMA PromptLine ==
  ASSUME NEW d \in Drawings, d.cx >= 0, Neat(d),
         NEW text \in Text, text # <<>>, text[Len(text)] = "nl",
         Draw(TermCurDraw(Printf(d, text \o Prompt))), line' = <<>>, pc' # "init"
  PROVE  LineInv'
<1> DEFINE e == Printf(d, text \o Prompt)
<1>1. e \in Drawings /\ e.cx >= W * 2
  BY PromptFacts
<1>2. Fine(e) => Pic(e, Prompt, FALSE)
  BY PromptPic
<1>3. Drawing' = TermCurDraw(e)
  BY <1>1, NewDrawing
<1> HIDE DEF e
<1>4. e.cx >= 0
  BY <1>1, Sizes DEF Drawings
<1>5. ShowsBar(Drawing', Prompt)
  BY <1>1, <1>2, <1>3, <1>4, DrawPic
<1>6. Shown' = Prompt
  <2>1. Prompt \in Seq(Symbols \ {"bs"})
    BY TextTypes DEF Text
  <2>2. Prompt \o <<>> = Prompt
    BY <2>1, ConcatEmptySeq
  <2> QED BY <2>2 DEF Shown, Prompt
<1> QED BY <1>5, <1>6 DEF LineInv

\* u and t end with the same element.
EndsAs(u, t) == u # <<>> /\ u[Len(u)] = t[Len(t)]

LEMMA ConcatEnds ==
  ASSUME NEW S, NEW s \in Seq(S), NEW t \in Seq(S), t # <<>>
  PROVE  s \o t \in Seq(S) /\ EndsAs(s \o t, t)
<1> DEFINE u == s \o t
           k == Len(s)
           l == Len(t)
<1>1. k \in Nat /\ l \in Nat /\ l # 0
  BY LenProperties, EmptySeq
<1>2. u \in Seq(S) /\ Len(u) = k + l
  BY ConcatProperties
<1>3. \A i \in 1 .. (k + l) : u[i] = IF i <= k THEN s[i] ELSE t[i - k]
  BY ConcatProperties
<1> HIDE DEF u, k, l
<1>4. k + l \in 1 .. (k + l) /\ ~ (k + l <= k) /\ (k + l) - k = l /\ k + l # 0
  BY <1>1
<1>5. u[k + l] = t[l]
  BY <1>3, <1>4
<1>6. u # <<>>
  BY <1>2, <1>4, EmptySeq
<1> QED BY <1>2, <1>5, <1>6 DEF l, u, EndsAs

\* What Enter prints before the prompt ends with a line break.
LEMMA AnswerEnds ==
  ASSUME NEW cmd \in Seq(Plain), NEW text, text = <<"nl">> \o Answer(cmd)
  PROVE  text # <<>> /\ text[Len(text)] = "nl"
<1> DEFINE S == Symbols \ {"bs"}
           a == Answer(cmd)
           n == Len(a)
           nl == <<"nl">>
<1>1. "nl" \in S /\ "?" \in S /\ "." \in S
  BY DEF Symbols
<1>2. cmd \in Seq(S) /\ FetchText \in Seq(S)
  BY TextTypes DEF Text
<1>3. FetchText # <<>> /\ FetchText[Len(FetchText)] = "nl"
  BY TextsAssumption
<1> HIDE DEF S
<1>4. nl \in Seq(S) /\ <<"?">> \in Seq(S) /\ <<".", "nl">> \in Seq(S)
  BY <1>1, ShortTexts
<1>5. a \in Seq(S) /\ a # <<>> /\ a[n] = "nl"
  <2>1. CASE a = FetchText
    BY <1>2, <1>3, <2>1
  <2>2. CASE a = NotFound(cmd)
    <3> DEFINE b == <<"?">> \o cmd
               c == <<".", "nl">>
    <3>1. b \in Seq(S)
      BY <1>2, <1>4, ConcatProperties
    <3>2. Len(c) = 2 /\ c[Len(c)] = "nl" /\ c \in Seq(S) /\ c # <<>>
      BY <1>4
    <3>3. a = b \o c
      BY <2>2 DEF NotFound
    <3> HIDE DEF a, b, c, n
    <3>4. a \in Seq(S) /\ EndsAs(a, c)
      <4>1. b \o c \in Seq(S) /\ EndsAs(b \o c, c)
        BY <3>1, <3>2, ConcatEnds
      <4> QED BY <3>3, <4>1
    <3> QED BY <3>2, <3>4 DEF n, EndsAs
  <2> QED BY <2>1, <2>2 DEF Answer
<1>6. text = nl \o a
  OBVIOUS
<1> HIDE DEF a, nl
<1>7. EndsAs(text, a)
  <2>1. EndsAs(nl \o a, a)
    BY <1>4, <1>5, ConcatEnds
  <2> QED BY <1>6, <2>1
<1> QED BY <1>5, <1>7 DEF n, EndsAs

LEMMA ShownFacts ==
  ASSUME NEW l \in Seq(Plain)
  PROVE  /\ Prompt \o l \in Seq(Symbols) /\ Len(Prompt \o l) = 2 + Len(l)
         /\ \A j \in 1 .. (2 + Len(l)) :
              (Prompt \o l)[j] = IF j <= 2 THEN Prompt[j] ELSE l[j - 2]
<1> DEFINE S == Symbols
           n == Len(l)
           u == Prompt \o l
<1>1. Prompt \in Seq(S) /\ l \in Seq(S) /\ Len(Prompt) = 2
  <2>1. Prompt \in Text /\ Seq(Plain) \subseteq Text /\ Len(Prompt) = 2
    BY TextTypes
  <2>2. Text \subseteq Seq(Symbols)
    BY SeqMonotonic DEF Text
  <2> QED BY <2>1, <2>2
<1> HIDE DEF S
<1>2. /\ u \in Seq(S) /\ Len(u) = Len(Prompt) + n
      /\ \A j \in 1 .. (Len(Prompt) + n) : u[j] = IF j <= Len(Prompt) THEN Prompt[j] ELSE l[j - Len(Prompt)]
  BY <1>1, ConcatProperties
<1> HIDE DEF u, n
<1>3. /\ u \in Seq(S) /\ Len(u) = 2 + n
      /\ \A j \in 1 .. (2 + n) : u[j] = IF j <= 2 THEN Prompt[j] ELSE l[j - 2]
  BY <1>1, <1>2
<1> QED BY <1>3 DEF u, n, S

LEMMA LineStep ==
  ASSUME BufferInv, DInv, LineInv, [Next]_vars
  PROVE  LineInv'
<1>0. /\ Drawing \in Drawings /\ Drawing.cx >= 0
      /\ line \in Seq(Plain) /\ bufferIdx = Len(line) /\ Len(line) \in Nat
  BY LenProperties DEF DInv, Drawing, BufferInv, BufferIsTheLine
<1> DEFINE c == TermCurErase(Drawing)
           s == Shown
<1>1. c \in Drawings /\ c.cx >= 0 /\ c.cy = cy
  <2>1. Drawing.cy = cy
    BY DEF Drawing
  <2> QED BY <1>0, <2>1, BarFacts DEF TermCurErase
<1>2. ASSUME pc = "term" PROVE Fine(c) => Pic(c, s, FALSE)
  <2>1. ShowsBar(Drawing, s)
    BY <1>2 DEF LineInv
  <2> QED BY <1>0, <2>1, ErasePic
<1> HIDE DEF c
<1>3. CASE /\ UNCHANGED <<back, cx, cy, outside, wrapped, line>>
           /\ pc' = pc \/ (pc # "init" /\ pc' # "init")
  <2>1. Drawing' = Drawing /\ Shown' = Shown
    BY <1>3 DEF Drawing, Shown, Prompt
  <2> QED BY <1>3, <2>1 DEF LineInv
<1>4. UNCHANGED vars \/ Idle \/ FbUpdate \/ (\E k \in Keys : LeaveBuffer(k)) => LineInv'
  BY <1>3 DEF vars, fbVars, Idle, FbUpdate, LeaveBuffer, Key
<1>5. CASE TermInit
  <2>1. /\ Draw(TermCurDraw(Printf(Drawing, Banner \o Prompt)))
        /\ pc = "init" /\ pc' # "init" /\ line' = line
    BY <1>5 DEF TermInit
  <2>2. Neat(Drawing) /\ line = <<>>
    BY <1>0, <2>1, EmptySeq DEF LineInv, DInv
  <2>3. Banner \in Text /\ Banner # <<>> /\ Banner[Len(Banner)] = "nl"
    BY TextTypes, TextsAssumption
  <2> QED BY <1>0, <2>1, <2>2, <2>3, PromptLine
<1>6. CASE Enter
  <2> DEFINE text == <<"nl">> \o Answer(CString)
  <2>1. Draw(TermCurDraw(Printf(c, text \o Prompt))) /\ pc = "term" /\ pc' # "init" /\ line' = <<>>
    BY <1>6 DEF Enter, Key, c
  <2>2. CString \in Seq(Plain)
    BY <1>0, <1>6, CStringIsLine DEF Enter
  <2>3. text \in Text /\ text # <<>> /\ text[Len(text)] = "nl"
    BY <2>2, AnswerType, AnswerEnds
  <2>4. Neat(c)
    BY <1>2, <2>1 DEF Neat
  <2> HIDE DEF text
  <2> QED BY <1>1, <2>1, <2>3, <2>4, PromptLine
<1>7. CASE Backspace /\ ~ (bufferIdx > 0)
  <2>1. Draw(TermCurDraw(c)) /\ pc = "term" /\ pc' # "init" /\ line' = line
    BY <1>7 DEF Backspace, Key, c
  <2>2. Drawing' = TermCurDraw(c)
    BY <1>1, <2>1, NewDrawing
  <2>3. ShowsBar(Drawing', s)
    BY <1>1, <1>2, <2>1, <2>2, DrawPic
  <2>4. Shown' = s
    BY <2>1 DEF Shown, Prompt
  <2> QED BY <2>1, <2>3, <2>4 DEF LineInv
<1>8. CASE Backspace /\ bufferIdx > 0
  <2> DEFINE text == <<"bs", Space, "bs">>
             e == Printf(c, text)
             n == Len(line) + 1
             l == SubSeq(line, 1, Len(line) - 1)
             t == Prompt \o l
  <2>1. Draw(TermCurDraw(e)) /\ pc = "term" /\ pc' # "init" /\ line' = l
    BY <1>8 DEF Backspace, Key, c, Space
  <2>2. text \in Seq(Symbols) /\ Len(text) = 3 /\ text[1] = "bs" /\ text[2] = Space /\ text[3] = "bs"
    <3>1. "bs" \in Symbols /\ Space \in Symbols
      BY SpaceFacts DEF Symbols
    <3> QED BY <3>1, ShortTexts
  <2> HIDE DEF text
  <2>3. PICK g : Printed(c, text, g)
    BY <1>1, <2>2, PrintfRun
  <2>4. /\ g[1] = WriteChar(c, "bs") /\ g[2] = WriteChar(g[1], Space)
        /\ g[3] = WriteChar(g[2], "bs") /\ e = g[3] /\ e \in Drawings
        /\ g[1] \in Drawings /\ g[2] \in Drawings
    <3>1. /\ g \in [0 .. 3 -> Drawings] /\ g[0] = c /\ e = g[3]
          /\ \A k \in 1 .. 3 : g[k] = WriteChar(g[k - 1], text[k])
      BY <2>2, <2>3 DEF Printed
    <3>2. g[1] = WriteChar(g[1 - 1], text[1]) /\ g[2] = WriteChar(g[2 - 1], text[2])
          /\ g[3] = WriteChar(g[3 - 1], text[3])
      BY <3>1
    <3>3. 1 - 1 = 0 /\ 2 - 1 = 1 /\ 3 - 1 = 2
      OBVIOUS
    <3>4. g[1] \in Drawings /\ g[2] \in Drawings /\ g[3] \in Drawings
      BY <3>1
    <3> HIDE DEF e
    <3> QED BY <2>2, <3>1, <3>2, <3>3, <3>4
  <2>5. /\ n \in Nat /\ n = Len(line) + 1 /\ n >= 2
    BY <1>0, <1>8
  <2>6. /\ l \in Seq(Plain) /\ Len(l) = n - 2 /\ \A j \in 1 .. (n - 2) : l[j] = line[j]
    <3> DEFINE m == Len(line) - 1
    <3>1. m \in Int /\ m >= 0 /\ m + 1 = Len(line) /\ m = n - 2
      BY <1>0, <1>8
    <3>2. \A i \in 1 .. m : line[i] \in Plain
      BY <1>0, <3>1, ElementOfSeq
    <3>3. /\ l \in Seq(Plain) /\ Len(l) = (IF 1 <= m THEN m - 1 + 1 ELSE 0)
          /\ \A i \in 1 .. (m - 1 + 1) : l[i] = line[1 + i - 1]
      <4> HIDE DEF m, n
      <4> QED BY <3>1, <3>2, SubSeqProperties
    <3> HIDE DEF l, m, n
    <3>4. ASSUME NEW i \in 1 .. m PROVE l[i] = line[i]
      <4>1. i \in 1 .. (m - 1 + 1) /\ 1 + i - 1 = i
        BY <3>1
      <4> QED BY <3>3, <4>1
    <3>5. Len(l) = m
      BY <3>1, <3>3
    <3> QED BY <3>1, <3>3, <3>4, <3>5
  <2> HIDE DEF n, l
  <2>7. t \in Seq(Symbols) /\ Len(t) = n /\ Len(s) = n + 1 /\ \A j \in 1 .. n : t[j] = s[j]
    <3>1. /\ t \in Seq(Symbols) /\ Len(t) = 2 + Len(l)
          /\ \A j \in 1 .. (2 + Len(l)) : t[j] = IF j <= 2 THEN Prompt[j] ELSE l[j - 2]
      BY <2>6, ShownFacts
    <3>2. /\ Len(s) = 2 + Len(line)
          /\ \A j \in 1 .. (2 + Len(line)) : s[j] = IF j <= 2 THEN Prompt[j] ELSE line[j - 2]
      BY <1>0, ShownFacts DEF Shown
    <3> HIDE DEF t, s
    <3>3. 2 + Len(l) = n /\ 2 + Len(line) = n + 1
      BY <1>0, <2>5, <2>6
    <3>4. ASSUME NEW j \in 1 .. n PROVE t[j] = s[j]
      <4>1. j \in 1 .. (n + 1) /\ (~ (j <= 2) => j - 2 \in 1 .. (n - 2))
        BY <2>5
      <4> QED BY <2>6, <3>1, <3>2, <3>3, <4>1
    <3> QED BY <3>1, <3>2, <3>3, <3>4
  <2> HIDE DEF e, t, s
  <2>8. ASSUME Fine(e) PROVE Fine(c) /\ e.cy = c.cy
    <3>1. g[1].cy = c.cy /\ g[1].wrapped = c.wrapped
      BY <1>1, <2>4 DEF WriteChar, Drawings
    <3> DEFINE shape == Glyph(Space)
               b == Paint(g[1], shape)
    <3>2. b \in Drawings /\ b.cy = g[1].cy /\ (g[1].wrapped => b.wrapped)
      <4>1. shape \in [Columns \X Rows -> Shades]
        BY SpaceFacts
      <4> HIDE DEF shape
      <4> DEFINE D == Columns \X Rows
      <4>2. D \in SUBSET (Columns \X Rows) /\ shape \in [D -> Shades]
        BY <4>1
      <4> HIDE DEF D
      <4> QED BY <2>4, <4>2, PaintKeeps
    <3>3. g[2] = [b EXCEPT !.cx = b.cx + W]
      BY <2>4, SpaceFacts DEF WriteChar
    <3> HIDE DEF b
    <3>4. g[2].cy = b.cy /\ g[2].wrapped = b.wrapped
      BY <3>2, <3>3 DEF Drawings
    <3>5. e.cy = g[2].cy /\ e.wrapped = g[2].wrapped
      BY <2>4 DEF WriteChar, Drawings
    <3> QED BY <2>8, <3>1, <3>2, <3>4, <3>5 DEF Fine
  <2>9. Fine(e) => Pic(e, t, FALSE)
    <3> SUFFICES ASSUME Fine(e) PROVE Pic(e, t, FALSE)
      OBVIOUS
    <3>1. Pic(c, s, FALSE) /\ c.cy + H <= Height
      BY <1>2, <2>1, <2>8 DEF Fine
    <3> DEFINE a == g[1]
               b == g[2]
    <3>2. a = WriteChar(c, "bs") /\ b = WriteChar(a, Space) /\ e = WriteChar(b, "bs")
      BY <2>4
    <3>3. n \in Nat /\ Len(s) = n + 1 /\ t \in Seq(Symbols) /\ Len(t) = n /\ \A j \in 1 .. n : t[j] = s[j]
      BY <2>5, <2>7
    <3> HIDE DEF a, b
    <3> QED BY <1>1, <3>1, <3>2, <3>3, BackPic
  <2>10. e.cx >= 0
    <3>1. g[1].cx = c.cx - W /\ g[2].cx = g[1].cx + W /\ e.cx = g[2].cx - W
      <4>1. "bs" \in Symbols
        BY DEF Symbols
      <4> DEFINE a == g[1]
                 b == g[2]
      <4>2. /\ a = WriteChar(c, "bs") /\ b = WriteChar(a, Space) /\ e = WriteChar(b, "bs")
            /\ a \in Drawings /\ b \in Drawings
        BY <2>4
      <4> HIDE DEF a, b
      <4>3. a.cx = c.cx - W
        BY <1>1, <4>1, <4>2, WriteCharFacts
      <4>4. b.cx = a.cx + W
        BY <4>2, SpaceFacts, WriteCharFacts
      <4>5. e.cx = b.cx - W
        BY <4>1, <4>2, WriteCharFacts
      <4> QED BY <4>3, <4>4, <4>5 DEF a, b
    <3>2. c.cx \in Int /\ c.cx >= W
      <4>1. c.cx = cx /\ cx \in Int
        BY <1>0, BarFacts DEF TermCurErase, Drawing, Drawings, c
      <4>2. cx >= W * (2 + bufferIdx) /\ bufferIdx \in Nat
        BY <1>0, <2>1 DEF DInv
      <4>3. W * (2 + bufferIdx) = W + W * (1 + bufferIdx) /\ W * (1 + bufferIdx) \in Nat
        <5>1. 1 + bufferIdx \in Nat
          BY <4>2
        <5> QED BY <4>2, <5>1, Sizes, TimesIsNat
      <4> DEFINE y == W * (2 + bufferIdx)
                 z == W * (1 + bufferIdx)
      <4>4. cx >= y /\ y = W + z /\ z \in Nat
        BY <4>2, <4>3
      <4> HIDE DEF y, z
      <4> QED BY <4>1, <4>4, Sizes
    <3> QED BY <3>1, <3>2, Sizes
  <2>11. Drawing' = TermCurDraw(e)
    BY <2>1, <2>4, NewDrawing
  <2>12. ShowsBar(Drawing', t)
    BY <2>4, <2>9, <2>10, <2>11, DrawPic
  <2>13. Shown' = t
    BY <2>1 DEF Shown, Prompt, t
  <2> QED BY <2>1, <2>12, <2>13 DEF LineInv
<1>9. ASSUME NEW k \in Keys, TypeChar(k) PROVE LineInv'
  <2> DEFINE text == <<k>>
             e == Printf(c, text)
             t == Append(s, k)
  <2>1. /\ Draw(TermCurDraw(e)) /\ pc = "term" /\ pc' # "init" /\ line' = Append(line, k)
        /\ k \in Plain
    BY <1>9 DEF TypeChar, Key, c, Plain
  <2>2. text \in Seq(Symbols) /\ Len(text) = 1 /\ text[1] = k /\ k \in Symbols /\ k \in Clean \ {"nl"}
    <3>1. k \in Symbols
      BY DEF Symbols
    <3> QED BY <2>1, <3>1, ShortTexts DEF Clean, Plain
  <2> HIDE DEF text
  <2>3. PICK g : Printed(c, text, g)
    BY <1>1, <2>2, PrintfRun
  <2>4. e = WriteChar(c, k) /\ e \in Drawings
    <3>1. /\ g \in [0 .. 1 -> Drawings] /\ g[0] = c /\ e = g[1]
          /\ \A j \in 1 .. 1 : g[j] = WriteChar(g[j - 1], text[j])
      BY <2>2, <2>3 DEF Printed
    <3>2. g[1] = WriteChar(g[1 - 1], text[1]) /\ 1 - 1 = 0 /\ g[1] \in Drawings
      BY <3>1
    <3> HIDE DEF e
    <3> QED BY <2>2, <3>1, <3>2
  <2> HIDE DEF e
  <2>5. Reach(c, e) /\ e.cx >= 0
    <3>1. e.cx = c.cx + W /\ Reach(c, e)
      BY <1>1, <2>1, <2>2, <2>4, WriteCharFacts DEF Plain
    <3> QED BY <1>1, <3>1, Sizes DEF Drawings
  <2>6. Fine(e) => Pic(e, t, FALSE)
    <3> SUFFICES ASSUME Fine(e) PROVE Pic(e, t, FALSE)
      OBVIOUS
    <3>1. Fine(c)
      BY <1>1, <2>4, <2>5, FineBefore
    <3> HIDE DEF s
    <3>2. Pic(c, s, FALSE)
      BY <1>2, <2>1, <3>1
    <3> QED BY <1>1, <2>2, <2>4, <3>2, CharPic
  <2>7. Drawing' = TermCurDraw(e)
    BY <2>1, <2>4, NewDrawing
  <2>8. ShowsBar(Drawing', t)
    <3> HIDE DEF t
    <3> QED BY <2>4, <2>5, <2>6, <2>7, DrawPic
  <2>9. Shown' = t
    <3>1. Prompt \in Seq(Symbols) /\ line \in Seq(Symbols)
      <4>1. Prompt \in Text /\ Seq(Plain) \subseteq Text
        BY TextTypes
      <4>2. Text \subseteq Seq(Symbols)
        BY SeqMonotonic DEF Text
      <4> QED BY <1>0, <4>1, <4>2
    <3>2. Prompt \o Append(line, k) = Append(Prompt \o line, k)
      <4> DEFINE p == Prompt
      <4>1. p \in Seq(Symbols)
        BY <3>1
      <4> HIDE DEF p
      <4>2. Append(line, k) = line \o <<k>>
        BY <2>2, <3>1, AppendIsConcat
      <4>3. p \o line \in Seq(Symbols)
        BY <3>1, <4>1, ConcatProperties
      <4>4. Append(p \o line, k) = (p \o line) \o <<k>>
        BY <2>2, <4>3, AppendIsConcat
      <4>5. (p \o line) \o <<k>> = p \o (line \o <<k>>)
        BY <2>2, <3>1, <4>1, ConcatAssociative DEF text
      <4> QED BY <4>2, <4>4, <4>5 DEF p
    <3> QED BY <2>1, <3>2 DEF Shown, Prompt
  <2> QED BY <2>1, <2>8, <2>9 DEF LineInv
<1> QED BY <1>4, <1>5, <1>6, <1>7, <1>8, <1>9 DEF Next, TermUpdate

\* The boot messages are a text on a blank screen.
LEMMA LineInit ==
  Init => LineInv
<1> SUFFICES ASSUME Init PROVE LineInv
  OBVIOUS
<1> DEFINE d == [back |-> [p \in Pixels |-> Blank], cx |-> 0, cy |-> 0,
                 outside |-> FALSE, wrapped |-> FALSE]
           e == Printf(d, LogText)
           n == Len(LogText)
<1>1. d \in Drawings /\ d.cx = 0 /\ d.cy = 0 /\ d.back = [p \in Pixels |-> Blank]
  BY DEF Drawings, Shades
<1>2. /\ back = e.back /\ cx = e.cx /\ cy = e.cy /\ outside = e.outside /\ wrapped = e.wrapped
      /\ pc = "init"
  BY DEF Init
<1> HIDE DEF d
<1>3. Neat(d)
  <2> DEFINE t == <<>>
  <2>1. t \in Seq(Symbols) /\ Len(t) = 0 /\ W * 0 = 0
    BY EmptySeq, Sizes
  <2>2. d.cx = W * Len(t) /\ d.cx <= Width /\ 1 .. Len(t) = {}
    BY <1>1, <2>1, Sizes
  <2>3. ASSUME NEW x \in XRange, NEW y \in YRange
        PROVE  d.back[At(x, y)] = Blank /\ Blank # White
    <3>1. At(x, y) \in Pixels
      BY AtIsPixel
    <3> QED BY <1>1, <3>1 DEF Blank, White
  <2> HIDE DEF t
  <2>4. Pic(d, t, FALSE)
    BY <2>1, <2>2, <2>3 DEF Pic
  <2> QED BY <2>4 DEF Neat
<1>4. n \in Nat /\ LogText \in Seq(Clean)
  BY TextTypes, LenProperties DEF Text, Clean
<1>5. LogText \in Seq(Symbols)
  BY <1>4, SeqMonotonic DEF Clean
<1>6. PICK g : Printed(d, LogText, g)
  BY <1>1, <1>5, PrintfRun
<1>7. e = g[n]
  BY <1>6 DEF Printed
<1> HIDE DEF e
<1>8. n \in 0 .. Len(LogText) /\ d.cx >= 0
  BY <1>1, <1>4
<1> HIDE DEF n
<1>9. e \in Drawings /\ Neat(e)
  BY <1>1, <1>3, <1>4, <1>6, <1>7, <1>8, TextIsNeat
<1>10. Drawing = e
  BY <1>2, <1>9 DEF Drawing, Drawings
<1> QED BY <1>2, <1>9, <1>10 DEF LineInv

-----------------------------------------------------------------------------
(* What the picture says of the pixels. *)

\* The place of a pixel of a cell, as ScreenShowsLine counts it.
LEMMA SpotIsAt ==
  ASSUME NEW col \in Int, NEW y \in Int, NEW q \in Columns \X Rows
  PROVE  (y + q[2]) * Width + col * W + q[1] = At(W * col + q[1], y + q[2])
<1>1. q[1] \in Int /\ q[2] \in Int
  BY Sizes DEF Columns, Rows
<1> DEFINE a == (y + q[2]) * Width
           b == col * W
           c == W * col
           u == q[1]
<1>2. a \in Int /\ b \in Int /\ b = c /\ u \in Int
  BY <1>1, Sizes
<1>3. At(W * col + q[1], y + q[2]) = a + (c + u)
  BY DEF At
<1> HIDE DEF a, b, c, u
<1>4. a + b + u = a + (c + u)
  BY <1>2
<1> QED BY <1>3, <1>4 DEF a, b, u

\* Every pixel has a place.
LEMMA PixelHasPlace ==
  ASSUME NEW p \in Pixels
  PROVE  \E x \in XRange, y \in YRange : p = At(x, y)
<1> DEFINE y == p \div Width
           x == p % Width
           n == Width * Height
<1>1. n \in Int /\ p \in 0 .. (n - 1)
  BY Sizes DEF Pixels
<1>2. p = Width * y + x /\ y \in Int /\ x \in 0 .. (Width - 1)
  BY <1>1, Sizes
<1> HIDE DEF x, y
<1>3. Width * y = y * Width /\ y * Width \in Int /\ Height * Width = n /\ (y + 1) * Width = y * Width + Width
      /\ 0 * Width = 0
  BY <1>2, Sizes
<1>4. ~ (y < 0)
  <2> SUFFICES ASSUME y < 0 PROVE FALSE
    OBVIOUS
  <2>1. y + 1 <= 0 /\ y + 1 \in Int
    BY <1>2
  <2>2. (y + 1) * Width <= 0 * Width
    BY <2>1, Sizes, TimesIsMonotone
  <2> DEFINE a == y * Width
             b == (y + 1) * Width
  <2>3. a \in Int /\ b = a + Width /\ b <= 0 /\ p = a + x
    BY <1>2, <1>3, <2>2
  <2> HIDE DEF a, b, n
  <2> QED BY <1>1, <1>2, <2>3, Sizes
<1>5. ~ (y >= Height)
  <2> SUFFICES ASSUME y >= Height PROVE FALSE
    OBVIOUS
  <2>1. Height * Width <= y * Width
    BY <1>2, Sizes, TimesIsMonotone
  <2> DEFINE a == y * Width
  <2>2. a \in Int /\ n <= a /\ p = a + x
    BY <1>2, <1>3, <2>1
  <2> HIDE DEF a, n
  <2> QED BY <1>1, <1>2, <2>2, Sizes
<1>6. x \in XRange /\ y \in YRange
  BY <1>2, <1>4, <1>5, Sizes DEF XRange, YRange
<1>7. p = At(x, y)
  BY <1>2, <1>3 DEF At
<1> QED BY <1>6, <1>7

\* The bar, at x and y, has as many pixels as it has columns and rows.
LEMMA BarSize ==
  ASSUME NEW d \in Drawings, NEW s, Pic(d, s, TRUE), Fine(d)
  PROVE  Cardinality({p \in Pixels : d.back[p] = White}) = W * Bar
<1> DEFINE D == Columns \X BarRows
           T == {p \in Pixels : d.back[p] = White}
           f == [q \in D |-> At(d.cx + q[1], d.cy + q[2])]
<1>1. d.cx \in Nat /\ d.cx + W <= Width /\ d.cy \in Nat /\ d.cy + H <= Height
  <2>1. s \in Seq(Symbols) /\ d.cx = W * Len(s) /\ d.cx + W <= Width
    BY DEF Pic
  <2>2. W * Len(s) \in Nat
    BY <2>1, LenProperties, Sizes, TimesIsNat
  <2> QED BY <2>1, <2>2 DEF Drawings, Fine
<1>2. \A x \in XRange, y \in YRange : d.back[At(x, y)] = White <=> <<x - d.cx, y - d.cy>> \in D
  BY DEF Pic
<1>3. ASSUME NEW q \in D
      PROVE  /\ d.cx + q[1] \in XRange /\ d.cy + q[2] \in YRange
             /\ q = <<(d.cx + q[1]) - d.cx, (d.cy + q[2]) - d.cy>>
  <2> DEFINE u == q[1]
             v == q[2]
  <2>1. u \in 0 .. (W - 1) /\ v \in (H - Bar) .. (H - 1) /\ q = <<u, v>>
    BY DEF Columns, BarRows
  <2> HIDE DEF u, v
  <2>2. d.cx + u \in 0 .. (Width - 1) /\ (d.cx + u) - d.cx = u
    BY <1>1, <2>1, Sizes
  <2>3. d.cy + v \in 0 .. (Height - 1) /\ (d.cy + v) - d.cy = v
    BY <1>1, <2>1, Sizes
  <2> QED BY <2>1, <2>2, <2>3 DEF u, v, XRange, YRange
<1>4. f \in Bijection(D, T)
  <2>1. ASSUME NEW q \in D PROVE f[q] \in T
    <3>1. At(d.cx + q[1], d.cy + q[2]) \in Pixels
      BY <1>3, AtIsPixel
    <3>2. d.back[At(d.cx + q[1], d.cy + q[2])] = White
      BY <1>2, <1>3
    <3> QED BY <3>1, <3>2
  <2>2. f \in [D -> T]
    BY <2>1
  <2>3. ASSUME NEW q \in D, NEW r \in D, f[q] = f[r] PROVE q = r
    <3> DEFINE x == d.cx + q[1]
               y == d.cy + q[2]
               u == d.cx + r[1]
               v == d.cy + r[2]
    <3>1. /\ x \in XRange /\ y \in YRange /\ u \in XRange /\ v \in YRange
          /\ q = <<x - d.cx, y - d.cy>> /\ r = <<u - d.cx, v - d.cy>>
          /\ At(x, y) = At(u, v)
      BY <1>3, <2>3
    <3> HIDE DEF x, y, u, v
    <3>2. y \in Int /\ v \in Int
      BY <3>1 DEF YRange
    <3>3. x = u /\ y = v
      BY <3>1, <3>2, AtIsOne
    <3> QED BY <3>1, <3>3
  <2>4. ASSUME NEW p \in T PROVE \E q \in D : f[q] = p
    <3>1. PICK x \in XRange, y \in YRange : p = At(x, y)
      BY PixelHasPlace
    <3> DEFINE q == <<x - d.cx, y - d.cy>>
    <3>2. q \in D
      BY <1>2, <3>1
    <3>3. d.cx + (x - d.cx) = x /\ d.cy + (y - d.cy) = y
      BY <1>1 DEF XRange, YRange
    <3>4. f[q] = At(x, y)
      BY <3>2, <3>3
    <3> QED BY <3>1, <3>2, <3>4
  <2> HIDE DEF f, D, T
  <2>5. IsInjective(f)
    BY <2>2, <2>3 DEF IsInjective
  <2>6. f \in Surjection(D, T)
    BY <2>2, <2>4 DEF Surjection
  <2> QED BY <2>2, <2>5, <2>6 DEF Bijection, Injection
<1>5. ExistsBijection(D, T)
  BY <1>4 DEF ExistsBijection
<1>6. IsFiniteSet(Columns) /\ Cardinality(Columns) = W
  <2>1. 0 \in Int /\ W - 1 \in Int /\ ~ (0 > W - 1) /\ W - 1 - 0 + 1 = W
    BY Sizes
  <2> QED BY <2>1, FS_Interval DEF Columns
<1>7. IsFiniteSet(BarRows) /\ Cardinality(BarRows) = Bar
  <2>1. H - Bar \in Int /\ H - 1 \in Int /\ ~ (H - Bar > H - 1) /\ (H - 1) - (H - Bar) + 1 = Bar
    BY Sizes
  <2> QED BY <2>1, FS_Interval DEF BarRows
<1>8. IsFiniteSet(D) /\ Cardinality(D) = W * Bar
  BY <1>6, <1>7, FS_Product
<1> HIDE DEF D, T
<1>9. Cardinality(T) = W * Bar
  BY <1>5, <1>8, FS_Bijection
<1> QED BY <1>9 DEF T

\* The cells behind the line are empty, but for the bar in the first.
LEMMA CellsBehind ==
  ASSUME NEW d \in Drawings, NEW s, Pic(d, s, TRUE), Fine(d),
         NEW col \in Len(s) .. (Width \div W - 1), NEW q \in Columns \X Rows
  PROVE  d.back[At(W * col + q[1], d.cy + q[2])] = IF col = Len(s) THEN CursorCell[q] ELSE Blank
<1> DEFINE n == Len(s)
           m == Width \div W
           x == W * col + q[1]
           y == d.cy + q[2]
           a == W * col
           b == W * n
<1>1. n \in Nat /\ s \in Seq(Symbols) /\ d.cx = b /\ d.cy \in Nat /\ d.cy + H <= Height
  <2>1. s \in Seq(Symbols) /\ d.cx = W * n
    BY DEF Pic
  <2> QED BY <2>1, LenProperties DEF Drawings, Fine
<1>2. m \in Int /\ m * W <= Width /\ m * W \in Int
  <2> DEFINE r == Width % W
  <2>1. Width = W * m + r /\ m \in Int /\ r \in 0 .. (W - 1)
    BY Sizes
  <2> HIDE DEF r, m
  <2>2. W * m = m * W /\ m * W \in Int
    BY <2>1, Sizes
  <2> DEFINE e == m * W
             k == W * m
  <2>k. Width = k + r /\ k = e /\ e \in Int
    BY <2>1, <2>2
  <2> HIDE DEF e, k
  <2>3. e \in Int /\ Width = e + r /\ r \in 0 .. (W - 1)
    BY <2>1, <2>k
  <2>4. e <= Width
    BY <2>3, Sizes
  <2> QED BY <2>1, <2>3, <2>4 DEF e
<1>3. col \in Int /\ col >= n /\ col <= m - 1
  BY <1>1, <1>2
<1> HIDE DEF m, n
<1>4. a \in Nat /\ b \in Nat /\ a + W <= Width /\ a >= b /\ (col # n => a >= b + W)
  <2>1. a \in Nat /\ b \in Nat /\ col \in Nat
    BY <1>1, <1>3, Sizes, TimesIsNat
  <2>2. a + W <= Width
    <3>1. col + 1 <= m /\ col + 1 \in Int
      BY <1>2, <1>3
    <3>2. (col + 1) * W <= m * W
      BY <1>2, <3>1, Sizes, TimesIsMonotone
    <3>3. (col + 1) * W = a + W
      BY <1>3, Sizes
    <3> DEFINE u == m * W
               v == (col + 1) * W
    <3>4. v <= u /\ v = a + W /\ u <= Width /\ u \in Int
      BY <1>2, <3>2, <3>3
    <3> HIDE DEF u, v, a
    <3> QED BY <2>1, <3>4, Sizes
  <2>3. a >= b
    <3>1. n * W <= col * W /\ n * W = b /\ col * W = a
      BY <1>1, <1>3, Sizes, TimesIsMonotone
    <3> QED BY <3>1
  <2>4. ASSUME col # n PROVE a >= b + W
    <3>1. n + 1 <= col /\ n + 1 \in Int
      BY <1>1, <1>3, <2>4
    <3>2. (n + 1) * W <= col * W /\ (n + 1) * W = b + W /\ col * W = a
      BY <1>1, <1>3, <3>1, Sizes, TimesIsMonotone
    <3> QED BY <3>2
  <2> QED BY <2>1, <2>2, <2>3, <2>4
<1> DEFINE u == q[1]
           v == q[2]
<1>5. u \in 0 .. (W - 1) /\ v \in 0 .. (H - 1) /\ q = <<u, v>> /\ x = a + u /\ y = d.cy + v
  BY DEF Columns, Rows
<1> HIDE DEF a, b, u, v, x, y
<1>6. x \in XRange /\ y \in YRange
  BY SMTT(30), <1>1, <1>4, <1>5, Sizes DEF XRange, YRange
<1>7. d.back[At(x, y)] \in {Blank, White}
  <2>1. y >= d.cy /\ x >= d.cx
    BY <1>1, <1>4, <1>5
  <2> QED BY <1>6, <2>1 DEF Pic
<1>8. d.back[At(x, y)] = White <=> <<x - d.cx, y - d.cy>> \in Columns \X BarRows
  BY <1>6 DEF Pic
<1>9. CASE col = n
  <2>1. x - d.cx = u /\ y - d.cy = v
    <3>1. a = b
      BY <1>9 DEF a, b
    <3> QED BY <1>1, <1>4, <1>5, <3>1
  <2>2. <<x - d.cx, y - d.cy>> \in Columns \X BarRows <=> v >= H - Bar
    BY <1>5, <2>1, Sizes DEF Columns, BarRows
  <2>3. CursorCell[q] = IF v >= H - Bar THEN White ELSE Blank
    BY DEF CursorCell, v
  <2> QED BY <1>7, <1>8, <1>9, <2>2, <2>3 DEF x, y, n
<1>10. CASE col # n
  <2>1. x - d.cx \notin Columns
    BY <1>1, <1>4, <1>5, <1>10, Sizes DEF Columns
  <2> QED BY <1>7, <1>8, <1>10, <2>1 DEF x, y, n
<1> QED BY <1>9, <1>10

LEMMA LineIsShown ==
  ASSUME BufferInv, DInv, LineInv
  PROVE  ScreenShowsLine
<1> DEFINE typed == [j \in 1 .. bufferIdx |-> buffer[j - 1]]
           s == Prompt \o typed
           n == Len(s)
           d == Drawing
<1> SUFFICES ASSUME pc = "fb", OnScreen, ~wrapped
             PROVE  /\ cx = W * n
                    /\ \A j \in DOMAIN s : Shows(j - 1, cy, Glyph(s[j]))
                    /\ Shows(n, cy, CursorCell)
                    /\ \A col \in (n + 1) .. (Width \div W - 1) : Shows(col, cy, Glyph(" "))
                    /\ Cardinality({p \in Pixels : back[p] = White}) = W * Bar
  BY DEF ScreenShowsLine
<1>1. typed = line /\ line \in Seq(Plain)
  <2>1. /\ line \in Seq(Plain) /\ bufferIdx = Len(line) /\ bufferIdx \in 0 .. Size
        /\ DOMAIN line = 1 .. Len(line) /\ DOMAIN buffer = 0 .. (Size - 1)
        /\ \A j \in DOMAIN buffer : buffer[j] = IF j < Len(line) THEN line[j + 1] ELSE Nul
    BY LenProperties DEF BufferInv, BufferIsTheLine
  <2>2. ASSUME NEW j \in 1 .. bufferIdx PROVE buffer[j - 1] = line[j]
    <3>1. j - 1 \in 0 .. (Size - 1) /\ j - 1 < Len(line) /\ (j - 1) + 1 = j
      BY <2>1, Sizes
    <3> QED BY <2>1, <3>1
  <2>3. line = [j \in 1 .. bufferIdx |-> line[j]]
    BY <2>1
  <2> QED BY <2>1, <2>2, <2>3
<1>2. d \in Drawings /\ d.cx = cx /\ d.cy = cy /\ d.back = back /\ d.wrapped = wrapped
  BY DEF DInv, Drawing
<1>3. Fine(d)
  BY <1>2 DEF Fine, OnScreen
<1>4. s = Shown
  BY <1>1 DEF Shown
<1> HIDE DEF typed, s
<1>5. Pic(d, s, TRUE)
  BY <1>3, <1>4 DEF LineInv, ShowsBar
<1> HIDE DEF d
<1>6. s \in Seq(Symbols) /\ cx = W * n /\ n \in Nat /\ DOMAIN s = 1 .. n /\ W * n + W <= Width
  <2>1. s \in Seq(Symbols) /\ cx = W * n /\ cx + W <= Width
    BY <1>2, <1>5 DEF Pic
  <2> QED BY <2>1, LenProperties
<1>7. cy \in Int
  BY <1>2 DEF Drawings
<1>8. ASSUME NEW j \in DOMAIN s PROVE Shows(j - 1, cy, Glyph(s[j]))
  <2> SUFFICES ASSUME NEW q \in Columns \X Rows
               PROVE  back[(cy + q[2]) * Width + (j - 1) * W + q[1]] = Glyph(s[j])[q]
    BY DEF Shows, Glyph
  <2>1. j \in 1 .. n /\ j - 1 \in Int
    BY <1>6
  <2>2. back[At(W * (j - 1) + q[1], cy + q[2])] = Glyph(s[j])[q]
    BY <1>2, <1>5, <2>1 DEF Pic
  <2>3. (cy + q[2]) * Width + (j - 1) * W + q[1] = At(W * (j - 1) + q[1], cy + q[2])
    BY <1>7, <2>1, SpotIsAt
  <2> QED BY <2>2, <2>3
<1>9. \A col \in n .. (Width \div W - 1), q \in Columns \X Rows :
        back[(cy + q[2]) * Width + col * W + q[1]] = IF col = n THEN CursorCell[q] ELSE Blank
  <2> TAKE col \in n .. (Width \div W - 1), q \in Columns \X Rows
  <2>1. d.back[At(W * col + q[1], d.cy + q[2])] = IF col = n THEN CursorCell[q] ELSE Blank
    BY ZenonT(60), <1>2, <1>3, <1>5, CellsBehind
  <2>2. col \in Int
    BY <1>6, Sizes
  <2>3. (cy + q[2]) * Width + col * W + q[1] = At(W * col + q[1], cy + q[2])
    BY <1>7, <2>2, SpotIsAt
  <2> QED BY <1>2, <2>1, <2>3
<1>10. n \in n .. (Width \div W - 1) /\ Width \div W \in Int
  <2> DEFINE m == Width \div W
             r == Width % W
             a == W * m
             b == W * n
  <2>1. Width = a + r /\ m \in Int /\ r \in 0 .. (W - 1)
    BY Sizes
  <2> HIDE DEF m, r
  <2>2. ~ (m <= n)
    <3> SUFFICES ASSUME m <= n PROVE FALSE
      OBVIOUS
    <3>1. m * W <= n * W /\ m * W = a /\ n * W = b /\ b \in Int /\ a \in Int
      BY <1>6, <2>1, Sizes, TimesIsMonotone
    <3>2. b + W <= Width
      BY <1>6
    <3> HIDE DEF a, b
    <3> QED BY <2>1, <3>1, <3>2, Sizes
  <2>3. n \in n .. (m - 1) /\ m \in Int
    BY <1>6, <2>1, <2>2
  <2> QED BY <2>3 DEF m
<1>11. Shows(n, cy, CursorCell)
  <2>1. DOMAIN CursorCell = Columns \X Rows
    BY DEF CursorCell
  <2> HIDE DEF n
  <2>2. \A q \in Columns \X Rows : back[(cy + q[2]) * Width + n * W + q[1]] = CursorCell[q]
    BY <1>9, <1>10
  <2> QED BY <2>1, <2>2 DEF Shows
<1>12. ASSUME NEW col \in (n + 1) .. (Width \div W - 1) PROVE Shows(col, cy, Glyph(" "))
  <2>1. col \in n .. (Width \div W - 1) /\ col # n
    <3> DEFINE m == Width \div W
    <3>1. m \in Int /\ n \in Int /\ col \in (n + 1) .. (m - 1)
      BY <1>6, <1>10
    <3> HIDE DEF m, n
    <3>2. col \in n .. (m - 1) /\ col # n
      BY <3>1
    <3> QED BY <3>2 DEF m
  <2>2. \A q \in Columns \X Rows : back[(cy + q[2]) * Width + col * W + q[1]] = Blank
    BY <1>9, <2>1
  <2>3. DOMAIN Glyph(Space) = Columns \X Rows /\ \A q \in Columns \X Rows : Glyph(Space)[q] = Blank
    BY SpaceFacts DEF Glyph
  <2>4. Shows(col, cy, Glyph(Space))
    BY <2>2, <2>3 DEF Shows
  <2> QED BY <2>4 DEF Space
<1>13. Cardinality({p \in Pixels : back[p] = White}) = W * Bar
  <2>1. Cardinality({p \in Pixels : d.back[p] = White}) = W * Bar
    BY <1>2, <1>3, <1>5, BarSize
  <2> QED BY <1>2, <2>1
<1> QED BY <1>6, <1>8, <1>11, <1>12, <1>13

\* After every key the screen shows the prompt, the line as typed and
\* corrected, the bar behind it and nothing more: no character taken back is
\* left to see, and no bar where the cursor was.
THEOREM TheLineIsShown ==
  Spec => []ScreenShowsLine
<1>1. BufferInv /\ DInv /\ [Next]_vars => DInv'
  BY DrawStep
<1>2. BufferInv /\ DInv /\ LineInv => ScreenShowsLine
  BY LineIsShown
<1>3. BufferInv /\ DInv /\ LineInv /\ [Next]_vars => LineInv'
  BY LineStep
<1> QED BY <1>1, <1>2, <1>3, BufferInit, BufferStep, DrawInit, LineInit, PTL DEF Spec
=============================================================================
