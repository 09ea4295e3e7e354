-------------------------- MODULE Allocation_proofs --------------------------
(***************************************************************************)
(* Proofs about the two allocators: the heap on the page pool, for any     *)
(* page and header size, any sizes requested and any number of chunks; and *)
(* the blocks flanterm_fb_init takes from its static pool or its caller,   *)
(* with the layout they hold and the picture drawn from them, for any      *)
(* screens, fonts, pool size and number of terminals.                      *)
(*                                                                         *)
(* The two share no state: Heap's theorems are about Spec, FlantermInit's  *)
(* about LifeSpec.                                                         *)
(***************************************************************************)
EXTENDS Heap, FlantermInit, FoldFacts, SequenceTheorems

-----------------------------------------------------------------------------
(* Arithmetic of sizes and runs. *)

\* alignUp rounds up to a multiple of y.
LEMMA AlignUpFacts ==
  ASSUME NEW x \in Nat, NEW y \in Nat, y > 0
  PROVE  alignUp(x, y) \in Nat /\ alignUp(x, y) >= x
<1>. DEFINE a == x + (y - 1)
            q == a \div y
            r == a % y
<1>1. a \in Nat
  OBVIOUS
<1>2. q \in Nat /\ r \in 0 .. (y - 1) /\ a = y * q + r
  BY <1>1
<1>3. y * q \in Nat /\ q * y = y * q
  BY <1>2
<1>. HIDE DEF q, r
<1>4. y * q >= x
  BY <1>2, <1>3
<1>. QED  BY <1>3, <1>4 DEF alignUp, q, a

\* At least one page is requested, and as many as bytes from a page on.
LEMMA PagesForFacts ==
  ASSUME NEW bytes \in Sizes
  PROVE  /\ bytes \in Nat
         /\ PagesFor(bytes) \in Nat /\ PagesFor(bytes) >= 1
         /\ bytes >= PageSize => PagesFor(bytes) >= bytes
         /\ bytes < PageSize => PagesFor(bytes) = 1
<1>1. bytes \in Nat /\ bytes > 0 /\ PageSize \in Nat /\ PageSize > 0
  BY LayoutAssumption
<1>2. alignUp(bytes, PageSize) \in Nat /\ alignUp(bytes, PageSize) >= bytes
  BY <1>1, AlignUpFacts
<1>. QED  BY <1>1, <1>2 DEF PagesFor

\* A payload that reaches a count word is of a size in the gap.
LEMMA OverflowIsInGap ==
  ASSUME NEW bytes \in Sizes, Overflow(bytes) > PagesOffset
  PROVE  InGap(bytes)
<1>. DEFINE n == PagesFor(bytes)
<1>1. /\ bytes \in Nat /\ n \in Nat
      /\ bytes >= PageSize => n >= bytes
      /\ bytes < PageSize => n = 1
  BY PagesForFacts
<1>2. PageSize \in Nat /\ HeaderSize \in Nat /\ PagesOffset \in Nat
      /\ 0 < PagesOffset /\ PagesOffset < HeaderSize /\ HeaderSize < PageSize
  BY LayoutAssumption
<1>3. HeaderSize + bytes - PageSize * n > PagesOffset
  BY DEF Overflow
<1>. HIDE DEF n
<1>4. CASE bytes < PageSize
  <2>1. PageSize * n = PageSize
    BY <1>1, <1>2, <1>4
  <2>. QED  BY <1>1, <1>2, <1>3, <1>4, <2>1 DEF InGap
<1>5. CASE bytes >= PageSize
  <2>1. PageSize * n >= 2 * n
    <3>1. PageSize >= 2
      BY <1>2
    <3>. QED  BY <1>1, <1>2, <3>1
  <2>2. PageSize * n \in Nat
    BY <1>1, <1>2
  <2>. QED  BY <1>1, <1>2, <1>3, <1>5, <2>1, <2>2
<1>. QED  BY <1>1, <1>2, <1>4, <1>5

\* A run's least frame is its start, and it has as many frames as its length.
LEMMA RunFacts ==
  ASSUME NEW s \in Nat, NEW n \in Nat, n >= 1
  PROVE  /\ Min(Pages!Run(s, n)) = s
         /\ s \in Pages!Run(s, n)
         /\ Cardinality(Pages!Run(s, n)) = n
<1>. DEFINE R == Pages!Run(s, n)
<1>1. R = s .. (s + n - 1)
  BY DEF Pages!Run
<1>2. s \in R /\ \A y \in R : s <= y
  BY <1>1
<1>3. \A x \in R : (\A y \in R : x <= y) => x = s
  BY <1>1, <1>2
<1>4. Min(R) = s
  BY <1>2, <1>3 DEF Min
<1>5. Cardinality(R) = n
  BY <1>1, FS_Interval
<1>. QED  BY <1>2, <1>4, <1>5

-----------------------------------------------------------------------------
(* The inductive invariant. *)

TypeOK ==
  /\ pool \subseteq Frames
  /\ grant \in [Holders -> SUBSET Frames]
  /\ asker \in Holders \cup {Nobody} /\ num \in Nums
  /\ size \in Nat /\ sizeOf \in [Holders -> Nat]
  /\ chunkPages \in [Holders -> Nat]
  /\ overrun \in BOOLEAN

\* HpAlloc asks for what its size needs, for a holder without a run.
RequestIsForSize ==
  asker # Nobody =>
    size \in Sizes /\ num = PagesFor(size) /\ grant[asker] = {}

\* The run of h is as long as its size needs, and its header says so.
Sound(h) ==
  /\ sizeOf[h] \in Sizes
  /\ chunkPages[h] = PagesFor(sizeOf[h])
  /\ \E s \in Starts : grant[h] = Pages!Run(s, chunkPages[h])

Exclusive ==
  /\ \A h \in Holders : grant[h] \cap pool = {}
  /\ \A g, h \in Holders : g # h => grant[g] \cap grant[h] = {}

IInv ==
  /\ TypeOK
  /\ RequestIsForSize
  /\ ~overrun => Exclusive /\ \A h \in Live : Sound(h)

\* What a sound chunk's header and run tell HpFree.
LEMMA SoundFacts ==
  ASSUME NEW h \in Live, Sound(h)
  PROVE  /\ grant[h] = Pages!Run(First(h), chunkPages[h])
         /\ First(h) \in grant[h]
         /\ chunkPages[h] = Cardinality(grant[h])
<1>1. PICK s \in Starts : grant[h] = Pages!Run(s, chunkPages[h])
  BY DEF Sound
<1>2. chunkPages[h] \in Nat /\ chunkPages[h] >= 1
  BY PagesForFacts DEF Sound
<1>3. s \in Nat
  BY FramesAssumption
<1>. QED  BY <1>1, <1>2, <1>3, RunFacts DEF First

LEMMA InitIInv == Init => IInv
<1>. SUFFICES ASSUME Init PROVE IInv
  OBVIOUS
<1>1. TypeOK
  BY FramesAssumption DEF Init, Pages!Init, TypeOK
<1>. QED  BY <1>1, FramesAssumption
          DEF Init, Pages!Init, IInv, RequestIsForSize, Exclusive, Live

LEMMA AllocKeeps ==
  ASSUME IInv, NEW h \in Holders, NEW bytes \in Sizes, HpAlloc(h, bytes)
  PROVE  IInv'
<1>1. bytes \in Nat
  BY PagesForFacts
<1>2. TypeOK'
  BY <1>1 DEF IInv, TypeOK, HpAlloc, Pages!Ask, Nums
<1>3. RequestIsForSize'
  BY DEF IInv, RequestIsForSize, HpAlloc, Pages!Ask
<1>4. Exclusive' <=> Exclusive
  BY DEF Exclusive, HpAlloc, Pages!Ask
<1>5. \A k \in Live' : k \in Live /\ (Sound(k) => Sound(k)')
  BY DEF Live, Sound, HpAlloc, Pages!Ask
<1>. QED  BY <1>2, <1>3, <1>4, <1>5 DEF IInv, HpAlloc

LEMMA AllocReturnKeeps ==
  ASSUME IInv, HpAllocReturn
  PROVE  IInv'
<1>1. PICK start \in Starts :
        /\ Pages!Run(start, num) \subseteq pool
        /\ pool' = pool \ Pages!Run(start, num)
        /\ grant' = [grant EXCEPT ![asker] = Pages!Run(start, num)]
  BY DEF HpAllocReturn, Pages!Grant
<1>2. /\ asker \in Holders /\ size \in Sizes /\ num = PagesFor(size)
      /\ grant[asker] = {} /\ asker' = Nobody /\ overrun' = overrun
      /\ num' = num /\ size' = size
      /\ sizeOf' = [sizeOf EXCEPT ![asker] = size]
  BY DEF IInv, TypeOK, RequestIsForSize, HpAllocReturn, Pages!Grant
<1>3. size \in Nat /\ num \in Nat /\ num >= 1 /\ start \in Nat
  BY <1>2, PagesForFacts, FramesAssumption
<1>4. grant'[asker] = Pages!Run(start, num)
  BY <1>1, <1>2 DEF IInv, TypeOK
<1>5. Min(grant'[asker]) = start /\ start \in Pages!Run(start, num)
  BY <1>3, <1>4, RunFacts
<1>6. chunkPages' = SetWord(grant', start, num)
  BY <1>2, <1>5 DEF HpAllocReturn
<1>7. TypeOK'
  <2>1. chunkPages' \in [Holders -> Nat]
    BY <1>3, <1>6 DEF IInv, TypeOK, SetWord
  <2>2. pool' \subseteq Frames /\ grant' \in [Holders -> SUBSET Frames]
    BY <1>1, <1>2 DEF IInv, TypeOK
  <2>. QED  BY <1>2, <1>3, <2>1, <2>2 DEF IInv, TypeOK
<1>8. RequestIsForSize'
  BY <1>2 DEF RequestIsForSize
<1>9. ASSUME ~overrun
      PROVE  Exclusive' /\ \A h \in Live' : Sound(h)'
  <2>1. Exclusive /\ \A h \in Live : Sound(h)
    BY <1>9 DEF IInv
  <2>2. \A h \in Holders : h # asker => grant'[h] = grant[h] /\ sizeOf'[h] = sizeOf[h]
    BY <1>1, <1>2 DEF IInv, TypeOK
  <2>3. Exclusive'
    BY <1>1, <1>2, <1>4, <2>1, <2>2 DEF Exclusive
  <2>4. ASSUME NEW h \in Live', h = asker
        PROVE  Sound(h)'
    <3>1. sizeOf'[h] = size
      BY <1>2, <2>4 DEF IInv, TypeOK
    <3>2. chunkPages'[h] = num
      BY <1>2, <1>3, <1>4, <1>5, <1>6, <2>4 DEF SetWord
    <3>. QED  BY <1>2, <1>4, <2>4, <3>1, <3>2 DEF Sound
  <2>5. ASSUME NEW h \in Live', h # asker
        PROVE  Sound(h)'
    <3>1. h \in Live /\ Sound(h)
      BY <2>1, <2>2, <2>5 DEF Live
    <3>2. First(h) \in grant[h]
      BY <3>1, SoundFacts
    <3>3. Min(grant'[h]) # start
      BY <1>1, <1>5, <2>1, <2>2, <2>5, <3>1, <3>2 DEF First, Exclusive, Live
    <3>4. chunkPages'[h] = chunkPages[h]
      BY <1>6, <3>1, <3>3 DEF SetWord, Live
    <3>. QED  BY <2>2, <2>5, <3>1, <3>4 DEF Sound, Live
  <2>. QED  BY <1>2, <2>3, <2>4, <2>5
<1>. QED  BY <1>2, <1>7, <1>8, <1>9 DEF IInv

LEMMA AllocRefusedKeeps ==
  ASSUME IInv, HpAllocRefused
  PROVE  IInv'
<1>1. TypeOK'
  BY DEF IInv, TypeOK, HpAllocRefused, Pages!Refuse
<1>2. RequestIsForSize'
  BY DEF RequestIsForSize, HpAllocRefused, Pages!Refuse
<1>. QED  BY <1>1, <1>2
          DEF IInv, HpAllocRefused, Pages!Refuse, Exclusive, Live, Sound

LEMMA FillKeeps ==
  ASSUME IInv, NEW h \in Holders, FillPayload(h)
  PROVE  IInv'
<1>1. chunkPages' \in [Holders -> Nat]
  BY LayoutAssumption DEF IInv, TypeOK, FillPayload, SetWord
<1>2. TypeOK' /\ RequestIsForSize'
  BY <1>1 DEF IInv, TypeOK, RequestIsForSize, FillPayload
<1>. QED  BY <1>2 DEF IInv, FillPayload

\* HpFree of a sound chunk gives back its run.
LEMMA FreeGivesBack ==
  ASSUME IInv, ~overrun, NEW h \in Holders, HpFree(h)
  PROVE  Pages!GiveBack(h)
<1>1. h \in Live /\ Sound(h)
  BY DEF IInv, Live, HpFree
<1>2. Pages!Run(First(h), chunkPages[h]) = grant[h]
  BY <1>1, SoundFacts
<1>3. grant[h] \subseteq Frames
  BY DEF IInv, TypeOK
<1>. QED  BY <1>2, <1>3 DEF HpFree, Pages!GiveBack

LEMMA FreeKeeps ==
  ASSUME IInv, NEW h \in Holders, HpFree(h)
  PROVE  IInv'
<1>1. TypeOK'
  BY DEF IInv, TypeOK, HpFree
<1>2. RequestIsForSize'
  BY FramesAssumption DEF IInv, RequestIsForSize, HpFree
<1>3. ASSUME ~overrun
      PROVE  Exclusive' /\ \A k \in Live' : Sound(k)'
  <2>1. pool' = pool \cup grant[h]
    BY <1>3, FreeGivesBack DEF Pages!GiveBack
  <2>2. Exclusive /\ \A k \in Live : Sound(k)
    BY <1>3 DEF IInv
  <2>3. grant'[h] = {}
    BY DEF IInv, TypeOK, HpFree
  <2>4. \A k \in Holders : k # h => /\ grant'[k] = grant[k] /\ sizeOf'[k] = sizeOf[k]
                                    /\ chunkPages'[k] = chunkPages[k]
    BY DEF IInv, TypeOK, HpFree
  <2>5. Exclusive'
    BY <2>1, <2>2, <2>3, <2>4 DEF Exclusive
  <2>6. \A k \in Live' : Sound(k)'
    BY <2>2, <2>3, <2>4 DEF Live, Sound
  <2>. QED  BY <2>5, <2>6
<1>. QED  BY <1>1, <1>2, <1>3 DEF IInv, HpFree

LEMMA StepKeeps == IInv /\ [Next]_vars => IInv'
<1>. SUFFICES ASSUME IInv, [Next]_vars PROVE IInv'
  OBVIOUS
<1>1. CASE UNCHANGED vars
  BY <1>1 DEF vars, heapVars, IInv, TypeOK, RequestIsForSize, Exclusive, Live, Sound
<1>2. CASE \E h \in Holders, bytes \in Sizes : HpAlloc(h, bytes)
  BY <1>2, AllocKeeps
<1>3. CASE HpAllocReturn
  BY <1>3, AllocReturnKeeps
<1>4. CASE HpAllocRefused
  BY <1>4, AllocRefusedKeeps
<1>5. CASE \E h \in Holders : FillPayload(h)
  BY <1>5, FillKeeps
<1>6. CASE \E h \in Holders : HpFree(h)
  BY <1>6, FreeKeeps
<1>. QED  BY <1>1, <1>2, <1>3, <1>4, <1>5, <1>6 DEF Next

LEMMA Invariance == Spec => []IInv
BY InitIInv, StepKeeps, PTL DEF Spec

-----------------------------------------------------------------------------
(* What follows. *)

\* Until a payload has reached a count word, every live chunk's header gives
\* the length of its run, and no frame has two holders.
THEOREM HeadersHold == Spec => []HeadersHoldUntilOverrun
<1>1. IInv => HeadersHoldUntilOverrun
  <2>. SUFFICES ASSUME IInv, ~overrun
                PROVE  /\ \A h \in Live : chunkPages[h] = Cardinality(grant[h])
                       /\ \A g, h \in Live : g # h => grant[g] \cap grant[h] = {}
    BY DEF HeadersHoldUntilOverrun
  <2>1. \A h \in Live : Sound(h)
    BY DEF IInv
  <2>2. \A g, h \in Live : g # h => grant[g] \cap grant[h] = {}
    BY DEF IInv, Exclusive, Live
  <2>. QED  BY <2>1, <2>2, SoundFacts
<1>. QED  BY <1>1, Invariance, PTL

\* Only a payload of a size in the gap reaches a count word, and until then
\* every step of the heap is one a caller of the page pool may take.
THEOREM PoolIsUsedProperly == Spec => UsesThePoolProperly
<1>1. IInv /\ [Next]_vars =>
        [/\ overrun' # overrun => \E h \in Live : InGap(sizeOf[h])
         /\ overrun \/ Pages!Next \/ UNCHANGED Pages!vars]_vars
  <2>. SUFFICES ASSUME IInv, Next
                PROVE  /\ overrun' # overrun => \E h \in Live : InGap(sizeOf[h])
                       /\ overrun \/ Pages!Next \/ UNCHANGED Pages!vars
    OBVIOUS
  <2>1. ASSUME NEW h \in Holders, NEW bytes \in Sizes, HpAlloc(h, bytes)
        PROVE  overrun' = overrun /\ Pages!Next
    <3>1. PagesFor(bytes) \in Nums
      BY DEF Nums
    <3>. QED  BY <2>1, <3>1 DEF HpAlloc, Pages!Next
  <2>2. CASE HpAllocReturn
    BY <2>2 DEF HpAllocReturn, Pages!Next
  <2>3. CASE HpAllocRefused
    BY <2>3 DEF HpAllocRefused, Pages!Next
  <2>4. ASSUME NEW h \in Holders, FillPayload(h)
        PROVE  /\ overrun' # overrun => \E k \in Live : InGap(sizeOf[k])
               /\ UNCHANGED Pages!vars
    <3>1. h \in Live /\ Overflow(sizeOf[h]) > PagesOffset
      BY <2>4 DEF FillPayload, Live
    <3>2. ~overrun => InGap(sizeOf[h])
      BY <3>1, OverflowIsInGap DEF IInv, Sound
    <3>. QED  BY <2>4, <3>1, <3>2 DEF FillPayload, Pages!vars, IInv, TypeOK
  <2>5. ASSUME NEW h \in Holders, HpFree(h)
        PROVE  overrun' = overrun /\ (overrun \/ Pages!Next)
    BY <2>5, FreeGivesBack DEF HpFree, Pages!Next
  <2>. QED  BY <2>1, <2>2, <2>3, <2>4, <2>5 DEF Next
<1>. QED  BY <1>1, Invariance, PTL DEF Spec, UsesThePoolProperly

-----------------------------------------------------------------------------
(* flanterm's terminals: sizes and layout. *)

LEMMA FieldsFacts ==
  /\ Len(Fields) = 7 /\ DOMAIN Fields = 1 .. 7
  /\ Fields[1] = "ctx" /\ Fields[2] = "font_bits" /\ Fields[3] = "font_bool"
  /\ Fields[4] = "grid" /\ Fields[5] = "queue" /\ Fields[6] = "map"
  /\ Fields[7] = "canvas"
BY DEF Fields

\* Products and quotients of natural numbers.
LEMMA ProductIsNat ==
  ASSUME NEW x \in Nat, NEW y \in Nat
  PROVE  x * y \in Nat /\ (x > 0 /\ y > 0 => x * y > 0)
OBVIOUS

LEMMA QuotientIs ==
  ASSUME NEW x \in Nat, NEW y \in Nat, y > 0
  PROVE  /\ x \div y \in Nat /\ x % y \in 0 .. (y - 1)
         /\ x = y * (x \div y) + (x % y)
OBVIOUS

LEMMA TimesKeepsOrder ==
  ASSUME NEW x \in Nat, NEW y \in Nat, NEW z \in Nat, x <= y
  PROVE  x * z <= y * z /\ z * x <= z * y
<1>1. y = x + (y - x) /\ y - x \in Nat
  OBVIOUS
<1> DEFINE d == y - x
<1>2. (x + d) * z = x * z + d * z /\ d * z \in Nat /\ x * z \in Nat
  BY <1>1
<1>3. y * z = x * z + d * z
  BY <1>1, <1>2
<1>4. x * z = z * x /\ y * z = z * y
  OBVIOUS
<1> HIDE DEF d
<1> QED BY <1>2, <1>3, <1>4

LEMMA ShapeFacts ==
  ASSUME NEW s \in Shapes
  PROVE  /\ s.width \in Nat /\ s.height \in Nat /\ s.pitch \in Nat /\ s.margin \in Nat
         /\ s.scaleX \in Nat /\ s.scaleX > 0 /\ s.scaleY \in Nat /\ s.scaleY > 0
         /\ s.width <= s.pitch
         /\ 2 * s.margin <= s.width /\ 2 * s.margin <= s.height
         /\ FontWidth(s) \in Nat /\ FontWidth(s) >= FontByte
         /\ FontHeight(s) \in Nat /\ FontHeight(s) > 0
         /\ CellWidth(s) \in Nat /\ CellWidth(s) > 0
         /\ GlyphWidth(s) \in Nat /\ GlyphWidth(s) > 0
         /\ GlyphHeight(s) \in Nat /\ GlyphHeight(s) > 0
<1>1. /\ s.width \in Nat /\ s.height \in Nat /\ s.pitch \in Nat /\ s.margin \in Nat
      /\ s.font \in BOOLEAN /\ s.fontWidth \in Nat /\ s.fontHeight \in Nat
      /\ s.spacing \in Nat /\ s.scaleX \in Nat /\ s.scaleY \in Nat
  BY InitAssumption
<1>2. /\ 2 * s.margin <= s.width /\ 2 * s.margin <= s.height /\ s.width <= s.pitch
      /\ s.scaleX > 0 /\ s.scaleY > 0
      /\ s.font => s.fontWidth >= FontByte /\ s.fontHeight > 0
  BY InitAssumption
<1>3. FontByte \in Nat /\ FontByte > 0 /\ BuiltinHeight \in Nat /\ BuiltinHeight > 0
  BY InitAssumption
<1>4. FontWidth(s) \in Nat /\ FontWidth(s) >= FontByte
  BY <1>1, <1>2, <1>3 DEF FontWidth
<1>5. FontHeight(s) \in Nat /\ FontHeight(s) > 0
  BY <1>1, <1>2, <1>3 DEF FontHeight
<1>6. CellWidth(s) \in Nat /\ CellWidth(s) > 0
  BY <1>1, <1>3, <1>4 DEF CellWidth
<1>7. GlyphWidth(s) \in Nat /\ GlyphWidth(s) > 0
  BY <1>1, <1>2, <1>6, ProductIsNat DEF GlyphWidth
<1>8. GlyphHeight(s) \in Nat /\ GlyphHeight(s) > 0
  BY <1>1, <1>2, <1>5, ProductIsNat DEF GlyphHeight
<1> QED BY <1>1, <1>2, <1>4, <1>5, <1>6, <1>7, <1>8

\* The text is centred between the margins: n cells of size g, and half of
\* what is left before them.
LEMMA Centred ==
  ASSUME NEW w \in Nat, NEW m \in Nat, 2 * m <= w, NEW g \in Nat, g > 0,
         NEW n, n = (w - 2 * m) \div g,
         NEW o, o = m + (((w - 2 * m) % g) \div 2)
  PROVE  /\ n \in Nat /\ n * g \in Nat
         /\ o \in Nat /\ o = (w - n * g) \div 2
         /\ o >= m /\ o + n * g <= w - m
<1> DEFINE a == w - 2 * m
           r == a % g
           p == n * g
           h == r \div 2
<1>1. a \in Nat
  OBVIOUS
<1>2. n \in Nat /\ r \in 0 .. (g - 1) /\ a = g * n + r /\ p = g * n /\ p \in Nat
  BY <1>1, QuotientIs
<1>3. r \in Nat /\ h \in Nat /\ 2 * h <= r /\ r <= 2 * h + 1
  BY <1>2
<1>4. o = m + h
  OBVIOUS
<1>5. w = 2 * m + p + r
  BY <1>2
<1> HIDE DEF a, r, p, h
<1>6. w - p = 2 * m + r
  BY <1>2, <1>3, <1>5
<1>7. (2 * m + r) \div 2 = m + h
  BY <1>3 DEF h
<1>8. o \in Nat /\ o >= m /\ o + p <= w - m
  BY <1>2, <1>3, <1>4, <1>5
<1> QED BY <1>2, <1>4, <1>6, <1>7, <1>8 DEF p

LEMMA LayoutFacts ==
  ASSUME NEW s \in Shapes
  PROVE  /\ Cols(s) \in Nat /\ Cols(s) * GlyphWidth(s) \in Nat
         /\ OffsetX(s) \in Nat /\ OffsetX(s) = (s.width - Cols(s) * GlyphWidth(s)) \div 2
         /\ OffsetX(s) + Cols(s) * GlyphWidth(s) <= s.width - s.margin
         /\ Rows(s) \in Nat /\ Rows(s) * GlyphHeight(s) \in Nat
         /\ OffsetY(s) \in Nat /\ OffsetY(s) = (s.height - Rows(s) * GlyphHeight(s)) \div 2
         /\ OffsetY(s) + Rows(s) * GlyphHeight(s) <= s.height - s.margin
<1>1. /\ s.width \in Nat /\ s.height \in Nat /\ s.margin \in Nat
      /\ 2 * s.margin <= s.width /\ 2 * s.margin <= s.height
      /\ GlyphWidth(s) \in Nat /\ GlyphWidth(s) > 0
      /\ GlyphHeight(s) \in Nat /\ GlyphHeight(s) > 0
  BY ShapeFacts
<1>2. /\ Cols(s) \in Nat /\ Cols(s) * GlyphWidth(s) \in Nat
      /\ OffsetX(s) \in Nat /\ OffsetX(s) = (s.width - Cols(s) * GlyphWidth(s)) \div 2
      /\ OffsetX(s) + Cols(s) * GlyphWidth(s) <= s.width - s.margin
  <2>1. /\ Cols(s) = (s.width - 2 * s.margin) \div GlyphWidth(s)
        /\ OffsetX(s) = s.margin + (((s.width - 2 * s.margin) % GlyphWidth(s)) \div 2)
    BY DEF Cols, OffsetX
  <2> DEFINE w == s.width
             m == s.margin
             g == GlyphWidth(s)
             n == Cols(s)
             o == OffsetX(s)
  <2>2. w \in Nat /\ m \in Nat /\ 2 * m <= w /\ g \in Nat /\ g > 0
    BY <1>1
  <2> HIDE DEF w, m, g, n, o
  <2>3. /\ n \in Nat /\ n * g \in Nat
        /\ o \in Nat /\ o = (w - n * g) \div 2
        /\ o >= m /\ o + n * g <= w - m
    <3>1. n = (w - 2 * m) \div g /\ o = m + (((w - 2 * m) % g) \div 2)
      BY <2>1 DEF w, m, g, n, o
    <3> QED BY <2>2, <3>1, Centred
  <2> QED BY <2>3 DEF w, m, g, n, o
<1>3. /\ Rows(s) \in Nat /\ Rows(s) * GlyphHeight(s) \in Nat
      /\ OffsetY(s) \in Nat /\ OffsetY(s) = (s.height - Rows(s) * GlyphHeight(s)) \div 2
      /\ OffsetY(s) + Rows(s) * GlyphHeight(s) <= s.height - s.margin
  <2>1. /\ Rows(s) = (s.height - 2 * s.margin) \div GlyphHeight(s)
        /\ OffsetY(s) = s.margin + (((s.height - 2 * s.margin) % GlyphHeight(s)) \div 2)
    BY DEF Rows, OffsetY
  <2> DEFINE w == s.height
             m == s.margin
             g == GlyphHeight(s)
             n == Rows(s)
             o == OffsetY(s)
  <2>2. w \in Nat /\ m \in Nat /\ 2 * m <= w /\ g \in Nat /\ g > 0
    BY <1>1
  <2> HIDE DEF w, m, g, n, o
  <2>3. /\ n \in Nat /\ n * g \in Nat
        /\ o \in Nat /\ o = (w - n * g) \div 2
        /\ o >= m /\ o + n * g <= w - m
    <3>1. n = (w - 2 * m) \div g /\ o = m + (((w - 2 * m) % g) \div 2)
      BY <2>1 DEF w, m, g, n, o
    <3> QED BY <2>2, <3>1, Centred
  <2> QED BY <2>3 DEF w, m, g, n, o
<1> QED BY <1>2, <1>3

\* What each block's accesses need, and that its size is a number.
Fits(b, s) ==
  /\ b[2] >= Glyphs * FontHeight(s)
  /\ b[3] >= ((Glyphs - 1) * FontHeight(s) + FontHeight(s) - 1) * CellWidth(s) + CellWidth(s)
  /\ b[4] >= Rows(s) * Cols(s) * CharSize
  /\ b[5] >= Rows(s) * Cols(s) * ItemSize
  /\ b[6] >= Rows(s) * Cols(s) * PointerSize
  /\ b[7] >= ((s.height - 1) * s.width + s.width) * PixelSize

LEMMA SizeFacts ==
  ASSUME NEW s \in Shapes
  PROVE  /\ \A j \in 1 .. 7 : Size(Fields[j], s) \in Nat
         /\ Fits([j \in 1 .. 7 |-> Size(Fields[j], s)], s)
<1> DEFINE b == [j \in 1 .. 7 |-> Size(Fields[j], s)]
<1>1. /\ ContextSize \in Nat /\ CharSize \in Nat /\ ItemSize \in Nat /\ PointerSize \in Nat
      /\ PixelSize \in Nat /\ Glyphs \in Nat /\ Glyphs > 0 /\ FontByte \in Nat /\ FontByte > 0
  BY InitAssumption
<1>2. /\ s.width \in Nat /\ s.height \in Nat
      /\ FontWidth(s) \in Nat /\ FontWidth(s) >= FontByte
      /\ FontHeight(s) \in Nat /\ FontHeight(s) > 0 /\ CellWidth(s) \in Nat
      /\ Rows(s) \in Nat /\ Cols(s) \in Nat
  BY ShapeFacts, LayoutFacts
<1> DEFINE n == Rows(s) * Cols(s)
           f == FontHeight(s)
           bits == FontWidth(s) * f * Glyphs
<1>3. n \in Nat /\ f \in Nat /\ FontWidth(s) * f \in Nat /\ bits \in Nat /\ f * Glyphs \in Nat
  BY <1>1, <1>2, ProductIsNat
<1>4. Size("ctx", s) = ContextSize /\ Size("font_bits", s) = bits \div FontByte
  BY DEF Size
<1>5. Size("font_bool", s) = Glyphs * f * CellWidth(s) /\ Size("grid", s) = n * CharSize
  BY DEF Size
<1>6. /\ Size("queue", s) = n * ItemSize /\ Size("map", s) = n * PointerSize
      /\ Size("canvas", s) = s.width * s.height * PixelSize
  BY DEF Size
<1>7. /\ b[1] = ContextSize /\ b[2] = bits \div FontByte /\ b[3] = Glyphs * f * CellWidth(s)
      /\ b[4] = n * CharSize /\ b[5] = n * ItemSize /\ b[6] = n * PointerSize
      /\ b[7] = s.width * s.height * PixelSize
  BY <1>4, <1>5, <1>6, FieldsFacts
<1> HIDE DEF b
<1>8. b[2] \in Nat /\ b[2] >= Glyphs * f
  <2> DEFINE c == f * Glyphs
  <2>1. FontByte * c <= FontWidth(s) * c
    BY <1>1, <1>2, <1>3, TimesKeepsOrder
  <2>2. FontWidth(s) * f * Glyphs = FontWidth(s) * c
    BY <1>1, <1>2, <1>3
  <2>3. c \in Nat /\ FontByte * c \in Nat /\ Glyphs * f = c
    BY <1>1, <1>3
  <2> HIDE DEF c, bits
  <2>4. ASSUME NEW q \in Nat, q < c PROVE FontByte * q + FontByte <= FontByte * c
    <3>1. FontByte * (q + 1) <= FontByte * c /\ FontByte * (q + 1) = FontByte * q + FontByte
      BY <1>1, <2>3, <2>4, TimesKeepsOrder
    <3> QED BY <3>1
  <2> DEFINE q == bits \div FontByte
  <2>5. q \in Nat /\ bits % FontByte \in 0 .. (FontByte - 1)
        /\ bits = FontByte * q + (bits % FontByte)
    BY <1>1, <1>3, QuotientIs
  <2>6. bits >= FontByte * c
    BY <2>1, <2>2 DEF bits
  <2> HIDE DEF q
  <2>7. q >= c
    <3> SUFFICES ASSUME q < c PROVE FALSE
      BY <2>3, <2>5
    <3> DEFINE P == FontByte * q
               Q == FontByte * c
               r == bits % FontByte
    <3>1. P + FontByte <= Q
      BY <2>4, <2>5
    <3>2. bits = P + r /\ r \in 0 .. (FontByte - 1) /\ bits >= Q /\ P \in Nat /\ Q \in Nat
      BY <1>1, <2>3, <2>5, <2>6
    <3> HIDE DEF P, Q, r
    <3> QED BY <1>1, <3>1, <3>2
  <2> QED BY <1>7, <2>3, <2>5, <2>7 DEF q
<1>9. b[3] \in Nat /\ b[3] >= ((Glyphs - 1) * f + f - 1) * CellWidth(s) + CellWidth(s)
  <2> DEFINE c == Glyphs * f
             w == CellWidth(s)
  <2>1. c \in Nat /\ c > 0 /\ (Glyphs - 1) * f + f = c
    BY <1>1, <1>2, <1>3, ProductIsNat
  <2>2. w \in Nat
    BY <1>2
  <2> DEFINE d == (Glyphs - 1) * f
  <2>3. d \in Int /\ d + f = c
    BY <1>1, <1>3, <2>1
  <2> HIDE DEF c, w, d
  <2>4. (c - 1) * w + w = c * w /\ c * w \in Nat
    BY <2>1, <2>2
  <2>5. d + f - 1 = c - 1
    BY <1>3, <2>1, <2>3
  <2>6. b[3] = c * w
    BY <1>7 DEF c, w
  <2> QED BY <2>4, <2>5, <2>6 DEF d, w
<1>10. /\ b[4] \in Nat /\ b[5] \in Nat /\ b[6] \in Nat
       /\ b[4] >= n * CharSize /\ b[5] >= n * ItemSize /\ b[6] >= n * PointerSize
  BY <1>1, <1>3, <1>7, ProductIsNat
<1>11. b[7] \in Nat /\ b[7] >= ((s.height - 1) * s.width + s.width) * PixelSize
  <2> DEFINE a == s.width * s.height
  <2>1. a \in Nat /\ (s.height - 1) * s.width + s.width = a
    BY <1>2, ProductIsNat
  <2> HIDE DEF a
  <2>2. a * PixelSize \in Nat
    BY <1>1, <2>1, ProductIsNat
  <2> QED BY <1>7, <2>1, <2>2 DEF a
<1>12. Fits(b, s)
  BY <1>8, <1>9, <1>10, <1>11 DEF Fits
<1>13. \A j \in 1 .. 7 : b[j] \in Nat
  BY <1>1, <1>7, <1>8, <1>9, <1>10, <1>11
<1>14. \A j \in 1 .. 7 : b[j] = Size(Fields[j], s)
  BY DEF b
<1> QED BY <1>12, <1>13, <1>14 DEF b
-----------------------------------------------------------------------------
(* flanterm's terminals: the inductive invariant. *)

Blocks == [addr : Nat, size : Nat]
BytesOf(b) == b.addr .. (b.addr + b.size - 1)
Apart(b, c) == b.addr + b.size <= c.addr \/ c.addr + c.size <= b.addr

Statuses == {"unused", "building", "failing", "live", "failed", "faulted", "closed"}

Records == [status : Statuses, malloc : Allocators \cup {"none"}, shape : Shapes \cup {{}},
            blocks : Seq(Blocks), pixels : {<<>>} \cup {FullRefresh(s) : s \in Shapes}]

LifeTypeOK ==
  /\ terms \in [Terminals -> Records]
  /\ now \in Terminals \cup {"none"}
  /\ bump_alloc_ptr \in 0 .. PoolSize /\ orig \in 0 .. PoolSize
  /\ heap \subseteq Blocks /\ leaked \subseteq heap /\ allocated \in Nat

\* A call of flanterm_fb_init is running for now, and for no other.
OneIsMade ==
  \A t \in Terminals : t = now <=> terms[t].status \in {"building", "failing", "faulted"}

\* What a terminal's status says of its record.
RecordFits(t) ==
  LET r == terms[t]
  IN  /\ r.status = "unused" => r.malloc = "none" /\ r.blocks = <<>>
      /\ r.status # "unused" => r.malloc \in Allocators /\ r.shape \in Shapes
      /\ r.status = "faulted" => r.malloc = "caller" /\ r.blocks = <<>>
      /\ r.status \in {"live", "closed"} => Len(r.blocks) = Len(Fields)
      /\ r.status = "live" => r.pixels = FullRefresh(r.shape)
      /\ Len(r.blocks) <= Len(Fields)
      /\ \A j \in DOMAIN r.blocks : r.blocks[j].size = Size(Fields[j], r.shape)

\* The blocks of set lie below top and leave no byte out.
Tiled(set, top) ==
  /\ \A t \in set : \A j \in DOMAIN terms[t].blocks :
       terms[t].blocks[j].addr + terms[t].blocks[j].size <= top
  /\ \A n \in 0 .. (top - 1) : \E t \in set : \E j \in DOMAIN terms[t].blocks :
       n \in BytesOf(terms[t].blocks[j])

InPool == {t \in Terminals : terms[t].malloc = "pool" /\ terms[t].status # "failed"}

\* The pool up to bump_alloc_ptr belongs to its terminals, each byte to one
\* block; without the terminal being made it would do so up to orig.
PoolIsTiled ==
  /\ Tiled(InPool, bump_alloc_ptr)
  /\ now \in InPool => orig <= bump_alloc_ptr /\ Tiled(InPool \ {now}, orig)
  /\ \A t, u \in InPool : \A j \in DOMAIN terms[t].blocks, k \in DOMAIN terms[u].blocks :
       t # u \/ j # k => Apart(terms[t].blocks[j], terms[u].blocks[k])

InHeap == {t \in Terminals : /\ terms[t].malloc \in {"caller", "callerWithoutFree"}
                             /\ terms[t].status \in {"building", "failing", "live"}}

\* Each block the caller gave out is one terminal's, in one place, or lost.
HeapIsOwned ==
  /\ \A b \in heap : \/ b \in leaked
                     \/ \E t \in InHeap : \E j \in DOMAIN terms[t].blocks :
                          b = terms[t].blocks[j]
  /\ \A t \in InHeap : \A j \in DOMAIN terms[t].blocks : terms[t].blocks[j] \in heap
  /\ \A b \in heap : b.addr < allocated
  /\ \A t, u \in InHeap : \A j \in DOMAIN terms[t].blocks, k \in DOMAIN terms[u].blocks :
       t # u \/ j # k => terms[t].blocks[j].addr # terms[u].blocks[k].addr
  /\ \A t \in InHeap : \A j \in DOMAIN terms[t].blocks : \A b \in leaked :
       terms[t].blocks[j].addr # b.addr
  /\ ~misused
  /\ leaked # {} => \E t \in Terminals : terms[t].malloc = "callerWithoutFree"

LifeIInv ==
  /\ LifeTypeOK
  /\ OneIsMade
  /\ \A t \in Terminals : RecordFits(t)
  /\ PoolIsTiled
  /\ HeapIsOwned

LEMMA NumbersOfCalls ==
  /\ PoolSize \in Nat /\ "none" \notin Terminals
BY InitAssumption

LEMMA OneChanges ==
  ASSUME LifeTypeOK, NEW t \in Terminals, NEW r \in Records,
         terms' = [terms EXCEPT ![t] = r]
  PROVE  /\ terms' \in [Terminals -> Records] /\ terms'[t] = r
         /\ \A u \in Terminals : u # t => terms'[u] = terms[u]
BY DEF LifeTypeOK

\* A step that leaves the pool and its terminals alone.
LEMMA PoolStays ==
  ASSUME PoolIsTiled, bump_alloc_ptr' = bump_alloc_ptr, InPool' = InPool,
         \A t \in InPool : terms'[t].blocks = terms[t].blocks,
         now' \in InPool => now' = now /\ orig' = orig
  PROVE  PoolIsTiled'
<1>1. Tiled(InPool, bump_alloc_ptr)'
  BY DEF PoolIsTiled, Tiled
<1>2. now' \in InPool' => orig' <= bump_alloc_ptr' /\ Tiled(InPool \ {now}, orig)'
  BY DEF PoolIsTiled, Tiled
<1>3. \A t, u \in InPool' : \A j \in DOMAIN terms'[t].blocks, k \in DOMAIN terms'[u].blocks :
        t # u \/ j # k => Apart(terms'[t].blocks[j], terms'[u].blocks[k])
  BY DEF PoolIsTiled
<1> QED BY <1>1, <1>2, <1>3 DEF PoolIsTiled

\* A step that leaves the caller's blocks and their owners alone.
LEMMA HeapStays ==
  ASSUME HeapIsOwned, UNCHANGED <<heap, allocated, misused, leaked>>, InHeap' = InHeap,
         \A t \in InHeap : terms'[t].blocks = terms[t].blocks,
         \A t \in Terminals : terms[t].malloc = "callerWithoutFree" =>
                              terms'[t].malloc = "callerWithoutFree"
  PROVE  HeapIsOwned'
<1>1. \A b \in heap' : \/ b \in leaked'
                       \/ \E t \in InHeap' : \E j \in DOMAIN terms'[t].blocks :
                            b = terms'[t].blocks[j]
  BY DEF HeapIsOwned
<1>2. /\ \A t \in InHeap' : \A j \in DOMAIN terms'[t].blocks : terms'[t].blocks[j] \in heap'
      /\ \A b \in heap' : b.addr < allocated'
  BY DEF HeapIsOwned
<1>3. \A t, u \in InHeap' : \A j \in DOMAIN terms'[t].blocks, k \in DOMAIN terms'[u].blocks :
        t # u \/ j # k => terms'[t].blocks[j].addr # terms'[u].blocks[k].addr
  BY DEF HeapIsOwned
<1>4. \A t \in InHeap' : \A j \in DOMAIN terms'[t].blocks : \A b \in leaked' :
        terms'[t].blocks[j].addr # b.addr
  BY DEF HeapIsOwned
<1>5. /\ ~misused'
      /\ leaked' # {} => \E t \in Terminals : terms'[t].malloc = "callerWithoutFree"
  BY DEF HeapIsOwned
<1> QED BY <1>1, <1>2, <1>3, <1>4, <1>5 DEF HeapIsOwned

LEMMA UnusedIs ==
  /\ Unused \in Records
  /\ Unused.status = "unused" /\ Unused.malloc = "none" /\ Unused.blocks = <<>>
BY DEF Unused, Records, Statuses

LEMMA LifeInitIInv == LifeInit => LifeIInv
<1> SUFFICES ASSUME LifeInit PROVE LifeIInv
  OBVIOUS
<1>1. /\ \A t \in Terminals : terms[t] = Unused
      /\ terms \in [Terminals -> Records]
      /\ now = "none" /\ bump_alloc_ptr = 0 /\ orig = 0 /\ heap = {} /\ allocated = 0
      /\ misused = FALSE /\ leaked = {}
  BY UnusedIs DEF LifeInit
<1>2. LifeTypeOK
  BY <1>1, NumbersOfCalls DEF LifeTypeOK
<1>3. OneIsMade
  BY <1>1, UnusedIs, NumbersOfCalls DEF OneIsMade
<1>4. \A t \in Terminals : RecordFits(t)
  <2>1. Len(<<>>) = 0 /\ DOMAIN <<>> = {}
    OBVIOUS
  <2> QED BY <1>1, <2>1, UnusedIs, FieldsFacts DEF RecordFits
<1>5. InPool = {} /\ InHeap = {}
  BY <1>1, UnusedIs DEF InPool, InHeap
<1>6. PoolIsTiled
  BY <1>1, <1>5 DEF PoolIsTiled, Tiled
<1>7. HeapIsOwned
  BY <1>1, <1>5 DEF HeapIsOwned
<1> QED BY <1>2, <1>3, <1>4, <1>6, <1>7 DEF LifeIInv

LEMMA BeginKeeps ==
  ASSUME LifeIInv, NEW t \in Terminals, NEW s \in Shapes, NEW malloc \in Allocators,
         Begin(t, s, malloc)
  PROVE  LifeIInv'
<1> DEFINE r == [Unused EXCEPT !.status = "building", !.shape = s, !.malloc = malloc]
<1>1. /\ r \in Records /\ r.status = "building" /\ r.shape = s /\ r.malloc = malloc
      /\ r.blocks = <<>>
  <2>1. r = [status |-> "building", malloc |-> malloc, shape |-> s, blocks |-> <<>>,
             pixels |-> <<>>]
    <3> DEFINE a == [Unused EXCEPT !.status = "building"]
               b == [a EXCEPT !.shape = s]
    <3>1. a = [status |-> "building", malloc |-> "none", shape |-> {}, blocks |-> <<>>,
               pixels |-> <<>>]
      BY DEF Unused
    <3> HIDE DEF a
    <3>2. b = [status |-> "building", malloc |-> "none", shape |-> s, blocks |-> <<>>,
               pixels |-> <<>>]
      BY <3>1
    <3>3. r = [b EXCEPT !.malloc = malloc]
      BY DEF a, b
    <3> HIDE DEF b, r
    <3> QED BY <3>2, <3>3
  <2>2. <<>> \in Seq(Blocks) /\ "building" \in Statuses
    BY DEF Statuses
  <2> HIDE DEF r
  <2>3. r.status = "building" /\ r.shape = s /\ r.malloc = malloc /\ r.blocks = <<>>
    BY <2>1
  <2>4. r \in Records
    BY <2>1, <2>2 DEF Records
  <2> QED BY <2>3, <2>4
<1>2. /\ now = "none" /\ terms[t].status = "unused" /\ now' = t /\ orig' = bump_alloc_ptr
      /\ terms' = [terms EXCEPT ![t] = r]
      /\ UNCHANGED <<bump_alloc_ptr, heap, allocated, misused, leaked>>
  BY DEF Begin
<1> HIDE DEF r
<1>3. LifeTypeOK /\ OneIsMade /\ PoolIsTiled /\ HeapIsOwned /\ \A u \in Terminals : RecordFits(u)
  BY DEF LifeIInv
<1>4. /\ terms' \in [Terminals -> Records] /\ terms'[t] = r
      /\ \A u \in Terminals : u # t => terms'[u] = terms[u]
  BY <1>1, <1>2, <1>3, OneChanges
<1>5. terms[t].malloc = "none" /\ DOMAIN r.blocks = {} /\ Len(r.blocks) = 0
  <2>1. Len(<<>>) = 0 /\ DOMAIN <<>> = {}
    OBVIOUS
  <2> QED BY <1>1, <1>2, <1>3, <2>1 DEF RecordFits
<1>6. LifeTypeOK'
  BY <1>2, <1>3, <1>4 DEF LifeTypeOK
<1>7. OneIsMade'
  BY <1>1, <1>2, <1>3, <1>4, NumbersOfCalls DEF OneIsMade
<1>8. \A u \in Terminals : RecordFits(u)'
  <2>1. RecordFits(t)'
    BY <1>1, <1>4, <1>5, FieldsFacts DEF RecordFits
  <2>2. \A u \in Terminals : u # t => RecordFits(u)'
    BY <1>3, <1>4 DEF RecordFits
  <2> QED BY <2>1, <2>2
<1>9. PoolIsTiled'
  <2>1. t \notin InPool /\ InPool \subseteq InPool' /\ InPool' \subseteq InPool \cup {t}
    BY <1>4, <1>5 DEF InPool
  <2>2. Tiled(InPool, bump_alloc_ptr)' /\ Tiled(InPool \ {now}, orig)'
    <3>1. \A u \in InPool : u \in Terminals /\ u # t /\ terms'[u] = terms[u]
      BY <1>4, <2>1 DEF InPool
    <3>2. InPool' \ {t} = InPool
      BY <2>1
    <3>3. Tiled(InPool, bump_alloc_ptr)
      BY <1>3 DEF PoolIsTiled
    <3>4. Tiled(InPool \ {now}, orig)'
      BY <1>2, <3>1, <3>2, <3>3 DEF Tiled
    <3>5. Tiled(InPool, bump_alloc_ptr)'
      BY <1>2, <1>4, <1>5, <2>1, <3>1, <3>3 DEF Tiled
    <3> QED BY <3>4, <3>5
  <2>3. orig' <= bump_alloc_ptr'
    BY <1>2, <1>3, NumbersOfCalls DEF LifeTypeOK
  <2>4. \A u, v \in InPool' : \A j \in DOMAIN terms'[u].blocks, k \in DOMAIN terms'[v].blocks :
          u # v \/ j # k => Apart(terms'[u].blocks[j], terms'[v].blocks[k])
    <3>1. \A u \in InPool : terms'[u] = terms[u]
      BY <1>4, <2>1 DEF InPool
    <3> QED BY <1>3, <1>4, <1>5, <2>1, <3>1 DEF PoolIsTiled
  <2> QED BY <2>2, <2>3, <2>4 DEF PoolIsTiled
<1>10. HeapIsOwned'
  <2>1. t \notin InHeap /\ InHeap \subseteq InHeap' /\ InHeap' \subseteq InHeap \cup {t}
    BY <1>2, <1>4, <1>5 DEF InHeap
  <2>2. \A u \in InHeap : terms'[u] = terms[u]
    BY <1>4, <2>1 DEF InHeap
  <2>3. \A b \in heap' : \/ b \in leaked'
                         \/ \E u \in InHeap' : \E j \in DOMAIN terms'[u].blocks :
                              b = terms'[u].blocks[j]
    BY <1>2, <1>3, <2>1, <2>2 DEF HeapIsOwned
  <2>4. /\ \A u \in InHeap' : \A j \in DOMAIN terms'[u].blocks : terms'[u].blocks[j] \in heap'
        /\ \A b \in heap' : b.addr < allocated'
    BY <1>2, <1>3, <1>4, <1>5, <2>1, <2>2 DEF HeapIsOwned
  <2>5. \A u, v \in InHeap' : \A j \in DOMAIN terms'[u].blocks, k \in DOMAIN terms'[v].blocks :
          u # v \/ j # k => terms'[u].blocks[j].addr # terms'[v].blocks[k].addr
    BY <1>3, <1>4, <1>5, <2>1, <2>2 DEF HeapIsOwned
  <2>6. \A u \in InHeap' : \A j \in DOMAIN terms'[u].blocks : \A b \in leaked' :
          terms'[u].blocks[j].addr # b.addr
    BY <1>2, <1>3, <1>4, <1>5, <2>1, <2>2 DEF HeapIsOwned
  <2>7. /\ ~misused'
        /\ leaked' # {} => \E u \in Terminals : terms'[u].malloc = "callerWithoutFree"
    BY <1>2, <1>3, <1>4, <1>5 DEF HeapIsOwned
  <2> QED BY <2>3, <2>4, <2>5, <2>6, <2>7 DEF HeapIsOwned
<1> QED BY <1>6, <1>7, <1>8, <1>9, <1>10 DEF LifeIInv

-----------------------------------------------------------------------------
(* The steps of flanterm_fb_init. *)

\* A terminal gets another status.
LEMMA StatusChanges ==
  ASSUME LifeTypeOK, NEW t \in Terminals, NEW new \in Statuses,
         terms' = [terms EXCEPT ![t].status = new]
  PROVE  /\ terms' \in [Terminals -> Records]
         /\ terms'[t].status = new /\ terms'[t].malloc = terms[t].malloc
         /\ terms'[t].shape = terms[t].shape /\ terms'[t].blocks = terms[t].blocks
         /\ terms'[t].pixels = terms[t].pixels
         /\ \A u \in Terminals : u # t => terms'[u] = terms[u]
<1> DEFINE r == [terms[t] EXCEPT !.status = new]
<1>1. terms' = [terms EXCEPT ![t] = r]
  OBVIOUS
<1>2. terms[t] \in Records
  BY DEF LifeTypeOK
<1>3. /\ r \in Records /\ r.status = new /\ r.malloc = terms[t].malloc
      /\ r.shape = terms[t].shape /\ r.blocks = terms[t].blocks
      /\ r.pixels = terms[t].pixels
  <2> DEFINE q == terms[t]
  <2>1. q \in Records
    BY <1>2
  <2> HIDE DEF q
  <2>2. [q EXCEPT !.status = new] \in Records
    BY <2>1 DEF Records
  <2>3. /\ r \in Records /\ r.status = new /\ r.malloc = q.malloc
        /\ r.shape = q.shape /\ r.blocks = q.blocks /\ r.pixels = q.pixels
    BY <2>1, <2>2 DEF Records, q
  <2> QED BY <2>3 DEF q
<1> HIDE DEF r
<1> QED BY <1>1, <1>3, OneChanges

\* The terminal being made gets a block.
LEMMA BlocksGrow ==
  ASSUME LifeTypeOK, now \in Terminals, NEW b \in Blocks, GetsBlock(b)
  PROVE  /\ terms' \in [Terminals -> Records]
         /\ terms'[now].status = terms[now].status /\ terms'[now].malloc = terms[now].malloc
         /\ terms'[now].shape = terms[now].shape /\ terms'[now].pixels = terms[now].pixels
         /\ Len(terms'[now].blocks) = Len(terms[now].blocks) + 1
         /\ terms'[now].blocks[Len(terms[now].blocks) + 1] = b
         /\ DOMAIN terms[now].blocks = 1 .. Len(terms[now].blocks)
         /\ DOMAIN terms'[now].blocks = 1 .. (Len(terms[now].blocks) + 1)
         /\ Len(terms[now].blocks) \in Nat
         /\ \A j \in 1 .. Len(terms[now].blocks) : terms'[now].blocks[j] = terms[now].blocks[j]
         /\ \A u \in Terminals : u # now => terms'[u] = terms[u]
<1> DEFINE q == terms[now]
           old == q.blocks
           new == Append(old, b)
           r == [q EXCEPT !.blocks = new]
<1>1. terms' = [terms EXCEPT ![now] = r]
  BY DEF GetsBlock
<1>2. q \in Records /\ old \in Seq(Blocks)
  BY DEF LifeTypeOK, Records
<1> HIDE DEF q
<1> HIDE DEF old
<1>3. /\ new \in Seq(Blocks) /\ Len(new) = Len(old) + 1 /\ new[Len(old) + 1] = b
      /\ \A j \in 1 .. Len(old) : new[j] = old[j]
  BY <1>2, AppendProperties
<1>4. DOMAIN old = 1 .. Len(old) /\ Len(old) \in Nat
  BY <1>2
<1> HIDE DEF new
<1>5. DOMAIN new = 1 .. (Len(old) + 1)
  BY <1>3
<1>6. /\ r \in Records /\ r.status = q.status /\ r.malloc = q.malloc
      /\ r.shape = q.shape /\ r.blocks = new /\ r.pixels = q.pixels
  <2>1. r \in Records
    BY <1>2, <1>3 DEF Records
  <2> QED BY <1>2, <2>1 DEF Records
<1> HIDE DEF r
<1>7. /\ terms' \in [Terminals -> Records] /\ terms'[now] = r
      /\ \A u \in Terminals : u # now => terms'[u] = terms[u]
  BY <1>1, <1>6, OneChanges
<1>8. q = terms[now] /\ old = terms[now].blocks
  BY DEF q, old
<1> QED BY <1>3, <1>4, <1>5, <1>6, <1>7, <1>8

\* What the steps of flanterm_fb_init are told of the terminal they work on.
LEMMA BuildingFacts ==
  ASSUME LifeIInv, Building, Missing
  PROVE  /\ now \in Terminals /\ terms[now].status = "building"
         /\ terms[now].malloc \in Allocators /\ terms[now].shape \in Shapes
         /\ Len(terms[now].blocks) \in Nat /\ Len(terms[now].blocks) < Len(Fields)
         /\ DOMAIN terms[now].blocks = 1 .. Len(terms[now].blocks)
         /\ Wanted \in Nat
         /\ Wanted = Size(Fields[Len(terms[now].blocks) + 1], terms[now].shape)
         /\ terms[now].blocks \in Seq(Blocks)
<1>1. now \in Terminals /\ terms[now].status = "building"
  BY DEF LifeIInv, LifeTypeOK, Building
<1>2. terms[now].blocks \in Seq(Blocks)
  BY <1>1 DEF LifeIInv, LifeTypeOK, Records
<1>3. terms[now].malloc \in Allocators /\ terms[now].shape \in Shapes
  BY <1>1 DEF LifeIInv, RecordFits
<1> DEFINE blocks == terms[now].blocks
<1> HIDE DEF blocks
<1>4. blocks \in Seq(Blocks) /\ Len(blocks) < Len(Fields)
  BY <1>2 DEF Missing, blocks
<1>5. Len(blocks) \in Nat /\ DOMAIN blocks = 1 .. Len(blocks)
  BY <1>4
<1>6. Len(blocks) + 1 \in 1 .. 7
  BY <1>4, <1>5, FieldsFacts
<1>7. Wanted = Size(Fields[Len(blocks) + 1], terms[now].shape)
  BY DEF Wanted, blocks
<1>8. Wanted \in Nat
  BY <1>3, <1>6, <1>7, SizeFacts
<1> QED BY <1>1, <1>2, <1>3, <1>4, <1>5, <1>7, <1>8 DEF blocks

LEMMA GetsNullKeeps ==
  ASSUME LifeIInv, Building, Missing, GetsNull,
         UNCHANGED <<now, bump_alloc_ptr, orig, heap, allocated, misused, leaked>>
  PROVE  LifeIInv'
<1>1. LifeTypeOK /\ OneIsMade /\ PoolIsTiled /\ HeapIsOwned /\ \A u \in Terminals : RecordFits(u)
  BY DEF LifeIInv
<1>2. now \in Terminals /\ terms[now].status = "building"
  BY BuildingFacts
<1>3. "failing" \in Statuses
  BY DEF Statuses
<1>4. /\ terms' \in [Terminals -> Records]
      /\ terms'[now].status = "failing" /\ terms'[now].malloc = terms[now].malloc
      /\ terms'[now].shape = terms[now].shape /\ terms'[now].blocks = terms[now].blocks
      /\ \A u \in Terminals : u # now => terms'[u] = terms[u]
  BY <1>1, <1>2, <1>3, StatusChanges DEF GetsNull
<1>5. LifeTypeOK'
  BY <1>1, <1>4 DEF LifeTypeOK
<1>6. OneIsMade'
  BY <1>1, <1>2, <1>4 DEF OneIsMade
<1>7. \A u \in Terminals : RecordFits(u)'
  <2>1. RecordFits(now)'
    BY <1>1, <1>2, <1>4 DEF RecordFits
  <2>2. \A u \in Terminals : u # now => RecordFits(u)'
    BY <1>1, <1>4 DEF RecordFits
  <2> QED BY <2>1, <2>2
<1>8. /\ \A u \in Terminals : terms'[u].malloc = terms[u].malloc /\ terms'[u].blocks = terms[u].blocks
      /\ InPool' = InPool /\ InHeap' = InHeap
  <2>1. \A u \in Terminals : terms'[u].malloc = terms[u].malloc /\ terms'[u].blocks = terms[u].blocks
    BY <1>4
  <2>2. \A u \in Terminals : /\ terms'[u].status = "failed" <=> terms[u].status = "failed"
                             /\ terms'[u].status \in {"building", "failing", "live"}
                                  <=> terms[u].status \in {"building", "failing", "live"}
    BY <1>2, <1>4
  <2> QED BY <2>1, <2>2 DEF InPool, InHeap
<1>9. PoolIsTiled'
  <2>1. \A t \in InPool : terms'[t].blocks = terms[t].blocks
    BY <1>8 DEF InPool
  <2> QED BY <1>1, <1>8, <2>1, PoolStays
<1>10. HeapIsOwned'
  <2>1. \A t \in InHeap : terms'[t].blocks = terms[t].blocks
    BY <1>8 DEF InHeap
  <2> QED BY <1>1, <1>8, <2>1, HeapStays
<1> QED BY <1>5, <1>6, <1>7, <1>9, <1>10 DEF LifeIInv

\* All that a new block does to the terminal it is for.
LEMMA BlockFits ==
  ASSUME LifeIInv, Building, Missing, NEW b \in Blocks, b.size = Wanted, GetsBlock(b),
         now' = now
  PROVE  OneIsMade' /\ \A u \in Terminals : RecordFits(u)'
<1>1. LifeTypeOK /\ OneIsMade /\ \A u \in Terminals : RecordFits(u)
  BY DEF LifeIInv
<1>2. /\ now \in Terminals /\ terms[now].status = "building"
      /\ Len(terms[now].blocks) < Len(Fields)
      /\ Wanted = Size(Fields[Len(terms[now].blocks) + 1], terms[now].shape)
  BY BuildingFacts
<1> DEFINE n == Len(terms[now].blocks)
<1>3. /\ terms'[now].status = terms[now].status /\ terms'[now].malloc = terms[now].malloc
      /\ terms'[now].shape = terms[now].shape
      /\ Len(terms'[now].blocks) = n + 1 /\ terms'[now].blocks[n + 1] = b /\ n \in Nat
      /\ DOMAIN terms[now].blocks = 1 .. n /\ DOMAIN terms'[now].blocks = 1 .. (n + 1)
      /\ \A j \in 1 .. n : terms'[now].blocks[j] = terms[now].blocks[j]
      /\ \A u \in Terminals : u # now => terms'[u] = terms[u]
  BY <1>1, <1>2, BlocksGrow
<1>4. OneIsMade'
  <2>1. \A u \in Terminals : terms'[u].status = terms[u].status
    BY <1>3
  <2> QED BY <1>1, <2>1 DEF OneIsMade
<1>5. RecordFits(now)'
  <2>1. \A j \in 1 .. n : terms[now].blocks[j].size = Size(Fields[j], terms[now].shape)
    BY <1>1, <1>2, <1>3 DEF RecordFits
  <2>2. b.size = Size(Fields[n + 1], terms[now].shape)
    BY <1>2
  <2> HIDE DEF n
  <2>3. \A j \in 1 .. (n + 1) : j \in 1 .. n \/ j = n + 1
    BY <1>3
  <2>4. \A j \in DOMAIN terms'[now].blocks :
          terms'[now].blocks[j].size = Size(Fields[j], terms'[now].shape)
    BY <1>3, <2>1, <2>2, <2>3
  <2>5. Len(terms'[now].blocks) <= Len(Fields)
    BY <1>2, <1>3, FieldsFacts DEF n
  <2>6. /\ terms'[now].status = "building" /\ terms'[now].malloc \in Allocators
        /\ terms'[now].shape \in Shapes
    BY <1>2, <1>3, BuildingFacts
  <2> QED BY <2>4, <2>5, <2>6 DEF RecordFits
<1>6. \A u \in Terminals : u # now => RecordFits(u)'
  BY <1>1, <1>3 DEF RecordFits
<1> QED BY <1>4, <1>5, <1>6

LEMMA BumpAllocKeeps == LifeIInv /\ BumpAlloc => LifeIInv'
<1> SUFFICES ASSUME LifeIInv, BumpAlloc PROVE LifeIInv'
  OBVIOUS
<1>1. /\ Building /\ Missing /\ terms[now].malloc = "pool"
      /\ UNCHANGED <<now, orig, heap, allocated, misused, leaked>>
  BY DEF BumpAlloc
<1>2. CASE bump_alloc_ptr + Wanted > PoolSize
  <2>1. GetsNull /\ UNCHANGED bump_alloc_ptr
    BY <1>2 DEF BumpAlloc
  <2> QED BY <1>1, <2>1, GetsNullKeeps
<1>3. CASE ~ (bump_alloc_ptr + Wanted > PoolSize)
  <2> DEFINE b == [addr |-> bump_alloc_ptr, size |-> Wanted]
             n == Len(terms[now].blocks)
  <2>1. GetsBlock(b) /\ bump_alloc_ptr' = bump_alloc_ptr + Wanted
    BY <1>3 DEF BumpAlloc
  <2>2. LifeTypeOK /\ OneIsMade /\ PoolIsTiled /\ HeapIsOwned
    BY DEF LifeIInv
  <2>3. /\ PoolSize \in Nat /\ bump_alloc_ptr \in 0 .. PoolSize /\ orig \in 0 .. PoolSize
        /\ Wanted \in Nat /\ now \in Terminals /\ terms[now].status = "building"
    BY <1>1, <2>2, NumbersOfCalls, BuildingFacts DEF LifeTypeOK
  <2>4. b \in Blocks /\ b.size = Wanted /\ b.addr = bump_alloc_ptr
    BY <2>3 DEF Blocks
  <2> HIDE DEF b
  <2>5. /\ terms' \in [Terminals -> Records]
        /\ terms'[now].status = terms[now].status /\ terms'[now].malloc = terms[now].malloc
        /\ terms'[now].blocks[n + 1] = b /\ n \in Nat
        /\ DOMAIN terms[now].blocks = 1 .. n /\ DOMAIN terms'[now].blocks = 1 .. (n + 1)
        /\ \A j \in 1 .. n : terms'[now].blocks[j] = terms[now].blocks[j]
        /\ \A u \in Terminals : u # now => terms'[u] = terms[u]
    BY <2>1, <2>2, <2>3, <2>4, BlocksGrow
  <2> HIDE DEF n
  <2>6. LifeTypeOK'
    BY <1>1, <1>3, <2>1, <2>2, <2>3, <2>5 DEF LifeTypeOK
  <2>7. OneIsMade' /\ \A u \in Terminals : RecordFits(u)'
    BY <1>1, <2>1, <2>4, BlockFits
  <2>8. /\ \A u \in Terminals : /\ terms'[u].status = terms[u].status
                                /\ terms'[u].malloc = terms[u].malloc
        /\ InPool' = InPool /\ InHeap' = InHeap /\ now \in InPool /\ now \notin InHeap
    <3>1. \A u \in Terminals : /\ terms'[u].status = terms[u].status
                               /\ terms'[u].malloc = terms[u].malloc
      BY <2>5
    <3> QED BY <1>1, <2>3, <3>1 DEF InPool, InHeap
  <2>9. HeapIsOwned'
    <3>1. \A t \in InHeap : terms'[t].blocks = terms[t].blocks
      BY <2>5, <2>8 DEF InHeap
    <3> QED BY <1>1, <2>2, <2>8, <3>1, HeapStays
  <2>10. PoolIsTiled'
    <3>1. \A t \in InPool : \A j \in DOMAIN terms'[t].blocks :
            \/ j \in DOMAIN terms[t].blocks /\ terms'[t].blocks[j] = terms[t].blocks[j]
            \/ t = now /\ j = n + 1 /\ terms'[t].blocks[j] = b
      <4>1. \A j \in 1 .. (n + 1) : j \in 1 .. n \/ j = n + 1
        BY <2>5
      <4> QED BY <2>5, <4>1 DEF InPool
    <3>2. \A t \in InPool : \A j \in DOMAIN terms[t].blocks :
            /\ terms[t].blocks[j] \in Blocks
            /\ terms[t].blocks[j].addr + terms[t].blocks[j].size <= bump_alloc_ptr
      <4>1. \A t \in InPool : terms[t].blocks \in Seq(Blocks)
        BY <2>2 DEF InPool, LifeTypeOK, Records
      <4>2. \A t \in InPool : \A j \in DOMAIN terms[t].blocks : terms[t].blocks[j] \in Blocks
        BY <4>1
      <4> QED BY <2>2, <4>2 DEF PoolIsTiled, Tiled
    <3>3. \A t \in InPool : \A j \in DOMAIN terms[t].blocks :
            j \in DOMAIN terms'[t].blocks /\ terms'[t].blocks[j] = terms[t].blocks[j]
      <4>1. \A j \in 1 .. n : j \in 1 .. (n + 1)
        BY <2>5
      <4> QED BY <2>5, <4>1 DEF InPool
    <3>4. \A t \in InPool : \A j \in DOMAIN terms'[t].blocks :
            terms'[t].blocks[j].addr + terms'[t].blocks[j].size <= bump_alloc_ptr'
      <4> SUFFICES ASSUME NEW t \in InPool, NEW j \in DOMAIN terms'[t].blocks
                   PROVE  terms'[t].blocks[j].addr + terms'[t].blocks[j].size
                            <= bump_alloc_ptr'
        OBVIOUS
      <4>1. CASE j \in DOMAIN terms[t].blocks /\ terms'[t].blocks[j] = terms[t].blocks[j]
        <5>1. /\ terms[t].blocks[j].addr \in Nat /\ terms[t].blocks[j].size \in Nat
              /\ terms[t].blocks[j].addr + terms[t].blocks[j].size <= bump_alloc_ptr
          BY <3>2, <4>1 DEF Blocks
        <5> QED BY <2>1, <2>3, <4>1, <5>1
      <4>2. CASE terms'[t].blocks[j] = b
        BY <2>1, <2>3, <2>4, <4>2
      <4> QED BY <3>1, <4>1, <4>2
    <3>5. \A m \in 0 .. (bump_alloc_ptr' - 1) :
            \E t \in InPool : \E j \in DOMAIN terms'[t].blocks :
              m \in BytesOf(terms'[t].blocks[j])
      <4> SUFFICES ASSUME NEW m \in 0 .. (bump_alloc_ptr' - 1)
                   PROVE  \E t \in InPool : \E j \in DOMAIN terms'[t].blocks :
                            m \in BytesOf(terms'[t].blocks[j])
        OBVIOUS
      <4>1. CASE m < bump_alloc_ptr
        <5>1. m \in 0 .. (bump_alloc_ptr - 1)
          BY <2>1, <2>3, <4>1
        <5>2. PICK t \in InPool : \E j \in DOMAIN terms[t].blocks :
                m \in BytesOf(terms[t].blocks[j])
          BY <2>2, <5>1 DEF PoolIsTiled, Tiled
        <5> QED BY <3>3, <5>2
      <4>2. CASE ~ (m < bump_alloc_ptr)
        <5>1. m \in BytesOf(b)
          BY <2>1, <2>3, <2>4, <4>2 DEF BytesOf
        <5>2. n + 1 \in DOMAIN terms'[now].blocks
          BY <2>5
        <5> QED BY <2>5, <2>8, <5>1, <5>2
      <4> QED BY <4>1, <4>2
    <3>6. now' \in InPool' => orig' <= bump_alloc_ptr' /\ Tiled(InPool \ {now}, orig)'
      <4>1. orig <= bump_alloc_ptr /\ Tiled(InPool \ {now}, orig)
        BY <2>2, <2>8 DEF PoolIsTiled
      <4>2. \A t \in InPool \ {now} : terms'[t] = terms[t]
        BY <2>5 DEF InPool
      <4>3. Tiled(InPool \ {now}, orig)'
        BY <1>1, <2>8, <4>1, <4>2 DEF Tiled
      <4>4. orig' <= bump_alloc_ptr'
        BY <1>1, <2>1, <2>3, <4>1
      <4> QED BY <4>3, <4>4
    <3>7. \A t, u \in InPool : \A j \in DOMAIN terms'[t].blocks, k \in DOMAIN terms'[u].blocks :
            t # u \/ j # k => Apart(terms'[t].blocks[j], terms'[u].blocks[k])
      <4> SUFFICES ASSUME NEW t \in InPool, NEW u \in InPool,
                          NEW j \in DOMAIN terms'[t].blocks,
                          NEW k \in DOMAIN terms'[u].blocks, t # u \/ j # k
                   PROVE  Apart(terms'[t].blocks[j], terms'[u].blocks[k])
        OBVIOUS
      <4> DEFINE Old(v, i) == i \in DOMAIN terms[v].blocks /\ terms'[v].blocks[i] = terms[v].blocks[i]
                 New(v, i) == v = now /\ i = n + 1 /\ terms'[v].blocks[i] = b
      <4>1. (Old(t, j) \/ New(t, j)) /\ (Old(u, k) \/ New(u, k))
        BY <3>1
      <4>2. CASE Old(t, j) /\ Old(u, k)
        BY <2>2, <4>2 DEF PoolIsTiled
      <4>3. CASE Old(t, j) /\ New(u, k)
        BY <2>4, <3>2, <4>3 DEF Apart
      <4>4. CASE New(t, j) /\ Old(u, k)
        BY <2>4, <3>2, <4>4 DEF Apart
      <4>5. CASE New(t, j) /\ New(u, k)
        BY <4>5
      <4> QED BY <4>1, <4>2, <4>3, <4>4, <4>5
    <3>8. Tiled(InPool, bump_alloc_ptr)'
      BY <2>8, <3>4, <3>5 DEF Tiled
    <3> QED BY <2>8, <3>6, <3>7, <3>8 DEF PoolIsTiled
  <2> QED BY <2>6, <2>7, <2>9, <2>10 DEF LifeIInv
<1> QED BY <1>2, <1>3

LEMMA MallocKeeps == LifeIInv /\ Malloc => LifeIInv'
<1> SUFFICES ASSUME LifeIInv, Malloc PROVE LifeIInv'
  OBVIOUS
<1>1. /\ Building /\ Missing /\ terms[now].malloc # "pool"
      /\ UNCHANGED <<now, bump_alloc_ptr, orig, misused, leaked>>
  BY DEF Malloc
<1>2. CASE GetsNull /\ UNCHANGED <<heap, allocated>>
  BY <1>1, <1>2, GetsNullKeeps
<1> DEFINE b == [addr |-> allocated, size |-> Wanted]
           n == Len(terms[now].blocks)
<1>3. CASE GetsBlock(b) /\ heap' = heap \cup {b} /\ allocated' = allocated + 1
  <2>2. LifeTypeOK /\ OneIsMade /\ PoolIsTiled /\ HeapIsOwned
    BY DEF LifeIInv
  <2>3. /\ allocated \in Nat /\ Wanted \in Nat /\ now \in Terminals
        /\ terms[now].status = "building"
        /\ terms[now].malloc \in {"caller", "callerWithoutFree"}
    BY <1>1, <2>2, BuildingFacts DEF LifeTypeOK, Allocators
  <2>4. b \in Blocks /\ b.size = Wanted /\ b.addr = allocated
    BY <2>3 DEF Blocks
  <2> HIDE DEF b
  <2>5. /\ terms' \in [Terminals -> Records]
        /\ terms'[now].status = terms[now].status /\ terms'[now].malloc = terms[now].malloc
        /\ terms'[now].blocks[n + 1] = b /\ n \in Nat
        /\ DOMAIN terms[now].blocks = 1 .. n /\ DOMAIN terms'[now].blocks = 1 .. (n + 1)
        /\ \A j \in 1 .. n : terms'[now].blocks[j] = terms[now].blocks[j]
        /\ \A u \in Terminals : u # now => terms'[u] = terms[u]
    BY <1>3, <2>2, <2>3, <2>4, BlocksGrow
  <2> HIDE DEF n
  <2>6. LifeTypeOK'
    BY <1>1, <1>3, <2>2, <2>3, <2>4, <2>5 DEF LifeTypeOK
  <2>7. OneIsMade' /\ \A u \in Terminals : RecordFits(u)'
    BY <1>1, <1>3, <2>4, BlockFits
  <2>8. /\ \A u \in Terminals : /\ terms'[u].status = terms[u].status
                                /\ terms'[u].malloc = terms[u].malloc
        /\ InPool' = InPool /\ InHeap' = InHeap /\ now \notin InPool /\ now \in InHeap
    <3>1. \A u \in Terminals : /\ terms'[u].status = terms[u].status
                               /\ terms'[u].malloc = terms[u].malloc
      BY <2>5
    <3> QED BY <1>1, <2>3, <3>1 DEF InPool, InHeap
  <2>9. PoolIsTiled'
    <3>1. \A t \in InPool : terms'[t].blocks = terms[t].blocks
      BY <2>5, <2>8 DEF InPool
    <3> QED BY <1>1, <2>2, <2>8, <3>1, PoolStays
  <2>10. HeapIsOwned'
    <3>1. \A t \in InHeap : \A j \in DOMAIN terms'[t].blocks :
            \/ j \in DOMAIN terms[t].blocks /\ terms'[t].blocks[j] = terms[t].blocks[j]
            \/ t = now /\ j = n + 1 /\ terms'[t].blocks[j] = b
      <4>1. \A j \in 1 .. (n + 1) : j \in 1 .. n \/ j = n + 1
        BY <2>5
      <4> QED BY <2>5, <4>1 DEF InHeap
    <3>2. \A t \in InHeap : \A j \in DOMAIN terms[t].blocks :
            j \in DOMAIN terms'[t].blocks /\ terms'[t].blocks[j] = terms[t].blocks[j]
      <4>1. \A j \in 1 .. n : j \in 1 .. (n + 1)
        BY <2>5
      <4> QED BY <2>5, <4>1 DEF InHeap
    <3>3. n + 1 \in DOMAIN terms'[now].blocks
      BY <2>5
    <3>4. \A c \in heap : c.addr \in Nat /\ c.addr < allocated
      BY <2>2 DEF LifeTypeOK, HeapIsOwned, Blocks
    <3>5. /\ \A t \in InHeap : \A j \in DOMAIN terms[t].blocks : terms[t].blocks[j] \in heap
          /\ leaked \subseteq heap
      BY <2>2 DEF LifeTypeOK, HeapIsOwned
    <3>6. \A c \in heap' : \/ c \in leaked'
                           \/ \E t \in InHeap' : \E j \in DOMAIN terms'[t].blocks :
                                c = terms'[t].blocks[j]
      <4> SUFFICES ASSUME NEW c \in heap', c \notin leaked
                   PROVE  \E t \in InHeap : \E j \in DOMAIN terms'[t].blocks :
                            c = terms'[t].blocks[j]
        BY <1>1, <2>8
      <4>1. CASE c = b
        BY <2>5, <2>8, <3>3, <4>1
      <4>2. CASE c # b
        <5>1. PICK t \in InHeap : \E j \in DOMAIN terms[t].blocks : c = terms[t].blocks[j]
          BY <1>3, <2>2, <4>2 DEF HeapIsOwned
        <5> QED BY <3>2, <5>1
      <4> QED BY <4>1, <4>2
    <3>7. \A t \in InHeap' : \A j \in DOMAIN terms'[t].blocks : terms'[t].blocks[j] \in heap'
      BY <1>3, <2>8, <3>1, <3>5
    <3>8. \A c \in heap' : c.addr < allocated'
      BY <1>3, <2>3, <2>4, <3>4
    <3>9. \A t, u \in InHeap' : \A j \in DOMAIN terms'[t].blocks, k \in DOMAIN terms'[u].blocks :
            t # u \/ j # k => terms'[t].blocks[j].addr # terms'[u].blocks[k].addr
      <4> SUFFICES ASSUME NEW t \in InHeap, NEW u \in InHeap,
                          NEW j \in DOMAIN terms'[t].blocks,
                          NEW k \in DOMAIN terms'[u].blocks, t # u \/ j # k
                   PROVE  terms'[t].blocks[j].addr # terms'[u].blocks[k].addr
        BY <2>8
      <4> DEFINE Old(v, i) == i \in DOMAIN terms[v].blocks /\ terms'[v].blocks[i] = terms[v].blocks[i]
                 New(v, i) == v = now /\ i = n + 1 /\ terms'[v].blocks[i] = b
      <4>1. (Old(t, j) \/ New(t, j)) /\ (Old(u, k) \/ New(u, k))
        BY <3>1
      <4>2. CASE Old(t, j) /\ Old(u, k)
        BY <2>2, <4>2 DEF HeapIsOwned
      <4>3. CASE Old(t, j) /\ New(u, k)
        BY <2>3, <2>4, <3>4, <3>5, <4>3
      <4>4. CASE New(t, j) /\ Old(u, k)
        BY <2>3, <2>4, <3>4, <3>5, <4>4
      <4>5. CASE New(t, j) /\ New(u, k)
        BY <4>5
      <4> QED BY <4>1, <4>2, <4>3, <4>4, <4>5
    <3>10. \A t \in InHeap' : \A j \in DOMAIN terms'[t].blocks : \A c \in leaked' :
             terms'[t].blocks[j].addr # c.addr
      <4> SUFFICES ASSUME NEW t \in InHeap, NEW j \in DOMAIN terms'[t].blocks, NEW c \in leaked
                   PROVE  terms'[t].blocks[j].addr # c.addr
        BY <1>1, <2>8
      <4>1. CASE j \in DOMAIN terms[t].blocks /\ terms'[t].blocks[j] = terms[t].blocks[j]
        BY <2>2, <4>1 DEF HeapIsOwned
      <4>2. CASE terms'[t].blocks[j] = b
        BY <2>3, <2>4, <3>4, <3>5, <4>2
      <4> QED BY <3>1, <4>1, <4>2
    <3>11. /\ ~misused'
           /\ leaked' # {} => \E t \in Terminals : terms'[t].malloc = "callerWithoutFree"
      BY <1>1, <2>2, <2>8 DEF HeapIsOwned
    <3> QED BY <3>6, <3>7, <3>8, <3>9, <3>10, <3>11 DEF HeapIsOwned
  <2> QED BY <2>6, <2>7, <2>9, <2>10 DEF LifeIInv
<1> QED BY <1>2, <1>3 DEF Malloc

\* A terminal gets another status and another picture.
LEMMA PictureChanges ==
  ASSUME LifeTypeOK, NEW t \in Terminals, NEW new \in Statuses,
         NEW picture \in {<<>>} \cup {FullRefresh(s) : s \in Shapes},
         terms' = [terms EXCEPT ![t].status = new, ![t].pixels = picture]
  PROVE  /\ terms' \in [Terminals -> Records]
         /\ terms'[t].status = new /\ terms'[t].malloc = terms[t].malloc
         /\ terms'[t].shape = terms[t].shape /\ terms'[t].blocks = terms[t].blocks
         /\ terms'[t].pixels = picture
         /\ \A u \in Terminals : u # t => terms'[u] = terms[u]
<1> DEFINE q == terms[t]
           p == [q EXCEPT !.status = new]
           r == [p EXCEPT !.pixels = picture]
<1>1. terms' = [terms EXCEPT ![t] = r]
  OBVIOUS
<1>2. q \in Records
  BY DEF LifeTypeOK
<1> HIDE DEF q
<1>3. p \in Records
  BY <1>2 DEF Records
<1>4. /\ p.status = new /\ p.malloc = q.malloc /\ p.shape = q.shape /\ p.blocks = q.blocks
  BY <1>2 DEF Records
<1> HIDE DEF p
<1>5. r \in Records
  BY <1>3 DEF Records
<1>6. /\ r.status = new /\ r.malloc = q.malloc /\ r.shape = q.shape /\ r.blocks = q.blocks
      /\ r.pixels = picture
  BY <1>3, <1>4 DEF Records
<1> HIDE DEF r
<1>7. /\ terms' \in [Terminals -> Records] /\ terms'[t] = r
      /\ \A u \in Terminals : u # t => terms'[u] = terms[u]
  BY <1>1, <1>5, OneChanges
<1> QED BY <1>6, <1>7 DEF q

LEMMA FinishKeeps == LifeIInv /\ Finish => LifeIInv'
<1> SUFFICES ASSUME LifeIInv, Finish PROVE LifeIInv'
  OBVIOUS
<1> DEFINE picture == FullRefresh(terms[now].shape)
<1>1. /\ Building /\ ~Missing
      /\ terms' = [terms EXCEPT ![now].status = "live", ![now].pixels = picture]
      /\ now' = "none"
      /\ UNCHANGED <<bump_alloc_ptr, orig, heap, allocated, misused, leaked>>
  BY DEF Finish
<1>2. LifeTypeOK /\ OneIsMade /\ PoolIsTiled /\ HeapIsOwned /\ \A u \in Terminals : RecordFits(u)
  BY DEF LifeIInv
<1>3. /\ now \in Terminals /\ terms[now].status = "building"
      /\ terms[now].malloc \in Allocators /\ terms[now].shape \in Shapes
  <2>1. now \in Terminals /\ terms[now].status = "building"
    BY <1>1, <1>2 DEF LifeTypeOK, Building
  <2> QED BY <1>2, <2>1 DEF RecordFits
<1>4. Len(terms[now].blocks) = Len(Fields)
  <2>1. terms[now].blocks \in Seq(Blocks)
    BY <1>2, <1>3 DEF LifeTypeOK, Records
  <2>2. Len(terms[now].blocks) \in Nat
    BY <2>1
  <2>3. Len(terms[now].blocks) <= Len(Fields)
    BY <1>2, <1>3 DEF RecordFits
  <2>4. ~ (Len(terms[now].blocks) < Len(Fields))
    BY <1>1 DEF Missing
  <2>5. Len(Fields) \in Nat
    BY FieldsFacts
  <2> DEFINE n == Len(terms[now].blocks)
             m == Len(Fields)
  <2> HIDE DEF n, m
  <2>6. n = m
    <3>1. n \in Nat /\ n <= m /\ ~ (n < m) /\ m \in Nat
      BY <2>2, <2>3, <2>4, <2>5 DEF n, m
    <3> QED BY <3>1
  <2> QED BY <2>6 DEF n, m
<1>5. /\ terms' \in [Terminals -> Records]
      /\ terms'[now].status = "live" /\ terms'[now].malloc = terms[now].malloc
      /\ terms'[now].shape = terms[now].shape /\ terms'[now].blocks = terms[now].blocks
      /\ terms'[now].pixels = picture
      /\ \A u \in Terminals : u # now => terms'[u] = terms[u]
  <2>1. "live" \in Statuses /\ picture \in {<<>>} \cup {FullRefresh(s) : s \in Shapes}
    BY <1>3 DEF Statuses
  <2> HIDE DEF picture
  <2> QED BY <1>1, <1>2, <1>3, <2>1, PictureChanges
<1>6. LifeTypeOK'
  BY <1>1, <1>2, <1>5 DEF LifeTypeOK
<1>7. OneIsMade'
  BY <1>1, <1>2, <1>3, <1>5, NumbersOfCalls DEF OneIsMade
<1>8. \A u \in Terminals : RecordFits(u)'
  <2>1. ASSUME NEW u \in Terminals, u = now PROVE RecordFits(u)'
    <3>1. \A j \in DOMAIN terms[u].blocks :
            terms[u].blocks[j].size = Size(Fields[j], terms[u].shape)
      BY <1>2, <2>1 DEF RecordFits
    <3>2. Len(terms[u].blocks) <= Len(Fields)
      BY <1>2 DEF RecordFits
    <3>3. terms'[u].pixels = FullRefresh(terms'[u].shape)
      BY <1>5, <2>1
    <3>4. /\ terms'[u].status = "live" /\ terms'[u].malloc \in Allocators
          /\ terms'[u].shape \in Shapes /\ terms'[u].shape = terms[u].shape
          /\ terms'[u].blocks = terms[u].blocks /\ Len(terms'[u].blocks) = Len(Fields)
      BY <1>3, <1>4, <1>5, <2>1
    <3> HIDE DEF picture
    <3> QED BY <3>1, <3>2, <3>3, <3>4 DEF RecordFits
  <2>2. \A u \in Terminals : u # now => RecordFits(u)'
    BY <1>2, <1>5 DEF RecordFits
  <2> QED BY <2>1, <2>2
<1>9. /\ \A u \in Terminals : terms'[u].malloc = terms[u].malloc /\ terms'[u].blocks = terms[u].blocks
      /\ InPool' = InPool /\ InHeap' = InHeap
  <2>1. \A u \in Terminals : terms'[u].malloc = terms[u].malloc /\ terms'[u].blocks = terms[u].blocks
    BY <1>5
  <2>2. \A u \in Terminals : /\ terms'[u].status = "failed" <=> terms[u].status = "failed"
                             /\ terms'[u].status \in {"building", "failing", "live"}
                                  <=> terms[u].status \in {"building", "failing", "live"}
    BY <1>3, <1>5
  <2> QED BY <2>1, <2>2 DEF InPool, InHeap
<1>10. PoolIsTiled'
  <2>1. \A t \in InPool : terms'[t].blocks = terms[t].blocks
    BY <1>9 DEF InPool
  <2>2. now' \notin InPool
    BY <1>1, NumbersOfCalls DEF InPool
  <2> QED BY <1>1, <1>2, <1>9, <2>1, <2>2, PoolStays
<1>11. HeapIsOwned'
  <2>1. \A t \in InHeap : terms'[t].blocks = terms[t].blocks
    BY <1>9 DEF InHeap
  <2> QED BY <1>1, <1>2, <1>9, <2>1, HeapStays
<1> QED BY <1>6, <1>7, <1>8, <1>10, <1>11 DEF LifeIInv

\* Each field has one position.
LEMMA PositionIs ==
  ASSUME NEW p \in 1 .. 7
  PROVE  (CHOOSE j \in DOMAIN Fields : Fields[j] = Fields[p]) = p
<1>1. \A i, j \in 1 .. 7 : Fields[i] = Fields[j] => i = j
  BY FieldsFacts
<1> QED BY <1>1, FieldsFacts

\* _free for each field of a terminal, the context last, gives its blocks back
\* and nothing else.
LEMMA FreeIs ==
  ASSUME LifeTypeOK, HeapIsOwned, NEW t \in InHeap, RecordFits(t),
         NEW pos \in [1 .. 7 -> 1 .. 7],
         \A i, j \in 1 .. 7 : pos[i] = pos[j] => i = j,
         \A p \in 1 .. 7 : \E i \in 1 .. 7 : pos[i] = p,
         pos[7] = 1,
         NEW order, DOMAIN order = 1 .. 7,
         \A i \in 1 .. 7 : order[i] = Fields[pos[i]],
         Free(t, order)
  PROVE  /\ heap' = heap \ {terms[t].blocks[j] : j \in DOMAIN terms[t].blocks}
         /\ ~misused'
<1> DEFINE Position(f) == CHOOSE j \in DOMAIN Fields : Fields[j] = f
           blocks == terms[t].blocks
           Block(f) == [addr |-> blocks[Position(f)].addr, size |-> Size(f, terms[t].shape)]
           Give(h, f) ==
             IF Position(f) \notin DOMAIN blocks THEN h
             ELSE [blocks |-> h.blocks \ {Block(f)},
                   misused |-> h.misused \/ Block(f) \notin h.blocks
                                         \/ blocks[1] \notin h.blocks]
           Taken(h, i) == [blocks |-> h.blocks \ {blocks[pos[i]]},
                           misused |-> h.misused \/ blocks[pos[i]] \notin h.blocks
                                                 \/ blocks[1] \notin h.blocks]
           base == [blocks |-> heap, misused |-> misused]
           V == [blocks : SUBSET heap, misused : BOOLEAN]
           step == [p \in V \X (1 .. 7) |-> Give(p[1], order[p[2]])]
           Loop(F) == F = [s \in SUBSET (DOMAIN order) |->
                       IF s = {} THEN base ELSE Give(F[s \ {Max(s)}], order[Max(s)])]
           F == CHOOSE F : Loop(F)
<1>1. heap' = F[DOMAIN order].blocks /\ misused' = F[DOMAIN order].misused
  BY DEF Free, FoldLeft, MapThenFoldSet
<1>2. /\ t \in Terminals /\ terms[t] \in Records /\ blocks \in Seq(Blocks)
      /\ \A j \in DOMAIN blocks : blocks[j] \in heap /\ blocks[j] \in Blocks
      /\ \A j, k \in DOMAIN blocks : j # k => blocks[j].addr # blocks[k].addr
      /\ DOMAIN blocks \subseteq 1 .. 7 /\ misused = FALSE
  <2>1. t \in Terminals /\ terms[t] \in Records
    BY DEF InHeap, LifeTypeOK
  <2>2. blocks \in Seq(Blocks)
    BY <2>1 DEF Records
  <2>3. \A j \in DOMAIN blocks : blocks[j] \in heap
    BY DEF HeapIsOwned
  <2>4. \A j, k \in DOMAIN blocks : j # k => blocks[j].addr # blocks[k].addr
    BY DEF HeapIsOwned
  <2>5. ~misused /\ heap \subseteq Blocks
    BY DEF HeapIsOwned, LifeTypeOK
  <2>6. Len(blocks) <= 7
    BY FieldsFacts DEF RecordFits
  <2> HIDE DEF blocks
  <2> QED BY <2>1, <2>2, <2>3, <2>4, <2>5, <2>6
<1>3. \A p \in 1 .. 7 : Position(Fields[p]) = p
  BY PositionIs
<1>4. \A p \in 1 .. 7 : p \in DOMAIN blocks => Block(Fields[p]) = blocks[p]
  <2> SUFFICES ASSUME NEW p \in 1 .. 7, p \in DOMAIN blocks PROVE Block(Fields[p]) = blocks[p]
    OBVIOUS
  <2>1. blocks[p] \in Blocks /\ blocks[p].size = Size(Fields[p], terms[t].shape)
    BY <1>2 DEF RecordFits
  <2>2. Block(Fields[p]) = [addr |-> blocks[p].addr, size |-> blocks[p].size]
    BY <1>3, <2>1
  <2> HIDE DEF Block, blocks
  <2>3. \A b \in Blocks : b = [addr |-> b.addr, size |-> b.size]
    BY DEF Blocks
  <2> QED BY <2>1, <2>2, <2>3
<1>5. \A h \in V, i \in 1 .. 7 :
        Give(h, order[i]) = IF pos[i] \notin DOMAIN blocks THEN h ELSE Taken(h, i)
  <2> SUFFICES ASSUME NEW h \in V, NEW i \in 1 .. 7
               PROVE  Give(h, order[i]) =
                        IF pos[i] \notin DOMAIN blocks THEN h ELSE Taken(h, i)
    OBVIOUS
  <2>1. pos[i] \in 1 .. 7 /\ order[i] = Fields[pos[i]]
    OBVIOUS
  <2> HIDE DEF Position, Block
  <2>2. /\ Position(Fields[pos[i]]) = pos[i]
        /\ pos[i] \in DOMAIN blocks => Block(Fields[pos[i]]) = blocks[pos[i]]
    BY <1>3, <1>4, <2>1
  <2>3. Position(order[i]) = pos[i] /\ (pos[i] \in DOMAIN blocks => Block(order[i]) = blocks[pos[i]])
    BY <2>1, <2>2
  <2> HIDE DEF blocks, V
  <2> QED BY <2>3 DEF Give
<1> HIDE DEF Give, Taken
<1>6. base \in V /\ \A h \in V, i \in 1 .. 7 : Give(h, order[i]) \in V
  <2>1. base \in V
    BY <1>2
  <2>2. ASSUME NEW h \in V, NEW i \in 1 .. 7 PROVE Give(h, order[i]) \in V
    <3>1. h.blocks \subseteq heap /\ h.misused \in BOOLEAN
      OBVIOUS
    <3> HIDE DEF blocks
    <3>2. Taken(h, i) \in V
      BY <3>1 DEF Taken
    <3> HIDE DEF V
    <3> QED BY <1>5, <3>2
  <2> HIDE DEF V
  <2> QED BY <2>1, <2>2
<1>7. DOMAIN order = 1 .. 7
  OBVIOUS
<1> HIDE DEF V, base
<1>8. step \in [V \X (1 .. 7) -> V] /\ \A h \in V, i \in 1 .. 7 : step[<<h, i>>] = Give(h, order[i])
  BY <1>6
<1> HIDE DEF step
<1>9. PICK f \in [SUBSET (1 .. 7) -> V], g \in [0 .. 7 -> V] :
        /\ Recurs(f, 7, base, step) /\ g[0] = base
        /\ \A k \in 1 .. 7 : g[k] = step[<<g[k - 1], k>>]
        /\ \A G : Follows(G, 7, V, base, step) => G[1 .. 7] = g[7]
  <2>1. Stepwise(7, V, base, step)
    BY <1>6, <1>8, FoldRun
  <2> QED BY <2>1 DEF Stepwise
<1>10. \A s \in SUBSET (1 .. 7) : s # {} => Max(s) \in 1 .. 7
  BY LargestOf
<1>11. Loop(F)
  <2>1. Loop(f)
    <3>1. \A s \in SUBSET (1 .. 7) : s # {} => f[s \ {Max(s)}] \in V
      BY <1>9
    <3>2. \A s \in SUBSET (1 .. 7) :
            (IF s = {} THEN base ELSE step[<<f[s \ {Max(s)}], Max(s)>>])
              = (IF s = {} THEN base ELSE Give(f[s \ {Max(s)}], order[Max(s)]))
      BY <1>8, <1>10, <3>1
    <3> QED BY <1>7, <1>9, <3>2 DEF Recurs
  <2> HIDE DEF Loop
  <2> QED BY <2>1
<1> HIDE DEF F
<1>12. Follows(F, 7, V, base, step)
  <2>1. \A s \in SUBSET (1 .. 7) :
          F[s] = IF s = {} THEN base ELSE Give(F[s \ {Max(s)}], order[Max(s)])
    BY <1>7, <1>11
  <2>2. F[{}] = base
    BY <2>1
  <2>3. ASSUME NEW s \in SUBSET (1 .. 7), s # {}, F[s \ {Max(s)}] \in V
        PROVE  F[s] = step[<<F[s \ {Max(s)}], Max(s)>>]
    <3> DEFINE h == F[s \ {Max(s)}]
               i == Max(s)
    <3>1. F[s] = Give(h, order[i]) /\ h \in V /\ i \in 1 .. 7
      BY <1>10, <2>1, <2>3
    <3> HIDE DEF h, i
    <3>2. step[<<h, i>>] = Give(h, order[i])
      BY <1>8, <3>1
    <3> QED BY <3>1, <3>2 DEF h, i
  <2> QED BY <2>2, <2>3 DEF Follows
<1>13. heap' = g[7].blocks /\ misused' = g[7].misused
  BY <1>1, <1>7, <1>9, <1>12
<1>14. ASSUME NEW k \in 1 .. 7
       PROVE  g[k - 1] \in V /\ g[k] = Give(g[k - 1], order[k])
  <2> DEFINE h == g[k - 1]
  <2>1. h \in V
    BY <1>9
  <2>2. g[k] = step[<<h, k>>]
    BY <1>9
  <2> HIDE DEF h
  <2>3. step[<<h, k>>] = Give(h, order[k])
    BY <1>8, <2>1
  <2> QED BY <2>1, <2>2, <2>3 DEF h
<1> HIDE DEF blocks
<1>19. \A k \in 1 .. 7 :
         g[k] = IF pos[k] \notin DOMAIN blocks THEN g[k - 1] ELSE Taken(g[k - 1], k)
  BY <1>5, <1>14
<1>20. \A h, i : /\ Taken(h, i).blocks = h.blocks \ {blocks[pos[i]]}
                 /\ ~ h.misused /\ blocks[pos[i]] \in h.blocks /\ blocks[1] \in h.blocks
                      => Taken(h, i).misused = FALSE
  BY DEF Taken
<1> DEFINE Gone(k) == {blocks[pos[i]] : i \in {j \in 1 .. k : pos[j] \in DOMAIN blocks}}
           T == {k \in 0 .. 7 : g[k].blocks = heap \ Gone(k) /\ g[k].misused = FALSE}
<1>15. 0 \in T
  <2>1. Gone(0) = {}
    OBVIOUS
  <2>2. g[0].blocks = heap /\ g[0].misused = FALSE
    BY <1>2, <1>9 DEF base
  <2> HIDE DEF Gone
  <2> QED BY <2>1, <2>2
<1>16. ASSUME NEW k \in 0 .. 6, k \in T PROVE k + 1 \in T
  <2>1. k + 1 \in 1 .. 7 /\ (k + 1) - 1 = k /\ \A i \in 1 .. k : i \in 1 .. 7 /\ i # k + 1 /\ i # 7
    OBVIOUS
  <2>2. g[k] \in V /\ g[k + 1] = Give(g[k], order[k + 1])
    BY <1>14, <2>1
  <2>3. g[k].blocks = heap \ Gone(k) /\ g[k].misused = FALSE
    BY <1>16
  <2>4. CASE pos[k + 1] \notin DOMAIN blocks
    <3>1. g[k + 1] = g[k]
      BY <1>19, <2>1, <2>4
    <3>2. Gone(k + 1) = Gone(k)
      <4>1. {j \in 1 .. (k + 1) : pos[j] \in DOMAIN blocks} = {j \in 1 .. k : pos[j] \in DOMAIN blocks}
        BY <2>1, <2>4
      <4> QED BY <4>1
    <3> HIDE DEF Gone
    <3> QED BY <2>1, <2>3, <3>1, <3>2
  <2>5. CASE pos[k + 1] \in DOMAIN blocks
    <3> DEFINE b == blocks[pos[k + 1]]
    <3>1. g[k + 1] = Taken(g[k], k + 1)
      BY <1>19, <2>1, <2>5
    <3>2. Gone(k + 1) = Gone(k) \cup {b}
      <4>1. {j \in 1 .. (k + 1) : pos[j] \in DOMAIN blocks}
              = {j \in 1 .. k : pos[j] \in DOMAIN blocks} \cup {k + 1}
        BY <2>1, <2>5
      <4> QED BY <4>1
    <3>3. b \notin Gone(k)
      <4>1. \A i \in 1 .. k : pos[i] \in 1 .. 7 /\ pos[i] # pos[k + 1]
        BY <2>1
      <4> QED BY <1>2, <2>5, <4>1
    <3>4. 1 \in DOMAIN blocks
      <4>1. Len(blocks) \in Nat /\ DOMAIN blocks = 1 .. Len(blocks)
        BY <1>2
      <4> QED BY <2>5, <4>1
    <3>5. blocks[1] \notin Gone(k)
      <4>1. \A i \in 1 .. k : pos[i] \in 1 .. 7 /\ pos[i] # 1
        BY <2>1
      <4> QED BY <1>2, <3>4, <4>1
    <3>6. b \in heap /\ blocks[1] \in heap
      BY <1>2, <2>5, <3>4
    <3>7. b \in g[k].blocks /\ blocks[1] \in g[k].blocks /\ ~ g[k].misused
      <4> HIDE DEF b, Gone
      <4> QED BY <2>3, <3>3, <3>5, <3>6
    <3>8. g[k + 1].blocks = g[k].blocks \ {b} /\ g[k + 1].misused = FALSE
      BY <1>20, <3>1, <3>7
    <3> HIDE DEF b, Gone
    <3>9. g[k + 1].blocks = heap \ Gone(k + 1) /\ g[k + 1].misused = FALSE
      BY <2>3, <3>2, <3>8
    <3> QED BY <2>1, <3>9
  <2> QED BY <2>4, <2>5
<1>17. 7 \in T
  <2> HIDE DEF T
  <2>1. \A k \in 0 .. (7 - 1) : k \in T => k + 1 \in T
    BY <1>16
  <2>2. \A k \in 0 .. 7 : k \in T
    BY <1>15, <2>1, UpTo
  <2> QED BY <2>2
<1>18. Gone(7) = {blocks[j] : j \in DOMAIN blocks}
  <2>1. ASSUME NEW j \in DOMAIN blocks PROVE blocks[j] \in Gone(7)
    <3>1. PICK i \in 1 .. 7 : pos[i] = j
      BY <1>2
    <3> QED BY <3>1
  <2> QED BY <2>1
<1> QED BY <1>13, <1>17, <1>18 DEF blocks

BlocksOf(t) == {terms[t].blocks[j] : j \in DOMAIN terms[t].blocks}

\* A terminal leaves the caller's heap: its blocks are given back, or lost.
LEMMA HeapLoses ==
  ASSUME LifeTypeOK, HeapIsOwned, NEW t \in InHeap, InHeap' = InHeap \ {t},
         \A u \in Terminals : u # t => terms'[u].blocks = terms[u].blocks,
         \A u \in Terminals : terms'[u].malloc = terms[u].malloc,
         allocated' = allocated, ~misused',
         \/ heap' = heap \ BlocksOf(t) /\ leaked' = leaked
         \/ /\ terms[t].malloc = "callerWithoutFree"
            /\ heap' = heap /\ leaked' = leaked \cup BlocksOf(t)
  PROVE  HeapIsOwned' /\ heap' \subseteq Blocks /\ leaked' \subseteq heap'
<1>1. /\ heap \subseteq Blocks /\ leaked \subseteq heap /\ BlocksOf(t) \subseteq heap
      /\ BlocksOf(t) \cap leaked = {}
  BY DEF LifeTypeOK, HeapIsOwned, BlocksOf
<1>2. heap' \subseteq heap /\ leaked' \subseteq heap' /\ heap' \ leaked' = (heap \ leaked) \ BlocksOf(t)
      /\ leaked' \subseteq leaked \cup BlocksOf(t)
  BY <1>1
<1>3. t \in Terminals /\ \A u \in InHeap' : u \in InHeap /\ u \in Terminals /\ u # t
                                             /\ terms'[u].blocks = terms[u].blocks
  BY DEF InHeap
<1>4. \A c \in heap' : \/ c \in leaked'
                       \/ \E u \in InHeap' : \E j \in DOMAIN terms'[u].blocks :
                            c = terms'[u].blocks[j]
  <2> SUFFICES ASSUME NEW c \in heap', c \notin leaked'
               PROVE  \E u \in InHeap' : \E j \in DOMAIN terms'[u].blocks :
                        c = terms'[u].blocks[j]
    OBVIOUS
  <2>1. c \in heap /\ c \notin leaked /\ c \notin BlocksOf(t)
    BY <1>2
  <2>2. PICK u \in InHeap : \E j \in DOMAIN terms[u].blocks : c = terms[u].blocks[j]
    BY <2>1 DEF HeapIsOwned
  <2>3. u # t
    BY <2>1, <2>2 DEF BlocksOf
  <2> QED BY <1>3, <2>2, <2>3
<1>5. \A u \in InHeap' : \A j \in DOMAIN terms'[u].blocks : terms'[u].blocks[j] \in heap'
  <2> SUFFICES ASSUME NEW u \in InHeap', NEW j \in DOMAIN terms[u].blocks
               PROVE  terms[u].blocks[j] \in heap'
    BY <1>3
  <2>1. terms[u].blocks[j] \in heap
    BY <1>3 DEF HeapIsOwned
  <2>2. terms[u].blocks[j] \notin BlocksOf(t)
    BY <1>3 DEF HeapIsOwned, BlocksOf
  <2> QED BY <2>1, <2>2
<1>6. \A c \in heap' : c.addr < allocated'
  BY <1>2 DEF HeapIsOwned
<1>7. \A u, v \in InHeap' : \A j \in DOMAIN terms'[u].blocks, k \in DOMAIN terms'[v].blocks :
        u # v \/ j # k => terms'[u].blocks[j].addr # terms'[v].blocks[k].addr
  BY <1>3 DEF HeapIsOwned
<1>8. \A u \in InHeap' : \A j \in DOMAIN terms'[u].blocks : \A c \in leaked' :
        terms'[u].blocks[j].addr # c.addr
  BY <1>2, <1>3 DEF HeapIsOwned, BlocksOf
<1>9. leaked' # {} => \E u \in Terminals : terms'[u].malloc = "callerWithoutFree"
  BY <1>3 DEF HeapIsOwned
<1> QED BY <1>1, <1>2, <1>4, <1>5, <1>6, <1>7, <1>8, <1>9 DEF HeapIsOwned

\* The orders in which the fields are freed.
LEMMA OrderOfFail ==
  ASSUME LifeTypeOK, HeapIsOwned, NEW t \in InHeap, RecordFits(t), Free(t, Reverse(Fields))
  PROVE  heap' = heap \ BlocksOf(t) /\ ~misused'
<1> DEFINE order == Reverse(Fields)
           pos == [i \in 1 .. 7 |-> 8 - i]
<1>1. order = [i \in 1 .. 7 |-> Fields[8 - i]]
  <2>1. \A i \in 1 .. 7 : (7 - i) + 1 = 8 - i
    OBVIOUS
  <2>2. order = [i \in 1 .. 7 |-> Fields[(7 - i) + 1]]
    BY FieldsFacts DEF Reverse
  <2> HIDE DEF order
  <2> QED BY <2>1, <2>2
<1>3. \A i \in 1 .. 7 : 8 - i \in 1 .. 7
  OBVIOUS
<1> HIDE DEF order
<1>5. DOMAIN order = 1 .. 7
  BY <1>1
<1>6. pos \in [1 .. 7 -> 1 .. 7] /\ pos[7] = 1
  BY <1>3
<1>7. \A i \in 1 .. 7 : order[i] = Fields[pos[i]]
  BY <1>1
<1>8. \A i, j \in 1 .. 7 : pos[i] = pos[j] => i = j
  OBVIOUS
<1>9. \A p \in 1 .. 7 : \E i \in 1 .. 7 : pos[i] = p
  <2> SUFFICES ASSUME NEW p \in 1 .. 7 PROVE \E i \in 1 .. 7 : pos[i] = p
    OBVIOUS
  <2>1. 8 - p \in 1 .. 7 /\ 8 - (8 - p) = p
    OBVIOUS
  <2> WITNESS 8 - p \in 1 .. 7
  <2> QED BY <2>1
<1>10. Free(t, order)
  BY DEF order
<1> HIDE DEF pos
<1> QED BY <1>5, <1>6, <1>7, <1>8, <1>9, <1>10, FreeIs DEF BlocksOf

LEMMA OrderOfDeinit ==
  ASSUME LifeTypeOK, HeapIsOwned, NEW t \in InHeap, RecordFits(t),
         Free(t, <<"font_bits", "font_bool", "grid", "queue", "map", "canvas", "ctx">>)
  PROVE  heap' = heap \ BlocksOf(t) /\ ~misused'
<1> DEFINE order == <<"font_bits", "font_bool", "grid", "queue", "map", "canvas", "ctx">>
           pos == [i \in 1 .. 7 |-> IF i = 7 THEN 1 ELSE i + 1]
<1>1. DOMAIN order = 1 .. 7
  OBVIOUS
<1>2. /\ pos[1] = 2 /\ pos[2] = 3 /\ pos[3] = 4 /\ pos[4] = 5 /\ pos[5] = 6 /\ pos[6] = 7
      /\ pos[7] = 1 /\ pos \in [1 .. 7 -> 1 .. 7]
  OBVIOUS
<1>3. \A i, j \in 1 .. 7 : pos[i] = pos[j] => i = j
  OBVIOUS
<1>4. \A p \in 1 .. 7 : \E i \in 1 .. 7 : pos[i] = p
  <2> SUFFICES ASSUME NEW p \in 1 .. 7 PROVE \E i \in 1 .. 7 : pos[i] = p
    OBVIOUS
  <2>1. CASE p = 1
    BY <1>2, <2>1
  <2>2. CASE p # 1
    <3>1. p - 1 \in 1 .. 7 /\ p - 1 # 7 /\ (p - 1) + 1 = p
      BY <2>2
    <3>2. pos[p - 1] = p
      BY <3>1
    <3> QED BY <3>1, <3>2
  <2> QED BY <2>1, <2>2
<1> HIDE DEF pos
<1>5. \A i \in 1 .. 7 : order[i] = Fields[pos[i]]
  <2>1. /\ order[1] = Fields[2] /\ order[2] = Fields[3] /\ order[3] = Fields[4]
        /\ order[4] = Fields[5] /\ order[5] = Fields[6] /\ order[6] = Fields[7]
        /\ order[7] = Fields[1]
    BY FieldsFacts
  <2> HIDE DEF order
  <2>2. \A i \in 1 .. 7 : i = 1 \/ i = 2 \/ i = 3 \/ i = 4 \/ i = 5 \/ i = 6 \/ i = 7
    OBVIOUS
  <2> QED BY <1>2, <2>1, <2>2
<1>6. Free(t, order)
  OBVIOUS
<1> HIDE DEF order
<1> QED BY <1>1, <1>2, <1>3, <1>4, <1>5, <1>6, FreeIs DEF BlocksOf

\* What the label fail does to the record of the terminal it gives up.
LEMMA GivesUp ==
  ASSUME LifeIInv, now \in Terminals, terms[now].status = "failing",
         NEW new \in {"failed", "faulted"},
         new = "faulted" => terms[now].malloc = "caller" /\ terms[now].blocks = <<>>,
         terms' = [terms EXCEPT ![now].status = new],
         now' = IF terms'[now].status = "faulted" THEN now ELSE "none"
  PROVE  /\ terms' \in [Terminals -> Records] /\ now' \in Terminals \cup {"none"}
         /\ terms'[now].status = new /\ (now' # "none" => new = "faulted" /\ now' = now)
         /\ \A u \in Terminals : /\ terms'[u].malloc = terms[u].malloc
                                 /\ terms'[u].blocks = terms[u].blocks
                                 /\ u # now => terms'[u] = terms[u]
         /\ OneIsMade' /\ \A u \in Terminals : RecordFits(u)'
<1>1. LifeTypeOK /\ OneIsMade /\ \A u \in Terminals : RecordFits(u)
  BY DEF LifeIInv
<1>2. new \in Statuses
  BY DEF Statuses
<1>3. /\ terms' \in [Terminals -> Records]
      /\ terms'[now].status = new /\ terms'[now].malloc = terms[now].malloc
      /\ terms'[now].shape = terms[now].shape /\ terms'[now].blocks = terms[now].blocks
      /\ \A u \in Terminals : u # now => terms'[u] = terms[u]
  BY <1>1, <1>2, StatusChanges
<1>4. now' = IF new = "faulted" THEN now ELSE "none"
  BY <1>3
<1>5. now' \in Terminals \cup {"none"} /\ (now' # "none" => new = "faulted" /\ now' = now)
  BY <1>4
<1>6. OneIsMade'
  BY <1>1, <1>3, <1>4, NumbersOfCalls DEF OneIsMade
<1>7. \A u \in Terminals : RecordFits(u)'
  <2>1. ASSUME NEW u \in Terminals, u = now PROVE RecordFits(u)'
    <3>1. /\ \A j \in DOMAIN terms[u].blocks :
               terms[u].blocks[j].size = Size(Fields[j], terms[u].shape)
          /\ Len(terms[u].blocks) <= Len(Fields)
          /\ terms[u].malloc \in Allocators /\ terms[u].shape \in Shapes
      BY <1>1, <2>1 DEF RecordFits
    <3>2. /\ terms'[u].status = new /\ terms'[u].malloc = terms[u].malloc
          /\ terms'[u].shape = terms[u].shape /\ terms'[u].blocks = terms[u].blocks
      BY <1>3, <2>1
    <3>3. new = "faulted" => terms[u].malloc = "caller" /\ terms[u].blocks = <<>>
      BY <2>1
    <3> QED BY <3>1, <3>2, <3>3 DEF RecordFits
  <2>2. \A u \in Terminals : u # now => RecordFits(u)'
    BY <1>1, <1>3 DEF RecordFits
  <2> QED BY <2>1, <2>2
<1>8. \A u \in Terminals : /\ terms'[u].malloc = terms[u].malloc
                           /\ terms'[u].blocks = terms[u].blocks
                           /\ u # now => terms'[u] = terms[u]
  BY <1>3
<1> QED BY <1>3, <1>5, <1>6, <1>7, <1>8

\* The terminals of the pool and of the heap that fail leaves.
LEMMA GivenUpIsGone ==
  ASSUME LifeTypeOK, now \in Terminals, terms[now].status = "failing",
         terms'[now].status \in {"failed", "faulted"},
         \A u \in Terminals : terms'[u].malloc = terms[u].malloc /\ (u # now => terms'[u] = terms[u])
  PROVE  /\ InHeap' = InHeap \ {now}
         /\ terms'[now].status = "failed" => InPool' = InPool \ {now}
         /\ terms[now].malloc = "pool" => now \in InPool /\ now \notin InHeap
         /\ terms[now].malloc # "pool" => now \notin InPool /\ InPool' = InPool
         /\ terms[now].malloc \in {"caller", "callerWithoutFree"} => now \in InHeap
<1>1. \A u \in InHeap' : u \in InHeap /\ u # now
  BY DEF InHeap
<1>2. \A u \in InHeap : u # now => u \in InHeap'
  BY DEF InHeap
<1>3. terms'[now].status = "failed" => InPool' = InPool \ {now}
  BY DEF InPool
<1>4. terms[now].malloc # "pool" => now \notin InPool /\ InPool' = InPool
  BY DEF InPool
<1> QED BY <1>1, <1>2, <1>3, <1>4 DEF InPool, InHeap

LEMMA FailKeeps == LifeIInv /\ Fail => LifeIInv'
<1> SUFFICES ASSUME LifeIInv, Fail PROVE LifeIInv'
  OBVIOUS
<1>1. LifeTypeOK /\ OneIsMade /\ PoolIsTiled /\ HeapIsOwned /\ \A u \in Terminals : RecordFits(u)
  BY DEF LifeIInv
<1>2. /\ now \in Terminals /\ terms[now].status = "failing"
      /\ now' = IF terms'[now].status = "faulted" THEN now ELSE "none"
      /\ UNCHANGED <<orig, allocated>>
  BY <1>1 DEF Fail, LifeTypeOK
<1>3. terms[now].malloc \in Allocators
  BY <1>1, <1>2 DEF RecordFits
<1>4. CASE terms[now].malloc = "pool"
  <2>1. /\ bump_alloc_ptr' = orig /\ terms' = [terms EXCEPT ![now].status = "failed"]
        /\ UNCHANGED <<heap, misused, leaked>>
    BY <1>4 DEF Fail
  <2>2. /\ terms' \in [Terminals -> Records] /\ now' = "none" /\ terms'[now].status = "failed"
        /\ \A u \in Terminals : /\ terms'[u].malloc = terms[u].malloc
                                /\ terms'[u].blocks = terms[u].blocks
                                /\ u # now => terms'[u] = terms[u]
        /\ OneIsMade' /\ \A u \in Terminals : RecordFits(u)'
    BY <1>2, <2>1, GivesUp
  <2>3. InHeap' = InHeap /\ InPool' = InPool \ {now} /\ now \in InPool
    BY <1>1, <1>2, <1>4, <2>2, GivenUpIsGone
  <2>4. LifeTypeOK'
    BY <1>1, <1>2, <2>1, <2>2 DEF LifeTypeOK
  <2>5. HeapIsOwned'
    <3>1. \A t \in InHeap : terms'[t].blocks = terms[t].blocks
      BY <2>2 DEF InHeap
    <3> QED BY <1>1, <1>2, <2>1, <2>2, <2>3, <3>1, HeapStays
  <2>6. PoolIsTiled'
    <3>1. \A t \in InPool' : t \in InPool \ {now} /\ terms'[t] = terms[t]
      BY <2>2, <2>3 DEF InPool
    <3>2. Tiled(InPool \ {now}, orig)
      BY <1>1, <2>3 DEF PoolIsTiled
    <3>3. Tiled(InPool, bump_alloc_ptr)'
      BY <2>1, <2>3, <3>1, <3>2 DEF Tiled
    <3>4. now' \notin InPool'
      BY <2>2, NumbersOfCalls DEF InPool
    <3>5. \A t, u \in InPool' : \A j \in DOMAIN terms'[t].blocks, k \in DOMAIN terms'[u].blocks :
            t # u \/ j # k => Apart(terms'[t].blocks[j], terms'[u].blocks[k])
      BY <1>1, <3>1 DEF PoolIsTiled
    <3> QED BY <3>3, <3>4, <3>5 DEF PoolIsTiled
  <2> QED BY <2>2, <2>4, <2>5, <2>6 DEF LifeIInv
<1>5. ASSUME terms[now].malloc # "pool", NEW new \in {"failed", "faulted"},
             new = "faulted" => terms[now].malloc = "caller" /\ terms[now].blocks = <<>>,
             terms' = [terms EXCEPT ![now].status = new], UNCHANGED bump_alloc_ptr, ~misused',
             \/ heap' = heap \ BlocksOf(now) /\ leaked' = leaked
             \/ /\ terms[now].malloc = "callerWithoutFree"
                /\ heap' = heap /\ leaked' = leaked \cup BlocksOf(now)
      PROVE  LifeIInv'
  <2>2. /\ terms' \in [Terminals -> Records] /\ now' \in Terminals \cup {"none"}
        /\ terms'[now].status = new /\ (now' # "none" => now' = now)
        /\ \A u \in Terminals : /\ terms'[u].malloc = terms[u].malloc
                                /\ terms'[u].blocks = terms[u].blocks
                                /\ u # now => terms'[u] = terms[u]
        /\ OneIsMade' /\ \A u \in Terminals : RecordFits(u)'
    BY <1>2, <1>5, GivesUp
  <2>3. InHeap' = InHeap \ {now} /\ now \in InHeap /\ now \notin InPool /\ InPool' = InPool
    BY <1>1, <1>2, <1>3, <1>5, <2>2, GivenUpIsGone DEF Allocators
  <2>4. HeapIsOwned' /\ heap' \subseteq Blocks /\ leaked' \subseteq heap'
    BY <1>1, <1>2, <1>5, <2>2, <2>3, HeapLoses
  <2>5. LifeTypeOK'
    BY <1>1, <1>2, <1>5, <2>2, <2>4 DEF LifeTypeOK
  <2>6. PoolIsTiled'
    <3>1. \A t \in InPool : terms'[t].blocks = terms[t].blocks
      BY <2>2 DEF InPool
    <3>2. now' \notin InPool
      BY <2>2, <2>3, NumbersOfCalls DEF InPool
    <3> QED BY <1>1, <1>5, <2>3, <3>1, <3>2, PoolStays
  <2> QED BY <2>2, <2>4, <2>5, <2>6 DEF LifeIInv
<1>6. CASE terms[now].malloc = "callerWithoutFree"
  <2>1. /\ leaked' = leaked \cup ToSet(terms[now].blocks)
        /\ terms' = [terms EXCEPT ![now].status = "failed"]
        /\ UNCHANGED <<bump_alloc_ptr, heap, misused>>
    BY <1>6 DEF Fail
  <2>2. ToSet(terms[now].blocks) = BlocksOf(now)
    BY DEF ToSet, BlocksOf
  <2>3. ~misused'
    BY <1>1, <2>1 DEF HeapIsOwned
  <2> QED BY <1>5, <1>6, <2>1, <2>2, <2>3
<1>7. CASE terms[now].malloc = "caller" /\ terms[now].blocks # <<>>
  <2>1. /\ Free(now, Reverse(Fields))
        /\ terms' = [terms EXCEPT ![now].status = "failed"]
        /\ UNCHANGED <<bump_alloc_ptr, leaked>>
    BY <1>7 DEF Fail
  <2>2. now \in InHeap
    BY <1>2, <1>7 DEF InHeap
  <2>3. heap' = heap \ BlocksOf(now) /\ ~misused'
    BY <1>1, <1>2, <2>1, <2>2, OrderOfFail
  <2> QED BY <1>5, <1>7, <2>1, <2>3
<1>8. CASE terms[now].malloc = "caller" /\ terms[now].blocks = <<>>
  <2>1. /\ terms' = [terms EXCEPT ![now].status = "faulted"]
        /\ UNCHANGED <<bump_alloc_ptr, heap, misused, leaked>>
    BY <1>8 DEF Fail
  <2>2. BlocksOf(now) = {}
    BY <1>8 DEF BlocksOf
  <2>3. ~misused'
    BY <1>1, <2>1 DEF HeapIsOwned
  <2> QED BY <1>5, <1>8, <2>1, <2>2, <2>3
<1> QED BY <1>3, <1>4, <1>6, <1>7, <1>8 DEF Allocators

LEMMA DeinitKeeps ==
  ASSUME LifeIInv, NEW t \in Terminals, Deinit(t)
  PROVE  LifeIInv'
<1>1. LifeTypeOK /\ OneIsMade /\ PoolIsTiled /\ HeapIsOwned /\ \A u \in Terminals : RecordFits(u)
  BY DEF LifeIInv
<1>2. /\ now = "none" /\ terms[t].status = "live"
      /\ leaked' = IF terms[t].malloc = "callerWithoutFree"
                   THEN leaked \cup ToSet(terms[t].blocks) ELSE leaked
      /\ terms' = [terms EXCEPT ![t].status = "closed", ![t].pixels = <<>>]
      /\ UNCHANGED <<now, bump_alloc_ptr, orig, allocated>>
  BY DEF Deinit
<1>3. terms[t].malloc \in Allocators
  BY <1>1, <1>2 DEF RecordFits
<1>4. /\ terms' \in [Terminals -> Records]
      /\ terms'[t].status = "closed" /\ terms'[t].malloc = terms[t].malloc
      /\ terms'[t].shape = terms[t].shape /\ terms'[t].blocks = terms[t].blocks
      /\ \A u \in Terminals : u # t => terms'[u] = terms[u]
  <2>1. "closed" \in Statuses /\ <<>> \in {<<>>} \cup {FullRefresh(s) : s \in Shapes}
    BY DEF Statuses
  <2> QED BY <1>1, <1>2, <2>1, PictureChanges
<1>5. \A u \in Terminals : terms'[u].malloc = terms[u].malloc /\ terms'[u].blocks = terms[u].blocks
  BY <1>4
<1>6. OneIsMade'
  BY <1>1, <1>2, <1>4, NumbersOfCalls DEF OneIsMade
<1>7. \A u \in Terminals : RecordFits(u)'
  <2>1. RecordFits(t)'
    BY <1>1, <1>2, <1>4 DEF RecordFits
  <2>2. \A u \in Terminals : u # t => RecordFits(u)'
    BY <1>1, <1>4 DEF RecordFits
  <2> QED BY <2>1, <2>2
<1>8. InPool' = InPool /\ InHeap' = InHeap \ {t}
  <2>1. InPool' = InPool
    <3>1. \A u \in Terminals : /\ terms'[u].malloc = terms[u].malloc
                               /\ terms'[u].status = "failed" <=> terms[u].status = "failed"
      BY <1>2, <1>4
    <3> QED BY <3>1 DEF InPool
  <2>2. \A u \in InHeap' : u \in InHeap /\ u # t
    BY <1>4 DEF InHeap
  <2>3. \A u \in InHeap : u # t => u \in InHeap'
    BY <1>4 DEF InHeap
  <2> QED BY <2>1, <2>2, <2>3
<1>9. PoolIsTiled'
  <2>1. \A u \in InPool : terms'[u].blocks = terms[u].blocks
    BY <1>5 DEF InPool
  <2>2. now' \notin InPool
    BY <1>2, NumbersOfCalls DEF InPool
  <2> QED BY <1>1, <1>2, <1>8, <2>1, <2>2, PoolStays
<1>10. HeapIsOwned' /\ heap' \subseteq Blocks /\ leaked' \subseteq heap'
  <2>1. CASE terms[t].malloc = "pool"
    <3>1. UNCHANGED <<heap, misused, leaked>>
      BY <1>2, <2>1 DEF Deinit
    <3>2. InHeap' = InHeap
      BY <1>8, <2>1 DEF InHeap
    <3>3. \A u \in InHeap : terms'[u].blocks = terms[u].blocks
      BY <1>5 DEF InHeap
    <3>4. HeapIsOwned'
      BY <1>1, <1>2, <1>5, <3>1, <3>2, <3>3, HeapStays
    <3> QED BY <1>1, <3>1, <3>4 DEF LifeTypeOK
  <2>2. CASE terms[t].malloc # "pool"
    <3>1. t \in InHeap
      BY <1>2, <1>3, <2>2 DEF InHeap, Allocators
    <3>2. CASE terms[t].malloc = "caller"
      <4>1. Free(t, <<"font_bits", "font_bool", "grid", "queue", "map", "canvas", "ctx">>)
            /\ leaked' = leaked
        BY <1>2, <3>2 DEF Deinit
      <4>2. heap' = heap \ BlocksOf(t) /\ ~misused'
        BY <1>1, <3>1, <4>1, OrderOfDeinit
      <4> QED BY <1>1, <1>2, <1>5, <1>8, <3>1, <4>1, <4>2, HeapLoses
    <3>3. CASE terms[t].malloc = "callerWithoutFree"
      <4>1. UNCHANGED <<heap, misused>> /\ leaked' = leaked \cup ToSet(terms[t].blocks)
        BY <1>2, <3>3 DEF Deinit
      <4>2. ToSet(terms[t].blocks) = BlocksOf(t)
        BY DEF ToSet, BlocksOf
      <4>3. ~misused'
        BY <1>1, <4>1 DEF HeapIsOwned
      <4> QED BY <1>1, <1>2, <1>5, <1>8, <3>1, <3>3, <4>1, <4>2, <4>3, HeapLoses
    <3> QED BY <1>3, <2>2, <3>2, <3>3 DEF Allocators
  <2> QED BY <2>1, <2>2
<1>11. LifeTypeOK'
  BY <1>1, <1>2, <1>4, <1>10 DEF LifeTypeOK
<1> QED BY <1>6, <1>7, <1>9, <1>10, <1>11 DEF LifeIInv

\* Every step of a terminal's life keeps the inductive invariant.
LEMMA LifeStepKeeps == LifeIInv /\ [LifeNext]_lifeVars => LifeIInv'
<1> SUFFICES ASSUME LifeIInv, [LifeNext]_lifeVars PROVE LifeIInv'
  OBVIOUS
<1>1. ASSUME NEW t \in Terminals, NEW s \in Shapes, NEW malloc \in Allocators,
             Begin(t, s, malloc)
      PROVE  LifeIInv'
  BY <1>1, BeginKeeps
<1>2. CASE BumpAlloc
  BY <1>2, BumpAllocKeeps
<1>3. CASE Malloc
  BY <1>3, MallocKeeps
<1>4. CASE Finish
  BY <1>4, FinishKeeps
<1>5. CASE Fail
  BY <1>5, FailKeeps
<1>6. ASSUME NEW t \in Terminals, Deinit(t) PROVE LifeIInv'
  BY <1>6, DeinitKeeps
<1>7. CASE UNCHANGED lifeVars
  BY <1>7 DEF lifeVars, LifeIInv, LifeTypeOK, OneIsMade, RecordFits, PoolIsTiled, Tiled,
              InPool, HeapIsOwned, InHeap
<1> QED BY <1>1, <1>2, <1>3, <1>4, <1>5, <1>6, <1>7 DEF LifeNext

\* The inductive invariant holds of every terminal's life.
THEOREM LifeInvariance == LifeSpec => []LifeIInv
BY LifeInitIInv, LifeStepKeeps, PTL DEF LifeSpec

-----------------------------------------------------------------------------
(* What the inductive invariant says of the blocks. *)

LEMMA LiveBlocksFit ==
  ASSUME LifeIInv, NEW t \in Terminals, terms[t].status = "live",
         NEW s, s = terms[t].shape
  PROVE  /\ terms[t].blocks[2].size >= Glyphs * FontHeight(s)
         /\ terms[t].blocks[3].size >=
              ((Glyphs - 1) * FontHeight(s) + FontHeight(s) - 1) * CellWidth(s) + CellWidth(s)
         /\ terms[t].blocks[4].size >= Rows(s) * Cols(s) * CharSize
         /\ terms[t].blocks[5].size >= Rows(s) * Cols(s) * ItemSize
         /\ terms[t].blocks[6].size >= Rows(s) * Cols(s) * PointerSize
         /\ terms[t].blocks[7].size >= ((s.height - 1) * s.width + s.width) * PixelSize
         /\ OffsetX(s) + Cols(s) * GlyphWidth(s) <= s.width - s.margin
         /\ OffsetY(s) + Rows(s) * GlyphHeight(s) <= s.height - s.margin
<1> DEFINE blocks == terms[t].blocks
           b == [j \in 1 .. 7 |-> Size(Fields[j], s)]
<1>1. /\ s \in Shapes /\ Len(blocks) = 7 /\ blocks \in Seq(Blocks)
      /\ \A j \in DOMAIN blocks : blocks[j].size = Size(Fields[j], s)
  <2>1. /\ s \in Shapes /\ \A j \in DOMAIN blocks : blocks[j].size = Size(Fields[j], s)
    BY DEF LifeIInv, RecordFits
  <2>2. Len(blocks) = Len(Fields)
    BY DEF LifeIInv, RecordFits
  <2>3. blocks \in Seq(Blocks)
    BY DEF LifeIInv, LifeTypeOK, Records
  <2> HIDE DEF blocks
  <2>4. Len(blocks) = 7
    BY <2>2, FieldsFacts
  <2> QED BY <2>1, <2>3, <2>4
<1> HIDE DEF blocks
<1>2. DOMAIN blocks = 1 .. 7
  BY <1>1
<1>3. \A j \in 1 .. 7 : b[j] = blocks[j].size
  BY <1>1, <1>2
<1>4. Fits(b, s)
  BY <1>1, SizeFacts
<1> HIDE DEF b
<1>5. /\ b[2] = blocks[2].size /\ b[3] = blocks[3].size /\ b[4] = blocks[4].size
      /\ b[5] = blocks[5].size /\ b[6] = blocks[6].size /\ b[7] = blocks[7].size
  BY <1>3
<1> QED BY <1>1, <1>4, <1>5, LayoutFacts DEF Fits, blocks

LEMMA BlocksFitFollows == LifeIInv => BlocksFit
<1> SUFFICES ASSUME LifeIInv PROVE BlocksFit
  OBVIOUS
<1>1. \A t \in Terminals : terms[t].status = "live" =>
        LET s == terms[t].shape
            Room(j) == terms[t].blocks[j].size
            cells == Rows(s) * Cols(s)
        IN  /\ Room(2) >= Glyphs * FontHeight(s)
            /\ Room(3) >= ((Glyphs - 1) * FontHeight(s) + FontHeight(s) - 1) * CellWidth(s)
                            + CellWidth(s)
            /\ Room(4) >= cells * CharSize
            /\ Room(5) >= cells * ItemSize
            /\ Room(6) >= cells * PointerSize
            /\ Room(7) >= ((s.height - 1) * s.width + s.width) * PixelSize
            /\ OffsetX(s) + Cols(s) * GlyphWidth(s) <= s.width - s.margin
            /\ OffsetY(s) + Rows(s) * GlyphHeight(s) <= s.height - s.margin
  <2> SUFFICES ASSUME NEW t \in Terminals, terms[t].status = "live"
               PROVE
        LET s == terms[t].shape
            Room(j) == terms[t].blocks[j].size
            cells == Rows(s) * Cols(s)
        IN  /\ Room(2) >= Glyphs * FontHeight(s)
            /\ Room(3) >= ((Glyphs - 1) * FontHeight(s) + FontHeight(s) - 1) * CellWidth(s)
                            + CellWidth(s)
            /\ Room(4) >= cells * CharSize
            /\ Room(5) >= cells * ItemSize
            /\ Room(6) >= cells * PointerSize
            /\ Room(7) >= ((s.height - 1) * s.width + s.width) * PixelSize
            /\ OffsetX(s) + Cols(s) * GlyphWidth(s) <= s.width - s.margin
            /\ OffsetY(s) + Rows(s) * GlyphHeight(s) <= s.height - s.margin
    OBVIOUS
  <2> QED BY LiveBlocksFit
<1> DEFINE poolBlocks == UNION {{<<t, j>> : j \in DOMAIN terms[t].blocks} :
                            t \in {u \in Terminals : /\ terms[u].malloc = "pool"
                                                     /\ terms[u].status # "failed"}}
           Block(q) == terms[q[1]].blocks[q[2]]
<1>2. \A q \in poolBlocks : /\ q[1] \in InPool /\ q[2] \in DOMAIN terms[q[1]].blocks
                      /\ q = <<q[1], q[2]>>
  BY DEF InPool
<1> HIDE DEF poolBlocks
<1>3. PoolIsTiled /\ LifeTypeOK /\ PoolSize \in Nat
  BY NumbersOfCalls DEF LifeIInv
<1>4. \A q \in poolBlocks : Block(q).addr + Block(q).size <= PoolSize
  <2> SUFFICES ASSUME NEW q \in poolBlocks PROVE Block(q).addr + Block(q).size <= PoolSize
    OBVIOUS
  <2> DEFINE b == Block(q)
  <2>1. b.addr + b.size <= bump_alloc_ptr
    BY <1>2, <1>3 DEF PoolIsTiled, Tiled
  <2>2. b \in Blocks
    <3> DEFINE blocks == terms[q[1]].blocks
    <3>1. blocks \in Seq(Blocks)
      BY <1>2, <1>3 DEF InPool, LifeTypeOK, Records
    <3>2. q[2] \in DOMAIN blocks
      BY <1>2
    <3> HIDE DEF blocks
    <3>3. blocks[q[2]] \in Blocks
      BY <3>1, <3>2
    <3> QED BY <3>3 DEF blocks
  <2> HIDE DEF b
  <2>3. b.addr + b.size <= PoolSize
    BY <1>3, <2>1, <2>2 DEF LifeTypeOK, Blocks
  <2> QED BY <2>3 DEF b
<1>5. \A q, r \in poolBlocks : q # r => Apart(Block(q), Block(r))
  BY <1>2, <1>3 DEF PoolIsTiled
<1>6. \A q, r \in poolBlocks : q # r =>
        \/ Block(q).addr + Block(q).size <= Block(r).addr
        \/ Block(r).addr + Block(r).size <= Block(q).addr
  BY <1>5 DEF Apart
<1> QED BY <1>1, <1>4, <1>6 DEF BlocksFit, poolBlocks

\* A terminal's blocks have room for its fonts, its cells and its canvas; blocks
\* of the pool lie in it and share no byte; the text is between the margins.
THEOREM LifeBlocksFit == LifeSpec => []BlocksFit
BY LifeInvariance, BlocksFitFollows, PTL

\* The bytes of a set of blocks.
BytesIn(set) == UNION {BytesOf(b) : b \in set}

\* The sum of the sizes of blocks, as a function that recurs like the fold.
SumsUp(F, all) ==
  F = [s \in SUBSET all |->
         IF s = {} THEN 0
         ELSE F[s \ {CHOOSE x \in s : TRUE}] + (CHOOSE x \in s : TRUE).size]

LEMMA BlocksAreFinite ==
  ASSUME NEW n \in Nat, NEW all, \A b \in all : b \in Blocks /\ b.addr + b.size <= n
  PROVE  IsFiniteSet(all)
<1> DEFINE T == (0 .. n) \X (0 .. n)
           f == [b \in all |-> <<b.addr, b.size>>]
<1>1. IsFiniteSet(0 .. n)
  BY FS_Interval
<1>2. IsFiniteSet(T)
  BY <1>1, FS_Product
<1>3. \A b \in all : b.addr \in 0 .. n /\ b.size \in 0 .. n /\ b = [addr |-> b.addr, size |-> b.size]
  BY DEF Blocks
<1>4. f \in [all -> T]
  BY <1>3
<1>5. \A b, c \in all : f[b] = f[c] => b = c
  <2> SUFFICES ASSUME NEW b \in all, NEW c \in all, f[b] = f[c] PROVE b = c
    OBVIOUS
  <2>1. b.addr = c.addr /\ b.size = c.size
    OBVIOUS
  <2> QED BY <1>3, <2>1
<1> HIDE DEF f, T
<1>6. f \in Injection(all, T)
  BY <1>4, <1>5 DEF Injection, IsInjective
<1> QED BY <1>2, <1>6, FS_Injection

LEMMA BytesOfBlock ==
  ASSUME NEW b \in Blocks
  PROVE  IsFiniteSet(BytesOf(b)) /\ Cardinality(BytesOf(b)) = b.size
<1>1. b.addr \in Nat /\ b.size \in Nat
  BY DEF Blocks
<1> DEFINE x == b.addr
           y == b.addr + b.size - 1
<1>2. x \in Int /\ y \in Int /\ (IF x > y THEN 0 ELSE y - x + 1) = b.size
  BY <1>1
<1>3. BytesOf(b) = x .. y
  BY DEF BytesOf
<1> HIDE DEF x, y
<1>4. IsFiniteSet(x .. y) /\ Cardinality(x .. y) = IF x > y THEN 0 ELSE y - x + 1
  BY <1>2, FS_Interval
<1> QED BY <1>2, <1>3, <1>4

\* One block more, one block's bytes more: blocks that share no byte.
LEMMA BytesAddUp ==
  ASSUME NEW n \in Nat, NEW all, \A b \in all : b \in Blocks /\ b.addr + b.size <= n,
         \A b, c \in all : b # c => Apart(b, c),
         NEW s \in SUBSET all, NEW x \in s
  PROVE  Cardinality(BytesIn(s)) = Cardinality(BytesIn(s \ {x})) + x.size
<1>1. ASSUME NEW r \in SUBSET all PROVE IsFiniteSet(BytesIn(r))
  <2>1. \A b \in r : BytesOf(b) \in SUBSET (0 .. n)
    BY DEF BytesOf, Blocks
  <2>2. BytesIn(r) \in SUBSET (0 .. n)
    BY <2>1 DEF BytesIn
  <2>3. IsFiniteSet(0 .. n)
    BY FS_Interval
  <2> QED BY <2>2, <2>3, FS_Subset
<1> DEFINE r == s \ {x}
<1>2. x \in Blocks /\ r \in SUBSET all /\ x.size \in Nat
  BY DEF Blocks
<1>3. BytesIn(s) = BytesIn(r) \cup BytesOf(x)
  BY DEF BytesIn
<1>4. BytesIn(r) \cap BytesOf(x) = {}
  <2> SUFFICES ASSUME NEW k \in BytesIn(r), k \in BytesOf(x) PROVE FALSE
    OBVIOUS
  <2>1. PICK b \in r : k \in BytesOf(b)
    BY DEF BytesIn
  <2>2. b \in Blocks /\ Apart(b, x)
    BY <1>2
  <2> QED BY <1>2, <2>1, <2>2 DEF Apart, BytesOf, Blocks
<1>5. IsFiniteSet(BytesIn(r)) /\ IsFiniteSet(BytesOf(x)) /\ Cardinality(BytesOf(x)) = x.size
      /\ Cardinality(BytesIn(r)) \in Nat
  BY <1>1, <1>2, BytesOfBlock, FS_CardinalityType
<1>6. Cardinality(BytesIn(r) \cup BytesOf(x)) =
        Cardinality(BytesIn(r)) + Cardinality(BytesOf(x)) - Cardinality({})
  <2> DEFINE A == BytesIn(r)
             B == BytesOf(x)
  <2>1. IsFiniteSet(A) /\ IsFiniteSet(B) /\ A \cap B = {}
    BY <1>4, <1>5
  <2> HIDE DEF A, B
  <2>2. Cardinality(A \cup B) = Cardinality(A) + Cardinality(B) - Cardinality(A \cap B)
    BY <2>1, FS_Union
  <2>3. Cardinality(A \cup B) = Cardinality(A) + Cardinality(B) - Cardinality({})
    BY <2>1, <2>2
  <2> QED BY <2>3 DEF A, B
<1>7. Cardinality({}) = 0
  BY FS_EmptySet
<1> HIDE DEF r
<1>8. Cardinality(BytesIn(s)) = Cardinality(BytesIn(r)) + x.size
  BY <1>2, <1>3, <1>5, <1>6, <1>7
<1> QED BY <1>8 DEF r

\* Whatever recurs like the fold counts the bytes.
LEMMA SumOfBlocks ==
  ASSUME NEW n \in Nat, NEW all, \A b \in all : b \in Blocks /\ b.addr + b.size <= n,
         \A b, c \in all : b # c => Apart(b, c),
         NEW F, SumsUp(F, all)
  PROVE  F[all] = Cardinality(BytesIn(all))
<1>1. IsFiniteSet(all)
  BY BlocksAreFinite
<1>2. \A s \in SUBSET all : IsFiniteSet(s) /\ Cardinality(s) \in Nat
                            /\ (Cardinality(s) = 0 <=> s = {})
  BY <1>1, FS_Subset, FS_CardinalityType, FS_EmptySet
<1> DEFINE Agrees(s) == F[s] = Cardinality(BytesIn(s))
           T == {k \in 0 .. Cardinality(all) :
                   \A s \in SUBSET all : Cardinality(s) = k => Agrees(s)}
<1>5. Cardinality(all) \in Nat
  BY <1>2
<1>6. 0 \in T
  <2>1. BytesIn({}) = {}
    BY DEF BytesIn
  <2>2. F[{}] = 0 /\ Cardinality({}) = 0
    BY FS_EmptySet DEF SumsUp
  <2>3. \A s \in SUBSET all : Cardinality(s) = 0 => s = {}
    BY <1>2
  <2> QED BY <1>5, <2>1, <2>2, <2>3
<1>7. ASSUME NEW k \in 0 .. (Cardinality(all) - 1), k \in T PROVE k + 1 \in T
  <2> SUFFICES ASSUME NEW s \in SUBSET all, Cardinality(s) = k + 1 PROVE Agrees(s)
    BY <1>5
  <2> DEFINE x == CHOOSE x \in s : TRUE
             r == s \ {x}
  <2>1. s # {}
    BY <1>2
  <2>2. x \in s
    BY <2>1
  <2>3. F[s] = F[r] + x.size
    BY <2>1 DEF SumsUp
  <2> HIDE DEF x
  <2>4. r \in SUBSET all /\ Cardinality(r) = k
    <3>1. IsFiniteSet(s)
      BY <1>2
    <3>2. Cardinality(r) = Cardinality(s) - 1
      BY <2>2, <3>1, FS_RemoveElement
    <3> QED BY <1>5, <3>2
  <2>5. F[r] = Cardinality(BytesIn(r))
    BY <1>7, <2>4
  <2>6. Cardinality(BytesIn(s)) = Cardinality(BytesIn(r)) + x.size
    BY <2>2, BytesAddUp
  <2> QED BY <2>3, <2>5, <2>6
<1>8. Cardinality(all) \in T
  <2> HIDE DEF T
  <2>1. \A k \in 0 .. Cardinality(all) : k \in T
    BY <1>5, <1>6, <1>7, UpTo
  <2> QED BY <1>5, <2>1
<1> QED BY <1>8

\* The sum of the sizes of blocks that share no byte is the number of their bytes.
LEMMA FoldSumsUp ==
  ASSUME NEW n \in Nat, NEW all, \A b \in all : b \in Blocks /\ b.addr + b.size <= n,
         \A b, c \in all : b # c => Apart(b, c)
  PROVE  FoldSet(LAMBDA b, m : m + b.size, 0, all) = Cardinality(BytesIn(all))
<1> DEFINE F == CHOOSE F : SumsUp(F, all)
           G == [s \in SUBSET all |-> Cardinality(BytesIn(s))]
<1>1. FoldSet(LAMBDA b, m : m + b.size, 0, all) = F[all]
  BY DEF FoldSet, MapThenFoldSet, SumsUp
<1>2. SumsUp(G, all)
  <2>1. ASSUME NEW s \in SUBSET all, s # {}
        PROVE  G[s] = G[s \ {CHOOSE x \in s : TRUE}] + (CHOOSE x \in s : TRUE).size
    <3> DEFINE x == CHOOSE x \in s : TRUE
    <3>1. x \in s
      BY <2>1
    <3> HIDE DEF x
    <3>2. Cardinality(BytesIn(s)) = Cardinality(BytesIn(s \ {x})) + x.size
      BY <3>1, BytesAddUp
    <3>3. s \ {x} \in SUBSET all
      OBVIOUS
    <3>4. G[s] = G[s \ {x}] + x.size
      BY <3>2, <3>3
    <3> QED BY <3>4 DEF x
  <2>2. G[{}] = 0
    <3>1. BytesIn({}) = {} /\ {} \in SUBSET all
      BY DEF BytesIn
    <3> QED BY <3>1, FS_EmptySet
  <2>3. G = [s \in SUBSET all |-> G[s]]
    OBVIOUS
  <2> HIDE DEF G
  <2> QED BY <2>1, <2>2, <2>3 DEF SumsUp
<1> HIDE DEF G
<1>3. SumsUp(F, all)
  BY <1>2
<1> HIDE DEF F
<1>4. F[all] = Cardinality(BytesIn(all))
  BY <1>3, SumOfBlocks
<1> QED BY <1>1, <1>4

LEMMA MemoryFollows == LifeIInv => MemoryIsAccountedFor
<1> SUFFICES ASSUME LifeIInv PROVE MemoryIsAccountedFor
  OBVIOUS
<1>1. LifeTypeOK /\ OneIsMade /\ PoolIsTiled /\ HeapIsOwned /\ \A u \in Terminals : RecordFits(u)
  BY DEF LifeIInv
<1>2. heap = From("caller", Kept) \cup From("callerWithoutFree", Kept) \cup leaked
  <2>1. \A c : c \in From("caller", Kept) <=>
          \E t \in Terminals : /\ terms[t].status \in {"building", "failing", "live"}
                               /\ terms[t].malloc = "caller" /\ c \in BlocksOf(t)
    BY DEF From, Kept, ToSet, BlocksOf
  <2>2. \A c : c \in From("callerWithoutFree", Kept) <=>
          \E t \in Terminals : /\ terms[t].status \in {"building", "failing", "live"}
                               /\ terms[t].malloc = "callerWithoutFree" /\ c \in BlocksOf(t)
    BY DEF From, Kept, ToSet, BlocksOf
  <2>3. \A c : c \in From("caller", Kept) \cup From("callerWithoutFree", Kept)
                 <=> \E t \in InHeap : c \in BlocksOf(t)
    BY <2>1, <2>2 DEF InHeap
  <2>4. \A c : c \in heap <=> c \in leaked \/ \E t \in InHeap : c \in BlocksOf(t)
    BY <1>1 DEF HeapIsOwned, LifeTypeOK, BlocksOf
  <2> QED BY <2>3, <2>4
<1> DEFINE poolBlocks == From("pool", {t \in Terminals : terms[t].status \in
                                 {"building", "failing", "live", "closed"}})
<1>3. bump_alloc_ptr = FoldSet(LAMBDA b, n : n + b.size, 0, poolBlocks)
  <2>1. \A c : c \in poolBlocks <=> \E t \in InPool : c \in BlocksOf(t)
    <3>1. \A t \in Terminals : terms[t].status \in Statuses
      BY <1>1 DEF LifeTypeOK, Records
    <3>2. \A t \in Terminals :
            terms[t].malloc = "pool" =>
              terms[t].status # "unused" /\ terms[t].status # "faulted"
      BY <1>1 DEF RecordFits
    <3>3. \A t \in Terminals :
            t \in InPool <=> /\ terms[t].status \in {"building", "failing", "live", "closed"}
                             /\ terms[t].malloc = "pool"
      BY <3>1, <3>2 DEF InPool, Statuses
    <3>4. \A t \in InPool : t \in Terminals
      BY DEF InPool
    <3> QED BY <3>3, <3>4 DEF From, ToSet, BlocksOf
  <2> HIDE DEF poolBlocks
  <2>2. \A c \in poolBlocks : c \in Blocks /\ c.addr + c.size <= bump_alloc_ptr
    <3>1. \A t \in InPool : terms[t].blocks \in Seq(Blocks)
      BY <1>1 DEF LifeTypeOK, Records, InPool
    <3>2. \A t \in InPool : \A j \in DOMAIN terms[t].blocks : terms[t].blocks[j] \in Blocks
      BY <3>1
    <3> QED BY <1>1, <2>1, <3>2 DEF PoolIsTiled, Tiled, BlocksOf
  <2>3. \A c, d \in poolBlocks : c # d => Apart(c, d)
    BY <1>1, <2>1 DEF PoolIsTiled, BlocksOf
  <2>4. bump_alloc_ptr \in Nat
    BY <1>1, NumbersOfCalls DEF LifeTypeOK
  <2>5. BytesIn(poolBlocks) = 0 .. (bump_alloc_ptr - 1)
    <3>1. \A k \in BytesIn(poolBlocks) : k \in 0 .. (bump_alloc_ptr - 1)
      BY <2>2, <2>4 DEF BytesIn, BytesOf, Blocks
    <3>2. ASSUME NEW k \in 0 .. (bump_alloc_ptr - 1) PROVE k \in BytesIn(poolBlocks)
      <4>1. PICK t \in InPool : \E j \in DOMAIN terms[t].blocks : k \in BytesOf(terms[t].blocks[j])
        BY <1>1 DEF PoolIsTiled, Tiled
      <4>2. PICK c \in BlocksOf(t) : k \in BytesOf(c)
        BY <4>1 DEF BlocksOf
      <4>3. c \in poolBlocks
        BY <2>1, <4>1, <4>2
      <4> QED BY <4>2, <4>3 DEF BytesIn
    <3> QED BY <3>1, <3>2
  <2>6. Cardinality(BytesIn(poolBlocks)) = bump_alloc_ptr
    <3>1. 0 \in Int /\ bump_alloc_ptr - 1 \in Int
      BY <2>4
    <3>2. Cardinality(0 .. (bump_alloc_ptr - 1)) =
            IF 0 > bump_alloc_ptr - 1 THEN 0 ELSE (bump_alloc_ptr - 1) - 0 + 1
      BY <3>1, FS_Interval
    <3> QED BY <2>4, <2>5, <3>2
  <2>7. FoldSet(LAMBDA b, n : n + b.size, 0, poolBlocks) = Cardinality(BytesIn(poolBlocks))
    BY <2>2, <2>3, <2>4, FoldSumsUp
  <2> QED BY <2>6, <2>7
<1>4. ~misused /\ (leaked # {} => \E t \in Terminals : terms[t].malloc = "callerWithoutFree")
  BY <1>1 DEF HeapIsOwned
<1>5. \A t \in Terminals :
        terms[t].status = "faulted" => terms[t].blocks = <<>> /\ terms[t].malloc = "caller"
  BY <1>1 DEF RecordFits
<1> QED BY <1>2, <1>3, <1>4, <1>5 DEF MemoryIsAccountedFor

\* The caller's blocks in use are those of the terminals in use and those lost
\* for want of a free, each is given back once while its context is there, and
\* the pool holds its terminals' blocks and nothing else.
THEOREM LifeMemoryIsAccountedFor == LifeSpec => []MemoryIsAccountedFor
BY LifeInvariance, MemoryFollows, PTL

-----------------------------------------------------------------------------
(* The first picture. *)

\* Whole lines and what is left over of a line.
LEMMA SamePlace ==
  ASSUME NEW p \in Nat, NEW a \in 0 .. (p - 1), NEW b \in 0 .. (p - 1),
         NEW c \in Nat, NEW d \in Nat, a + c * p = b + d * p
  PROVE  a = b /\ c = d
<1>1. ASSUME NEW u \in Nat, NEW v \in Nat, u < v PROVE u * p + p <= v * p
  <2>1. u + 1 \in Nat /\ u + 1 <= v /\ (u + 1) * p = u * p + p
    BY <1>1
  <2>2. (u + 1) * p <= v * p
    BY <2>1, TimesKeepsOrder
  <2> QED BY <2>1, <2>2
<1> DEFINE P == c * p
           Q == d * p
<1>2. P \in Nat /\ Q \in Nat /\ a + P = b + Q
  BY ProductIsNat
<1>3. (c < d => P + p <= Q) /\ (d < c => Q + p <= P)
  BY <1>1
<1> HIDE DEF P, Q
<1>4. ~ (c < d) /\ ~ (d < c)
  BY <1>2, <1>3
<1>5. c = d
  BY <1>4
<1> QED BY <1>2, <1>5 DEF P, Q

LEMMA DivisionIs ==
  ASSUME NEW p \in Nat, NEW a \in 0 .. (p - 1), NEW c \in Nat
  PROVE  (a + c * p) \div p = c /\ (a + c * p) % p = a
<1> DEFINE n == a + c * p
           q == n \div p
           r == n % p
<1>1. c * p \in Nat /\ p > 0
  BY ProductIsNat
<1>2. n \in Nat
  BY <1>1
<1> HIDE DEF n
<1>3. q \in Nat /\ r \in 0 .. (p - 1) /\ n = p * q + r
  BY <1>1, <1>2, QuotientIs
<1> HIDE DEF q, r
<1>4. r + q * p = a + c * p
  BY <1>3 DEF n
<1>5. r = a /\ q = c
  BY <1>3, <1>4, SamePlace
<1> QED BY <1>5 DEF q, r, n

LEMMA WithinCells ==
  ASSUME NEW n \in Nat, NEW c \in Nat, c < n, NEW g \in Nat
  PROVE  c * g \in Nat /\ n * g \in Nat /\ c * g + g <= n * g
<1>1. (c + 1) * g <= n * g /\ (c + 1) * g = c * g + g
  BY TimesKeepsOrder
<1> QED BY <1>1, ProductIsNat

Words(s) == 0 .. (s.pitch * s.height - 1)

LEMMA WordOf ==
  ASSUME NEW s \in Shapes, NEW x \in 0 .. (s.pitch - 1), NEW y \in 0 .. (s.height - 1)
  PROVE  /\ y * s.pitch + x \in Words(s)
         /\ (y * s.pitch + x) \div s.pitch = y /\ (y * s.pitch + x) % s.pitch = x
<1>1. s.pitch \in Nat /\ s.height \in Nat
  BY ShapeFacts
<1> DEFINE p == s.pitch
           h == s.height
<1> HIDE DEF p, h
<1>2. p \in Nat /\ h \in Nat /\ x \in 0 .. (p - 1) /\ y \in 0 .. (h - 1)
  BY <1>1 DEF p, h
<1>3. y * p \in Nat /\ y * p + p <= h * p /\ h * p \in Nat
  BY <1>2, WithinCells
<1> DEFINE P == y * p
           Q == h * p
<1>4. p * h = Q /\ y * p + x = x + y * p
  BY <1>2, <1>3
<1> HIDE DEF P, Q
<1>5. P + x \in 0 .. (Q - 1)
  BY <1>2, <1>3 DEF P, Q
<1>6. (x + y * p) \div p = y /\ (x + y * p) % p = x
  BY <1>2, DivisionIs
<1> QED BY <1>4, <1>5, <1>6 DEF Words, P, p, h

Cells(s) == Rows(s) * Cols(s)
CellX(s, i) == OffsetX(s) + (i % Cols(s)) * GlyphWidth(s)
CellY(s, i) == OffsetY(s) + (i \div Cols(s)) * GlyphHeight(s)

\* A cell's column and row are those of the text, and its pixels are on the screen.
LEMMA CellFacts ==
  ASSUME NEW s \in Shapes, NEW i \in 0 .. (Cells(s) - 1)
  PROVE  /\ Cols(s) > 0
         /\ i % Cols(s) \in 0 .. (Cols(s) - 1) /\ i \div Cols(s) \in 0 .. (Rows(s) - 1)
         /\ i = (i \div Cols(s)) * Cols(s) + (i % Cols(s))
         /\ CellX(s, i) \in Nat /\ CellX(s, i) + GlyphWidth(s) <= s.width
         /\ CellY(s, i) \in Nat /\ CellY(s, i) + GlyphHeight(s) <= s.height
         /\ CellX(s, i) >= OffsetX(s) /\ CellY(s, i) >= OffsetY(s)
<1> DEFINE w == Cols(s)
           h == Rows(s)
           gw == GlyphWidth(s)
           gh == GlyphHeight(s)
           q == i \div w
           r == i % w
<1>1. /\ w \in Nat /\ h \in Nat /\ gw \in Nat /\ gh \in Nat
      /\ OffsetX(s) \in Nat /\ OffsetY(s) \in Nat
      /\ s.width \in Nat /\ s.height \in Nat /\ s.margin \in Nat
      /\ OffsetX(s) + w * gw <= s.width - s.margin
      /\ OffsetY(s) + h * gh <= s.height - s.margin
      /\ w * gw \in Nat /\ h * gh \in Nat
  BY LayoutFacts, ShapeFacts
<1> HIDE DEF w, h, gw, gh
<1>2. i \in Nat /\ i < h * w /\ h * w \in Nat
  <2>1. h * w \in Nat /\ i \in 0 .. (h * w - 1)
    BY <1>1, ProductIsNat DEF Cells, h, w
  <2> QED BY <2>1
<1>3. w > 0
  <2> SUFFICES ASSUME w = 0 PROVE FALSE
    BY <1>1
  <2>1. h * w = 0
    BY <1>1
  <2> QED BY <1>2, <2>1
<1>4. q \in Nat /\ r \in 0 .. (w - 1) /\ i = w * q + r
  BY <1>1, <1>2, <1>3, QuotientIs
<1> HIDE DEF q, r
<1>5. w * q = q * w /\ q * w \in Nat
  BY <1>1, <1>4
<1>6. q < h
  <2> SUFFICES ASSUME h <= q PROVE FALSE
    BY <1>1, <1>4
  <2>1. h * w <= q * w
    BY <1>1, <1>4, TimesKeepsOrder
  <2> DEFINE P == q * w
             Q == h * w
  <2>2. i = P + r /\ P \in Nat /\ Q \in Nat /\ Q <= P /\ i < Q
    BY <1>2, <1>4, <1>5, <2>1
  <2> HIDE DEF P, Q
  <2> QED BY <1>1, <1>4, <2>2
<1>7. r * gw \in Nat /\ r * gw + gw <= w * gw
  BY <1>1, <1>4, WithinCells
<1>8. q * gh \in Nat /\ q * gh + gh <= h * gh
  BY <1>1, <1>4, <1>6, WithinCells
<1>9. CellX(s, i) = OffsetX(s) + r * gw /\ CellY(s, i) = OffsetY(s) + q * gh
  BY DEF CellX, CellY, w, gw, gh, q, r
<1> DEFINE R == r * gw
           G == q * gh
           W == w * gw
           H == h * gh
<1>10. /\ R \in Nat /\ R + gw <= W /\ G \in Nat /\ G + gh <= H /\ W \in Nat /\ H \in Nat
       /\ OffsetX(s) + W <= s.width - s.margin /\ OffsetY(s) + H <= s.height - s.margin
       /\ CellX(s, i) = OffsetX(s) + R /\ CellY(s, i) = OffsetY(s) + G
  BY <1>1, <1>7, <1>8, <1>9
<1> HIDE DEF R, G, W, H
<1>11. /\ CellX(s, i) \in Nat /\ CellX(s, i) + gw <= s.width
       /\ CellY(s, i) \in Nat /\ CellY(s, i) + gh <= s.height
       /\ CellX(s, i) >= OffsetX(s) /\ CellY(s, i) >= OffsetY(s)
  BY <1>1, <1>10
<1>12. i = q * w + r /\ q \in 0 .. (h - 1)
  BY <1>1, <1>4, <1>5, <1>6
<1> QED BY <1>3, <1>4, <1>11, <1>12 DEF w, h, gw, gh, q, r

InCell(s, i, x, y) ==
  /\ CellX(s, i) <= x /\ x < CellX(s, i) + GlyphWidth(s)
  /\ CellY(s, i) <= y /\ y < CellY(s, i) + GlyphHeight(s)

\* What a pixel of cell i shows.
Shown(s, i, x, y, cursor) ==
  [canvas |-> x + y * s.width, cell |-> i,
   bit |-> ((y - CellY(s, i)) \div s.scaleY) * CellWidth(s)
             + ((x - CellX(s, i)) \div s.scaleX),
   cursor |-> cursor]

\* plot_char changes the pixels of its cell and no other.
LEMMA PlotCharIs ==
  ASSUME NEW s \in Shapes, NEW i \in 0 .. (Cells(s) - 1), NEW cursor,
         NEW pixels, DOMAIN pixels = Words(s),
         NEW x \in 0 .. (s.pitch - 1), NEW y \in 0 .. (s.height - 1)
  PROVE  PlotChar(pixels, s, i, cursor)[y * s.pitch + x] =
           IF InCell(s, i, x, y) THEN Shown(s, i, x, y, cursor)
           ELSE pixels[y * s.pitch + x]
<1> DEFINE X == CellX(s, i)
           Y == CellY(s, i)
           gw == GlyphWidth(s)
           gh == GlyphHeight(s)
           p == s.pitch
           k == y * p + x
           PixelAt(gx, gy) == X + gx + (Y + gy) * p
           BitAt(gx, gy) == (gy \div s.scaleY) * CellWidth(s) + (gx \div s.scaleX)
           drawn == {<<gx, gy>> : gx \in 0 .. (gw - 1), gy \in 0 .. (gh - 1)}
           g == CHOOSE g \in drawn : PixelAt(g[1], g[2]) = k
<1>1. k \in DOMAIN pixels
  BY WordOf
<1>2. PlotChar(pixels, s, i, cursor)[k] =
        IF \E d \in drawn : PixelAt(d[1], d[2]) = k
        THEN [canvas |-> X + g[1] + (Y + g[2]) * s.width, cell |-> i,
              bit |-> BitAt(g[1], g[2]), cursor |-> cursor]
        ELSE pixels[k]
  BY <1>1 DEF PlotChar, CellX, CellY
<1>3. /\ X \in Nat /\ Y \in Nat /\ gw \in Nat /\ gh \in Nat /\ gw > 0 /\ gh > 0 /\ p \in Nat
      /\ X + gw <= p /\ x \in 0 .. (p - 1) /\ y \in Nat
  <2>1. /\ X \in Nat /\ Y \in Nat /\ X + GlyphWidth(s) <= s.width
    BY CellFacts
  <2>2. /\ GlyphWidth(s) \in Nat /\ GlyphHeight(s) \in Nat
        /\ GlyphWidth(s) > 0 /\ GlyphHeight(s) > 0
        /\ s.pitch \in Nat /\ s.width \in Nat /\ s.width <= s.pitch /\ s.height \in Nat
    BY ShapeFacts
  <2> HIDE DEF X, Y
  <2> QED BY <2>1, <2>2
<1> HIDE DEF X, Y, gw, gh, p
<1>4. \A a \in 0 .. (gw - 1), b \in 0 .. (gh - 1) :
        PixelAt(a, b) = k <=> a = x - X /\ b = y - Y
  <2> SUFFICES ASSUME NEW a \in 0 .. (gw - 1), NEW b \in 0 .. (gh - 1)
               PROVE  PixelAt(a, b) = k <=> a = x - X /\ b = y - Y
    OBVIOUS
  <2> DEFINE A == X + a
             B == Y + b
  <2>1. A \in 0 .. (p - 1) /\ B \in Nat
    BY <1>3
  <2>2. k = x + y * p
    BY <1>3, ProductIsNat
  <2>3. PixelAt(a, b) = A + B * p
    OBVIOUS
  <2>4. (A = x /\ B = y) <=> (a = x - X /\ b = y - Y)
    BY <1>3
  <2> HIDE DEF A, B, k, PixelAt
  <2>5. A + B * p = x + y * p => A = x /\ B = y
    BY <1>3, <2>1, SamePlace
  <2> QED BY <2>2, <2>3, <2>4, <2>5
<1> HIDE DEF PixelAt, k
<1>5. InCell(s, i, x, y) <=> x - X \in 0 .. (gw - 1) /\ y - Y \in 0 .. (gh - 1)
  <2>1. InCell(s, i, x, y) <=> X <= x /\ x < X + gw /\ Y <= y /\ y < Y + gh
    BY DEF InCell, X, Y, gw, gh
  <2> QED BY <1>3, <2>1
<1>6. \A d \in drawn : d[1] \in 0 .. (gw - 1) /\ d[2] \in 0 .. (gh - 1) /\ d = <<d[1], d[2]>>
  OBVIOUS
<1>7. CASE InCell(s, i, x, y)
  <2> DEFINE here == <<x - X, y - Y>>
  <2>1. here \in drawn /\ PixelAt(here[1], here[2]) = k
    BY <1>4, <1>5, <1>7
  <2>2. \A d \in drawn : PixelAt(d[1], d[2]) = k => d = here
    BY <1>4, <1>6
  <2> HIDE DEF here, drawn
  <2>3. g = here
    BY <2>1, <2>2
  <2>10. \E d \in drawn : PixelAt(d[1], d[2]) = k
    BY <2>1
  <2> HIDE DEF g
  <2>4. g[1] = x - X /\ g[2] = y - Y
    BY <2>3 DEF here
  <2>5. PlotChar(pixels, s, i, cursor)[k] =
          [canvas |-> X + g[1] + (Y + g[2]) * s.width, cell |-> i,
           bit |-> BitAt(g[1], g[2]), cursor |-> cursor]
    BY <1>2, <2>10 DEF g
  <2>6. X + (x - X) = x /\ Y + (y - Y) = y
    BY <1>3
  <2>7. X + g[1] + (Y + g[2]) * s.width = x + y * s.width
    BY <2>4, <2>6
  <2>8. BitAt(g[1], g[2]) = ((y - Y) \div s.scaleY) * CellWidth(s) + ((x - X) \div s.scaleX)
    BY <2>4
  <2> HIDE DEF BitAt
  <2>9. PlotChar(pixels, s, i, cursor)[k] = Shown(s, i, x, y, cursor)
    BY <2>5, <2>7, <2>8 DEF Shown, X, Y
  <2> QED BY <1>7, <2>9 DEF k, p
<1>8. CASE ~ InCell(s, i, x, y)
  <2>1. \A d \in drawn : PixelAt(d[1], d[2]) # k
    BY <1>4, <1>5, <1>6, <1>8
  <2> HIDE DEF drawn, g, BitAt
  <2>2. PlotChar(pixels, s, i, cursor)[k] = pixels[k]
    BY <1>2, <2>1
  <2> QED BY <1>8, <2>2 DEF k, p
<1> QED BY <1>7, <1>8

Pixel == [canvas : Int, cell : Int, bit : Int, cursor : BOOLEAN]
Pictures(s) == [Words(s) -> Pixel]

LEMMA PlotCharIsPicture ==
  ASSUME NEW s \in Shapes, NEW i \in 0 .. (Cells(s) - 1), NEW cursor \in BOOLEAN,
         NEW pixels \in Pictures(s)
  PROVE  PlotChar(pixels, s, i, cursor) \in Pictures(s)
<1> DEFINE X == CellX(s, i)
           Y == CellY(s, i)
           gw == GlyphWidth(s)
           gh == GlyphHeight(s)
           PixelAt(gx, gy) == X + gx + (Y + gy) * s.pitch
           BitAt(gx, gy) == (gy \div s.scaleY) * CellWidth(s) + (gx \div s.scaleX)
           drawn == {<<gx, gy>> : gx \in 0 .. (gw - 1), gy \in 0 .. (gh - 1)}
           g(k) == CHOOSE g \in drawn : PixelAt(g[1], g[2]) = k
           Ink(d) == [canvas |-> X + d[1] + (Y + d[2]) * s.width, cell |-> i,
                      bit |-> BitAt(d[1], d[2]), cursor |-> cursor]
<1>1. PlotChar(pixels, s, i, cursor) =
        [k \in Words(s) |-> IF \E d \in drawn : PixelAt(d[1], d[2]) = k
                            THEN Ink(g(k)) ELSE pixels[k]]
  <2>1. DOMAIN pixels = Words(s)
    BY DEF Pictures
  <2> QED BY <2>1 DEF PlotChar, CellX, CellY
<1>2. \A d \in drawn : Ink(d) \in Pixel
  <2> SUFFICES ASSUME NEW a \in 0 .. (gw - 1), NEW b \in 0 .. (gh - 1)
               PROVE  Ink(<<a, b>>) \in Pixel
    OBVIOUS
  <2>1. /\ X \in Nat /\ Y \in Nat /\ s.width \in Nat /\ CellWidth(s) \in Nat
        /\ s.scaleX \in Nat /\ s.scaleX > 0 /\ s.scaleY \in Nat /\ s.scaleY > 0
        /\ gw \in Nat /\ gh \in Nat
    BY CellFacts, ShapeFacts
  <2> HIDE DEF X, Y, gw, gh
  <2>2. a \in Nat /\ b \in Nat /\ Y + b \in Nat
    BY <2>1
  <2>3. b \div s.scaleY \in Nat /\ a \div s.scaleX \in Nat
    BY <2>1, <2>2, QuotientIs
  <2>4. (Y + b) * s.width \in Nat /\ (b \div s.scaleY) * CellWidth(s) \in Nat
    BY <2>1, <2>2, <2>3, ProductIsNat
  <2> DEFINE c == X + a + (Y + b) * s.width
             bit == BitAt(a, b)
  <2>5. c \in Int /\ bit \in Int
    BY <2>1, <2>2, <2>3, <2>4
  <2>6. i \in Int
    BY <2>1, LayoutFacts, ProductIsNat DEF Cells
  <2>7. Ink(<<a, b>>) = [canvas |-> c, cell |-> i, bit |-> bit, cursor |-> cursor]
    OBVIOUS
  <2> HIDE DEF c, bit, Ink
  <2> QED BY <2>5, <2>6, <2>7 DEF Pixel
<1> HIDE DEF PixelAt, drawn, Ink
<1>3. \A k \in Words(s) :
        (IF \E d \in drawn : PixelAt(d[1], d[2]) = k THEN Ink(g(k)) ELSE pixels[k]) \in Pixel
  <2> SUFFICES ASSUME NEW k \in Words(s)
               PROVE (IF \E d \in drawn : PixelAt(d[1], d[2]) = k THEN Ink(g(k)) ELSE pixels[k])
                        \in Pixel
    OBVIOUS
  <2>1. pixels[k] \in Pixel
    BY DEF Pictures
  <2>2. (\E d \in drawn : PixelAt(d[1], d[2]) = k) => g(k) \in drawn
    OBVIOUS
  <2> HIDE DEF g
  <2> QED BY <1>2, <2>1, <2>2
<1> HIDE DEF g
<1> QED BY <1>1, <1>3 DEF Pictures

InText(s, x, y) ==
  /\ x >= OffsetX(s) /\ y >= OffsetY(s)
  /\ (x - OffsetX(s)) \div GlyphWidth(s) < Cols(s)
  /\ (y - OffsetY(s)) \div GlyphHeight(s) < Rows(s)

CellAt(s, x, y) ==
  ((y - OffsetY(s)) \div GlyphHeight(s)) * Cols(s) + ((x - OffsetX(s)) \div GlyphWidth(s))

\* The cells lie side by side: a place of the text is in one of them, at its
\* remainder, and other places are in none.
LEMMA CellsTileTheText ==
  ASSUME NEW s \in Shapes, NEW i \in 0 .. (Cells(s) - 1), NEW x \in Nat, NEW y \in Nat
  PROVE  /\ InCell(s, i, x, y) <=> InText(s, x, y) /\ CellAt(s, x, y) = i
         /\ InCell(s, i, x, y) =>
              /\ x - CellX(s, i) = (x - OffsetX(s)) % GlyphWidth(s)
              /\ y - CellY(s, i) = (y - OffsetY(s)) % GlyphHeight(s)
<1> DEFINE w == Cols(s)
           h == Rows(s)
           gw == GlyphWidth(s)
           gh == GlyphHeight(s)
           ox == OffsetX(s)
           oy == OffsetY(s)
           col == i % w
           row == i \div w
           qx == (x - ox) \div gw
           rx == (x - ox) % gw
           qy == (y - oy) \div gh
           ry == (y - oy) % gh
<1>1. /\ w \in Nat /\ h \in Nat /\ gw \in Nat /\ gw > 0 /\ gh \in Nat /\ gh > 0
      /\ ox \in Nat /\ oy \in Nat
  BY ShapeFacts, LayoutFacts
<1>2. /\ w > 0 /\ col \in 0 .. (w - 1) /\ row \in 0 .. (h - 1) /\ i = row * w + col
      /\ CellX(s, i) = ox + col * gw /\ CellY(s, i) = oy + row * gh
  BY CellFacts DEF CellX, CellY
<1>3. /\ InText(s, x, y) <=> x >= ox /\ y >= oy /\ qx < w /\ qy < h
      /\ CellAt(s, x, y) = qy * w + qx
      /\ InCell(s, i, x, y) <=> /\ CellX(s, i) <= x /\ x < CellX(s, i) + gw
                                /\ CellY(s, i) <= y /\ y < CellY(s, i) + gh
  BY DEF InText, CellAt, InCell
<1> HIDE DEF w, h, gw, gh, ox, oy, col, row
<1>4. col \in Nat /\ row \in Nat /\ col * gw \in Nat /\ row * gh \in Nat
  BY <1>1, <1>2, ProductIsNat
<1> DEFINE C == col * gw
           R == row * gh
<1>5. CellX(s, i) = ox + C /\ CellY(s, i) = oy + R /\ C \in Nat /\ R \in Nat
  BY <1>2, <1>4
<1>6. x >= ox => qx \in Nat /\ rx \in 0 .. (gw - 1) /\ x - ox = rx + qx * gw
  <2> SUFFICES ASSUME x >= ox PROVE qx \in Nat /\ rx \in 0 .. (gw - 1) /\ x - ox = rx + qx * gw
    OBVIOUS
  <2> DEFINE a == x - ox
  <2>1. a \in Nat
    BY <1>1
  <2> HIDE DEF a
  <2>2. a \div gw \in Nat /\ a % gw \in 0 .. (gw - 1) /\ a = gw * (a \div gw) + (a % gw)
    BY <1>1, <2>1, QuotientIs
  <2>3. a = (a % gw) + (a \div gw) * gw
    BY <1>1, <2>2
  <2> QED BY <2>2, <2>3 DEF a
<1>7. y >= oy => qy \in Nat /\ ry \in 0 .. (gh - 1) /\ y - oy = ry + qy * gh
  <2> SUFFICES ASSUME y >= oy PROVE qy \in Nat /\ ry \in 0 .. (gh - 1) /\ y - oy = ry + qy * gh
    OBVIOUS
  <2> DEFINE a == y - oy
  <2>1. a \in Nat
    BY <1>1
  <2> HIDE DEF a
  <2>2. a \div gh \in Nat /\ a % gh \in 0 .. (gh - 1) /\ a = gh * (a \div gh) + (a % gh)
    BY <1>1, <2>1, QuotientIs
  <2>3. a = (a % gh) + (a \div gh) * gh
    BY <1>1, <2>2
  <2> QED BY <2>2, <2>3 DEF a
<1> HIDE DEF qx, rx, qy, ry
<1>8. ASSUME InCell(s, i, x, y)
      PROVE  x >= ox /\ y >= oy /\ qx = col /\ rx = x - CellX(s, i)
             /\ qy = row /\ ry = y - CellY(s, i)
  <2> DEFINE a == x - CellX(s, i)
             b == y - CellY(s, i)
  <2>1. /\ CellX(s, i) <= x /\ x < CellX(s, i) + gw /\ CellY(s, i) <= y
        /\ y < CellY(s, i) + gh
    BY <1>3, <1>8
  <2> HIDE DEF C, R
  <2>2. /\ x >= ox /\ y >= oy /\ a \in 0 .. (gw - 1) /\ b \in 0 .. (gh - 1)
        /\ x - ox = a + C /\ y - oy = b + R
    BY <1>1, <1>5, <2>1
  <2> HIDE DEF a, b
  <2>3. rx + qx * gw = a + col * gw
    BY <1>6, <2>2 DEF C
  <2>4. ry + qy * gh = b + row * gh
    BY <1>7, <2>2 DEF R
  <2>5. rx = a /\ qx = col
    BY <1>1, <1>4, <1>6, <2>2, <2>3, SamePlace
  <2>6. ry = b /\ qy = row
    BY <1>1, <1>4, <1>7, <2>2, <2>4, SamePlace
  <2> QED BY <2>2, <2>5, <2>6 DEF a, b
<1>9. ASSUME InText(s, x, y), CellAt(s, x, y) = i PROVE InCell(s, i, x, y)
  <2>1. /\ x >= ox /\ y >= oy /\ qx \in 0 .. (w - 1) /\ qy \in Nat
        /\ rx \in 0 .. (gw - 1) /\ ry \in 0 .. (gh - 1)
    BY <1>1, <1>3, <1>6, <1>7, <1>9
  <2>2. qx + qy * w = col + row * w
    <3> DEFINE P == qy * w
               Q == row * w
    <3>1. P \in Nat /\ Q \in Nat
      BY <1>1, <1>4, <2>1, ProductIsNat
    <3>2. P + qx = Q + col
      BY <1>2, <1>3, <1>9
    <3> HIDE DEF P, Q
    <3>3. qx + P = col + Q
      BY <1>4, <2>1, <3>1, <3>2
    <3> QED BY <3>3 DEF P, Q
  <2>3. qx = col /\ qy = row
    BY <1>1, <1>2, <1>4, <2>1, <2>2, SamePlace
  <2>4. x - ox = rx + C /\ y - oy = ry + R
    BY <1>6, <1>7, <2>1, <2>3
  <2> HIDE DEF C, R
  <2>5. /\ CellX(s, i) <= x /\ x < CellX(s, i) + gw /\ CellY(s, i) <= y
        /\ y < CellY(s, i) + gh
    BY <1>1, <1>5, <2>1, <2>4
  <2> QED BY <1>3, <2>5
<1>10. InCell(s, i, x, y) => InText(s, x, y) /\ CellAt(s, x, y) = i
  <2> SUFFICES ASSUME InCell(s, i, x, y) PROVE InText(s, x, y) /\ CellAt(s, x, y) = i
    OBVIOUS
  <2>1. x >= ox /\ y >= oy /\ qx = col /\ qy = row
    BY <1>8
  <2>2. qx < w /\ qy < h
    BY <1>1, <1>2, <2>1
  <2>3. qy * w + qx = i
    BY <1>2, <2>1
  <2> QED BY <1>3, <2>1, <2>2, <2>3
<1>11. InCell(s, i, x, y) => /\ x - CellX(s, i) = rx /\ y - CellY(s, i) = ry
  BY <1>8
<1> QED BY <1>9, <1>10, <1>11 DEF rx, ry, gw, gh, ox, oy

CanvasOf(s) ==
  [k \in Words(s) |-> IF k % s.pitch < s.width
                      THEN Canvas((k \div s.pitch) * s.width + (k % s.pitch)) ELSE Untouched]

LEMMA CanvasIsPicture ==
  ASSUME NEW s \in Shapes
  PROVE  CanvasOf(s) \in Pictures(s)
<1>1. \A k \in Int : Canvas(k) \in Pixel
  BY DEF Canvas, Pixel
<1>2. Untouched \in Pixel
  BY DEF Untouched, Canvas, Pixel
<1>3. ASSUME NEW k \in Words(s) PROVE CanvasOf(s)[k] \in Pixel
  <2> DEFINE p == s.pitch
             h == s.height
             w == s.width
             c == (k \div p) * w + (k % p)
  <2>1. p \in Nat /\ h \in Nat /\ w \in Nat
    BY ShapeFacts
  <2>2. k \in 0 .. (p * h - 1)
    BY DEF Words
  <2>3. CanvasOf(s)[k] = IF k % p < w THEN Canvas(c) ELSE Untouched
    BY DEF CanvasOf
  <2> HIDE DEF p, h, w
  <2>4. p * h \in Nat
    BY <2>1, ProductIsNat
  <2>5. p > 0
    <3> SUFFICES ASSUME p = 0 PROVE FALSE
      BY <2>1
    <3>1. p * h = 0
      BY <2>1
    <3> QED BY <2>2, <3>1
  <2>6. k \in Nat
    BY <2>2, <2>4
  <2>7. k \div p \in Nat /\ k % p \in 0 .. (p - 1)
    BY <2>1, <2>5, <2>6, QuotientIs
  <2>8. (k \div p) * w \in Nat
    BY <2>1, <2>7, ProductIsNat
  <2>9. c \in Int
    BY <2>1, <2>7, <2>8
  <2> HIDE DEF c
  <2> QED BY <1>1, <1>2, <2>3, <2>9
<1>4. CanvasOf(s) = [k \in Words(s) |-> CanvasOf(s)[k]]
  BY DEF CanvasOf
<1> QED BY <1>3, <1>4 DEF Pictures

\* full_refresh draws the canvas, then cell after cell, and the cursor.
LEMMA RefreshRun ==
  ASSUME NEW s \in Shapes
  PROVE  /\ Cells(s) \in Nat
         /\ \E g \in [0 .. Cells(s) -> Pictures(s)] :
              /\ g[0] = CanvasOf(s)
              /\ \A k \in 1 .. Cells(s) : g[k] = PlotChar(g[k - 1], s, k - 1, FALSE)
              /\ FullRefresh(s) = IF Cells(s) > 0 THEN PlotChar(g[Cells(s)], s, 0, TRUE)
                                  ELSE g[Cells(s)]
<1> DEFINE n == Cells(s)
           V == Pictures(s)
           base == CanvasOf(s)
           Op(u, i) == PlotChar(u, s, i, FALSE)
           q == [j \in 1 .. n |-> j - 1]
           step == [p \in V \X (1 .. n) |-> Op(p[1], q[p[2]])]
           Loop(F) == F = [c \in SUBSET (DOMAIN q) |->
                       IF c = {} THEN base ELSE Op(F[c \ {Max(c)}], q[Max(c)])]
           F == CHOOSE F : Loop(F)
           Grid == F[DOMAIN q]
<1>1. FullRefresh(s) = IF n > 0 THEN PlotChar(Grid, s, 0, TRUE) ELSE Grid
  BY DEF FullRefresh, FoldLeft, MapThenFoldSet, CanvasOf, Words, Cells
<1>2. n \in Nat
  BY LayoutFacts, ProductIsNat DEF Cells
<1> HIDE DEF n
<1>3. \A k \in 1 .. n : q[k] \in 0 .. (n - 1) /\ q[k] = k - 1
  BY <1>2
<1>4. DOMAIN q = 1 .. n
  OBVIOUS
<1> HIDE DEF q
<1>5. base \in V /\ \A u \in V, k \in 1 .. n : Op(u, q[k]) \in V
  BY <1>3, CanvasIsPicture, PlotCharIsPicture DEF n
<1> HIDE DEF V, Op, base
<1>6. step \in [V \X (1 .. n) -> V] /\ \A u \in V, k \in 1 .. n : step[<<u, k>>] = Op(u, q[k])
  BY <1>5
<1> HIDE DEF step
<1>7. PICK f \in [SUBSET (1 .. n) -> V], g \in [0 .. n -> V] :
        /\ Recurs(f, n, base, step) /\ g[0] = base
        /\ \A k \in 1 .. n : g[k] = step[<<g[k - 1], k>>]
        /\ \A G : Follows(G, n, V, base, step) => G[1 .. n] = g[n]
  <2>1. Stepwise(n, V, base, step)
    BY <1>2, <1>5, <1>6, FoldRun
  <2> QED BY <2>1 DEF Stepwise
<1>8. \A c \in SUBSET (1 .. n) : c # {} => Max(c) \in 1 .. n
  BY <1>2, LargestOf
<1>9. Loop(F)
  <2>1. Loop(f)
    <3>1. \A c \in SUBSET (1 .. n) : c # {} => f[c \ {Max(c)}] \in V
      BY <1>7
    <3>2. \A c \in SUBSET (1 .. n) :
            (IF c = {} THEN base ELSE step[<<f[c \ {Max(c)}], Max(c)>>])
              = (IF c = {} THEN base ELSE Op(f[c \ {Max(c)}], q[Max(c)]))
      BY <1>6, <1>8, <3>1
    <3> QED BY <1>4, <1>7, <3>2 DEF Recurs
  <2> HIDE DEF Loop
  <2> QED BY <2>1
<1> HIDE DEF F
<1>10. Follows(F, n, V, base, step)
  BY <1>4, <1>6, <1>8, <1>9 DEF Follows
<1>11. F[DOMAIN q] = g[n]
  BY <1>4, <1>7, <1>10
<1>12. \A k \in 1 .. n : g[k] = Op(g[k - 1], q[k])
  <2>1. \A k \in 1 .. n : g[k - 1] \in V
    BY <1>2, <1>7
  <2> QED BY <1>6, <1>7, <2>1
<1>13. FullRefresh(s) = IF n > 0 THEN PlotChar(g[n], s, 0, TRUE) ELSE g[n]
  BY <1>1, <1>11
<1>14. \A k \in 1 .. n : g[k] = PlotChar(g[k - 1], s, k - 1, FALSE)
  BY <1>3, <1>12 DEF Op
<1>15. g[0] = CanvasOf(s) /\ g \in [0 .. n -> Pictures(s)]
  BY <1>7 DEF V, base
<1> QED BY <1>2, <1>13, <1>14, <1>15 DEF n

\* What the finished picture shows at a place of the framebuffer.
LEMMA PictureIs ==
  ASSUME NEW s \in Shapes, NEW x \in 0 .. (s.pitch - 1), NEW y \in 0 .. (s.height - 1)
  PROVE  FullRefresh(s)[y * s.pitch + x] =
           IF InText(s, x, y)
           THEN Shown(s, CellAt(s, x, y), x, y, CellAt(s, x, y) = 0)
           ELSE IF x < s.width THEN Canvas(y * s.width + x) ELSE Untouched
<1> DEFINE n == Cells(s)
           k == y * s.pitch + x
           at == CellAt(s, x, y)
           back == IF x < s.width THEN Canvas(y * s.width + x) ELSE Untouched
<1>1. n \in Nat /\ x \in Nat /\ y \in Nat /\ k \in Words(s)
  <2>1. x \in Nat /\ y \in Nat
    OBVIOUS
  <2>2. k \in Words(s)
    BY WordOf
  <2> QED BY <2>1, <2>2, RefreshRun
<1>2. PICK g \in [0 .. n -> Pictures(s)] :
        /\ g[0] = CanvasOf(s)
        /\ \A j \in 1 .. n : g[j] = PlotChar(g[j - 1], s, j - 1, FALSE)
        /\ FullRefresh(s) = IF n > 0 THEN PlotChar(g[n], s, 0, TRUE) ELSE g[n]
  BY RefreshRun
<1>3. \A j \in 0 .. n : DOMAIN g[j] = Words(s)
  BY <1>2 DEF Pictures
<1> HIDE DEF n
<1>4. CanvasOf(s)[k] = back
  BY <1>1, WordOf DEF CanvasOf
<1> HIDE DEF k, back, at
<1> DEFINE T == {j \in 0 .. n : g[j][k] = IF InText(s, x, y) /\ at < j
                                          THEN Shown(s, at, x, y, FALSE) ELSE back}
<1>5. InText(s, x, y) => at \in 0 .. (n - 1)
  <2> SUFFICES ASSUME InText(s, x, y) PROVE at \in 0 .. (n - 1)
    OBVIOUS
  <2> DEFINE w == Cols(s)
             h == Rows(s)
             qx == (x - OffsetX(s)) \div GlyphWidth(s)
             qy == (y - OffsetY(s)) \div GlyphHeight(s)
  <2>1. w \in Nat /\ h \in Nat /\ n = h * w /\ at = qy * w + qx /\ qx < w /\ qy < h
    BY LayoutFacts DEF n, at, Cells, CellAt, InText
  <2>2. qx \in Nat
    <3> DEFINE a == x - OffsetX(s)
    <3>1. a \in Nat /\ GlyphWidth(s) \in Nat /\ GlyphWidth(s) > 0
      <4>1. x >= OffsetX(s)
        BY DEF InText
      <4>2. OffsetX(s) \in Nat
        BY LayoutFacts
      <4>3. GlyphWidth(s) \in Nat /\ GlyphWidth(s) > 0
        BY ShapeFacts
      <4> QED BY <1>1, <4>1, <4>2, <4>3
    <3> HIDE DEF a
    <3>2. a \div GlyphWidth(s) \in Nat
      BY <3>1, QuotientIs
    <3> QED BY <3>2 DEF a
  <2>3. qy \in Nat
    <3> DEFINE a == y - OffsetY(s)
    <3>1. a \in Nat /\ GlyphHeight(s) \in Nat /\ GlyphHeight(s) > 0
      <4>1. y >= OffsetY(s)
        BY DEF InText
      <4>2. OffsetY(s) \in Nat
        BY LayoutFacts
      <4>3. GlyphHeight(s) \in Nat /\ GlyphHeight(s) > 0
        BY ShapeFacts
      <4> QED BY <1>1, <4>1, <4>2, <4>3
    <3> HIDE DEF a
    <3>2. a \div GlyphHeight(s) \in Nat
      BY <3>1, QuotientIs
    <3> QED BY <3>2 DEF a
  <2> HIDE DEF w, h, qx, qy
  <2>4. qy * w \in Nat /\ h * w \in Nat /\ qy * w + w <= h * w
    BY <2>1, <2>3, WithinCells
  <2> DEFINE P == qy * w
             Q == h * w
  <2>5. P \in Nat /\ Q \in Nat /\ P + w <= Q /\ n = Q /\ at = P + qx
    BY <2>1, <2>4
  <2> HIDE DEF P, Q
  <2> QED BY <2>1, <2>2, <2>5
<1>6. 0 \in T
  <2>1. ~ (InText(s, x, y) /\ at < 0)
    BY <1>1, <1>5
  <2>2. g[0][k] = back
    BY <1>2, <1>4
  <2>3. 0 \in 0 .. n
    BY <1>1
  <2> QED BY <2>1, <2>2, <2>3
<1>7. ASSUME NEW j \in 0 .. (n - 1), j \in T PROVE j + 1 \in T
  <2>1. /\ j + 1 \in 1 .. n /\ j + 1 \in 0 .. n /\ j \in 0 .. n /\ (j + 1) - 1 = j
        /\ j \in 0 .. (Cells(s) - 1)
    BY <1>1 DEF n
  <2>2. g[j + 1] = PlotChar(g[j], s, j, FALSE)
    BY <1>2, <2>1
  <2>3. g[j + 1][k] = IF InCell(s, j, x, y) THEN Shown(s, j, x, y, FALSE) ELSE g[j][k]
    <3> DEFINE u == g[j]
               i == j
               cursor == FALSE
    <3>1. DOMAIN u = Words(s) /\ i \in 0 .. (Cells(s) - 1)
      BY <1>3, <2>1
    <3> HIDE DEF u, i, cursor
    <3>2. PlotChar(u, s, i, cursor)[y * s.pitch + x] =
            IF InCell(s, i, x, y) THEN Shown(s, i, x, y, cursor) ELSE u[y * s.pitch + x]
      BY <3>1, PlotCharIs
    <3>3. PlotChar(u, s, i, cursor)[k] =
            IF InCell(s, i, x, y) THEN Shown(s, i, x, y, cursor) ELSE u[k]
      BY <3>2 DEF k
    <3> QED BY <2>2, <3>3 DEF u, i, cursor
  <2>4. InCell(s, j, x, y) <=> InText(s, x, y) /\ at = j
    BY <1>1, <2>1, CellsTileTheText DEF at
  <2>5. g[j][k] = IF InText(s, x, y) /\ at < j THEN Shown(s, at, x, y, FALSE) ELSE back
    BY <1>7
  <2>6. InText(s, x, y) => (at < j + 1 <=> at < j \/ at = j)
    BY <1>1, <1>5
  <2>7. g[j + 1][k] = IF InText(s, x, y) /\ at < j + 1
                      THEN Shown(s, at, x, y, FALSE) ELSE back
    BY <2>3, <2>4, <2>5, <2>6
  <2> QED BY <2>1, <2>7
<1>8. n \in T
  <2> HIDE DEF T
  <2>1. \A j \in 0 .. n : j \in T
    BY <1>1, <1>6, <1>7, UpTo
  <2> QED BY <1>1, <2>1
<1>9. g[n][k] = IF InText(s, x, y) THEN Shown(s, at, x, y, FALSE) ELSE back
  <2>1. InText(s, x, y) => at < n
    BY <1>1, <1>5
  <2> QED BY <1>8, <2>1
<1>10. CASE n > 0
  <2>1. 0 \in 0 .. (Cells(s) - 1) /\ n \in 0 .. n
    BY <1>1, <1>10 DEF n
  <2>2. FullRefresh(s) = PlotChar(g[n], s, 0, TRUE)
    BY <1>2, <1>10
  <2>3. FullRefresh(s)[k] = IF InCell(s, 0, x, y) THEN Shown(s, 0, x, y, TRUE) ELSE g[n][k]
    <3> DEFINE u == g[n]
               i == 0
               cursor == TRUE
    <3>1. DOMAIN u = Words(s) /\ i \in 0 .. (Cells(s) - 1)
      BY <1>3, <2>1
    <3> HIDE DEF u, i, cursor
    <3>2. PlotChar(u, s, i, cursor)[y * s.pitch + x] =
            IF InCell(s, i, x, y) THEN Shown(s, i, x, y, cursor) ELSE u[y * s.pitch + x]
      BY <3>1, PlotCharIs
    <3>3. PlotChar(u, s, i, cursor)[k] =
            IF InCell(s, i, x, y) THEN Shown(s, i, x, y, cursor) ELSE u[k]
      BY <3>2 DEF k
    <3> QED BY <2>2, <3>3 DEF u, i, cursor
  <2>4. InCell(s, 0, x, y) <=> InText(s, x, y) /\ at = 0
    BY <1>1, <2>1, CellsTileTheText DEF at
  <2>5. CASE InText(s, x, y) /\ at = 0
    BY <2>3, <2>4, <2>5 DEF k, back, at
  <2>6. CASE InText(s, x, y) /\ at # 0
    <3>1. (at = 0) = FALSE
      BY <2>6
    <3>2. FullRefresh(s)[k] = Shown(s, at, x, y, FALSE)
      BY <1>9, <2>3, <2>4, <2>6
    <3>3. Shown(s, at, x, y, at = 0) = Shown(s, at, x, y, FALSE)
      BY <3>1
    <3> QED BY <2>6, <3>2, <3>3 DEF k, back, at
  <2>7. CASE ~ InText(s, x, y)
    BY <1>9, <2>3, <2>4, <2>7 DEF k, back, at
  <2> QED BY <2>5, <2>6, <2>7
<1>11. CASE ~ (n > 0)
  <2>1. ~ InText(s, x, y) /\ FullRefresh(s) = g[n]
    BY <1>1, <1>2, <1>5, <1>11
  <2> QED BY <1>9, <2>1 DEF k, back, at
<1> QED BY <1>10, <1>11

LEMMA FirstPictureFollows == LifeIInv => FirstPictureIsExact
<1> SUFFICES ASSUME LifeIInv, NEW t \in Terminals, terms[t].status = "live",
                    NEW y \in 0 .. (terms[t].shape.height - 1),
                    NEW x \in 0 .. (terms[t].shape.pitch - 1)
             PROVE
    LET s == terms[t].shape
        left == (s.width - Cols(s) * GlyphWidth(s)) \div 2
        top == (s.height - Rows(s) * GlyphHeight(s)) \div 2
        Seen == terms[t].pixels[y * s.pitch + x]
        col == (x - left) \div GlyphWidth(s)
        row == (y - top) \div GlyphHeight(s)
        inText == x >= left /\ y >= top /\ col < Cols(s) /\ row < Rows(s)
        column == ((x - left) % GlyphWidth(s)) \div s.scaleX
        line == ((y - top) % GlyphHeight(s)) \div s.scaleY
    IN  CASE x >= s.width -> Seen = Untouched
          [] x < s.width /\ ~inText -> Seen = Canvas(y * s.width + x)
          [] OTHER -> Seen = [canvas |-> y * s.width + x,
                              cell |-> row * Cols(s) + col,
                              bit |-> line * CellWidth(s) + column,
                              cursor |-> row = 0 /\ col = 0]
  BY DEF FirstPictureIsExact
<1> DEFINE s == terms[t].shape
           left == (s.width - Cols(s) * GlyphWidth(s)) \div 2
           top == (s.height - Rows(s) * GlyphHeight(s)) \div 2
           Seen == terms[t].pixels[y * s.pitch + x]
           col == (x - left) \div GlyphWidth(s)
           row == (y - top) \div GlyphHeight(s)
           inText == x >= left /\ y >= top /\ col < Cols(s) /\ row < Rows(s)
           column == ((x - left) % GlyphWidth(s)) \div s.scaleX
           line == ((y - top) % GlyphHeight(s)) \div s.scaleY
<1>1. s \in Shapes /\ terms[t].pixels = FullRefresh(s)
  BY DEF LifeIInv, RecordFits
<1> HIDE DEF s
<1>2. x \in 0 .. (s.pitch - 1) /\ y \in 0 .. (s.height - 1)
  BY DEF s
<1>3. left = OffsetX(s) /\ top = OffsetY(s)
  BY <1>1, LayoutFacts
<1>4. /\ Cols(s) \in Nat /\ Rows(s) \in Nat /\ left \in Nat /\ top \in Nat
      /\ GlyphWidth(s) \in Nat /\ GlyphWidth(s) > 0 /\ GlyphHeight(s) \in Nat
      /\ GlyphHeight(s) > 0 /\ s.width \in Nat /\ x \in Nat /\ y \in Nat
  BY <1>1, <1>2, <1>3, LayoutFacts, ShapeFacts
<1> HIDE DEF left, top
<1>5. (inText <=> InText(s, x, y)) /\ CellAt(s, x, y) = row * Cols(s) + col
  BY <1>3 DEF InText, CellAt
<1>6. Seen = IF inText
             THEN Shown(s, CellAt(s, x, y), x, y, CellAt(s, x, y) = 0)
             ELSE IF x < s.width THEN Canvas(y * s.width + x) ELSE Untouched
  BY <1>1, <1>2, <1>5, PictureIs
<1> HIDE DEF Seen
<1>7. ASSUME inText
      PROVE  /\ x < s.width /\ col \in Nat /\ row \in Nat /\ col < Cols(s)
             /\ CellAt(s, x, y) \in 0 .. (Cells(s) - 1)
             /\ CellAt(s, x, y) = 0 <=> row = 0 /\ col = 0
             /\ Shown(s, CellAt(s, x, y), x, y, row = 0 /\ col = 0)
                  = [canvas |-> y * s.width + x, cell |-> row * Cols(s) + col,
                     bit |-> line * CellWidth(s) + column, cursor |-> row = 0 /\ col = 0]
  <2>1. x >= left /\ y >= top /\ col < Cols(s) /\ row < Rows(s)
    BY <1>7
  <2>2. col \in Nat /\ x - left = GlyphWidth(s) * col + ((x - left) % GlyphWidth(s))
        /\ (x - left) % GlyphWidth(s) \in 0 .. (GlyphWidth(s) - 1)
    <3> DEFINE a == x - left
               g == GlyphWidth(s)
    <3>1. a \in Nat /\ g \in Nat /\ g > 0
      BY <1>4, <2>1
    <3> HIDE DEF a, g
    <3>2. a \div g \in Nat /\ a % g \in 0 .. (g - 1) /\ a = g * (a \div g) + (a % g)
      BY <3>1, QuotientIs
    <3> QED BY <3>2 DEF a, g
  <2>3. row \in Nat
    <3> DEFINE a == y - top
               g == GlyphHeight(s)
    <3>1. a \in Nat /\ g \in Nat /\ g > 0
      BY <1>4, <2>1
    <3> HIDE DEF a, g
    <3>2. a \div g \in Nat
      BY <3>1, QuotientIs
    <3> QED BY <3>2 DEF a, g
  <2> HIDE DEF col, row
  <2>4. x < s.width
    <3> DEFINE g == GlyphWidth(s)
               w == Cols(s)
               r == (x - left) % g
               P == col * g
               W == w * g
    <3>1. P \in Nat /\ W \in Nat /\ P + g <= W
      BY <1>4, <2>1, <2>2, WithinCells
    <3>2. left + W <= s.width - s.margin /\ s.margin \in Nat
      BY <1>1, <1>3, LayoutFacts, ShapeFacts
    <3>3. g * col = P
      BY <1>4, <2>2
    <3>4. x - left = P + r /\ r \in 0 .. (g - 1) /\ g \in Nat
      BY <1>4, <2>2, <3>3
    <3> HIDE DEF g, r, P, W
    <3> QED BY <1>4, <3>1, <3>2, <3>4
  <2>5. /\ row * Cols(s) \in Nat /\ Rows(s) * Cols(s) \in Nat
        /\ row * Cols(s) + Cols(s) <= Rows(s) * Cols(s)
    BY <1>4, <2>1, <2>3, WithinCells
  <2> DEFINE P == row * Cols(s)
             Q == Rows(s) * Cols(s)
             i == CellAt(s, x, y)
  <2>6. P \in Nat /\ Q \in Nat /\ P + Cols(s) <= Q /\ i = P + col /\ Cells(s) = Q
    BY <1>5, <2>5 DEF Cells
  <2>7. P = 0 <=> row = 0
    <3>1. Cols(s) > 0
      BY <1>4, <2>1, <2>2
    <3>2. row > 0 => row * Cols(s) > 0
      BY <1>4, <2>3, <3>1, ProductIsNat
    <3> QED BY <1>4, <2>3, <3>2
  <2>8. row * Cols(s) + col = i
    BY <2>6
  <2> HIDE DEF P, Q, i
  <2>9. i \in 0 .. (Cells(s) - 1) /\ (i = 0 <=> row = 0 /\ col = 0)
    BY <1>4, <2>1, <2>2, <2>6, <2>7
  <2>10. InCell(s, i, x, y)
    BY <1>1, <1>4, <1>5, <1>7, <2>9, CellsTileTheText DEF i
  <2>11. /\ x - CellX(s, i) = (x - left) % GlyphWidth(s)
         /\ y - CellY(s, i) = (y - top) % GlyphHeight(s)
    BY <1>1, <1>3, <1>4, <2>9, <2>10, CellsTileTheText
  <2>12. y * s.width + x = x + y * s.width
    BY <1>4, ProductIsNat
  <2>13. Shown(s, i, x, y, row = 0 /\ col = 0)
           = [canvas |-> y * s.width + x, cell |-> row * Cols(s) + col,
              bit |-> line * CellWidth(s) + column, cursor |-> row = 0 /\ col = 0]
    BY <2>8, <2>11, <2>12 DEF Shown
  <2> QED BY <2>1, <2>2, <2>3, <2>4, <2>9, <2>13 DEF i
<1>8. CASE x >= s.width
  <2>1. ~ (x < s.width) /\ ~ inText
    BY <1>4, <1>7, <1>8
  <2> QED BY <1>6, <1>8, <2>1 DEF s, Seen, left, top
<1>9. CASE x < s.width /\ ~ inText
  <2>1. ~ (x >= s.width)
    BY <1>4, <1>9
  <2> QED BY <1>6, <1>9, <2>1 DEF s, Seen, left, top
<1>10. CASE x < s.width /\ inText
  <2>1. ~ (x >= s.width)
    BY <1>4, <1>10
  <2> DEFINE first == row = 0 /\ col = 0
  <2>2. Seen = Shown(s, CellAt(s, x, y), x, y, first)
    BY <1>6, <1>7, <1>10
  <2>3. Seen = [canvas |-> y * s.width + x, cell |-> row * Cols(s) + col,
                bit |-> line * CellWidth(s) + column, cursor |-> first]
    BY <1>7, <1>10, <2>2
  <2> QED BY <1>10, <2>1, <2>3 DEF s, Seen, left, top
<1>11. x >= s.width \/ (x < s.width /\ ~ inText) \/ (x < s.width /\ inText)
  <2>1. x >= s.width \/ x < s.width
    BY <1>4
  <2> HIDE DEF inText
  <2> QED BY <2>1
<1> QED BY <1>8, <1>9, <1>10, <1>11

\* A live terminal's framebuffer shows each cell's glyph, enlarged, at its
\* place in the middle of the screen, and the canvas everywhere else.
THEOREM LifeFirstPictureIsExact == LifeSpec => []FirstPictureIsExact
BY LifeInvariance, FirstPictureFollows, PTL
=============================================================================
