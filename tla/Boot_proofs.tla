---------------------------- MODULE Boot_proofs ----------------------------
(***************************************************************************)
(* Proofs about what boot does before anything is allocated.               *)
(*                                                                         *)
(* BootMemory, for every memory map whose usable entries end with a page,  *)
(* every screen and whatever higherAddr starts with: which bits PmInit     *)
(* clears behind the bitmap, and that it leaves the hole PmFindFree relies *)
(* on; and, if entries of memory do not overlap, which pages become free,  *)
(* and that the two buffers are not among them.                            *)
(*                                                                         *)
(* Console, for every text of its messages and however printf's loop goes  *)
(* on from one state to the next on its way to them: that the serial line  *)
(* carries what is sent, but for at most two bytes that SeInit finds in    *)
(* the UART, and that the screen shows the log and the panic.              *)
(***************************************************************************)
EXTENDS BootMemory, Console, SequenceTheorems, FiniteSetTheorems, FoldFacts, TLAPS

-----------------------------------------------------------------------------
(* Arithmetic. *)

\* Division rounds down.
LEMMA DivFacts ==
  ASSUME NEW x \in Nat, NEW y \in Nat, y > 0
  PROVE  /\ x \div y \in Nat /\ x % y \in 0 .. (y - 1)
         /\ x = y * (x \div y) + (x % y)
OBVIOUS

\* The quotient lies below, or not below, each multiple as the number does.
LEMMA DivBelow ==
  ASSUME NEW x \in Nat, NEW y \in Nat, y > 0, NEW m \in Nat
  PROVE  (x \div y < m) <=> (x < y * m)
<1>. DEFINE q == x \div y
            r == x % y
<1>1. q \in Nat /\ r \in 0 .. (y - 1) /\ x = y * q + r
  BY DivFacts
<1>. HIDE DEF q, r
<1>2. CASE q < m
  <2>1. PICK d \in Nat : m = q + 1 + d
    <3>1. m - q - 1 \in Nat /\ m = q + 1 + (m - q - 1)
      BY <1>1, <1>2
    <3>. QED  BY <3>1
  <2>2. y * m = y * q + y + y * d /\ y * d \in Nat /\ y * q \in Nat
    BY <1>1, <2>1
  <2>. QED  BY <1>1, <1>2, <2>2 DEF q
<1>3. CASE q >= m
  <2>1. PICK d \in Nat : q = m + d
    <3>1. q - m \in Nat /\ q = m + (q - m)
      BY <1>1, <1>3
    <3>. QED  BY <3>1
  <2>2. y * q = y * m + y * d /\ y * d \in Nat /\ y * m \in Nat
    BY <1>1, <2>1
  <2>. QED  BY <1>1, <1>3, <2>2 DEF q
<1>. QED  BY <1>1, <1>2, <1>3

\* alignUp rounds up to a multiple of y, by less than y.
LEMMA AlignUpFacts ==
  ASSUME NEW x \in Nat, NEW y \in Nat, y > 0
  PROVE  /\ alignUp(x, y) \in Nat /\ alignUp(x, y) >= x
         /\ alignUp(x, y) % y = 0
         /\ alignUp(x, y) = x => x % y = 0
<1>. DEFINE a == x + (y - 1)
            q == a \div y
            r == a % y
<1>1. a \in Nat
  OBVIOUS
<1>2. q \in Nat /\ r \in 0 .. (y - 1) /\ a = y * q + r
  BY <1>1, DivFacts
<1>3. y * q \in Nat /\ q * y = y * q
  BY <1>2
<1>4. (y * q) % y = 0
  <2>. DEFINE z == y * q
  <2>1. z \in Nat /\ z \div y \in Nat /\ z % y \in 0 .. (y - 1) /\ z = y * (z \div y) + (z % y)
    BY <1>3, DivFacts
  <2>2. ~(z \div y < q)
    BY <1>2, <2>1, DivBelow
  <2>3. z < y * (q + 1)
    BY <1>2, <1>3
  <2>4. z \div y < q + 1
    BY <1>2, <2>1, <2>3, DivBelow
  <2>5. z \div y = q
    BY <1>2, <2>1, <2>2, <2>4
  <2>. QED  BY <2>1, <2>5
<1>. HIDE DEF q, r
<1>5. y * q >= x
  BY <1>2, <1>3
<1>6. alignUp(x, y) = q * y
  BY DEF alignUp, q, a
<1>. QED  BY <1>3, <1>4, <1>5, <1>6

\* A byte before the end of an entry that ends with a page lies in a page
\* below the one of any address at or behind that end.
LEMMA PageBelow ==
  ASSUME NEW a \in Nat, NEW end \in Nat, NEW top \in Nat,
         a < end, end <= top, end % PageSize = 0
  PROVE  a \div PageSize < top \div PageSize
<1>. DEFINE m == end \div PageSize
<1>1. PageSize \in Nat /\ PageSize > 0
  BY UnitsAssumption
<1>2. m \in Nat /\ end = PageSize * m
  BY <1>1, DivFacts
<1>. HIDE DEF m
<1>3. a \div PageSize < m
  BY <1>1, <1>2, DivBelow
<1>4. ~(top \div PageSize < m)
  BY <1>1, <1>2, DivBelow
<1>. QED  BY <1>1, <1>2, <1>3, <1>4, DivFacts

\* Quotient and remainder are the only such numbers.
LEMMA DivUnique ==
  ASSUME NEW y \in Nat, y > 0, NEW q \in Nat, NEW r \in Nat, r < y
  PROVE  (y * q + r) \div y = q /\ (y * q + r) % y = r
<1>. DEFINE z == y * q + r
<1>1. y * q \in Nat /\ z \in Nat /\ y * (q + 1) = y * q + y
  OBVIOUS
<1>2. z \div y \in Nat /\ z % y \in 0 .. (y - 1) /\ z = y * (z \div y) + (z % y)
  BY <1>1, DivFacts
<1>3. ~(z \div y < q) /\ z \div y < q + 1
  <2>1. ~(z < y * q) /\ z < y * (q + 1) /\ q + 1 \in Nat
    BY <1>1
  <2>. HIDE DEF z
  <2>. QED  BY <1>1, <2>1, DivBelow
<1>4. z \div y = q
  BY <1>2, <1>3
<1>5. z = y * q + (z % y) /\ y * q \in Int
  BY <1>1, <1>2, <1>4
<1>6. z % y = r
  <2>1. z = y * q + r
    OBVIOUS
  <2>. HIDE DEF z
  <2>. QED  BY <1>1, <1>2, <1>5, <2>1
<1>. QED  BY <1>4, <1>6

LEMMA SumIsWhole ==
  ASSUME NEW x \in Nat, NEW z \in Nat, NEW y \in Nat, y > 0, x % y = 0, z % y = 0
  PROVE  (x + z) % y = 0
<1>. DEFINE p == x \div y
            q == z \div y
<1>1. p \in Nat /\ q \in Nat /\ x = y * p + 0 /\ z = y * q + 0
  BY DivFacts
<1>. HIDE DEF p, q
<1>2. x + z = y * (p + q) + 0 /\ p + q \in Nat
  BY <1>1
<1>. QED  BY <1>2, DivUnique

LEMMA Units ==
  PageSize \in Nat /\ PageSize > 0 /\ ByteBits \in Nat /\ ByteBits > 0
BY UnitsAssumption

\* The bytes of a page are those with its number.
LEMMA PageBytesFacts ==
  ASSUME NEW f \in Nat, NEW a \in Nat
  PROVE  a \in PageBytes(f) <=> a \div PageSize = f
<1>1. f * PageSize = PageSize * f /\ PageSize * f \in Nat
      /\ PageSize * (f + 1) = PageSize * f + PageSize
  BY Units
<1>2. a \div PageSize \in Nat
  BY Units, DivFacts
<1>3. (a \div PageSize < f <=> a < PageSize * f) /\ f + 1 \in Nat
  BY Units, DivBelow
<1>4. a \div PageSize < f + 1 <=> a < PageSize * (f + 1)
  BY Units, <1>3, DivBelow
<1>5. a \in PageBytes(f) <=> a >= PageSize * f /\ a < PageSize * f + PageSize
  BY Units, <1>1 DEF PageBytes, Bytes
<1>. QED  BY <1>1, <1>2, <1>3, <1>4, <1>5

\* The pages of memory that ends with a page.
LEMMA PagesAreInterval ==
  ASSUME NEW base \in Nat, NEW length \in Nat, (base + length) % PageSize = 0
  PROVE  /\ base \div PageSize \in Nat /\ (base + length) \div PageSize \in Nat
         /\ base \div PageSize <= (base + length) \div PageSize
         /\ PagesOf(base, length) = (base \div PageSize) .. ((base + length) \div PageSize - 1)
<1>. DEFINE end == base + length
            b == base \div PageSize
            E == end \div PageSize
            r == base % PageSize
<1>1. end \in Nat /\ base <= end /\ PageSize \in Nat /\ PageSize > 0 /\ end = base + length
  BY Units
<1>2. b \in Nat /\ E \in Nat /\ end = PageSize * E /\ base = PageSize * b + r
      /\ r \in 0 .. (PageSize - 1)
  BY <1>1, DivFacts
<1>. HIDE DEF end, b, E, r
<1>3. \A a \in Nat : a \div PageSize \in Nat
        /\ (a \div PageSize < E <=> a < end) /\ (a \div PageSize < b <=> a < PageSize * b)
  BY <1>1, <1>2, DivFacts, DivBelow
<1>4. PageSize * b \in Nat /\ PageSize * b <= base /\ base < PageSize * (b + 1)
      /\ PageSize * (b + 1) = PageSize * b + PageSize
  BY <1>1, <1>2
<1>5. b <= E
  <2>1. ASSUME E < b PROVE FALSE
    <3>1. end \div PageSize < b
      BY <2>1 DEF E
    <3>2. end < PageSize * b
      BY <1>1, <1>3, <3>1
    <3>. QED  BY <1>1, <1>4, <3>2
  <2>. QED  BY <1>2, <2>1
<1>6. ASSUME NEW a \in Bytes(base, length) PROVE a \div PageSize \in b .. (E - 1)
  <2>1. a \in Nat /\ base <= a /\ a < end
    BY <1>1, <1>6 DEF Bytes
  <2>2. ~(a < PageSize * b)
    BY <1>4, <2>1
  <2>. QED  BY <1>2, <1>3, <2>1, <2>2
<1>7. ASSUME NEW f \in b .. (E - 1) PROVE \E a \in Bytes(base, length) : a \div PageSize = f
  <2>1. CASE f = b
    <3>1. base < end
      BY <1>2, <1>3, <1>7, <2>1 DEF b
    <3>2. base \in Bytes(base, length)
      BY <1>1, <3>1 DEF Bytes
    <3>. QED  BY <2>1, <3>2 DEF b
  <2>2. CASE f # b
    <3>1. f \in Nat /\ f >= b + 1 /\ f < E
      BY <1>2, <1>7, <2>2
    <3>. DEFINE a == PageSize * f + 0
    <3>2. a \in Nat /\ a \div PageSize = f
      BY <1>1, <3>1, DivUnique
    <3>3. a < end
      BY <1>3, <3>1, <3>2
    <3>4. ~(a < PageSize * (b + 1))
      <4>1. b + 1 \in Nat /\ ~(a \div PageSize < b + 1)
        BY <1>2, <3>1, <3>2
      <4>. HIDE DEF a
      <4>. QED  BY <1>1, <3>2, <4>1, DivBelow
    <3>. HIDE DEF a
    <3>5. a \in Bytes(base, length)
      BY <1>1, <1>4, <3>2, <3>3, <3>4 DEF Bytes
    <3>. QED  BY <3>2, <3>5
  <2>. QED  BY <2>1, <2>2
<1>8. PagesOf(base, length) = b .. (E - 1)
  BY <1>6, <1>7 DEF PagesOf
<1>. QED  BY <1>2, <1>5, <1>8 DEF b, E, end

\* PmInit's inner loop clears the bits of exactly the pages that have a byte
\* of the entry, and counts them.
LEMMA LoopClearsPages ==
  ASSUME NEW e \in [type : STRING, base : Nat, length : Nat],
         (e.base + e.length) % PageSize = 0
  PROVE  /\ IndicesOf(e) = PagesOf(e.base, e.length)
         /\ IsFiniteSet(IndicesOf(e)) /\ PageCount(e) = Cardinality(IndicesOf(e))
<1>. DEFINE base == e.base
            length == e.length
            b == base \div PageSize
            E == (base + length) \div PageSize
            r == base % PageSize
            steps == {n \in 0 .. (length - 1) : n % PageSize = 0}
<1>1. base \in Nat /\ length \in Nat /\ PageSize \in Nat /\ PageSize > 0
  BY Units
<1>2. b \in Nat /\ E \in Nat /\ b <= E /\ PagesOf(base, length) = b .. (E - 1)
  BY <1>1, PagesAreInterval
<1>3. base = PageSize * b + r /\ r \in 0 .. (PageSize - 1) /\ base + length = PageSize * E
  <2>1. base = PageSize * b + r /\ r \in 0 .. (PageSize - 1)
    BY <1>1, DivFacts
  <2>. DEFINE end == base + length
  <2>2. end \in Nat /\ end % PageSize = 0
    BY <1>1
  <2>. HIDE DEF end
  <2>3. end = PageSize * (end \div PageSize) + (end % PageSize) /\ end \div PageSize \in Nat
    BY <1>1, <2>2, DivFacts
  <2>. DEFINE n == end \div PageSize
  <2>. HIDE DEF n
  <2>4. end = PageSize * n
    <3>1. end = PageSize * n + 0
      BY <2>2, <2>3 DEF n
    <3>2. n \in Nat /\ PageSize * n \in Nat
      BY <1>1, <2>3 DEF n
    <3>. QED  BY <3>1, <3>2
  <2>5. base + length = PageSize * E
    BY <2>4 DEF end, n
  <2>. QED  BY <2>1, <2>5
<1>4. IndicesOf(e) = {(base + l) \div PageSize : l \in steps}
  BY DEF IndicesOf
<1>. HIDE DEF base, length, b, E, r
<1>5. ASSUME NEW l \in steps PROVE (base + l) \div PageSize \in PagesOf(base, length)
  <2>1. base + l \in Bytes(base, length)
    BY <1>1, <1>5 DEF Bytes
  <2>. QED  BY <2>1 DEF PagesOf
<1>6. ASSUME NEW f \in b .. (E - 1)
      PROVE  \E l \in steps : (base + l) \div PageSize = f
  <2>. DEFINE d == f - b
              l == PageSize * d + 0
  <2>1. d \in Nat /\ f \in Nat /\ f = b + d /\ f + 1 <= E
    BY <1>2, <1>6
  <2>. HIDE DEF d
  <2>2. l \in Nat /\ l % PageSize = 0
    BY <1>1, <2>1, DivUnique
  <2>3. base + l = PageSize * f + r
    <3>1. PageSize * f = PageSize * b + PageSize * d /\ PageSize * b \in Int
          /\ PageSize * d \in Int /\ r \in Int
      BY <1>1, <1>2, <1>3, <2>1
    <3>. QED  BY <1>3, <3>1
  <2>4. (base + l) \div PageSize = f
    <3>1. r \in Nat /\ r < PageSize
      BY <1>1, <1>3
    <3>2. (PageSize * f + r) \div PageSize = f
      BY <1>1, <2>1, <3>1, DivUnique
    <3>. HIDE DEF l
    <3>. QED  BY <2>3, <3>2
  <2>5. l < length
    <3>1. base + l \in Nat /\ (base + l) \div PageSize < E
      BY <1>1, <1>2, <2>1, <2>2, <2>4
    <3>2. base + l < PageSize * E
      <4>. HIDE DEF l
      <4>. QED  BY <1>1, <1>2, <3>1, DivBelow
    <3>. HIDE DEF l
    <3>. QED  BY <1>1, <1>3, <2>2, <3>2
  <2>. HIDE DEF l
  <2>6. l \in steps
    BY <1>1, <2>2, <2>5
  <2>. QED  BY <2>4, <2>6
<1>7. IndicesOf(e) = b .. (E - 1)
  BY <1>2, <1>4, <1>5, <1>6
<1>8. IsFiniteSet(b .. (E - 1)) /\ Cardinality(b .. (E - 1)) = E - b
  <2>. DEFINE top == E - 1
  <2>1. top \in Int /\ top = E - 1
    BY <1>2
  <2>. HIDE DEF top
  <2>2. /\ IsFiniteSet(b .. top)
        /\ Cardinality(b .. top) = IF b > top THEN 0 ELSE top - b + 1
    BY <1>2, <2>1, FS_Interval
  <2>. QED  BY <1>2, <2>1, <2>2
<1>9. PageCount(e) = E - b
  <2>. DEFINE d == E - b
              s == PageSize - 1 - r
              m == (length + (PageSize - 1)) \div PageSize
  <2>1. d \in Nat /\ s \in Nat /\ s < PageSize /\ E = b + d
    BY <1>1, <1>2, <1>3
  <2>2. length + (PageSize - 1) = PageSize * d + s
    <3>1. PageSize * E = PageSize * b + PageSize * d /\ PageSize * b \in Int
          /\ PageSize * d \in Int /\ r \in Int
      <4>. HIDE DEF d
      <4>. QED  BY <1>1, <1>2, <1>3, <2>1
    <3>. HIDE DEF d
    <3>. DEFINE pE == PageSize * E
                pb == PageSize * b
                pd == PageSize * d
    <3>2. pE = pb + pd /\ pb \in Int /\ pd \in Int /\ base = pb + r /\ base + length = pE
      BY <1>3, <3>1
    <3>. HIDE DEF pE, pb, pd
    <3>3. length + (PageSize - 1) = pd + s
      BY <1>1, <3>1, <3>2
    <3>. QED  BY <3>3 DEF pd
  <2>. HIDE DEF d, s
  <2>3. m = d
    BY <1>1, <2>1, <2>2, DivUnique
  <2>4. alignUp(e.length, PageSize) = PageSize * d + 0
    BY <1>1, <2>1, <2>3 DEF alignUp, length
  <2>. HIDE DEF m
  <2>5. PageCount(e) = d
    BY <1>1, <2>1, <2>4, DivUnique DEF PageCount
  <2>. QED  BY <2>5 DEF d
<1>. QED  BY <1>2, <1>7, <1>8, <1>9 DEF base, length

\* A page of memory that begins and ends with a page lies inside it.
LEMMA PageInside ==
  ASSUME NEW base \in Nat, NEW length \in Nat, base % PageSize = 0,
         (base + length) % PageSize = 0, NEW f \in PagesOf(base, length)
  PROVE  f \in Nat /\ PageBytes(f) \subseteq Bytes(base, length)
<1>. DEFINE b == base \div PageSize
            E == (base + length) \div PageSize
<1>1. b \in Nat /\ E \in Nat /\ f \in b .. (E - 1)
  BY PagesAreInterval
<1>2. base = PageSize * b /\ base + length = PageSize * E /\ base + length \in Nat
  BY Units, DivFacts
<1>. HIDE DEF b, E
<1>3. f \in Nat
  BY <1>1
<1>4. ASSUME NEW a \in PageBytes(f) PROVE a \in Bytes(base, length)
  <2>1. a \in Nat
    <3>1. f * PageSize \in Nat
      BY Units, <1>3
    <3>. QED  BY <3>1, <1>4, Units DEF PageBytes, Bytes
  <2>2. a \div PageSize = f
    BY <1>3, <1>4, <2>1, PageBytesFacts
  <2>3. ~(a < base) /\ a < base + length
    <3>1. ~(a \div PageSize < b) /\ a \div PageSize < E
      BY <1>1, <2>2
    <3>. QED  BY Units, <1>1, <1>2, <2>1, <3>1, DivBelow
  <2>. QED  BY <2>1, <2>3 DEF Bytes
<1>. QED  BY <1>3, <1>4

-----------------------------------------------------------------------------
(* The inductive invariant. *)

Entries == Seq([type : STRING, base : Nat, length : Nat])
Pages(top) == top \div PageSize

TypeOK ==
  /\ entries \in Entries
  /\ \A end \in Ends(entries) : end % PageSize = 0
  /\ fbBytes \in Nat /\ higherAddr \in Nat /\ bitmapSize \in Nat

\* Once sized, the bitmap is that for higherAddr, and no usable entry ends
\* behind higherAddr.
IsSized ==
  phase \in {"PmPlace", "PmMark", "up"} =>
    /\ bitmapSize = SizeBitmap(higherAddr)
    /\ \A end \in Ends(entries) : end <= higherAddr

\* Bits of pages from higherAddr on are never cleared.
RestIsSet ==
  phase \in {"PmMark", "up"} =>
    \A b \in Bits : b >= Pages(higherAddr) => b \in pBitmap

\* Bits cleared behind the bitmap are those of pages below higherAddr.
StraysAreBelow ==
  /\ phase \in {"FbInit", "PmInit", "PmPlace"} => strayBits = {}
  /\ phase \in {"PmMark", "up"} =>
       \A b \in strayBits : b \in Nat /\ b \notin Bits /\ b < Pages(higherAddr)

IInv == TypeOK /\ IsSized /\ RestIsSet /\ StraysAreBelow

LEMMA EntryFacts ==
  ASSUME NEW map \in Entries, NEW i \in DOMAIN map
  PROVE  map[i] \in [type : STRING, base : Nat, length : Nat]
BY ZenonT(60), LenProperties DEF Entries

\* Cutting the front off an entry leaves its end where it is.
LEMMA CutFacts ==
  ASSUME NEW map \in Entries, NEW j \in DOMAIN map, NEW n \in Nat, n <= map[j].length
  PROVE  /\ Cut(map, j, n) \in Entries /\ Ends(Cut(map, j, n)) = Ends(map)
         /\ DOMAIN Cut(map, j, n) = DOMAIN map
         /\ \A i \in DOMAIN map : Cut(map, j, n)[i].type = map[i].type
         /\ \A i \in DOMAIN map : i # j => Cut(map, j, n)[i] = map[i]
         /\ Cut(map, j, n)[j].base = map[j].base + n
         /\ Cut(map, j, n)[j].length = map[j].length - n
<1>. DEFINE cut == Cut(map, j, n)
<1>1. /\ map \in [1 .. Len(map) -> [type : STRING, base : Nat, length : Nat]]
      /\ DOMAIN map = 1 .. Len(map)
  BY LenProperties DEF Entries
<1>2. cut = [map EXCEPT ![j] = [@ EXCEPT !.base = map[j].base + n,
                                          !.length = map[j].length - n]]
  BY <1>1 DEF Cut
<1>3. cut[j] = [map[j] EXCEPT !.base = map[j].base + n, !.length = map[j].length - n]
  BY <1>1, <1>2
<1>4. map[j] \in [type : STRING, base : Nat, length : Nat]
  BY <1>1
<1>5. map[j].length - n \in Nat /\ map[j].base + n \in Nat
  BY <1>4
<1>6. cut[j] \in [type : STRING, base : Nat, length : Nat]
  BY <1>3, <1>4, <1>5
<1>7. /\ DOMAIN cut = DOMAIN map
      /\ \A i \in DOMAIN map : i # j => cut[i] = map[i]
  BY <1>1, <1>2
<1>8. cut \in Entries
  BY <1>1, <1>2, <1>6 DEF Entries
<1>9. /\ cut[j].type = map[j].type
      /\ cut[j].base + cut[j].length = map[j].base + map[j].length
  BY <1>3, <1>4, <1>5
<1>10. UsableEntries(cut) = UsableEntries(map)
  BY <1>7, <1>9 DEF UsableEntries
<1>11. \A i \in UsableEntries(map) :
         cut[i].base + cut[i].length = map[i].base + map[i].length
  BY <1>7, <1>9 DEF UsableEntries
<1>12. Ends(cut) = Ends(map)
  BY <1>10, <1>11 DEF Ends
<1>13. cut[j].base = map[j].base + n /\ cut[j].length = map[j].length - n
  BY <1>3, <1>4
<1>14. \A i \in DOMAIN map : cut[i].type = map[i].type
  BY <1>7, <1>9
<1>. HIDE DEF cut
<1>15. /\ cut \in Entries /\ Ends(cut) = Ends(map) /\ DOMAIN cut = DOMAIN map
       /\ \A i \in DOMAIN map : cut[i].type = map[i].type
       /\ \A i \in DOMAIN map : i # j => cut[i] = map[i]
       /\ cut[j].base = map[j].base + n /\ cut[j].length = map[j].length - n
  BY <1>7, <1>8, <1>12, <1>13, <1>14
<1>. QED  BY <1>15 DEF cut

LEMMA RoomFacts ==
  ASSUME NEW types, NEW n \in Nat, NEW j \in FirstWithRoom(types, n), TypeOK
  PROVE  /\ Cut(entries, j, n) \in Entries
         /\ Ends(Cut(entries, j, n)) = Ends(entries)
<1>1. j \in DOMAIN entries /\ entries[j].length >= n
  BY DEF FirstWithRoom
<1>2. entries[j].length \in Nat
  BY <1>1, EntryFacts DEF TypeOK
<1>. QED  BY <1>1, <1>2, CutFacts DEF TypeOK

LEMMA InitIInv == Init => IInv
<1>. SUFFICES ASSUME Init PROVE IInv
  OBVIOUS
<1>1. TypeOK
  BY MapsAssumption, UnitsAssumption DEF Init, TypeOK, Entries
<1>. QED  BY <1>1 DEF Init, IInv, IsSized, RestIsSet, StraysAreBelow

LEMMA CarveKeeps ==
  ASSUME IInv, FbInitCarve
  PROVE  IInv'
<1>1. PICK j \in FirstWithRoom({Reclaimable, Usable}, fbBytes) :
        entries' = Cut(entries, j, fbBytes)
  BY DEF FbInitCarve
<1>2. entries' \in Entries /\ Ends(entries') = Ends(entries)
  BY <1>1, RoomFacts DEF IInv, TypeOK
<1>3. TypeOK'
  BY <1>2 DEF IInv, TypeOK, FbInitCarve, Ends, UsableEntries
<1>. QED  BY <1>3 DEF FbInitCarve, IInv, IsSized, RestIsSet, StraysAreBelow

LEMMA SizeKeeps ==
  ASSUME IInv, PmInitSize
  PROVE  IInv'
<1>1. /\ phase' = "PmPlace" /\ strayBits' = {} /\ entries' = entries
      /\ fbBytes' = fbBytes /\ bitmapSize' = SizeBitmap(higherAddr')
      /\ \A end \in Ends(entries) : end <= higherAddr'
      /\ higherAddr' \in {higherAddr} \cup Ends(entries)
  BY DEF PmInitSize, IInv, StraysAreBelow
<1>2. \A end \in Ends(entries) : end \in Nat
  BY EntryFacts DEF IInv, TypeOK, Ends, UsableEntries
<1>3. higherAddr' \in Nat
  BY <1>1, <1>2 DEF IInv, TypeOK
<1>4. SizeBitmap(higherAddr') \in Nat
  <2>1. /\ PageSize \in Nat /\ PageSize > 0 /\ ByteBits \in Nat /\ ByteBits > 0
        /\ higherAddr' \in Nat
    BY <1>3, UnitsAssumption
  <2>2. Pages(higherAddr') \in Nat
    BY <2>1, DivFacts DEF Pages
  <2>3. (Pages(higherAddr') \div ByteBits) \in Nat
    BY <2>1, <2>2, DivFacts
  <2>. QED  BY <2>1, <2>3, AlignUpFacts DEF SizeBitmap, Pages
<1>5. Ends(entries)' = Ends(entries)
  BY <1>1 DEF Ends, UsableEntries
<1>. QED  BY <1>1, <1>3, <1>4, <1>5 DEF IInv, TypeOK, IsSized, RestIsSet, StraysAreBelow

LEMMA PlaceKeeps ==
  ASSUME IInv, PmInitPlace
  PROVE  IInv'
<1>1. PICK j \in FirstWithRoom({Usable}, bitmapSize) :
        entries' = Cut(entries, j, bitmapSize)
  BY DEF PmInitPlace
<1>2. entries' \in Entries /\ Ends(entries') = Ends(entries)
  BY <1>1, RoomFacts DEF IInv, TypeOK
<1>3. /\ phase = "PmPlace" /\ phase' = "PmMark" /\ pBitmap' = Bits /\ strayBits' = {}
      /\ higherAddr' = higherAddr /\ bitmapSize' = bitmapSize /\ fbBytes' = fbBytes
  BY DEF PmInitPlace, IInv, StraysAreBelow
<1>4. Ends(entries)' = Ends(entries) /\ Bits' = Bits
  BY <1>2, <1>3 DEF Ends, UsableEntries, Bits
<1>. QED  BY <1>2, <1>3, <1>4 DEF IInv, TypeOK, IsSized, RestIsSet, StraysAreBelow, SizeBitmap

LEMMA NoRoomKeeps ==
  ASSUME IInv, PmInitNoRoom
  PROVE  IInv'
<1>1. /\ phase = "PmPlace"
      /\ phase' \in {"PmMark", "faulted"} /\ (phase' = "PmMark" => bitmapSize = 0)
      /\ UNCHANGED <<entries, fbBytes, higherAddr, bitmapSize, pBitmap, strayBits>>
  BY DEF PmInitNoRoom
<1>2. Ends(entries)' = Ends(entries) /\ Bits' = Bits
  BY <1>1 DEF Ends, UsableEntries, Bits
<1>3. phase' = "PmMark" => Bits = {}
  BY <1>1, UnitsAssumption DEF Bits
<1>. QED  BY <1>1, <1>2, <1>3
          DEF IInv, TypeOK, IsSized, RestIsSet, StraysAreBelow, SizeBitmap

\* The loop clears bits of pages below higherAddr.
LEMMA MarksBelow ==
  ASSUME IInv, phase = "PmMark", NEW j \in DOMAIN entries, entries[j].type = Usable
  PROVE  \A b \in IndicesOf(entries[j]) : b \in Nat /\ b < Pages(higherAddr)
<1>. DEFINE e == entries[j]
            end == e.base + e.length
<1>1. e.base \in Nat /\ e.length \in Nat
  BY EntryFacts DEF IInv, TypeOK
<1>2. end \in Ends(entries) /\ end % PageSize = 0 /\ end <= higherAddr
  BY DEF IInv, TypeOK, IsSized, Ends, UsableEntries
<1>3. ASSUME NEW l \in 0 .. (e.length - 1)
      PROVE  /\ (e.base + l) \div PageSize \in Nat
             /\ (e.base + l) \div PageSize < Pages(higherAddr)
  <2>1. e.base + l \in Nat /\ e.base + l < end /\ end \in Nat
    BY <1>1, <1>3
  <2>. QED  BY <1>2, <2>1, PageBelow, DivFacts, UnitsAssumption DEF Pages, IInv, TypeOK
<1>. QED  BY <1>1, <1>3 DEF IndicesOf

LEMMA MarkKeeps ==
  ASSUME IInv, PmInitMark
  PROVE  IInv'
<1>1. /\ phase = "PmMark" /\ phase' = "PmMark"
      /\ UNCHANGED <<entries, fbBytes, higherAddr, bitmapSize>>
  BY DEF PmInitMark
<1>2. Ends(entries)' = Ends(entries) /\ Bits' = Bits
  BY <1>1 DEF Ends, UsableEntries, Bits
<1>3. RestIsSet' /\ StraysAreBelow'
  <2>1. CASE entries[k].type # Usable
    <3>1. pBitmap' = pBitmap /\ strayBits' = strayBits
      BY <2>1 DEF PmInitMark
    <3>. QED  BY <1>1, <1>2, <3>1 DEF IInv, RestIsSet, StraysAreBelow
  <2>2. CASE entries[k].type = Usable
    <3>1. /\ pBitmap' = pBitmap \ IndicesOf(entries[k])
          /\ strayBits' = strayBits \cup (IndicesOf(entries[k]) \ Bits)
          /\ k \in DOMAIN entries
      BY <2>2 DEF PmInitMark
    <3>2. \A b \in IndicesOf(entries[k]) : b \in Nat /\ b < Pages(higherAddr)
      BY <1>1, <2>2, <3>1, MarksBelow
    <3>3. Pages(higherAddr) \in Nat
      BY DivFacts, UnitsAssumption DEF IInv, TypeOK, Pages
    <3>4. \A b \in Bits : b \in Int
      BY DEF Bits
    <3>. QED  BY <1>1, <1>2, <3>1, <3>2, <3>3, <3>4 DEF IInv, RestIsSet, StraysAreBelow
  <2>. QED  BY <2>1, <2>2
<1>. QED  BY <1>1, <1>2, <1>3 DEF IInv, TypeOK, IsSized, SizeBitmap

LEMMA StepKeeps == IInv /\ [Next]_vars => IInv'
<1>. SUFFICES ASSUME IInv, [Next]_vars PROVE IInv'
  OBVIOUS
<1>. USE DEF IInv, TypeOK, IsSized, RestIsSet, StraysAreBelow, Ends, UsableEntries, Bits
<1>1. CASE UNCHANGED vars
  BY <1>1 DEF vars
<1>2. CASE FbInitBadFont
  BY <1>2 DEF FbInitBadFont
<1>3. CASE FbInitCarve
  BY <1>3, CarveKeeps
<1>4. CASE FbInitNoRoom
  BY <1>4 DEF FbInitNoRoom
<1>5. CASE PmInitSize
  BY <1>5, SizeKeeps
<1>6. CASE PmInitPlace
  BY <1>6, PlaceKeeps
<1>7. CASE PmInitNoRoom
  BY <1>7, NoRoomKeeps
<1>8. CASE PmInitMark
  BY <1>8, MarkKeeps
<1>9. CASE FirstLogWrite
  BY <1>9 DEF FirstLogWrite
<1>. QED  BY <1>1, <1>2, <1>3, <1>4, <1>5, <1>6, <1>7, <1>8, <1>9 DEF Next

LEMMA Invariance == Spec => []IInv
BY InitIInv, StepKeeps, PTL DEF Spec

-----------------------------------------------------------------------------
(* What follows. *)

\* PmInit leaves a set bit at or above bitmapSize, as PmFindFree needs, unless
\* the pages below higherAddr fill the bitmap.  A byte has more than one bit.
THEOREM HoleIsLeft ==
  ASSUME ByteBits > 1
  PROVE  Spec => []LeavesHoleForPmFindFree
<1>1. IInv => LeavesHoleForPmFindFree
  <2>. SUFFICES ASSUME IInv, phase = "up", ~Fills
                PROVE  \E b \in Bits : b >= bitmapSize /\ b \in pBitmap
    BY DEF LeavesHoleForPmFindFree, Marked
  <2>. DEFINE lastBit == bitmapSize * ByteBits - 1
  <2>1. bitmapSize \in Nat /\ ByteBits \in Nat /\ Pages(higherAddr) \in Nat
    BY UnitsAssumption, DivFacts DEF IInv, TypeOK, Pages
  <2>2. bitmapSize * ByteBits \in Nat
    BY <2>1
  <2>3. Pages(higherAddr) < bitmapSize * ByteBits
    BY <2>1, <2>2 DEF Fills, Pages
  <2>4. bitmapSize > 0
    BY <2>1, <2>2, <2>3
  <2>5. bitmapSize * ByteBits >= 2 * bitmapSize
    BY <2>1
  <2>6. lastBit \in Bits /\ lastBit >= bitmapSize /\ lastBit >= Pages(higherAddr)
    BY <2>1, <2>2, <2>3, <2>4, <2>5 DEF Bits
  <2>7. lastBit \in pBitmap
    BY <2>6 DEF IInv, RestIsSet
  <2>. QED  BY <2>6, <2>7
<1>. QED  BY <1>1, Invariance, PTL

\* Bits are cleared behind the bitmap only if the division by 8 lost pages and
\* the rounding did not make up for them, and they are those of one byte.
THEOREM StrayBitsAreOfOneByte == Spec => []BitsStayInBitmap
<1>1. IInv => BitsStayInBitmap
  <2>. SUFFICES ASSUME IInv, phase = "up", NEW b \in strayBits
                PROVE  Truncated /\ b \div ByteBits = bitmapSize
    BY DEF BitsStayInBitmap, Marked
  <2>. DEFINE p == Pages(higherAddr)
              q == p \div ByteBits
  <2>1. p \in Nat /\ bitmapSize \in Nat /\ PageSize \in Nat /\ PageSize > 0
        /\ ByteBits \in Nat /\ ByteBits > 0
    BY UnitsAssumption, DivFacts DEF IInv, TypeOK, Pages
  <2>2. q \in Nat /\ p % ByteBits \in 0 .. (ByteBits - 1) /\ p = ByteBits * q + (p % ByteBits)
    BY <2>1, DivFacts
  <2>3. bitmapSize = alignUp(q, PageSize)
    BY DEF IInv, IsSized, SizeBitmap, Pages
  <2>4. b \in Nat /\ b < p /\ ~(b < bitmapSize * ByteBits)
    <3>1. b \in Nat /\ b < p /\ b \notin Bits
      BY DEF IInv, StraysAreBelow
    <3>2. bitmapSize * ByteBits \in Nat
      BY <2>1
    <3>. QED  BY <3>1, <3>2 DEF Bits
  <2>. HIDE DEF p, q
  <2>5. bitmapSize >= q /\ (bitmapSize = q => q % PageSize = 0)
    BY <2>1, <2>2, <2>3, AlignUpFacts
  <2>6. bitmapSize * ByteBits = ByteBits * bitmapSize
    BY <2>1
  <2>7. bitmapSize = q
    <3>1. p < ByteBits * (q + 1)
      BY <2>1, <2>2
    <3>2. b \div ByteBits < q + 1 /\ ~(b \div ByteBits < bitmapSize)
      <4>1. b < ByteBits * (q + 1) /\ ~(b < ByteBits * bitmapSize)
        BY <2>1, <2>2, <2>4, <2>6, <3>1
      <4>. QED  BY <2>1, <2>2, <2>4, <4>1, DivBelow
    <3>. QED  BY <2>1, <2>2, <2>4, <2>5, <3>2, DivFacts
  <2>8. b \div ByteBits = bitmapSize
    <3>1. p < ByteBits * (q + 1)
      BY <2>1, <2>2
    <3>2. b < ByteBits * (bitmapSize + 1) /\ ~(b < ByteBits * bitmapSize)
      BY <2>1, <2>2, <2>4, <2>6, <2>7, <3>1
    <3>3. b \div ByteBits < bitmapSize + 1 /\ ~(b \div ByteBits < bitmapSize)
      BY <2>1, <2>4, <3>2, DivBelow
    <3>. QED  BY <2>1, <2>4, <3>3, DivFacts
  <2>9. p % ByteBits # 0
    BY <2>1, <2>2, <2>4, <2>6, <2>7
  <2>. QED  BY <2>5, <2>7, <2>8, <2>9 DEF Truncated, p, q, Pages
<1>. QED  BY <1>1, Invariance, PTL

-----------------------------------------------------------------------------
(* Where the back buffer and the bitmap are. *)

Room(e) == Bytes(e.base, e.length)
EndOf(e) == e.base + e.length
Taken == BackBuffer \cup Bitmap

\* What is left of each entry of memory is the entry without the two buffers.
MemoryIsKept ==
  /\ given \in MemMaps
  /\ DOMAIN entries = DOMAIN given
  /\ \A j \in DOMAIN given : /\ entries[j].type = given[j].type
                             /\ EndOf(entries[j]) = EndOf(given[j])
  /\ \A j \in MemoryEntries(given) : Room(entries[j]) = Room(given[j]) \ Taken
  /\ fbBytes % PageSize = 0 => \A j \in UsableEntries(given) : entries[j].base % PageSize = 0
  /\ BackBuffer \cap Bitmap = {}
  /\ pBackAddr \in Nat \cup {Null} /\ bitmapBase \in Nat \cup {Null}
  /\ phase = "FbInit" => pBackAddr = Null
  /\ phase \in {"FbInit", "PmInit", "PmPlace"} => bitmapBase = Null

\* The pages of the usable entries before entry m.
Cleared(m) == UNION {IndicesOf(entries[j]) : j \in {i \in UsableEntries(given) : i < m}}

\* The bits cleared so far are those of the entries before k, and freePages
\* counts them.
MarkedSoFar ==
  /\ k \in 1 .. (Len(entries) + 1)
  /\ phase \in {"FbInit", "PmInit", "PmPlace"} => k = 1 /\ strayBits = {} /\ freePages = 0
  /\ phase = "up" => k = Len(entries) + 1
  /\ phase \in {"PmMark", "up"} =>
       /\ (Bits \ pBitmap) \cup strayBits = Cleared(k)
       /\ strayBits \cap Bits = {}
       /\ IsFiniteSet(Cleared(k)) /\ freePages = Cardinality(Cleared(k))

\* The map as it was, and as it is.
LEMMA GivenFacts ==
  ASSUME TypeOK, MemoryIsKept, NEW j \in DOMAIN given
  PROVE  /\ j \in DOMAIN entries
         /\ entries[j] \in [type : STRING, base : Nat, length : Nat]
         /\ given[j] \in [type : STRING, base : Nat, length : Nat]
         /\ j \in UsableEntries(given) =>
              /\ j \in UsableEntries(entries) /\ j \in MemoryEntries(given)
              /\ given[j].base % PageSize = 0
              /\ EndOf(entries[j]) % PageSize = 0 /\ EndOf(given[j]) % PageSize = 0
         /\ \A i \in MemoryEntries(given) :
              i # j /\ j \in MemoryEntries(given) => Room(given[i]) \cap Room(given[j]) = {}
<1>1. j \in DOMAIN entries /\ entries \in Entries /\ given \in Entries /\ given \in MemMaps
  BY MapsAssumption DEF MemoryIsKept, TypeOK, Entries
<1>2. /\ entries[j] \in [type : STRING, base : Nat, length : Nat]
      /\ given[j] \in [type : STRING, base : Nat, length : Nat]
  BY <1>1, EntryFacts
<1>3. ASSUME j \in UsableEntries(given)
      PROVE  /\ j \in UsableEntries(entries) /\ j \in MemoryEntries(given)
             /\ given[j].base % PageSize = 0
             /\ EndOf(entries[j]) % PageSize = 0 /\ EndOf(given[j]) % PageSize = 0
  <2>1. j \in UsableEntries(entries) /\ j \in MemoryEntries(given)
    BY <1>1, <1>3 DEF MemoryIsKept, UsableEntries, MemoryEntries
  <2>2. given[j].base % PageSize = 0
    BY <1>1, <1>3, LayoutAssumption
  <2>3. EndOf(entries[j]) \in Ends(entries) /\ EndOf(entries[j]) = EndOf(given[j])
    BY <2>1, <1>1 DEF MemoryIsKept, Ends, EndOf
  <2>. QED  BY <2>1, <2>2, <2>3 DEF TypeOK
<1>4. \A i \in MemoryEntries(given) :
        i # j /\ j \in MemoryEntries(given) => Room(given[i]) \cap Room(given[j]) = {}
  BY <1>1, LayoutAssumption DEF Room
<1>. QED  BY <1>1, <1>2, <1>3, <1>4

\* The usable pages of an entry, before and after it is cut.
LEMMA PageFacts ==
  ASSUME TypeOK, MemoryIsKept, NEW j \in UsableEntries(given)
  PROVE  /\ \A f \in PagesOf(given[j].base, given[j].length) :
              f \in Nat /\ PageBytes(f) \subseteq Room(given[j])
         /\ \A f \in IndicesOf(entries[j]) :
              /\ f \in Nat
              /\ f \in PagesOf(given[j].base, given[j].length)
              /\ \E a \in Room(entries[j]) : a \in Nat /\ a \in PageBytes(f)
         /\ \A f \in Nat, a \in Room(entries[j]) : a \in PageBytes(f) => f \in IndicesOf(entries[j])
         /\ Room(entries[j]) = Room(given[j]) \ Taken
         /\ IsFiniteSet(IndicesOf(entries[j]))
         /\ PageCount(entries[j]) = Cardinality(IndicesOf(entries[j]))
<1>. DEFINE e == entries[j]
            g == given[j]
<1>1. j \in DOMAIN given
  BY DEF UsableEntries
<1>2. /\ e \in [type : STRING, base : Nat, length : Nat]
      /\ g \in [type : STRING, base : Nat, length : Nat]
      /\ j \in MemoryEntries(given) /\ g.base % PageSize = 0
      /\ (e.base + e.length) % PageSize = 0 /\ (g.base + g.length) % PageSize = 0
  BY <1>1, GivenFacts DEF EndOf
<1>3. Room(e) = Room(g) \ Taken
  BY <1>2 DEF MemoryIsKept
<1>. HIDE DEF e, g
<1>4. /\ IndicesOf(e) = PagesOf(e.base, e.length)
      /\ IsFiniteSet(IndicesOf(e)) /\ PageCount(e) = Cardinality(IndicesOf(e))
  BY <1>2, LoopClearsPages
<1>5. \A f \in PagesOf(g.base, g.length) : f \in Nat /\ PageBytes(f) \subseteq Room(g)
  BY <1>2, PageInside DEF Room
<1>6. \A a \in Room(e) : a \in Nat /\ a \div PageSize \in Nat
  <2>1. \A a \in Room(e) : a \in Nat
    BY <1>2 DEF Room, Bytes
  <2>. QED  BY <2>1, Units, DivFacts
<1>7. ASSUME NEW f \in IndicesOf(e)
      PROVE  /\ f \in Nat
             /\ f \in PagesOf(g.base, g.length)
             /\ \E a \in Room(e) : a \in Nat /\ a \in PageBytes(f)
  <2>1. PICK a \in Room(e) : f = a \div PageSize
    BY <1>4 DEF PagesOf, Room
  <2>2. a \in Room(g) /\ a \in Nat /\ f \in Nat
    BY <1>3, <1>6, <2>1
  <2>3. f \in PagesOf(g.base, g.length)
    BY <2>1, <2>2 DEF PagesOf, Room
  <2>4. a \in PageBytes(f)
    BY <2>1, <2>2, PageBytesFacts
  <2>. QED  BY <2>2, <2>3, <2>4
<1>8. ASSUME NEW f \in Nat, NEW a \in Room(e), a \in PageBytes(f) PROVE f \in IndicesOf(e)
  <2>1. a \div PageSize = f
    BY <1>6, <1>8, PageBytesFacts
  <2>. QED  BY <1>4, <2>1 DEF PagesOf, Room
<1>. QED  BY <1>3, <1>4, <1>5, <1>7, <1>8 DEF e, g

LEMMA IndexFacts ==
  ASSUME TypeOK, MemoryIsKept
  PROVE  /\ Len(entries) \in Nat /\ DOMAIN entries = 1 .. Len(entries)
         /\ \A j \in UsableEntries(given) : j \in 1 .. Len(entries)
BY LenProperties DEF TypeOK, Entries, MemoryIsKept, UsableEntries

\* Cutting the front off one entry, and giving it to one of the buffers.
LEMMA CutKeepsMemory ==
  ASSUME TypeOK, MemoryIsKept, NEW j \in MemoryEntries(given), NEW n \in Nat,
         n <= entries[j].length, entries' = Cut(entries, j, n), given' = given,
         Taken' = Taken \cup Bytes(entries[j].base, n)
  PROVE  /\ DOMAIN entries' = DOMAIN given'
         /\ \A i \in DOMAIN given' : /\ entries'[i].type = given'[i].type
                                     /\ EndOf(entries'[i]) = EndOf(given'[i])
         /\ \A i \in MemoryEntries(given') : Room(entries'[i]) = Room(given'[i]) \ Taken'
         /\ Bytes(entries[j].base, n) \cap Taken = {}
         /\ Len(entries') = Len(entries)
         /\ \A i \in DOMAIN given : i # j => entries'[i] = entries[i]
         /\ entries'[j].base = entries[j].base + n
<1>. DEFINE D == Bytes(entries[j].base, n)
<1>1. j \in DOMAIN given
  BY DEF MemoryEntries
<1>2. /\ entries \in Entries /\ j \in DOMAIN entries
      /\ entries[j] \in [type : STRING, base : Nat, length : Nat]
  BY <1>1, GivenFacts DEF TypeOK
<1>3. /\ entries' \in Entries
      /\ DOMAIN entries' = DOMAIN entries
      /\ \A i \in DOMAIN entries : entries'[i].type = entries[i].type
      /\ \A i \in DOMAIN entries : i # j => entries'[i] = entries[i]
      /\ entries'[j].base = entries[j].base + n
      /\ entries'[j].length = entries[j].length - n
  BY <1>2, CutFacts
<1>4. DOMAIN entries' = DOMAIN given'
  BY <1>3 DEF MemoryIsKept
<1>5. Len(entries') = Len(entries)
  BY <1>2, <1>3, LenProperties DEF Entries
<1>6. EndOf(entries'[j]) = EndOf(entries[j])
  BY <1>2, <1>3 DEF EndOf
<1>7. \A i \in DOMAIN given' : /\ entries'[i].type = given'[i].type
                               /\ EndOf(entries'[i]) = EndOf(given'[i])
  BY <1>3, <1>6 DEF MemoryIsKept
<1>8. Room(entries[j]) = Room(given[j]) \ Taken /\ D \subseteq Room(entries[j])
  <2>1. D \subseteq Room(entries[j])
    BY <1>2 DEF Room, Bytes
  <2>. QED  BY <2>1 DEF MemoryIsKept
<1>9. Room(entries'[j]) = Room(entries[j]) \ D
  <2>1. entries[j].base \in Nat /\ entries[j].length \in Nat
    BY <1>2
  <2>. QED  BY <1>3, <2>1 DEF Room, Bytes
<1>. HIDE DEF D
<1>10. ASSUME NEW i \in MemoryEntries(given) PROVE Room(entries'[i]) = Room(given[i]) \ Taken'
  <2>1. CASE i = j
    BY <1>8, <1>9, <2>1 DEF D
  <2>2. CASE i # j
    <3>1. i \in DOMAIN given /\ i \in DOMAIN entries
      BY <1>1 DEF MemoryEntries, MemoryIsKept
    <3>2. Room(entries'[i]) = Room(given[i]) \ Taken
      BY <1>3, <2>2, <3>1 DEF MemoryIsKept
    <3>3. Room(given[i]) \cap Room(given[j]) = {}
      BY <1>1, <2>2, GivenFacts
    <3>. QED  BY <1>8, <3>2, <3>3 DEF D
  <2>. QED  BY <2>1, <2>2
<1>11. D \cap Taken = {}
  BY <1>8
<1>12. \A i \in DOMAIN given : i # j => entries'[i] = entries[i]
  BY <1>3 DEF MemoryIsKept
<1>. QED  BY <1>3, <1>4, <1>5, <1>7, <1>10, <1>11, <1>12 DEF D

\* FirstWithRoom gives an entry of memory.
LEMMA RoomIsMemory ==
  ASSUME TypeOK, MemoryIsKept, NEW types \in SUBSET {Reclaimable, Usable}, NEW n \in Nat,
         NEW j \in FirstWithRoom(types, n)
  PROVE  /\ j \in MemoryEntries(given) /\ n <= entries[j].length
         /\ entries[j].base \in Nat /\ entries[j].length \in Nat
<1>1. j \in DOMAIN entries /\ entries[j].type \in types /\ entries[j].length >= n
  BY DEF FirstWithRoom
<1>2. j \in DOMAIN given /\ entries[j].type = given[j].type
  BY <1>1 DEF MemoryIsKept
<1>3. entries[j] \in [type : STRING, base : Nat, length : Nat]
  BY <1>2, GivenFacts
<1>. QED  BY <1>1, <1>2, <1>3 DEF MemoryEntries

\* The loop over the entries has not begun.
LEMMA MarkingWaits ==
  ASSUME MarkedSoFar, phase \in {"FbInit", "PmInit", "PmPlace"},
         phase' \in {"PmInit", "PmPlace", "faulted"},
         UNCHANGED <<strayBits, freePages, k>>, Len(entries') = Len(entries)
  PROVE  MarkedSoFar'
BY DEF MarkedSoFar

LEMMA InitKept == Init => MemoryIsKept /\ MarkedSoFar
<1>. SUFFICES ASSUME Init PROVE MemoryIsKept /\ MarkedSoFar
  OBVIOUS
<1>1. /\ given \in MemMaps /\ entries = given /\ pBackAddr = Null /\ bitmapBase = Null
      /\ phase = "FbInit" /\ k = 1 /\ strayBits = {} /\ freePages = 0
  BY DEF Init
<1>2. Taken = {} /\ BackBuffer = {} /\ Bitmap = {}
  BY <1>1 DEF Taken, BackBuffer, Bitmap
<1>3. \A j \in UsableEntries(given) : given[j].base % PageSize = 0
  BY <1>1, LayoutAssumption
<1>4. MemoryIsKept
  BY <1>1, <1>2, <1>3 DEF MemoryIsKept
<1>5. Len(entries) \in Nat
  BY <1>1, MapsAssumption, LenProperties
<1>6. 1 \in 1 .. (Len(entries) + 1)
  BY <1>5
<1>7. MarkedSoFar
  BY <1>1, <1>6 DEF MarkedSoFar
<1>. QED  BY <1>4, <1>7

LEMMA CarveKeepsMemory ==
  ASSUME TypeOK, MemoryIsKept, MarkedSoFar, FbInitCarve
  PROVE  MemoryIsKept' /\ MarkedSoFar'
<1>1. PICK j \in FirstWithRoom({Reclaimable, Usable}, fbBytes) :
        pBackAddr' = entries[j].base /\ entries' = Cut(entries, j, fbBytes)
  BY DEF FbInitCarve
<1>2. /\ phase = "FbInit" /\ phase' = "PmInit" /\ given' = given /\ fbBytes' = fbBytes
      /\ bitmapBase' = bitmapBase /\ bitmapSize' = bitmapSize
      /\ UNCHANGED <<strayBits, freePages, k>>
      /\ pBackAddr = Null /\ bitmapBase = Null
  BY DEF FbInitCarve, MemoryIsKept
<1>. DEFINE D == Bytes(entries[j].base, fbBytes)
<1>3. /\ j \in MemoryEntries(given) /\ fbBytes <= entries[j].length /\ fbBytes \in Nat
      /\ entries[j].base \in Nat
  BY <1>1, RoomIsMemory DEF TypeOK
<1>4. BackBuffer' = D /\ Bitmap' = {} /\ BackBuffer = {} /\ Bitmap = {}
  <2>1. entries[j].base # Null
    BY <1>3 DEF Null
  <2>. QED  BY <1>1, <1>2, <2>1 DEF BackBuffer, Bitmap
<1>5. Taken' = Taken \cup D
  BY <1>4 DEF Taken
<1>6. /\ DOMAIN entries' = DOMAIN given'
      /\ \A i \in DOMAIN given' : /\ entries'[i].type = given'[i].type
                                  /\ EndOf(entries'[i]) = EndOf(given'[i])
      /\ \A i \in MemoryEntries(given') : Room(entries'[i]) = Room(given'[i]) \ Taken'
      /\ Len(entries') = Len(entries)
      /\ \A i \in DOMAIN given : i # j => entries'[i] = entries[i]
      /\ entries'[j].base = entries[j].base + fbBytes
  BY <1>1, <1>2, <1>3, <1>5, CutKeepsMemory
<1>7. ASSUME fbBytes % PageSize = 0, NEW i \in UsableEntries(given)
      PROVE  entries'[i].base % PageSize = 0
  <2>1. entries[i].base % PageSize = 0 /\ i \in DOMAIN given
    BY <1>7 DEF MemoryIsKept, UsableEntries
  <2>2. CASE i = j
    <3>. DEFINE base == entries[j].base
    <3>1. base \in Nat /\ fbBytes \in Nat
      BY <1>3
    <3>2. base % PageSize = 0 /\ fbBytes % PageSize = 0
      BY <1>7, <2>1, <2>2
    <3>3. entries'[i].base = base + fbBytes
      BY <1>6, <2>2
    <3>. HIDE DEF base
    <3>4. (base + fbBytes) % PageSize = 0
      BY <3>1, <3>2, SumIsWhole, Units
    <3>. QED  BY <3>3, <3>4
  <2>3. CASE i # j
    BY <1>6, <2>1, <2>3
  <2>. QED  BY <2>2, <2>3
<1>. HIDE DEF D
<1>8. MemoryIsKept'
  BY <1>1, <1>2, <1>3, <1>4, <1>6, <1>7 DEF MemoryIsKept
<1>9. MarkedSoFar'
  BY <1>2, <1>6, MarkingWaits
<1>. QED  BY <1>8, <1>9

LEMMA PlaceKeepsMemory ==
  ASSUME IInv, MemoryIsKept, MarkedSoFar, PmInitPlace
  PROVE  MemoryIsKept' /\ MarkedSoFar'
<1>1. PICK j \in FirstWithRoom({Usable}, bitmapSize) :
        bitmapBase' = entries[j].base /\ entries' = Cut(entries, j, bitmapSize)
  BY DEF PmInitPlace
<1>2. /\ phase = "PmPlace" /\ phase' = "PmMark" /\ given' = given /\ fbBytes' = fbBytes
      /\ pBackAddr' = pBackAddr /\ bitmapSize' = bitmapSize
      /\ UNCHANGED <<strayBits, freePages, k>> /\ pBitmap' = Bits
      /\ bitmapBase = Null /\ k = 1 /\ strayBits = {} /\ freePages = 0
  BY DEF PmInitPlace, MemoryIsKept, MarkedSoFar
<1>. DEFINE D == Bytes(entries[j].base, bitmapSize)
<1>3. /\ j \in MemoryEntries(given) /\ bitmapSize <= entries[j].length /\ bitmapSize \in Nat
      /\ entries[j].base \in Nat
  BY <1>1, RoomIsMemory DEF IInv, TypeOK
<1>4. BackBuffer' = BackBuffer /\ Bitmap' = D /\ Bitmap = {}
  <2>1. entries[j].base # Null
    BY <1>3 DEF Null
  <2>. QED  BY <1>1, <1>2, <2>1 DEF BackBuffer, Bitmap
<1>5. Taken' = Taken \cup D
  BY <1>4 DEF Taken
<1>6. /\ DOMAIN entries' = DOMAIN given'
      /\ \A i \in DOMAIN given' : /\ entries'[i].type = given'[i].type
                                  /\ EndOf(entries'[i]) = EndOf(given'[i])
      /\ \A i \in MemoryEntries(given') : Room(entries'[i]) = Room(given'[i]) \ Taken'
      /\ D \cap Taken = {}
      /\ Len(entries') = Len(entries)
      /\ \A i \in DOMAIN given : i # j => entries'[i] = entries[i]
      /\ entries'[j].base = entries[j].base + bitmapSize
  BY <1>1, <1>2, <1>3, <1>5, CutKeepsMemory DEF IInv
<1>7. bitmapSize % PageSize = 0
  <2>1. bitmapSize = SizeBitmap(higherAddr) /\ higherAddr \in Nat
    BY <1>2 DEF IInv, IsSized, TypeOK
  <2>. DEFINE p == higherAddr \div PageSize
              q == p \div ByteBits
  <2>2. p \in Nat
    BY <2>1, Units, DivFacts
  <2>. HIDE DEF p
  <2>3. q \in Nat
    BY <2>2, Units, DivFacts
  <2>4. bitmapSize = alignUp(q, PageSize)
    BY <2>1 DEF SizeBitmap, p
  <2>. HIDE DEF q
  <2>. QED  BY <2>3, <2>4, Units, AlignUpFacts
<1>8. ASSUME fbBytes % PageSize = 0, NEW i \in UsableEntries(given)
      PROVE  entries'[i].base % PageSize = 0
  <2>1. entries[i].base % PageSize = 0 /\ i \in DOMAIN given
    BY <1>8 DEF MemoryIsKept, UsableEntries
  <2>2. CASE i = j
    <3>1. (entries[j].base + bitmapSize) % PageSize = 0
      BY <1>3, <1>7, <2>1, <2>2, SumIsWhole, Units
    <3>. QED  BY <1>6, <2>2, <3>1
  <2>3. CASE i # j
    BY <1>6, <2>1, <2>3
  <2>. QED  BY <2>2, <2>3
<1>. HIDE DEF D
<1>9. BackBuffer' \cap Bitmap' = {}
  BY <1>4, <1>6 DEF Taken
<1>10. MemoryIsKept'
  <2>1. fbBytes' % PageSize = 0 =>
          \A i \in UsableEntries(given') : entries'[i].base % PageSize = 0
    BY <1>2, <1>8
  <2>2. /\ given' \in MemMaps /\ pBackAddr' \in Nat \cup {Null}
        /\ bitmapBase' \in Nat \cup {Null}
    BY <1>1, <1>2, <1>3 DEF MemoryIsKept
  <2>3. phase' \notin {"FbInit", "PmInit", "PmPlace"}
    BY <1>2
  <2>. QED  BY <1>6, <1>9, <2>1, <2>2, <2>3 DEF MemoryIsKept
<1>11. Cleared(k)' = {}
  <2>1. \A j2 \in UsableEntries(given) : ~(j2 < 1)
    BY IndexFacts DEF IInv
  <2>2. k' = 1 /\ UsableEntries(given)' = UsableEntries(given)
    BY <1>2 DEF UsableEntries
  <2>. QED  BY <2>1, <2>2 DEF Cleared
<1>12. MarkedSoFar'
  <2>1. Bits' = Bits
    BY <1>2 DEF Bits
  <2>. QED  BY <1>2, <1>6, <1>11, <2>1, FS_EmptySet DEF MarkedSoFar
<1>. QED  BY <1>10, <1>12

\* No two entries share a page.
LEMMA PagesAreDisjoint ==
  ASSUME TypeOK, MemoryIsKept, NEW i \in UsableEntries(given), NEW j \in UsableEntries(given),
         i # j
  PROVE  IndicesOf(entries[i]) \cap IndicesOf(entries[j]) = {}
<1>. SUFFICES ASSUME NEW f \in IndicesOf(entries[i]), f \in IndicesOf(entries[j]) PROVE FALSE
  OBVIOUS
<1>1. PageBytes(f) \subseteq Room(given[i]) /\ PageBytes(f) \subseteq Room(given[j])
  BY PageFacts
<1>2. \E a \in Room(entries[i]) : a \in PageBytes(f)
  BY PageFacts
<1>3. i \in DOMAIN given /\ j \in DOMAIN given
  BY DEF UsableEntries
<1>4. i \in MemoryEntries(given) /\ j \in MemoryEntries(given)
  BY <1>3, GivenFacts
<1>5. Room(given[i]) \cap Room(given[j]) = {}
  BY <1>3, <1>4, GivenFacts
<1>. QED  BY <1>1, <1>2, <1>5

LEMMA DisjointUnion ==
  ASSUME NEW S, NEW T, IsFiniteSet(S), IsFiniteSet(T), S \cap T = {}
  PROVE  IsFiniteSet(S \cup T) /\ Cardinality(S \cup T) = Cardinality(S) + Cardinality(T)
<1>. DEFINE a == Cardinality(S)
            b == Cardinality(T)
            c == Cardinality(S \cap T)
            d == Cardinality(S \cup T)
<1>1. IsFiniteSet(S \cup T) /\ d = a + b - c
  BY FS_Union
<1>2. a \in Nat /\ b \in Nat
  BY FS_CardinalityType
<1>3. c = 0
  BY FS_EmptySet
<1>. HIDE DEF a, b, c, d
<1>4. d = a + b
  BY <1>1, <1>2, <1>3
<1>. QED  BY <1>1, <1>4 DEF a, b, d

LEMMA MarkKeepsMemory ==
  ASSUME IInv, MemoryIsKept, MarkedSoFar, PmInitMark
  PROVE  MemoryIsKept' /\ MarkedSoFar'
<1>1. /\ phase = "PmMark" /\ phase' = "PmMark" /\ k \in DOMAIN entries /\ k' = k + 1
      /\ UNCHANGED <<entries, given, fbBytes, pBackAddr, bitmapSize, bitmapBase>>
  BY DEF PmInitMark
<1>2. MemoryIsKept'
  BY <1>1 DEF MemoryIsKept, Taken, BackBuffer, Bitmap
<1>3. Len(entries) \in Nat /\ k \in 1 .. Len(entries) /\ k \in DOMAIN given
  BY <1>1, IndexFacts DEF IInv, MemoryIsKept
<1>4. k' \in 1 .. (Len(entries') + 1)
  BY <1>1, <1>3
<1>. DEFINE I == IndicesOf(entries[k])
<1>5. \A j \in UsableEntries(given) : (j < k + 1 <=> j < k \/ j = k)
  BY <1>3, IndexFacts DEF IInv
<1>6. Bits' = Bits /\ UsableEntries(given)' = UsableEntries(given)
  BY <1>1 DEF Bits, UsableEntries
<1>7. Cleared(k)' = UNION {IndicesOf(entries[j]) : j \in {i \in UsableEntries(given) : i < k + 1}}
  BY <1>1, <1>6 DEF Cleared
<1>8. /\ (Bits \ pBitmap) \cup strayBits = Cleared(k) /\ strayBits \cap Bits = {}
      /\ IsFiniteSet(Cleared(k)) /\ freePages = Cardinality(Cleared(k))
  BY <1>1 DEF MarkedSoFar
<1>9. CASE entries[k].type # Usable
  <2>1. k \notin UsableEntries(given)
    BY <1>3, <1>9 DEF MemoryIsKept, UsableEntries
  <2>2. Cleared(k)' = Cleared(k)
    BY <1>5, <1>7, <2>1 DEF Cleared
  <2>3. UNCHANGED <<pBitmap, strayBits, freePages>>
    BY <1>9 DEF PmInitMark
  <2>. QED  BY <1>1, <1>2, <1>4, <1>6, <1>8, <2>2, <2>3 DEF MarkedSoFar
<1>10. CASE entries[k].type = Usable
  <2>1. k \in UsableEntries(given)
    BY <1>3, <1>10 DEF MemoryIsKept, UsableEntries
  <2>2. Cleared(k)' = Cleared(k) \cup I
    BY <1>5, <1>7, <2>1 DEF Cleared
  <2>3. /\ pBitmap' = pBitmap \ I /\ strayBits' = strayBits \cup (I \ Bits)
        /\ freePages' = freePages + PageCount(entries[k])
    BY <1>10 DEF PmInitMark
  <2>4. Cleared(k) \cap I = {}
    <3>. SUFFICES ASSUME NEW j \in UsableEntries(given), j < k
                  PROVE  IndicesOf(entries[j]) \cap I = {}
      BY DEF Cleared
    <3>1. j # k
      BY <1>3, IndexFacts DEF IInv
    <3>. QED  BY <2>1, <3>1, PagesAreDisjoint DEF IInv
  <2>5. IsFiniteSet(I) /\ PageCount(entries[k]) = Cardinality(I)
    BY <2>1, PageFacts DEF IInv
  <2>. HIDE DEF I
  <2>6. IsFiniteSet(Cleared(k) \cup I)
        /\ Cardinality(Cleared(k) \cup I) = Cardinality(Cleared(k)) + Cardinality(I)
    BY <1>8, <2>4, <2>5, DisjointUnion
  <2>7. (Bits \ pBitmap') \cup strayBits' = Cleared(k) \cup I
    BY <1>8, <2>3
  <2>8. strayBits' \cap Bits = {}
    BY <1>8, <2>3
  <2>9. freePages' = Cardinality(Cleared(k) \cup I)
    BY <1>8, <2>3, <2>5, <2>6
  <2>10. /\ (Bits' \ pBitmap') \cup strayBits' = Cleared(k)'
         /\ strayBits' \cap Bits' = {}
         /\ IsFiniteSet(Cleared(k)') /\ freePages' = Cardinality(Cleared(k)')
    BY <1>6, <2>2, <2>6, <2>7, <2>8, <2>9
  <2>. QED  BY <1>1, <1>2, <1>4, <2>10 DEF MarkedSoFar
<1>. QED  BY <1>9, <1>10

LEMMA StepKeepsMemory ==
  ASSUME IInv, MemoryIsKept, MarkedSoFar, [Next]_vars
  PROVE  MemoryIsKept' /\ MarkedSoFar'
<1>1. CASE UNCHANGED vars
  <2>1. Bits' = Bits /\ Cleared(k)' = Cleared(k)
    BY <1>1 DEF vars, Bits, Cleared, UsableEntries
  <2>. QED  BY <1>1, <2>1 DEF vars, MemoryIsKept, MarkedSoFar, Taken, BackBuffer, Bitmap
<1>2. CASE FbInitBadFont
  <2>1. MemoryIsKept'
    BY <1>2 DEF FbInitBadFont, MemoryIsKept, Taken, BackBuffer, Bitmap
  <2>2. MarkedSoFar'
    BY <1>2, MarkingWaits DEF FbInitBadFont
  <2>. QED  BY <2>1, <2>2
<1>3. CASE FbInitCarve
  BY <1>3, CarveKeepsMemory DEF IInv
<1>4. CASE FbInitNoRoom
  <2>1. MemoryIsKept'
    BY <1>4 DEF FbInitNoRoom, MemoryIsKept, Taken, BackBuffer, Bitmap
  <2>2. MarkedSoFar'
    BY <1>4, MarkingWaits DEF FbInitNoRoom
  <2>. QED  BY <2>1, <2>2
<1>5. CASE PmInitSize
  <2>1. bitmapBase = Null /\ bitmapBase' = Null /\ phase = "PmInit" /\ phase' = "PmPlace"
    BY <1>5 DEF PmInitSize, MemoryIsKept
  <2>2. BackBuffer' = BackBuffer /\ Bitmap' = {} /\ Bitmap = {}
    BY <1>5, <2>1 DEF PmInitSize, BackBuffer, Bitmap
  <2>3. MemoryIsKept'
    BY <1>5, <2>1, <2>2 DEF PmInitSize, MemoryIsKept, Taken
  <2>4. MarkedSoFar'
    BY <1>5, MarkingWaits DEF PmInitSize
  <2>. QED  BY <2>3, <2>4
<1>6. CASE PmInitPlace
  BY <1>6, PlaceKeepsMemory
<1>7. CASE PmInitNoRoom
  <2>1. MemoryIsKept'
    BY <1>7 DEF PmInitNoRoom, MemoryIsKept, Taken, BackBuffer, Bitmap
  <2>2. CASE phase' = "faulted"
    BY <1>7, <2>1, <2>2, MarkingWaits DEF PmInitNoRoom
  <2>3. CASE phase' # "faulted"
    <3>1. /\ phase = "PmPlace" /\ phase' = "PmMark" /\ bitmapSize = 0 /\ bitmapSize' = 0
          /\ UNCHANGED <<entries, given, pBitmap, strayBits, freePages, k>>
      BY <1>7, <2>3 DEF PmInitNoRoom
    <3>2. k = 1 /\ strayBits = {} /\ freePages = 0
      BY <3>1 DEF MarkedSoFar
    <3>3. Bits' = {}
      BY <3>1, Units DEF Bits
    <3>4. Cleared(k)' = {}
      <4>1. \A j \in UsableEntries(given) : ~(j < 1)
        BY IndexFacts DEF IInv
      <4>2. k' = 1 /\ UsableEntries(given)' = UsableEntries(given)
        BY <3>1, <3>2 DEF UsableEntries
      <4>. QED  BY <4>1, <4>2 DEF Cleared
    <3>. QED  BY <2>1, <3>1, <3>2, <3>3, <3>4, FS_EmptySet DEF MarkedSoFar
  <2>. QED  BY <2>2, <2>3
<1>8. CASE PmInitMark
  BY <1>8, MarkKeepsMemory
<1>9. CASE FirstLogWrite
  <2>1. /\ phase = "PmMark" /\ k \notin DOMAIN entries /\ phase' \in {"faulted", "up"}
        /\ UNCHANGED <<entries, given, fbBytes, pBackAddr, bitmapSize, bitmapBase,
                       pBitmap, strayBits, freePages, k>>
    BY <1>9 DEF FirstLogWrite
  <2>2. MemoryIsKept'
    BY <2>1 DEF MemoryIsKept, Taken, BackBuffer, Bitmap
  <2>3. Bits' = Bits /\ Cleared(k)' = Cleared(k)
    BY <2>1 DEF Bits, Cleared, UsableEntries
  <2>4. k = Len(entries) + 1
    BY <2>1, IndexFacts DEF IInv, MarkedSoFar
  <2>. QED  BY <2>1, <2>2, <2>3, <2>4 DEF MarkedSoFar
<1>. QED  BY <1>1, <1>2, <1>3, <1>4, <1>5, <1>6, <1>7, <1>8, <1>9 DEF Next

LEMMA MemoryInvariance == Spec => [](IInv /\ MemoryIsKept /\ MarkedSoFar)
BY InitIInv, StepKeeps, InitKept, StepKeepsMemory, PTL DEF Spec

\* The free pages are the usable ones that the buffers do not fill.
LEMMA ClearedAtTheEnd ==
  ASSUME IInv, MemoryIsKept, MarkedSoFar, phase = "up"
  PROVE  /\ ClearBits \cup strayBits = Cleared(k) /\ ClearBits \cap strayBits = {}
         /\ IsFiniteSet(Cleared(k)) /\ freePages = Cardinality(Cleared(k))
         /\ Cleared(k) = UNION {IndicesOf(entries[j]) : j \in UsableEntries(given)}
<1>1. k = Len(entries) + 1 /\ \A j \in UsableEntries(given) : j < k
  BY IndexFacts DEF IInv, MarkedSoFar
<1>2. {i \in UsableEntries(given) : i < k} = UsableEntries(given)
  BY <1>1
<1>. QED  BY <1>2 DEF MarkedSoFar, ClearBits, Cleared

\* After PmInit a page is free exactly when it is usable memory and not filled
\* by the back buffer and the bitmap, and freePages counts those pages: for every
\* memory map the boot loader may hand over, whichever entries the two are in.
THEOREM FreePagesAreExact == Spec => []FreePagesAreTheRest
<1>1. IInv /\ MemoryIsKept /\ MarkedSoFar => FreePagesAreTheRest
  <2>. SUFFICES ASSUME IInv, MemoryIsKept, MarkedSoFar, phase = "up"
                PROVE  /\ ClearBits \cup strayBits =
                            {f \in UsablePages : ~(PageBytes(f) \subseteq Taken)}
                       /\ freePages = Cardinality(ClearBits) + Cardinality(strayBits)
    BY DEF FreePagesAreTheRest, Marked, Taken
  <2>1. /\ ClearBits \cup strayBits = Cleared(k) /\ ClearBits \cap strayBits = {}
        /\ IsFiniteSet(Cleared(k)) /\ freePages = Cardinality(Cleared(k))
        /\ Cleared(k) = UNION {IndicesOf(entries[j]) : j \in UsableEntries(given)}
    BY ClearedAtTheEnd
  <2>2. ASSUME NEW f \in Cleared(k) PROVE f \in UsablePages /\ ~(PageBytes(f) \subseteq Taken)
    <3>1. PICK j \in UsableEntries(given) : f \in IndicesOf(entries[j])
      BY <2>1, <2>2
    <3>2. /\ f \in PagesOf(given[j].base, given[j].length)
          /\ \E a \in Room(entries[j]) : a \in PageBytes(f)
          /\ Room(entries[j]) = Room(given[j]) \ Taken
      BY <3>1, PageFacts DEF IInv
    <3>. QED  BY <3>2 DEF UsablePages
  <2>3. ASSUME NEW f \in UsablePages, ~(PageBytes(f) \subseteq Taken) PROVE f \in Cleared(k)
    <3>1. PICK j \in UsableEntries(given) : f \in PagesOf(given[j].base, given[j].length)
      BY DEF UsablePages
    <3>2. PICK a \in PageBytes(f) : a \notin Taken
      BY <2>3
    <3>3. f \in Nat /\ a \in Room(given[j]) /\ Room(entries[j]) = Room(given[j]) \ Taken
      BY <3>1, PageFacts DEF IInv
    <3>4. f \in IndicesOf(entries[j])
      BY <3>2, <3>3, PageFacts DEF IInv
    <3>. QED  BY <2>1, <3>4
  <2>4. freePages = Cardinality(ClearBits) + Cardinality(strayBits)
    <3>1. IsFiniteSet(ClearBits) /\ IsFiniteSet(strayBits)
      BY <2>1, FS_Subset
    <3>2. Cardinality(ClearBits \cup strayBits) = Cardinality(ClearBits) + Cardinality(strayBits)
      BY <2>1, <3>1, DisjointUnion
    <3>. QED  BY <2>1, <3>2
  <2>. QED  BY <2>1, <2>2, <2>3, <2>4
<1>. QED  BY <1>1, MemoryInvariance, PTL

\* A stretch of bytes ends in a page that has one of its bytes and, behind it,
\* one that is not among them.
LEMMA StretchEndsInPage ==
  ASSUME NEW start \in Nat, NEW n \in Nat, NEW f \in Nat, NEW x \in Nat, NEW a \in Nat,
         x \in Bytes(start, n), x \in PageBytes(f), a \in PageBytes(f), x < a,
         a \notin Bytes(start, n)
  PROVE  Max(Bytes(start, n)) \in PageBytes(f)
<1>. DEFINE m == start + n - 1
<1>1. m \in Bytes(start, n) /\ \A b \in Bytes(start, n) : b \in Int /\ b <= m
  BY DEF Bytes
<1>2. Max(Bytes(start, n)) = m
  <2>1. \A b \in Bytes(start, n) : m >= b
    BY <1>1
  <2>2. \A c \in Bytes(start, n) : (\A b \in Bytes(start, n) : c >= b) => c = m
    BY <1>1
  <2>. HIDE DEF m
  <2>. QED  BY <1>1, <2>1, <2>2 DEF Max
<1>3. x <= m /\ m < a
  BY DEF Bytes
<1>4. f * PageSize \in Nat
  BY Units
<1>5. m \in PageBytes(f)
  BY <1>3, <1>4, Units DEF PageBytes, Bytes
<1>. QED  BY <1>2, <1>5

\* The allocator cannot give out a byte of the back buffer or the bitmap, if a
\* screen is a whole number of pages; if not, only the page in which one of
\* them ends has such bytes.
THEOREM BuffersStayKept == Spec => []BuffersAreKept
<1>1. IInv /\ MemoryIsKept /\ MarkedSoFar => BuffersAreKept
  <2>. SUFFICES ASSUME IInv, MemoryIsKept, MarkedSoFar, phase = "up"
                PROVE  /\ BackBuffer \cap Bitmap = {}
                       /\ fbBytes % PageSize = 0 =>
                            \A f \in ClearBits : PageBytes(f) \cap Taken = {}
                       /\ \A f \in ClearBits, buffer \in {BackBuffer, Bitmap} :
                            PageBytes(f) \cap buffer # {} => Max(buffer) \in PageBytes(f)
    BY DEF BuffersAreKept, Marked, Taken
  <2>1. \A f \in ClearBits : \E j \in UsableEntries(given) : f \in IndicesOf(entries[j])
    BY ClearedAtTheEnd
  <2>2. ASSUME NEW f \in ClearBits, fbBytes % PageSize = 0 PROVE PageBytes(f) \cap Taken = {}
    <3>1. PICK j \in UsableEntries(given) : f \in IndicesOf(entries[j])
      BY <2>1
    <3>2. /\ entries[j] \in [type : STRING, base : Nat, length : Nat]
          /\ EndOf(entries[j]) % PageSize = 0 /\ entries[j].base % PageSize = 0
      BY <2>2, GivenFacts DEF IInv, MemoryIsKept, UsableEntries
    <3>3. f \in PagesOf(entries[j].base, entries[j].length)
      BY <3>1, <3>2, LoopClearsPages DEF EndOf
    <3>4. PageBytes(f) \subseteq Room(entries[j])
      BY <3>2, <3>3, PageInside DEF EndOf, Room
    <3>. QED  BY <3>4, PageFacts DEF IInv
  <2>3. ASSUME NEW f \in ClearBits, NEW start \in Nat, NEW n \in Nat,
               Bytes(start, n) \subseteq Taken, PageBytes(f) \cap Bytes(start, n) # {}
        PROVE  Max(Bytes(start, n)) \in PageBytes(f)
    <3>1. PICK j \in UsableEntries(given) : f \in IndicesOf(entries[j])
      BY <2>1
    <3>2. PICK x \in PageBytes(f) : x \in Bytes(start, n)
      BY <2>3
    <3>3. PICK a \in Room(entries[j]) : a \in Nat /\ a \in PageBytes(f)
      BY <3>1, PageFacts DEF IInv
    <3>4. /\ f \in Nat /\ PageBytes(f) \subseteq Room(given[j])
          /\ Room(entries[j]) = Room(given[j]) \ Taken
      BY <3>1, PageFacts DEF IInv
    <3>5. x \in Nat /\ x \in Room(given[j]) /\ x \notin Room(entries[j]) /\ a \notin Bytes(start, n)
      BY <2>3, <3>2, <3>3, <3>4 DEF Bytes
    <3>6. j \in DOMAIN given
      BY DEF UsableEntries
    <3>7. /\ entries[j] \in [type : STRING, base : Nat, length : Nat]
          /\ given[j] \in [type : STRING, base : Nat, length : Nat]
          /\ entries[j].base + entries[j].length = given[j].base + given[j].length
      BY <3>6, GivenFacts DEF IInv, MemoryIsKept, EndOf
    <3>8. x < a
      BY <3>3, <3>5, <3>7 DEF Room, Bytes
    <3>. QED  BY <3>2, <3>3, <3>4, <3>5, <3>8, StretchEndsInPage
  <2>4. ASSUME NEW f \in ClearBits, NEW buffer \in {BackBuffer, Bitmap},
               PageBytes(f) \cap buffer # {}
        PROVE  Max(buffer) \in PageBytes(f)
    <3>1. buffer \subseteq Taken /\ buffer # {}
      BY <2>4 DEF Taken
    <3>2. \E start \in Nat, n \in Nat : buffer = Bytes(start, n)
      <4>1. CASE buffer = BackBuffer
        BY <3>1, <4>1 DEF BackBuffer, MemoryIsKept, IInv, TypeOK
      <4>2. CASE buffer = Bitmap
        BY <3>1, <4>2 DEF Bitmap, MemoryIsKept, IInv, TypeOK
      <4>. QED  BY <4>1, <4>2
    <3>. QED  BY <2>3, <2>4, <3>1, <3>2
  <2>. QED  BY <2>2, <2>4 DEF MemoryIsKept
<1>. QED  BY <1>1, MemoryInvariance, PTL

-----------------------------------------------------------------------------
(* The messages and the programs. *)

LEMMA AppendIsSeq ==
  ASSUME NEW S, NEW s \in Seq(S), NEW x
  PROVE  /\ Append(s, x) \in Seq(S \cup {x})
         /\ x \in S => Append(s, x) \in Seq(S)
         /\ Len(Append(s, x)) = Len(s) + 1
OBVIOUS

\* A sequence is one of its elements.
LEMMA IsItsOwnSeq ==
  ASSUME NEW S, NEW t \in Seq(S)
  PROVE  t \in Seq(ToSet(t))
<1>1. Len(t) \in Nat /\ t = [i \in 1 .. Len(t) |-> t[i]] /\ DOMAIN t = 1 .. Len(t)
  BY LenProperties
<1>2. \A i \in 1 .. Len(t) : t[i] \in ToSet(t)
  BY <1>1 DEF ToSet
<1>3. [i \in 1 .. Len(t) |-> t[i]] \in Seq(ToSet(t))
  BY <1>1, <1>2, IsASeq
<1> QED BY <1>1, <1>3

LEMMA AppendIsItsOwnSeq ==
  ASSUME NEW s, s \in Seq(ToSet(s)), NEW x
  PROVE  Append(s, x) \in Seq(ToSet(Append(s, x)))
<1>1. Append(s, x) \in Seq(ToSet(s) \cup {x})
  BY AppendIsSeq
<1> QED BY <1>1, IsItsOwnSeq

\* Sequences joined are one of both their elements.
LEMMA JoinIsSeq ==
  ASSUME NEW s, NEW t, s \in Seq(ToSet(s)), t \in Seq(ToSet(t))
  PROVE  s \o t \in Seq(ToSet(s \o t))
<1> DEFINE A == ToSet(s)
           B == ToSet(t)
<1>1. s \in Seq(A) /\ t \in Seq(B)
  OBVIOUS
<1> HIDE DEF A, B
<1>2. s \in Seq(A \cup B) /\ t \in Seq(A \cup B)
  BY <1>1
<1>3. s \o t \in Seq(A \cup B)
  BY <1>2, ConcatProperties
<1> QED BY <1>3, IsItsOwnSeq

LEMMA LogIsSeq ==
  ASSUME NEW status, NEW t
  PROVE  LogWrite(status, t) \in Seq(ToSet(LogWrite(status, t)))
<1>1. \A a, b, c, d, e, f :
        <<a, b, c, d, e, f>> \in Seq({a, b, c, d, e, f})
  OBVIOUS
<1>2. \A a, b, c, d, e, f : <<a, b, c, d, e, f>> \in Seq(ToSet(<<a, b, c, d, e, f>>))
  BY <1>1, IsItsOwnSeq
<1> QED BY <1>2 DEF LogWrite

LEMMA OneIsSeq ==
  ASSUME NEW x
  PROVE  <<x>> \in Seq(ToSet(<<x>>))
<1>1. <<x>> \in Seq({x})
  OBVIOUS
<1> QED BY <1>1, IsItsOwnSeq

LEMMA ProgramsAreSeqs == \A p \in Programs : p.steps \in Seq(ToSet(p.steps))
<1> DEFINE IsSeq(s) == s \in Seq(ToSet(s))
<1>1. \A s, t : IsSeq(s) /\ IsSeq(t) => IsSeq(s \o t)
  BY JoinIsSeq
<1>2. /\ \A status, t : IsSeq(LogWrite(status, t)) /\ IsSeq(SeFSend(t))
      /\ \A op : IsSeq(<<Do(op)>>)
      /\ \A s : IsSeq(<<s>>)
  BY LogIsSeq, OneIsSeq DEF SeFSend
<1> HIDE DEF IsSeq
<1>3. IsSeq(KeStart)
  BY <1>1, <1>2, Zenon DEF KeStart
<1>4. IsSeq(OtherLogs)
  BY <1>1, <1>2, Zenon DEF OtherLogs
<1>5. ASSUME NEW p \in Programs PROVE IsSeq(p.steps)
  <2>1. \/ p.steps = KeStart \/ p.steps = OtherLogs
        \/ \E s \in Calls : p.steps = <<s>>
    BY DEF Programs
  <2> QED BY <1>2, <1>3, <1>4, <2>1
<1> QED BY <1>5 DEF IsSeq

-----------------------------------------------------------------------------
(* A text without directives, printed as the standard and printf say. *)

LEMMA FrontIs ==
  ASSUME NEW S, NEW s \in Seq(S), NEW n \in 0 .. Len(s)
  PROVE  /\ SubSeq(s, 1, n) \in Seq(S) /\ Len(SubSeq(s, 1, n)) = n
         /\ \A i \in 1 .. n : SubSeq(s, 1, n)[i] = s[i]
<1>1. Len(s) \in Nat
  BY LenProperties
<1>2. \A i \in 1 .. n : s[i] \in S
  <2>1. \A i \in 1 .. n : i \in 1 .. Len(s)
    BY <1>1
  <2> QED BY <2>1, ElementOfSeq
<1>3. 1 \in Int /\ n \in Int
  BY <1>1
<1>4. /\ SubSeq(s, 1, n) \in Seq(S)
      /\ Len(SubSeq(s, 1, n)) = IF 1 <= n THEN n - 1 + 1 ELSE 0
      /\ \A i \in 1 .. n - 1 + 1 : SubSeq(s, 1, n)[i] = s[1 + i - 1]
  BY <1>2, <1>3, SubSeqProperties
<1> QED BY <1>4, <1>1

\* Printed's Item.
ItemOf(s, d) ==
  CASE d.conv = "copy" -> [s EXCEPT !.text = Append(@, d.ch)]
    [] d.conv = "%" -> [s EXCEPT !.text = Append(@, "%")]
    [] d.conv = "n" -> [s EXCEPT !.stored = Len(s.text), !.args = Tail(@)]
    [] OTHER -> Resolved(s, d, Resolve(d, s.args))

NoneYet(args) == [text |-> <<>>, args |-> args, stored |-> -1, deviates |-> FALSE]

\* A text without directives is printed character by character.
LEMMA CharsArePrinted ==
  ASSUME NEW S, NEW text \in Seq(S), NEW args
  PROVE  Printed(Chars(text), args).text = text
<1> DEFINE V == [text : Seq(S), args : {args}, stored : {-1}, deviates : {FALSE}]
           q == Chars(text)
           n == Len(text)
           base == NoneYet(args)
           step == [p \in V \X (1 .. n) |-> ItemOf(p[1], q[p[2]])]
           Loop(F) == F = [s \in SUBSET (DOMAIN q) |->
                       IF s = {} THEN base ELSE ItemOf(F[s \ {Max(s)}], q[Max(s)])]
           F == CHOOSE F : Loop(F)
<1>1. Printed(q, args) = F[DOMAIN q]
  BY DEF Printed, FoldLeft, MapThenFoldSet, ItemOf, NoneYet
<1>2. n \in Nat /\ DOMAIN q = 1 .. n /\ (\A m \in 1 .. n : q[m] = Char(text[m]) /\ text[m] \in S)
  BY LenProperties, ElementOfSeq DEF Chars
<1>3. ASSUME NEW u \in V, NEW m \in 1 .. n
      PROVE  ItemOf(u, q[m]) = [u EXCEPT !.text = Append(@, text[m])] /\ ItemOf(u, q[m]) \in V
  <2>1. q[m] = [conv |-> "copy", ch |-> text[m]]
    BY <1>2 DEF Char
  <2> HIDE DEF q, n
  <2>2. ItemOf(u, q[m]) = [u EXCEPT !.text = Append(@, text[m])]
    BY <2>1 DEF ItemOf
  <2>3. Append(u.text, text[m]) \in Seq(S)
    BY <1>2, AppendProperties
  <2> QED BY <2>2, <2>3
<1>4. base \in V
  <2>1. <<>> \in Seq(S)
    BY EmptySeq
  <2> QED BY <2>1 DEF NoneYet
<1>5. base.text = <<>>
  BY DEF NoneYet
<1> HIDE DEF V, q, n, base
<1>6. step \in [V \X (1 .. n) -> V] /\ \A u \in V, m \in 1 .. n : step[<<u, m>>] = ItemOf(u, q[m])
  BY <1>3
<1> HIDE DEF step
<1>7. PICK f \in [SUBSET (1 .. n) -> V], g \in [0 .. n -> V] :
        /\ Recurs(f, n, base, step) /\ g[0] = base
        /\ \A m \in 1 .. n : g[m] = step[<<g[m - 1], m>>]
        /\ \A G : Follows(G, n, V, base, step) => G[1 .. n] = g[n]
  <2>1. Stepwise(n, V, base, step)
    BY <1>2, <1>4, <1>6, FoldRun
  <2> QED BY <2>1 DEF Stepwise
<1>8. \A s \in SUBSET (1 .. n) : s # {} => Max(s) \in 1 .. n
  BY <1>2, LargestOf
<1>9. Loop(F)
  <2>1. Loop(f)
    <3>1. \A s \in SUBSET (1 .. n) : s # {} => f[s \ {Max(s)}] \in V
      BY <1>7
    <3>2. \A s \in SUBSET (1 .. n) :
            (IF s = {} THEN base ELSE step[<<f[s \ {Max(s)}], Max(s)>>])
              = (IF s = {} THEN base ELSE ItemOf(f[s \ {Max(s)}], q[Max(s)]))
      BY <1>6, <1>8, <3>1
    <3> QED BY <1>2, <1>7, <3>2 DEF Recurs
  <2> HIDE DEF Loop
  <2> QED BY <2>1
<1> HIDE DEF F
<1>10. Follows(F, n, V, base, step)
  BY <1>2, <1>6, <1>8, <1>9 DEF Follows
<1>11. Printed(q, args) = g[n]
  BY <1>1, <1>2, <1>7, <1>10
<1>12. \A m \in 0 .. n : m \in {i \in 0 .. n : Len(g[i].text) = i /\ \A j \in 1 .. i : g[i].text[j] = text[j]}
  <2> DEFINE T == {i \in 0 .. n : Len(g[i].text) = i /\ \A j \in 1 .. i : g[i].text[j] = text[j]}
  <2>1. 0 \in T
    BY <1>2, <1>5, <1>7
  <2>2. ASSUME NEW m \in 0 .. (n - 1), m \in T PROVE m + 1 \in T
    <3>1. m + 1 \in 1 .. n /\ (m + 1) - 1 = m /\ m \in 0 .. n /\ m \in Nat
      BY <1>2
    <3> DEFINE t == g[m].text
               x == text[m + 1]
    <3>2. g[m] \in V /\ t \in Seq(S) /\ x \in S
      BY <1>2, <1>7, <3>1 DEF V
    <3>3. g[m + 1].text = Append(t, x)
      <4>1. g[m + 1] = ItemOf(g[m], q[m + 1])
        BY <1>6, <1>7, <3>1, <3>2
      <4>2. g[m + 1] = [g[m] EXCEPT !.text = Append(@, text[m + 1])]
        BY <1>3, <3>1, <3>2, <4>1
      <4> QED BY <4>2, <3>2 DEF V
    <3>4. Len(t) = m /\ \A j \in 1 .. m : t[j] = text[j]
      BY <2>2
    <3> HIDE DEF t
    <3>5. Len(Append(t, x)) = m + 1 /\ \A j \in 1 .. m : Append(t, x)[j] = t[j]
      BY <3>1, <3>2, <3>4
    <3>6. Append(t, x)[m + 1] = x
      BY <3>1, <3>2, <3>4
    <3>7. \A j \in 1 .. (m + 1) : j \in 1 .. m \/ j = m + 1
      BY <3>1
    <3>8. \A j \in 1 .. (m + 1) : g[m + 1].text[j] = text[j]
      BY <3>3, <3>4, <3>5, <3>6, <3>7
    <3>9. Len(g[m + 1].text) = m + 1
      BY <3>3, <3>5
    <3>10. m + 1 \in 0 .. n
      BY <3>1
    <3> QED BY <3>8, <3>9, <3>10
  <2> HIDE DEF T
  <2>3. \A m \in 0 .. n : m \in T
    BY <1>2, <2>1, <2>2, UpTo
  <2> QED BY <2>3 DEF T
<1>13. g[n].text = text
  <2>1. g[n] \in V /\ n \in 0 .. n
    BY <1>2, <1>7
  <2>2. g[n].text \in Seq(S)
    BY <2>1 DEF V
  <2>3. Len(g[n].text) = Len(text) /\ \A j \in 1 .. Len(text) : g[n].text[j] = text[j]
    BY <1>12, <2>1 DEF n
  <2> QED BY <2>2, <2>3, SeqEqual
<1> QED BY <1>11, <1>13 DEF q

\* A text without directives is its own format.
LEMMA CharsAreSpelled ==
  ASSUME NEW S, NEW text \in Seq(S)
  PROVE  Spell(Chars(text)) = text
<1> DEFINE q == [j \in DOMAIN text |-> <<text[j]>>]
           n == Len(text)
           Loop(F) == F = [i \in 1 .. Len(q) |-> IF i = 1 THEN q[i] ELSE F[i - 1] \o q[i]]
           F == CHOOSE F : Loop(F)
           G == [i \in 1 .. n |-> SubSeq(text, 1, i)]
<1>1. n \in Nat /\ DOMAIN text = 1 .. n
  BY LenProperties
<1>2. [j \in DOMAIN Chars(text) |-> SpellItem(Chars(text)[j])] = q
  BY DEF Chars, Char, SpellItem
<1>3. q \in Seq(Seq(S)) /\ Len(q) = n /\ \A j \in 1 .. n : q[j] = <<text[j]>>
  <2>1. \A j \in 1 .. n : <<text[j]>> \in Seq(S)
    BY <1>1, ElementOfSeq
  <2>2. [j \in 1 .. n |-> <<text[j]>>] \in Seq(Seq(S))
    BY <1>1, <2>1, IsASeq
  <2>3. q \in Seq(Seq(S)) /\ DOMAIN q = 1 .. n
    BY <1>1, <2>2
  <2>4. Len(q) \in Nat /\ DOMAIN q = 1 .. Len(q)
    BY <2>3, LenProperties
  <2>5. Len(q) = n
    BY <1>1, <2>3, <2>4
  <2> QED BY <1>1, <2>3, <2>5
<1>4. Spell(Chars(text)) = FlattenSeq(q)
  BY <1>2 DEF Spell
<1> HIDE DEF q, n
<1>5. FlattenSeq(q) = IF Len(q) = 0 THEN q ELSE F[Len(q)]
  BY DEF FlattenSeq
<1>6. CASE n = 0
  BY <1>3, <1>4, <1>6, <1>5, EmptySeq DEF n
<1>7. CASE n # 0
  <2>1. \A i \in 1 .. n : G[i] = IF i = 1 THEN q[i] ELSE G[i - 1] \o q[i]
    <3> TAKE i \in 1 .. n
    <3>1. i \in 1 .. Len(text) /\ i \in 1 .. i /\ i \in Nat
      BY <1>1 DEF n
    <3>2. 1 \in 1 .. Len(text) /\ i \in 1 .. Len(text) /\ Len(text) \in Nat
      BY <1>1, <3>1 DEF n
    <3>3. SubSeq(text, 1, i) = SubSeq(text, 1, i - 1) \o <<text[i]>>
      BY <3>1, <3>2, SubSeqRecursiveSecond
    <3>4. CASE i = 1
      <4>1. SubSeq(text, 1, 0) = <<>>
        BY SubSeqEmpty
      <4>2. <<text[1]>> \in Seq(S)
        BY <3>2, ElementOfSeq
      <4>3. <<>> \o <<text[1]>> = <<text[1]>>
        BY <4>2, ConcatEmptySeq
      <4> QED BY <1>3, <3>3, <3>4, <4>1, <4>3
    <3>5. CASE i # 1
      <4>1. i - 1 \in 1 .. n
        BY <1>1, <3>5
      <4> QED BY <1>3, <3>3, <3>5, <4>1
    <3> QED BY <3>4, <3>5
  <2>2. Loop(G)
    BY <1>3, <2>1
  <2>3. Loop(F)
    <3> HIDE DEF Loop, G
    <3> QED BY <2>2
  <2> HIDE DEF F
  <2>4. \A m \in 0 .. n : m \in {i \in 0 .. n : i = 0 \/ F[i] = G[i]}
    <3> DEFINE T == {i \in 0 .. n : i = 0 \/ F[i] = G[i]}
    <3>1. 0 \in T
      BY <1>1
    <3>2. ASSUME NEW m \in 0 .. (n - 1), m \in T PROVE m + 1 \in T
      <4>1. m + 1 \in 1 .. n /\ (m + 1) - 1 = m /\ m \in Nat
        BY <1>1
      <4>2. F[m + 1] = IF m + 1 = 1 THEN q[m + 1] ELSE F[m] \o q[m + 1]
        BY <1>3, <2>3, <4>1
      <4>3. G[m + 1] = IF m + 1 = 1 THEN q[m + 1] ELSE G[m] \o q[m + 1]
        BY <2>1, <4>1
      <4>4. m = 0 \/ F[m] = G[m]
        BY <3>2
      <4> HIDE DEF G
      <4>5. F[m + 1] = G[m + 1]
        BY <4>1, <4>2, <4>3, <4>4
      <4> QED BY <4>1, <4>5
    <3> HIDE DEF T
    <3>3. \A m \in 0 .. n : m \in T
      BY <1>1, <3>1, <3>2, UpTo
    <3> QED BY <3>3 DEF T
  <2>5. n \in 0 .. n /\ n \in 1 .. n
    BY <1>1, <1>7
  <2>6. F[n] = G[n]
    BY <1>7, <2>4, <2>5
  <2>7. G[n] = SubSeq(text, 1, n)
    BY <2>5
  <2>8. SubSeq(text, 1, n) = text
    BY SubSeqFull DEF n
  <2>9. Len(q) # 0
    BY <1>3, <1>7
  <2> QED BY <1>3, <1>4, <1>5, <2>6, <2>7, <2>8, <2>9
<1> QED BY <1>6, <1>7

-----------------------------------------------------------------------------
(* printf's loop over a message. *)

\* A call with rest of its format left and text formatted so far.
LoopState(rest, args, text) ==
  [rest |-> rest, args |-> args, text |-> text, stored |-> -1,
   ended |-> FALSE, past |-> FALSE, over |-> FALSE]

\* The loop over a message without directives, n characters of it copied.
CopyLoop(s, n) ==
  LET text == TextOf(s)
  IN  LoopState(SubSeq(text, n + 1, Len(text)), s.args, SubSeq(text, 1, n))
Copied(s, n) == [loop |-> CopyLoop(s, n), text |-> TextOf(s)]
Copying == UNION {{Copied(s, n) : n \in 0 .. Len(TextOf(s))} : s \in {m \in Messages : Plain(m)}}

\* The states of the loop over any message, each with the whole text.
Rendering == Formatting \cup Copying

Moved(l, rest, text) == [l EXCEPT !.text = text, !.rest = rest]

LEMMA StartIs == \A rest, args : LoopState(rest, args, <<>>) = NewCall(rest, args)
BY DEF LoopState, NewCall

LEMMA LoopStateIs ==
  ASSUME NEW rest, NEW args, NEW text
  PROVE  /\ LoopState(rest, args, text).rest = rest /\ LoopState(rest, args, text).text = text
         /\ Finished(LoopState(rest, args, text)) <=> rest = <<>>
BY DEF LoopState, Finished

LEMMA NextLoopState ==
  ASSUME NEW rest, NEW args, NEW text, NEW r, NEW t
  PROVE  Moved(LoopState(rest, args, text), r, t) = LoopState(r, args, t)
<1> DEFINE D == {"rest", "args", "text", "stored", "ended", "past", "over"}
           l == LoopState(rest, args, text)
           a == Moved(l, r, t)
           b == LoopState(r, args, t)
<1>1. DOMAIN l = D /\ DOMAIN b = D
  BY DEF LoopState
<1>2. l.args = args /\ l.stored = -1 /\ l.ended = FALSE /\ l.past = FALSE /\ l.over = FALSE
  BY DEF LoopState
<1>3. /\ b.rest = r /\ b.text = t /\ b.args = args
      /\ b.stored = -1 /\ b.ended = FALSE /\ b.past = FALSE /\ b.over = FALSE
  BY DEF LoopState
<1>4. b = [x \in D |-> b[x]]
  BY DEF LoopState
<1> HIDE DEF b
<1> HIDE DEF l
<1>5. a = [x \in D |-> a[x]]
  BY <1>1 DEF Moved
<1>6. \A x \in D : a[x] = b[x]
  BY <1>1, <1>2, <1>3 DEF Moved
<1> HIDE DEF a
<1>7. [x \in D |-> a[x]] = [x \in D |-> b[x]]
  BY <1>6
<1>8. a = b
  BY <1>5, <1>4, <1>7, Zenon
<1> QED BY <1>8 DEF a, b, l

LEMMA PlainIs ==
  ASSUME NEW s, Plain(s)
  PROVE  /\ TextOf(s) \in Seq(Ascii \ {"%"}) /\ Len(TextOf(s)) \in Nat
         /\ Begun(s) = NewCall(TextOf(s), s.args)
<1> DEFINE C == {Char(ch) : ch \in Ascii \ {"%"}}
           n == Len(s.items)
           text == [j \in 1 .. n |-> s.items[j].ch]
<1>1. s.items \in Seq(C) /\ s.cut = 0
  BY DEF Plain
<1>2. \A c \in C : c.ch \in Ascii \ {"%"} /\ c = Char(c.ch)
  BY DEF Char
<1> HIDE DEF C
<1>3. n \in Nat /\ DOMAIN s.items = 1 .. n /\ (\A j \in 1 .. n : s.items[j] \in C)
      /\ s.items = [j \in 1 .. n |-> s.items[j]]
  BY <1>1, LenProperties, ElementOfSeq
<1> HIDE DEF n
<1>4. text \in Seq(Ascii \ {"%"})
  <2>1. \A j \in 1 .. n : s.items[j].ch \in Ascii \ {"%"}
    BY <1>2, <1>3
  <2> QED BY <1>3, <2>1, IsASeq
<1>5. Chars(text) = s.items
  <2>1. Chars(text) = [j \in 1 .. n |-> Char(text[j])]
    BY DEF Chars
  <2>2. \A j \in 1 .. n : Char(text[j]) = s.items[j]
    BY <1>2, <1>3
  <2> HIDE DEF text
  <2> QED BY <1>3, <2>1, <2>2
<1> HIDE DEF text
<1>6. TextOf(s) = text
  BY <1>4, <1>5, CharsArePrinted DEF TextOf
<1>7. Spell(s.items) = text
  BY <1>4, <1>5, CharsAreSpelled
<1>8. Len(text) \in Nat /\ SubSeq(text, 1, Len(text)) = text
  BY <1>4, LenProperties, SubSeqFull
<1>9. Begun(s) = NewCall(text, s.args)
  <2>1. Len(text) - s.cut = Len(text)
    BY <1>1, <1>8
  <2> QED BY <1>7, <1>8, <2>1 DEF Begun
<1> QED BY <1>4, <1>6, <1>8, <1>9

\* One round copies one character; the last one copied, the loop ends.
LEMMA CopyGoesOn ==
  ASSUME NEW s, Plain(s), NEW n \in 0 .. Len(TextOf(s))
  PROVE  /\ CopyLoop(s, n).text = SubSeq(TextOf(s), 1, n)
         /\ Finished(CopyLoop(s, n)) <=> n = Len(TextOf(s))
         /\ n < Len(TextOf(s)) => Iterate(CopyLoop(s, n)) = CopyLoop(s, n + 1)
<1> DEFINE text == TextOf(s)
           l == CopyLoop(s, n)
           rest == SubSeq(text, n + 1, Len(text))
           Chs == Ascii \ {"%"}
<1>1. text \in Seq(Chs) /\ Len(text) \in Nat /\ Begun(s) = NewCall(text, s.args)
  BY PlainIs
<1> HIDE DEF Chs
<1>2. l = LoopState(rest, s.args, SubSeq(text, 1, n))
  BY DEF CopyLoop
<1> DEFINE Is(x, e, t) ==
             /\ x.rest = e /\ x.text = t /\ (Finished(x) <=> e = <<>>)
             /\ \A r, u : Moved(x, r, u) = LoopState(r, s.args, u)
<1>3. \A e, t : Is(LoopState(e, s.args, t), e, t)
  <2> TAKE e, t
  <2> DEFINE x == LoopState(e, s.args, t)
  <2>1. x.rest = e /\ x.text = t
    BY LoopStateIs
  <2>2. Finished(x) <=> e = <<>>
    BY LoopStateIs
  <2>3. \A r, u : Moved(x, r, u) = LoopState(r, s.args, u)
    <3> TAKE r, u
    <3> QED BY NextLoopState
  <2> HIDE DEF x
  <2>4. Is(x, e, t)
    BY <2>1, <2>2, <2>3
  <2> QED BY <2>4 DEF x
<1>4. Is(l, rest, SubSeq(text, 1, n))
  <2> HIDE DEF Is, l, rest
  <2> QED BY <1>2, <1>3
<1>5. l.rest = rest /\ l.text = SubSeq(text, 1, n) /\ (Finished(l) <=> rest = <<>>)
  BY <1>4
<1>6. \A r, t : Moved(l, r, t) = LoopState(r, s.args, t)
  BY <1>4
<1> HIDE DEF Is
<1>7. n \in Nat /\ n <= Len(text) /\ n \in Int
  BY <1>1
<1> HIDE DEF text, l
<1>8. CASE n = Len(text)
  <2>1. rest = <<>>
    <3>1. n + 1 \in Int /\ Len(text) \in Int /\ Len(text) < n + 1
      BY <1>1, <1>8
    <3> QED BY <3>1, SubSeqEmpty
  <2> QED BY <1>5, <1>8, <2>1, <1>1 DEF l, text
<1>9. CASE n < Len(text)
  <2>1. n + 1 \in 1 .. Len(text) /\ Len(text) \in (n + 1) .. Len(text) /\ (n + 1) - 1 = n
        /\ n + 1 \in 1 .. (n + 1)
    BY <1>1, <1>7, <1>9
  <2>2. Head(rest) = text[n + 1] /\ Tail(rest) = SubSeq(text, (n + 1) + 1, Len(text))
    BY <1>1, <2>1, HeadTailOfSubSeq
  <2>3. rest # <<>>
    <3>1. \A j \in (n + 1) .. Len(text) : text[j] \in Chs
      <4>1. \A j \in (n + 1) .. Len(text) : j \in 1 .. Len(text)
        BY <1>1, <1>7
      <4> QED BY <1>1, <4>1, ElementOfSeq
    <3>2. n + 1 \in Int /\ Len(text) \in Int /\ n + 1 <= Len(text)
      BY <1>1, <1>7, <1>9
    <3>3. Len(rest) = Len(text) - (n + 1) + 1
      BY <3>1, <3>2, SubSeqProperties
    <3>4. Len(rest) > 0
      BY <3>2, <3>3
    <3> HIDE DEF rest
    <3>5. rest = <<>> => Len(rest) = 0
      OBVIOUS
    <3> QED BY <3>4, <3>5
  <2>4. text[n + 1] # "%"
    BY <1>1, <2>1, ElementOfSeq DEF Chs
  <2>5. Append(SubSeq(text, 1, n), text[n + 1]) = SubSeq(text, 1, n + 1)
    <3>1. 1 \in 1 .. Len(text)
      BY <1>1, <2>1
    <3>2. SubSeq(text, 1, n + 1) = SubSeq(text, 1, n) \o <<text[n + 1]>>
      <4>1. SubSeq(text, 1, n + 1) = SubSeq(text, 1, (n + 1) - 1) \o <<text[n + 1]>>
        BY <1>1, <2>1, <3>1, SubSeqRecursiveSecond
      <4> QED BY <2>1, <4>1
    <3>3. SubSeq(text, 1, n) \in Seq(Chs) /\ text[n + 1] \in Chs
      <4>1. n \in 0 .. Len(text)
        BY <1>7, <1>1
      <4> QED BY <1>1, <2>1, <4>1, FrontIs, ElementOfSeq
    <3>4. SubSeq(text, 1, n) \o <<text[n + 1]>> = Append(SubSeq(text, 1, n), text[n + 1])
      <4> DEFINE t == SubSeq(text, 1, n)
                 x == text[n + 1]
      <4>1. t \in Seq(Chs) /\ x \in Chs
        BY <3>3
      <4> HIDE DEF t, x
      <4>2. t \o <<x>> = Append(t, x)
        BY <4>1
      <4> QED BY <4>2 DEF t, x
    <3> QED BY <3>2, <3>4
  <2> HIDE DEF rest
  <2>6. l.rest = rest /\ l.text = SubSeq(text, 1, n)
    BY <1>5
  <2>7. ~Finished(l)
    BY <2>3, <1>5
  <2>8. Iterate(l) = Moved(l, Tail(rest), SubSeq(text, 1, n + 1))
    BY <2>2, <2>4, <2>5, <2>6 DEF Iterate, Moved
  <2>9. CopyLoop(s, n + 1)
          = LoopState(Tail(rest), s.args, SubSeq(text, 1, n + 1))
    BY <2>2 DEF CopyLoop, text
  <2>10. Iterate(l) = CopyLoop(s, n + 1)
    BY <1>6, <2>8, <2>9
  <2> QED BY <1>7, <1>9, <2>6, <2>7, <2>10 DEF l, text
<1> QED BY <1>7, <1>8, <1>9 DEF text

\* What MessagesAssumption says of the formatting of messages with directives
\* holds of all messages.
LEMMA RenderingIs ==
  /\ \A s \in Messages : [loop |-> Begun(s), text |-> TextOf(s)] \in Rendering
  /\ \A m \in Rendering :
       /\ m.loop.text \in Seq(Ascii) /\ m.text \in Seq(Ascii) /\ IsPrefix(m.loop.text, m.text)
       /\ Finished(m.loop) => m.loop.text = m.text
       /\ ~Finished(m.loop) => /\ [loop |-> Iterate(m.loop), text |-> m.text] \in Rendering
                               /\ Len(m.loop.text) <= Len(Iterate(m.loop).text)
<1>1. ASSUME NEW s \in Messages PROVE [loop |-> Begun(s), text |-> TextOf(s)] \in Rendering
  <2>1. CASE Plain(s)
    <3>1. Len(TextOf(s)) \in Nat /\ Begun(s) = NewCall(TextOf(s), s.args) /\ TextOf(s) \in Seq(Ascii \ {"%"})
      BY <2>1, PlainIs
    <3>2. SubSeq(TextOf(s), 1, 0) = <<>> /\ SubSeq(TextOf(s), 1, Len(TextOf(s))) = TextOf(s)
      BY <3>1, SubSeqEmpty, SubSeqFull
    <3>3. CopyLoop(s, 0) = Begun(s)
      <4>1. CopyLoop(s, 0) = LoopState(SubSeq(TextOf(s), 1, Len(TextOf(s))), s.args, SubSeq(TextOf(s), 1, 0))
        BY DEF CopyLoop
      <4> QED BY <3>1, <3>2, <4>1, StartIs
    <3>4. 0 \in 0 .. Len(TextOf(s))
      BY <3>1
    <3>5. Copied(s, 0) \in Copying
      BY <2>1, <3>4 DEF Copying
    <3> QED BY <3>3, <3>5 DEF Copied, Rendering
  <2>2. CASE ~Plain(s)
    BY <2>2, MessagesAssumption DEF Rendering
  <2> QED BY <2>1, <2>2
<1>2. ASSUME NEW m \in Formatting
      PROVE  /\ m.loop.text \in Seq(Ascii) /\ m.text \in Seq(Ascii) /\ IsPrefix(m.loop.text, m.text)
             /\ Finished(m.loop) => m.loop.text = m.text
             /\ ~Finished(m.loop) => /\ [loop |-> Iterate(m.loop), text |-> m.text] \in Rendering
                                     /\ Len(m.loop.text) <= Len(Iterate(m.loop).text)
  BY MessagesAssumption DEF Rendering
<1>3. ASSUME NEW m \in Copying
      PROVE  /\ m.loop.text \in Seq(Ascii) /\ m.text \in Seq(Ascii) /\ IsPrefix(m.loop.text, m.text)
             /\ Finished(m.loop) => m.loop.text = m.text
             /\ ~Finished(m.loop) => /\ [loop |-> Iterate(m.loop), text |-> m.text] \in Rendering
                                     /\ Len(m.loop.text) <= Len(Iterate(m.loop).text)
  <2>1. PICK s \in Messages : Plain(s) /\ \E n \in 0 .. Len(TextOf(s)) : m = Copied(s, n)
    BY DEF Copying
  <2>2. PICK n \in 0 .. Len(TextOf(s)) : m = Copied(s, n)
    BY <2>1
  <2> DEFINE text == TextOf(s)
  <2>3. m.loop = CopyLoop(s, n) /\ m.text = text
    BY <2>2 DEF Copied
  <2>4. text \in Seq(Ascii \ {"%"}) /\ Len(text) \in Nat
    BY <2>1, PlainIs
  <2>5. /\ m.loop.text = SubSeq(text, 1, n)
        /\ Finished(m.loop) <=> n = Len(text)
        /\ n < Len(text) => Iterate(m.loop) = CopyLoop(s, n + 1)
    BY <2>1, <2>3, CopyGoesOn
  <2>6. n < Len(text) => CopyLoop(s, n + 1).text = SubSeq(text, 1, n + 1)
    <3>1. n < Len(text) => n + 1 \in 0 .. Len(text)
      BY <2>4
    <3> QED BY <2>1, <3>1, CopyGoesOn
  <2>7. n < Len(text) => Copied(s, n + 1) \in Copying
    <3>1. n < Len(text) => n + 1 \in 0 .. Len(text)
      BY <2>4
    <3> QED BY <2>1, <3>1 DEF Copying
  <2> HIDE DEF text
  <2>8. text \in Seq(Ascii)
    BY <2>4
  <2>9. \A e \in 0 .. Len(text) :
          SubSeq(text, 1, e) \in Seq(Ascii) /\ Len(SubSeq(text, 1, e)) = e
    BY <2>8, FrontIs
  <2>10. n \in 0 .. Len(text) /\ n \in Nat /\ (n < Len(text) => n + 1 \in 0 .. Len(text))
    BY <2>4 DEF text
  <2>11. m.loop.text \in Seq(Ascii) /\ Len(m.loop.text) = n
    BY <2>5, <2>9, <2>10
  <2>12. IsPrefix(m.loop.text, m.text)
    <3> DEFINE begun == SubSeq(text, 1, n)
    <3>1. begun \in Seq(Ascii) /\ Len(begun) = n
      BY <2>9, <2>10
    <3> HIDE DEF begun
    <3>2. SubSeq(begun, 1, n) = begun
      BY <3>1, SubSeqFull
    <3>3. m.loop.text = begun
      BY <2>5 DEF begun
    <3> QED BY <2>3, <2>10, <3>1, <3>2, <3>3 DEF IsPrefix, begun
  <2>13. Finished(m.loop) => m.loop.text = m.text
    <3>1. SubSeq(text, 1, Len(text)) = text
      BY <2>8, SubSeqFull
    <3> QED BY <2>3, <2>5, <3>1
  <2>14. ~Finished(m.loop) => n < Len(text)
    BY <2>4, <2>5, <2>10
  <2>15. ASSUME ~Finished(m.loop)
         PROVE  /\ [loop |-> Iterate(m.loop), text |-> m.text] \in Rendering
                /\ Len(m.loop.text) <= Len(Iterate(m.loop).text)
    <3>1. n < Len(text) /\ Iterate(m.loop) = CopyLoop(s, n + 1)
      BY <2>5, <2>14, <2>15
    <3>2. [loop |-> Iterate(m.loop), text |-> m.text] = Copied(s, n + 1)
      BY <2>3, <3>1 DEF Copied, text
    <3>3. Len(Iterate(m.loop).text) = n + 1
      BY <2>6, <2>9, <2>10, <3>1
    <3> QED BY <2>7, <2>10, <2>11, <3>1, <3>2, <3>3 DEF Rendering
  <2> QED BY <2>3, <2>8, <2>11, <2>12, <2>13, <2>15
<1> QED BY <1>1, <1>2, <1>3 DEF Rendering

\* The states of printf's loop while it formats a message.
Sending == {m.loop : m \in Rendering}

LEMMA SendingIs ==
  /\ \A p \in Programs : \A s \in ToSet(p.steps) :
       s.op = "print" /\ s.to = "com1" => Begun(s) \in Sending
  /\ \A l \in Sending :
       /\ l.text \in Seq(Ascii)
       /\ ~Finished(l) => /\ Iterate(l) \in Sending
                          /\ Len(l.text) <= Len(Iterate(l).text)
<1>1. ASSUME NEW p \in Programs, NEW s \in ToSet(p.steps), s.op = "print", s.to = "com1"
      PROVE  Begun(s) \in Sending
  <2>1. CASE p.steps = KeStart \/ p.steps = OtherLogs
    <3>1. s \in Messages
      BY <1>1, <2>1 DEF Messages
    <3>2. [loop |-> Begun(s), text |-> TextOf(s)] \in Rendering
      BY <3>1, RenderingIs
    <3> QED BY <3>2 DEF Sending
  <2>2. ASSUME NEW c \in Calls, p.steps = <<c>> PROVE FALSE
    <3>1. s = c
      BY <2>2 DEF ToSet
    <3>2. c.to = "buffer"
      BY <2>2, MessagesAssumption
    <3> QED BY <1>1, <3>1, <3>2
  <2> QED BY <2>1, <2>2 DEF Programs
<1>2. ASSUME NEW l \in Sending
      PROVE  /\ l.text \in Seq(Ascii)
             /\ ~Finished(l) => /\ Iterate(l) \in Sending
                                /\ Len(l.text) <= Len(Iterate(l).text)
  <2>1. PICK m \in Rendering : l = m.loop
    BY DEF Sending
  <2>2. l.text \in Seq(Ascii)
    BY <2>1, RenderingIs
  <2>3. ~Finished(l) => /\ [loop |-> Iterate(l), text |-> m.text] \in Rendering
                        /\ Len(l.text) <= Len(Iterate(l).text)
    BY <2>1, RenderingIs
  <2> QED BY <2>2, <2>3 DEF Sending
<1> QED BY <1>1, <1>2

-----------------------------------------------------------------------------
(* The serial port. *)

Bytes8 == Ascii \cup {TestByte}

\* The steps KeStart has left, or Panic's once a fault came.
StepsLeft ==
  IF fault = -1 THEN UNION {ToSet(p.steps) : p \in Programs}
                ELSE ToSet(Panic(Texts["panic"]))

SerialTypeOK ==
  /\ todo \in Seq(StepsLeft)
  /\ call = NoCall \/ DOMAIN call = {"to", "max", "loop", "put", "step", "buffer"}
  /\ screen \in Seq(ToSet(screen))
  /\ fault \in {-1} \cup Nat
  /\ uart \in [fifo : Seq(Bytes8), loop : BOOLEAN, rx : Bytes8 \cup {Nul}]
  /\ se \in {"no", "set", "loop", "test", "good", "bad"}
  /\ line \in Seq(Ascii) /\ sent \in Seq(Ascii)
  /\ mark \in {-1} \cup Nat

\* Only what is left of a message is sent, and nothing after a fault.
SendsMessages ==
  call.to = "com1" =>
    /\ fault = -1 /\ call.loop \in Sending
    /\ call.put \in Nat /\ call.put <= Len(call.loop.text)

\* SeInit is not interrupted, but by a fault, after which nothing is sent.
InSeInitAlone ==
  se \in {"set", "loop", "test"} =>
    /\ Len(sent) = mark
    /\ fault = -1 => call = NoCall /\ todo # <<>> /\ Head(todo).op = "serial"

\* The UART's two bytes, and the byte it received, at each stage of SeInit.
UartIsAt ==
  /\ Len(uart.fifo) <= 2
  /\ uart.loop <=> se \in {"loop", "test", "bad"}
  /\ se \in {"no", "set", "loop", "good"} => uart.fifo \in Seq(Ascii)
  /\ se \in {"no", "set", "loop"} => uart.rx # TestByte
  /\ se \in {"set", "loop"} => Len(uart.fifo) <= 1
  /\ se = "test" =>
       /\ uart.fifo # <<>> => uart.fifo[Len(uart.fifo)] = TestByte
       /\ Len(uart.fifo) = 2 => uart.fifo[1] \in Ascii
       /\ uart.rx = TestByte => uart.fifo = <<>>

\* What is on the line and in the UART: all, but for at most two bytes sent
\* before SeInit.
LineHolds ==
  \/ se = "no" /\ mark = -1 /\ line \o uart.fifo = sent
  \/ /\ se # "no"
     /\ mark \in 0 .. Len(sent)
     /\ \E n \in 0 .. mark :
          /\ n >= mark - 2
          /\ se = "set" => line \o uart.fifo = SubSeq(sent, 1, n)
          /\ se = "set" => Len(line) >= mark - 2
          /\ se = "good" => line \o uart.fifo = SubSeq(sent, 1, n)
                                                  \o SubSeq(sent, mark + 1, Len(sent))
          /\ se \in {"loop", "test", "bad"} => line = SubSeq(sent, 1, n)

SerialIInv ==
  /\ SerialTypeOK
  /\ SendsMessages
  /\ InSeInitAlone
  /\ UartIsAt
  /\ LineHolds

\* SerialIInv's parts that are about the serial port alone.
LEMMA SerialAlone ==
  ASSUME UartIsAt, LineHolds, UNCHANGED serialVars
  PROVE  UartIsAt' /\ LineHolds'
BY DEF UartIsAt, LineHolds, serialVars

\* What comes next, and that Panic neither sends nor sets up the port.
LEMMA StepsAre ==
  ASSUME SerialTypeOK, todo # <<>>
  PROVE  /\ Head(todo) \in StepsLeft /\ Tail(todo) \in Seq(StepsLeft)
         /\ \A s \in StepsLeft :
              /\ fault = -1 /\ s.op = "print" /\ s.to = "com1" => Begun(s) \in Sending
              /\ fault # -1 => s.op # "serial" /\ (s.op = "print" => s.to # "com1")
<1>1. Head(todo) \in StepsLeft /\ Tail(todo) \in Seq(StepsLeft)
  BY HeadTailProperties DEF SerialTypeOK
<1>2. ASSUME NEW s \in StepsLeft, fault = -1, s.op = "print", s.to = "com1"
      PROVE  Begun(s) \in Sending
  BY <1>2, SendingIs DEF StepsLeft
<1>3. ASSUME NEW s \in StepsLeft, fault # -1
      PROVE  s.op # "serial" /\ (s.op = "print" => s.to # "com1")
  <2> DEFINE panic == Texts["panic"]
  <2>1. s \in ToSet(Panic(panic))
    BY <1>3 DEF StepsLeft
  <2> HIDE DEF panic
  <2>2. \/ s \in {Fg(Black), Fg(White), Bg("lightRed"), Bg(Black), Do("update")}
        \/ s \in {PrintText("screen", Literal(PanicPrefix)), PrintText("screen", panic)}
    BY <2>1 DEF Panic, ToSet
  <2>3. CASE s \in {Fg(Black), Fg(White), Bg("lightRed"), Bg(Black), Do("update")}
    BY <2>3 DEF Fg, Bg, Do
  <2>4. \A t : /\ PrintText("screen", t).op = "print"
               /\ PrintText("screen", t).to = "screen"
    BY DEF PrintText, PrintStep
  <2>5. CASE s \in {PrintText("screen", Literal(PanicPrefix)), PrintText("screen", panic)}
    BY <2>4, <2>5
  <2> QED BY <2>2, <2>3, <2>5
<1> QED BY <1>1, <1>2, <1>3

\* A step of the program other than SeInit's.
LEMMA StepKeepsSerial ==
  ASSUME SerialIInv, UNCHANGED <<call, fault, screen, serialVars>>,
         NEW op, op # "serial", Step(op), todo' = Tail(todo)
  PROVE  SerialIInv'
<1> USE DEF SerialIInv
<1>1. todo # <<>> /\ call = NoCall /\ Head(todo).op = op
  BY DEF Step
<1>2. todo' \in Seq(StepsLeft) /\ StepsLeft' = StepsLeft
  BY <1>1, StepsAre DEF StepsLeft
<1>3. SerialTypeOK'
  BY <1>2 DEF SerialTypeOK, serialVars
<1>4. SendsMessages'
  BY DEF SendsMessages
<1>5. InSeInitAlone'
  BY <1>1 DEF InSeInitAlone, serialVars
<1> QED BY <1>3, <1>4, <1>5, SerialAlone

LEMMA CallKeepsSerial ==
  ASSUME SerialIInv, Call
  PROVE  SerialIInv'
<1> USE DEF SerialIInv
<1>1. /\ todo # <<>> /\ call = NoCall /\ Head(todo).op = "print"
      /\ todo' = Tail(todo)
      /\ fault' = fault /\ screen' = screen /\ UNCHANGED serialVars
  BY DEF Call, Step, screenVars
<1> DEFINE s == Head(todo)
<1>2. call' = [to |-> s.to, max |-> s.max, loop |-> Begun(s), put |-> 0, step |-> s,
               buffer |-> [j \in 0 .. BufferRoom |-> "untouched"]]
  BY DEF Call
<1>3. todo' \in Seq(StepsLeft) /\ StepsLeft' = StepsLeft /\ s \in StepsLeft
  BY <1>1, StepsAre DEF StepsLeft
<1>4. DOMAIN call' = {"to", "max", "loop", "put", "step", "buffer"}
  BY <1>2
<1>5. SerialTypeOK'
  BY <1>1, <1>3, <1>4 DEF SerialTypeOK, serialVars
<1>6. ASSUME call'.to = "com1" PROVE
        fault = -1 /\ call'.loop \in Sending /\ call'.put \in Nat
        /\ call'.put <= Len(call'.loop.text)
  <2>1. call'.to = s.to /\ call'.loop = Begun(s) /\ call'.put = 0
    BY <1>2
  <2>2. s.to = "com1" /\ s.op = "print"
    BY <1>1, <1>6, <2>1
  <2>3. fault = -1 /\ Begun(s) \in Sending
    BY <1>1, <1>3, <2>2, StepsAre
  <2>4. Len(Begun(s).text) \in Nat
    BY <2>3, SendingIs, LenProperties
  <2> QED BY <2>1, <2>3, <2>4
<1>7. SendsMessages'
  BY <1>1, <1>6 DEF SendsMessages
<1>8. InSeInitAlone'
  BY <1>1 DEF InSeInitAlone, serialVars
<1> QED BY <1>1, <1>5, <1>7, <1>8, SerialAlone

\* A step of a call that sends nothing: its loop goes on and text is put.
LEMMA LoopKeepsSerial ==
  ASSUME SerialIInv, Calling,
         UNCHANGED <<todo, fault, serialVars>>,
         screen' \in Seq(ToSet(screen')),
         call' = NoCall \/ (DOMAIN call' = DOMAIN call /\ call'.to = call.to),
         call'.to = "com1" => /\ call'.loop \in Sending
                              /\ call'.put \in Nat /\ call'.put <= Len(call'.loop.text)
  PROVE  SerialIInv'
<1> USE DEF SerialIInv
<1>1. StepsLeft' = StepsLeft
  BY DEF StepsLeft
<1>2. DOMAIN call = {"to", "max", "loop", "put", "step", "buffer"}
  BY DEF Calling, SerialTypeOK
<1>3. SerialTypeOK'
  BY <1>1, <1>2 DEF SerialTypeOK, serialVars
<1>4. NoCall.to # "com1"
  BY DEF NoCall
<1>5. SendsMessages'
  BY <1>4 DEF SendsMessages
<1>6. InSeInitAlone'
  BY DEF InSeInitAlone, serialVars, Calling
<1> QED BY <1>3, <1>5, <1>6, SerialAlone

LEMMA FormatKeepsSerial ==
  ASSUME SerialIInv, FormatStringLoop
  PROVE  SerialIInv'
<1>1. /\ Calling /\ UNCHANGED <<todo, fault, serialVars>> /\ screen' = screen
      /\ call.put = Len(call.loop.text) /\ ~Finished(call.loop)
      /\ call' = [call EXCEPT !.loop = Iterate(call.loop)]
  BY DEF FormatStringLoop, screenVars, AllPut
<1>2. DOMAIN call = {"to", "max", "loop", "put", "step", "buffer"}
  BY <1>1 DEF Calling, SerialTypeOK, SerialIInv
<1>3. /\ DOMAIN call' = DOMAIN call /\ call'.to = call.to
      /\ call'.put = call.put /\ call'.loop = Iterate(call.loop)
  BY <1>1, <1>2
<1>4. screen' \in Seq(ToSet(screen'))
  BY <1>1 DEF SerialIInv, SerialTypeOK
<1>5. ASSUME call'.to = "com1"
      PROVE  /\ call'.loop \in Sending
             /\ call'.put \in Nat /\ call'.put <= Len(call'.loop.text)
  <2>1. call.loop \in Sending /\ call.put \in Nat
    BY <1>3, <1>5 DEF SendsMessages, SerialIInv
  <2>2. Iterate(call.loop) \in Sending /\ Len(call.loop.text) <= Len(Iterate(call.loop).text)
    BY <1>1, <2>1, SendingIs
  <2> QED BY <1>1, <1>3, <2>1, <2>2
<1> QED BY <1>1, <1>3, <1>4, <1>5, LoopKeepsSerial

LEMMA PutKeepsSerial ==
  ASSUME SerialIInv, PutScreen \/ PutBuffer \/ Return
  PROVE  SerialIInv'
<1>1. CASE PutScreen
  <2>1. /\ Calling /\ UNCHANGED <<todo, fault, serialVars>>
        /\ call' = [call EXCEPT !.put = @ + 1] /\ call.to = "screen"
        /\ screen' = Append(screen, <<NextChar, fg, bg>>)
    BY <1>1 DEF PutScreen, PutNext
  <2>2. DOMAIN call = {"to", "max", "loop", "put", "step", "buffer"}
    BY <2>1 DEF Calling, SerialTypeOK, SerialIInv
  <2>3. DOMAIN call' = DOMAIN call /\ call'.to = call.to /\ call.to # "com1"
    BY <2>1, <2>2
  <2>4. screen' \in Seq(ToSet(screen'))
    <3> DEFINE x == <<NextChar, fg, bg>>
    <3>1. screen \in Seq(ToSet(screen))
      BY DEF SerialIInv, SerialTypeOK
    <3>2. screen' = Append(screen, x)
      BY <2>1
    <3> HIDE DEF x
    <3> QED BY <3>1, <3>2, AppendIsItsOwnSeq
  <2> QED BY <2>1, <2>3, <2>4, LoopKeepsSerial
<1>2. CASE PutBuffer
  <2>1. /\ Calling /\ UNCHANGED <<todo, fault, serialVars>> /\ screen' = screen
        /\ call.to = "buffer"
        /\ call' = [call EXCEPT !.put = @ + 1,
                      !.buffer = IF call.put < call.max
                                 THEN [@ EXCEPT ![call.put] = NextChar] ELSE @]
    BY <1>2 DEF PutBuffer, PutNext
  <2>2. DOMAIN call = {"to", "max", "loop", "put", "step", "buffer"}
    BY <2>1 DEF Calling, SerialTypeOK, SerialIInv
  <2>3. DOMAIN call' = DOMAIN call /\ call'.to = call.to /\ call.to # "com1"
    BY <2>1, <2>2
  <2>4. screen' \in Seq(ToSet(screen'))
    BY <2>1 DEF SerialIInv, SerialTypeOK
  <2> QED BY <2>1, <2>3, <2>4, LoopKeepsSerial
<1>3. CASE Return
  <2>1. /\ Calling /\ UNCHANGED <<todo, fault, serialVars>> /\ screen' = screen
        /\ call' = NoCall
    BY <1>3 DEF Return, screenVars
  <2>2. NoCall.to # "com1"
    BY DEF NoCall
  <2>3. screen' \in Seq(ToSet(screen'))
    BY <2>1 DEF SerialIInv, SerialTypeOK
  <2> QED BY <2>1, <2>2, <2>3, LoopKeepsSerial
<1> QED BY <1>1, <1>2, <1>3

\* Sequences as the UART moves them.
LEMMA OneLeaves ==
  ASSUME NEW S, NEW s \in Seq(S), NEW t \in Seq(S), t # <<>>
  PROVE  /\ Append(s, Head(t)) \in Seq(S) /\ Tail(t) \in Seq(S) /\ Head(t) \in S
         /\ Len(Append(s, Head(t))) = Len(s) + 1 /\ Len(Tail(t)) = Len(t) - 1
         /\ Append(s, Head(t)) \o Tail(t) = s \o t
<1>1. Head(t) \in S /\ Tail(t) \in Seq(S) /\ Len(Tail(t)) = Len(t) - 1
  BY HeadTailProperties
<1>2. Append(s, Head(t)) \in Seq(S) /\ Len(Append(s, Head(t))) = Len(s) + 1
  BY <1>1
<1>3. Append(s, Head(t)) \o Tail(t) = s \o t
  <2> DEFINE a == Append(s, Head(t)) \o Tail(t)
             b == s \o t
  <2>1. Len(t) \in Nat \ {0} /\ Len(s) \in Nat
    BY EmptySeq, LenProperties
  <2>2. a \in Seq(S) /\ b \in Seq(S) /\ Len(a) = Len(s) + Len(t) /\ Len(b) = Len(s) + Len(t)
    BY <1>1, <1>2, <2>1, ConcatProperties
  <2>3. ASSUME NEW i \in 1 .. Len(a) PROVE a[i] = b[i]
    <3>1. i \in 1 .. (Len(s) + Len(t))
      BY <2>2
    <3>2. b[i] = IF i <= Len(s) THEN s[i] ELSE t[i - Len(s)]
      BY <3>1, ConcatProperties
    <3>3. a[i] = IF i <= Len(s) + 1 THEN Append(s, Head(t))[i] ELSE Tail(t)[i - (Len(s) + 1)]
      BY <3>1, <1>1, <1>2, <2>1, ConcatProperties
    <3>4. CASE i <= Len(s)
      BY <3>1, <3>2, <3>3, <3>4, <2>1
    <3>5. CASE i = Len(s) + 1
      BY <3>2, <3>3, <3>5, <2>1
    <3>6. CASE i > Len(s) + 1
      BY <3>1, <3>2, <3>3, <3>6, <2>1, <1>1, HeadTailProperties
    <3> QED BY <3>1, <3>4, <3>5, <3>6, <2>1
  <2> HIDE DEF a, b
  <2>4. a = b
    BY <2>2, <2>3, SeqEqual
  <2> QED BY <2>4 DEF a, b
<1> QED BY <1>1, <1>2, <1>3

LEMMA OneEnters ==
  ASSUME NEW S, NEW s \in Seq(S), NEW t \in Seq(S), NEW x \in S
  PROVE  /\ Append(t, x) \in Seq(S) /\ Len(Append(t, x)) = Len(t) + 1
         /\ s \o Append(t, x) = Append(s \o t, x)
<1> DEFINE a == s \o Append(t, x)
           b == Append(s \o t, x)
<1>1. Append(t, x) \in Seq(S) /\ Len(Append(t, x)) = Len(t) + 1
  OBVIOUS
<1>2. Len(t) \in Nat /\ Len(s) \in Nat
  BY LenProperties
<1>3. s \o t \in Seq(S) /\ Len(s \o t) = Len(s) + Len(t)
  BY ConcatProperties
<1>4. /\ a \in Seq(S) /\ b \in Seq(S)
      /\ Len(a) = Len(s) + Len(t) + 1 /\ Len(b) = Len(s) + Len(t) + 1
  <2>1. b \in Seq(S) /\ Len(b) = Len(s \o t) + 1
    BY <1>3
  <2>2. a \in Seq(S) /\ Len(a) = Len(s) + (Len(t) + 1)
    BY <1>1, ConcatProperties
  <2> QED BY <1>2, <1>3, <2>1, <2>2
<1>5. ASSUME NEW i \in 1 .. Len(a) PROVE a[i] = b[i]
  <2>1. i \in 1 .. (Len(s) + (Len(t) + 1))
    BY <1>2, <1>4
  <2>2. a[i] = IF i <= Len(s) THEN s[i] ELSE Append(t, x)[i - Len(s)]
    BY <2>1, <1>1, ConcatProperties
  <2>3. CASE i <= Len(s) + Len(t)
    <3>1. i \in 1 .. (Len(s) + Len(t))
      BY <2>1, <2>3
    <3>2. b[i] = (s \o t)[i]
      BY <1>3, <3>1
    <3>3. (s \o t)[i] = IF i <= Len(s) THEN s[i] ELSE t[i - Len(s)]
      BY <3>1, ConcatProperties
    <3> QED BY <2>2, <3>1, <3>2, <3>3, <1>2
  <2>4. CASE i = Len(s) + Len(t) + 1
    BY <2>2, <2>4, <1>2, <1>3
  <2> QED BY <1>2, <1>4, <2>3, <2>4
<1> HIDE DEF a, b
<1>6. a = b
  BY <1>4, <1>5, SeqEqual
<1> QED BY <1>1, <1>6 DEF a, b

\* What was before stays before.
LEMMA FrontStays ==
  ASSUME NEW s \in Seq(Ascii), NEW x \in Ascii, NEW n \in 0 .. Len(s), NEW m \in 0 .. Len(s)
  PROVE  /\ SubSeq(Append(s, x), 1, n) = SubSeq(s, 1, n)
         /\ SubSeq(s, 1, n) \in Seq(Ascii) /\ Len(SubSeq(s, 1, n)) = n
         /\ SubSeq(s, m + 1, Len(s)) \in Seq(Ascii)
         /\ SubSeq(Append(s, x), m + 1, Len(s) + 1)
              = Append(SubSeq(s, m + 1, Len(s)), x)
<1>1. Len(s) \in Nat
  BY LenProperties
<1> DEFINE t == Append(s, x)
<1>2. t \in Seq(Ascii) /\ Len(t) = Len(s) + 1
  OBVIOUS
<1>3. \A i \in 1 .. Len(s) : t[i] = s[i]
  OBVIOUS
<1>4. t[Len(s) + 1] = x
  OBVIOUS
<1>5. \A i \in 1 .. Len(s) : s[i] \in Ascii
  BY ElementOfSeq
<1>6. \A i \in 1 .. (Len(s) + 1) : t[i] \in Ascii
  BY <1>1, <1>3, <1>4, <1>5
<1> HIDE DEF t
<1>7. /\ SubSeq(s, 1, n) \in Seq(Ascii) /\ Len(SubSeq(s, 1, n)) = n
      /\ \A i \in 1 .. n : SubSeq(s, 1, n)[i] = s[i]
  BY FrontIs
<1>8. /\ SubSeq(t, 1, n) \in Seq(Ascii) /\ Len(SubSeq(t, 1, n)) = n
      /\ \A i \in 1 .. n : SubSeq(t, 1, n)[i] = t[i]
  <2>1. t \in Seq(Ascii) /\ n \in 0 .. Len(t)
    BY <1>1, <1>2 DEF t
  <2> QED BY <2>1, FrontIs
<1>9. SubSeq(t, 1, n) = SubSeq(s, 1, n)
  <2>1. \A i \in 1 .. n : SubSeq(t, 1, n)[i] = SubSeq(s, 1, n)[i]
    BY <1>1, <1>3, <1>7, <1>8
  <2> QED BY <2>1, <1>7, <1>8, SeqEqual
<1>10. /\ SubSeq(s, m + 1, Len(s)) \in Seq(Ascii)
       /\ Len(SubSeq(s, m + 1, Len(s))) = Len(s) - m
       /\ \A i \in 1 .. (Len(s) - m) : SubSeq(s, m + 1, Len(s))[i] = s[m + i]
  <2>1. \A i \in (m + 1) .. Len(s) : s[i] \in Ascii
    BY <1>1, <1>5
  <2>2. m + 1 \in Int /\ Len(s) \in Int
    BY <1>1
  <2>3. /\ SubSeq(s, m + 1, Len(s)) \in Seq(Ascii)
        /\ Len(SubSeq(s, m + 1, Len(s))) = IF m + 1 <= Len(s) THEN Len(s) - (m + 1) + 1 ELSE 0
        /\ \A i \in 1 .. Len(s) - (m + 1) + 1 :
             SubSeq(s, m + 1, Len(s))[i] = s[(m + 1) + i - 1]
    BY <2>1, <2>2, SubSeqProperties
  <2> QED BY <2>3, <1>1
<1>11. /\ SubSeq(t, m + 1, Len(s) + 1) \in Seq(Ascii)
       /\ Len(SubSeq(t, m + 1, Len(s) + 1)) = Len(s) - m + 1
       /\ \A i \in 1 .. (Len(s) - m + 1) : SubSeq(t, m + 1, Len(s) + 1)[i] = t[m + i]
  <2>1. \A i \in (m + 1) .. (Len(s) + 1) : t[i] \in Ascii
    BY <1>1, <1>6
  <2>2. m + 1 \in Int /\ Len(s) + 1 \in Int
    BY <1>1
  <2>3. /\ SubSeq(t, m + 1, Len(s) + 1) \in Seq(Ascii)
        /\ Len(SubSeq(t, m + 1, Len(s) + 1))
             = IF m + 1 <= Len(s) + 1 THEN (Len(s) + 1) - (m + 1) + 1 ELSE 0
        /\ \A i \in 1 .. (Len(s) + 1) - (m + 1) + 1 :
             SubSeq(t, m + 1, Len(s) + 1)[i] = t[(m + 1) + i - 1]
    BY <2>1, <2>2, SubSeqProperties
  <2>4. /\ m + 1 <= Len(s) + 1 /\ (Len(s) + 1) - (m + 1) + 1 = Len(s) - m + 1
        /\ \A i \in 1 .. (Len(s) - m + 1) : (m + 1) + i - 1 = m + i
    BY <1>1
  <2> DEFINE w == SubSeq(t, m + 1, Len(s) + 1)
  <2>5. w \in Seq(Ascii) /\ Len(w) = Len(s) - m + 1
    BY <2>3, <2>4
  <2>6. \A i \in 1 .. (Len(s) - m + 1) : w[i] = t[(m + 1) + i - 1]
    BY <2>3, <2>4
  <2> HIDE DEF w
  <2>7. \A i \in 1 .. (Len(s) - m + 1) : w[i] = t[m + i]
    BY <2>4, <2>6
  <2> QED BY <2>5, <2>7 DEF w
<1>12. SubSeq(t, m + 1, Len(s) + 1) = Append(SubSeq(s, m + 1, Len(s)), x)
  <2> DEFINE u == SubSeq(s, m + 1, Len(s))
             v == Append(u, x)
             w == SubSeq(t, m + 1, Len(s) + 1)
  <2> HIDE DEF u, w
  <2>1. u \in Seq(Ascii) /\ Len(u) = Len(s) - m
    BY <1>10 DEF u
  <2>2. /\ v \in Seq(Ascii) /\ Len(v) = Len(s) - m + 1
        /\ \A i \in 1 .. (Len(s) - m) : v[i] = u[i]
        /\ v[Len(s) - m + 1] = x
    BY <2>1, <1>1
  <2> HIDE DEF v
  <2>3. w \in Seq(Ascii) /\ Len(w) = Len(s) - m + 1
    BY <1>11 DEF w
  <2>4. ASSUME NEW i \in 1 .. (Len(s) - m + 1) PROVE v[i] = w[i]
    <3>1. w[i] = t[m + i]
      BY <1>11 DEF w
    <3>2. CASE i <= Len(s) - m
      <4>1. i \in 1 .. (Len(s) - m) /\ m + i \in 1 .. Len(s)
        BY <3>2, <1>1
      <4>2. v[i] = s[m + i]
        BY <4>1, <2>2, <1>10 DEF u
      <4> QED BY <3>1, <4>1, <4>2, <1>3
    <3>3. CASE i = Len(s) - m + 1
      <4>1. m + i = Len(s) + 1
        BY <3>3, <1>1
      <4> QED BY <3>1, <3>3, <4>1, <2>2, <1>4
    <3> QED BY <3>2, <3>3, <1>1
  <2>5. v = w
    BY <2>2, <2>3, <2>4, SeqEqual
  <2> QED BY <2>5 DEF u, v, w
<1> QED BY <1>7, <1>9, <1>10, <1>12 DEF t

\* FrontStays, for every sequence and byte.
LEMMA FrontOfSent ==
  \A whole \in Seq(Ascii), y \in Ascii : \A i, j \in 0 .. Len(whole) :
    /\ SubSeq(Append(whole, y), 1, i) = SubSeq(whole, 1, i)
    /\ SubSeq(whole, 1, i) \in Seq(Ascii)
    /\ SubSeq(whole, j + 1, Len(whole)) \in Seq(Ascii)
    /\ SubSeq(Append(whole, y), j + 1, Len(whole) + 1)
         = Append(SubSeq(whole, j + 1, Len(whole)), y)
BY FrontStays

\* A character of a message is sent.
LEMMA SendKeepsSerial ==
  ASSUME SerialIInv, SeWriteChar
  PROVE  SerialIInv'
<1> DEFINE x == NextChar
           fifo == uart.fifo
<1>1. /\ Calling /\ call.to = "com1" /\ ~AllPut
      /\ UNCHANGED <<todo, fault, screen, se, line, mark>>
      /\ Len(fifo) < 2 /\ uart' = [uart EXCEPT !.fifo = Outb(uart.fifo, NextChar)]
      /\ sent' = Append(sent, x)
      /\ call' = [call EXCEPT !.put = @ + 1]
  BY DEF SeWriteChar, PutNext, SeIsBusEmpty
<1>2. /\ fault = -1 /\ call.loop \in Sending
      /\ call.put \in Nat /\ call.put <= Len(call.loop.text)
  BY <1>1 DEF SerialIInv, SendsMessages
<1>3. call.loop.text \in Seq(Ascii) /\ Len(call.loop.text) \in Nat
  BY <1>2, SendingIs, LenProperties
<1>4. x \in Ascii /\ call.put + 1 \in Nat /\ call.put + 1 <= Len(call.loop.text)
  <2>1. call.put + 1 \in 1 .. Len(call.loop.text)
    BY <1>1, <1>2, <1>3 DEF AllPut
  <2> QED BY <2>1, <1>2, <1>3, ElementOfSeq DEF NextChar
<1>5. DOMAIN call = {"to", "max", "loop", "put", "step", "buffer"}
  BY <1>1 DEF Calling, SerialIInv, SerialTypeOK
<1>6. /\ DOMAIN call' = {"to", "max", "loop", "put", "step", "buffer"}
      /\ call'.to = "com1" /\ call'.loop = call.loop /\ call'.put = call.put + 1
  BY <1>1, <1>5
<1>7. /\ fifo \in Seq(Bytes8) /\ sent \in Seq(Ascii) /\ line \in Seq(Ascii)
      /\ uart \in [fifo : Seq(Bytes8), loop : BOOLEAN, rx : Bytes8 \cup {Nul}]
      /\ se \in {"no", "set", "loop", "test", "good", "bad"}
  BY DEF SerialIInv, SerialTypeOK
<1>8. /\ uart'.fifo = Append(fifo, x) /\ uart'.loop = uart.loop /\ uart'.rx = uart.rx
      /\ uart' \in [fifo : Seq(Bytes8), loop : BOOLEAN, rx : Bytes8 \cup {Nul}]
      /\ Len(uart'.fifo) = Len(fifo) + 1 /\ Len(fifo) \in Nat
  <2>1. Outb(uart.fifo, NextChar) = Append(fifo, x)
    BY <1>1 DEF Outb
  <2>2. x \in Bytes8
    BY <1>4 DEF Bytes8
  <2> HIDE DEF x, fifo
  <2>3. Append(fifo, x) \in Seq(Bytes8) /\ Len(Append(fifo, x)) = Len(fifo) + 1 /\ Len(fifo) \in Nat
    BY <1>7, <2>2, AppendIsSeq, LenProperties
  <2>4. uart' = [uart EXCEPT !.fifo = Append(fifo, x)]
    BY <1>1, <2>1
  <2> QED BY <1>7, <2>3, <2>4
<1>9. se \in {"no", "good", "bad"}
  BY <1>1, <1>2, <1>7 DEF SerialIInv, InSeInitAlone, Calling
<1>10. sent' \in Seq(Ascii) /\ Len(sent') = Len(sent) + 1 /\ Len(sent) \in Nat
  BY <1>1, <1>4, <1>7, AppendIsSeq, LenProperties
<1>11. StepsLeft' = StepsLeft
  BY <1>1 DEF StepsLeft
<1>12. SerialTypeOK'
  BY <1>1, <1>6, <1>8, <1>10, <1>11 DEF SerialIInv, SerialTypeOK
<1>13. SendsMessages'
  BY <1>1, <1>2, <1>4, <1>6 DEF SendsMessages
<1>14. InSeInitAlone'
  BY <1>1, <1>9 DEF InSeInitAlone
<1>15. se \in {"no", "good"} => fifo \in Seq(Ascii)
  BY DEF SerialIInv, UartIsAt
<1>16. UartIsAt'
  <2>1. se \in {"no", "good"} => uart'.fifo \in Seq(Ascii)
    <3> HIDE DEF x, fifo
    <3> QED BY <1>4, <1>8, <1>15, AppendIsSeq
  <2>2. Len(uart'.fifo) <= 2
    BY <1>1, <1>8
  <2> QED BY <1>1, <1>8, <1>9, <2>1, <2>2 DEF SerialIInv, UartIsAt
<1>17. LineHolds'
  <2>1. CASE se = "no"
    <3>1. mark = -1 /\ line \o fifo = sent
      BY <2>1 DEF SerialIInv, LineHolds
    <3>2. line \o Append(fifo, x) = Append(line \o fifo, x)
      <4> HIDE DEF x, fifo
      <4> QED BY <2>1, <1>4, <1>7, <1>15, OneEnters
    <3> QED BY <3>1, <3>2, <2>1, <1>1, <1>8 DEF LineHolds
  <2>2. CASE se \in {"good", "bad"}
    <3>1. se # "no" /\ mark \in 0 .. Len(sent)
      BY <2>2 DEF SerialIInv, LineHolds
    <3>2. PICK n \in Nat :
            /\ n <= mark /\ n >= mark - 2
            /\ se = "good" => line \o fifo = SubSeq(sent, 1, n) \o SubSeq(sent, mark + 1, Len(sent))
            /\ se = "bad" => line = SubSeq(sent, 1, n)
      <4>1. PICK n \in 0 .. mark :
            /\ n >= mark - 2
            /\ se = "good" => line \o fifo = SubSeq(sent, 1, n) \o SubSeq(sent, mark + 1, Len(sent))
            /\ se = "bad" => line = SubSeq(sent, 1, n)
        BY <2>2 DEF SerialIInv, LineHolds
      <4>2. n \in Nat /\ n <= mark
        BY <3>1, <1>10
      <4> QED BY <4>1, <4>2
    <3>3. n \in 0 .. Len(sent) /\ mark \in 0 .. (Len(sent) + 1)
      BY <3>1, <3>2, <1>10
    <3>4. /\ SubSeq(sent', 1, n) = SubSeq(sent, 1, n)
          /\ SubSeq(sent, 1, n) \in Seq(Ascii)
          /\ SubSeq(sent, mark + 1, Len(sent)) \in Seq(Ascii)
          /\ SubSeq(sent', mark + 1, Len(sent')) = Append(SubSeq(sent, mark + 1, Len(sent)), x)
      <4>0. sent' = Append(sent, x) /\ Len(sent') = Len(sent) + 1
        BY <1>1, <1>10
      <4>1. /\ sent \in Seq(Ascii) /\ x \in Ascii
            /\ n \in 0 .. Len(sent) /\ mark \in 0 .. Len(sent)
        BY <1>4, <1>7, <3>1, <3>3
      <4> HIDE DEF x, fifo
      <4>2. /\ SubSeq(Append(sent, x), 1, n) = SubSeq(sent, 1, n)
            /\ SubSeq(sent, 1, n) \in Seq(Ascii)
            /\ SubSeq(sent, mark + 1, Len(sent)) \in Seq(Ascii)
            /\ SubSeq(Append(sent, x), mark + 1, Len(sent) + 1)
                 = Append(SubSeq(sent, mark + 1, Len(sent)), x)
        BY <4>1, FrontOfSent
      <4> QED BY <4>0, <4>2
    <3>5. se = "good" => line \o uart'.fifo
                           = SubSeq(sent', 1, n) \o SubSeq(sent', mark + 1, Len(sent'))
      <4> SUFFICES ASSUME se = "good" PROVE line \o uart'.fifo
                           = SubSeq(sent', 1, n) \o SubSeq(sent', mark + 1, Len(sent'))
        OBVIOUS
      <4> DEFINE a == SubSeq(sent, 1, n)
                 b == SubSeq(sent, mark + 1, Len(sent))
      <4>0. line \o fifo = a \o b
        BY <3>2
      <4>1. /\ fifo \in Seq(Ascii) /\ a \in Seq(Ascii) /\ b \in Seq(Ascii)
            /\ line \in Seq(Ascii) /\ x \in Ascii
        BY <1>4, <1>7, <1>15, <3>4
      <4>2. line \o uart'.fifo = line \o Append(fifo, x)
        BY <1>8
      <4>3. SubSeq(sent', 1, n) \o SubSeq(sent', mark + 1, Len(sent')) = a \o Append(b, x)
        BY <3>4
      <4> HIDE DEF a, b, x, fifo
      <4>4. line \o Append(fifo, x) = Append(line \o fifo, x)
        BY <4>1, OneEnters
      <4>5. a \o Append(b, x) = Append(a \o b, x)
        BY <4>1, OneEnters
      <4> QED BY <4>0, <4>2, <4>3, <4>4, <4>5
    <3>6. se = "bad" => line = SubSeq(sent', 1, n)
      BY <3>2, <3>4
    <3>7. n \in 0 .. mark /\ mark \in 0 .. Len(sent')
      BY <3>1, <3>2, <1>10
    <3> HIDE DEF x, fifo
    <3> QED BY <3>1, <3>2, <3>5, <3>6, <3>7, <2>2, <1>1 DEF LineHolds
  <2> QED BY <1>9, <2>1, <2>2
<1> QED BY <1>12, <1>13, <1>14, <1>16, <1>17 DEF SerialIInv

\* The UART moves a byte.
LEMMA ShiftKeepsSerial ==
  ASSUME SerialIInv, UartShift
  PROVE  SerialIInv'
<1> DEFINE fifo == uart.fifo
           out == Head(uart.fifo)
<1>1. /\ fifo # <<>>
      /\ line' = IF uart.loop THEN line ELSE Append(line, out)
      /\ uart' = [uart EXCEPT !.fifo = Tail(@),
                              !.rx = IF uart.loop /\ @ = Nul THEN out ELSE @]
      /\ UNCHANGED <<todo, call, screen, se, sent, mark, fault>>
  BY DEF UartShift, screenVars
<1>2. /\ fifo \in Seq(Bytes8) /\ sent \in Seq(Ascii) /\ line \in Seq(Ascii)
      /\ uart \in [fifo : Seq(Bytes8), loop : BOOLEAN, rx : Bytes8 \cup {Nul}]
      /\ se \in {"no", "set", "loop", "test", "good", "bad"}
  BY DEF SerialIInv, SerialTypeOK
<1>3. /\ Head(fifo) \in Bytes8 /\ Tail(fifo) \in Seq(Bytes8)
      /\ Len(Tail(fifo)) = Len(fifo) - 1 /\ Len(fifo) \in Nat /\ Len(fifo) >= 1
      /\ Head(fifo) = fifo[1]
      /\ \A i \in 1 .. (Len(fifo) - 1) : Tail(fifo)[i] = fifo[i + 1]
  <2>1. fifo \in Seq(Bytes8) /\ fifo # <<>>
    BY <1>1, <1>2
  <2> HIDE DEF fifo
  <2> QED BY <2>1, HeadTailProperties, EmptySeq
<1>4. /\ uart'.fifo = Tail(fifo) /\ uart'.loop = uart.loop
      /\ uart'.rx = IF uart.loop /\ uart.rx = Nul THEN out ELSE uart.rx
      /\ uart' \in [fifo : Seq(Bytes8), loop : BOOLEAN, rx : Bytes8 \cup {Nul}]
  <2> DEFINE r == IF uart.loop /\ uart.rx = Nul THEN out ELSE uart.rx
             tail == Tail(uart.fifo)
  <2>1. uart' = [uart EXCEPT !.fifo = tail, !.rx = r]
    BY <1>1
  <2>2. r \in Bytes8 \cup {Nul} /\ tail \in Seq(Bytes8)
    BY <1>2, <1>3
  <2> HIDE DEF r, tail
  <2>3. /\ uart'.fifo = tail /\ uart'.loop = uart.loop /\ uart'.rx = r
        /\ uart' \in [fifo : Seq(Bytes8), loop : BOOLEAN, rx : Bytes8 \cup {Nul}]
    BY <1>2, <2>1, <2>2
  <2> QED BY <2>3 DEF r, tail
<1>5. /\ uart.loop <=> se \in {"loop", "test", "bad"}
      /\ se \in {"no", "set", "loop", "good"} => fifo \in Seq(Ascii)
  BY DEF SerialIInv, UartIsAt
<1>6. ~uart.loop => /\ line' \in Seq(Ascii) /\ line' \o Tail(fifo) = line \o fifo
                    /\ Len(line') = Len(line) + 1 /\ Len(line) \in Nat
  <2> SUFFICES ASSUME ~uart.loop PROVE
        /\ line' \in Seq(Ascii) /\ line' \o Tail(fifo) = line \o fifo
        /\ Len(line') = Len(line) + 1 /\ Len(line) \in Nat
    OBVIOUS
  <2>1. fifo \in Seq(Ascii) /\ fifo # <<>> /\ line' = Append(line, Head(fifo))
    BY <1>1, <1>2, <1>5
  <2> HIDE DEF fifo
  <2> QED BY <2>1, <1>2, OneLeaves, LenProperties
<1>7. uart.loop => line' = line
  BY <1>1
<1>8. SerialTypeOK'
  <2>1. StepsLeft' = StepsLeft
    BY <1>1 DEF StepsLeft
  <2>2. line' \in Seq(Ascii)
    BY <1>2, <1>6, <1>7
  <2> QED BY <2>1, <2>2, <1>1, <1>4 DEF SerialIInv, SerialTypeOK
<1>9. SendsMessages'
  BY <1>1 DEF SerialIInv, SendsMessages
<1>10. InSeInitAlone'
  BY <1>1 DEF SerialIInv, InSeInitAlone
<1>11. UartIsAt'
  <2>1. Len(fifo) <= 2
    BY DEF SerialIInv, UartIsAt
  <2>2. Len(uart'.fifo) <= 1 /\ Len(uart'.fifo) = Len(fifo) - 1
    BY <2>1, <1>3, <1>4
  <2>3. fifo \in Seq(Ascii) => Head(fifo) \in Ascii /\ uart'.fifo \in Seq(Ascii)
    <3>1. fifo # <<>> /\ uart'.fifo = Tail(fifo)
      BY <1>1, <1>4
    <3> HIDE DEF fifo
    <3> QED BY <3>1, HeadTailProperties
  <2>4. se \in {"no", "set", "loop"} => uart'.rx # TestByte
    BY <2>3, <1>4, <1>5, MessagesAssumption DEF SerialIInv, UartIsAt
  <2>5. ASSUME se = "test"
        PROVE  /\ uart'.fifo # <<>> => uart'.fifo[Len(uart'.fifo)] = TestByte
               /\ uart'.rx = TestByte => uart'.fifo = <<>>
    <3>1. /\ fifo[Len(fifo)] = TestByte /\ (Len(fifo) = 2 => fifo[1] \in Ascii)
          /\ uart.rx # TestByte /\ uart.loop
      BY <1>1, <2>5 DEF SerialIInv, UartIsAt
    <3>2. Len(uart'.fifo) = 0 => uart'.fifo = <<>>
      BY <1>3, <1>4, EmptySeq
    <3>3. CASE Len(fifo) = 1
      BY <3>2, <3>3, <2>2
    <3>4. CASE Len(fifo) = 2
      <4>1. Tail(fifo)[1] = fifo[2] /\ Len(uart'.fifo) = 1
        BY <3>4, <1>3, <2>2
      <4>2. uart'.rx # TestByte
        BY <3>1, <3>4, <1>3, <1>4, MessagesAssumption
      <4> QED BY <4>1, <4>2, <3>1, <3>4, <1>4
    <3>5. Len(fifo) = 1 \/ Len(fifo) = 2
      <4>1. Len(fifo) <= 2 /\ Len(fifo) \in Nat /\ Len(fifo) >= 1
        BY <2>1, <1>3
      <4> HIDE DEF fifo
      <4> QED BY <4>1
    <3> QED BY <3>3, <3>4, <3>5
  <2>6. Len(uart'.fifo) <= 2 /\ Len(uart'.fifo) # 2
    <3>1. Len(fifo) \in Nat /\ Len(uart'.fifo) = Len(fifo) - 1 /\ Len(uart'.fifo) <= 1
      BY <2>2, <1>3
    <3> DEFINE l == Len(fifo)
               m == Len(uart'.fifo)
    <3>2. l \in Nat /\ m = l - 1 /\ m <= 1
      BY <3>1
    <3> HIDE DEF l, m
    <3>3. m <= 2 /\ m # 2
      BY <3>2
    <3> QED BY <3>3 DEF m
  <2>7. uart'.loop <=> se' \in {"loop", "test", "bad"}
    BY <1>1, <1>4, <1>5
  <2>8. se' = se
    BY <1>1
  <2> HIDE DEF fifo, out
  <2>9. fifo \in Seq(Ascii) => uart'.fifo \in Seq(Ascii)
    BY <2>3
  <2> QED BY <1>5, <2>2, <2>4, <2>5, <2>6, <2>7, <2>8, <2>9 DEF UartIsAt
<1>12. LineHolds'
  <2>1. CASE se = "no"
    <3>1. mark = -1 /\ line \o fifo = sent /\ ~uart.loop
      BY <2>1, <1>5 DEF SerialIInv, LineHolds
    <3> QED BY <3>1, <2>1, <1>1, <1>4, <1>6 DEF LineHolds
  <2>2. CASE se # "no"
    <3>1. mark \in 0 .. Len(sent)
      BY <2>2 DEF SerialIInv, LineHolds
    <3>2. PICK n \in 0 .. mark :
            /\ n >= mark - 2
            /\ se = "set" => line \o fifo = SubSeq(sent, 1, n)
            /\ se = "set" => Len(line) >= mark - 2
            /\ se = "good" => line \o fifo = SubSeq(sent, 1, n)
                                               \o SubSeq(sent, mark + 1, Len(sent))
            /\ se \in {"loop", "test", "bad"} => line = SubSeq(sent, 1, n)
      BY <2>2 DEF SerialIInv, LineHolds
    <3>3. se \in {"set", "good"} => line' \o uart'.fifo = line \o fifo
      BY <1>4, <1>5, <1>6
    <3>4. se = "set" => Len(line') >= mark - 2
      <4>1. mark \in Int
        BY <3>1
      <4> QED BY <4>1, <3>2, <1>5, <1>6
    <3>5. se \in {"loop", "test", "bad"} => line' = SubSeq(sent, 1, n)
      BY <3>2, <1>5, <1>7
    <3> QED BY <3>1, <3>2, <3>3, <3>4, <3>5, <2>2, <1>1 DEF LineHolds
  <2> QED BY <2>1, <2>2
<1> QED BY <1>8, <1>9, <1>10, <1>11, <1>12 DEF SerialIInv

\* The steps of SeInit.
LEMMA SetupIs ==
  ASSUME SerialIInv, SeInit
  PROVE  /\ call = NoCall /\ todo # <<>> /\ Head(todo).op = "serial" /\ fault = -1
         /\ UNCHANGED <<call, screen, fault, line, sent>>
<1>1. /\ call = NoCall /\ todo # <<>> /\ Head(todo).op = "serial"
      /\ UNCHANGED <<call, screen, fault, line, sent>>
  BY DEF SeInit, SeSetup, SeLoopback, SeTest, SeCheck, InSeInit, Step, screenVars
<1>2. fault = -1
  BY <1>1, StepsAre DEF SerialIInv
<1> QED BY <1>1, <1>2

\* The UART keeps at most one of the bytes it has.
LEMMA SmallerThanOne ==
  \A n \in Nat : n > 0 => Smaller(1, n) = 1
BY DEF Smaller

LEMMA SetupKeepsSerial ==
  ASSUME SerialIInv, SeSetup
  PROVE  SerialIInv'
<1>1. /\ call = NoCall /\ todo # <<>> /\ Head(todo).op = "serial" /\ fault = -1
      /\ UNCHANGED <<todo, call, screen, fault, line, sent>>
      /\ se = "no" /\ se' = "set" /\ mark' = Len(sent)
  BY SetupIs DEF SeInit, SeSetup, InSeInit
<1>2. PICK kept \in {<<>>, SubSeq(uart.fifo, 1, Smaller(1, Len(uart.fifo)))} :
        uart' = [fifo |-> kept, loop |-> FALSE, rx |-> Nul]
  BY DEF SeSetup
<1>3. /\ line \o uart.fifo = sent /\ Len(uart.fifo) <= 2 /\ uart.fifo \in Seq(Ascii)
      /\ line \in Seq(Ascii) /\ sent \in Seq(Ascii)
  BY <1>1 DEF SerialIInv, SerialTypeOK, UartIsAt, LineHolds
<1> DEFINE f == uart.fifo
           n == Len(line) + Len(kept)
<1>4. Len(line) \in Nat /\ Len(f) \in Nat /\ Len(sent) = Len(line) + Len(f)
  <2>1. f \in Seq(Ascii) /\ line \in Seq(Ascii) /\ line \o f = sent
    BY <1>3
  <2> HIDE DEF f
  <2> QED BY <2>1, ConcatProperties, LenProperties
<1>5. /\ kept \in Seq(Ascii) /\ Len(kept) \in 0 .. 1 /\ Len(kept) <= Len(f)
      /\ \A i \in 1 .. Len(kept) : kept[i] = f[i]
  <2>1. CASE kept = <<>> \/ Len(f) = 0
    <3>1. Smaller(1, 0) = 0
      BY DEF Smaller
    <3>2. SubSeq(f, 1, 0) = <<>>
      BY SubSeqEmpty
    <3>3. kept = <<>>
      BY <1>2, <2>1, <3>1, <3>2
    <3>4. kept \in Seq(Ascii) /\ Len(kept) = 0
      BY <3>3, EmptySeq
    <3> QED BY <3>4, <1>4
  <2>2. CASE kept # <<>> /\ Len(f) > 0
    <3>1. kept = SubSeq(f, 1, 1)
      <4>1. Smaller(1, Len(f)) = 1
        BY <1>4, <2>2, SmallerThanOne
      <4> QED BY <1>2, <2>2, <4>1
    <3>2. f[1] \in Ascii
      <4>1. f \in Seq(Ascii) /\ 1 \in 1 .. Len(f)
        BY <1>3, <1>4, <2>2
      <4> HIDE DEF f
      <4> QED BY <4>1, ElementOfSeq
    <3>3. /\ SubSeq(f, 1, 1) \in Seq(Ascii) /\ Len(SubSeq(f, 1, 1)) = 1
          /\ SubSeq(f, 1, 1)[1] = f[1]
      <4>1. f \in Seq(Ascii) /\ 1 \in 0 .. Len(f)
        BY <1>3, <1>4, <2>2
      <4> HIDE DEF f
      <4>2. /\ SubSeq(f, 1, 1) \in Seq(Ascii) /\ Len(SubSeq(f, 1, 1)) = 1
            /\ \A i \in 1 .. 1 : SubSeq(f, 1, 1)[i] = f[i]
        BY <4>1, FrontIs
      <4> QED BY <4>2
    <3> HIDE DEF f
    <3> QED BY <3>1, <3>3, <2>2, <1>4
  <2> QED BY <1>4, <2>1, <2>2
<1>6. n \in 0 .. Len(sent) /\ n >= Len(sent) - 2 /\ Len(line) >= Len(sent) - 2
  <2>1. Len(f) <= 2
    BY <1>3
  <2> HIDE DEF f
  <2> QED BY <2>1, <1>4, <1>5
<1>7. line \o kept = SubSeq(sent, 1, n)
  <2> DEFINE a == line \o kept
             b == SubSeq(sent, 1, n)
             l == Len(line)
  <2>0. line \in Seq(Ascii) /\ kept \in Seq(Ascii) /\ f \in Seq(Ascii) /\ sent = line \o f
        /\ sent \in Seq(Ascii)
    BY <1>3, <1>5
  <2> HIDE DEF f
  <2>1. /\ a \in Seq(Ascii) /\ Len(a) = n
        /\ \A i \in 1 .. (Len(line) + Len(kept)) :
             a[i] = IF i <= Len(line) THEN line[i] ELSE kept[i - Len(line)]
    BY <2>0, ConcatProperties
  <2>2. \A i \in 1 .. (Len(line) + Len(f)) :
          sent[i] = IF i <= Len(line) THEN line[i] ELSE f[i - Len(line)]
    BY <2>0, ConcatProperties
  <2> HIDE DEF n
  <2>3. /\ b \in Seq(Ascii) /\ Len(b) = n
        /\ \A i \in 1 .. n : b[i] = sent[i]
    <3>1. \A i \in 1 .. n : sent[i] \in Ascii
      <4>1. \A i \in 1 .. n : i \in 1 .. Len(sent)
        BY <1>4, <1>6
      <4> QED BY <4>1, <2>0, ElementOfSeq
    <3>2. 1 \in Int /\ n \in Int /\ n \in Nat
      BY <1>4, <1>6
    <3>3. /\ SubSeq(sent, 1, n) \in Seq(Ascii)
          /\ Len(SubSeq(sent, 1, n)) = IF 1 <= n THEN n - 1 + 1 ELSE 0
          /\ \A i \in 1 .. n - 1 + 1 : SubSeq(sent, 1, n)[i] = sent[1 + i - 1]
      BY <3>1, <3>2, SubSeqProperties
    <3> QED BY <3>2, <3>3
  <2>4. ASSUME NEW i \in 1 .. Len(a) PROVE a[i] = b[i]
    <3>0. n = Len(line) + Len(kept) /\ Len(kept) \in Nat
      BY <1>5 DEF n
    <3>1. i \in 1 .. n /\ i \in 1 .. (Len(line) + Len(kept)) /\ i \in 1 .. (Len(line) + Len(f))
      BY <2>1, <3>0, <1>4, <1>5
    <3>2. /\ a[i] = IF i <= Len(line) THEN line[i] ELSE kept[i - Len(line)]
          /\ b[i] = sent[i]
          /\ sent[i] = IF i <= Len(line) THEN line[i] ELSE f[i - Len(line)]
      BY <3>1, <2>1, <2>2, <2>3
    <3>3. i > Len(line) => kept[i - Len(line)] = f[i - Len(line)]
      <4>1. i > Len(line) => i - Len(line) \in 1 .. Len(kept)
        BY <3>0, <3>1, <1>4
      <4> QED BY <4>1, <1>5
    <3>4. i <= Len(line) \/ i > Len(line)
      BY <3>1, <1>4
    <3> HIDE DEF a, b
    <3> QED BY <3>2, <3>3, <3>4
  <2> HIDE DEF a, b
  <2>5. a = b
    BY <2>1, <2>3, <2>4, SeqEqual
  <2> QED BY <2>5 DEF a, b
<1>8. /\ uart'.fifo = kept /\ uart'.loop = FALSE /\ uart'.rx = Nul
      /\ uart' \in [fifo : Seq(Bytes8), loop : BOOLEAN, rx : Bytes8 \cup {Nul}]
  <2>1. kept \in Seq(Bytes8)
    BY <1>5, SeqMonotonic DEF Bytes8
  <2> QED BY <1>2, <2>1
<1>9. SerialTypeOK'
  BY <1>1, <1>4, <1>8 DEF SerialIInv, SerialTypeOK, StepsLeft
<1>10. SendsMessages'
  BY <1>1 DEF SerialIInv, SendsMessages
<1>11. InSeInitAlone'
  BY <1>1 DEF InSeInitAlone
<1>12. UartIsAt'
  <2>1. TestByte # Nul
    BY DEF TestByte, Nul
  <2>2. Len(kept) <= 2 /\ Len(kept) <= 1
    BY <1>5
  <2> QED BY <1>1, <1>5, <1>8, <2>1, <2>2 DEF UartIsAt
<1>13. LineHolds'
  <2>1. Len(sent) \in Nat /\ Len(sent) \in 0 .. Len(sent)
    BY <1>4
  <2> HIDE DEF n, f
  <2> QED BY <2>1, <1>1, <1>6, <1>7, <1>8 DEF LineHolds
<1> QED BY <1>9, <1>10, <1>11, <1>12, <1>13 DEF SerialIInv

LEMMA LoopbackKeepsSerial ==
  ASSUME SerialIInv, SeLoopback
  PROVE  SerialIInv'
<1>1. /\ call = NoCall /\ todo # <<>> /\ Head(todo).op = "serial" /\ fault = -1
      /\ UNCHANGED <<todo, call, screen, fault, line, sent, mark>>
      /\ se = "set" /\ se' = "loop" /\ uart' = [uart EXCEPT !.loop = TRUE]
  BY SetupIs DEF SeInit, SeLoopback, InSeInit
<1>2. /\ uart \in [fifo : Seq(Bytes8), loop : BOOLEAN, rx : Bytes8 \cup {Nul}]
      /\ line \in Seq(Ascii) /\ sent \in Seq(Ascii)
  BY DEF SerialIInv, SerialTypeOK
<1>3. /\ uart'.fifo = uart.fifo /\ uart'.loop = TRUE /\ uart'.rx = uart.rx
      /\ uart' \in [fifo : Seq(Bytes8), loop : BOOLEAN, rx : Bytes8 \cup {Nul}]
  BY <1>1, <1>2
<1>4. SerialTypeOK'
  BY <1>1, <1>3 DEF SerialIInv, SerialTypeOK, StepsLeft
<1>5. SendsMessages'
  BY <1>1 DEF SerialIInv, SendsMessages
<1>6. InSeInitAlone'
  BY <1>1 DEF SerialIInv, InSeInitAlone
<1>7. UartIsAt'
  BY <1>1, <1>3 DEF SerialIInv, UartIsAt
<1>8. LineHolds'
  <2>1. mark \in 0 .. Len(sent) /\ Len(line) >= mark - 2 /\ Len(sent) \in Nat
    BY <1>1, <1>2, LenProperties DEF SerialIInv, LineHolds
  <2>2. PICK n \in 0 .. mark : line \o uart.fifo = SubSeq(sent, 1, n)
    BY <1>1 DEF SerialIInv, LineHolds
  <2> DEFINE f == uart.fifo
             m == Len(line)
  <2>3. f \in Seq(Ascii)
    BY <1>1 DEF SerialIInv, UartIsAt
  <2>4. n \in 0 .. Len(sent)
    BY <2>1
  <2>5. Len(line) + Len(f) = n /\ Len(line) \in Nat /\ Len(f) \in Nat
    <3>1. line \o f = SubSeq(sent, 1, n)
      BY <2>2
    <3> HIDE DEF f
    <3>2. Len(line \o f) = Len(line) + Len(f) /\ Len(line) \in Nat /\ Len(f) \in Nat
      BY <2>3, <1>2, ConcatProperties, LenProperties
    <3>3. Len(SubSeq(sent, 1, n)) = n
      BY <2>4, <1>2, FrontIs
    <3> QED BY <3>1, <3>2, <3>3
  <2>6. line = SubSeq(sent, 1, m)
    <3>1. m \in 0 .. Len(sent) /\ m \in 0 .. n
      BY <2>4, <2>5
    <3>2. line \o f = SubSeq(sent, 1, n)
      BY <2>2
    <3> HIDE DEF f
    <3>3. SubSeq(sent, 1, m) \in Seq(Ascii) /\ Len(SubSeq(sent, 1, m)) = Len(line)
      BY <3>1, <1>2, FrontIs
    <3>4. ASSUME NEW i \in 1 .. Len(line) PROVE line[i] = SubSeq(sent, 1, m)[i]
      <4>1. i \in 1 .. n /\ i \in 1 .. m /\ i \in 1 .. (Len(line) + Len(f)) /\ i <= Len(line)
        BY <2>5, <3>1
      <4>2. (line \o f)[i] = line[i]
        BY <4>1, <2>3, <1>2, ConcatProperties
      <4>3. SubSeq(sent, 1, n)[i] = sent[i] /\ SubSeq(sent, 1, m)[i] = sent[i]
        BY <4>1, <3>1, <2>4, <1>2, FrontIs
      <4> QED BY <4>2, <4>3, <3>2
    <3> QED BY <3>3, <3>4, <1>2, SeqEqual
  <2>7. m \in 0 .. mark /\ m >= mark - 2
    BY <2>1, <2>5
  <2> HIDE DEF m, f
  <2> QED BY <2>1, <2>6, <2>7, <1>1 DEF LineHolds
<1> QED BY <1>4, <1>5, <1>6, <1>7, <1>8 DEF SerialIInv

LEMMA TestKeepsSerial ==
  ASSUME SerialIInv, SeTest
  PROVE  SerialIInv'
<1> DEFINE f == uart.fifo
<1>1. /\ call = NoCall /\ todo # <<>> /\ Head(todo).op = "serial" /\ fault = -1
      /\ UNCHANGED <<todo, call, screen, fault, line, sent, mark>>
      /\ se = "loop" /\ se' = "test" /\ uart' = [uart EXCEPT !.fifo = Outb(f, TestByte)]
  BY SetupIs DEF SeInit, SeTest, InSeInit
<1>2. /\ uart \in [fifo : Seq(Bytes8), loop : BOOLEAN, rx : Bytes8 \cup {Nul}]
      /\ line \in Seq(Ascii) /\ sent \in Seq(Ascii)
  BY DEF SerialIInv, SerialTypeOK
<1>3. f \in Seq(Ascii) /\ Len(f) <= 1 /\ uart.loop /\ uart.rx # TestByte
  BY <1>1 DEF SerialIInv, UartIsAt
<1> DEFINE g == Outb(f, TestByte)
<1>4. /\ g \in Seq(Bytes8) /\ Len(g) = Len(f) + 1 /\ Len(f) \in Nat
      /\ g[Len(g)] = TestByte /\ (Len(g) = 2 => g[1] \in Ascii)
  <2> DEFINE new == TestByte
  <2>0. f \in Seq(Ascii) /\ Len(f) <= 1
    BY <1>3
  <2> HIDE DEF f
  <2>1. f \in Seq(Bytes8) /\ new \in Bytes8 /\ Len(f) \in Nat
    BY <2>0, SeqMonotonic, LenProperties DEF Bytes8
  <2>2. g = Append(f, new)
    BY <2>0, <2>1 DEF Outb
  <2> HIDE DEF new, g
  <2>3. /\ g \in Seq(Bytes8) /\ Len(g) = Len(f) + 1 /\ g[Len(f) + 1] = new
        /\ \A i \in 1 .. Len(f) : g[i] = f[i]
    BY <2>1, <2>2
  <2>4. ASSUME Len(g) = 2 PROVE g[1] \in Ascii
    <3>1. 1 \in 1 .. Len(f)
      <4> DEFINE l == Len(f)
                 m == Len(g)
      <4>1. l \in Nat /\ m = l + 1 /\ m = 2
        BY <2>1, <2>3, <2>4
      <4> HIDE DEF l, m
      <4>2. 1 \in 1 .. l
        BY <4>1
      <4> QED BY <4>2 DEF l
    <3> QED BY <3>1, <2>0, <2>3, ElementOfSeq
  <2>5. g[Len(g)] = new
    BY <2>3
  <2> QED BY <2>1, <2>3, <2>4, <2>5 DEF new
<1>5. /\ uart'.fifo = g /\ uart'.loop = uart.loop /\ uart'.rx = uart.rx
      /\ uart' \in [fifo : Seq(Bytes8), loop : BOOLEAN, rx : Bytes8 \cup {Nul}]
  <2>1. uart' = [uart EXCEPT !.fifo = g] /\ g \in Seq(Bytes8)
    BY <1>1, <1>4
  <2> HIDE DEF g
  <2> QED BY <2>1, <1>2
<1>6. SerialTypeOK'
  BY <1>1, <1>5 DEF SerialIInv, SerialTypeOK, StepsLeft
<1>7. SendsMessages'
  BY <1>1 DEF SerialIInv, SendsMessages
<1>8. InSeInitAlone'
  BY <1>1 DEF SerialIInv, InSeInitAlone
<1>9. UartIsAt'
  <2>1. Len(g) <= 2
    <3>1. Len(f) <= 1 /\ Len(f) \in Nat /\ Len(g) = Len(f) + 1
      BY <1>3, <1>4
    <3> HIDE DEF f, g
    <3> QED BY <3>1
  <2> HIDE DEF g
  <2> QED BY <1>1, <1>3, <1>4, <1>5, <2>1 DEF UartIsAt
<1>10. LineHolds'
  <2>1. mark \in 0 .. Len(sent)
    BY <1>1 DEF SerialIInv, LineHolds
  <2>2. \E n \in 0 .. mark : n >= mark - 2 /\ line = SubSeq(sent, 1, n)
    BY <1>1 DEF SerialIInv, LineHolds
  <2> QED BY <1>1, <2>1, <2>2 DEF LineHolds
<1> QED BY <1>6, <1>7, <1>8, <1>9, <1>10 DEF SerialIInv

LEMMA CheckKeepsSerial ==
  ASSUME SerialIInv, SeCheck
  PROVE  SerialIInv'
<1>1. /\ call = NoCall /\ todo # <<>> /\ Head(todo).op = "serial" /\ fault = -1
      /\ UNCHANGED <<call, screen, fault, line, sent, mark>>
      /\ todo' = Tail(todo)
      /\ se = "test" /\ se' = IF uart.rx = TestByte THEN "good" ELSE "bad"
      /\ uart' = [uart EXCEPT !.rx = Nul, !.loop = uart.rx # TestByte]
  BY SetupIs DEF SeInit, SeCheck, InSeInit
<1>2. /\ uart \in [fifo : Seq(Bytes8), loop : BOOLEAN, rx : Bytes8 \cup {Nul}]
      /\ line \in Seq(Ascii) /\ sent \in Seq(Ascii)
  BY DEF SerialIInv, SerialTypeOK
<1>3. /\ uart'.fifo = uart.fifo /\ uart'.loop = (uart.rx # TestByte) /\ uart'.rx = Nul
      /\ uart' \in [fifo : Seq(Bytes8), loop : BOOLEAN, rx : Bytes8 \cup {Nul}]
  <2> DEFINE differs == uart.rx # TestByte
             none == Nul
  <2>1. differs \in BOOLEAN /\ none \in Bytes8 \cup {Nul}
    OBVIOUS
  <2>2. uart' = [uart EXCEPT !.rx = none, !.loop = differs]
    BY <1>1
  <2> HIDE DEF differs, none
  <2>3. /\ uart'.fifo = uart.fifo /\ uart'.loop = differs /\ uart'.rx = none
        /\ uart' \in [fifo : Seq(Bytes8), loop : BOOLEAN, rx : Bytes8 \cup {Nul}]
    BY <1>2, <2>1, <2>2
  <2> QED BY <2>3 DEF differs, none
<1>4. todo' \in Seq(StepsLeft) /\ StepsLeft' = StepsLeft
  BY <1>1, StepsAre DEF StepsLeft, SerialIInv
<1>5. SerialTypeOK'
  BY <1>1, <1>3, <1>4 DEF SerialIInv, SerialTypeOK
<1>6. SendsMessages'
  BY <1>1 DEF SerialIInv, SendsMessages
<1>7. InSeInitAlone'
  BY <1>1 DEF InSeInitAlone
<1>8. uart.rx = TestByte => uart.fifo = <<>>
  BY <1>1 DEF SerialIInv, UartIsAt
<1>9. UartIsAt'
  <2>1. <<>> \in Seq(Ascii) /\ Len(uart.fifo) <= 2
    BY EmptySeq DEF SerialIInv, UartIsAt
  <2>2. CASE uart.rx = TestByte
    BY <2>1, <2>2, <1>1, <1>3, <1>8 DEF UartIsAt
  <2>3. CASE uart.rx # TestByte
    BY <2>1, <2>3, <1>1, <1>3 DEF UartIsAt
  <2> QED BY <2>2, <2>3
<1>10. LineHolds'
  <2>1. mark \in 0 .. Len(sent) /\ Len(sent) = mark /\ Len(sent) \in Nat
    BY <1>1, <1>2, LenProperties DEF SerialIInv, LineHolds, InSeInitAlone
  <2>2. PICK n \in 0 .. mark : n >= mark - 2 /\ line = SubSeq(sent, 1, n)
    BY <1>1 DEF SerialIInv, LineHolds
  <2>3. CASE uart.rx = TestByte
    <3>1. SubSeq(sent, mark + 1, Len(sent)) = <<>>
      <4>1. mark + 1 \in Int /\ Len(sent) \in Int /\ Len(sent) < mark + 1
        BY <2>1
      <4> QED BY <4>1, SubSeqEmpty
    <3>2. line \o <<>> = line
      BY <1>2, ConcatEmptySeq
    <3>3. se' = "good" /\ uart'.fifo = <<>>
      BY <2>3, <1>1, <1>3, <1>8
    <3> DEFINE a == SubSeq(sent, mark + 1, Len(sent))
               e == <<>>
    <3>4. line' \o uart'.fifo = SubSeq(sent', 1, n) \o SubSeq(sent', mark' + 1, Len(sent'))
      BY <3>1, <3>2, <3>3, <2>2, <1>1
    <3> QED BY <3>3, <3>4, <2>1, <2>2, <1>1 DEF LineHolds
  <2>4. CASE uart.rx # TestByte
    BY <2>4, <2>1, <2>2, <1>1 DEF LineHolds
  <2> QED BY <2>3, <2>4
<1> QED BY <1>5, <1>6, <1>7, <1>9, <1>10 DEF SerialIInv

LEMMA FaultKeepsSerial ==
  ASSUME SerialIInv, IsrHandler
  PROVE  SerialIInv'
<1>1. /\ fault = -1 /\ fault' = Len(screen) /\ screen' = screen
      /\ todo' = Panic(Texts["panic"]) /\ call' = NoCall
      /\ UNCHANGED serialVars
  BY DEF IsrHandler, screenVars
<1>2. Len(screen) \in Nat /\ Len(screen) # -1
  BY LenProperties DEF SerialIInv, SerialTypeOK
<1>3. StepsLeft' = ToSet(Panic(Texts["panic"]))
  BY <1>1, <1>2 DEF StepsLeft
<1>4. todo' \in Seq(StepsLeft')
  <2> DEFINE p == Panic(Texts["panic"])
  <2>1. p \in Seq(ToSet(p))
    <3> DEFINE a == Fg(Black)
               b == Bg("lightRed")
               c == PrintText("screen", Literal(PanicPrefix))
               d == PrintText("screen", Texts["panic"])
               e == Do("update")
               g == Fg(White)
               h == Bg(Black)
    <3>1. p = <<a, b, c, d, e, g, h>>
      BY DEF Panic
    <3> HIDE DEF a, b, c, d, e, g, h
    <3>2. <<a, b, c, d, e, g, h>> \in Seq({a, b, c, d, e, g, h})
      OBVIOUS
    <3>3. Len(p) = 7 /\ DOMAIN p = 1 .. 7 /\ p \in Seq({a, b, c, d, e, g, h})
      BY <3>1, <3>2
    <3> HIDE DEF p
    <3>4. \A i \in 1 .. Len(p) : p[i] \in ToSet(p)
      BY <3>3 DEF ToSet
    <3>5. p = [i \in 1 .. Len(p) |-> p[i]] /\ Len(p) \in Nat
      BY <3>3, LenProperties
    <3>6. [i \in 1 .. Len(p) |-> p[i]] \in Seq(ToSet(p))
      BY <3>4, <3>5, IsASeq
    <3> QED BY <3>5, <3>6
  <2> QED BY <2>1, <1>1, <1>3
<1>5. SerialTypeOK'
  BY <1>1, <1>2, <1>4 DEF SerialIInv, SerialTypeOK, serialVars
<1>6. SendsMessages'
  BY <1>1 DEF SendsMessages, NoCall
<1>7. InSeInitAlone'
  BY <1>1, <1>2 DEF SerialIInv, InSeInitAlone, serialVars
<1> QED BY <1>1, <1>5, <1>6, <1>7, SerialAlone DEF SerialIInv

LEMMA InitSerial == ConsoleInit => SerialIInv
<1> SUFFICES ASSUME ConsoleInit PROVE SerialIInv
  OBVIOUS
<1>1. PICK p \in Programs : todo = p.steps
  BY DEF ConsoleInit
<1>2. /\ call = NoCall /\ screen = <<>> /\ fault = -1
      /\ uart = [fifo |-> <<>>, loop |-> FALSE, rx |-> Nul]
      /\ se = "no" /\ line = <<>> /\ sent = <<>> /\ mark = -1
  BY DEF ConsoleInit
<1>3. todo \in Seq(StepsLeft)
  <2>1. todo \in Seq(ToSet(p.steps)) /\ ToSet(p.steps) \subseteq StepsLeft
    BY <1>1, <1>2, ProgramsAreSeqs DEF StepsLeft
  <2> QED BY <2>1, SeqMonotonic
<1>4. \A S : <<>> \in Seq(S)
  BY EmptySeq
<1>5. SerialTypeOK
  BY <1>2, <1>3, <1>4 DEF SerialTypeOK
<1>6. SendsMessages /\ InSeInitAlone
  BY <1>2 DEF SendsMessages, InSeInitAlone, NoCall
<1>7. UartIsAt
  BY <1>2, <1>4 DEF UartIsAt, TestByte, Nul
<1>8. LineHolds
  <2>1. <<>> \o <<>> = <<>>
    OBVIOUS
  <2> QED BY <2>1, <1>2 DEF LineHolds
<1> QED BY <1>5, <1>6, <1>7, <1>8 DEF SerialIInv

\* The whole system.
LEMMA StepKeepsSerialIInv == SerialIInv /\ [ConsoleNext]_consoleVars => SerialIInv'
<1> SUFFICES ASSUME SerialIInv, [ConsoleNext]_consoleVars PROVE SerialIInv'
  OBVIOUS
<1>1. CASE UNCHANGED consoleVars
  <2>1. UNCHANGED <<todo, call, screen, fault, serialVars>>
    BY <1>1 DEF consoleVars, screenVars
  <2>2. StepsLeft' = StepsLeft
    BY <2>1 DEF StepsLeft
  <2>3. SerialTypeOK'
    BY <2>1, <2>2 DEF SerialIInv, SerialTypeOK, serialVars
  <2>4. SendsMessages' /\ InSeInitAlone'
    BY <2>1 DEF SerialIInv, SendsMessages, InSeInitAlone, serialVars
  <2> QED BY <2>1, <2>3, <2>4, SerialAlone DEF SerialIInv
<1>2. CASE FtSetFg \/ FtSetBg \/ FbUpdate \/ IdtInit
  <2>1. PICK op \in {"fg", "bg", "update", "idt"} : Step(op)
    BY <1>2 DEF FtSetFg, FtSetBg, FbUpdate, IdtInit
  <2>2. todo' = Tail(todo) /\ UNCHANGED <<call, fault, screen, serialVars>>
    BY <1>2 DEF FtSetFg, FtSetBg, FbUpdate, IdtInit, Done, screenVars
  <2> QED BY <2>1, <2>2, StepKeepsSerial
<1>3. CASE Printf
  BY <1>3, CallKeepsSerial, FormatKeepsSerial, PutKeepsSerial, SendKeepsSerial DEF Printf
<1>4. CASE SeInit
  BY <1>4, SetupKeepsSerial, LoopbackKeepsSerial, TestKeepsSerial, CheckKeepsSerial DEF SeInit
<1>5. CASE UartShift
  BY <1>5, ShiftKeepsSerial
<1>6. CASE IsrHandler
  BY <1>6, FaultKeepsSerial
<1> QED BY <1>1, <1>2, <1>3, <1>4, <1>5, <1>6 DEF ConsoleNext, Kernel

\* The text on the line follows from the invariant.
LEMMA LineFollows == SerialIInv => LineCarriesTheText
<1> SUFFICES ASSUME SerialIInv PROVE LineCarriesTheText
  OBVIOUS
<1>1. CASE se = "no"
  BY <1>1 DEF SerialIInv, LineHolds, LineCarriesTheText
<1>2. CASE se # "no"
  <2>1. mark \in 0 .. Len(sent) /\ mark # -1
    <3>1. mark \in 0 .. Len(sent)
      BY <1>2 DEF SerialIInv, LineHolds
    <3>2. sent \in Seq(Ascii)
      BY DEF SerialIInv, SerialTypeOK
    <3>3. Len(sent) \in Nat
      BY <3>2, LenProperties
    <3> QED BY <3>1, <3>3
  <2>2. se \in {"set", "loop", "test", "good", "bad"}
    BY <1>2 DEF SerialIInv, SerialTypeOK
  <2> QED BY <1>2, <2>1, <2>2 DEF SerialIInv, LineHolds, LineCarriesTheText
<1> QED BY <1>1, <1>2

\* The inductive invariant of the serial port holds in every reachable state.
THEOREM SerialInvariance == ConsoleSpec => []SerialIInv
<1>1. ConsoleInit => SerialIInv
  BY InitSerial
<1>2. SerialIInv /\ [ConsoleNext]_consoleVars => SerialIInv'
  BY StepKeepsSerialIInv
<1> QED BY <1>1, <1>2, PTL DEF ConsoleSpec

\* What was sent is on the line or in the UART, in order, but for at most two
\* bytes that SeInit's programming of the port loses; nothing follows a failed
\* test, and the test byte never leaves.
THEOREM SerialLineCarriesTheText == ConsoleSpec => []LineCarriesTheText
<1>1. SerialIInv => LineCarriesTheText
  BY LineFollows
<1> QED BY <1>1, SerialInvariance, PTL

-----------------------------------------------------------------------------
(* What is printed of the texts that LogWrite and Panic add. *)

LEMMA LiteralIsPrinted ==
  ASSUME NEW S, NEW text \in Seq(S)
  PROVE  TextOf(Literal(text)) = text
BY CharsArePrinted DEF TextOf, Literal

LEMMA AtouOfNothing == Atou(<<>>) = 0
<1> DEFINE Value(ch) == (CHOOSE j \in 1 .. 10 : Numerals[j] = ch) - 1
           Op(i, ch) == i * 10 + Value(ch)
           Loop(F) == F = [s \in SUBSET (DOMAIN <<>>) |->
                       IF s = {} THEN 0 ELSE Op(F[s \ {Max(s)}], <<>>[Max(s)])]
           F == CHOOSE F : Loop(F)
<1>1. Atou(<<>>) = F[DOMAIN <<>>]
  BY DEF Atou, FoldLeft, MapThenFoldSet
<1>2. DOMAIN <<>> = {}
  OBVIOUS
<1> HIDE DEF Op
<1>3. Loop([s \in SUBSET {} |-> 0])
  BY <1>2
<1>4. Loop(F)
  <2> HIDE DEF Loop
  <2> QED BY <1>3
<1> HIDE DEF F
<1> QED BY <1>1, <1>2, <1>4

\* %s prints its argument.
LEMMA StringIsPrinted ==
  ASSUME NEW S, NEW c \in Seq(S)
  PROVE  TextOf([items |-> <<StringDirective>>, args |-> <<CString(c)>>]) = c
<1> DEFINE d == StringDirective
           a == CString(c)
           q == <<d>>
           base == NoneYet(<<a>>)
           Loop(F) == F = [s \in SUBSET (DOMAIN q) |->
                       IF s = {} THEN base ELSE ItemOf(F[s \ {Max(s)}], q[Max(s)])]
           F == CHOOSE F : Loop(F)
<1>1. Printed(q, <<a>>) = F[DOMAIN q]
  BY DEF Printed, FoldLeft, MapThenFoldSet, ItemOf, NoneYet
<1> HIDE DEF d, a, base
<1>2. DOMAIN q = {1} /\ q[1] = d /\ Max({1}) = 1
  <2>1. Max({1}) \in {1}
    <3>1. {1} \in SUBSET (1 .. 1) /\ {1} # {}
      OBVIOUS
    <3> QED BY <3>1, LargestOf
  <2> QED BY <2>1
<1> HIDE DEF q
<1> DEFINE item == ItemOf(base, d)
           G == [s \in SUBSET {1} |-> IF s = {} THEN base ELSE item]
<1>3. Loop(G)
  <2> DEFINE Then(s) == IF s = {} THEN base ELSE ItemOf(G[s \ {Max(s)}], q[Max(s)])
  <2>1. \A s \in SUBSET {1} : s = {} \/ s = {1}
    OBVIOUS
  <2>2. {1} \ {1} = {} /\ {} \in SUBSET {1}
    OBVIOUS
  <2>3. G[{}] = base /\ G[{1}] = item
    OBVIOUS
  <2>4. G = [s \in SUBSET {1} |-> G[s]]
    OBVIOUS
  <2> HIDE DEF G
  <2>5. Then({1}) = item
    BY <1>2, <2>2, <2>3
  <2>6. Then({}) = base
    OBVIOUS
  <2> HIDE DEF Then
  <2>7. \A s \in SUBSET {1} : G[s] = Then(s)
    BY <2>1, <2>3, <2>5, <2>6
  <2>8. G = [s \in SUBSET {1} |-> Then(s)]
    BY <2>4, <2>7, Zenon
  <2> QED BY <1>2, <2>8 DEF Then
<1>4. Loop(F)
  <2> HIDE DEF Loop, G
  <2> QED BY <1>3
<1> HIDE DEF F
<1>5. F[{1}] = ItemOf(base, d)
  <2>1. F[{}] = base
    BY <1>2, <1>4
  <2>2. F[{1}] = ItemOf(F[{1} \ {Max({1})}], q[Max({1})])
    BY <1>2, <1>4
  <2>3. {1} \ {1} = {}
    OBVIOUS
  <2> QED BY <1>2, <2>1, <2>2, <2>3
<1> DEFINE r == Resolve(d, <<a>>)
<1>6. /\ d.conv = "s" /\ d.width = <<>> /\ d.precision = <<>> /\ d.flags = <<>>
  BY DEF d, StringDirective, Directive
<1>7. r.width = 0 /\ r.flags = {} /\ r.precision = -1 /\ r.args = <<a>>
  <2>1. <<>> # <<"*">> /\ <<>> # <<".", "*">> /\ ToSet(<<>>) = {}
    BY DEF ToSet
  <2> QED BY <1>6, <2>1, AtouOfNothing DEF Resolve
<1>8. a.chars = c /\ a.terminated = TRUE
  BY DEF a, CString
<1>9. ItemOf(base, d) = Directed(base, d, r, a)
  <2>1. ItemOf(base, d) = Resolved(base, d, Resolve(d, base.args))
    BY <1>6 DEF ItemOf
  <2>2. base.args = <<a>> /\ Head(<<a>>) = a
    BY DEF base, NoneYet
  <2> QED BY <1>7, <2>1, <2>2 DEF Resolved
<1>10. ArgumentText(d, r, a) = c
  <2>1. a # NullString
    BY <1>8 DEF NullString
  <2>2. ArgumentText(d, r, a) = SubSeq(a.chars, 1, Len(a.chars))
    BY <1>6, <1>7, <2>1 DEF ArgumentText
  <2> QED BY <1>8, <2>2, SubSeqFull
<1> HIDE DEF r
<1>11. InField(r, c) = c
  <2>1. Len(c) \in Nat
    BY LenProperties
  <2>2. ~(0 - Len(c) > 0)
    BY <2>1
  <2>3. Repeat(" ", 0 - Len(c)) = <<>>
    <3>1. Repeat(" ", 0 - Len(c)) = [j \in 1 .. 0 |-> " "]
      BY <2>2 DEF Repeat
    <3> DEFINE none == [j \in 1 .. 0 |-> " "]
    <3>2. none \in Seq({" "})
      BY IsASeq
    <3>3. DOMAIN none = 1 .. 0
      OBVIOUS
    <3> HIDE DEF none
    <3>4. Len(none) = 0
      BY <3>2, <3>3, LenProperties
    <3>5. none = <<>>
      BY <3>2, <3>4, EmptySeq
    <3> QED BY <3>1, <3>5 DEF none
  <2>4. InField(r, c) = <<>> \o c
    BY <1>7, <2>3 DEF InField
  <2> QED BY <2>4, ConcatEmptySeq
<1>12. Directed(base, d, r, a).text = base.text \o c
  <2>1. DOMAIN base = {"text", "args", "stored", "deviates"}
    BY DEF base, NoneYet
  <2> QED BY <1>10, <1>11, <2>1 DEF Directed
<1>13. base.text \o c = c
  BY ConcatEmptySeq DEF base, NoneYet
<1>14. Printed(q, <<a>>).text = c
  BY <1>1, <1>2, <1>5, <1>9, <1>12, <1>13
<1> QED BY <1>14 DEF TextOf, q, d, a

-----------------------------------------------------------------------------
(* What the steps of a program make of the screen. *)

Hues == {White, Black, "lightRed", "lightGreen", "lightBlue"}
Cell == Ascii \X Hues \X Hues
View == [fg : Hues, bg : Hues, screen : Seq(Cell), front : Seq(Cell)]

\* The view that step s makes of v.
After(v, s) ==
  [fg |-> IF s.op = "fg" THEN s.color ELSE v.fg,
   bg |-> IF s.op = "bg" THEN s.color ELSE v.bg,
   screen |-> IF s.op = "print" /\ s.to = "screen"
              THEN v.screen \o Cells(TextOf(s), v.fg, v.bg) ELSE v.screen,
   front |-> IF s.op = "update" THEN v.screen ELSE v.front]

\* b is a, continued.
Continues(a, b) == \E r \in Seq(Cell) : b = a \o r

\* The views that steps lead through, from v to w.
Run(g, steps, v, w) ==
  /\ g \in [0 .. Len(steps) -> View]
  /\ g[0] = v /\ g[Len(steps)] = w
  /\ \A j \in 1 .. Len(steps) : g[j] = After(g[j - 1], steps[j])
  /\ \A j \in 0 .. Len(steps) :
       Continues(v.screen, g[j].screen) /\ Continues(g[j].screen, w.screen)

Leads(steps, v, w) == \E g : Run(g, steps, v, w)

\* Sequences of cells, one after the other.
Joint(a, b) == a \o b

LEMMA JointIs ==
  \A a, b, c \in Seq(Cell) :
    Joint(a, b) \in Seq(Cell) /\ Joint(Joint(a, b), c) = Joint(a, Joint(b, c))
<1> TAKE a, b, c \in Seq(Cell)
<1>1. a \o b \in Seq(Cell) /\ (a \o b) \o c = a \o (b \o c)
  BY ConcatProperties, ConcatAssociative
<1> QED BY <1>1 DEF Joint

LEMMA FiveTogether ==
  ASSUME NEW s \in Seq(Cell), NEW a \in Seq(Cell), NEW b \in Seq(Cell), NEW c \in Seq(Cell),
         NEW d \in Seq(Cell)
  PROVE  Joint(Joint(Joint(Joint(s, a), b), c), d) = Joint(s, Joint(Joint(a, b), Joint(c, d)))
<1> DEFINE q == Joint(Joint(s, a), b)
           e == Joint(c, d)
           h == Joint(a, b)
<1>1. Joint(s, a) \in Seq(Cell) /\ e \in Seq(Cell) /\ h \in Seq(Cell)
  BY JointIs
<1>2. q \in Seq(Cell) /\ q = Joint(s, h)
  BY <1>1, JointIs
<1> HIDE DEF q, e, h
<1>3. Joint(Joint(q, c), d) = Joint(q, e)
  BY <1>2, JointIs DEF e
<1>4. Joint(Joint(s, h), e) = Joint(s, Joint(h, e))
  BY <1>1, JointIs
<1>5. Joint(Joint(q, c), d) = Joint(s, Joint(h, e))
  BY <1>2, <1>3, <1>4
<1> QED BY <1>5 DEF q, e, h

LEMMA ContinuesItself == \A a \in Seq(Cell) : Continues(a, a)
<1> TAKE a \in Seq(Cell)
<1>1. a = a \o <<>> /\ <<>> \in Seq(Cell)
  BY ConcatEmptySeq, EmptySeq
<1> QED BY <1>1 DEF Continues

LEMMA ContinuesOn ==
  ASSUME NEW a \in Seq(Cell), NEW b \in Seq(Cell), NEW c \in Seq(Cell),
         Continues(a, b), Continues(b, c)
  PROVE  Continues(a, c)
<1>1. PICK r \in Seq(Cell) : b = a \o r
  BY DEF Continues
<1>2. PICK s \in Seq(Cell) : c = b \o s
  BY DEF Continues
<1>3. c = a \o (r \o s)
  <2>1. Joint(Joint(a, r), s) = Joint(a, Joint(r, s))
    BY JointIs
  <2> QED BY <1>1, <1>2, <2>1 DEF Joint
<1>4. r \o s \in Seq(Cell)
  BY ConcatProperties
<1> QED BY <1>3, <1>4 DEF Continues

\* x makes w of v, and the screen goes on.
Makes(x, v, w) == v \in View /\ w \in View /\ w = After(v, x) /\ Continues(v.screen, w.screen)

\* Steps that each make the next view lead through all of them.
LEMMA MakesLead ==
  ASSUME NEW n \in Nat, NEW steps, Len(steps) = n, NEW g, g \in [0 .. n -> View],
         \A j \in 1 .. n : Makes(steps[j], g[j - 1], g[j])
  PROVE  Leads(steps, g[0], g[n])
<1> DEFINE T == {j \in 0 .. n : Continues(g[0].screen, g[j].screen)}
           U == {j \in 0 .. n : Continues(g[n - j].screen, g[n].screen)}
<1>1. \A j \in 0 .. n : g[j].screen \in Seq(Cell)
  BY DEF View
<1>2. 0 \in 0 .. n /\ n \in 0 .. n /\ n - 0 = n
  OBVIOUS
<1>3. \A j \in 0 .. n : j \in T
  <2>1. 0 \in T
    BY <1>1, <1>2, ContinuesItself
  <2>2. ASSUME NEW m \in 0 .. (n - 1), m \in T PROVE m + 1 \in T
    <3>1. m \in 0 .. n /\ m + 1 \in 0 .. n /\ m + 1 \in 1 .. n /\ (m + 1) - 1 = m
      OBVIOUS
    <3>2. Continues(g[m].screen, g[m + 1].screen)
      BY <3>1 DEF Makes
    <3>3. Continues(g[0].screen, g[m].screen)
      BY <2>2
    <3>4. Continues(g[0].screen, g[m + 1].screen)
      BY <1>1, <1>2, <3>1, <3>2, <3>3, ContinuesOn
    <3> QED BY <3>1, <3>4
  <2> HIDE DEF T
  <2> QED BY <2>1, <2>2, UpTo
<1>4. \A j \in 0 .. n : j \in U
  <2>1. 0 \in U
    BY <1>1, <1>2, ContinuesItself
  <2>2. ASSUME NEW m \in 0 .. (n - 1), m \in U PROVE m + 1 \in U
    <3> DEFINE i == n - (m + 1)
    <3>1. /\ m \in 0 .. n /\ m + 1 \in 0 .. n /\ i \in 0 .. n /\ n - m \in 0 .. n
          /\ n - m \in 1 .. n /\ (n - m) - 1 = i
      OBVIOUS
    <3>2. Continues(g[n - m].screen, g[n].screen)
      BY <2>2
    <3> HIDE DEF i
    <3>3. Continues(g[i].screen, g[n - m].screen)
      BY <3>1 DEF Makes
    <3>4. Continues(g[i].screen, g[n].screen)
      BY <1>1, <1>2, <3>1, <3>2, <3>3, ContinuesOn
    <3> QED BY <3>1, <3>4 DEF i
  <2> HIDE DEF U
  <2> QED BY <2>1, <2>2, UpTo
<1>5. \A j \in 0 .. n : Continues(g[0].screen, g[j].screen) /\ Continues(g[j].screen, g[n].screen)
  <2> TAKE j \in 0 .. n
  <2>1. n - j \in 0 .. n /\ n - (n - j) = j
    OBVIOUS
  <2>2. n - j \in U /\ j \in T
    BY <1>3, <1>4, <2>1
  <2> QED BY <2>1, <2>2
<1>6. \A j \in 1 .. n : g[j] = After(g[j - 1], steps[j])
  BY DEF Makes
<1> HIDE DEF T, U
<1>7. Run(g, steps, g[0], g[n])
  BY <1>5, <1>6 DEF Run
<1> QED BY <1>7 DEF Leads

\* One program after another.
LEMMA LeadsFurther ==
  ASSUME NEW s, NEW t, s \in Seq(ToSet(s)), t \in Seq(ToSet(t)),
         NEW u \in View, NEW v \in View, NEW w \in View, Leads(s, u, v), Leads(t, v, w)
  PROVE  Leads(s \o t, u, w)
<1> DEFINE n == Len(s)
           m == Len(t)
           c == s \o t
<1>1. PICK g : Run(g, s, u, v)
  BY DEF Leads
<1>2. PICK h : Run(h, t, v, w)
  BY DEF Leads
<1>3. /\ n \in Nat /\ m \in Nat /\ Len(c) = n + m
      /\ \A j \in 1 .. (n + m) : c[j] = IF j <= n THEN s[j] ELSE t[j - n]
  <2> DEFINE A == ToSet(s)
             B == ToSet(t)
  <2>1. s \in Seq(A) /\ t \in Seq(B)
    OBVIOUS
  <2> HIDE DEF A, B
  <2>2. s \in Seq(A \cup B) /\ t \in Seq(A \cup B)
    BY <2>1
  <2> QED BY <2>2, ConcatProperties, LenProperties
<1>4. /\ g \in [0 .. n -> View] /\ g[0] = u /\ g[n] = v
      /\ \A j \in 1 .. n : g[j] = After(g[j - 1], s[j])
      /\ \A j \in 0 .. n : Continues(u.screen, g[j].screen) /\ Continues(g[j].screen, v.screen)
  BY <1>1 DEF Run
<1>5. /\ h \in [0 .. m -> View] /\ h[0] = v /\ h[m] = w
      /\ \A j \in 1 .. m : h[j] = After(h[j - 1], t[j])
      /\ \A j \in 0 .. m : Continues(v.screen, h[j].screen) /\ Continues(h[j].screen, w.screen)
  BY <1>2 DEF Run
<1> HIDE DEF n, m, c
<1> DEFINE f == [j \in 0 .. (n + m) |-> IF j <= n THEN g[j] ELSE h[j - n]]
<1>6. /\ \A j \in 0 .. n : j \in 0 .. (n + m) /\ j <= n
      /\ \A j \in 0 .. (n + m) : j \in 0 .. n \/ (~(j <= n) /\ j - n \in 1 .. m /\ j - n \in 0 .. m)
      /\ \A j \in 0 .. m : n + j \in 0 .. (n + m) /\ (n + j) - n = j /\ (n + j <= n => j = 0)
  BY <1>3
<1>7. \A j \in 0 .. n : f[j] = g[j]
  BY <1>6
<1>8. \A j \in 0 .. (n + m) : ~(j <= n) => f[j] = h[j - n]
  OBVIOUS
<1>9. f \in [0 .. (n + m) -> View]
  <2>1. \A j \in 0 .. (n + m) : (IF j <= n THEN g[j] ELSE h[j - n]) \in View
    BY <1>3, <1>4, <1>5, <1>6
  <2> QED BY <2>1
<1> HIDE DEF f
<1>10. f[0] = u /\ f[n] = v
  BY <1>3, <1>4, <1>7
<1>11. f[n + m] = w
  <2>1. CASE m = 0
    BY <2>1, <1>3, <1>5, <1>10
  <2>2. CASE m > 0
    <3>1. n + m \in 0 .. (n + m) /\ ~(n + m <= n) /\ (n + m) - n = m
      BY <2>2, <1>3
    <3> QED BY <3>1, <1>5, <1>8
  <2> QED BY <2>1, <2>2, <1>3
<1>12. \A j \in 1 .. (n + m) : f[j] = After(f[j - 1], c[j])
  <2> TAKE j \in 1 .. (n + m)
  <2>1. CASE j <= n
    <3>1. j \in 1 .. n /\ j \in 0 .. n /\ j - 1 \in 0 .. n
      BY <2>1, <1>3
    <3> QED BY <2>1, <3>1, <1>3, <1>4, <1>7
  <2>2. CASE ~(j <= n)
    <3>1. j \in 0 .. (n + m) /\ j - n \in 1 .. m
      BY <2>2, <1>3
    <3>2. f[j] = h[j - n] /\ c[j] = t[j - n]
      BY <2>2, <3>1, <1>3, <1>8
    <3>3. h[j - n] = After(h[(j - n) - 1], t[j - n])
      BY <3>1, <1>5
    <3>4. f[j - 1] = h[(j - n) - 1]
      <4>1. CASE j - 1 = n
        <5>1. (j - n) - 1 = 0
          BY <4>1, <1>3
        <5> QED BY <4>1, <5>1, <1>5, <1>10
      <4>2. CASE j - 1 # n
        <5>1. j - 1 \in 0 .. (n + m) /\ ~(j - 1 <= n) /\ (j - 1) - n = (j - n) - 1
          BY <2>2, <4>2, <1>3
        <5> QED BY <5>1, <1>8
      <4> QED BY <4>1, <4>2
    <3> QED BY <3>2, <3>3, <3>4
  <2> QED BY <2>1, <2>2
<1>13. \A j \in 0 .. (n + m) : Continues(u.screen, f[j].screen) /\ Continues(f[j].screen, w.screen)
  <2> TAKE j \in 0 .. (n + m)
  <2>1. \A q \in View : q.screen \in Seq(Cell)
    BY DEF View
  <2>2. Continues(v.screen, w.screen) /\ Continues(u.screen, v.screen)
    <3>1. 0 \in 0 .. m /\ n \in 0 .. n
      BY <1>3
    <3> QED BY <3>1, <1>4, <1>5
  <2>3. CASE j \in 0 .. n
    <3>1. f[j] \in View /\ Continues(u.screen, f[j].screen) /\ Continues(f[j].screen, v.screen)
      BY <2>3, <1>4, <1>7, <1>9
    <3> QED BY <3>1, <2>1, <2>2, ContinuesOn
  <2>4. CASE ~(j <= n) /\ j - n \in 0 .. m
    <3>1. f[j] \in View /\ Continues(v.screen, f[j].screen) /\ Continues(f[j].screen, w.screen)
      BY <2>4, <1>5, <1>8, <1>9
    <3> QED BY <3>1, <2>1, <2>2, ContinuesOn
  <2> QED BY <1>6, <2>3, <2>4
<1>14. Run(f, c, u, w)
  BY <1>3, <1>9, <1>10, <1>11, <1>12, <1>13 DEF Run
<1> QED BY <1>14 DEF Leads, c

\* One step, and the six of LogWrite, and the seven of Panic.
LEMMA OneLeads ==
  ASSUME NEW x, NEW v, NEW w, Makes(x, v, w)
  PROVE  Leads(<<x>>, v, w)
<1> DEFINE g == [j \in 0 .. 1 |-> IF j = 0 THEN v ELSE w]
           steps == <<x>>
<1>1. Len(steps) = 1 /\ steps[1] = x
  OBVIOUS
<1>2. g \in [0 .. 1 -> View] /\ g[0] = v /\ g[1] = w
  BY DEF Makes
<1> HIDE DEF g, steps
<1>3. \A j \in 1 .. 1 : Makes(steps[j], g[j - 1], g[j])
  <2>1. \A j \in 1 .. 1 : j = 1 /\ j - 1 = 0
    OBVIOUS
  <2> QED BY <1>1, <1>2, <2>1
<1>4. Leads(steps, g[0], g[1])
  BY <1>1, <1>2, <1>3, MakesLead
<1> QED BY <1>2, <1>4 DEF steps

LEMMA SixLead ==
  ASSUME NEW a, NEW b, NEW c, NEW d, NEW e, NEW f,
         NEW t, NEW u, NEW v, NEW w, NEW x, NEW y, NEW z,
         Makes(a, t, u), Makes(b, u, v), Makes(c, v, w),
         Makes(d, w, x), Makes(e, x, y), Makes(f, y, z)
  PROVE  Leads(<<a, b, c, d, e, f>>, t, z)
<1> DEFINE g == [j \in 0 .. 6 |->
                   CASE j = 0 -> t [] j = 1 -> u [] j = 2 -> v [] j = 3 -> w
                     [] j = 4 -> x [] j = 5 -> y [] OTHER -> z]
           steps == <<a, b, c, d, e, f>>
<1>1. /\ Len(steps) = 6 /\ steps[1] = a /\ steps[2] = b /\ steps[3] = c
      /\ steps[4] = d /\ steps[5] = e /\ steps[6] = f
  OBVIOUS
<1>2. /\ g[0] = t /\ g[1] = u /\ g[2] = v /\ g[3] = w /\ g[4] = x /\ g[5] = y /\ g[6] = z
      /\ g = [j \in 0 .. 6 |-> g[j]]
  OBVIOUS
<1> HIDE DEF g, steps
<1>3. {t, u, v, w, x, y, z} \subseteq View
  BY DEF Makes
<1>4. \A j \in 0 .. 6 : j = 0 \/ j = 1 \/ j = 2 \/ j = 3 \/ j = 4 \/ j = 5 \/ j = 6
  OBVIOUS
<1>5. \A j \in 0 .. 6 : g[j] \in View
  BY <1>2, <1>3, <1>4
<1>6. g \in [0 .. 6 -> View]
  BY <1>2, <1>5
<1>7. \A j \in 1 .. 6 : Makes(steps[j], g[j - 1], g[j])
  <2>1. \A j \in 1 .. 6 :
          \/ (j = 1 /\ j - 1 = 0)
          \/ (j = 2 /\ j - 1 = 1)
          \/ (j = 3 /\ j - 1 = 2)
          \/ (j = 4 /\ j - 1 = 3)
          \/ (j = 5 /\ j - 1 = 4)
          \/ (j = 6 /\ j - 1 = 5)
    OBVIOUS
  <2> QED BY <1>1, <1>2, <2>1
<1>8. Leads(steps, g[0], g[6])
  BY <1>1, <1>6, <1>7, MakesLead
<1> QED BY <1>2, <1>8 DEF steps

LEMMA SevenLead ==
  ASSUME NEW a, NEW b, NEW c, NEW d, NEW e, NEW f, NEW h,
         NEW t, NEW u, NEW v, NEW w, NEW x, NEW y, NEW z, NEW s,
         Makes(a, t, u), Makes(b, u, v), Makes(c, v, w),
         Makes(d, w, x), Makes(e, x, y), Makes(f, y, z), Makes(h, z, s)
  PROVE  Leads(<<a, b, c, d, e, f, h>>, t, s)
<1> DEFINE g == [j \in 0 .. 7 |->
                   CASE j = 0 -> t [] j = 1 -> u [] j = 2 -> v [] j = 3 -> w
                     [] j = 4 -> x [] j = 5 -> y [] j = 6 -> z [] OTHER -> s]
           steps == <<a, b, c, d, e, f, h>>
<1>1. /\ Len(steps) = 7 /\ steps[1] = a /\ steps[2] = b /\ steps[3] = c
      /\ steps[4] = d /\ steps[5] = e /\ steps[6] = f /\ steps[7] = h
  OBVIOUS
<1>2. /\ g[0] = t /\ g[1] = u /\ g[2] = v /\ g[3] = w
      /\ g[4] = x /\ g[5] = y /\ g[6] = z /\ g[7] = s
      /\ g = [j \in 0 .. 7 |-> g[j]]
  OBVIOUS
<1> HIDE DEF g, steps
<1>3. {t, u, v, w, x, y, z, s} \subseteq View
  BY DEF Makes
<1>4. \A j \in 0 .. 7 : \/ j = 0 \/ j = 1 \/ j = 2 \/ j = 3 \/ j = 4
                        \/ j = 5 \/ j = 6 \/ j = 7
  OBVIOUS
<1>5. \A j \in 0 .. 7 : g[j] \in View
  BY <1>2, <1>3, <1>4
<1>6. g \in [0 .. 7 -> View]
  BY <1>2, <1>5
<1>7. \A j \in 1 .. 7 : Makes(steps[j], g[j - 1], g[j])
  <2>1. \A j \in 1 .. 7 :
          \/ (j = 1 /\ j - 1 = 0)
          \/ (j = 2 /\ j - 1 = 1)
          \/ (j = 3 /\ j - 1 = 2)
          \/ (j = 4 /\ j - 1 = 3)
          \/ (j = 5 /\ j - 1 = 4)
          \/ (j = 6 /\ j - 1 = 5)
          \/ (j = 7 /\ j - 1 = 6)
    OBVIOUS
  <2> QED BY <1>1, <1>2, <2>1
<1>8. Leads(steps, g[0], g[7])
  BY <1>1, <1>6, <1>7, MakesLead
<1> QED BY <1>2, <1>8 DEF steps

\* Characters in their colours.
LEMMA CellsAre ==
  ASSUME NEW text \in Seq(Ascii), NEW f \in Hues, NEW b \in Hues
  PROVE  /\ Cells(text, f, b) \in Seq(Cell) /\ Len(Cells(text, f, b)) = Len(text)
         /\ \A j \in 1 .. Len(text) : Cells(text, f, b)[j] = <<text[j], f, b>>
<1>1. Len(text) \in Nat /\ DOMAIN text = 1 .. Len(text)
  BY LenProperties
<1>2. \A j \in 1 .. Len(text) : <<text[j], f, b>> \in Cell
  BY ElementOfSeq DEF Cell
<1>3. Cells(text, f, b) = [j \in 1 .. Len(text) |-> <<text[j], f, b>>]
  BY <1>1 DEF Cells
<1> DEFINE c == [j \in 1 .. Len(text) |-> <<text[j], f, b>>]
<1>4. c \in Seq(Cell)
  BY <1>1, <1>2, IsASeq
<1>5. DOMAIN c = 1 .. Len(text) /\ \A j \in 1 .. Len(text) : c[j] = <<text[j], f, b>>
  OBVIOUS
<1> HIDE DEF c
<1>6. Len(c) = Len(text)
  BY <1>1, <1>4, <1>5, LenProperties
<1> QED BY <1>3, <1>4, <1>5, <1>6 DEF c

LEMMA CellsOfBoth ==
  ASSUME NEW s, NEW t, s \in Seq(Ascii), t \in Seq(Ascii), NEW f \in Hues, NEW b \in Hues
  PROVE  Cells(s \o t, f, b) = Cells(s, f, b) \o Cells(t, f, b)
<1> DEFINE c == Cells(s \o t, f, b)
           d == Cells(s, f, b)
           e == Cells(t, f, b)
           h == d \o e
<1>1. /\ s \o t \in Seq(Ascii) /\ Len(s \o t) = Len(s) + Len(t)
      /\ Len(s) \in Nat /\ Len(t) \in Nat
      /\ \A j \in 1 .. Len(s) + Len(t) : (s \o t)[j] = IF j <= Len(s) THEN s[j] ELSE t[j - Len(s)]
  BY ConcatProperties, LenProperties
<1>2. /\ c \in Seq(Cell) /\ Len(c) = Len(s) + Len(t)
      /\ \A j \in 1 .. Len(s) + Len(t) : c[j] = <<(s \o t)[j], f, b>>
  <2> DEFINE z == s \o t
  <2>1. z \in Seq(Ascii) /\ Len(z) = Len(s) + Len(t)
    BY <1>1
  <2> HIDE DEF z
  <2>2. /\ Cells(z, f, b) \in Seq(Cell) /\ Len(Cells(z, f, b)) = Len(z)
        /\ \A j \in 1 .. Len(z) : Cells(z, f, b)[j] = <<z[j], f, b>>
    BY <2>1, CellsAre
  <2> QED BY <2>1, <2>2 DEF z
<1>3. /\ d \in Seq(Cell) /\ Len(d) = Len(s) /\ \A j \in 1 .. Len(s) : d[j] = <<s[j], f, b>>
      /\ e \in Seq(Cell) /\ Len(e) = Len(t) /\ \A j \in 1 .. Len(t) : e[j] = <<t[j], f, b>>
  BY CellsAre
<1> HIDE DEF c, d, e
<1>4. /\ h \in Seq(Cell) /\ Len(h) = Len(s) + Len(t)
      /\ \A j \in 1 .. Len(s) + Len(t) : h[j] = IF j <= Len(s) THEN d[j] ELSE e[j - Len(s)]
  <2>1. d \in Seq(Cell) /\ e \in Seq(Cell)
    BY <1>3
  <2>2. /\ h \in Seq(Cell) /\ Len(h) = Len(d) + Len(e)
        /\ \A j \in 1 .. Len(d) + Len(e) : h[j] = IF j <= Len(d) THEN d[j] ELSE e[j - Len(d)]
    BY <2>1, ConcatProperties
  <2> QED BY <1>3, <2>2
<1> HIDE DEF h
<1>5. \A j \in 1 .. Len(s) + Len(t) : c[j] = h[j]
  <2> TAKE j \in 1 .. Len(s) + Len(t)
  <2>1. CASE j <= Len(s)
    <3>1. j \in 1 .. Len(s)
      BY <2>1, <1>1
    <3> QED BY <2>1, <3>1, <1>1, <1>2, <1>3, <1>4
  <2>2. CASE ~(j <= Len(s))
    <3>1. j - Len(s) \in 1 .. Len(t)
      BY <2>2, <1>1
    <3> QED BY <2>2, <3>1, <1>1, <1>2, <1>3, <1>4
  <2> QED BY <2>1, <2>2
<1>6. c = h
  BY <1>2, <1>4, <1>5, SeqEqual
<1> QED BY <1>6 DEF c, d, e, h

LEMMA CellsOfFront ==
  ASSUME NEW text \in Seq(Ascii), NEW f \in Hues, NEW b \in Hues, NEW n \in 0 .. Len(text)
  PROVE  /\ SubSeq(text, 1, n) \in Seq(Ascii) /\ SubSeq(text, n + 1, Len(text)) \in Seq(Ascii)
         /\ Cells(text, f, b) = Cells(SubSeq(text, 1, n), f, b)
                                  \o Cells(SubSeq(text, n + 1, Len(text)), f, b)
<1>1. Len(text) \in Nat
  BY LenProperties
<1>2. \A j \in 1 .. Len(text) : text[j] \in Ascii
  BY ElementOfSeq
<1>3. SubSeq(text, 1, n) \in Seq(Ascii)
  <2>1. \A j \in 1 .. n : text[j] \in Ascii
    BY <1>1, <1>2
  <2>2. n \in Int /\ 1 \in Int
    BY <1>1
  <2> QED BY <2>1, <2>2, SubSeqProperties
<1>4. SubSeq(text, n + 1, Len(text)) \in Seq(Ascii)
  <2>1. \A j \in (n + 1) .. Len(text) : text[j] \in Ascii
    BY <1>1, <1>2
  <2>2. n + 1 \in Int /\ Len(text) \in Int
    BY <1>1
  <2> QED BY <2>1, <2>2, SubSeqProperties
<1>5. SubSeq(text, 1, n) \o SubSeq(text, n + 1, Len(text)) = text
  <2>1. 1 \in 1 .. (Len(text) + 1) /\ n \in (1 - 1) .. Len(text) /\ Len(text) \in n .. Len(text)
    BY <1>1
  <2>2. SubSeq(text, 1, n) \o SubSeq(text, n + 1, Len(text)) = SubSeq(text, 1, Len(text))
    BY <2>1, ConcatAdjacentSubSeq
  <2> QED BY <2>2, SubSeqFull
<1> DEFINE s == SubSeq(text, 1, n)
           t == SubSeq(text, n + 1, Len(text))
<1>6. s \in Seq(Ascii) /\ t \in Seq(Ascii) /\ s \o t = text
  BY <1>3, <1>4, <1>5
<1> HIDE DEF s, t
<1>7. Cells(s \o t, f, b) = Cells(s, f, b) \o Cells(t, f, b)
  <2>1. \A x \in Seq(Ascii), y \in Seq(Ascii) : Cells(Joint(x, y), f, b) = Joint(Cells(x, f, b), Cells(y, f, b))
    <3> TAKE x \in Seq(Ascii), y \in Seq(Ascii)
    <3> QED BY CellsOfBoth DEF Joint
  <2>2. Cells(Joint(s, t), f, b) = Joint(Cells(s, f, b), Cells(t, f, b))
    BY <1>6, <2>1
  <2> QED BY <2>2 DEF Joint
<1>8. Cells(text, f, b) = Cells(s, f, b) \o Cells(t, f, b)
  BY <1>6, <1>7
<1> QED BY <1>6, <1>8 DEF s, t

-----------------------------------------------------------------------------
(* What each step makes of the screen. *)

Seen(f, b, s, r) == [fg |-> f, bg |-> b, screen |-> s, front |-> r]

LEMMA SeenIsView ==
  ASSUME NEW f \in Hues, NEW b \in Hues, NEW s \in Seq(Cell), NEW r \in Seq(Cell)
  PROVE  Seen(f, b, s, r) \in View
BY DEF Seen, View

LEMMA ViewIsSeen == \A v \in View : v = Seen(v.fg, v.bg, v.screen, v.front)
BY DEF Seen, View

LEMMA FgMakes ==
  ASSUME NEW f \in Hues, NEW b \in Hues, NEW s \in Seq(Cell), NEW r \in Seq(Cell), NEW h \in Hues
  PROVE  Makes(Fg(h), Seen(f, b, s, r), Seen(h, b, s, r))
<1>1. Seen(f, b, s, r) \in View /\ Seen(h, b, s, r) \in View /\ Continues(s, s)
  BY SeenIsView, ContinuesItself
<1>2. After(Seen(f, b, s, r), Fg(h)) = Seen(h, b, s, r)
  BY DEF After, Fg, Seen
<1>3. Seen(f, b, s, r).screen = s /\ Seen(h, b, s, r).screen = s
  BY DEF Seen
<1> QED BY <1>1, <1>2, <1>3 DEF Makes

LEMMA BgMakes ==
  ASSUME NEW f \in Hues, NEW b \in Hues, NEW s \in Seq(Cell), NEW r \in Seq(Cell), NEW h \in Hues
  PROVE  Makes(Bg(h), Seen(f, b, s, r), Seen(f, h, s, r))
<1>1. Seen(f, b, s, r) \in View /\ Seen(f, h, s, r) \in View /\ Continues(s, s)
  BY SeenIsView, ContinuesItself
<1>2. After(Seen(f, b, s, r), Bg(h)) = Seen(f, h, s, r)
  BY DEF After, Bg, Seen
<1>3. Seen(f, b, s, r).screen = s /\ Seen(f, h, s, r).screen = s
  BY DEF Seen
<1> QED BY <1>1, <1>2, <1>3 DEF Makes

LEMMA UpdateMakes ==
  ASSUME NEW f \in Hues, NEW b \in Hues, NEW s \in Seq(Cell), NEW r \in Seq(Cell)
  PROVE  Makes(Do("update"), Seen(f, b, s, r), Seen(f, b, s, s))
<1>1. Seen(f, b, s, r) \in View /\ Seen(f, b, s, s) \in View /\ Continues(s, s)
  BY SeenIsView, ContinuesItself
<1>2. After(Seen(f, b, s, r), Do("update")) = Seen(f, b, s, s)
  BY DEF After, Do, Seen
<1>3. Seen(f, b, s, r).screen = s /\ Seen(f, b, s, s).screen = s
  BY DEF Seen
<1> QED BY <1>1, <1>2, <1>3 DEF Makes

\* Steps that have nothing to do with the screen.
LEMMA OthersMake ==
  ASSUME NEW v \in View, NEW x, x.op \notin {"fg", "bg", "update"},
         x.op = "print" => x.to # "screen"
  PROVE  Makes(x, v, v)
<1>1. v = Seen(v.fg, v.bg, v.screen, v.front) /\ v.screen \in Seq(Cell)
  BY ViewIsSeen DEF View
<1>2. After(v, x) = Seen(v.fg, v.bg, v.screen, v.front)
  BY DEF After, Seen
<1>3. Continues(v.screen, v.screen)
  BY <1>1, ContinuesItself
<1> QED BY <1>1, <1>2, <1>3 DEF Makes

LEMMA PrintMakes ==
  ASSUME NEW f \in Hues, NEW b \in Hues, NEW s \in Seq(Cell), NEW r \in Seq(Cell),
         NEW t, TextOf(t) \in Seq(Ascii)
  PROVE  Makes(PrintText("screen", t), Seen(f, b, s, r), Seen(f, b, s \o Cells(TextOf(t), f, b), r))
<1> DEFINE x == PrintText("screen", t)
           c == Cells(TextOf(t), f, b)
           z == s \o c
<1>1. x.op = "print" /\ x.to = "screen" /\ TextOf(x) = TextOf(t)
  BY DEF PrintText, PrintStep, TextOf
<1>2. c \in Seq(Cell)
  BY CellsAre
<1> HIDE DEF x
<1>3. After(Seen(f, b, s, r), x) = Seen(f, b, z, r)
  BY <1>1 DEF After, Seen
<1> HIDE DEF c
<1>4. z \in Seq(Cell) /\ Continues(s, z)
  BY <1>2, ConcatProperties DEF Continues
<1> HIDE DEF z
<1>5. Seen(f, b, s, r) \in View /\ Seen(f, b, z, r) \in View
  BY <1>4, SeenIsView
<1>6. Seen(f, b, s, r).screen = s /\ Seen(f, b, z, r).screen = z
  BY DEF Seen
<1>7. Makes(x, Seen(f, b, s, r), Seen(f, b, z, r))
  BY <1>3, <1>4, <1>5, <1>6 DEF Makes
<1> QED BY <1>7 DEF x, z, c

\* A text's message and what is printed of it.
Readable(t) == TextOf(t) \in Seq(Ascii)

LEMMA Said ==
  ASSUME NEW t, PrintText("screen", t) \in Messages
  PROVE  Readable(t)
<1> DEFINE x == PrintText("screen", t)
           m == [loop |-> Begun(x), text |-> TextOf(x)]
<1>1. TextOf(x) = TextOf(t) /\ m.text = TextOf(x)
  BY DEF PrintText, PrintStep, TextOf
<1>2. m \in Rendering
  BY RenderingIs
<1> HIDE DEF m, x
<1>3. m.text \in Seq(Ascii)
  BY <1>2, RenderingIs
<1> QED BY <1>1, <1>3 DEF Readable

Literals == {<<"[", " ">>, <<" ", "]", " ">>, PanicPrefix}

LEMMA LiteralTexts == \A text \in Literals : TextOf(Literal(text)) = text
<1>1. ASSUME NEW text \in Literals PROVE \E S : text \in Seq(S)
  <2>1. \A a, b, c, d, e, f, g, h, i, j :
          /\ <<a, b>> \in Seq({a, b}) /\ <<a, b, c>> \in Seq({a, b, c})
          /\ <<a, b, c, d, e, f, g, h, i, j>> \in Seq({a, b, c, d, e, f, g, h, i, j})
    OBVIOUS
  <2>2. text = <<"[", " ">> \/ text = <<" ", "]", " ">> \/ text = PanicPrefix
    BY DEF Literals
  <2>3. CASE text = <<"[", " ">>
    BY <2>1, <2>3, Zenon
  <2>5. CASE text = <<" ", "]", " ">>
    BY <2>1, <2>5, Zenon
  <2>4. CASE text = PanicPrefix
    BY <2>1, <2>4, Zenon DEF PanicPrefix
  <2> QED BY <2>2, <2>3, <2>4, <2>5
<1> QED BY <1>1, LiteralIsPrinted

Status == {"Good", "Info", "Bad"}
StatusText(s) == [items |-> <<StringDirective>>, args |-> <<CString(StatusMsg[s])>>]

LEMMA StatusTexts == \A s \in Status : TextOf(StatusText(s)) = StatusMsg[s] /\ Colors[s] \in Hues
<1>1. ASSUME NEW s \in Status PROVE Colors[s] \in Hues /\ \E S : StatusMsg[s] \in Seq(S)
  <2>1. \A a, b, c, d, m : m = <<a, b, c, d>> => m \in Seq({a, b, c, d})
    OBVIOUS
  <2>2. Colors[s] \in Hues /\ \E a, b, c, d : StatusMsg[s] = <<a, b, c, d>>
    <3>1. s = "Good" \/ s = "Info" \/ s = "Bad"
      BY DEF Status
    <3>2. Colors[s] \in Hues
      BY <3>1 DEF Colors, Hues
    <3>3. /\ StatusMsg["Good"] = <<"G", "O", "O", "D">> /\ StatusMsg["Info"] = <<"I", "N", "F", "O">>
          /\ StatusMsg["Bad"] = <<"B", "A", "D", " ">>
      BY DEF StatusMsg
    <3> QED BY <3>1, <3>2, <3>3
  <2>3. PICK a, b, c, d : StatusMsg[s] = <<a, b, c, d>>
    BY <2>2
  <2>4. StatusMsg[s] \in Seq({a, b, c, d})
    BY <2>1, <2>3
  <2> QED BY <2>2, <2>4
<1> QED BY <1>1, StringIsPrinted DEF StatusText

\* The messages of a program.
Says(steps, t) ==
  /\ PrintText("screen", t) \in ToSet(steps)
  /\ ToSet(steps) \subseteq ToSet(KeStart) \cup ToSet(OtherLogs) \cup ToSet(Panic(Texts["panic"]))

LEMMA SaysReadable ==
  ASSUME NEW steps, NEW t, Says(steps, t)
  PROVE  Readable(t)
<1>1. PrintText("screen", t).op = "print"
  BY DEF PrintText, PrintStep
<1> QED BY <1>1, Said DEF Says, Messages

\* A log's line.
LEMMA LogLeads ==
  ASSUME NEW status \in Status, NEW t, NEW s \in Seq(Cell), NEW r \in Seq(Cell),
         ToSet(LogWrite(status, t)) \subseteq ToSet(KeStart) \cup ToSet(OtherLogs)
  PROVE  /\ Leads(LogWrite(status, t), Seen(White, Black, s, r),
                  Seen(White, Black, s \o LogShows(status, t), r))
         /\ LogShows(status, t) \in Seq(Cell)
<1> DEFINE open == <<"[", " ">>
           close == <<" ", "]", " ">>
           hue == Colors[status]
           name == StatusMsg[status]
           text == TextOf(t)
           A == Cells(open, White, Black)
           B == Cells(name, hue, Black)
           C == Cells(close, White, Black)
           D == Cells(text, White, Black)
           log == LogWrite(status, t)
<1>1. log = <<PrintText("screen", Literal(open)), Fg(hue), PrintText("screen", StatusText(status)),
              Fg(White), PrintText("screen", Literal(close)), PrintText("screen", t)>>
  BY DEF LogWrite, StatusText
<1>2. Says(log, Literal(open)) /\ Says(log, StatusText(status)) /\ Says(log, Literal(close)) /\ Says(log, t)
  <2>1. \A a, b, c, d, e, f : {a, b, c, d, e, f} \subseteq ToSet(<<a, b, c, d, e, f>>)
    <3> TAKE a, b, c, d, e, f
    <3> DEFINE q == <<a, b, c, d, e, f>>
    <3>1. DOMAIN q = 1 .. 6 /\ q[1] = a /\ q[2] = b /\ q[3] = c /\ q[4] = d /\ q[5] = e /\ q[6] = f
      OBVIOUS
    <3> HIDE DEF q
    <3>2. {a, b, c, d, e, f} \subseteq ToSet(q)
      BY <3>1 DEF ToSet
    <3> QED BY <3>2 DEF q
  <2> HIDE DEF open, close, hue, log
  <2>2. {PrintText("screen", Literal(open)), PrintText("screen", StatusText(status)),
         PrintText("screen", Literal(close)), PrintText("screen", t)} \subseteq ToSet(log)
    BY <1>1, <2>1
  <2> QED BY <2>2 DEF Says, log
<1>3. open \in Literals /\ close \in Literals /\ White \in Hues /\ Black \in Hues /\ hue \in Hues
  BY StatusTexts DEF Literals, Hues
<1>4. TextOf(Literal(open)) = open /\ TextOf(Literal(close)) = close /\ TextOf(StatusText(status)) = name
  BY <1>3, LiteralTexts, StatusTexts
<1> HIDE DEF open, close, hue, name, log
<1>5. open \in Seq(Ascii) /\ close \in Seq(Ascii) /\ name \in Seq(Ascii) /\ text \in Seq(Ascii)
  BY <1>2, <1>4, SaysReadable DEF Readable
<1> HIDE DEF text
<1>6. A \in Seq(Cell) /\ B \in Seq(Cell) /\ C \in Seq(Cell) /\ D \in Seq(Cell)
  BY <1>3, <1>5, CellsAre
<1>7. Cells(close \o text, White, Black) = C \o D
  <2>1. \A f \in Hues, b \in Hues :
          Cells(close \o text, f, b) = Cells(close, f, b) \o Cells(text, f, b)
    BY <1>5, CellsOfBoth
  <2> QED BY <1>3, <2>1
<1>8. LogShows(status, t) = A \o B \o (C \o D)
  BY <1>7 DEF LogShows, open, close, hue, name, text
<1>9. \A f \in Hues, b \in Hues, q \in Seq(Cell) :
        /\ Makes(PrintText("screen", Literal(open)), Seen(f, b, q, r), Seen(f, b, q \o Cells(open, f, b), r))
        /\ Makes(PrintText("screen", StatusText(status)), Seen(f, b, q, r), Seen(f, b, q \o Cells(name, f, b), r))
        /\ Makes(PrintText("screen", Literal(close)), Seen(f, b, q, r), Seen(f, b, q \o Cells(close, f, b), r))
        /\ Makes(PrintText("screen", t), Seen(f, b, q, r), Seen(f, b, q \o Cells(text, f, b), r))
        /\ \A h \in Hues : Makes(Fg(h), Seen(f, b, q, r), Seen(h, b, q, r))
  BY <1>4, <1>5, PrintMakes, FgMakes DEF text
<1> HIDE DEF A, B, C, D
<1>10. /\ s \o A \in Seq(Cell) /\ s \o A \o B \in Seq(Cell) /\ s \o A \o B \o C \in Seq(Cell)
       /\ s \o A \o B \o C \o D \in Seq(Cell) /\ A \o B \in Seq(Cell) /\ C \o D \in Seq(Cell)
  <2>1. s \o A \in Seq(Cell) /\ A \o B \in Seq(Cell) /\ C \o D \in Seq(Cell)
    BY <1>6, ConcatProperties
  <2>2. s \o A \o B \in Seq(Cell)
    BY <1>6, <2>1, ConcatProperties
  <2>3. s \o A \o B \o C \in Seq(Cell)
    BY <1>6, <2>2, ConcatProperties
  <2>4. s \o A \o B \o C \o D \in Seq(Cell)
    BY <1>6, <2>3, ConcatProperties
  <2> QED BY <2>1, <2>2, <2>3, <2>4
<1>11. Leads(log, Seen(White, Black, s, r), Seen(White, Black, s \o A \o B \o C \o D, r))
  <2>1. Makes(PrintText("screen", Literal(open)), Seen(White, Black, s, r), Seen(White, Black, s \o A, r))
    BY <1>3, <1>9 DEF A
  <2>2. Makes(Fg(hue), Seen(White, Black, s \o A, r), Seen(hue, Black, s \o A, r))
    BY <1>3, <1>9, <1>10
  <2>3. Makes(PrintText("screen", StatusText(status)), Seen(hue, Black, s \o A, r), Seen(hue, Black, s \o A \o B, r))
    BY <1>3, <1>9, <1>10 DEF B
  <2>4. Makes(Fg(White), Seen(hue, Black, s \o A \o B, r), Seen(White, Black, s \o A \o B, r))
    BY <1>3, <1>9, <1>10
  <2>5. Makes(PrintText("screen", Literal(close)), Seen(White, Black, s \o A \o B, r),
              Seen(White, Black, s \o A \o B \o C, r))
    BY <1>3, <1>9, <1>10 DEF C
  <2>6. Makes(PrintText("screen", t), Seen(White, Black, s \o A \o B \o C, r),
              Seen(White, Black, s \o A \o B \o C \o D, r))
    BY <1>3, <1>9, <1>10 DEF D
  <2> QED BY <1>1, <2>1, <2>2, <2>3, <2>4, <2>5, <2>6, SixLead
<1>12. s \o A \o B \o C \o D = s \o (A \o B \o (C \o D))
  <2>1. Joint(Joint(Joint(Joint(s, A), B), C), D) = Joint(s, Joint(Joint(A, B), Joint(C, D)))
    BY <1>6, FiveTogether
  <2> QED BY <2>1 DEF Joint
<1>13. (A \o B) \o (C \o D) \in Seq(Cell)
  BY <1>10, ConcatProperties
<1> QED BY <1>8, <1>11, <1>12, <1>13 DEF log

-----------------------------------------------------------------------------
(* What the programs and a panic make of the screen. *)

Own(s) == s \in Seq(ToSet(s))

LEMMA Joined ==
  \A s, t : Own(s) /\ Own(t) =>
    /\ Own(s \o t) /\ ToSet(s) \subseteq ToSet(s \o t) /\ ToSet(t) \subseteq ToSet(s \o t)
<1> TAKE s, t
<1> HAVE Own(s) /\ Own(t)
<1> DEFINE n == Len(s)
           m == Len(t)
           c == s \o t
<1>1. Own(c)
  BY JoinIsSeq DEF Own
<1>2. /\ n \in Nat /\ m \in Nat /\ Len(c) = n + m
      /\ \A j \in 1 .. (n + m) : c[j] = IF j <= n THEN s[j] ELSE t[j - n]
      /\ DOMAIN s = 1 .. n /\ DOMAIN t = 1 .. m /\ DOMAIN c = 1 .. (n + m)
  <2> DEFINE A == ToSet(s)
             B == ToSet(t)
  <2>1. s \in Seq(A) /\ t \in Seq(B)
    BY DEF Own
  <2> HIDE DEF A, B
  <2>2. s \in Seq(A \cup B) /\ t \in Seq(A \cup B)
    BY <2>1
  <2>3. c \in Seq(A \cup B) /\ Len(c) = n + m
    BY <2>2, ConcatProperties
  <2> HIDE DEF c
  <2>4. n \in Nat /\ m \in Nat /\ DOMAIN s = 1 .. n /\ DOMAIN t = 1 .. m /\ DOMAIN c = 1 .. Len(c)
    BY <2>2, <2>3, LenProperties
  <2>5. \A j \in 1 .. (n + m) : c[j] = IF j <= n THEN s[j] ELSE t[j - n]
    BY <2>2, ConcatProperties DEF c
  <2> QED BY <2>3, <2>4, <2>5
<1> HIDE DEF n, m, c
<1>3. ASSUME NEW x \in ToSet(s) PROVE x \in ToSet(c)
  <2>1. PICK j \in 1 .. n : x = s[j]
    BY <1>2 DEF ToSet
  <2>2. j \in 1 .. (n + m) /\ c[j] = x
    BY <2>1, <1>2
  <2> QED BY <2>2, <1>2 DEF ToSet
<1>4. ASSUME NEW x \in ToSet(t) PROVE x \in ToSet(c)
  <2>1. PICK j \in 1 .. m : x = t[j]
    BY <1>2 DEF ToSet
  <2>2. n + j \in 1 .. (n + m) /\ ~(n + j <= n) /\ (n + j) - n = j
    BY <2>1, <1>2
  <2>3. c[n + j] = x
    BY <2>1, <2>2, <1>2
  <2> QED BY <2>2, <2>3, <1>2 DEF ToSet
<1> QED BY <1>1, <1>3, <1>4 DEF c

LEMMA OwnParts ==
  /\ \A status, t : Own(LogWrite(status, t)) /\ Own(SeFSend(t))
  /\ \A x : Own(<<x>>)
BY LogIsSeq, OneIsSeq DEF Own, SeFSend

Blank == Seen(White, Black, <<>>, <<>>)

LEMMA BlankView == White \in Hues /\ Black \in Hues /\ <<>> \in Seq(Cell) /\ Blank \in View
<1>1. White \in Hues /\ Black \in Hues /\ <<>> \in Seq(Cell)
  BY EmptySeq DEF Hues
<1> QED BY <1>1, SeenIsView DEF Blank

\* A log's line behind what a program has done already.
LEMMA LogFollows ==
  ASSUME NEW p, Own(p), NEW s \in Seq(Cell), NEW status \in Status, NEW t,
         Leads(p, Blank, Seen(White, Black, s, <<>>)),
         ToSet(LogWrite(status, t)) \subseteq ToSet(KeStart) \cup ToSet(OtherLogs)
  PROVE  /\ LogShows(status, t) \in Seq(Cell) /\ s \o LogShows(status, t) \in Seq(Cell)
         /\ Leads(p \o LogWrite(status, t), Blank, Seen(White, Black, s \o LogShows(status, t), <<>>))
<1> DEFINE z == s \o LogShows(status, t)
<1>1. /\ Leads(LogWrite(status, t), Seen(White, Black, s, <<>>), Seen(White, Black, z, <<>>))
      /\ LogShows(status, t) \in Seq(Cell)
  BY LogLeads, BlankView
<1>2. z \in Seq(Cell)
  BY <1>1, ConcatProperties
<1> HIDE DEF z
<1>3. Seen(White, Black, s, <<>>) \in View /\ Seen(White, Black, z, <<>>) \in View /\ Blank \in View
  BY <1>2, SeenIsView, BlankView
<1>4. Own(LogWrite(status, t))
  BY OwnParts
<1>5. Leads(p \o LogWrite(status, t), Blank, Seen(White, Black, z, <<>>))
  BY <1>1, <1>3, <1>4, LeadsFurther DEF Own
<1> QED BY <1>1, <1>2, <1>5 DEF z

\* A step that has nothing to do with the screen, likewise.
LEMMA OtherFollows ==
  ASSUME NEW p, Own(p), NEW s \in Seq(Cell), NEW x, x.op \notin {"fg", "bg", "update"},
         x.op = "print" => x.to # "screen",
         Leads(p, Blank, Seen(White, Black, s, <<>>))
  PROVE  Leads(p \o <<x>>, Blank, Seen(White, Black, s, <<>>))
<1> DEFINE v == Seen(White, Black, s, <<>>)
<1>1. v \in View /\ Blank \in View
  BY SeenIsView, BlankView
<1>2. Leads(p, Blank, v)
  OBVIOUS
<1> HIDE DEF v
<1>3. Leads(<<x>>, v, v)
  BY <1>1, OthersMake, OneLeads
<1>4. Own(<<x>>)
  BY OwnParts
<1>5. Leads(p \o <<x>>, Blank, v)
  BY <1>1, <1>2, <1>3, <1>4, LeadsFurther DEF Own
<1> QED BY <1>5 DEF v

\* The last step shows it.
LEMMA UpdateFollows ==
  ASSUME NEW p, Own(p), NEW s \in Seq(Cell), Leads(p, Blank, Seen(White, Black, s, <<>>))
  PROVE  Leads(p \o <<Do("update")>>, Blank, Seen(White, Black, s, s))
<1>1. Makes(Do("update"), Seen(White, Black, s, <<>>), Seen(White, Black, s, s))
  BY UpdateMakes, BlankView
<1>2. Leads(<<Do("update")>>, Seen(White, Black, s, <<>>), Seen(White, Black, s, s))
  BY <1>1, OneLeads
<1>3. Seen(White, Black, s, <<>>) \in View /\ Seen(White, Black, s, s) \in View /\ Blank \in View
  BY SeenIsView, BlankView
<1>4. Own(<<Do("update")>>)
  BY OwnParts
<1> QED BY <1>2, <1>3, <1>4, LeadsFurther DEF Own

LEMMA SeFSendIs ==
  \A t : SeFSend(t) = <<PrintText("com1", t)>> /\ PrintText("com1", t).op = "print"
         /\ PrintText("com1", t).to = "com1"
BY DEF SeFSend, PrintText, PrintStep

LEMMA DoIs == \A op : Do(op).op = op
BY DEF Do

\* KeStart shows its seven lines.
LEMMA KeStartLeads ==
  \E s \in Seq(Cell) :
    /\ s = LogShows("Good", Texts["gdt"]) \o LogShows("Good", Texts["pmm"])
              \o LogShows("Good", Texts["idt"]) \o LogShows("Good", Texts["pic"])
              \o LogShows("Good", Texts["serial"]) \o LogShows("Good", Texts["vmm"])
              \o LogShows("Good", Texts["kb"])
    /\ Leads(KeStart, Blank, Seen(White, Black, s, s))
<1> DEFINE p1 == SeFSend(Texts["memory"])
           p2 == p1 \o LogWrite("Good", Texts["gdt"])
           p3 == p2 \o LogWrite("Good", Texts["pmm"])
           p4 == p3 \o <<Do("idt")>>
           p5 == p4 \o LogWrite("Good", Texts["idt"])
           p6 == p5 \o LogWrite("Good", Texts["pic"])
           p7 == p6 \o <<Do("serial")>>
           p8 == p7 \o LogWrite("Good", Texts["serial"])
           p9 == p8 \o LogWrite("Good", Texts["vmm"])
           p10 == p9 \o LogWrite("Good", Texts["kb"])
           p11 == p10 \o SeFSend(Texts["size"])
           p12 == p11 \o <<Do("update")>>
<1>1. /\ Own(p1)
      /\ Own(p2)
      /\ Own(p3)
      /\ Own(p4)
      /\ Own(p5)
      /\ Own(p6)
      /\ Own(p7)
      /\ Own(p8)
      /\ Own(p9)
      /\ Own(p10)
      /\ Own(p11)
      /\ Own(p12)
  <2>1. Own(p1)
    BY OwnParts
  <2> HIDE DEF p1
  <2>2. Own(p2)
    BY <2>1, OwnParts, Joined
  <2> HIDE DEF p2
  <2>3. Own(p3)
    BY <2>2, OwnParts, Joined
  <2> HIDE DEF p3
  <2>4. Own(p4)
    BY <2>3, OwnParts, Joined
  <2> HIDE DEF p4
  <2>5. Own(p5)
    BY <2>4, OwnParts, Joined
  <2> HIDE DEF p5
  <2>6. Own(p6)
    BY <2>5, OwnParts, Joined
  <2> HIDE DEF p6
  <2>7. Own(p7)
    BY <2>6, OwnParts, Joined
  <2> HIDE DEF p7
  <2>8. Own(p8)
    BY <2>7, OwnParts, Joined
  <2> HIDE DEF p8
  <2>9. Own(p9)
    BY <2>8, OwnParts, Joined
  <2> HIDE DEF p9
  <2>10. Own(p10)
    BY <2>9, OwnParts, Joined
  <2> HIDE DEF p10
  <2>11. Own(p11)
    BY <2>10, OwnParts, Joined
  <2> HIDE DEF p11
  <2>12. Own(p12)
    BY <2>11, OwnParts, Joined
  <2> HIDE DEF p12
  <2> QED BY <2>1, <2>2, <2>3, <2>4, <2>5, <2>6, <2>7, <2>8, <2>9, <2>10, <2>11, <2>12
<1>2. p12 = KeStart
  BY DEF KeStart
<1>3. /\ ToSet(LogWrite("Good", Texts["gdt"])) \subseteq ToSet(p12)
      /\ ToSet(LogWrite("Good", Texts["pmm"])) \subseteq ToSet(p12)
      /\ ToSet(LogWrite("Good", Texts["idt"])) \subseteq ToSet(p12)
      /\ ToSet(LogWrite("Good", Texts["pic"])) \subseteq ToSet(p12)
      /\ ToSet(LogWrite("Good", Texts["serial"])) \subseteq ToSet(p12)
      /\ ToSet(LogWrite("Good", Texts["vmm"])) \subseteq ToSet(p12)
      /\ ToSet(LogWrite("Good", Texts["kb"])) \subseteq ToSet(p12)
  <2> HIDE DEF p1, p2, p3, p4, p5, p6, p7, p8, p9, p10, p11, p12
  <2>2. ToSet(p1) \subseteq ToSet(p2) /\ ToSet(LogWrite("Good", Texts["gdt"])) \subseteq ToSet(p2)
    BY <1>1, OwnParts, Joined DEF p2
  <2>3. ToSet(p2) \subseteq ToSet(p3) /\ ToSet(LogWrite("Good", Texts["pmm"])) \subseteq ToSet(p3)
    BY <1>1, OwnParts, Joined DEF p3
  <2>4. ToSet(p3) \subseteq ToSet(p4) /\ ToSet(<<Do("idt")>>) \subseteq ToSet(p4)
    BY <1>1, OwnParts, Joined DEF p4
  <2>5. ToSet(p4) \subseteq ToSet(p5) /\ ToSet(LogWrite("Good", Texts["idt"])) \subseteq ToSet(p5)
    BY <1>1, OwnParts, Joined DEF p5
  <2>6. ToSet(p5) \subseteq ToSet(p6) /\ ToSet(LogWrite("Good", Texts["pic"])) \subseteq ToSet(p6)
    BY <1>1, OwnParts, Joined DEF p6
  <2>7. ToSet(p6) \subseteq ToSet(p7) /\ ToSet(<<Do("serial")>>) \subseteq ToSet(p7)
    BY <1>1, OwnParts, Joined DEF p7
  <2>8. ToSet(p7) \subseteq ToSet(p8) /\ ToSet(LogWrite("Good", Texts["serial"])) \subseteq ToSet(p8)
    BY <1>1, OwnParts, Joined DEF p8
  <2>9. ToSet(p8) \subseteq ToSet(p9) /\ ToSet(LogWrite("Good", Texts["vmm"])) \subseteq ToSet(p9)
    BY <1>1, OwnParts, Joined DEF p9
  <2>10. ToSet(p9) \subseteq ToSet(p10) /\ ToSet(LogWrite("Good", Texts["kb"])) \subseteq ToSet(p10)
    BY <1>1, OwnParts, Joined DEF p10
  <2>11. ToSet(p10) \subseteq ToSet(p11) /\ ToSet(SeFSend(Texts["size"])) \subseteq ToSet(p11)
    BY <1>1, OwnParts, Joined DEF p11
  <2>12. ToSet(p11) \subseteq ToSet(p12) /\ ToSet(<<Do("update")>>) \subseteq ToSet(p12)
    BY <1>1, OwnParts, Joined DEF p12
  <2> QED BY <2>2, <2>3, <2>4, <2>5, <2>6, <2>7, <2>8, <2>9, <2>10, <2>11, <2>12
<1>4. /\ ToSet(LogWrite("Good", Texts["gdt"])) \subseteq ToSet(KeStart) \cup ToSet(OtherLogs)
      /\ ToSet(LogWrite("Good", Texts["pmm"])) \subseteq ToSet(KeStart) \cup ToSet(OtherLogs)
      /\ ToSet(LogWrite("Good", Texts["idt"])) \subseteq ToSet(KeStart) \cup ToSet(OtherLogs)
      /\ ToSet(LogWrite("Good", Texts["pic"])) \subseteq ToSet(KeStart) \cup ToSet(OtherLogs)
      /\ ToSet(LogWrite("Good", Texts["serial"])) \subseteq ToSet(KeStart) \cup ToSet(OtherLogs)
      /\ ToSet(LogWrite("Good", Texts["vmm"])) \subseteq ToSet(KeStart) \cup ToSet(OtherLogs)
      /\ ToSet(LogWrite("Good", Texts["kb"])) \subseteq ToSet(KeStart) \cup ToSet(OtherLogs)
  <2> HIDE DEF p12
  <2> QED BY <1>2, <1>3
<1> DEFINE s0 == <<>>
           s1 == LogShows("Good", Texts["gdt"])
           s2 == s1 \o LogShows("Good", Texts["pmm"])
           s3 == s2 \o LogShows("Good", Texts["idt"])
           s4 == s3 \o LogShows("Good", Texts["pic"])
           s5 == s4 \o LogShows("Good", Texts["serial"])
           s6 == s5 \o LogShows("Good", Texts["vmm"])
           s7 == s6 \o LogShows("Good", Texts["kb"])
<1> HIDE DEF p1, p2, p3, p4, p5, p6, p7, p8, p9, p10, p11, p12
<1>5. /\ "Good" \in Status /\ "Info" \in Status /\ "Bad" \in Status
      /\ \A a \in Seq(Cell) : <<>> \o a = a
  BY ConcatEmptySeq DEF Status
<1>6. Leads(p1, Blank, Seen(White, Black, <<>>, <<>>))
  <2>1. Leads(<<PrintText("com1", Texts["memory"])>>, Blank, Blank)
    BY SeFSendIs, BlankView, OthersMake, OneLeads
  <2> QED BY <2>1, SeFSendIs DEF p1, Blank
<1>7. s1 \in Seq(Cell) /\ Leads(p2, Blank, Seen(White, Black, s1, <<>>))
  <2>1. /\ s1 \in Seq(Cell)
        /\ Leads(p2, Blank, Seen(White, Black, <<>> \o s1, <<>>))
    BY <1>1, <1>4, <1>5, <1>6, BlankView, LogFollows DEF p2
  <2> HIDE DEF s1
  <2> QED BY <2>1, <1>5
<1> HIDE DEF s1
<1>8. s2 \in Seq(Cell) /\ Leads(p3, Blank, Seen(White, Black, s2, <<>>))
  BY <1>1, <1>4, <1>5, <1>7, LogFollows DEF p3
<1> HIDE DEF s2
<1>9. Leads(p4, Blank, Seen(White, Black, s2, <<>>))
  BY <1>1, <1>8, <1>8, SeFSendIs, DoIs, OtherFollows DEF p4
<1>10. s3 \in Seq(Cell) /\ Leads(p5, Blank, Seen(White, Black, s3, <<>>))
  BY <1>1, <1>4, <1>5, <1>8, <1>9, LogFollows DEF p5
<1> HIDE DEF s3
<1>11. s4 \in Seq(Cell) /\ Leads(p6, Blank, Seen(White, Black, s4, <<>>))
  BY <1>1, <1>4, <1>5, <1>10, LogFollows DEF p6
<1> HIDE DEF s4
<1>12. Leads(p7, Blank, Seen(White, Black, s4, <<>>))
  BY <1>1, <1>11, <1>11, SeFSendIs, DoIs, OtherFollows DEF p7
<1>13. s5 \in Seq(Cell) /\ Leads(p8, Blank, Seen(White, Black, s5, <<>>))
  BY <1>1, <1>4, <1>5, <1>11, <1>12, LogFollows DEF p8
<1> HIDE DEF s5
<1>14. s6 \in Seq(Cell) /\ Leads(p9, Blank, Seen(White, Black, s6, <<>>))
  BY <1>1, <1>4, <1>5, <1>13, LogFollows DEF p9
<1> HIDE DEF s6
<1>15. s7 \in Seq(Cell) /\ Leads(p10, Blank, Seen(White, Black, s7, <<>>))
  BY <1>1, <1>4, <1>5, <1>14, LogFollows DEF p10
<1> HIDE DEF s7
<1>16. Leads(p11, Blank, Seen(White, Black, s7, <<>>))
  BY <1>1, <1>15, <1>15, SeFSendIs, DoIs, OtherFollows DEF p11
<1>17. Leads(p12, Blank, Seen(White, Black, s7, s7))
  BY <1>1, <1>16, <1>15, UpdateFollows DEF p12
<1> QED BY <1>2, <1>15, <1>17 DEF s1, s2, s3, s4, s5, s6, s7

\* The two other logs show theirs.
LEMMA OtherLogsLead ==
  \E s \in Seq(Cell) :
    /\ s = LogShows("Info", Texts["info"]) \o LogShows("Bad", Texts["bad"])
    /\ Leads(OtherLogs, Blank, Seen(White, Black, s, s))
<1> DEFINE p1 == LogWrite("Info", Texts["info"])
           p2 == p1 \o LogWrite("Bad", Texts["bad"])
           p3 == p2 \o <<Do("update")>>
<1>1. /\ Own(p1)
      /\ Own(p2)
      /\ Own(p3)
  <2>1. Own(p1)
    BY OwnParts
  <2> HIDE DEF p1
  <2>2. Own(p2)
    BY <2>1, OwnParts, Joined
  <2> HIDE DEF p2
  <2>3. Own(p3)
    BY <2>2, OwnParts, Joined
  <2> HIDE DEF p3
  <2> QED BY <2>1, <2>2, <2>3
<1>2. p3 = OtherLogs
  BY DEF OtherLogs
<1>3. /\ ToSet(LogWrite("Info", Texts["info"])) \subseteq ToSet(p3)
      /\ ToSet(LogWrite("Bad", Texts["bad"])) \subseteq ToSet(p3)
  <2> HIDE DEF p1, p2, p3
  <2>1. ToSet(LogWrite("Info", Texts["info"])) \subseteq ToSet(p1)
    BY DEF p1
  <2>2. ToSet(p1) \subseteq ToSet(p2) /\ ToSet(LogWrite("Bad", Texts["bad"])) \subseteq ToSet(p2)
    BY <1>1, OwnParts, Joined DEF p2
  <2>3. ToSet(p2) \subseteq ToSet(p3) /\ ToSet(<<Do("update")>>) \subseteq ToSet(p3)
    BY <1>1, OwnParts, Joined DEF p3
  <2> QED BY <2>1, <2>2, <2>3
<1>4. /\ ToSet(LogWrite("Info", Texts["info"])) \subseteq ToSet(KeStart) \cup ToSet(OtherLogs)
      /\ ToSet(LogWrite("Bad", Texts["bad"])) \subseteq ToSet(KeStart) \cup ToSet(OtherLogs)
  <2> HIDE DEF p3
  <2> QED BY <1>2, <1>3
<1> DEFINE s0 == <<>>
           s1 == LogShows("Info", Texts["info"])
           s2 == s1 \o LogShows("Bad", Texts["bad"])
<1> HIDE DEF p1, p2, p3
<1>5. /\ "Good" \in Status /\ "Info" \in Status /\ "Bad" \in Status
      /\ \A a \in Seq(Cell) : <<>> \o a = a
  BY ConcatEmptySeq DEF Status
<1>6. s1 \in Seq(Cell) /\ Leads(p1, Blank, Seen(White, Black, s1, <<>>))
  <2>1. /\ Leads(p1, Seen(White, Black, <<>>, <<>>), Seen(White, Black, <<>> \o s1, <<>>))
        /\ s1 \in Seq(Cell)
    BY <1>4, <1>5, BlankView, LogLeads DEF p1
  <2> HIDE DEF s1
  <2> QED BY <2>1, <1>5 DEF Blank
<1> HIDE DEF s1
<1>7. s2 \in Seq(Cell) /\ Leads(p2, Blank, Seen(White, Black, s2, <<>>))
  BY <1>1, <1>4, <1>5, <1>6, LogFollows DEF p2
<1> HIDE DEF s2
<1>8. Leads(p3, Blank, Seen(White, Black, s2, s2))
  BY <1>1, <1>7, <1>7, UpdateFollows DEF p3
<1> QED BY <1>2, <1>7, <1>8 DEF s1, s2

\* Whatever it interrupts, a panic adds its text in black on red and shows it.
PanicShows == Cells(PanicPrefix \o TextOf(Texts["panic"]), Black, "lightRed")

LEMMA PanicLeads ==
  /\ PanicShows \in Seq(Cell)
  /\ \A v \in View :
       Leads(Panic(Texts["panic"]), v,
             Seen(White, Black, v.screen \o PanicShows, v.screen \o PanicShows))
<1> DEFINE t == Texts["panic"]
           steps == Panic(t)
           red == "lightRed"
           text == TextOf(t)
           A == Cells(PanicPrefix, Black, red)
           B == Cells(text, Black, red)
<1>1. steps = <<Fg(Black), Bg(red), PrintText("screen", Literal(PanicPrefix)),
                PrintText("screen", t), Do("update"), Fg(White), Bg(Black)>>
  BY DEF Panic
<1>2. Readable(Literal(PanicPrefix)) /\ Readable(t)
  <2>1. \A a, b, c, d, e, f, g : {c, d} \subseteq ToSet(<<a, b, c, d, e, f, g>>)
    <3> TAKE a, b, c, d, e, f, g
    <3> DEFINE q == <<a, b, c, d, e, f, g>>
    <3>1. DOMAIN q = 1 .. 7 /\ q[3] = c /\ q[4] = d
      OBVIOUS
    <3> HIDE DEF q
    <3>2. {c, d} \subseteq ToSet(q)
      BY <3>1 DEF ToSet
    <3> QED BY <3>2 DEF q
  <2> HIDE DEF steps, t, red
  <2>2. {PrintText("screen", Literal(PanicPrefix)), PrintText("screen", t)} \subseteq ToSet(steps)
    BY <1>1, <2>1
  <2>3. Says(steps, Literal(PanicPrefix)) /\ Says(steps, t)
    BY <2>2 DEF Says, steps, t
  <2> QED BY <2>3, SaysReadable
<1>3. TextOf(Literal(PanicPrefix)) = PanicPrefix
  BY LiteralTexts DEF Literals
<1>4. White \in Hues /\ Black \in Hues /\ red \in Hues
  BY DEF Hues
<1> HIDE DEF steps, t, red
<1>5. PanicPrefix \in Seq(Ascii) /\ text \in Seq(Ascii)
  BY <1>2, <1>3 DEF Readable
<1> HIDE DEF text
<1>6. A \in Seq(Cell) /\ B \in Seq(Cell)
  BY <1>4, <1>5, CellsAre
<1>7. PanicShows = A \o B
  <2>1. \A f \in Hues, b \in Hues :
          Cells(PanicPrefix \o text, f, b) = Cells(PanicPrefix, f, b) \o Cells(text, f, b)
    BY <1>5, CellsOfBoth
  <2> QED BY <1>4, <2>1 DEF PanicShows, text, t, red
<1>8. \A f \in Hues, b \in Hues, q \in Seq(Cell), r \in Seq(Cell) :
        /\ Makes(PrintText("screen", Literal(PanicPrefix)), Seen(f, b, q, r),
                 Seen(f, b, q \o Cells(PanicPrefix, f, b), r))
        /\ Makes(PrintText("screen", t), Seen(f, b, q, r), Seen(f, b, q \o Cells(text, f, b), r))
        /\ Makes(Do("update"), Seen(f, b, q, r), Seen(f, b, q, q))
        /\ \A h \in Hues : /\ Makes(Fg(h), Seen(f, b, q, r), Seen(h, b, q, r))
                           /\ Makes(Bg(h), Seen(f, b, q, r), Seen(f, h, q, r))
  BY <1>3, <1>5, PrintMakes, UpdateMakes, FgMakes, BgMakes DEF text
<1> HIDE DEF A, B
<1>9. PanicShows \in Seq(Cell)
  BY <1>6, <1>7, ConcatProperties
<1>10. ASSUME NEW v \in View
       PROVE  Leads(steps, v, Seen(White, Black, v.screen \o PanicShows, v.screen \o PanicShows))
  <2> DEFINE f == v.fg
             b == v.bg
             s == v.screen
             r == v.front
             w == s \o A
             z == w \o B
  <2>1. v = Seen(f, b, s, r) /\ f \in Hues /\ b \in Hues /\ s \in Seq(Cell) /\ r \in Seq(Cell)
    BY ViewIsSeen DEF View
  <2> HIDE DEF f, b, s, r
  <2>2. w \in Seq(Cell)
    BY <1>6, <2>1, ConcatProperties
  <2>3. z = s \o PanicShows
    <3>1. (s \o A) \o B = s \o (A \o B)
      <4>1. Joint(Joint(s, A), B) = Joint(s, Joint(A, B))
        BY <1>6, <2>1, JointIs
      <4> QED BY <4>1 DEF Joint
    <3> QED BY <1>7, <3>1
  <2>4. Makes(PrintText("screen", Literal(PanicPrefix)), Seen(Black, red, s, r), Seen(Black, red, w, r))
    BY <1>4, <1>8, <2>1 DEF A
  <2> HIDE DEF w
  <2>5. z \in Seq(Cell)
    BY <1>6, <2>2, ConcatProperties
  <2>6. Makes(PrintText("screen", t), Seen(Black, red, w, r), Seen(Black, red, z, r))
    BY <1>4, <1>8, <2>1, <2>2 DEF B
  <2> HIDE DEF z
  <2>7. Makes(Fg(Black), v, Seen(Black, b, s, r)) /\ Makes(Bg(red), Seen(Black, b, s, r), Seen(Black, red, s, r))
    BY <1>4, <1>8, <2>1
  <2>8. /\ Makes(Do("update"), Seen(Black, red, z, r), Seen(Black, red, z, z))
        /\ Makes(Fg(White), Seen(Black, red, z, z), Seen(White, red, z, z))
        /\ Makes(Bg(Black), Seen(White, red, z, z), Seen(White, Black, z, z))
    BY <1>4, <1>8, <2>1, <2>5
  <2>9. Leads(steps, v, Seen(White, Black, z, z))
    BY <1>1, <2>4, <2>6, <2>7, <2>8, SevenLead
  <2> QED BY <2>3, <2>9 DEF s
<1> QED BY <1>9, <1>10 DEF steps, t

\* What a program, and what a panic, leads to.
LEMMA ProgramsLead ==
  \A p \in Programs :
    p.shows \in Seq(Cell) /\ \E w \in View :
      w.screen = p.shows /\ w.front = p.shows /\ Leads(p.steps, Blank, w)
<1> TAKE p \in Programs
<1>1. \A s \in Seq(Cell) :
        /\ Seen(White, Black, s, s) \in View
        /\ Seen(White, Black, s, s).screen = s /\ Seen(White, Black, s, s).front = s
  <2>1. \A s \in Seq(Cell) : Seen(White, Black, s, s) \in View
    BY SeenIsView, BlankView
  <2> QED BY <2>1 DEF Seen
<1> DEFINE ke == LogShows("Good", Texts["gdt"]) \o LogShows("Good", Texts["pmm"])
              \o LogShows("Good", Texts["idt"]) \o LogShows("Good", Texts["pic"])
              \o LogShows("Good", Texts["serial"])
              \o LogShows("Good", Texts["vmm"]) \o LogShows("Good", Texts["kb"])
           others == LogShows("Info", Texts["info"]) \o LogShows("Bad", Texts["bad"])
<1>2. \/ p = [steps |-> KeStart, shows |-> ke]
      \/ p = [steps |-> OtherLogs, shows |-> others]
      \/ \E x \in Calls : p = [steps |-> <<x>>, shows |-> <<>>]
  BY DEF Programs
<1>3. ke \in Seq(Cell) /\ Leads(KeStart, Blank, Seen(White, Black, ke, ke))
  BY KeStartLeads
<1>4. others \in Seq(Cell) /\ Leads(OtherLogs, Blank, Seen(White, Black, others, others))
  BY OtherLogsLead
<1> HIDE DEF ke, others
<1>5. CASE p = [steps |-> KeStart, shows |-> ke]
  BY <1>1, <1>3, <1>5
<1>6. CASE p = [steps |-> OtherLogs, shows |-> others]
  BY <1>1, <1>4, <1>6
<1>7. ASSUME NEW x \in Calls, p = [steps |-> <<x>>, shows |-> <<>>]
      PROVE  p.shows \in Seq(Cell) /\ \E w \in View :
               w.screen = p.shows /\ w.front = p.shows /\ Leads(p.steps, Blank, w)
  <2>1. x.op = "print" /\ x.to = "buffer"
    BY MessagesAssumption
  <2>2. Leads(<<x>>, Blank, Blank)
    BY <2>1, BlankView, OthersMake, OneLeads
  <2>3. p.steps = <<x>> /\ p.shows = <<>>
    BY <1>7
  <2>4. Blank \in View /\ Blank.screen = <<>> /\ Blank.front = <<>> /\ <<>> \in Seq(Cell)
    BY <1>1, BlankView DEF Blank
  <2> QED BY <2>2, <2>3, <2>4
<1> QED BY <1>2, <1>5, <1>6, <1>7

-----------------------------------------------------------------------------
(* The screen at every step of a program. *)

Seeing == Seen(fg, bg, screen, front)

\* A call that prints step s has come to put characters on v's screen.
Saying(s, v) ==
  /\ DOMAIN call = {"to", "max", "loop", "put", "step", "buffer"}
  /\ call.to = s.to
  /\ s.to # "screen" => Seeing = v
  /\ s.to = "screen" =>
       /\ [loop |-> call.loop, text |-> TextOf(s)] \in Rendering
       /\ call.put \in 0 .. Len(call.loop.text)
       /\ Seeing = Seen(v.fg, v.bg, v.screen \o Cells(SubSeq(TextOf(s), 1, call.put), v.fg, v.bg),
                        v.front)

\* The kernel is at the i'th of steps, or behind it; g are their views.
IsAt(steps, g, i) ==
  /\ i \in 0 .. Len(steps) /\ todo = SubSeq(steps, i + 1, Len(steps))
  /\ call = NoCall => Seeing = g[i]
  /\ call # NoCall => i > 0 /\ steps[i].op = "print" /\ Saying(steps[i], g[i - 1])

\* Steps that may be left to do, with their views from v to w.
Program(steps, g, v, w) ==
  /\ Own(steps) /\ Run(g, steps, v, w)
  /\ v \in View /\ w \in View /\ w.front = w.screen
  /\ \A s \in ToSet(steps) : s.op = "print" /\ s.to = "screen" => s \in Messages

ShowIInv ==
  /\ shows \in Seq(Cell)
  /\ \E steps, g, v, w :
       /\ Program(steps, g, v, w)
       /\ \E i \in 0 .. Len(steps) : IsAt(steps, g, i)
       /\ fault = -1 => v = Blank /\ w.screen = shows
       /\ fault # -1 => /\ fault = Len(v.screen) /\ Continues(v.screen, shows)
                        /\ w.screen = v.screen \o PanicShows

LEMMA NextStep ==
  ASSUME NEW steps, Own(steps), NEW i \in 0 .. Len(steps),
         todo = SubSeq(steps, i + 1, Len(steps)), todo # <<>>
  PROVE  /\ i + 1 \in 1 .. Len(steps) /\ i + 1 \in 0 .. Len(steps) /\ (i + 1) - 1 = i
         /\ Head(todo) = steps[i + 1]
         /\ Tail(todo) = SubSeq(steps, (i + 1) + 1, Len(steps))
         /\ steps[i + 1] \in ToSet(steps)
<1> DEFINE A == ToSet(steps)
           n == Len(steps)
<1>1. steps \in Seq(A)
  BY DEF Own
<1> HIDE DEF A
<1>2. n \in Nat /\ DOMAIN steps = 1 .. n
  BY <1>1, LenProperties
<1>3. i < n
  <2> SUFFICES ASSUME ~(i < n) PROVE FALSE
    OBVIOUS
  <2>1. i + 1 \in Int /\ n \in Int /\ n < i + 1
    BY <1>2
  <2> HIDE DEF n
  <2>2. SubSeq(steps, i + 1, n) = <<>>
    BY <2>1, SubSeqEmpty
  <2> QED BY <2>2 DEF n
<1>4. i + 1 \in 1 .. n /\ i + 1 \in 0 .. n /\ (i + 1) - 1 = i /\ n \in (i + 1) .. n
  BY <1>2, <1>3
<1>5. Head(SubSeq(steps, i + 1, n)) = steps[i + 1] /\ Tail(SubSeq(steps, i + 1, n)) = SubSeq(steps, (i + 1) + 1, n)
  BY <1>1, <1>4, HeadTailOfSubSeq
<1>6. steps[i + 1] \in ToSet(steps)
  BY <1>2, <1>4 DEF ToSet
<1> QED BY <1>4, <1>5, <1>6

\* The last step is done.
LEMMA NoStep ==
  ASSUME NEW steps, Own(steps), NEW i \in 0 .. Len(steps), SubSeq(steps, i + 1, Len(steps)) = <<>>
  PROVE  i = Len(steps)
<1> DEFINE A == ToSet(steps)
           n == Len(steps)
<1>1. steps \in Seq(A)
  BY DEF Own
<1> HIDE DEF A
<1>2. n \in Nat
  BY <1>1, LenProperties
<1>3. CASE i < n
  <2>1. \A j \in (i + 1) .. n : j \in 1 .. n
    BY <1>2
  <2>2. \A j \in (i + 1) .. n : steps[j] \in A
    BY <1>1, <2>1, ElementOfSeq
  <2>3. i + 1 \in Int /\ n \in Int /\ i + 1 <= n
    BY <1>2, <1>3
  <2> HIDE DEF n
  <2>4. Len(SubSeq(steps, i + 1, n)) = IF i + 1 <= n THEN n - (i + 1) + 1 ELSE 0
    BY <2>2, <2>3, SubSeqProperties
  <2>5. n - (i + 1) + 1 > 0
    BY <2>3, <1>2
  <2>6. SubSeq(steps, i + 1, n) = <<>> /\ Len(<<>>) = 0
    BY DEF n
  <2> HIDE DEF n
  <2>7. Len(SubSeq(steps, i + 1, n)) = 0
    BY <2>6
  <2>8. FALSE
    BY <2>3, <2>4, <2>5, <2>7
  <2> QED BY <2>8
<1> QED BY <1>2, <1>3

\* What a message's text is, and how much of it is put.
LEMMA MessageIs ==
  ASSUME NEW s, s \in Messages
  PROVE  TextOf(s) \in Seq(Ascii) /\ Begun(s).text \in Seq(Ascii)
         /\ [loop |-> Begun(s), text |-> TextOf(s)] \in Rendering
<1> DEFINE m == [loop |-> Begun(s), text |-> TextOf(s)]
<1>1. m \in Rendering
  BY RenderingIs
<1>2. m.loop = Begun(s) /\ m.text = TextOf(s)
  OBVIOUS
<1> HIDE DEF m
<1>3. m.text \in Seq(Ascii) /\ m.loop.text \in Seq(Ascii)
  BY <1>1, RenderingIs
<1> QED BY <1>1, <1>2, <1>3 DEF m

LEMMA RenderedIs ==
  ASSUME NEW l, NEW text, [loop |-> l, text |-> text] \in Rendering
  PROVE  /\ l.text \in Seq(Ascii) /\ text \in Seq(Ascii) /\ Len(l.text) \in Nat /\ Len(text) \in Nat
         /\ Len(l.text) <= Len(text)
         /\ \A j \in 1 .. Len(l.text) : l.text[j] = text[j]
         /\ Finished(l) => l.text = text
         /\ ~Finished(l) => /\ [loop |-> Iterate(l), text |-> text] \in Rendering
                            /\ Len(l.text) <= Len(Iterate(l).text)
                            /\ Len(Iterate(l).text) \in Nat
<1>1. \A m \in Rendering :
        /\ m.loop.text \in Seq(Ascii) /\ m.text \in Seq(Ascii) /\ IsPrefix(m.loop.text, m.text)
        /\ Finished(m.loop) => m.loop.text = m.text
        /\ ~Finished(m.loop) => /\ [loop |-> Iterate(m.loop), text |-> m.text] \in Rendering
                                /\ Len(m.loop.text) <= Len(Iterate(m.loop).text)
  BY RenderingIs
<1>2. \A x : [loop |-> x, text |-> text].loop = x /\ [loop |-> x, text |-> text].text = text
  OBVIOUS
<1>3. /\ l.text \in Seq(Ascii) /\ text \in Seq(Ascii) /\ IsPrefix(l.text, text)
      /\ Finished(l) => l.text = text
      /\ ~Finished(l) => /\ [loop |-> Iterate(l), text |-> text] \in Rendering
                         /\ Len(l.text) <= Len(Iterate(l).text)
  BY <1>1, <1>2
<1>4. Len(l.text) \in Nat /\ Len(text) \in Nat /\ Len(l.text) <= Len(text)
  BY <1>3, LenProperties DEF IsPrefix
<1>5. \A j \in 1 .. Len(l.text) : l.text[j] = text[j]
  <2> DEFINE a == l.text
             n == Len(a)
  <2>1. SubSeq(a, 1, n) = SubSeq(text, 1, n)
    BY <1>3 DEF IsPrefix
  <2>2. a \in Seq(Ascii) /\ n \in Nat /\ n \in 0 .. Len(text) /\ n \in 0 .. Len(a)
    BY <1>3, <1>4
  <2> HIDE DEF n, a
  <2>3. \A j \in 1 .. n : SubSeq(a, 1, n)[j] = a[j]
    BY <2>2, FrontIs
  <2>4. \A j \in 1 .. n : SubSeq(text, 1, n)[j] = text[j]
    BY <1>3, <2>2, FrontIs
  <2> QED BY <2>1, <2>3, <2>4 DEF n, a
<1>6. ~Finished(l) => Len(Iterate(l).text) \in Nat
  <2> SUFFICES ASSUME ~Finished(l) PROVE Len(Iterate(l).text) \in Nat
    OBVIOUS
  <2>1. Iterate(l).text \in Seq(Ascii)
    BY <1>1, <1>2, <1>3
  <2> QED BY <2>1, LenProperties
<1> QED BY <1>3, <1>4, <1>5, <1>6

\* One character more on the screen.
LEMMA OneMore ==
  ASSUME NEW a \in Seq(Cell), NEW text \in Seq(Ascii), NEW f \in Hues, NEW b \in Hues,
         NEW n \in 0 .. (Len(text) - 1)
  PROVE  Append(a \o Cells(SubSeq(text, 1, n), f, b), <<text[n + 1], f, b>>)
           = a \o Cells(SubSeq(text, 1, n + 1), f, b)
<1> DEFINE s == SubSeq(text, 1, n)
           t == SubSeq(text, 1, n + 1)
           c == Cells(s, f, b)
           d == Cells(t, f, b)
           x == <<text[n + 1], f, b>>
<1>1. Len(text) \in Nat
  BY LenProperties
<1>2. n \in 0 .. Len(text) /\ n + 1 \in 0 .. Len(text) /\ n + 1 \in 1 .. Len(text)
  BY <1>1
<1>3. /\ s \in Seq(Ascii) /\ Len(s) = n /\ \A j \in 1 .. n : s[j] = text[j]
      /\ t \in Seq(Ascii) /\ Len(t) = n + 1 /\ \A j \in 1 .. (n + 1) : t[j] = text[j]
  BY <1>2, FrontIs
<1>4. x \in Cell
  BY <1>2, ElementOfSeq DEF Cell
<1> HIDE DEF s, t
<1>5. /\ c \in Seq(Cell) /\ Len(c) = n /\ \A j \in 1 .. n : c[j] = <<text[j], f, b>>
      /\ d \in Seq(Cell) /\ Len(d) = n + 1 /\ \A j \in 1 .. (n + 1) : d[j] = <<text[j], f, b>>
  BY <1>3, CellsAre
<1>6. x = d[n + 1] /\ \A j \in 1 .. n : c[j] = d[j]
  <2> HIDE DEF c, d
  <2>1. n + 1 \in 1 .. (n + 1) /\ \A j \in 1 .. n : j \in 1 .. (n + 1)
    BY <1>1
  <2>2. d[n + 1] = <<text[n + 1], f, b>>
    BY <1>5, <2>1
  <2> QED BY <1>5, <2>1, <2>2
<1> HIDE DEF c, d, x
<1>7. Append(c, x) = d
  <2> DEFINE e == Append(c, x)
  <2>1. e \in Seq(Cell) /\ Len(e) = n + 1
    BY <1>4, <1>5
  <2>2. \A j \in 1 .. n : e[j] = d[j]
    BY <1>4, <1>5, <1>6
  <2>3. e[n + 1] = d[n + 1]
    BY <1>4, <1>5, <1>6
  <2> HIDE DEF e
  <2>4. \A j \in 1 .. (n + 1) : e[j] = d[j]
    BY <1>1, <2>2, <2>3
  <2>5. e = d
    BY <1>5, <2>1, <2>4, SeqEqual
  <2> QED BY <2>5 DEF e
<1>8. a \o Append(c, x) = Append(a \o c, x)
  BY <1>4, <1>5, OneEnters
<1> QED BY <1>7, <1>8 DEF c, d, s, t, x

LEMMA ViewsAre ==
  ASSUME NEW steps, NEW g, NEW v, NEW w, Program(steps, g, v, w)
  PROVE  /\ Len(steps) \in Nat /\ g[0] = v /\ g[Len(steps)] = w
         /\ \A j \in 0 .. Len(steps) :
              /\ g[j] \in View /\ g[j].fg \in Hues /\ g[j].bg \in Hues
              /\ g[j].screen \in Seq(Cell) /\ g[j].front \in Seq(Cell)
              /\ Continues(v.screen, g[j].screen) /\ Continues(g[j].screen, w.screen)
         /\ \A j \in 1 .. Len(steps) : g[j] = After(g[j - 1], steps[j])
<1> DEFINE A == ToSet(steps)
<1>1. steps \in Seq(A)
  BY DEF Program, Own
<1> HIDE DEF A
<1>2. Len(steps) \in Nat
  BY <1>1, LenProperties
<1> QED BY <1>2 DEF Program, Run, View

LEMMA SeenIs ==
  /\ Seeing.fg = fg /\ Seeing.bg = bg /\ Seeing.screen = screen /\ Seeing.front = front
  /\ \A f, b, s, r : /\ Seen(f, b, s, r).fg = f /\ Seen(f, b, s, r).bg = b
                     /\ Seen(f, b, s, r).screen = s /\ Seen(f, b, s, r).front = r
BY DEF Seeing, Seen

\* Wherever the kernel is, the screen is on its way from v's to w's.
LEMMA OnTheWay ==
  ASSUME NEW steps, NEW g, NEW v, NEW w, Program(steps, g, v, w),
         NEW i \in 0 .. Len(steps), IsAt(steps, g, i)
  PROVE  /\ Seeing \in View /\ screen \in Seq(Cell)
         /\ Continues(v.screen, screen) /\ Continues(screen, w.screen)
<1>1. CASE call = NoCall \/ (i > 0 /\ steps[i].to # "screen")
  <2>1. PICK j \in 0 .. Len(steps) : Seeing = g[j]
    <3>1. CASE call = NoCall
      BY <3>1 DEF IsAt
    <3>2. CASE call # NoCall /\ i > 0 /\ steps[i].to # "screen"
      <4>1. Seeing = g[i - 1] /\ i - 1 \in 0 .. Len(steps)
        BY <3>2, ViewsAre DEF IsAt, Saying
      <4> QED BY <4>1
    <3> QED BY <1>1, <3>1, <3>2
  <2>2. screen = g[j].screen
    BY <2>1, SeenIs
  <2> QED BY <2>1, <2>2, ViewsAre
<1>2. CASE call # NoCall /\ i > 0 /\ steps[i].to = "screen"
  <2> DEFINE j == i - 1
             s == steps[i]
             f == g[j].fg
             b == g[j].bg
             a == g[j].screen
             text == TextOf(s)
             c == Cells(SubSeq(text, 1, call.put), f, b)
             d == Cells(SubSeq(text, call.put + 1, Len(text)), f, b)
  <2>1. /\ s.op = "print" /\ s.to = "screen"
        /\ [loop |-> call.loop, text |-> text] \in Rendering
        /\ call.put \in 0 .. Len(call.loop.text)
        /\ Seeing = Seen(f, b, a \o c, g[j].front)
    BY <1>2 DEF IsAt, Saying
  <2>2. j \in 0 .. Len(steps) /\ i \in 1 .. Len(steps) /\ i \in 0 .. Len(steps)
    BY <1>2, ViewsAre
  <2>3. f \in Hues /\ b \in Hues /\ a \in Seq(Cell) /\ g[j].front \in Seq(Cell)
    BY <2>2, ViewsAre
  <2>4. Len(call.loop.text) \in Nat /\ Len(text) \in Nat /\ Len(call.loop.text) <= Len(text) /\ text \in Seq(Ascii)
    BY <2>1, RenderedIs
  <2>5. call.put \in 0 .. Len(text)
    BY <2>1, <2>4
  <2>6. g[i].screen = a \o Cells(text, f, b)
    <3>1. g[i] = After(g[j], s)
      BY <2>2, ViewsAre
    <3>2. \A q, x : x.op = "print" /\ x.to = "screen" =>
                      After(q, x).screen = q.screen \o Cells(TextOf(x), q.fg, q.bg)
      BY DEF After
    <3>3. s.op = "print" /\ s.to = "screen"
      BY <2>1
    <3> HIDE DEF s, j
    <3>4. After(g[j], s).screen = g[j].screen \o Cells(TextOf(s), g[j].fg, g[j].bg)
      BY <3>2, <3>3
    <3> QED BY <3>1, <3>4
  <2> HIDE DEF f, b, a, text, s, j, c
  <2>7. screen = a \o c
    <3> DEFINE z == a \o c
               q == Seen(f, b, z, g[j].front)
    <3>1. Seeing = q
      BY <2>1
    <3>2. q.screen = z
      BY DEF Seen
    <3>3. Seeing.screen = screen
      BY SeenIs
    <3> HIDE DEF q, z
    <3>4. screen = z
      BY <3>1, <3>2, <3>3
    <3> QED BY <3>4 DEF z
  <2> USE DEF c
  <2>8. /\ c \in Seq(Cell) /\ d \in Seq(Cell) /\ Cells(text, f, b) = c \o d
    <3>1. /\ SubSeq(text, 1, call.put) \in Seq(Ascii)
          /\ SubSeq(text, call.put + 1, Len(text)) \in Seq(Ascii)
          /\ Cells(text, f, b) = c \o d
      BY <2>3, <2>4, <2>5, CellsOfFront
    <3> QED BY <2>3, <3>1, CellsAre
  <2> HIDE DEF c, d
  <2>9. g[i].screen = screen \o d
    <3>1. (a \o c) \o d = a \o (c \o d)
      <4>1. Joint(Joint(a, c), d) = Joint(a, Joint(c, d))
        BY <2>3, <2>8, JointIs
      <4> QED BY <4>1 DEF Joint
    <3> QED BY <2>6, <2>7, <2>8, <3>1
  <2>10. screen \in Seq(Cell)
    BY <2>3, <2>7, <2>8, ConcatProperties
  <2>11. Continues(screen, g[i].screen) /\ Continues(a, screen)
    BY <2>7, <2>8, <2>9 DEF Continues
  <2>12. /\ g[i].screen \in Seq(Cell) /\ v.screen \in Seq(Cell) /\ w.screen \in Seq(Cell)
         /\ Continues(g[i].screen, w.screen) /\ Continues(v.screen, a)
    <3>1. v \in View /\ w \in View
      BY DEF Program
    <3> QED BY <2>2, <3>1, ViewsAre DEF a, View
  <2>13. Continues(v.screen, screen) /\ Continues(screen, w.screen)
    BY <2>3, <2>10, <2>11, <2>12, ContinuesOn
  <2>14. Seeing \in View
    BY <2>1, <2>3, <2>7, <2>10, SeenIsView DEF j, f, b
  <2> QED BY <2>10, <2>13, <2>14
<1> QED BY <1>1, <1>2 DEF IsAt

\* A step other than a call of printf.c.
LEMMA StepShows ==
  ASSUME NEW steps, NEW g, NEW v, NEW w, Program(steps, g, v, w),
         NEW i \in 0 .. Len(steps), IsAt(steps, g, i), NEW op, Step(op),
         todo' = Tail(todo), call' = call, Seeing' = After(Seeing, Head(todo))
  PROVE  \E j \in 0 .. Len(steps) : IsAt(steps, g, j)'
<1>1. todo # <<>> /\ call = NoCall /\ todo = SubSeq(steps, i + 1, Len(steps)) /\ Seeing = g[i]
  BY DEF Step, IsAt
<1>2. Own(steps)
  BY DEF Program
<1> DEFINE j == i + 1
<1>3. /\ j \in 1 .. Len(steps) /\ j \in 0 .. Len(steps) /\ j - 1 = i
      /\ Head(todo) = steps[j] /\ Tail(todo) = SubSeq(steps, j + 1, Len(steps))
  BY <1>1, <1>2, NextStep
<1>4. g[j] = After(g[j - 1], steps[j])
  BY <1>3, ViewsAre
<1> HIDE DEF j
<1>5. Seeing' = g[j] /\ call' = NoCall /\ todo' = SubSeq(steps, j + 1, Len(steps))
  BY <1>1, <1>3, <1>4
<1>6. IsAt(steps, g, j)'
  BY <1>3, <1>5 DEF IsAt
<1> QED BY <1>3, <1>6

LEMMA ScreenStepShows ==
  ASSUME NEW steps, NEW g, NEW v, NEW w, Program(steps, g, v, w),
         NEW i \in 0 .. Len(steps), IsAt(steps, g, i),
         FtSetFg \/ FtSetBg \/ FbUpdate \/ IdtInit \/ SeCheck
  PROVE  \E j \in 0 .. Len(steps) : IsAt(steps, g, j)'
<1> DEFINE s == Head(todo)
<1>1. PICK op \in {"fg", "bg", "update", "idt", "serial"} :
        /\ Step(op) /\ todo' = Tail(todo) /\ call' = call
        /\ op = "fg" => fg' = s.color /\ UNCHANGED <<bg, screen, front>>
        /\ op = "bg" => bg' = s.color /\ UNCHANGED <<fg, screen, front>>
        /\ op = "update" => front' = screen /\ UNCHANGED <<fg, bg, screen>>
        /\ op \in {"idt", "serial"} => UNCHANGED <<fg, bg, screen, front>>
  <2>1. CASE FtSetFg
    BY <2>1 DEF FtSetFg, Done
  <2>2. CASE FtSetBg
    BY <2>2 DEF FtSetBg, Done
  <2>3. CASE FbUpdate
    BY <2>3 DEF FbUpdate, Done
  <2>4. CASE IdtInit
    BY <2>4 DEF IdtInit, Done, screenVars
  <2>5. CASE SeCheck
    BY <2>5 DEF SeCheck, InSeInit, screenVars
  <2> QED BY <2>1, <2>2, <2>3, <2>4, <2>5
<1>2. s.op = op
  BY <1>1 DEF Step
<1> HIDE DEF s
<1>3. After(Seeing, s) = Seen(IF op = "fg" THEN s.color ELSE fg, IF op = "bg" THEN s.color ELSE bg,
                              screen, IF op = "update" THEN screen ELSE front)
  BY <1>1, <1>2, SeenIs DEF After, Seen
<1>4. Seeing' = Seen(fg', bg', screen', front')
  BY DEF Seeing
<1>5. Seeing' = After(Seeing, s)
  BY <1>1, <1>3, <1>4
<1> QED BY <1>1, <1>5, StepShows DEF s

\* Steps that leave the screen and the program alone.
LEMMA NothingShows ==
  ASSUME NEW steps, NEW g, NEW i, IsAt(steps, g, i), UNCHANGED <<todo, call, screenVars>>
  PROVE  IsAt(steps, g, i)'
BY DEF IsAt, Saying, Seeing, Seen, screenVars

LEMMA CallShows ==
  ASSUME NEW steps, NEW g, NEW v, NEW w, Program(steps, g, v, w),
         NEW i \in 0 .. Len(steps), IsAt(steps, g, i), Call
  PROVE  \E j \in 0 .. Len(steps) : IsAt(steps, g, j)'
<1>1. /\ todo # <<>> /\ call = NoCall /\ todo = SubSeq(steps, i + 1, Len(steps)) /\ Seeing = g[i]
      /\ Head(todo).op = "print" /\ todo' = Tail(todo)
      /\ fg' = fg /\ bg' = bg /\ screen' = screen /\ front' = front
  BY DEF Call, Step, IsAt, screenVars
<1>2. Own(steps)
  BY DEF Program
<1> DEFINE j == i + 1
           s == steps[j]
<1>3. /\ j \in 1 .. Len(steps) /\ j \in 0 .. Len(steps) /\ j - 1 = i /\ j > 0
      /\ Head(todo) = s /\ Tail(todo) = SubSeq(steps, j + 1, Len(steps)) /\ s \in ToSet(steps)
  <2>1. /\ j \in 1 .. Len(steps) /\ j \in 0 .. Len(steps) /\ j - 1 = i /\ Head(todo) = steps[j]
        /\ Tail(todo) = SubSeq(steps, j + 1, Len(steps)) /\ steps[j] \in ToSet(steps)
    BY <1>1, <1>2, NextStep
  <2>2. j > 0
    OBVIOUS
  <2> HIDE DEF j
  <2> QED BY <2>1, <2>2
<1>4. call' = [to |-> s.to, max |-> s.max, loop |-> Begun(s), put |-> 0, step |-> s,
               buffer |-> [x \in 0 .. BufferRoom |-> "untouched"]]
  BY <1>3 DEF Call
<1> HIDE DEF j, s
<1>5. /\ DOMAIN call' = {"to", "max", "loop", "put", "step", "buffer"} /\ call' # NoCall
      /\ call'.to = s.to /\ call'.loop = Begun(s) /\ call'.put = 0
  BY <1>4 DEF NoCall
<1>6. Seeing' = g[i]
  BY <1>1 DEF Seeing
<1>7. s.to = "screen" =>
        /\ [loop |-> call'.loop, text |-> TextOf(s)] \in Rendering
        /\ call'.put \in 0 .. Len(call'.loop.text)
        /\ Seeing' = Seen(g[i].fg, g[i].bg,
                          g[i].screen \o Cells(SubSeq(TextOf(s), 1, call'.put), g[i].fg, g[i].bg), g[i].front)
  <2> SUFFICES ASSUME s.to = "screen" PROVE
        /\ [loop |-> Begun(s), text |-> TextOf(s)] \in Rendering
        /\ 0 \in 0 .. Len(Begun(s).text)
        /\ Seeing' = Seen(g[i].fg, g[i].bg,
                          g[i].screen \o Cells(SubSeq(TextOf(s), 1, 0), g[i].fg, g[i].bg), g[i].front)
    BY <1>5
  <2>1. s \in Messages
    BY <1>1, <1>3 DEF Program
  <2>2. /\ [loop |-> Begun(s), text |-> TextOf(s)] \in Rendering
        /\ Begun(s).text \in Seq(Ascii)
    BY <2>1, MessageIs
  <2>3. Len(Begun(s).text) \in Nat
    BY <2>2, LenProperties
  <2> DEFINE none == Cells(SubSeq(TextOf(s), 1, 0), g[i].fg, g[i].bg)
  <2>4. SubSeq(TextOf(s), 1, 0) = <<>>
    BY SubSeqEmpty
  <2>5. g[i].screen \in Seq(Cell) /\ g[i].fg \in Hues /\ g[i].bg \in Hues /\ g[i] \in View
    BY ViewsAre
  <2>6. none = <<>>
    <3>1. <<>> \in Seq(Ascii) /\ Len(<<>>) = 0
      BY EmptySeq
    <3>2. \A f \in Hues, b \in Hues : Cells(<<>>, f, b) \in Seq(Cell) /\ Len(Cells(<<>>, f, b)) = 0
      BY <3>1, CellsAre
    <3>3. none = Cells(<<>>, g[i].fg, g[i].bg)
      BY <2>4
    <3> HIDE DEF none
    <3>4. none \in Seq(Cell) /\ Len(none) = 0
      BY <2>5, <3>2, <3>3
    <3> QED BY <3>4, EmptySeq
  <2> HIDE DEF none
  <2>7. g[i].screen \o none = g[i].screen
    BY <2>5, <2>6, ConcatEmptySeq
  <2>8. Seeing' = Seen(g[i].fg, g[i].bg, g[i].screen \o none, g[i].front)
    BY <1>6, <2>5, <2>7, ViewIsSeen
  <2> QED BY <2>2, <2>3, <2>8 DEF none
<1>8. Saying(s, g[i])'
  BY <1>5, <1>6, <1>7 DEF Saying
<1>9. s.op = "print"
  BY <1>1, <1>3
<1>10. IsAt(steps, g, j)'
  BY <1>1, <1>3, <1>5, <1>8, <1>9 DEF IsAt, s
<1> QED BY <1>3, <1>10

\* A step of a call whose characters do not go to the screen.
LEMMA ElsewhereShows ==
  ASSUME NEW steps, NEW g, NEW i, IsAt(steps, g, i), call # NoCall, call.to # "screen",
         UNCHANGED <<todo, screenVars>>, call' # NoCall,
         DOMAIN call' = {"to", "max", "loop", "put", "step", "buffer"}, call'.to = call.to
  PROVE  IsAt(steps, g, i)'
<1>1. Seeing' = Seeing /\ todo' = todo
  BY DEF Seeing, screenVars
<1>2. Saying(steps[i], g[i - 1])'
  BY <1>1 DEF IsAt, Saying
<1> QED BY <1>1, <1>2 DEF IsAt

LEMMA CallIs ==
  ASSUME NEW steps, NEW g, NEW i, IsAt(steps, g, i), call # NoCall
  PROVE  /\ DOMAIN call = {"to", "max", "loop", "put", "step", "buffer"}
         /\ \A c : DOMAIN c = {"to", "max", "loop", "put", "step", "buffer"} => c # NoCall
<1>1. DOMAIN call = {"to", "max", "loop", "put", "step", "buffer"}
  BY DEF IsAt, Saying
<1>2. "put" \notin DOMAIN NoCall
  BY DEF NoCall
<1> QED BY <1>1, <1>2

LEMMA FormatShows ==
  ASSUME NEW steps, NEW g, NEW i, IsAt(steps, g, i), FormatStringLoop
  PROVE  IsAt(steps, g, i)'
<1>1. /\ call # NoCall /\ UNCHANGED <<todo, screenVars>>
      /\ call.put = Len(call.loop.text) /\ ~Finished(call.loop)
      /\ call' = [call EXCEPT !.loop = Iterate(call.loop)]
  BY DEF FormatStringLoop, Calling, AllPut
<1>2. /\ DOMAIN call = {"to", "max", "loop", "put", "step", "buffer"}
      /\ \A c : DOMAIN c = {"to", "max", "loop", "put", "step", "buffer"} => c # NoCall
  BY <1>1, CallIs
<1>3. /\ DOMAIN call' = {"to", "max", "loop", "put", "step", "buffer"} /\ call' # NoCall
      /\ call'.to = call.to /\ call'.put = call.put /\ call'.loop = Iterate(call.loop)
  BY <1>1, <1>2
<1>4. CASE call.to # "screen"
  BY <1>1, <1>3, <1>4, ElsewhereShows
<1>5. CASE call.to = "screen"
  <2> DEFINE s == steps[i]
             v == g[i - 1]
             text == TextOf(s)
  <2>1. /\ i > 0 /\ s.op = "print" /\ call.to = s.to /\ i \in 0 .. Len(steps)
        /\ todo = SubSeq(steps, i + 1, Len(steps))
        /\ [loop |-> call.loop, text |-> text] \in Rendering
        /\ call.put \in 0 .. Len(call.loop.text)
        /\ Seeing = Seen(v.fg, v.bg, v.screen \o Cells(SubSeq(text, 1, call.put), v.fg, v.bg), v.front)
    BY <1>1, <1>5 DEF IsAt, Saying
  <2> HIDE DEF v, text
  <2>2. /\ [loop |-> Iterate(call.loop), text |-> text] \in Rendering
        /\ Len(call.loop.text) <= Len(Iterate(call.loop).text)
        /\ Len(call.loop.text) \in Nat /\ Len(Iterate(call.loop).text) \in Nat
    BY <1>1, <2>1, RenderedIs
  <2>3. call.put \in 0 .. Len(Iterate(call.loop).text)
    BY <2>1, <2>2
  <2>4. Seeing' = Seeing /\ todo' = todo
    BY <1>1 DEF Seeing, screenVars
  <2>5. Saying(s, v)'
    BY <1>3, <2>1, <2>2, <2>3, <2>4, <1>5 DEF Saying, text
  <2> QED BY <1>3, <2>1, <2>4, <2>5 DEF IsAt, v
<1> QED BY <1>4, <1>5

LEMMA PutShows ==
  ASSUME NEW steps, NEW g, NEW v, NEW w, Program(steps, g, v, w),
         NEW i \in 0 .. Len(steps), IsAt(steps, g, i), PutScreen
  PROVE  IsAt(steps, g, i)'
<1>1. /\ call # NoCall /\ UNCHANGED <<todo, fg, bg, front>> /\ call.to = "screen"
      /\ call.put # Len(call.loop.text)
      /\ call' = [call EXCEPT !.put = call.put + 1]
      /\ screen' = Append(screen, <<call.loop.text[call.put + 1], fg, bg>>)
  BY DEF PutScreen, PutNext, Calling, AllPut, NextChar
<1>2. /\ DOMAIN call = {"to", "max", "loop", "put", "step", "buffer"}
      /\ \A c : DOMAIN c = {"to", "max", "loop", "put", "step", "buffer"} => c # NoCall
  BY <1>1, CallIs
<1>3. /\ DOMAIN call' = {"to", "max", "loop", "put", "step", "buffer"} /\ call' # NoCall
      /\ call'.to = call.to /\ call'.put = call.put + 1 /\ call'.loop = call.loop
  BY <1>1, <1>2
<1> DEFINE s == steps[i]
           u == g[i - 1]
           text == TextOf(s)
           n == call.put
           f == u.fg
           b == u.bg
           a == u.screen
<1>4. /\ i > 0 /\ s.op = "print" /\ call.to = s.to
      /\ todo = SubSeq(steps, i + 1, Len(steps))
      /\ [loop |-> call.loop, text |-> text] \in Rendering
      /\ n \in 0 .. Len(call.loop.text)
      /\ Seeing = Seen(f, b, a \o Cells(SubSeq(text, 1, n), f, b), u.front)
  BY <1>1 DEF IsAt, Saying
<1>5. f \in Hues /\ b \in Hues /\ a \in Seq(Cell)
  <2>1. i - 1 \in 0 .. Len(steps)
    BY <1>4, ViewsAre
  <2> QED BY <2>1, ViewsAre
<1> HIDE DEF u, text, f, b, a
<1>6. /\ Len(call.loop.text) \in Nat /\ Len(text) \in Nat /\ Len(call.loop.text) <= Len(text)
      /\ text \in Seq(Ascii) /\ \A j \in 1 .. Len(call.loop.text) : call.loop.text[j] = text[j]
  BY <1>4, RenderedIs
<1>7. n \in 0 .. (Len(text) - 1) /\ n + 1 \in 0 .. Len(call.loop.text) /\ n + 1 \in 1 .. Len(call.loop.text)
  <2> DEFINE p == Len(call.loop.text)
             q == Len(text)
  <2>1. n \in 0 .. p /\ n # p /\ p \in Nat /\ q \in Nat /\ p <= q
    BY <1>1, <1>4, <1>6
  <2> HIDE DEF n, p, q
  <2>2. n \in 0 .. (q - 1) /\ n + 1 \in 0 .. p /\ n + 1 \in 1 .. p
    BY <2>1
  <2> QED BY <2>2 DEF p, q
<1>8. /\ fg = f /\ bg = b /\ screen = a \o Cells(SubSeq(text, 1, n), f, b) /\ front = u.front
  <2> DEFINE z == a \o Cells(SubSeq(text, 1, n), f, b)
  <2>1. Seeing = Seen(f, b, z, u.front)
    BY <1>4
  <2> HIDE DEF z
  <2>2. fg = f /\ bg = b /\ screen = z /\ front = u.front
    BY <2>1 DEF Seeing, Seen
  <2> QED BY <2>2 DEF z
<1>9. screen' = a \o Cells(SubSeq(text, 1, n + 1), f, b)
  <2>1. call.loop.text[n + 1] = text[n + 1]
    BY <1>6, <1>7
  <2>2. Append(a \o Cells(SubSeq(text, 1, n), f, b), <<text[n + 1], f, b>>)
          = a \o Cells(SubSeq(text, 1, n + 1), f, b)
    BY <1>5, <1>6, <1>7, OneMore
  <2>3. screen' = Append(screen, <<text[n + 1], f, b>>)
    BY <1>1, <1>8, <2>1
  <2> QED BY <1>8, <2>2, <2>3
<1>10. Seeing' = Seen(f, b, a \o Cells(SubSeq(text, 1, call'.put), f, b), u.front)
  <2>1. Seeing' = Seen(fg', bg', screen', front')
    BY DEF Seeing
  <2> QED BY <2>1, <1>1, <1>3, <1>8, <1>9
<1>11. Saying(s, u)'
  BY <1>1, <1>3, <1>4, <1>7, <1>10 DEF Saying, text, f, b, a
<1> QED BY <1>1, <1>3, <1>4, <1>11 DEF IsAt, u

LEMMA PutElsewhereShows ==
  ASSUME NEW steps, NEW g, NEW i, IsAt(steps, g, i), PutBuffer \/ SeWriteChar
  PROVE  IsAt(steps, g, i)'
<1>1. CASE PutBuffer
  <2>1. /\ call # NoCall /\ UNCHANGED <<todo, screenVars>> /\ call.to # "screen"
        /\ \E put, buffer : call' = [call EXCEPT !.put = put, !.buffer = buffer]
    BY <1>1 DEF PutBuffer, PutNext, Calling, screenVars
  <2>2. /\ DOMAIN call = {"to", "max", "loop", "put", "step", "buffer"}
        /\ \A c : DOMAIN c = {"to", "max", "loop", "put", "step", "buffer"} => c # NoCall
    BY <2>1, CallIs
  <2>3. DOMAIN call' = {"to", "max", "loop", "put", "step", "buffer"} /\ call'.to = call.to
    BY <2>1, <2>2
  <2> QED BY <2>1, <2>2, <2>3, ElsewhereShows
<1>2. CASE SeWriteChar
  <2>1. /\ call # NoCall /\ UNCHANGED <<todo, screenVars>> /\ call.to # "screen"
        /\ \E put : call' = [call EXCEPT !.put = put]
    BY <1>2 DEF SeWriteChar, PutNext, Calling, screenVars
  <2>2. /\ DOMAIN call = {"to", "max", "loop", "put", "step", "buffer"}
        /\ \A c : DOMAIN c = {"to", "max", "loop", "put", "step", "buffer"} => c # NoCall
    BY <2>1, CallIs
  <2>3. DOMAIN call' = {"to", "max", "loop", "put", "step", "buffer"} /\ call'.to = call.to
    BY <2>1, <2>2
  <2> QED BY <2>1, <2>2, <2>3, ElsewhereShows
<1> QED BY <1>1, <1>2

\* When a call returns, all of its text has been put.
LEMMA ReturnShows ==
  ASSUME NEW steps, NEW g, NEW v, NEW w, Program(steps, g, v, w),
         NEW i \in 0 .. Len(steps), IsAt(steps, g, i), Return
  PROVE  IsAt(steps, g, i)'
<1>1. /\ call # NoCall /\ UNCHANGED <<todo, screenVars>> /\ call' = NoCall
      /\ call.put = Len(call.loop.text) /\ Finished(call.loop)
  BY DEF Return, Calling, AllPut
<1> DEFINE s == steps[i]
           u == g[i - 1]
           text == TextOf(s)
<1>2. /\ i > 0 /\ s.op = "print" /\ call.to = s.to
      /\ todo = SubSeq(steps, i + 1, Len(steps))
      /\ s.to # "screen" => Seeing = u
      /\ s.to = "screen" =>
           /\ [loop |-> call.loop, text |-> text] \in Rendering
           /\ Seeing = Seen(u.fg, u.bg, u.screen \o Cells(SubSeq(text, 1, call.put), u.fg, u.bg), u.front)
  BY <1>1 DEF IsAt, Saying
<1>3. g[i] = After(u, s) /\ u \in View
  <2>1. i \in 1 .. Len(steps) /\ i - 1 \in 0 .. Len(steps)
    BY <1>2, ViewsAre
  <2> QED BY <2>1, ViewsAre
<1> HIDE DEF s, u, text
<1>4. u = Seen(u.fg, u.bg, u.screen, u.front)
  BY <1>3, ViewIsSeen
<1>5. After(u, s) = Seen(u.fg, u.bg, IF s.to = "screen" THEN u.screen \o Cells(text, u.fg, u.bg) ELSE u.screen,
                         u.front)
  BY <1>2 DEF After, Seen, text
<1>6. Seeing = g[i]
  <2>1. CASE s.to # "screen"
    BY <2>1, <1>2, <1>3, <1>4, <1>5
  <2>2. CASE s.to = "screen"
    <3>1. call.loop.text = text /\ text \in Seq(Ascii)
      BY <1>1, <1>2, <2>2, RenderedIs
    <3>2. SubSeq(text, 1, call.put) = text
      BY <1>1, <3>1, SubSeqFull
    <3> QED BY <2>2, <3>2, <1>2, <1>3, <1>5
  <2> QED BY <2>1, <2>2
<1>7. Seeing' = Seeing
  BY <1>1 DEF Seeing, screenVars
<1> QED BY <1>1, <1>2, <1>6, <1>7 DEF IsAt

\* The kernel's and the UART's steps stay with the program.
LEMMA KernelShows ==
  ASSUME NEW steps, NEW g, NEW v, NEW w, Program(steps, g, v, w),
         NEW i \in 0 .. Len(steps), IsAt(steps, g, i),
         Kernel \/ UartShift \/ UNCHANGED consoleVars
  PROVE  /\ \E j \in 0 .. Len(steps) : IsAt(steps, g, j)'
         /\ UNCHANGED <<fault, shows>>
<1>1. UNCHANGED <<fault, shows>>
  BY DEF Kernel, Printf, SeInit, FtSetFg, FtSetBg, FbUpdate, IdtInit, Done, Call, FormatStringLoop,
         PutScreen, PutBuffer, SeWriteChar, PutNext, Return, SeSetup, SeLoopback, SeTest, SeCheck,
         InSeInit, UartShift, consoleVars
<1> SUFFICES \E j \in 0 .. Len(steps) : IsAt(steps, g, j)'
  BY <1>1
<1>2. CASE FtSetFg \/ FtSetBg \/ FbUpdate \/ IdtInit \/ SeCheck
  BY <1>2, ScreenStepShows
<1>3. CASE Call
  BY <1>3, CallShows
<1>4. CASE FormatStringLoop
  BY <1>4, FormatShows
<1>5. CASE PutScreen
  BY <1>5, PutShows
<1>6. CASE PutBuffer \/ SeWriteChar
  BY <1>6, PutElsewhereShows
<1>7. CASE Return
  BY <1>7, ReturnShows
<1>8. CASE SeSetup \/ SeLoopback \/ SeTest \/ UartShift \/ UNCHANGED consoleVars
  <2>1. UNCHANGED <<todo, call, screenVars>>
    BY <1>8 DEF SeSetup, SeLoopback, SeTest, InSeInit, UartShift, consoleVars
  <2> QED BY <2>1, NothingShows
<1> QED BY <1>2, <1>3, <1>4, <1>5, <1>6, <1>7, <1>8 DEF Kernel, Printf, SeInit

\* At the start nothing is done and nothing is shown.
LEMMA StartShows ==
  ASSUME NEW steps, NEW g, NEW v, NEW w, Own(steps), Run(g, steps, v, w),
         todo' = steps, call' = NoCall, Seeing' = v
  PROVE  \E i \in 0 .. Len(steps) : IsAt(steps, g, i)'
<1> DEFINE A == ToSet(steps)
<1>1. steps \in Seq(A)
  BY DEF Own
<1> HIDE DEF A
<1>2. Len(steps) \in Nat /\ SubSeq(steps, 1, Len(steps)) = steps
  BY <1>1, LenProperties, SubSeqFull
<1>3. 0 \in 0 .. Len(steps) /\ 0 + 1 = 1 /\ g[0] = v
  BY <1>2 DEF Run
<1>4. IsAt(steps, g, 0)'
  BY <1>2, <1>3 DEF IsAt
<1> QED BY <1>3, <1>4

LEMMA ProgramsSpeak ==
  /\ \A p \in Programs : Own(p.steps) /\
       \A s \in ToSet(p.steps) : s.op = "print" /\ s.to = "screen" => s \in Messages
  /\ Own(Panic(Texts["panic"])) /\
       \A s \in ToSet(Panic(Texts["panic"])) : s.op = "print" /\ s.to = "screen" => s \in Messages
<1>1. ASSUME NEW p \in Programs, NEW s \in ToSet(p.steps), s.op = "print", s.to = "screen"
      PROVE  s \in Messages
  <2>1. CASE p.steps = KeStart \/ p.steps = OtherLogs
    BY <1>1, <2>1 DEF Messages
  <2>2. ASSUME NEW c \in Calls, p.steps = <<c>> PROVE FALSE
    <3>1. s = c
      BY <2>2 DEF ToSet
    <3>2. c.to = "buffer"
      BY <2>2, MessagesAssumption
    <3> QED BY <1>1, <3>1, <3>2
  <2> QED BY <2>1, <2>2 DEF Programs
<1>2. Own(Panic(Texts["panic"]))
  <2>1. \A a, b, c, d, e, f, g :
          <<a, b, c, d, e, f, g>> \in Seq({a, b, c, d, e, f, g})
    OBVIOUS
  <2>2. \A a, b, c, d, e, f, g : Own(<<a, b, c, d, e, f, g>>)
    BY <2>1, IsItsOwnSeq DEF Own
  <2> QED BY <2>2 DEF Panic
<1>3. \A p \in Programs : Own(p.steps)
  BY ProgramsAreSeqs DEF Own
<1> QED BY <1>1, <1>2, <1>3 DEF Messages

LEMMA InitShows == ConsoleInit => ShowIInv
<1> SUFFICES ASSUME ConsoleInit PROVE ShowIInv
  OBVIOUS
<1>1. PICK p \in Programs : todo = p.steps /\ shows = p.shows
  BY DEF ConsoleInit
<1>2. PICK w \in View : /\ p.shows \in Seq(Cell) /\ w.screen = p.shows /\ w.front = p.shows
                        /\ Leads(p.steps, Blank, w)
  BY ProgramsLead
<1>3. PICK g : Run(g, p.steps, Blank, w)
  BY <1>2 DEF Leads
<1> DEFINE steps == p.steps
<1>4. Program(steps, g, Blank, w)
  BY <1>2, <1>3, ProgramsSpeak, BlankView DEF Program
<1>5. Seeing = Blank /\ call = NoCall /\ fault = -1
  BY DEF ConsoleInit, Seeing, Blank
<1>6. Own(steps) /\ Run(g, steps, Blank, w) /\ todo = steps
  BY <1>1, <1>3, ProgramsSpeak
<1> HIDE DEF steps
<1>7. \E i \in 0 .. Len(steps) : IsAt(steps, g, i)
  <2> DEFINE A == ToSet(steps)
  <2>1. steps \in Seq(A)
    BY <1>6 DEF Own
  <2> HIDE DEF A
  <2>2. Len(steps) \in Nat /\ SubSeq(steps, 1, Len(steps)) = steps
    BY <2>1, LenProperties, SubSeqFull
  <2>3. 0 \in 0 .. Len(steps) /\ 0 + 1 = 1 /\ g[0] = Blank
    BY <1>6, <2>2 DEF Run
  <2>4. IsAt(steps, g, 0)
    BY <1>5, <1>6, <2>2, <2>3 DEF IsAt
  <2> QED BY <2>3, <2>4
<1> QED BY <1>1, <1>2, <1>4, <1>5, <1>7 DEF ShowIInv

\* A panic's steps are the program after a fault, whatever was on the screen.
LEMMA FaultShows == ShowIInv /\ IsrHandler => ShowIInv'
<1> SUFFICES ASSUME ShowIInv, IsrHandler PROVE ShowIInv'
  OBVIOUS
<1>1. /\ fault = -1 /\ fault' = Len(screen) /\ todo' = Panic(Texts["panic"]) /\ call' = NoCall
      /\ UNCHANGED <<screenVars, shows>>
  BY DEF IsrHandler
<1>2. PICK steps, g, v, w : /\ Program(steps, g, v, w) /\ v = Blank /\ w.screen = shows
                            /\ \E i \in 0 .. Len(steps) : IsAt(steps, g, i)
  BY <1>1 DEF ShowIInv
<1>3. Seeing \in View /\ screen \in Seq(Cell) /\ Continues(screen, shows)
  BY <1>2, OnTheWay
<1> DEFINE panic == Panic(Texts["panic"])
           z == screen \o PanicShows
           u == Seen(White, Black, z, z)
           q == Seeing
<1>4. Leads(panic, q, u) /\ PanicShows \in Seq(Cell)
  <2>1. Seeing.screen = screen
    BY SeenIs
  <2> QED BY <1>3, <2>1, PanicLeads
<1>5. z \in Seq(Cell)
  BY <1>3, <1>4, ConcatProperties
<1> HIDE DEF z
<1>6. u \in View /\ u.screen = z /\ u.front = z
  <2>1. u \in View
    BY <1>5, BlankView, SeenIsView
  <2> QED BY <2>1, SeenIs
<1> HIDE DEF panic, u
<1>7. Seeing' = q /\ q \in View /\ q.screen = screen
  <2>1. Seeing' = Seeing
    BY <1>1 DEF Seeing, screenVars
  <2> QED BY <2>1, <1>3, SeenIs
<1> HIDE DEF q
<1>8. PICK h : Run(h, panic, q, u)
  BY <1>4 DEF Leads
<1>9. Program(panic, h, q, u)
  BY <1>6, <1>7, <1>8, ProgramsSpeak DEF Program, panic
<1>10. \E i \in 0 .. Len(panic) : IsAt(panic, h, i)'
  <2>1. Own(panic) /\ todo' = panic
    BY <1>1, ProgramsSpeak DEF panic
  <2> QED BY <1>1, <1>7, <1>8, <2>1, StartShows
<1>11. fault' # -1
  <2>1. Len(screen) \in Nat
    BY <1>3, LenProperties
  <2> QED BY <2>1, <1>1
<1>12. shows' = shows /\ shows \in Seq(Cell)
  BY <1>1 DEF ShowIInv
<1>13. fault' = Len(q.screen) /\ Continues(q.screen, shows) /\ u.screen = q.screen \o PanicShows
  BY <1>1, <1>3, <1>6, <1>7 DEF z
<1> QED BY <1>9, <1>10, <1>11, <1>12, <1>13 DEF ShowIInv

LEMMA StepKeepsShowIInv == ShowIInv /\ [ConsoleNext]_consoleVars => ShowIInv'
<1> SUFFICES ASSUME ShowIInv, [ConsoleNext]_consoleVars PROVE ShowIInv'
  OBVIOUS
<1>1. CASE IsrHandler
  BY <1>1, FaultShows
<1>2. CASE Kernel \/ UartShift \/ UNCHANGED consoleVars
  <2>1. PICK steps, g, v, w :
          /\ Program(steps, g, v, w)
          /\ \E i \in 0 .. Len(steps) : IsAt(steps, g, i)
          /\ fault = -1 => v = Blank /\ w.screen = shows
          /\ fault # -1 => /\ fault = Len(v.screen) /\ Continues(v.screen, shows)
                           /\ w.screen = v.screen \o PanicShows
    BY DEF ShowIInv
  <2>2. (\E j \in 0 .. Len(steps) : IsAt(steps, g, j)') /\ fault' = fault /\ shows' = shows
    BY <1>2, <2>1, KernelShows
  <2>3. shows \in Seq(Cell)
    BY DEF ShowIInv
  <2> QED BY <2>1, <2>2, <2>3 DEF ShowIInv
<1> QED BY <1>1, <1>2 DEF ConsoleNext

LEMMA CancelCells == \A a, b, c \in Seq(Cell) : a \o b = a \o c => b = c
BY ConcatSimplifications

LEMMA ContinuesIs ==
  ASSUME NEW a \in Seq(Cell), NEW b \in Seq(Cell), Continues(a, b)
  PROVE  /\ IsPrefix(a, b) /\ Len(a) \in Nat /\ Len(b) \in Nat /\ SubSeq(b, 1, Len(a)) = a
         /\ SubSeq(b, Len(a) + 1, Len(b)) \in Seq(Cell)
         /\ b = a \o SubSeq(b, Len(a) + 1, Len(b))
<1>1. PICK r \in Seq(Cell) : b = a \o r
  BY DEF Continues
<1> DEFINE n == Len(a)
           start == SubSeq(b, 1, n)
           rest == SubSeq(b, n + 1, Len(b))
<1>2. n \in Nat /\ Len(b) \in Nat /\ n <= Len(b) /\ \A j \in 1 .. n : b[j] = a[j]
  BY <1>1, ConcatProperties, LenProperties
<1>3. n \in 0 .. Len(b)
  BY <1>2
<1>4. start = a
  <2>1. start \in Seq(Cell) /\ Len(start) = n /\ \A j \in 1 .. n : start[j] = b[j]
    BY <1>3, FrontIs
  <2> HIDE DEF start
  <2>2. \A j \in 1 .. n : start[j] = a[j]
    BY <1>2, <2>1
  <2> QED BY <2>1, <2>2, SeqEqual
<1>5. rest \in Seq(Cell)
  <2>1. \A j \in (n + 1) .. Len(b) : j \in 1 .. Len(b)
    BY <1>2
  <2>2. \A j \in (n + 1) .. Len(b) : b[j] \in Cell
    BY <2>1, ElementOfSeq
  <2>3. n + 1 \in Int /\ Len(b) \in Int
    BY <1>2
  <2> HIDE DEF n
  <2> QED BY <2>2, <2>3, SubSeqProperties
<1>6. start \o rest = b
  <2>1. 1 \in 1 .. (Len(b) + 1) /\ n \in (1 - 1) .. Len(b) /\ Len(b) \in n .. Len(b)
    BY <1>2
  <2> HIDE DEF n
  <2>2. start \o rest = SubSeq(b, 1, Len(b))
    BY <2>1, ConcatAdjacentSubSeq
  <2> QED BY <2>2, SubSeqFull
<1>7. SubSeq(a, 1, n) = a
  BY SubSeqFull
<1> QED BY <1>2, <1>4, <1>5, <1>6, <1>7 DEF IsPrefix

\* What is shown follows from the invariant.
LEMMA ShowFollows == ShowIInv => ShowsLogAndPanic
<1> SUFFICES ASSUME ShowIInv PROVE ShowsLogAndPanic
  OBVIOUS
<1>1. PICK steps, g, v, w :
        /\ Program(steps, g, v, w)
        /\ \E i \in 0 .. Len(steps) : IsAt(steps, g, i)
        /\ fault = -1 => v = Blank /\ w.screen = shows
        /\ fault # -1 => /\ fault = Len(v.screen) /\ Continues(v.screen, shows)
                         /\ w.screen = v.screen \o PanicShows
  BY DEF ShowIInv
<1>2. PICK i \in 0 .. Len(steps) : IsAt(steps, g, i)
  BY <1>1
<1>3. screen \in Seq(Cell) /\ Continues(v.screen, screen) /\ Continues(screen, w.screen)
  BY <1>1, <1>2, OnTheWay
<1>4. v.screen \in Seq(Cell) /\ w.screen \in Seq(Cell) /\ shows \in Seq(Cell) /\ PanicShows \in Seq(Cell)
  BY <1>1, PanicLeads DEF Program, View, ShowIInv
<1>5. todo = <<>> /\ call = NoCall => screen = w.screen /\ front = w.screen
  <2> SUFFICES ASSUME todo = <<>>, call = NoCall PROVE screen = w.screen /\ front = w.screen
    OBVIOUS
  <2>1. Own(steps) /\ SubSeq(steps, i + 1, Len(steps)) = <<>> /\ Seeing = g[i] /\ w.front = w.screen
    BY <1>1, <1>2 DEF IsAt, Program
  <2>2. i = Len(steps)
    BY <2>1, NoStep
  <2>3. Seeing = w
    BY <1>1, <2>1, <2>2, ViewsAre
  <2> QED BY <2>1, <2>3, SeenIs
<1>6. CASE fault = -1
  <2>1. IsPrefix(screen, shows)
    BY <1>1, <1>3, <1>4, <1>6, ContinuesIs
  <2> QED BY <1>1, <1>5, <1>6, <2>1 DEF ShowsLogAndPanic
<1>7. CASE fault # -1
  <2> DEFINE rest == SubSeq(screen, fault + 1, Len(screen))
             a == v.screen
  <2>1. fault = Len(a) /\ Continues(a, shows) /\ w.screen = a \o PanicShows
    BY <1>1, <1>7
  <2> HIDE DEF a
  <2>2. a \in Seq(Cell) /\ Continues(a, screen)
    BY <1>3, <1>4 DEF a
  <2>3. SubSeq(screen, 1, fault) = a /\ IsPrefix(a, shows) /\ rest \in Seq(Cell) /\ screen = a \o rest
    BY <1>3, <1>4, <2>1, <2>2, ContinuesIs
  <2> HIDE DEF rest
  <2>4. IsPrefix(rest, PanicShows)
    <3>1. PICK r \in Seq(Cell) : w.screen = screen \o r
      BY <1>3 DEF Continues
    <3>2. a \o PanicShows = a \o (rest \o r)
      <4>1. (a \o rest) \o r = a \o (rest \o r)
        <5>1. Joint(Joint(a, rest), r) = Joint(a, Joint(rest, r))
          BY <2>2, <2>3, JointIs
        <5> QED BY <5>1 DEF Joint
      <4> QED BY <2>1, <2>3, <3>1, <4>1
    <3> DEFINE z == rest \o r
    <3>3. z \in Seq(Cell)
      BY <2>3, ConcatProperties
    <3>4. Continues(rest, z)
      BY DEF Continues
    <3>5. a \o PanicShows = a \o z
      BY <3>2
    <3> HIDE DEF z
    <3>6. PanicShows = z
      BY <1>4, <2>2, <3>3, <3>5, CancelCells
    <3> QED BY <2>3, <3>3, <3>4, <3>6, ContinuesIs
  <2>5. screen = w.screen => rest = PanicShows
    <3> SUFFICES ASSUME screen = w.screen PROVE rest = PanicShows
      OBVIOUS
    <3>1. a \o rest = a \o PanicShows
      BY <2>1, <2>3
    <3> QED BY <1>4, <2>2, <2>3, <3>1, CancelCells
  <2>6. /\ IsPrefix(SubSeq(screen, 1, fault), shows)
        /\ todo = <<>> /\ call = NoCall => rest = PanicShows /\ front = screen
    BY <1>5, <2>3, <2>5
  <2> QED BY <1>7, <2>4, <2>6 DEF ShowsLogAndPanic, PanicShows, rest
<1> QED BY <1>6, <1>7

\* The inductive invariant of what the screen shows holds in every reachable
\* state.
THEOREM ShowInvariance == ConsoleSpec => []ShowIInv
<1>1. ConsoleInit => ShowIInv
  BY InitShows
<1>2. ShowIInv /\ [ConsoleNext]_consoleVars => ShowIInv'
  BY StepKeepsShowIInv
<1> QED BY <1>1, <1>2, PTL DEF ConsoleSpec

\* The screen shows the log up to where the kernel is, each line's status in
\* its colour; a panic follows what it interrupted, in black on red, is shown
\* whole and is the last thing shown.
THEOREM ScreenShowsLogAndPanic == ConsoleSpec => []ShowsLogAndPanic
<1>1. ShowIInv => ShowsLogAndPanic
  BY ShowFollows
<1> QED BY <1>1, ShowInvariance, PTL
=============================================================================
