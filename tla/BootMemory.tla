----------------------------- MODULE BootMemory -----------------------------
(***************************************************************************)
(* How KeStart divides the memory map of the boot loader: FbInit cuts the  *)
(* back buffer out of the first entry that is large enough, PmInit sizes   *)
(* the frame bitmap, cuts it out of the first usable entry that is large   *)
(* enough, and clears the bits of the usable pages entry by entry.         *)
(*                                                                         *)
(* Addresses and lengths are bytes.  A page has PageSize bytes and a byte  *)
(* ByteBits bits (4096 and 8 in the code).  A write through a null pointer *)
(* stops the machine: page 0 is not mapped and no handler is installed.    *)
(***************************************************************************)
EXTENDS Integers, Sequences, FiniteSets, FiniteSetsExt

CONSTANTS
  PageSize,    \* bytes in a page
  ByteBits,    \* bits in a byte
  MemMaps,     \* the memory maps the boot loader may hand over
  FbSizes,     \* values of fbWidth * fbHeight * 4
  StackJunk    \* what the uninitialised higherAddr of PmInit may hold

ASSUME UnitsAssumption ==
  /\ PageSize \in Nat \ {0}
  /\ ByteBits \in Nat \ {0}
  /\ FbSizes \subseteq Nat \ {0}
  /\ StackJunk \subseteq Nat

VARIABLES
  entries,     \* pMmapRes->entries, edited in place
  given,       \* history: the map as the boot loader handed it over
  fbBytes,     \* fbWidth * fbHeight * 4
  pBackAddr,   \* start of the back buffer, or Null
  higherAddr,  \* PmInit's local variable
  bitmapSize,
  bitmapBase,  \* start of the bitmap, or Null
  pBitmap,     \* indices of the bits that are 1
  strayBits,   \* history: indices cleared outside the bitmap
  freePages,
  k,           \* PmInit's loop variable over the entries
  phase        \* where KeStart is

vars == <<entries, given, fbBytes, pBackAddr, higherAddr, bitmapSize,
          bitmapBase, pBitmap, strayBits, freePages, k, phase>>

Null == -1

Usable == "MEMMAP_USABLE"
Reclaimable == "MEMMAP_BOOTLOADER_RECLAIMABLE"

alignUp(x, y) == ((x + (y - 1)) \div y) * y

Bytes(base, length) == base .. (base + length - 1)
PagesOf(base, length) == {a \div PageSize : a \in Bytes(base, length)}
Bits == 0 .. (bitmapSize * ByteBits - 1)

UsableEntries(map) == {j \in DOMAIN map : map[j].type = Usable}
Ends(map) == {map[j].base + map[j].length : j \in UsableEntries(map)}

\* The boot loader's usable entries end with a page.
ASSUME MapsAssumption ==
  \A map \in MemMaps :
    /\ map \in Seq([type : STRING, base : Nat, length : Nat])
    /\ \A end \in Ends(map) : end % PageSize = 0

MemoryEntries(map) == {j \in DOMAIN map : map[j].type \in {Usable, Reclaimable}}

\* They begin with a page too, and entries of memory do not overlap.
ASSUME LayoutAssumption ==
  \A map \in MemMaps :
    /\ \A j \in UsableEntries(map) : map[j].base % PageSize = 0
    /\ \A i, j \in MemoryEntries(map) :
         i # j => Bytes(map[i].base, map[i].length)
                    \cap Bytes(map[j].base, map[j].length) = {}

Init ==
  /\ given \in MemMaps
  /\ entries = given
  /\ fbBytes \in FbSizes
  /\ higherAddr \in StackJunk
  /\ pBackAddr = Null /\ bitmapBase = Null
  /\ bitmapSize = 0 /\ pBitmap = {} /\ strayBits = {} /\ freePages = 0
  /\ k = 1
  /\ phase = "FbInit"

\* base += n, length -= n of entry j
Cut(map, j, n) ==
  [map EXCEPT ![j].base = @ + n, ![j].length = @ - n]

\* The first entry of one of the types that has room for n bytes.
FirstWithRoom(types, n) ==
  {j \in DOMAIN entries :
     /\ entries[j].type \in types /\ entries[j].length >= n
     /\ \A m \in 1 .. (j - 1) :
          ~(entries[m].type \in types /\ entries[m].length >= n)}

-----------------------------------------------------------------------------
(* FbInit *)

\* The PSF magic is wrong: FbInit returns 1, KeStart logs it and goes on.
FbInitBadFont ==
  /\ phase = "FbInit"
  /\ phase' = "PmInit"
  /\ UNCHANGED <<entries, given, fbBytes, pBackAddr, higherAddr, bitmapSize,
                 bitmapBase, pBitmap, strayBits, freePages, k>>

FbInitCarve ==
  /\ phase = "FbInit"
  /\ \E j \in FirstWithRoom({Reclaimable, Usable}, fbBytes) :
       /\ pBackAddr' = entries[j].base
       /\ entries' = Cut(entries, j, fbBytes)
  /\ phase' = "PmInit"
  /\ UNCHANGED <<given, fbBytes, higherAddr, bitmapSize, bitmapBase,
                 pBitmap, strayBits, freePages, k>>

\* No entry has room: memset writes through the null pBackAddr.
FbInitNoRoom ==
  /\ phase = "FbInit"
  /\ FirstWithRoom({Reclaimable, Usable}, fbBytes) = {}
  /\ phase' = "faulted"
  /\ UNCHANGED <<entries, given, fbBytes, pBackAddr, higherAddr, bitmapSize,
                 bitmapBase, pBitmap, strayBits, freePages, k>>

-----------------------------------------------------------------------------
(* PmInit *)

\* Mutant: bitmapSize is not rounded up to whole pages.
SizeBitmapUnrounded(top) == (top \div PageSize) \div ByteBits

SizeBitmap(top) == alignUp((top \div PageSize) \div ByteBits, PageSize)

\* The highest end of a usable entry, unless the junk higherAddr started
\* with is higher; then bitmapSize from it.
PmInitSize ==
  /\ phase = "PmInit"
  /\ higherAddr' \in {higherAddr} \cup Ends(entries)
  /\ \A end \in {higherAddr} \cup Ends(entries) : end <= higherAddr'
  /\ bitmapSize' = SizeBitmap(higherAddr')
  /\ phase' = "PmPlace"
  /\ UNCHANGED <<entries, given, fbBytes, pBackAddr, bitmapBase, pBitmap,
                 strayBits, freePages, k>>

\* Mutants: the bitmap is placed but its entry is not cut; it is filled
\* with 0 instead of 0xff.
PmInitPlaceNoCut ==
  /\ phase = "PmPlace"
  /\ \E j \in FirstWithRoom({Usable}, bitmapSize) : bitmapBase' = entries[j].base
  /\ pBitmap' = Bits
  /\ phase' = "PmMark"
  /\ UNCHANGED <<entries, given, fbBytes, pBackAddr, higherAddr, bitmapSize,
                 strayBits, freePages, k>>

PmInitPlaceZeroed ==
  /\ phase = "PmPlace"
  /\ \E j \in FirstWithRoom({Usable}, bitmapSize) :
       /\ bitmapBase' = entries[j].base
       /\ entries' = Cut(entries, j, bitmapSize)
  /\ pBitmap' = {}
  /\ phase' = "PmMark"
  /\ UNCHANGED <<given, fbBytes, pBackAddr, higherAddr, bitmapSize,
                 strayBits, freePages, k>>

\* The bitmap takes the front of the first usable entry with room; all bits
\* are set.
PmInitPlace ==
  /\ phase = "PmPlace"
  /\ \E j \in FirstWithRoom({Usable}, bitmapSize) :
       /\ bitmapBase' = entries[j].base
       /\ entries' = Cut(entries, j, bitmapSize)
  /\ pBitmap' = Bits
  /\ phase' = "PmMark"
  /\ UNCHANGED <<given, fbBytes, pBackAddr, higherAddr, bitmapSize,
                 strayBits, freePages, k>>

\* No entry has room: memset writes through the null pBitmap, unless the
\* size is 0 and there is no usable entry at all.
PmInitNoRoom ==
  /\ phase = "PmPlace"
  /\ FirstWithRoom({Usable}, bitmapSize) = {}
  /\ phase' = IF bitmapSize = 0 THEN "PmMark" ELSE "faulted"
  /\ UNCHANGED <<entries, given, fbBytes, pBackAddr, higherAddr, bitmapSize,
                 bitmapBase, pBitmap, strayBits, freePages, k>>

\* Mutant: the loop includes l = length.
IndicesOfOneMore(e) ==
  {(e.base + l) \div PageSize :
     l \in {n \in 0 .. e.length : n % PageSize = 0}}

\* The indices the inner loop clears for entry e: one for each l = 0,
\* PageSize, 2 * PageSize, ... below the length.
IndicesOf(e) ==
  {(e.base + l) \div PageSize :
     l \in {n \in 0 .. (e.length - 1) : n % PageSize = 0}}

PageCount(e) == alignUp(e.length, PageSize) \div PageSize

PmInitMark ==
  /\ phase = "PmMark"
  /\ k \in DOMAIN entries
  /\ IF entries[k].type = Usable
       THEN /\ pBitmap' = pBitmap \ IndicesOf(entries[k])
            /\ strayBits' = strayBits \cup (IndicesOf(entries[k]) \ Bits)
            /\ freePages' = freePages + PageCount(entries[k])
       ELSE UNCHANGED <<pBitmap, strayBits, freePages>>
  /\ k' = k + 1
  /\ UNCHANGED <<entries, given, fbBytes, pBackAddr, higherAddr, bitmapSize,
                 bitmapBase, phase>>

\* Back in KeStart: the first LogWrite draws into the back buffer, which
\* FbInit left null when the font was bad.
FirstLogWrite ==
  /\ phase = "PmMark"
  /\ k \notin DOMAIN entries
  /\ phase' = IF pBackAddr = Null THEN "faulted" ELSE "up"
  /\ UNCHANGED <<entries, given, fbBytes, pBackAddr, higherAddr, bitmapSize,
                 bitmapBase, pBitmap, strayBits, freePages, k>>

Next ==
  \/ FbInitBadFont \/ FbInitCarve \/ FbInitNoRoom
  \/ PmInitSize \/ PmInitPlace \/ PmInitNoRoom \/ PmInitMark
  \/ FirstLogWrite

Spec == Init /\ [][Next]_vars

-----------------------------------------------------------------------------
(* Properties. *)

Marked == phase = "up"
ClearBits == Bits \ pBitmap

BackBuffer == IF pBackAddr = Null THEN {} ELSE Bytes(pBackAddr, fbBytes)
Bitmap == IF bitmapBase = Null THEN {} ELSE Bytes(bitmapBase, bitmapSize)
PageBytes(f) == Bytes(f * PageSize, PageSize)

UsablePages ==
  UNION {PagesOf(given[j].base, given[j].length) : j \in UsableEntries(given)}

\* A page can be allocated exactly when it is usable memory that the back
\* buffer and the bitmap do not fill: nothing else is given out, and no
\* page is forgotten, whatever entries the two were cut from.  freePages is
\* the number of bits cleared for them.
FreePagesAreTheRest ==
  Marked =>
    /\ ClearBits \cup strayBits =
         {f \in UsablePages : ~(PageBytes(f) \subseteq BackBuffer \cup Bitmap)}
    /\ freePages = Cardinality(ClearBits) + Cardinality(strayBits)

\* The back buffer and the bitmap share no byte, and are out of the
\* allocator's reach as long as a screen is a whole number of pages; otherwise
\* only the page that holds the end of one of them can be given out a second
\* time.
BuffersAreKept ==
  Marked =>
    /\ BackBuffer \cap Bitmap = {}
    /\ fbBytes % PageSize = 0 =>
         \A f \in ClearBits : PageBytes(f) \cap (BackBuffer \cup Bitmap) = {}
    /\ \A f \in ClearBits, buffer \in {BackBuffer, Bitmap} :
         PageBytes(f) \cap buffer # {} => Max(buffer) \in PageBytes(f)

\* PmInit clears bits behind the bitmap only when the division by 8 lost
\* some pages and the rounding to whole pages did not make up for them; the
\* bits are then those of the last, incomplete byte.
Truncated ==
  LET pages == higherAddr \div PageSize
  IN  pages % ByteBits # 0 /\ (pages \div ByteBits) % PageSize = 0

BitsStayInBitmap ==
  Marked =>
    /\ strayBits # {} => Truncated
    /\ \A b \in strayBits : b \div ByteBits = bitmapSize

\* PmInit leaves what PageFrames assumes, a set bit at or above bitmapSize,
\* unless the pages up to the highest address fill the bitmap to its end.
Fills == higherAddr \div PageSize >= bitmapSize * ByteBits

LeavesHoleForPmFindFree ==
  Marked /\ ~Fills => \E b \in Bits : b >= bitmapSize /\ b \in pBitmap
=============================================================================
