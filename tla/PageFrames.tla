----------------------------- MODULE PageFrames -----------------------------
(***************************************************************************)
(* The physical page frame allocator of arch/x86_64/mm/pfa.c after PmInit: *)
(* the bitmap, the next-fit search of PmFindFree one loop iteration at a   *)
(* time, PmRequest and PmFree.                                             *)
(*                                                                         *)
(* A frame is its index (address / pageSize).  pBitmap is the set of the   *)
(* indices whose bit is 1.  The bitmap has BitmapSize bytes of ByteBits    *)
(* bits; the code has 8 bits to a byte, the checked instances fewer.       *)
(*                                                                         *)
(* Callers are modelled by Holders, the allocations that may be live at    *)
(* once: a holder asks for a run of frames with PmRequest and later passes *)
(* exactly that run to PmFree, as HpAlloc and HpFree do.                   *)
(***************************************************************************)
EXTENDS Integers, FiniteSets

CONSTANTS
  BitmapSize,  \* bitmapSize, in bytes
  ByteBits,    \* bits in a byte of the bitmap
  Usable,      \* the frames whose bits PmInit clears
  Holders,     \* allocations that may be live at once
  Nobody,      \* no PmRequest is running
  Nums         \* the lengths PmRequest is called with

Bits == 0 .. (BitmapSize * ByteBits - 1)

ASSUME SizesAssumption ==
  /\ BitmapSize \in Nat \ {0}
  /\ ByteBits \in Nat \ {0}

\* PmInit clears bits inside the bitmap only, and at least one bit at or
\* above index bitmapSize stays set: the bits that pad the bitmap to whole
\* pages, or a hole of the memory map (BootMemory checks PmInit for this).
ASSUME UsableAssumption ==
  /\ Usable \subseteq Bits
  /\ \E b \in Bits : b >= BitmapSize /\ b \notin Usable

\* HpAlloc, the only caller of PmRequest, never asks for 0 pages.
ASSUME CallersAssumption ==
  /\ Nums \subseteq Nat \ {0}
  /\ Nobody \notin Holders

VARIABLES
  pBitmap,    \* indices of the bits that are 1
  lastIdx,    \* where the search stands; kept from call to call
  freePages,  \* the count PmInit made
  i,          \* PmFindFree's loop variable: length of the run found so far
  num,        \* the argument of PmRequest and PmFindFree
  asker,      \* the holder whose PmRequest is running, or Nobody
  grant,      \* history: the frames each holder was given and has not freed
  scanFrom    \* history: lastIdx when this pass of the search began

pmVars == <<pBitmap, lastIdx, freePages>>
vars == <<pBitmap, lastIdx, freePages, i, num, asker, grant, scanFrom>>

Run(start, n) == start .. (start + n - 1)

ClearBits == Bits \ pBitmap

TypeOK ==
  /\ pBitmap \subseteq Bits
  /\ lastIdx \in 0 .. (BitmapSize + 1)
  /\ freePages \in Nat
  /\ i \in Nat
  /\ num \in Nums
  /\ asker \in Holders \cup {Nobody}
  /\ grant \in [Holders -> SUBSET Bits]
  /\ scanFrom \in 0 .. (BitmapSize + 1)

\* The state PmInit leaves: every bit set but those of the usable frames.
Init ==
  /\ pBitmap = Bits \ Usable
  /\ lastIdx = 0
  /\ freePages = Cardinality(Usable)
  /\ i = 0
  /\ num \in Nums
  /\ asker = Nobody
  /\ grant = [h \in Holders |-> {}]
  /\ scanFrom = 0

-----------------------------------------------------------------------------
(* PmRequest(num), which calls PmFindFree(num) at once. *)

PmRequest(h, n) ==
  /\ asker = Nobody
  /\ grant[h] = {}
  /\ asker' = h
  /\ num' = n
  /\ i' = 0
  /\ scanFrom' = lastIdx
  /\ UNCHANGED <<pmVars, grant>>

Searching == asker # Nobody /\ i < num

\* Mutant: the bound in bits, off by one.
PastLastBit == lastIdx > BitmapSize * ByteBits

\* The search compares a bit index with a count of bytes.
PastLastStart == lastIdx > BitmapSize

\* PmFindFree returns -1; PmRequest logs and returns -1 to its caller.
GiveUp ==
  /\ Searching
  /\ PastLastStart
  /\ freePages < num
  /\ asker' = Nobody
  /\ UNCHANGED <<pmVars, i, num, grant, scanFrom>>

\* Mutant: lastIdx = 0 is missing.
WrapAroundInPlace ==
  /\ Searching
  /\ PastLastStart
  /\ freePages >= num
  /\ i' = 0
  /\ scanFrom' = lastIdx
  /\ UNCHANGED <<pBitmap, lastIdx, freePages, num, asker, grant>>

\* return PmFindFree(num): a new pass from bit 0.
WrapAround ==
  /\ Searching
  /\ PastLastStart
  /\ freePages >= num
  /\ lastIdx' = 0
  /\ i' = 0
  /\ scanFrom' = 0
  /\ UNCHANGED <<pBitmap, freePages, num, asker, grant>>

ExtendRun ==
  /\ Searching
  /\ ~PastLastStart
  /\ i + lastIdx \notin pBitmap
  /\ i' = i + 1
  /\ UNCHANGED <<pmVars, num, asker, grant, scanFrom>>

\* Mutant: the search moves on by the request's length.
NextStartJumps ==
  /\ Searching
  /\ ~PastLastStart
  /\ i + lastIdx \in pBitmap
  /\ i' = 0
  /\ lastIdx' = lastIdx + num
  /\ UNCHANGED <<pBitmap, freePages, num, asker, grant, scanFrom>>

NextStart ==
  /\ Searching
  /\ ~PastLastStart
  /\ i + lastIdx \in pBitmap
  /\ i' = 0
  /\ lastIdx' = lastIdx + 1
  /\ UNCHANGED <<pBitmap, freePages, num, asker, grant, scanFrom>>

\* Mutant: the loop that sets the bits ends one bit early.
TakeRunButLast ==
  /\ asker # Nobody
  /\ i >= num
  /\ pBitmap' = pBitmap \cup Run(lastIdx, num - 1)
  /\ grant' = [grant EXCEPT ![asker] = Run(lastIdx, num)]
  /\ asker' = Nobody
  /\ UNCHANGED <<lastIdx, freePages, i, num, scanFrom>>

\* PmFindFree returns lastIdx; PmRequest sets the bits and returns the address.
TakeRun ==
  /\ asker # Nobody
  /\ i >= num
  /\ pBitmap' = pBitmap \cup Run(lastIdx, num)
  /\ grant' = [grant EXCEPT ![asker] = Run(lastIdx, num)]
  /\ asker' = Nobody
  /\ UNCHANGED <<lastIdx, freePages, i, num, scanFrom>>

\* Mutants: the loop that clears the bits clears one too many, one too few.
PmFreeOneMore(h) ==
  /\ asker = Nobody
  /\ grant[h] # {}
  /\ pBitmap' = pBitmap \ {b \in Bits : b \in grant[h] \/ b - 1 \in grant[h]}
  /\ grant' = [grant EXCEPT ![h] = {}]
  /\ UNCHANGED <<lastIdx, freePages, i, num, asker, scanFrom>>

PmFreeButLast(h) ==
  /\ asker = Nobody
  /\ grant[h] # {}
  /\ pBitmap' = pBitmap \ {b \in grant[h] : b + 1 \in grant[h]}
  /\ grant' = [grant EXCEPT ![h] = {}]
  /\ UNCHANGED <<lastIdx, freePages, i, num, asker, scanFrom>>

\* PmFree(pPtr, num) of a run PmRequest returned: neither freePages nor
\* lastIdx is touched.
PmFree(h) ==
  /\ asker = Nobody
  /\ grant[h] # {}
  /\ pBitmap' = pBitmap \ grant[h]
  /\ grant' = [grant EXCEPT ![h] = {}]
  /\ UNCHANGED <<lastIdx, freePages, i, num, asker, scanFrom>>

\* What the allocator does by itself once PmRequest was called.
Step == GiveUp \/ WrapAround \/ ExtendRun \/ NextStart \/ TakeRun

Next ==
  \/ \E h \in Holders, n \in Nums : PmRequest(h, n)
  \/ Step
  \/ \E h \in Holders : PmFree(h)

Spec == Init /\ [][Next]_vars

\* The processor keeps executing the loop; nothing makes a caller call.
FairSpec == Spec /\ WF_vars(Step)

-----------------------------------------------------------------------------
(* Properties. *)

Granted == UNION {grant[h] : h \in Holders}

\* Two live allocations never share a frame (PmRequest hands out frames it
\* found clear and sets their bits before it returns).
NoDoubleAllocation ==
  \A g, h \in Holders : g # h => grant[g] \cap grant[h] = {}

\* The clear bits are exactly the usable frames nobody holds: nothing is
\* leaked by PmFree, and no frame of the kernel, of the framebuffer, of the
\* bitmap itself or outside memory is ever handed out.
BitmapAccountsForFrames ==
  /\ Granted \subseteq Usable
  /\ ClearBits = Usable \ Granted

\* PmFindFree never reads a byte behind the bitmap, although its only bound
\* is the comparison of lastIdx with the byte count.
ReadsInsideBitmap ==
  Searching /\ ~PastLastStart => i + lastIdx \in Bits

\* What PmFindFree knows in its loop: the i bits from lastIdx on are clear.
RunSoFarIsClear ==
  asker # Nobody =>
    /\ i <= num
    /\ Run(lastIdx, i) \subseteq ClearBits
    /\ i > 0 => lastIdx <= BitmapSize

\* The search passes over no start at which the request would fit.
Fits(start, n) == Run(start, n) \subseteq ClearBits

SkipsNoFit ==
  asker # Nobody =>
    \A start \in scanFrom .. (lastIdx - 1) : ~Fits(start, num)

\* PmRequest answers -1 only to a request no memory of this machine could
\* meet, however much of it is taken at the moment.
RefusesOnlyTheImpossible ==
  [][GiveUp => num > Cardinality(Usable)]_vars

\* A request for which a run begins at or below bit bitmapSize is granted,
\* wherever the search stands when the request comes.
CanBeServed == \E start \in 0 .. BitmapSize : Fits(start, num)

ServedWhenItFits ==
  \A h \in Holders : (asker = h /\ CanBeServed) ~> (grant[h] # {})

\* The allocator implements the page pool: bitmap, search position and
\* counter are its own business.
Pool == INSTANCE PagePool WITH
          Starts <- 0 .. BitmapSize, pool <- ClearBits

ImplementsPagePool == Pool!Spec

-----------------------------------------------------------------------------
(* What the program says of itself and does not do. *)

\* pfa.c:105 answers a request for which too few pages are free with -1 and
\* "PFA: No free %ld pages only %ld".
RefusedWhenTooFewAreFree ==
  (asker # Nobody /\ Cardinality(ClearBits) < num) ~> (asker = Nobody)
=============================================================================
