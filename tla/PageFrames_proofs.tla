-------------------------- MODULE PageFrames_proofs --------------------------
(***************************************************************************)
(* Proofs about PageFrames, for every size of the bitmap, every set of     *)
(* usable frames that leaves a hole at or above the last start, and any    *)
(* number of live allocations.                                             *)
(***************************************************************************)
EXTENDS PageFrames, FiniteSetTheorems, TLAPS

-----------------------------------------------------------------------------
(* Facts about the constants. *)

\* Bit indices are natural numbers without gaps, and there is bit 0.
LEMMA BitsFacts ==
  /\ Bits \subseteq Nat
  /\ \A a, b \in Bits : \A x \in Int : a <= x /\ x <= b => x \in Bits
  /\ 0 \in Bits
<1>. DEFINE top == BitmapSize * ByteBits - 1
<1>1. BitmapSize \in Nat /\ ByteBits \in Nat /\ BitmapSize > 0 /\ ByteBits > 0
  BY SizesAssumption
<1>2. top \in Int /\ top >= 0
  BY <1>1, SMT
<1>3. Bits = 0 .. top
  BY DEF Bits
<1>. HIDE DEF top
<1>. QED  BY <1>2, <1>3

\* A set of bits is finite, so it has a natural number of elements.
LEMMA BitsFinite ==
  \A S : S \subseteq Bits => IsFiniteSet(S) /\ Cardinality(S) \in Nat
<1>1. BitmapSize * ByteBits - 1 \in Int
  BY SizesAssumption
<1>2. IsFiniteSet(Bits)
  BY <1>1, FS_Interval DEF Bits
<1>. QED  BY <1>2, FS_Subset, FS_CardinalityType

\* A run of usable frames that begins at or below bit bitmapSize ends below
\* the hole, and so does the bit behind it.
LEMMA RunStaysInside ==
  ASSUME NEW start \in 0 .. BitmapSize, NEW n \in Nat,
         Run(start, n) \subseteq Usable
  PROVE  start + n \in Bits
<1>1. PICK hole \in Bits : hole >= BitmapSize /\ hole \notin Usable
  BY UsableAssumption
<1>2. start + n <= hole
  <2>1. hole \notin Run(start, n)
    BY <1>1
  <2>. QED  BY <1>1, <2>1, BitsFacts, SizesAssumption DEF Run
<1>. QED  BY <1>1, <1>2, BitsFacts, SizesAssumption

-----------------------------------------------------------------------------
(* The inductive invariant. *)

IInv ==
  /\ TypeOK
  /\ NoDoubleAllocation
  /\ BitmapAccountsForFrames
  /\ RunSoFarIsClear
  /\ freePages = Cardinality(Usable)
  /\ asker # Nobody => grant[asker] = {}

LEMMA InitEstablishes == Init => IInv
<1>. SUFFICES ASSUME Init PROVE IInv
  OBVIOUS
<1>1. TypeOK
  BY BitsFinite, UsableAssumption, SizesAssumption DEF Init, TypeOK
<1>2. Granted = {}
  BY DEF Init, Granted
<1>3. BitmapAccountsForFrames
  BY <1>2, UsableAssumption DEF Init, BitmapAccountsForFrames, ClearBits
<1>4. NoDoubleAllocation /\ RunSoFarIsClear /\ freePages = Cardinality(Usable)
  BY DEF Init, NoDoubleAllocation, RunSoFarIsClear
<1>5. asker = Nobody
  BY DEF Init
<1>. QED  BY <1>1, <1>3, <1>4, <1>5 DEF IInv

LEMMA PmRequestPreserves ==
  ASSUME IInv, NEW h \in Holders, NEW n \in Nums, PmRequest(h, n)
  PROVE  IInv'
<1>. USE DEF IInv, PmRequest, pmVars
<1>1. TypeOK'
  BY DEF TypeOK
<1>2. NoDoubleAllocation' /\ BitmapAccountsForFrames'
  BY DEF NoDoubleAllocation, BitmapAccountsForFrames, Granted, ClearBits
<1>3. RunSoFarIsClear'
  BY CallersAssumption DEF RunSoFarIsClear, Run, TypeOK
<1>4. (freePages = Cardinality(Usable))' /\ grant'[asker'] = {}
  OBVIOUS
<1>. QED  BY <1>1, <1>2, <1>3, <1>4

LEMMA GiveUpPreserves ==
  ASSUME IInv, GiveUp  PROVE IInv'
BY DEF IInv, GiveUp, pmVars, TypeOK, NoDoubleAllocation,
       BitmapAccountsForFrames, Granted, ClearBits, RunSoFarIsClear

LEMMA WrapAroundPreserves ==
  ASSUME IInv, WrapAround  PROVE IInv'
<1>. USE DEF IInv, WrapAround
<1>1. TypeOK'
  BY SizesAssumption DEF TypeOK
<1>2. NoDoubleAllocation' /\ BitmapAccountsForFrames'
  BY DEF NoDoubleAllocation, BitmapAccountsForFrames, Granted, ClearBits
<1>3. RunSoFarIsClear'
  BY CallersAssumption DEF RunSoFarIsClear, Run, TypeOK
<1>. QED  BY <1>1, <1>2, <1>3

\* The bit PmFindFree reads next is a bit of the bitmap.
LEMMA NextReadInside ==
  ASSUME IInv, Searching, ~PastLastStart
  PROVE  i + lastIdx \in Bits
<1>1. lastIdx \in 0 .. BitmapSize /\ i \in Nat
  BY SizesAssumption DEF IInv, TypeOK, PastLastStart
<1>2. Run(lastIdx, i) \subseteq Usable
  BY DEF IInv, RunSoFarIsClear, BitmapAccountsForFrames, Searching
<1>3. lastIdx + i \in Bits
  BY <1>1, <1>2, RunStaysInside
<1>. QED  BY <1>1, <1>3

LEMMA ExtendRunPreserves ==
  ASSUME IInv, ExtendRun  PROVE IInv'
<1>. USE DEF IInv, ExtendRun, pmVars
<1>1. TypeOK'
  BY DEF TypeOK
<1>2. NoDoubleAllocation' /\ BitmapAccountsForFrames'
  BY DEF NoDoubleAllocation, BitmapAccountsForFrames, Granted, ClearBits
<1>3. RunSoFarIsClear'
  <2>1. i + lastIdx \in ClearBits
    BY NextReadInside DEF ClearBits
  <2>2. Run(lastIdx, i + 1) = Run(lastIdx, i) \cup {i + lastIdx}
    BY SizesAssumption DEF Run, TypeOK
  <2>3. i + 1 <= num /\ lastIdx <= BitmapSize
    BY SizesAssumption, CallersAssumption
       DEF Searching, PastLastStart, TypeOK
  <2>. QED  BY <2>1, <2>2, <2>3 DEF RunSoFarIsClear, Searching, ClearBits
<1>. QED  BY <1>1, <1>2, <1>3

LEMMA NextStartPreserves ==
  ASSUME IInv, NextStart  PROVE IInv'
<1>. USE DEF IInv, NextStart
<1>1. TypeOK'
  BY SizesAssumption DEF TypeOK, PastLastStart
<1>2. NoDoubleAllocation' /\ BitmapAccountsForFrames'
  BY DEF NoDoubleAllocation, BitmapAccountsForFrames, Granted, ClearBits
<1>3. RunSoFarIsClear'
  BY SizesAssumption, CallersAssumption DEF RunSoFarIsClear, Run, TypeOK
<1>. QED  BY <1>1, <1>2, <1>3

\* What TakeRun hands out: a non-empty run of clear bits from a legal start.
LEMMA TakenRun ==
  ASSUME IInv, TakeRun
  PROVE  /\ i = num
         /\ lastIdx \in 0 .. BitmapSize
         /\ asker \in Holders
         /\ Run(lastIdx, num) \subseteq ClearBits
BY SizesAssumption, CallersAssumption
   DEF IInv, TakeRun, TypeOK, RunSoFarIsClear

LEMMA TakeRunPreserves ==
  ASSUME IInv, TakeRun  PROVE IInv'
<1>. DEFINE run == Run(lastIdx, num)
<1>1. asker \in Holders /\ run \subseteq Usable \ Granted /\ run \subseteq Bits
  BY TakenRun DEF IInv, BitmapAccountsForFrames, ClearBits
<1>2. grant' = [grant EXCEPT ![asker] = run] /\ pBitmap' = pBitmap \cup run
  BY DEF TakeRun
<1>. HIDE DEF run
<1>3. TypeOK'
  BY <1>1, <1>2 DEF IInv, TypeOK, TakeRun
<1>4. NoDoubleAllocation'
  BY <1>1, <1>2 DEF IInv, TypeOK, NoDoubleAllocation, Granted
<1>5. BitmapAccountsForFrames'
  <2>0. \A h \in Holders : h # asker => grant'[h] = grant[h]
    BY <1>2 DEF IInv, TypeOK
  <2>1. grant'[asker] = run
    BY <1>1, <1>2 DEF IInv, TypeOK
  <2>2. Granted' \subseteq Granted \cup run
    BY <1>1, <2>0, <2>1 DEF Granted
  <2>3. run \subseteq Granted'
    BY <1>1, <2>1 DEF Granted
  <2>4. Granted' = Granted \cup run
    <3>1. grant[asker] = {}
      BY <1>1, CallersAssumption DEF IInv
    <3>2. Granted \subseteq Granted'
      BY <2>0, <3>1 DEF Granted
    <3>. QED  BY <2>2, <2>3, <3>2
  <2>. QED  BY <1>1, <1>2, <2>4 DEF IInv, BitmapAccountsForFrames, ClearBits
<1>6. RunSoFarIsClear' /\ (asker # Nobody => grant[asker] = {})'
  BY DEF TakeRun, RunSoFarIsClear
<1>7. (freePages = Cardinality(Usable))'
  BY DEF TakeRun, IInv
<1>. QED  BY <1>3, <1>4, <1>5, <1>6, <1>7 DEF IInv

LEMMA PmFreePreserves ==
  ASSUME IInv, NEW h \in Holders, PmFree(h)  PROVE IInv'
<1>1. grant' = [grant EXCEPT ![h] = {}] /\ pBitmap' = pBitmap \ grant[h]
  BY DEF PmFree
<1>2. /\ grant'[h] = {}
      /\ \A g \in Holders : g # h => grant'[g] = grant[g]
  BY <1>1 DEF IInv, TypeOK
<1>3. TypeOK'
  BY <1>1 DEF IInv, TypeOK, PmFree
<1>4. NoDoubleAllocation'
  BY <1>2 DEF IInv, NoDoubleAllocation
<1>5. BitmapAccountsForFrames'
  <2>1. Granted' = Granted \ grant[h]
    <3>1. \A g \in Holders : g # h => grant[g] \cap grant[h] = {}
      BY DEF IInv, NoDoubleAllocation
    <3>. QED  BY <1>2, <3>1 DEF Granted
  <2>2. grant[h] \subseteq Usable
    BY DEF IInv, BitmapAccountsForFrames, Granted
  <2>. QED
    BY <1>1, <2>1, <2>2, UsableAssumption
       DEF IInv, BitmapAccountsForFrames, ClearBits
<1>6. RunSoFarIsClear' /\ (asker # Nobody => grant[asker] = {})'
  BY DEF PmFree, RunSoFarIsClear
<1>7. (freePages = Cardinality(Usable))'
  BY DEF PmFree, IInv
<1>. QED  BY <1>3, <1>4, <1>5, <1>6, <1>7 DEF IInv

LEMMA StutterPreserves ==
  ASSUME IInv, UNCHANGED vars  PROVE IInv'
BY DEF IInv, vars, TypeOK, NoDoubleAllocation, BitmapAccountsForFrames,
       Granted, ClearBits, RunSoFarIsClear

\* The inductive invariant holds in every reachable state: every state
\* change of pfa.c after PmInit keeps it.
THEOREM Invariance == Spec => []IInv
<1>1. Init => IInv
  BY InitEstablishes
<1>2. IInv /\ [Next]_vars => IInv'
  <2>. SUFFICES ASSUME IInv, [Next]_vars PROVE IInv'
    OBVIOUS
  <2>1. CASE \E h \in Holders, n \in Nums : PmRequest(h, n)
    BY <2>1, PmRequestPreserves
  <2>2. CASE GiveUp       BY <2>2, GiveUpPreserves
  <2>3. CASE WrapAround   BY <2>3, WrapAroundPreserves
  <2>4. CASE ExtendRun    BY <2>4, ExtendRunPreserves
  <2>5. CASE NextStart    BY <2>5, NextStartPreserves
  <2>6. CASE TakeRun      BY <2>6, TakeRunPreserves
  <2>7. CASE \E h \in Holders : PmFree(h)
    BY <2>7, PmFreePreserves
  <2>8. CASE UNCHANGED vars  BY <2>8, StutterPreserves
  <2>. QED
    BY <2>1, <2>2, <2>3, <2>4, <2>5, <2>6, <2>7, <2>8 DEF Next, Step
<1>. QED  BY <1>1, <1>2, PTL DEF Spec

-----------------------------------------------------------------------------
(* What follows from it. *)

\* The variables of pfa.c keep their ranges; lastIdx never exceeds
\* bitmapSize + 1.
THEOREM TypeCorrect == Spec => []TypeOK
BY Invariance, PTL DEF IInv

\* PmRequest never hands a frame to two holders.
THEOREM FramesAreExclusive == Spec => []NoDoubleAllocation
BY Invariance, PTL DEF IInv

\* The bitmap and the grants account for every usable frame.
THEOREM FramesAreAccountedFor == Spec => []BitmapAccountsForFrames
BY Invariance, PTL DEF IInv

\* PmFindFree reads no byte behind the bitmap.
THEOREM ScanStaysInside == Spec => []ReadsInsideBitmap
<1>1. IInv => ReadsInsideBitmap
  BY NextReadInside DEF ReadsInsideBitmap
<1>. QED  BY <1>1, Invariance, PTL

\* PmRequest answers -1 only to requests larger than all usable memory.
THEOREM RefusalsAreDue == Spec => RefusesOnlyTheImpossible
<1>1. IInv /\ [Next]_vars => [GiveUp => num > Cardinality(Usable)]_vars
  <2>. SUFFICES ASSUME IInv, GiveUp PROVE num > Cardinality(Usable)
    OBVIOUS
  <2>. QED  BY CallersAssumption DEF IInv, TypeOK, GiveUp
<1>. QED  BY <1>1, Invariance, PTL DEF Spec, RefusesOnlyTheImpossible

\* The search passes over no start from which the request would fit.
THEOREM SearchIsComplete == Spec => []SkipsNoFit
<1>1. Init => SkipsNoFit
  BY DEF Init, SkipsNoFit
<1>2. IInv /\ SkipsNoFit /\ [Next]_vars => SkipsNoFit'
  <2>. SUFFICES ASSUME IInv, SkipsNoFit, [Next]_vars PROVE SkipsNoFit'
    OBVIOUS
  <2>. USE DEF SkipsNoFit, Fits, ClearBits, IInv, TypeOK
  <2>1. CASE \E h \in Holders, n \in Nums : PmRequest(h, n)
    BY <2>1, SizesAssumption DEF PmRequest, pmVars
  <2>2. CASE WrapAround
    BY <2>2 DEF WrapAround
  <2>3. CASE NextStart
    <3>1. i + lastIdx \in Run(lastIdx, num)
      BY <2>3, SizesAssumption, CallersAssumption
         DEF NextStart, Searching, Run
    <3>2. ~Fits(lastIdx, num)
      BY <2>3, <3>1 DEF NextStart
    <3>3. \A start \in scanFrom .. lastIdx : ~Fits(start, num)
      <4>. SUFFICES ASSUME NEW start \in scanFrom .. lastIdx
                    PROVE  ~Fits(start, num)
        OBVIOUS
      <4>1. CASE start = lastIdx
        BY <3>2, <4>1
      <4>2. CASE start # lastIdx
        <5>1. start \in scanFrom .. (lastIdx - 1)
          BY <4>2, SizesAssumption
        <5>. QED  BY <2>3, <5>1 DEF NextStart, Searching
      <4>. QED  BY <4>1, <4>2
    <3>4. lastIdx' - 1 = lastIdx
      BY <2>3, SizesAssumption DEF NextStart
    <3>. QED  BY <2>3, <3>3, <3>4 DEF NextStart
  <2>4. CASE ExtendRun \/ UNCHANGED vars
    BY <2>4 DEF ExtendRun, pmVars, vars
  <2>5. CASE GiveUp \/ TakeRun
    BY <2>5 DEF GiveUp, TakeRun
  <2>6. CASE \E h \in Holders : PmFree(h)
    BY <2>6 DEF PmFree
  <2>. QED
    BY <2>1, <2>2, <2>3, <2>4, <2>5, <2>6 DEF Next, Step
<1>. QED  BY <1>1, <1>2, Invariance, PTL DEF Spec

-----------------------------------------------------------------------------
(* The allocator implements the page pool. *)

\* Every allocator step is a step of the page pool or leaves it as it is.
THEOREM Implements == Spec => ImplementsPagePool
<1>1. Init => Pool!Init
  BY UsableAssumption DEF Init, Pool!Init, ClearBits
<1>2. IInv /\ [Next]_vars => [Pool!Next]_Pool!vars
  <2>. SUFFICES ASSUME IInv, [Next]_vars PROVE [Pool!Next]_Pool!vars
    OBVIOUS
  <2>. USE DEF Pool!Next, Pool!vars, pmVars, ClearBits
  <2>1. CASE \E h \in Holders, n \in Nums : PmRequest(h, n)
    BY <2>1 DEF PmRequest, Pool!Ask, Pool!vars
  <2>2. CASE GiveUp
    <3>1. Pool!Cardinality(Usable) = Cardinality(Usable)
      BY DEF Pool!Cardinality, Cardinality
    <3>. QED
      BY <2>2, <3>1, CallersAssumption
         DEF GiveUp, Searching, Pool!Refuse, IInv, TypeOK
  <2>3. CASE WrapAround \/ ExtendRun \/ NextStart
    BY <2>3 DEF WrapAround, ExtendRun, NextStart
  <2>4. CASE TakeRun
    <3>1. Pool!Run(lastIdx, num) = Run(lastIdx, num)
      BY DEF Run, Pool!Run
    <3>2. (Bits \ pBitmap)' = (Bits \ pBitmap) \ Run(lastIdx, num)
      BY <2>4 DEF TakeRun
    <3>. QED  BY <2>4, <3>1, <3>2, TakenRun DEF TakeRun, Pool!Grant
  <2>5. CASE \E h \in Holders : PmFree(h)
    <3>1. PICK h \in Holders : PmFree(h)
      BY <2>5
    <3>2. (Bits \ pBitmap)' = (Bits \ pBitmap) \cup grant[h]
      BY <3>1 DEF PmFree, IInv, TypeOK
    <3>. QED  BY <3>1, <3>2 DEF PmFree, Pool!GiveBack
  <2>6. CASE UNCHANGED vars
    BY <2>6 DEF vars
  <2>. QED
    BY <2>1, <2>2, <2>3, <2>4, <2>5, <2>6 DEF Next, Step
<1>. QED  BY <1>1, <1>2, Invariance, PTL DEF Spec, ImplementsPagePool, Pool!Spec
=============================================================================
