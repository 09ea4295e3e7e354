-------------------------------- MODULE Heap --------------------------------
(***************************************************************************)
(* utils/heap.c on top of the page pool: HpAlloc writes a Chunk header at  *)
(* the start of the pages PmRequest returns and hands out the address      *)
(* behind it; HpFree reads the number of pages back from the header.       *)
(*                                                                         *)
(* Sizes are bytes.  Of the contents of memory the model keeps what HpFree *)
(* reads, the Chunk.pages word of each live chunk; the magic, which        *)
(* nothing reads, is left out.  A holder may fill the bytes it asked for   *)
(* at any time.                                                            *)
(***************************************************************************)
EXTENDS Integers, FiniteSets, FiniteSetsExt

CONSTANTS
  Usable, Starts, Holders, Nobody,  \* as in PagePool
  Frames,       \* all page frames, usable or not
  PageSize,
  HeaderSize,   \* sizeof(Chunk)
  PagesOffset,  \* offset of Chunk.pages
  FreeMemory,   \* PmGetFreeMemory(): the end of the highest usable entry
  Sizes,        \* the sizes HpAlloc is called with
  PayloadWords  \* what a word of somebody's payload, read as a count, may be

ASSUME LayoutAssumption ==
  /\ PageSize \in Nat /\ HeaderSize \in Nat /\ PagesOffset \in Nat
  /\ 0 < PagesOffset /\ PagesOffset < HeaderSize /\ HeaderSize < PageSize
  /\ Sizes \subseteq Nat \ {0}
  /\ PayloadWords \subseteq Nat

ASSUME FramesAssumption ==
  /\ Frames \subseteq Nat /\ Usable \subseteq Frames /\ Starts \subseteq Nat
  /\ Nobody \notin Holders

alignUp(x, y) == ((x + (y - 1)) \div y) * y

\* The number of pages HpAlloc requests.  From a page on it is a number of
\* bytes, rounded up to a whole number of pages.
PagesFor(bytes) ==
  IF bytes >= PageSize THEN alignUp(bytes, PageSize) ELSE 1

Nums == {PagesFor(bytes) : bytes \in Sizes}

VARIABLES
  pool, grant, asker, num,  \* as in PagePool
  size,        \* the argument of the HpAlloc in progress
  sizeOf,      \* history: the size each holder asked for
  chunkPages,  \* the Chunk.pages word at the start of each holder's run
  crashed,     \* a write through the address PmRequest's -1 yields
  overrun      \* history: a payload has reached a Chunk.pages word

Pages == INSTANCE PagePool

heapVars == <<size, sizeOf, chunkPages, crashed, overrun>>
vars == <<pool, grant, asker, num, heapVars>>

First(h) == Min(grant[h])

\* How far a full payload reaches into the page behind its run.
Overflow(bytes) == HeaderSize + bytes - PageSize * PagesFor(bytes)

Init ==
  /\ Pages!Init
  /\ size = 0
  /\ sizeOf = [h \in Holders |-> 0]
  /\ chunkPages = [h \in Holders |-> 0]
  /\ crashed = FALSE
  /\ overrun = FALSE

\* HpAlloc(size) up to PmRequest; a size not below FreeMemory is answered
\* with -1 and changes nothing.
HpAlloc(h, bytes) ==
  /\ ~crashed
  /\ bytes < FreeMemory
  /\ Pages!Ask(h, PagesFor(bytes))
  /\ size' = bytes
  /\ UNCHANGED <<sizeOf, chunkPages, crashed, overrun>>

\* The word at frame f becomes the count word, for every holder whose run
\* begins there.
SetWord(runs, f, word) ==
  [h \in Holders |-> IF runs[h] # {} /\ Min(runs[h]) = f
                       THEN word ELSE chunkPages[h]]

\* Mutant: the header records one page whatever was requested.
HpAllocReturnOne ==
  /\ Pages!Grant
  /\ chunkPages' = SetWord(grant', Min(grant'[asker]), 1)
  /\ sizeOf' = [sizeOf EXCEPT ![asker] = size]
  /\ UNCHANGED <<size, crashed, overrun>>

HpAllocReturn ==
  /\ Pages!Grant
  /\ chunkPages' = SetWord(grant', Min(grant'[asker]), PagesFor(size))
  /\ sizeOf' = [sizeOf EXCEPT ![asker] = size]
  /\ UNCHANGED <<size, crashed, overrun>>

\* PmRequest returned -1: the header is written to hhdmOff - 1, which is not
\* mapped.
HpAllocRefused ==
  /\ Pages!Refuse
  /\ crashed' = TRUE
  /\ UNCHANGED <<size, sizeOf, chunkPages, overrun>>

\* The holder fills its payload, which reaches the Chunk.pages word at the
\* start of the page behind its run; shorter payloads change nothing here.
FillPayload(h) ==
  /\ asker = Nobody /\ ~crashed
  /\ grant[h] # {}
  /\ Overflow(sizeOf[h]) > PagesOffset
  /\ \E word \in PayloadWords :
       chunkPages' = SetWord(grant, First(h) + PagesFor(sizeOf[h]), word)
  /\ overrun' = TRUE
  /\ UNCHANGED <<pool, grant, asker, num, size, sizeOf, crashed>>

\* PmFree of as many pages as the header says; the magic is not looked at.
HpFree(h) ==
  /\ asker = Nobody /\ ~crashed
  /\ grant[h] # {}
  /\ pool' = pool \cup (Pages!Run(First(h), chunkPages[h]) \cap Frames)
  /\ grant' = [grant EXCEPT ![h] = {}]
  /\ sizeOf' = [sizeOf EXCEPT ![h] = 0]
  /\ chunkPages' = [chunkPages EXCEPT ![h] = 0]
  /\ UNCHANGED <<asker, num, size, crashed, overrun>>

Next ==
  \/ \E h \in Holders, bytes \in Sizes : HpAlloc(h, bytes)
  \/ HpAllocReturn
  \/ HpAllocRefused
  \/ \E h \in Holders : FillPayload(h) \/ HpFree(h)

Spec == Init /\ [][Next]_vars

-----------------------------------------------------------------------------
(* Properties. *)

Live == {h \in Holders : grant[h] # {}}

\* The sizes whose payload does not fit behind the header: those of the last
\* HeaderSize - 1 bytes before a whole page (4081 .. 4095).
InGap(bytes) == PageSize - HeaderSize < bytes /\ bytes < PageSize

\* Until a payload has reached a Chunk.pages word, the header of every live
\* chunk gives the length of its run, and no frame has two holders.  Sizes
\* in the first half of the gap do no harm: they destroy the magic of the
\* chunk behind, which nothing reads.
HeadersHoldUntilOverrun ==
  ~overrun =>
    /\ \A h \in Live : chunkPages[h] = Cardinality(grant[h])
    /\ \A g, h \in Live : g # h => grant[g] \cap grant[h] = {}

\* Only a payload of a size in the gap reaches another chunk's Chunk.pages
\* word, and until one has, the heap takes from and returns to the page pool
\* exactly as the pool's callers must: each of its steps is one of the pool's,
\* and HpFree gives back what was granted.
UsesThePoolProperly ==
  [][/\ overrun' # overrun => \E h \in Live : InGap(sizeOf[h])
     /\ overrun \/ Pages!Next \/ UNCHANGED Pages!vars]_vars
=============================================================================
