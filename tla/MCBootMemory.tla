---------------------------- MODULE MCBootMemory ----------------------------
(***************************************************************************)
(* Instances of BootMemory for TLC: two bytes to a page and three bits to  *)
(* a byte, so that a bitmap page covers six memory pages, and every map of *)
(* three adjacent entries of given lengths and types.                      *)
(***************************************************************************)
EXTENDS BootMemory

Types == {Usable, Reclaimable, "MEMMAP_RESERVED"}

\* The entries of such a map follow one another from address 0.
Entry(type, base, pages) ==
  [type |-> type, base |-> base * PageSize, length |-> pages * PageSize]

AdjacentMaps(lengths) ==
  {<<Entry(t[1], 0, n[1]), Entry(t[2], n[1], n[2]),
     Entry(t[3], n[1] + n[2], n[3])>> :
       t \in [1 .. 3 -> Types], n \in [1 .. 3 -> lengths]}

SomeMaps == AdjacentMaps({1, 2, 5})
=============================================================================
