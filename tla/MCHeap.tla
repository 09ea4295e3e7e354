------------------------------- MODULE MCHeap -------------------------------
(***************************************************************************)
(* Instances of Heap for TLC.  A page has 5 units and a header 4, of which *)
(* Chunk.pages takes the last two, so that payloads of 2, 3 and 4 units    *)
(* overflow by 1, 2 and 3.  A size of 5 takes 5 pages, as 4096 bytes take  *)
(* 4096; a size of 6 takes 10, more than the machine has.                  *)
(***************************************************************************)
EXTENDS Heap

NineFrames == 0 .. 8
EightUsable == NineFrames \ {2}
=============================================================================
