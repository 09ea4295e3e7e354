---------------------------- MODULE MCPageFrames ----------------------------
(***************************************************************************)
(* Instances of PageFrames for TLC: a bitmap of 3 bytes of 3 bits, so that *)
(* runs may begin at 0..3 and reach up to frame 8, and a machine whose     *)
(* usable memory has a hole below and one above the last start.            *)
(***************************************************************************)
EXTENDS PageFrames

TwoHoles == {0, 1, 3, 4, 5, 6, 7}
=============================================================================
