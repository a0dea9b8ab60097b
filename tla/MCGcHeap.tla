------------------------------ MODULE MCGcHeap ------------------------------
(***************************************************************************)
(* Instances of GcHeap for TLC.                                            *)
(***************************************************************************)
EXTENDS GcHeap, TLC

CONSTANTS o1, o2, o3, o4

Objects == {o1, o2, o3, o4}
ObjectSymmetry == Permutations(Objects)
=============================================================================
