---------------------------- MODULE MCWeakTables ----------------------------
(***************************************************************************)
(* WeakTables with up to four interchangeable objects.                     *)
(***************************************************************************)
EXTENDS WeakTables

CONSTANTS o1, o2, o3, o4

Objects == {o1, o2, o3, o4}
ObjectSymmetry == Permutations(Objects)
=============================================================================
