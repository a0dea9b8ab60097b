---------------------------- MODULE MCAtomicsWait ----------------------------
(***************************************************************************)
(* Instances of AtomicsWait: one notify for a single waiter and one for two,*)
(* views that start at the same element or one element apart.               *)
(***************************************************************************)
EXTENDS AtomicsWait

CONSTANTS n1, n2, v1, v2

MCCount == [n \in Notifies |-> IF n = n1 THEN 1 ELSE 2]
MCOffset == [v \in Views |-> IF v = v1 THEN 0 ELSE 1]
=============================================================================
