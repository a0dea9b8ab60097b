----------------------------- MODULE MCWorkers ------------------------------
(***************************************************************************)
(* Workers with a Worker object that exchanges messages and a buffer with  *)
(* the parent, and a worker of the raw natives that only runs.             *)
(***************************************************************************)
EXTENDS Workers

CONSTANTS w1, w2, b1

One == [w \in {w1, w2} |-> IF w = w1 THEN 1 ELSE 0]
=============================================================================
