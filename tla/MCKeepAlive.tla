----------------------------- MODULE MCKeepAlive -----------------------------
(* KeepAlive for TLC: two threads race on two host resources.                *)
EXTENDS KeepAlive

CONSTANTS p1, p2, h1, h2
=============================================================================
