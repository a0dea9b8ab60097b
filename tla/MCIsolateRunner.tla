--------------------------- MODULE MCIsolateRunner ---------------------------
(* Small instances of IsolateRunner.                                        *)
EXTENDS IsolateRunner

CONSTANTS c1, c2, c3, o1, o2, o3, o4, s1, s2

\* Each operation name stands for one way into the inbox; only the embedder's
\* settle_promise may be unreferenced.
MCKind == [o \in Ops |-> CASE o = o1 -> "async" [] o = o2 -> "import"
                           [] o = o3 -> "settle" [] OTHER -> "task"]
MCLiveness == [o \in Ops |-> "Ref"]
MCUnrefLiveness == [o \in Ops |-> IF o = o3 THEN "Unref" ELSE "Ref"]

\* s1 calls shutdown_and_wait; s2, where there is one, drops the last handle.
MCStopKind == [s \in Stoppers |-> IF s = s1 THEN "shutdown" ELSE "drop"]
=============================================================================
