---------------------------- MODULE KeepAliveHold ----------------------------
(***************************************************************************)
(* What RuntimeKeepAlive promises the event loop about host resources and   *)
(* the two counters it sleeps on: an open resource is counted at one level  *)
(* and only there, except while it moves to the other, and a counter        *)
(* changes only with a resource that it counts.  Once released, a resource  *)
(* is off the counters for good.                                            *)
(***************************************************************************)
EXTENDS Integers

CONSTANTS Holds, Levels

VARIABLES
    state,   \* per hold: "none", the level it is counted at, "moving" or "released"
    count    \* the two counters

HoldInit ==
    /\ state = [h \in Holds |-> "none"]
    /\ count = [l \in Levels |-> 0]

Become(h, s) == state' = [state EXCEPT ![h] = s]
Add(l, n) == count' = [count EXCEPT ![l] = @ + n]

Open(h) == state[h] = "none" /\ \E l \in Levels : Become(h, l) /\ Add(l, 1)
Leave(h) == state[h] \in Levels /\ Become(h, "moving") /\ Add(state[h], -1)
Arrive(h) == state[h] = "moving" /\ \E l \in Levels : Become(h, l) /\ Add(l, 1)
Release(h) == state[h] \in Levels /\ Become(h, "released") /\ Add(state[h], -1)

HoldNext == \E h \in Holds : Open(h) \/ Leave(h) \/ Arrive(h) \/ Release(h)

HoldSpec == HoldInit /\ [][HoldNext]_<<state, count>>
=============================================================================
