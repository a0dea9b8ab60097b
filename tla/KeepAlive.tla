------------------------------ MODULE KeepAlive ------------------------------
(***************************************************************************)
(* RuntimeKeepAlive (runtime_activity.rs): liveness holds of host resources *)
(* shared between threads. close, ref_, unref and the drop of the last clone*)
(* race on an atomic closed flag, a mutex-protected level and two counters  *)
(* that no lock protects. Every atomic access is a step.                    *)
(***************************************************************************)
EXTENDS Naturals, FiniteSets

CONSTANTS
    Threads,   \* threads that own clones of a hold
    Holds,     \* open host resources
    NoThread

Levels == {"Ref", "Unref"}

ASSUME KeepAliveAssumption ==
    /\ IsFiniteSet(Holds)
    /\ NoThread \notin Threads

VARIABLES
    clones,            \* threads that own a clone of each hold
    created,           \* holds that retain has built
    closed,            \* the AtomicBool
    liveness,          \* the level under the mutex
    lock,              \* owner of the mutex
    pending_host_ops,  \* pending_ref_host_ops and pending_unref_host_ops
    pc, hold, level,   \* per thread: step, its hold, the level it carries
    held               \* history: the level each hold is counted at, or "none"

vars == <<clones, created, closed, liveness, lock, pending_host_ops, pc, hold,
          level, held>>

Steps == {"idle", "release_read", "release_count", "set_lock", "set_recheck",
          "move_down", "move_up", "set_store"}

\* Type correctness of a hold's fields and of the two activity counters.
TypeOK ==
    /\ clones \in [Holds -> SUBSET Threads]
    /\ created \in SUBSET Holds
    /\ closed \in [Holds -> BOOLEAN]
    /\ liveness \in [Holds -> Levels]
    /\ lock \in [Holds -> Threads \cup {NoThread}]
    /\ pending_host_ops \in [Levels -> Nat]
    /\ pc \in [Threads -> Steps]
    /\ hold \in [Threads -> Holds]
    /\ level \in [Threads -> Levels]
    /\ held \in [Holds -> Levels \cup {"none"}]

Init ==
    /\ clones = [h \in Holds |-> {}]
    /\ created = {}
    /\ closed = [h \in Holds |-> FALSE]
    /\ liveness = [h \in Holds |-> "Ref"]
    /\ lock = [h \in Holds |-> NoThread]
    /\ pending_host_ops = [l \in Levels |-> 0]
    /\ pc = [p \in Threads |-> "idle"]
    /\ hold \in [Threads -> Holds]
    /\ level = [p \in Threads |-> "Ref"]
    /\ held = [h \in Holds |-> "none"]

-----------------------------------------------------------------------------
\* decrement_liveness: fetch_update with checked_sub, which saturates.
decrement_liveness(l) ==
    pending_host_ops' = [pending_host_ops EXCEPT ![l] = IF @ = 0 THEN 0 ELSE @ - 1]

increment_liveness(l) ==
    pending_host_ops' = [pending_host_ops EXCEPT ![l] = @ + 1]

Goto(p, step) == pc' = [pc EXCEPT ![p] = step]

\* retain_host_activity, then the hold is built and returned.
retain(p, h, l) ==
    /\ pc[p] = "idle" /\ h \notin created
    /\ increment_liveness(l)
    /\ held' = [held EXCEPT ![h] = l]
    /\ created' = created \cup {h}
    /\ clones' = [clones EXCEPT ![h] = {p}]
    /\ liveness' = [liveness EXCEPT ![h] = l]
    /\ UNCHANGED <<closed, lock, pc, hold, level>>

\* Clone: the Arc is handed to another thread.
clone(p, q, h) ==
    /\ pc[p] = "idle" /\ p \in clones[h]
    /\ clones' = [clones EXCEPT ![h] = @ \cup {q}]
    /\ UNCHANGED <<created, closed, liveness, lock, pending_host_ops, pc, hold,
                   level, held>>

\* Mutant of close: the result of the swap is ignored.
close_unchecked(p, h) ==
    /\ pc[p] = "idle" /\ p \in clones[h]
    /\ closed' = [closed EXCEPT ![h] = TRUE]
    /\ hold' = [hold EXCEPT ![p] = h]
    /\ Goto(p, "release_read")
    /\ UNCHANGED <<clones, created, liveness, lock, pending_host_ops, level, held>>

\* close: the swap decides which thread releases the hold.
close(p, h) ==
    /\ pc[p] = "idle" /\ p \in clones[h]
    /\ closed' = [closed EXCEPT ![h] = TRUE]
    /\ hold' = [hold EXCEPT ![p] = h]
    /\ IF closed[h] THEN UNCHANGED pc ELSE Goto(p, "release_read")
    /\ UNCHANGED <<clones, created, liveness, lock, pending_host_ops, level, held>>

\* Mutant of drop: dropping the last clone does not release.
drop_forgets(p, h) ==
    /\ pc[p] = "idle" /\ p \in clones[h]
    /\ clones' = [clones EXCEPT ![h] = @ \ {p}]
    /\ IF clones[h] = {p}
       THEN /\ closed' = [closed EXCEPT ![h] = TRUE]
            /\ hold' = [hold EXCEPT ![p] = h]
            /\ UNCHANGED pc
       ELSE UNCHANGED <<closed, hold, pc>>
    /\ UNCHANGED <<created, liveness, lock, pending_host_ops, level, held>>

\* Drop of a clone; the last one runs the same swap.
drop(p, h) ==
    /\ pc[p] = "idle" /\ p \in clones[h]
    /\ clones' = [clones EXCEPT ![h] = @ \ {p}]
    /\ IF clones[h] = {p}
       THEN /\ closed' = [closed EXCEPT ![h] = TRUE]
            /\ hold' = [hold EXCEPT ![p] = h]
            /\ IF closed[h] THEN UNCHANGED pc ELSE Goto(p, "release_read")
       ELSE UNCHANGED <<closed, hold, pc>>
    /\ UNCHANGED <<created, liveness, lock, pending_host_ops, level, held>>

\* Mutant of release_read: the level is read without the mutex.
release_read_unlocked(p) ==
    /\ pc[p] = "release_read"
    /\ level' = [level EXCEPT ![p] = liveness[hold[p]]]
    /\ Goto(p, "release_count")
    /\ UNCHANGED <<clones, created, closed, liveness, lock, pending_host_ops,
                   hold, held>>

\* The level is read under the mutex, which is free again before the counter
\* moves.
release_read(p) ==
    /\ pc[p] = "release_read" /\ lock[hold[p]] = NoThread
    /\ level' = [level EXCEPT ![p] = liveness[hold[p]]]
    /\ Goto(p, "release_count")
    /\ UNCHANGED <<clones, created, closed, liveness, lock, pending_host_ops,
                   hold, held>>

\* complete_host_activity (close) or cancel_host_activity (drop).
release_count(p) ==
    /\ pc[p] = "release_count"
    /\ decrement_liveness(level[p])
    /\ held' = [held EXCEPT ![hold[p]] = "none"]
    /\ Goto(p, "idle")
    /\ UNCHANGED <<clones, created, closed, liveness, lock, hold, level>>

\* ref_ and unref: the unlocked check ...
set_liveness(p, h, l) ==
    /\ pc[p] = "idle" /\ p \in clones[h]
    /\ ~closed[h]
    /\ hold' = [hold EXCEPT ![p] = h]
    /\ level' = [level EXCEPT ![p] = l]
    /\ Goto(p, "set_lock")
    /\ UNCHANGED <<clones, created, closed, liveness, lock, pending_host_ops, held>>

set_lock(p) ==
    /\ pc[p] = "set_lock" /\ lock[hold[p]] = NoThread
    /\ lock' = [lock EXCEPT ![hold[p]] = p]
    /\ Goto(p, "set_recheck")
    /\ UNCHANGED <<clones, created, closed, liveness, pending_host_ops, hold,
                   level, held>>

\* Mutant of set_recheck: closed is not looked at again under the mutex.
set_recheck_once(p) ==
    /\ pc[p] = "set_recheck"
    /\ IF liveness[hold[p]] = level[p]
       THEN lock' = [lock EXCEPT ![hold[p]] = NoThread] /\ Goto(p, "idle")
       ELSE Goto(p, "move_down") /\ UNCHANGED lock
    /\ UNCHANGED <<clones, created, closed, liveness, pending_host_ops, hold,
                   level, held>>

\* ... and the one under the mutex.
set_recheck(p) ==
    /\ pc[p] = "set_recheck"
    /\ IF liveness[hold[p]] = level[p] \/ closed[hold[p]]
       THEN lock' = [lock EXCEPT ![hold[p]] = NoThread] /\ Goto(p, "idle")
       ELSE Goto(p, "move_down") /\ UNCHANGED lock
    /\ UNCHANGED <<clones, created, closed, liveness, pending_host_ops, hold,
                   level, held>>

\* move_host_activity: two counters, two steps.
move_down(p) ==
    /\ pc[p] = "move_down"
    /\ decrement_liveness(liveness[hold[p]])
    /\ held' = [held EXCEPT ![hold[p]] = "none"]
    /\ Goto(p, "move_up")
    /\ UNCHANGED <<clones, created, closed, liveness, lock, hold, level>>

move_up(p) ==
    /\ pc[p] = "move_up"
    /\ increment_liveness(level[p])
    /\ held' = [held EXCEPT ![hold[p]] = level[p]]
    /\ Goto(p, "set_store")
    /\ UNCHANGED <<clones, created, closed, liveness, lock, hold, level>>

set_store(p) ==
    /\ pc[p] = "set_store"
    /\ liveness' = [liveness EXCEPT ![hold[p]] = level[p]]
    /\ lock' = [lock EXCEPT ![hold[p]] = NoThread]
    /\ Goto(p, "idle")
    /\ UNCHANGED <<clones, created, closed, pending_host_ops, hold, level, held>>

-----------------------------------------------------------------------------
Call(p, h) == \/ \E l \in Levels : retain(p, h, l) \/ set_liveness(p, h, l)
              \/ \E q \in Threads : clone(p, q, h)
              \/ close(p, h) \/ drop(p, h)

Step(p) == \/ release_read(p) \/ release_count(p) \/ set_lock(p) \/ set_recheck(p)
           \/ move_down(p) \/ move_up(p) \/ set_store(p)

Next == \E p \in Threads : Step(p) \/ \E h \in Holds : Call(p, h)

Spec == Init /\ [][Next]_vars

\* A thread inside a call keeps running.
FairSpec == Spec /\ \A p \in Threads : WF_vars(Step(p))

-----------------------------------------------------------------------------
(* Properties.                                                              *)

\* "accounting is applied exactly once": when no call is in progress the two
\* counters are exactly the open holds at each level.
CountersExact ==
    (\A p \in Threads : pc[p] = "idle") =>
        \A l \in Levels :
            pending_host_ops[l] =
                Cardinality({h \in created : ~closed[h] /\ liveness[h] = l})

\* An open referenced hold keeps the event loop alive, whatever other threads do
\* to it or to other holds, unless one is inside ref_ or unref on this hold.
OpenRefKeepsLoopAlive ==
    \A h \in created :
        (~closed[h] /\ liveness[h] = "Ref" /\ lock[h] = NoThread)
        => pending_host_ops["Ref"] > 0

\* A decrement always takes off a count its hold has, so the saturating
\* subtraction never hides one.
NoUnderflow ==
    \A p \in Threads :
        /\ pc[p] = "release_count" => held[hold[p]] = level[p]
        /\ pc[p] = "move_down" => held[hold[p]] = liveness[hold[p]]

\* Once the last clone is gone the resource is no longer counted: a dropped
\* hold cannot keep the event loop alive.
DroppedIsReleased ==
    \A h \in Holds : (h \in created /\ clones[h] = {}) ~> held[h] = "none"

\* The state of a hold as the threads' steps show it: released when it is closed
\* and its releaser is done, and counted at its new level before set_liveness
\* stores it.
ThreadsAt(steps, h) == {p \in Threads : pc[p] \in steps /\ hold[p] = h}

AbstractState ==
    [h \in Holds |->
        IF h \notin created THEN "none"
        ELSE IF closed[h] /\ ThreadsAt({"release_read", "release_count"}, h) = {}
        THEN "released"
        ELSE IF ThreadsAt({"move_up"}, h) # {} THEN "moving"
        ELSE IF ThreadsAt({"set_store"}, h) # {}
        THEN level[CHOOSE p \in Threads : p \in ThreadsAt({"set_store"}, h)]
        ELSE liveness[h]]

Hold == INSTANCE KeepAliveHold WITH state <- AbstractState, count <- pending_host_ops

\* However close, drop, ref_ and unref interleave, the two counters change as if
\* each hold were opened, moved and released by itself: every decrement takes
\* off the level at which its own hold is counted, once, and no call counts a
\* hold again after its release.
HoldSpec == Hold!HoldSpec
=============================================================================
