--------------------------- MODULE KeepAliveProofs ---------------------------
(***************************************************************************)
(* RuntimeKeepAlive for any number of threads and holds: the counters never *)
(* drift from the open holds, and change only as KeepAliveHold allows.       *)
(***************************************************************************)
EXTENDS KeepAlive, TLAPS, FiniteSetTheorems

\* Every leaf that names no prover goes to the SMT solver.
USE SMTT(60)

Locked == {"set_recheck", "move_down", "move_up", "set_store"}
Moving == {"move_down", "move_up", "set_store"}
Moved == {"move_up", "set_store"}
Releasing == {"release_read", "release_count"}

\* The thread inside the mutex is the one whose step says so.
LockInv ==
    \A p \in Threads, h \in Holds :
        lock[h] = p <=> (pc[p] \in Locked /\ hold[p] = h)

\* Only holds that exist are closed, cloned or operated on.
CreatedInv ==
    /\ \A h \in Holds : h \notin created => clones[h] = {} /\ ~closed[h]
    /\ \A p \in Threads : pc[p] # "idle" => hold[p] \in created

\* The swap on closed elects one releasing thread.
ReleaseInv ==
    /\ \A p \in Threads : pc[p] \in Releasing => closed[hold[p]]
    /\ \A p, q \in Threads :
          (pc[p] \in Releasing /\ pc[q] \in Releasing /\ hold[p] = hold[q]) => p = q

\* A hold is due a count from retain until its elected releaser is done.
Due(h) == h \in created /\ (closed[h] => \E q \in Threads : pc[q] \in Releasing /\ hold[q] = h)

\* Where each hold is counted at every point of every call.
HeldInv ==
    /\ \A h \in Holds : ~Due(h) => held[h] = "none"
    /\ \A h \in Holds :
          (Due(h) /\ \A p \in Threads : pc[p] \in Moved => hold[p] # h)
          => held[h] = liveness[h]
    /\ \A p \in Threads :
          /\ pc[p] = "move_up" => held[hold[p]] = "none"
          /\ pc[p] = "set_store" => held[hold[p]] = level[p]
          /\ pc[p] \in Moving => Due(hold[p])
          /\ pc[p] = "release_count" =>
                /\ level[p] = liveness[hold[p]]
                /\ \A q \in Threads : pc[q] \in Moving => hold[q] # hold[p]

\* Each counter is the number of holds counted there.
CountInv ==
    \A l \in Levels : pending_host_ops[l] = Cardinality({h \in Holds : held[h] = l})

IInv == TypeOK /\ LockInv /\ CreatedInv /\ ReleaseInv /\ HeldInv /\ CountInv

-----------------------------------------------------------------------------
(* Type correctness.                                                        *)

\* The initial state of the module is well typed.
LEMMA TypeInit == Init => TypeOK
BY KeepAliveAssumption DEF Init, TypeOK, Levels, Steps

\* No step of retain, clone, close, drop, ref_ or unref leaves the types.
LEMMA TypeStep == TypeOK /\ [Next]_vars => TypeOK'
<1> SUFFICES ASSUME TypeOK, [Next]_vars PROVE TypeOK'
  OBVIOUS
<1> USE DEF TypeOK, Levels, Steps
<1>1. CASE UNCHANGED vars
  BY <1>1 DEF vars
<1>2. ASSUME NEW p \in Threads, NEW h \in Holds, NEW l \in Levels, retain(p, h, l)
      PROVE TypeOK'
  BY <1>2 DEF retain, increment_liveness
<1>3. ASSUME NEW p \in Threads, NEW q \in Threads, NEW h \in Holds, clone(p, q, h)
      PROVE TypeOK'
  BY <1>3 DEF clone
<1>4. ASSUME NEW p \in Threads, NEW h \in Holds, close(p, h)
      PROVE TypeOK'
  BY <1>4 DEF close, Goto
<1>5. ASSUME NEW p \in Threads, NEW h \in Holds, drop(p, h)
      PROVE TypeOK'
  BY ZenonT(60), <1>5 DEF drop, Goto
<1>6. ASSUME NEW p \in Threads, release_read(p)
      PROVE TypeOK'
  BY <1>6 DEF release_read, Goto
<1>7. ASSUME NEW p \in Threads, release_count(p)
      PROVE TypeOK'
  BY <1>7 DEF release_count, Goto, decrement_liveness
<1>8. ASSUME NEW p \in Threads, NEW h \in Holds, NEW l \in Levels, set_liveness(p, h, l)
      PROVE TypeOK'
  BY <1>8 DEF set_liveness, Goto
<1>9. ASSUME NEW p \in Threads, set_lock(p)
      PROVE TypeOK'
  BY <1>9 DEF set_lock, Goto
<1>10. ASSUME NEW p \in Threads, set_recheck(p)
      PROVE TypeOK'
  BY <1>10 DEF set_recheck, Goto
<1>11. ASSUME NEW p \in Threads, move_down(p)
      PROVE TypeOK'
  BY <1>11 DEF move_down, Goto, decrement_liveness
<1>12. ASSUME NEW p \in Threads, move_up(p)
      PROVE TypeOK'
  BY <1>12 DEF move_up, Goto, increment_liveness
<1>13. ASSUME NEW p \in Threads, set_store(p)
      PROVE TypeOK'
  BY <1>13 DEF set_store, Goto
<1>14. QED
  BY <1>1, <1>2, <1>3, <1>4, <1>5, <1>6, <1>7, <1>8, <1>9, <1>10, <1>11, <1>12, <1>13
     DEF Next, Step, Call

-----------------------------------------------------------------------------
(* The mutex, the elected releaser and the counted level.                   *)

\* Only set_liveness takes the mutex, and it gives it back on every return.
LEMMA LockStep == IInv /\ [Next]_vars => LockInv'
<1> SUFFICES ASSUME IInv, [Next]_vars PROVE LockInv'
  OBVIOUS
<1> USE KeepAliveAssumption DEF IInv, TypeOK, LockInv, Locked, Levels, Steps
<1>1. CASE UNCHANGED vars
  BY <1>1 DEF vars
<1>2. ASSUME NEW p \in Threads, NEW h \in Holds, NEW l \in Levels, retain(p, h, l)
      PROVE LockInv'
  BY <1>2 DEF retain
<1>3. ASSUME NEW p \in Threads, NEW q \in Threads, NEW h \in Holds, clone(p, q, h)
      PROVE LockInv'
  BY <1>3 DEF clone
<1>4. ASSUME NEW p \in Threads, NEW h \in Holds, close(p, h)
      PROVE LockInv'
  BY <1>4 DEF close, Goto
<1>5. ASSUME NEW p \in Threads, NEW h \in Holds, drop(p, h)
      PROVE LockInv'
  BY <1>5 DEF drop, Goto
<1>6. ASSUME NEW p \in Threads, release_read(p)
      PROVE LockInv'
  BY <1>6 DEF release_read, Goto
<1>7. ASSUME NEW p \in Threads, release_count(p)
      PROVE LockInv'
  BY <1>7 DEF release_count, Goto
<1>8. ASSUME NEW p \in Threads, NEW h \in Holds, NEW l \in Levels, set_liveness(p, h, l)
      PROVE LockInv'
  BY <1>8 DEF set_liveness, Goto
<1>9. ASSUME NEW p \in Threads, set_lock(p)
      PROVE LockInv'
  BY <1>9 DEF set_lock, Goto
<1>10. ASSUME NEW p \in Threads, set_recheck(p)
      PROVE LockInv'
  BY <1>10 DEF set_recheck, Goto
<1>11. ASSUME NEW p \in Threads, move_down(p)
      PROVE LockInv'
  BY <1>11 DEF move_down, Goto
<1>12. ASSUME NEW p \in Threads, move_up(p)
      PROVE LockInv'
  BY <1>12 DEF move_up, Goto
<1>13. ASSUME NEW p \in Threads, set_store(p)
      PROVE LockInv'
  BY <1>13 DEF set_store, Goto
<1>14. QED
  BY <1>1, <1>2, <1>3, <1>4, <1>5, <1>6, <1>7, <1>8, <1>9, <1>10, <1>11, <1>12, <1>13
     DEF Next, Step, Call

\* A hold is touched only through a clone that retain or Clone handed out.
LEMMA CreatedStep == IInv /\ [Next]_vars => CreatedInv'
<1> SUFFICES ASSUME IInv, [Next]_vars PROVE CreatedInv'
  OBVIOUS
<1> USE KeepAliveAssumption DEF IInv, TypeOK, CreatedInv, Levels, Steps
<1>1. CASE UNCHANGED vars
  BY <1>1 DEF vars
<1>2. ASSUME NEW p \in Threads, NEW h \in Holds, NEW l \in Levels, retain(p, h, l)
      PROVE CreatedInv'
  BY <1>2 DEF retain
<1>3. ASSUME NEW p \in Threads, NEW q \in Threads, NEW h \in Holds, clone(p, q, h)
      PROVE CreatedInv'
  BY <1>3 DEF clone
<1>4. ASSUME NEW p \in Threads, NEW h \in Holds, close(p, h)
      PROVE CreatedInv'
  BY <1>4 DEF close, Goto
<1>5. ASSUME NEW p \in Threads, NEW h \in Holds, drop(p, h)
      PROVE CreatedInv'
  BY <1>5 DEF drop, Goto
<1>6. ASSUME NEW p \in Threads, release_read(p)
      PROVE CreatedInv'
  BY <1>6 DEF release_read, Goto
<1>7. ASSUME NEW p \in Threads, release_count(p)
      PROVE CreatedInv'
  BY <1>7 DEF release_count, Goto
<1>8. ASSUME NEW p \in Threads, NEW h \in Holds, NEW l \in Levels, set_liveness(p, h, l)
      PROVE CreatedInv'
  BY <1>8 DEF set_liveness, Goto
<1>9. ASSUME NEW p \in Threads, set_lock(p)
      PROVE CreatedInv'
  BY <1>9 DEF set_lock, Goto
<1>10. ASSUME NEW p \in Threads, set_recheck(p)
      PROVE CreatedInv'
  BY <1>10 DEF set_recheck, Goto
<1>11. ASSUME NEW p \in Threads, move_down(p)
      PROVE CreatedInv'
  BY <1>11 DEF move_down, Goto
<1>12. ASSUME NEW p \in Threads, move_up(p)
      PROVE CreatedInv'
  BY <1>12 DEF move_up, Goto
<1>13. ASSUME NEW p \in Threads, set_store(p)
      PROVE CreatedInv'
  BY ZenonT(60), <1>13 DEF set_store, Goto
<1>14. QED
  BY <1>1, <1>2, <1>3, <1>4, <1>5, <1>6, <1>7, <1>8, <1>9, <1>10, <1>11, <1>12, <1>13
     DEF Next, Step, Call

\* The swap on closed elects at most one releaser, between close and drop.
LEMMA ReleaseStep == IInv /\ [Next]_vars => ReleaseInv'
<1> SUFFICES ASSUME IInv, [Next]_vars PROVE ReleaseInv'
  OBVIOUS
<1> USE KeepAliveAssumption DEF IInv, TypeOK, CreatedInv, ReleaseInv, Releasing, Levels, Steps
<1>1. CASE UNCHANGED vars
  BY <1>1 DEF vars
<1>2. ASSUME NEW p \in Threads, NEW h \in Holds, NEW l \in Levels, retain(p, h, l)
      PROVE ReleaseInv'
  BY <1>2 DEF retain
<1>3. ASSUME NEW p \in Threads, NEW q \in Threads, NEW h \in Holds, clone(p, q, h)
      PROVE ReleaseInv'
  BY <1>3 DEF clone
<1>4. ASSUME NEW p \in Threads, NEW h \in Holds, close(p, h)
      PROVE ReleaseInv'
  BY <1>4 DEF close, Goto
<1>5. ASSUME NEW p \in Threads, NEW h \in Holds, drop(p, h)
      PROVE ReleaseInv'
  <2>1. CASE clones[h] = {p} /\ ~closed[h]
    BY <1>5, <2>1 DEF drop, Goto
  <2>2. CASE clones[h] = {p} /\ closed[h]
    BY <1>5, <2>2 DEF drop
  <2>3. CASE clones[h] # {p}
    BY <1>5, <2>3 DEF drop
  <2>4. QED
    BY ZenonT(60), <2>1, <2>2, <2>3
<1>6. ASSUME NEW p \in Threads, release_read(p)
      PROVE ReleaseInv'
  BY <1>6 DEF release_read, Goto
<1>7. ASSUME NEW p \in Threads, release_count(p)
      PROVE ReleaseInv'
  BY <1>7 DEF release_count, Goto
<1>8. ASSUME NEW p \in Threads, NEW h \in Holds, NEW l \in Levels, set_liveness(p, h, l)
      PROVE ReleaseInv'
  BY <1>8 DEF set_liveness, Goto
<1>9. ASSUME NEW p \in Threads, set_lock(p)
      PROVE ReleaseInv'
  BY <1>9 DEF set_lock, Goto
<1>10. ASSUME NEW p \in Threads, set_recheck(p)
      PROVE ReleaseInv'
  BY <1>10 DEF set_recheck, Goto
<1>11. ASSUME NEW p \in Threads, move_down(p)
      PROVE ReleaseInv'
  BY <1>11 DEF move_down, Goto
<1>12. ASSUME NEW p \in Threads, move_up(p)
      PROVE ReleaseInv'
  BY <1>12 DEF move_up, Goto
<1>13. ASSUME NEW p \in Threads, set_store(p)
      PROVE ReleaseInv'
  BY <1>13 DEF set_store, Goto
<1>14. QED
  BY <1>1, <1>2, <1>3, <1>4, <1>5, <1>6, <1>7, <1>8, <1>9, <1>10, <1>11, <1>12, <1>13
     DEF Next, Step, Call

\* Every call keeps each hold counted exactly where its level says.
LEMMA HeldStep == IInv /\ [Next]_vars => HeldInv'
<1> SUFFICES ASSUME IInv, [Next]_vars PROVE HeldInv'
  OBVIOUS
<1> USE KeepAliveAssumption DEF IInv, TypeOK, LockInv, CreatedInv, ReleaseInv, HeldInv, Due, Locked, Moving, Moved, Releasing, Levels, Steps
<1>1. CASE UNCHANGED vars
  BY <1>1 DEF vars
<1>2. ASSUME NEW p \in Threads, NEW h \in Holds, NEW l \in Levels, retain(p, h, l)
      PROVE HeldInv'
  BY <1>2 DEF retain
<1>3. ASSUME NEW p \in Threads, NEW q \in Threads, NEW h \in Holds, clone(p, q, h)
      PROVE HeldInv'
  BY <1>3 DEF clone
<1>swap. ASSUME NEW p \in Threads, NEW h \in Holds, pc[p] = "idle",
                closed' = [closed EXCEPT ![h] = TRUE], hold' = [hold EXCEPT ![p] = h],
                IF closed[h] THEN UNCHANGED pc ELSE Goto(p, "release_read"),
                UNCHANGED <<created, liveness, level, held>>
      PROVE HeldInv'
  <2>1. CASE closed[h]
    <3>1. /\ closed' = closed /\ pc' = pc /\ pc[p] = "idle" /\ hold' = [hold EXCEPT ![p] = h]
          /\ UNCHANGED <<created, liveness, level, held>>
      BY <1>swap, <2>1
    <3>2. \A q \in Threads : pc[q] # "idle" => hold'[q] = hold[q]
      BY <3>1
    <3>3. \A x \in Holds : Due(x)' <=> Due(x)
      BY <3>1, <3>2
    <3>4. QED
      BY <3>1, <3>2, <3>3
  <2>2. CASE ~closed[h]
    <3>1. /\ closed' = [closed EXCEPT ![h] = TRUE] /\ pc[p] = "idle"
          /\ pc' = [pc EXCEPT ![p] = "release_read"] /\ hold' = [hold EXCEPT ![p] = h]
          /\ UNCHANGED <<created, liveness, level, held>>
      BY <1>swap, <2>2 DEF Goto
    <3>2. \A q \in Threads : q # p => hold'[q] = hold[q] /\ pc'[q] = pc[q]
      BY <3>1
    <3>3. pc'[p] = "release_read" /\ hold'[p] = h
      BY <3>1
    <3>4. \A x \in Holds : Due(x)' <=> Due(x)
      <4> TAKE x \in Holds
      <4>1. CASE x = h
        BY <2>2, <3>1, <3>3, <4>1
      <4>2. CASE x # h
        BY <3>1, <3>2, <3>3, <4>2
      <4>3. QED
        BY <4>1, <4>2
    <3>5. \A q \in Threads : pc'[q] \in Moving \cup {"release_count"} =>
              q # p /\ pc'[q] = pc[q] /\ hold'[q] = hold[q]
      BY <3>2, <3>3
    <3>6. \A q \in Threads : pc[q] \in Moved => q # p /\ pc'[q] = pc[q] /\ hold'[q] = hold[q]
      BY <3>1, <3>2
    <3>7. QED
      BY <3>1, <3>4, <3>5, <3>6
  <2>3. QED
    BY <2>1, <2>2
<1>4. ASSUME NEW p \in Threads, NEW h \in Holds, close(p, h)
      PROVE HeldInv'
  <2>1. /\ pc[p] = "idle"
        /\ closed' = [closed EXCEPT ![h] = TRUE] /\ hold' = [hold EXCEPT ![p] = h]
        /\ IF closed[h] THEN UNCHANGED pc ELSE Goto(p, "release_read")
        /\ UNCHANGED <<created, liveness, level, held>>
    BY ZenonT(60), <1>4 DEF close
  <2>2. QED
    BY ZenonT(60), <1>swap, <2>1
<1>5. ASSUME NEW p \in Threads, NEW h \in Holds, drop(p, h)
      PROVE HeldInv'
  <2>1. CASE clones[h] = {p}
    <3>1. /\ pc[p] = "idle"
          /\ closed' = [closed EXCEPT ![h] = TRUE] /\ hold' = [hold EXCEPT ![p] = h]
          /\ IF closed[h] THEN UNCHANGED pc ELSE Goto(p, "release_read")
          /\ UNCHANGED <<created, liveness, level, held>>
      BY ZenonT(60), <1>5, <2>1 DEF drop
    <3>2. QED
      BY ZenonT(60), <1>swap, <3>1
  <2>2. CASE clones[h] # {p}
    <3>1. UNCHANGED <<created, closed, liveness, pc, hold, level, held>>
      BY ZenonT(60), <1>5, <2>2 DEF drop
    <3>2. QED
      BY <3>1
  <2>3. QED
    BY ZenonT(60), <2>1, <2>2
<1>6. ASSUME NEW p \in Threads, release_read(p)
      PROVE HeldInv'
  BY <1>6 DEF release_read, Goto
<1>7. ASSUME NEW p \in Threads, release_count(p)
      PROVE HeldInv'
  BY <1>7 DEF release_count, Goto
<1>8. ASSUME NEW p \in Threads, NEW h \in Holds, NEW l \in Levels, set_liveness(p, h, l)
      PROVE HeldInv'
  BY <1>8 DEF set_liveness, Goto
<1>9. ASSUME NEW p \in Threads, set_lock(p)
      PROVE HeldInv'
  BY <1>9 DEF set_lock, Goto
<1>10. ASSUME NEW p \in Threads, set_recheck(p)
      PROVE HeldInv'
  BY <1>10 DEF set_recheck, Goto
<1>11. ASSUME NEW p \in Threads, move_down(p)
      PROVE HeldInv'
  BY <1>11 DEF move_down, Goto
<1>12. ASSUME NEW p \in Threads, move_up(p)
      PROVE HeldInv'
  BY <1>12 DEF move_up, Goto
<1>13. ASSUME NEW p \in Threads, set_store(p)
      PROVE HeldInv'
  BY <1>13 DEF set_store, Goto
<1> HIDE DEF HeldInv, IInv
<1>14. QED
  BY <1>1, <1>2, <1>3, <1>4, <1>5, <1>6, <1>7, <1>8, <1>9, <1>10, <1>11, <1>12, <1>13
     DEF Next, Step, Call

-----------------------------------------------------------------------------
(* The counters.                                                            *)

\* The holds counted at level l.
At(f, l) == {h \in Holds : f[h] = l}

\* Counting a hold at l raises the number of holds counted there by one.
LEMMA CountUp ==
  ASSUME NEW f \in [Holds -> Levels \cup {"none"}], NEW h \in Holds,
         NEW l \in Levels, f[h] # l
  PROVE  Cardinality(At([f EXCEPT ![h] = l], l)) = Cardinality(At(f, l)) + 1
<1>1. IsFiniteSet(At(f, l))
  BY KeepAliveAssumption, FS_Subset DEF At
<1>2. At([f EXCEPT ![h] = l], l) = At(f, l) \cup {h}
  BY DEF At
<1>3. QED
  BY <1>1, <1>2, FS_AddElement DEF At

\* Taking a hold off l lowers the number by one; it was at least one.
LEMMA CountDown ==
  ASSUME NEW f \in [Holds -> Levels \cup {"none"}], NEW h \in Holds,
         NEW l \in Levels, f[h] = l
  PROVE  /\ Cardinality(At([f EXCEPT ![h] = "none"], l)) = Cardinality(At(f, l)) - 1
         /\ Cardinality(At(f, l)) \in Nat \ {0}
<1>1. IsFiniteSet(At(f, l)) /\ h \in At(f, l)
  BY KeepAliveAssumption, FS_Subset DEF At
<1>2. At([f EXCEPT ![h] = "none"], l) = At(f, l) \ {h}
  BY DEF At, Levels
<1>3. Cardinality(At(f, l)) \in Nat
  BY <1>1, FS_CardinalityType
<1>4. Cardinality(At(f, l)) # 0
  <2>1. At(f, l) # {}
    BY <1>1
  <2>2. QED
    BY <1>1, <2>1, FS_EmptySet
<1>5. Cardinality(At(f, l) \ {h}) = Cardinality(At(f, l)) - 1
  BY ZenonT(60), <1>1, FS_RemoveElement
<1>6. QED
  BY ZenonT(60), <1>2, <1>3, <1>4, <1>5

\* A change between "none" and l leaves every other level alone.
LEMMA CountOther ==
  ASSUME NEW f \in [Holds -> Levels \cup {"none"}], NEW h \in Holds,
         NEW v \in Levels \cup {"none"}, NEW m \in Levels, f[h] # m, v # m
  PROVE  Cardinality(At([f EXCEPT ![h] = v], m)) = Cardinality(At(f, m))
<1>1. At([f EXCEPT ![h] = v], m) = At(f, m)
  BY DEF At
<1>2. QED
  BY <1>1

\* The elected releaser read the level its hold is counted at.
LEMMA ReleaseMatched ==
  ASSUME IInv, NEW p \in Threads, pc[p] = "release_count"
  PROVE  held[hold[p]] = level[p]
<1>1. hold[p] \in Holds /\ hold[p] \in created
  BY DEF IInv, TypeOK, CreatedInv
<1>2. Due(hold[p])
  BY <1>1 DEF Due, Releasing
<1>3. /\ level[p] = liveness[hold[p]]
      /\ \A q \in Threads : pc[q] \in Moving => hold[q] # hold[p]
  BY DEF IInv, HeldInv
<1>4. \A q \in Threads : pc[q] \in Moved => hold[q] # hold[p]
  BY <1>3 DEF Moved, Moving
<1>5. held[hold[p]] = liveness[hold[p]]
  BY <1>1, <1>2, <1>4 DEF IInv, HeldInv
<1>6. QED
  BY <1>3, <1>5

\* The thread about to move a hold finds it counted at the level under the mutex.
LEMMA MoveMatched ==
  ASSUME IInv, NEW p \in Threads, pc[p] = "move_down"
  PROVE  held[hold[p]] = liveness[hold[p]]
<1>1. hold[p] \in Holds
  BY DEF IInv, TypeOK
<1>2. lock[hold[p]] = p
  BY <1>1 DEF IInv, LockInv, Locked
<1>3. ASSUME NEW q \in Threads, pc[q] \in Moved PROVE hold[q] # hold[p]
  <2>1. lock[hold[q]] = q
    BY <1>3 DEF IInv, TypeOK, LockInv, Locked, Moved
  <2>2. q # p
    BY <1>3 DEF Moved
  <2>3. QED
    BY <1>2, <2>1, <2>2
<1>4. Due(hold[p])
  BY DEF IInv, HeldInv, Moving
<1>5. QED
  BY <1>1, <1>3, <1>4 DEF IInv, HeldInv

\* increment_liveness and decrement_liveness move with the holds they are for:
\* the saturating subtraction never meets a zero.
LEMMA CountStep == IInv /\ [Next]_vars => CountInv'
<1> SUFFICES ASSUME IInv, [Next]_vars PROVE CountInv'
  OBVIOUS
<1>1. \A l \in Levels : pending_host_ops[l] = Cardinality(At(held, l))
  BY DEF IInv, CountInv, At
<1>2. CountInv' <=> \A l \in Levels : pending_host_ops'[l] = Cardinality(At(held', l))
  BY DEF CountInv, At
<1>typ. /\ held \in [Holds -> Levels \cup {"none"}]
        /\ pending_host_ops \in [Levels -> Nat]
        /\ hold \in [Threads -> Holds] /\ level \in [Threads -> Levels]
        /\ liveness \in [Holds -> Levels]
  BY DEF IInv, TypeOK
<1>none. "none" \notin Levels
  BY DEF Levels
<1>up. ASSUME NEW h \in Holds, NEW l \in Levels, held[h] = "none",
              held' = [held EXCEPT ![h] = l], increment_liveness(l)
       PROVE  CountInv'
  <2>1. Cardinality(At(held', l)) = Cardinality(At(held, l)) + 1
    <3>1. held[h] # l
      BY <1>up, <1>none
    <3>2. Cardinality(At([held EXCEPT ![h] = l], l)) = Cardinality(At(held, l)) + 1
      BY ZenonT(60), <1>typ, <3>1, CountUp
    <3>3. QED
      BY <1>up, <3>2
  <2>2. ASSUME NEW m \in Levels, m # l
        PROVE  Cardinality(At(held', m)) = Cardinality(At(held, m))
    <3>1. held[h] # m /\ l # m /\ l \in Levels \cup {"none"}
      BY <1>up, <1>none, <2>2
    <3>2. Cardinality(At([held EXCEPT ![h] = l], m)) = Cardinality(At(held, m))
      BY ZenonT(60), <1>typ, <3>1, CountOther
    <3>3. QED
      BY <1>up, <3>2
  <2>3. pending_host_ops' = [pending_host_ops EXCEPT ![l] = pending_host_ops[l] + 1]
    BY <1>up DEF increment_liveness
  <2>4. ASSUME NEW m \in Levels PROVE pending_host_ops'[m] = Cardinality(At(held', m))
    BY <1>1, <1>typ, <2>1, <2>2, <2>3
  <2>5. QED
    BY <1>2, <2>4
<1>down. ASSUME NEW h \in Holds, NEW l \in Levels, held[h] = l,
                held' = [held EXCEPT ![h] = "none"], decrement_liveness(l)
         PROVE  CountInv'
  <2>1. /\ Cardinality(At(held', l)) = Cardinality(At(held, l)) - 1
        /\ pending_host_ops[l] # 0
    <3>1. /\ Cardinality(At([held EXCEPT ![h] = "none"], l)) = Cardinality(At(held, l)) - 1
          /\ Cardinality(At(held, l)) \in Nat \ {0}
      BY ZenonT(60), <1>down, <1>typ, CountDown
    <3>2. QED
      BY <1>down, <1>1, <3>1
  <2>2. ASSUME NEW m \in Levels, m # l
        PROVE  Cardinality(At(held', m)) = Cardinality(At(held, m))
    <3>1. held[h] # m /\ "none" # m /\ "none" \in Levels \cup {"none"}
      BY <1>down, <1>none, <2>2
    <3>2. Cardinality(At([held EXCEPT ![h] = "none"], m)) = Cardinality(At(held, m))
      BY ZenonT(60), <1>typ, <3>1, CountOther
    <3>3. QED
      BY <1>down, <3>2
  <2>3. pending_host_ops' = [pending_host_ops EXCEPT ![l] = pending_host_ops[l] - 1]
    BY <1>down, <2>1 DEF decrement_liveness
  <2>4. ASSUME NEW m \in Levels PROVE pending_host_ops'[m] = Cardinality(At(held', m))
    BY <1>1, <1>typ, <2>1, <2>2, <2>3
  <2>5. QED
    BY <1>2, <2>4
<1>3. CASE UNCHANGED <<held, pending_host_ops>>
  BY <1>1, <1>2, <1>3
<1>4. ASSUME NEW p \in Threads, NEW h \in Holds, NEW l \in Levels, retain(p, h, l)
      PROVE CountInv'
  <2>1. held[h] = "none"
    BY <1>4 DEF retain, IInv, HeldInv, Due
  <2>2. QED
    BY ZenonT(60), <1>4, <1>up, <2>1 DEF retain
<1>5. ASSUME NEW p \in Threads, release_count(p)
      PROVE CountInv'
  <2>1. hold[p] \in Holds /\ level[p] \in Levels
    BY <1>typ
  <2>2. held[hold[p]] = level[p]
    BY <1>5, ReleaseMatched DEF release_count
  <2>3. QED
    BY ZenonT(60), <1>5, <1>down, <2>1, <2>2 DEF release_count
<1>6. ASSUME NEW p \in Threads, move_down(p)
      PROVE CountInv'
  <2>1. hold[p] \in Holds /\ liveness[hold[p]] \in Levels
    BY <1>typ
  <2>2. held[hold[p]] = liveness[hold[p]]
    BY <1>6, MoveMatched DEF move_down
  <2>3. QED
    BY ZenonT(60), <1>6, <1>down, <2>1, <2>2 DEF move_down
<1>7. ASSUME NEW p \in Threads, move_up(p)
      PROVE CountInv'
  <2>1. hold[p] \in Holds /\ level[p] \in Levels
    BY <1>typ
  <2>2. held[hold[p]] = "none"
    BY <1>7 DEF move_up, IInv, HeldInv
  <2>3. QED
    BY ZenonT(60), <1>7, <1>up, <2>1, <2>2 DEF move_up
<1>8. QED
  BY <1>3, <1>4, <1>5, <1>6, <1>7
     DEF Next, Step, Call, vars, clone, close, drop, release_read, set_liveness,
         set_lock, set_recheck, set_store

-----------------------------------------------------------------------------
(* The theorems.                                                            *)

\* No hold exists and no call is in progress at the start.
LEMMA InvInit == Init => IInv
<1> SUFFICES ASSUME Init PROVE IInv
  OBVIOUS
<1>1. TypeOK
  BY TypeInit
<1>2. LockInv /\ CreatedInv /\ ReleaseInv /\ HeldInv
  BY KeepAliveAssumption
     DEF Init, LockInv, CreatedInv, ReleaseInv, HeldInv, Due, Locked, Moving, Moved,
         Releasing
<1>3. CountInv
  <2>1. ASSUME NEW l \in Levels PROVE {h \in Holds : held[h] = l} = {}
    BY DEF Init, Levels
  <2>2. QED
    BY <2>1, FS_EmptySet DEF CountInv, Init
<1>4. QED
  BY <1>1, <1>2, <1>3 DEF IInv

\* Every reachable state satisfies the inductive invariant.
THEOREM Invariance == Spec => []IInv
<1>1. IInv /\ [Next]_vars => IInv'
  BY TypeStep, LockStep, CreatedStep, ReleaseStep, HeldStep, CountStep DEF IInv
<1>2. QED
  BY InvInit, <1>1, PTL DEF Spec

\* For any threads and holds: with no call in progress the two counters are
\* exactly the open holds at each level.
THEOREM CountersAreExact == Spec => []CountersExact
<1>1. IInv => CountersExact
  <2> SUFFICES ASSUME IInv, \A p \in Threads : pc[p] = "idle", NEW l \in Levels
               PROVE  pending_host_ops[l] =
                          Cardinality({h \in created : ~closed[h] /\ liveness[h] = l})
    BY DEF CountersExact
  <2>1. \A h \in Holds : held[h] = IF h \in created /\ ~closed[h] THEN liveness[h] ELSE "none"
    BY DEF IInv, HeldInv, Due, Releasing, Moved
  <2>2. {h \in Holds : held[h] = l} = {h \in created : ~closed[h] /\ liveness[h] = l}
    BY <2>1 DEF IInv, TypeOK, Levels
  <2>3. QED
    BY <2>2 DEF IInv, CountInv
<1>2. QED
  BY Invariance, <1>1, PTL

\* For any threads and holds: every decrement takes off a count its hold has, so
\* checked_sub never hides a lost release.
THEOREM DecrementsAreMatched == Spec => []NoUnderflow
<1>1. IInv => NoUnderflow
  BY ReleaseMatched, MoveMatched DEF NoUnderflow
<1>2. QED
  BY Invariance, <1>1, PTL

\* For any threads and holds: an open referenced hold keeps the event loop alive.
THEOREM RefHoldKeepsLoopAlive == Spec => []OpenRefKeepsLoopAlive
<1>1. IInv => OpenRefKeepsLoopAlive
  <2> SUFFICES ASSUME IInv, NEW h \in created, ~closed[h], liveness[h] = "Ref",
                      lock[h] = NoThread
               PROVE  pending_host_ops["Ref"] > 0
    BY DEF OpenRefKeepsLoopAlive
  <2>1. h \in Holds /\ held[h] = "Ref"
    BY KeepAliveAssumption
       DEF IInv, TypeOK, HeldInv, Due, LockInv, Locked, Moved
  <2>2. Cardinality(At(held, "Ref")) \in Nat \ {0}
    BY ZenonT(60), <2>1, CountDown DEF IInv, TypeOK, Levels
  <2>3. QED
    BY <2>2 DEF IInv, CountInv, At, Levels
<1>2. QED
  BY Invariance, <1>1, PTL

-----------------------------------------------------------------------------
(* The refinement.                                                          *)

\* The state of a hold, from where the invariant says it is counted.
Counted(h) ==
    IF h \notin created THEN "none"
    ELSE IF ~Due(h) THEN "released"
    ELSE IF held[h] = "none" THEN "moving" ELSE held[h]

\* What the threads' steps show of a hold is where it is counted.
Shown == AbstractState = [h \in Holds |-> Counted(h)]

\* The mapping, read off the steps of the calls, agrees with the counts.
LEMMA Abstraction == IInv => Shown
<1> SUFFICES ASSUME IInv, NEW h \in Holds PROVE AbstractState[h] = Counted(h)
  BY DEF AbstractState, Shown
<1>1. CASE ~Due(h)
  BY <1>1 DEF AbstractState, Counted, Due, ThreadsAt, Releasing
<1>2. CASE Due(h)
  <2>1. h \in created /\ ~(closed[h] /\ ThreadsAt({"release_read", "release_count"}, h) = {})
    BY <1>2 DEF Due, ThreadsAt, Releasing
  <2>2. CASE ThreadsAt({"move_up"}, h) # {}
    <3>1. held[h] = "none"
      BY <2>2 DEF ThreadsAt, IInv, HeldInv
    <3>2. QED
      BY ZenonT(60), <1>2, <2>1, <2>2, <3>1 DEF AbstractState, Counted
  <2>3. CASE ThreadsAt({"move_up"}, h) = {} /\ ThreadsAt({"set_store"}, h) # {}
    <3> DEFINE q == CHOOSE p \in Threads : p \in ThreadsAt({"set_store"}, h)
    <3>1. \E p \in Threads : p \in ThreadsAt({"set_store"}, h)
      BY <2>3 DEF ThreadsAt
    <3>2. q \in Threads /\ q \in ThreadsAt({"set_store"}, h)
      BY ZenonT(60), <3>1
    <3>3. AbstractState[h] = level[q]
      BY ZenonT(60), <2>1, <2>3 DEF AbstractState
    <3> HIDE DEF q
    <3>4. held[h] = level[q] /\ level[q] \in Levels
      BY <3>2 DEF ThreadsAt, IInv, TypeOK, HeldInv
    <3>5. QED
      BY <1>2, <2>1, <3>3, <3>4 DEF Counted, Levels
  <2>4. CASE ThreadsAt({"move_up"}, h) = {} /\ ThreadsAt({"set_store"}, h) = {}
    <3>1. \A p \in Threads : pc[p] \in Moved => hold[p] # h
      BY <2>4 DEF ThreadsAt, Moved
    <3>2. held[h] = liveness[h] /\ liveness[h] \in Levels
      BY <1>2, <3>1 DEF IInv, TypeOK, HeldInv
    <3>3. AbstractState[h] = liveness[h]
      BY ZenonT(60), <2>1, <2>4 DEF AbstractState
    <3>4. QED
      BY <1>2, <2>1, <3>2, <3>3 DEF Counted, Levels
  <2>5. QED
    BY ZenonT(60), <2>2, <2>3, <2>4
<1>3. QED
  BY <1>1, <1>2

\* The counter of a level at which a hold is counted is not zero.
LEMMA CountedNonZero ==
  ASSUME IInv, NEW h \in Holds, NEW l \in Levels, held[h] = l
  PROVE  pending_host_ops[l] # 0
<1>1. Cardinality(At(held, l)) \in Nat \ {0}
  BY ZenonT(60), CountDown DEF IInv, TypeOK
<1>2. QED
  BY <1>1 DEF IInv, CountInv, At

\* A step that leaves where holds are counted and which are due a count shows
\* the abstract hold nothing.
LEMMA HoldStutter ==
  ASSUME IInv, AbstractState' = [h \in Holds |-> Counted(h)'],
         UNCHANGED <<created, held, pending_host_ops>>,
         \A h \in Holds : Due(h)' <=> Due(h)
  PROVE  UNCHANGED <<AbstractState, pending_host_ops>>
<1>1. \A h \in Holds : Counted(h)' = Counted(h)
  BY DEF Counted
<1>2. QED
  BY <1>1, Abstraction DEF Shown

\* A step that counts hold h elsewhere and leaves the others shows one step of h.
LEMMA HoldMoves ==
  ASSUME IInv, AbstractState' = [h \in Holds |-> Counted(h)'], NEW x \in Holds, NEW v,
         Counted(x)' = v,
         \A h \in Holds : h # x => Counted(h)' = Counted(h)
  PROVE  /\ AbstractState' = [AbstractState EXCEPT ![x] = v]
         /\ AbstractState[x] = Counted(x)
<1>1. AbstractState = [h \in Holds |-> Counted(h)]
  BY Abstraction DEF Shown
<1>2. QED
  BY <1>1

\* For any threads and holds: however the calls interleave, the counters change
\* as those of holds that are opened, moved and released one at a time.
THEOREM ImplementsHold == Spec => HoldSpec
<1>1. Init => Hold!HoldInit
  BY DEF Init, AbstractState, Hold!HoldInit
<1>2. IInv' => Shown'
  BY Abstraction, PTL
<1>3. IInv /\ IInv' /\ [Next]_vars => [Hold!HoldNext]_<<AbstractState, pending_host_ops>>
  <2> SUFFICES ASSUME IInv, IInv', [Next]_vars
               PROVE  Hold!HoldNext \/ UNCHANGED <<AbstractState, pending_host_ops>>
    OBVIOUS
  <2>abs. AbstractState' = [h \in Holds |-> Counted(h)']
    BY <1>2 DEF Shown
  <2>typ. /\ pc \in [Threads -> Steps] /\ hold \in [Threads -> Holds]
          /\ level \in [Threads -> Levels] /\ liveness \in [Holds -> Levels]
          /\ held \in [Holds -> Levels \cup {"none"}]
          /\ pending_host_ops \in [Levels -> Nat]
          /\ created \in SUBSET Holds /\ closed \in [Holds -> BOOLEAN]
    BY DEF IInv, TypeOK
  <2>lev. "none" \notin Levels
    BY DEF Levels
  <2>1. ASSUME NEW p \in Threads, NEW h \in Holds, NEW l \in Levels, retain(p, h, l)
        PROVE  Hold!Open(h)
    <3>1. Counted(h) = "none" /\ Counted(h)' = l
      BY <2>1, <2>typ, <2>lev DEF retain, Counted, Due, IInv, CreatedInv
    <3>2. \A x \in Holds : x # h => Counted(x)' = Counted(x)
      BY <2>1, <2>typ DEF retain, Counted, Due
    <3>3. AbstractState' = [AbstractState EXCEPT ![h] = l] /\ AbstractState[h] = "none"
      BY <2>abs, <3>1, <3>2, HoldMoves
    <3>4. pending_host_ops' = [pending_host_ops EXCEPT ![l] = @ + 1]
      BY <2>1 DEF retain, increment_liveness
    <3>5. QED
      BY ZenonT(60), <3>3, <3>4 DEF Hold!Open, Hold!Become, Hold!Add
  <2>swap. ASSUME NEW p \in Threads, NEW h \in Holds, pc[p] = "idle",
                  closed' = [closed EXCEPT ![h] = TRUE], hold' = [hold EXCEPT ![p] = h],
                  IF closed[h] THEN UNCHANGED pc ELSE Goto(p, "release_read"),
                  UNCHANGED <<created, held, pending_host_ops>>
           PROVE  UNCHANGED <<AbstractState, pending_host_ops>>
    <3>1. ASSUME NEW x \in Holds PROVE Due(x)' <=> Due(x)
      <4>1. CASE closed[h]
        <5>1. closed' = closed /\ pc' = pc
          BY <2>swap, <2>typ, <4>1
        <5>2. \A q \in Threads : pc[q] \in Releasing => hold'[q] = hold[q]
          BY <2>swap, <2>typ DEF Releasing
        <5>3. QED
          BY <2>swap, <5>1, <5>2 DEF Due
      <4>2. CASE ~closed[h]
        <5>1. /\ pc' = [pc EXCEPT ![p] = "release_read"]
              /\ pc'[p] = "release_read" /\ hold'[p] = h
          BY <2>swap, <2>typ, <4>2 DEF Goto
        <5>2. \A q \in Threads : q # p => pc'[q] = pc[q] /\ hold'[q] = hold[q]
          BY <2>swap, <2>typ, <5>1
        <5>3. CASE x = h
          BY <2>swap, <2>typ, <4>2, <5>1, <5>3 DEF Due, Releasing
        <5>4. CASE x # h
          BY <2>swap, <2>typ, <5>1, <5>2, <5>4 DEF Due, Releasing
        <5>5. QED
          BY <5>3, <5>4
      <4>3. QED
        BY <4>1, <4>2
    <3>2. QED
      BY <2>abs, <2>swap, <3>1, HoldStutter
  <2>2. ASSUME NEW p \in Threads, NEW h \in Holds, close(p, h)
        PROVE  UNCHANGED <<AbstractState, pending_host_ops>>
    BY ZenonT(60), <2>2, <2>swap DEF close
  <2>still. ASSUME UNCHANGED <<created, closed, held, pending_host_ops>>,
                   \A q \in Threads : pc[q] \in Releasing <=> pc'[q] \in Releasing,
                   \A q \in Threads : pc[q] \in Releasing => hold'[q] = hold[q]
            PROVE  UNCHANGED <<AbstractState, pending_host_ops>>
    <3>1. \A x \in Holds : Due(x)' <=> Due(x)
      BY <2>still DEF Due
    <3>2. QED
      BY <2>abs, <2>still, <3>1, HoldStutter
  <2>3. ASSUME NEW p \in Threads, NEW h \in Holds, drop(p, h)
        PROVE  UNCHANGED <<AbstractState, pending_host_ops>>
    <3>1. CASE clones[h] = {p}
      BY ZenonT(60), <2>3, <2>swap, <3>1 DEF drop
    <3>2. CASE clones[h] # {p}
      BY <2>3, <2>still, <3>2 DEF drop
    <3>3. QED
      BY ZenonT(60), <3>1, <3>2
  <2>4. ASSUME NEW p \in Threads, release_read(p)
        PROVE  UNCHANGED <<AbstractState, pending_host_ops>>
    BY <2>4, <2>typ, <2>still DEF release_read, Goto, Releasing
  <2>5. ASSUME NEW p \in Threads, NEW h \in Holds, NEW l \in Levels, set_liveness(p, h, l)
        PROVE  UNCHANGED <<AbstractState, pending_host_ops>>
    BY <2>5, <2>typ, <2>still DEF set_liveness, Goto, Releasing
  <2>6. ASSUME NEW p \in Threads, set_lock(p) \/ set_recheck(p) \/ set_store(p)
        PROVE  UNCHANGED <<AbstractState, pending_host_ops>>
    BY <2>6, <2>typ, <2>still DEF set_lock, set_recheck, set_store, Goto, Releasing
  <2>7. ASSUME NEW p \in Threads, release_count(p)
        PROVE  Hold!Release(hold[p])
    <3> PICK h \in Holds : h = hold[p]
      BY <2>typ
    <3> PICK l \in Levels : l = level[p]
      BY <2>typ
    <3>1. held[h] = l
      BY <2>7, ReleaseMatched DEF release_count
    <3>2. closed[h] /\ h \in created
      BY <2>7 DEF release_count, IInv, ReleaseInv, Releasing, CreatedInv
    <3>3. Due(h)
      BY <2>7, <3>2 DEF release_count, Due, Releasing
    <3>4. \A q \in Threads : pc[q] \in Releasing /\ hold[q] = h => q = p
      BY <2>7 DEF release_count, IInv, ReleaseInv, Releasing
    <3>5. /\ pc' = [pc EXCEPT ![p] = "idle"] /\ held' = [held EXCEPT ![h] = "none"]
          /\ UNCHANGED <<created, closed, hold>>
          /\ pc[p] = "release_count"
      BY <2>7 DEF release_count, Goto
    <3>6. ~Due(h)'
      BY <2>typ, <3>2, <3>4, <3>5 DEF Due, Releasing
    <3>7. \A x \in Holds : x # h => (Due(x)' <=> Due(x))
      BY <2>typ, <3>5 DEF Due, Releasing
    <3>8. Counted(h) = l /\ Counted(h)' = "released"
      BY <2>lev, <3>1, <3>2, <3>3, <3>5, <3>6 DEF Counted
    <3>9. \A x \in Holds : x # h => Counted(x)' = Counted(x)
      BY <2>typ, <3>5, <3>7 DEF Counted
    <3>10. AbstractState' = [AbstractState EXCEPT ![h] = "released"] /\ AbstractState[h] = l
      BY <2>abs, <3>8, <3>9, HoldMoves
    <3>11. pending_host_ops' = [pending_host_ops EXCEPT ![l] = @ + -1]
      <4>1. pending_host_ops[l] \in Nat /\ pending_host_ops[l] # 0
        BY ZenonT(60), <2>typ, <3>1, CountedNonZero
      <4>2. pending_host_ops' = [pending_host_ops EXCEPT ![l] = pending_host_ops[l] - 1]
        BY ZenonT(60), <2>7, <4>1 DEF release_count, decrement_liveness
      <4>3. pending_host_ops[l] - 1 = pending_host_ops[l] + -1
        BY <4>1
      <4>4. QED
        BY ZenonT(60), <4>2, <4>3
    <3>12. QED
      BY ZenonT(60), <3>10, <3>11 DEF Hold!Release, Hold!Become, Hold!Add
  <2>8. ASSUME NEW p \in Threads, move_down(p)
        PROVE  Hold!Leave(hold[p])
    <3> PICK h \in Holds : h = hold[p]
      BY <2>typ
    <3> PICK l \in Levels : l = liveness[h]
      BY <2>typ
    <3>1. held[h] = l
      BY <2>8, MoveMatched DEF move_down
    <3>2. Due(h)
      BY <2>8 DEF move_down, IInv, HeldInv, Moving
    <3>3. /\ pc' = [pc EXCEPT ![p] = "move_up"] /\ held' = [held EXCEPT ![h] = "none"]
          /\ UNCHANGED <<created, closed, hold>>
          /\ pc[p] = "move_down"
      BY <2>8 DEF move_down, Goto
    <3>4. \A x \in Holds : Due(x)' <=> Due(x)
      BY <2>typ, <3>3 DEF Due, Releasing
    <3>5. Counted(h) = l /\ Counted(h)' = "moving"
      BY <2>typ, <2>lev, <3>1, <3>2, <3>3, <3>4 DEF Counted, Due
    <3>6. \A x \in Holds : x # h => Counted(x)' = Counted(x)
      BY <2>typ, <3>3, <3>4 DEF Counted
    <3>7. AbstractState' = [AbstractState EXCEPT ![h] = "moving"] /\ AbstractState[h] = l
      BY <2>abs, <3>5, <3>6, HoldMoves
    <3>8. pending_host_ops' = [pending_host_ops EXCEPT ![l] = @ + -1]
      <4>1. pending_host_ops[l] \in Nat /\ pending_host_ops[l] # 0
        BY ZenonT(60), <2>typ, <3>1, CountedNonZero
      <4>2. pending_host_ops' = [pending_host_ops EXCEPT ![l] = pending_host_ops[l] - 1]
        BY ZenonT(60), <2>8, <4>1 DEF move_down, decrement_liveness
      <4>3. pending_host_ops[l] - 1 = pending_host_ops[l] + -1
        BY <4>1
      <4>4. QED
        BY ZenonT(60), <4>2, <4>3
    <3>9. QED
      BY ZenonT(60), <3>7, <3>8 DEF Hold!Leave, Hold!Become, Hold!Add
  <2>9. ASSUME NEW p \in Threads, move_up(p)
        PROVE  Hold!Arrive(hold[p])
    <3> PICK h \in Holds : h = hold[p]
      BY <2>typ
    <3> PICK l \in Levels : l = level[p]
      BY <2>typ
    <3>1. held[h] = "none" /\ Due(h)
      BY <2>9 DEF move_up, IInv, HeldInv, Moving
    <3>2. /\ pc' = [pc EXCEPT ![p] = "set_store"] /\ held' = [held EXCEPT ![h] = l]
          /\ UNCHANGED <<created, closed, hold>>
          /\ pc[p] = "move_up"
      BY <2>9 DEF move_up, Goto
    <3>3. \A x \in Holds : Due(x)' <=> Due(x)
      BY <2>typ, <3>2 DEF Due, Releasing
    <3>4. Counted(h) = "moving" /\ Counted(h)' = l
      BY <2>typ, <2>lev, <3>1, <3>2, <3>3 DEF Counted, Due
    <3>5. \A x \in Holds : x # h => Counted(x)' = Counted(x)
      BY <2>typ, <3>2, <3>3 DEF Counted
    <3>6. AbstractState' = [AbstractState EXCEPT ![h] = l] /\ AbstractState[h] = "moving"
      BY <2>abs, <3>4, <3>5, HoldMoves
    <3>7. pending_host_ops' = [pending_host_ops EXCEPT ![l] = @ + 1]
      BY <2>9 DEF move_up, increment_liveness
    <3>8. QED
      BY ZenonT(60), <3>6, <3>7 DEF Hold!Arrive, Hold!Become, Hold!Add
  <2>10. CASE UNCHANGED vars \/ \E p, q \in Threads, h \in Holds : clone(p, q, h)
    BY <2>10, <2>still DEF vars, clone
  <2>11. \A p \in Threads : hold[p] \in Holds
    BY <2>typ
  <2>12. QED
    BY <2>1, <2>2, <2>3, <2>4, <2>5, <2>6, <2>7, <2>8, <2>9, <2>10, <2>11
       DEF Next, Step, Call, Hold!HoldNext
<1>4. QED
  BY Invariance, <1>1, <1>3, PTL DEF Spec, HoldSpec, Hold!HoldSpec
=============================================================================
