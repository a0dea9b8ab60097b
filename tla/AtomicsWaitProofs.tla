-------------------------- MODULE AtomicsWaitProofs --------------------------
(***************************************************************************)
(* Proofs about AtomicsWait, for any number of waits, notifies, cancels,    *)
(* views and indices.                                                       *)
(***************************************************************************)
EXTENDS AtomicsWait, FiniteSetTheorems, TLAPS

\* Every leaf that names no prover goes to the SMT solver.
USE SMTT(60)

\* What a drain needs of cardinalities: a set of calls is finite, so the number
\* of slots notify_waiters takes is a natural number.
LEMMA WaitsCardinality ==
    ASSUME NEW D \in SUBSET Waits
    PROVE  Cardinality(D) \in Nat
BY AtomicsAssumption, FS_Subset, FS_CardinalityType

\* count.min(len) is a natural number and at most either.
LEMMA LesserBound ==
    ASSUME NEW m \in Nat, NEW n \in Nat
    PROVE  Lesser(m, n) \in Nat /\ Lesser(m, n) <= m /\ Lesser(m, n) <= n
BY DEF Lesser

\* A notify under way knows its target, and never wakes more than count over
\* both registries (native_notify hands notify_async_waiters what
\* notify_waiters has left of count).
NotifyState ==
    \A n \in Notifies :
        /\ woken[n] <= Count[n]
        /\ waker_pc[n] = "waking" => target[n] \in Targets

\* The types are kept by every step of wait, notify and cancel_all_waiters.
\* NotifyState is part of it: count - woken would underflow without.
LEMMA TypeInductive == TypeOK /\ NotifyState /\ [Next]_vars => TypeOK' /\ NotifyState'
<1> SUFFICES ASSUME TypeOK, NotifyState, [Next]_vars PROVE TypeOK' /\ NotifyState'
    OBVIOUS
<1> USE AtomicsAssumption
<1>1. ASSUME NEW w \in Waits, Park(w) \/ interrupt_runtime(w) PROVE TypeOK' /\ NotifyState'
  <2>1. CASE park_register(w)
    BY <2>1 DEF park_register, TypeOK, NotifyState, wakerVars, asyncVars
  <2>2. CASE park_wake(w)
    <3>1. Found(w) \in Outcomes
      BY DEF Found, Outcomes
    <3>2. QED
      BY <2>2, <3>1 DEF park_wake, TypeOK, NotifyState, wakerVars, slotVars, asyncVars
  <2>3. CASE park_deregister(w)
    BY <2>3 DEF park_deregister, TypeOK, NotifyState, wakerVars, asyncVars
  <2>4. CASE interrupt_runtime(w)
    BY <2>4 DEF interrupt_runtime, TypeOK, NotifyState, wakerVars, slotVars, asyncVars
  <2>5. QED
    BY <1>1, <2>1, <2>2, <2>3, <2>4 DEF Park
<1>2. ASSUME NEW w \in Waits, NEW v \in Views, NEW i \in Indices, do_wait(w, v, i)
      PROVE TypeOK' /\ NotifyState'
  <2>1. <<v, i>> \in Targets /\ "not-equal" \in Outcomes
    BY DEF Targets, Outcomes
  <2>2. at' \in [Waits -> Targets \cup {None}]
    BY <1>2, <2>1 DEF do_wait, TypeOK
  <2>3. wait_pc' \in [Waits -> {"new", "parking", "parked", "leaving", "returned"}]
    BY <1>2 DEF do_wait, TypeOK
  <2>4. outcome' \in [Waits -> Outcomes \cup {None}]
    BY <1>2, <2>1 DEF do_wait, TypeOK
  <2>5. UNCHANGED <<memory, slotVars, async_waiters, asyncVars, interrupt, wakerVars>>
    BY <1>2 DEF do_wait
  <2>6. QED
    BY <2>2, <2>3, <2>4, <2>5 DEF TypeOK, NotifyState, wakerVars, slotVars, asyncVars
<1>3. ASSUME NEW k \in AsyncWaits, NEW v \in Views, NEW i \in Indices, do_wait_async(k, v, i)
      PROVE TypeOK' /\ NotifyState'
  BY <1>3 DEF do_wait_async, TypeOK, NotifyState, wakerVars, slotVars, waitVars
<1>4. ASSUME NEW k \in AsyncWaits, register_async_waiter(k) PROVE TypeOK' /\ NotifyState'
  <2>1. async_waiters' \in [Indices -> Nat]
    <3> DEFINE j == async_at[k]
    <3>1. async_waiters \in [Indices -> Nat]
      BY DEF TypeOK
    <3>2. async_waiters' = [async_waiters EXCEPT ![j] = @ + 1]
      BY <1>4 DEF register_async_waiter
    <3> HIDE DEF j
    <3>3. j \in Indices => async_waiters[j] + 1 \in Nat
      BY <3>1
    <3>4. QED
      BY ZenonT(60), <3>1, <3>2, <3>3
  <2>2. QED
    BY <1>4, <2>1 DEF register_async_waiter, TypeOK, NotifyState, wakerVars, slotVars, waitVars
<1>5. ASSUME NEW n \in Notifies, NEW v \in Views, NEW i \in Indices, notify_drain(n, v, i)
      PROVE TypeOK' /\ NotifyState'
  <2>1. PICK D \in SUBSET Parked(i) :
           /\ Cardinality(D) = Lesser(Count[n], Cardinality(Parked(i)))
           /\ registry' = registry \ D
           /\ drained' = [drained EXCEPT ![n] = D]
           /\ woken' = [woken EXCEPT ![n] = Cardinality(D)]
           /\ drainer' = [w \in Waits |-> IF w \in D THEN n ELSE drainer[w]]
    BY ZenonT(60), <1>5 DEF notify_drain
  <2>2. Parked(i) \in SUBSET Waits /\ D \in SUBSET Waits
    BY DEF Parked, TypeOK
  <2>3. Cardinality(D) \in Nat /\ Cardinality(D) <= Count[n]
    BY ZenonT(60), <2>1, <2>2, WaitsCardinality, LesserBound
  <2>4. n \in Wakers
    BY DEF Wakers
  <2>5. QED
    BY <1>5, <2>1, <2>2, <2>3, <2>4
       DEF notify_drain, TypeOK, NotifyState, waitVars, asyncVars, Targets
<1>6. ASSUME NEW n \in Wakers, Waking(n) PROVE TypeOK' /\ NotifyState'
  <2>1. ASSUME NEW w \in Waits, notify_slot(n, w) PROVE TypeOK' /\ NotifyState'
    BY <2>1 DEF notify_slot, TypeOK, NotifyState, waitVars, asyncVars
  <2>2. ASSUME NEW w \in Waits, cancel_slot(n, w) PROVE TypeOK' /\ NotifyState'
    BY <2>2 DEF cancel_slot, TypeOK, NotifyState, waitVars, asyncVars
  <2>3. CASE cancel_return(n)
    BY <2>3 DEF cancel_return, TypeOK, NotifyState, waitVars, asyncVars, slotVars
  <2>4. CASE notify_async(n)
    <3> DEFINE i == target[n][2]
               k == Lesser(Count[n] - woken[n], async_waiters[i])
    <3>1. n \in Notifies /\ i \in Indices
      BY <2>4 DEF notify_async, NotifyState, Targets
    <3> HIDE DEF i
    <3>2. Count[n] \in Nat /\ woken[n] \in Nat /\ woken[n] <= Count[n]
      BY <3>1 DEF TypeOK, NotifyState
    <3>3. async_waiters[i] \in Nat
      BY <3>1 DEF TypeOK
    <3>4. Count[n] - woken[n] \in Nat /\ async_waiters[i] \in Nat
      BY <3>2, <3>3
    <3>5. k \in Nat /\ k <= Count[n] - woken[n] /\ k <= async_waiters[i]
      BY ZenonT(60), <3>4, LesserBound
    <3>6. /\ async_waiters' = [async_waiters EXCEPT ![i] = @ - k]
          /\ woken' = [woken EXCEPT ![n] = @ + k]
      BY <2>4 DEF notify_async, i
    <3> HIDE DEF k
    <3>7. async_waiters' \in [Indices -> Nat]
      <4>1. async_waiters[i] - k \in Nat
        BY <3>3, <3>5
      <4>2. QED
        BY ZenonT(60), <4>1, <3>6 DEF TypeOK
    <3>8. woken' \in [Wakers -> Nat] /\ NotifyState'
      BY <2>4, <3>1, <3>4, <3>5, <3>6 DEF notify_async, TypeOK, NotifyState
    <3>9. QED
      BY <2>4, <3>7, <3>8 DEF notify_async, TypeOK, waitVars, asyncVars, slotVars
  <2>5. QED
    BY <1>6, <2>1, <2>2, <2>3, <2>4 DEF Waking
<1>7. ASSUME NEW c \in Cancels, cancel_drain(c) \/ cancel_clear(c) PROVE TypeOK' /\ NotifyState'
  <2>1. CASE cancel_drain(c)
    <3>1. c \in Wakers /\ c \notin Notifies /\ Cardinality(registry) \in Nat
      BY WaitsCardinality DEF Wakers, TypeOK
    <3>2. QED
      BY <2>1, <3>1 DEF cancel_drain, TypeOK, NotifyState, waitVars, asyncVars
  <2>2. CASE cancel_clear(c)
    <3>1. c \in Wakers /\ c \notin Notifies /\ 0 \in Nat
      BY DEF Wakers
    <3>2. async_waiters' \in [Indices -> Nat]
      BY <2>2 DEF cancel_clear
    <3>3. NotifyState'
      BY <2>2, <3>1 DEF cancel_clear, TypeOK, NotifyState
    <3>4. QED
      BY <2>2, <3>1, <3>2, <3>3 DEF cancel_clear, TypeOK, waitVars, asyncVars, slotVars
  <2>3. QED
    BY <1>7, <2>1, <2>2
<1>8. ASSUME NEW x \in Addresses, NEW value \in {0, 1}, store(x, value) PROVE TypeOK' /\ NotifyState'
  BY <1>8 DEF store, TypeOK, NotifyState, waitVars, asyncVars, slotVars, wakerVars
<1>9. CASE UNCHANGED vars
  BY <1>9 DEF vars, TypeOK, NotifyState, waitVars, asyncVars, slotVars, wakerVars
<1>10. QED
  BY <1>1, <1>2, <1>3, <1>4, <1>5, <1>6, <1>7, <1>8, <1>9 DEF Next

-----------------------------------------------------------------------------
(* Who holds a slot.                                                        *)

\* A slot belongs to the registry, then to the one waker that drained it; the
\* marks and the outcomes follow from who that was. RegistryHoldsBlocked,
\* NoStrandedWaiter and OutcomeHasCause are inductive together with the facts
\* that a call not yet parked was drained by nobody, and that a waker holds or
\* has marked only what it drained.
SlotInv ==
    /\ RegistryHoldsBlocked
    /\ NoStrandedWaiter
    /\ OutcomeHasCause
    /\ \A w \in Waits : wait_pc[w] \in {"new", "parking"} => drainer[w] = None
    /\ \A n \in Wakers : \A w \in drained[n] : drainer[w] = n
    /\ \A n \in Wakers : waker_pc[n] = "new" => \A w \in Waits : drainer[w] # n
    /\ \A w \in notified : drainer[w] \in Notifies
    /\ \A w \in cancelled : drainer[w] \in Cancels

\* SlotInv is kept by every step of wait, notify and cancel_all_waiters.
LEMMA SlotInductive == TypeOK /\ NotifyState /\ SlotInv /\ [Next]_vars => SlotInv'
<1> SUFFICES ASSUME TypeOK, NotifyState, SlotInv, [Next]_vars PROVE SlotInv'
    OBVIOUS
<1> USE AtomicsAssumption DEF SlotInv, RegistryHoldsBlocked, NoStrandedWaiter, OutcomeHasCause
<1>1. ASSUME NEW w \in Waits, Park(w) \/ interrupt_runtime(w) PROVE SlotInv'
  <2>1. CASE park_register(w)
    BY <2>1 DEF park_register, TypeOK, wakerVars
  <2>2. CASE park_wake(w)
    <3>1. /\ Found(w) = "ok" => w \in notified
          /\ Found(w) = "cancelled" => w \in cancelled
      BY DEF Found
    <3>2. QED
      BY <2>2, <3>1 DEF park_wake, TypeOK, wakerVars, slotVars
  <2>3. CASE park_deregister(w)
    BY <2>3 DEF park_deregister, TypeOK, wakerVars
  <2>4. CASE interrupt_runtime(w)
    BY <2>4 DEF interrupt_runtime, wakerVars, slotVars
  <2>5. QED
    BY ZenonT(60), <1>1, <2>1, <2>2, <2>3, <2>4 DEF Park
<1>2. ASSUME NEW w \in Waits, NEW v \in Views, NEW i \in Indices, do_wait(w, v, i) PROVE SlotInv'
  BY <1>2 DEF do_wait, TypeOK, wakerVars, slotVars
<1>3. ASSUME NEW k \in AsyncWaits, NEW v \in Views, NEW i \in Indices, do_wait_async(k, v, i) PROVE SlotInv'
  BY <1>3 DEF do_wait_async, wakerVars, slotVars, waitVars
<1>4. ASSUME NEW k \in AsyncWaits, register_async_waiter(k) PROVE SlotInv'
  BY <1>4 DEF register_async_waiter, wakerVars, slotVars, waitVars
<1>5. ASSUME NEW n \in Wakers, NEW D \in SUBSET registry,
             registry' = registry \ D,
             drained' = [drained EXCEPT ![n] = D],
             drainer' = [w \in Waits |-> IF w \in D THEN n ELSE drainer[w]],
             NEW p \in {"waking", "clearing"}, waker_pc[n] = "new",
             waker_pc' = [waker_pc EXCEPT ![n] = p],
             UNCHANGED <<notified, cancelled, wait_pc, outcome>>
      PROVE SlotInv'
  <2>1. D \subseteq Waits /\ \A w \in D : drainer[w] = None /\ w \notin notified \cup cancelled
    BY DEF TypeOK, Wakers
  <2>2. drained[n] = {}
    BY <1>5 DEF TypeOK
  <2>3. RegistryHoldsBlocked'
    BY <1>5, <2>1 DEF TypeOK
  <2>4. NoStrandedWaiter'
    BY <1>5, <2>1, <2>2 DEF TypeOK
  <2>5. OutcomeHasCause'
    BY <1>5, <2>1 DEF TypeOK, Wakers
  <2>6. (\A w \in Waits : wait_pc[w] \in {"new", "parking"} => drainer[w] = None)'
    BY <1>5, <2>1 DEF TypeOK
  <2>7. (\A m \in Wakers : \A w \in drained[m] : drainer[w] = m)'
    BY <1>5, <2>1 DEF TypeOK
  <2>8. (\A w \in notified : drainer[w] \in Notifies)' /\ (\A w \in cancelled : drainer[w] \in Cancels)'
    BY <1>5, <2>1 DEF TypeOK
  <2>9. (\A m \in Wakers : waker_pc[m] = "new" => \A w \in Waits : drainer[w] # m)'
    BY <1>5, <2>1 DEF TypeOK
  <2>10. QED
    BY <2>3, <2>4, <2>5, <2>6, <2>7, <2>8, <2>9
<1>6. ASSUME NEW n \in Notifies, NEW v \in Views, NEW i \in Indices, notify_drain(n, v, i) PROVE SlotInv'
  <2>1. PICK D \in SUBSET Parked(i) :
           /\ registry' = registry \ D
           /\ drained' = [drained EXCEPT ![n] = D]
           /\ drainer' = [w \in Waits |-> IF w \in D THEN n ELSE drainer[w]]
    BY ZenonT(60), <1>6 DEF notify_drain
  <2>2. D \in SUBSET registry /\ n \in Wakers
    BY DEF Parked, Wakers
  <2>3. /\ waker_pc[n] = "new" /\ waker_pc' = [waker_pc EXCEPT ![n] = "waking"]
        /\ UNCHANGED <<notified, cancelled, wait_pc, outcome>>
    BY ZenonT(60), <1>6 DEF notify_drain, waitVars
  <2>4. QED
    BY ZenonT(60), <1>5, <2>1, <2>2, <2>3
<1>7. ASSUME NEW n \in Wakers, Waking(n) PROVE SlotInv'
  <2>1. ASSUME NEW w \in Waits, notify_slot(n, w) PROVE SlotInv'
    BY <2>1 DEF notify_slot, TypeOK, waitVars
  <2>2. ASSUME NEW w \in Waits, cancel_slot(n, w) PROVE SlotInv'
    BY <2>2 DEF cancel_slot, TypeOK, waitVars
  <2>3. CASE notify_async(n)
    BY <2>3 DEF notify_async, TypeOK, waitVars, slotVars
  <2>4. CASE cancel_return(n)
    BY <2>4 DEF cancel_return, TypeOK, waitVars, slotVars
  <2>5. QED
    BY ZenonT(60), <1>7, <2>1, <2>2, <2>3, <2>4 DEF Waking
<1>8. ASSUME NEW c \in Cancels, cancel_drain(c) \/ cancel_clear(c) PROVE SlotInv'
  <2>1. c \in Wakers
    BY DEF Wakers
  <2>2. CASE cancel_drain(c)
    <3>1. registry' = registry \ registry /\ registry \in SUBSET registry
      BY ZenonT(60), <2>2 DEF cancel_drain
    <3>2. /\ drained' = [drained EXCEPT ![c] = registry]
          /\ drainer' = [w \in Waits |-> IF w \in registry THEN c ELSE drainer[w]]
          /\ waker_pc[c] = "new" /\ waker_pc' = [waker_pc EXCEPT ![c] = "clearing"]
          /\ UNCHANGED <<notified, cancelled, wait_pc, outcome>>
      BY ZenonT(60), <2>2 DEF cancel_drain, waitVars
    <3>3. QED
      BY ZenonT(60), <1>5, <2>1, <3>1, <3>2
  <2>3. CASE cancel_clear(c)
    BY <2>3 DEF cancel_clear, TypeOK, waitVars, slotVars
  <2>4. QED
    BY ZenonT(60), <1>8, <2>2, <2>3
<1>9. ASSUME NEW x \in Addresses, NEW value \in {0, 1}, store(x, value) PROVE SlotInv'
  BY <1>9 DEF store, waitVars, slotVars, wakerVars
<1>10. CASE UNCHANGED vars
  BY ZenonT(60), <1>10 DEF vars, waitVars, slotVars, wakerVars
<1> HIDE AtomicsAssumption DEF SlotInv, RegistryHoldsBlocked, NoStrandedWaiter, OutcomeHasCause
<1>11. QED
  BY <1>1, <1>2, <1>3, <1>4, <1>6, <1>7, <1>8, <1>9, <1>10 DEF Next

-----------------------------------------------------------------------------
(* The order of wakes, and what notify reports.                             *)

\* FifoWake with what makes it inductive: a ticket handed out is below the
\* number of pushes, so a later push never gets in front.
OrderInv ==
    /\ FifoWake
    /\ \A w \in Waits : (w \in registry \/ drainer[w] # None) => ticket[w] < pushes

\* OrderInv is kept by every step: a push goes to the end of the list and a
\* notify takes a prefix of it.
LEMMA OrderInductive == TypeOK /\ SlotInv /\ OrderInv /\ [Next]_vars => OrderInv'
<1> SUFFICES ASSUME TypeOK, SlotInv, OrderInv, [Next]_vars PROVE OrderInv'
    OBVIOUS
<1> USE AtomicsAssumption DEF OrderInv, FifoWake, KeyOf
<1>1. ASSUME NEW w \in Waits, park_register(w) PROVE OrderInv'
  <2>1. drainer[w] = None /\ None \notin Notifies
    BY <1>1 DEF park_register, SlotInv, Wakers
  <2>2. /\ registry' = registry \cup {w} /\ ticket' = [ticket EXCEPT ![w] = pushes]
        /\ pushes' = pushes + 1 /\ UNCHANGED <<at, drainer>>
    BY <1>1 DEF park_register, wakerVars
  <2>3. \A x \in Waits : ticket[x] \in Nat /\ pushes \in Nat
    BY DEF TypeOK
  <2>4. ticket'[w] = pushes /\ \A x \in Waits : x # w => ticket'[x] = ticket[x]
    BY <2>2 DEF TypeOK
  <2>5. ASSUME NEW x \in Waits, x \in registry' \/ drainer'[x] # None
        PROVE  ticket'[x] < pushes'
    <3>1. CASE x = w
      BY <2>2, <2>3, <2>4, <3>1
    <3>2. CASE x # w
      <4>1. ticket[x] < pushes
        BY <2>2, <2>5, <3>2
      <4>2. QED
        BY <2>2, <2>3, <2>4, <3>2, <4>1
    <3>3. QED
      BY <3>1, <3>2
  <2>6. ASSUME NEW y \in Waits, NEW x \in Waits,
               drainer'[y] \in Notifies, x \in registry', at'[x][2] = at'[y][2]
        PROVE  ticket'[y] < ticket'[x]
    <3>1. y # w /\ drainer[y] # None
      BY <2>1, <2>2, <2>6
    <3>2. CASE x = w
      <4>1. ticket[y] < pushes
        BY <3>1
      <4>2. QED
        BY <2>4, <3>1, <3>2, <4>1
    <3>3. CASE x # w
      BY ZenonT(60), <2>2, <2>4, <2>6, <3>1, <3>3
    <3>4. QED
      BY <3>2, <3>3
  <2>7. QED
    BY ZenonT(60), <2>5, <2>6
<1>2. ASSUME NEW w \in Waits, park_deregister(w) PROVE OrderInv'
  BY <1>2 DEF park_deregister, TypeOK, wakerVars
<1>3. ASSUME NEW w \in Waits, NEW v \in Views, NEW i \in Indices, do_wait(w, v, i) PROVE OrderInv'
  <2>1. drainer[w] = None /\ None \notin Notifies /\ w \notin registry
    BY ZenonT(60), <1>3 DEF do_wait, SlotInv, RegistryHoldsBlocked, Wakers
  <2>2. QED
    BY ZenonT(60), <1>3, <2>1 DEF do_wait, TypeOK, wakerVars, slotVars
<1>4. ASSUME NEW n \in Notifies, NEW v \in Views, NEW i \in Indices, notify_drain(n, v, i) PROVE OrderInv'
  <2>1. PICK D \in SUBSET Parked(i) :
           /\ Oldest(D, Parked(i))
           /\ registry' = registry \ D
           /\ drainer' = [w \in Waits |-> IF w \in D THEN n ELSE drainer[w]]
    BY ZenonT(60), <1>4 DEF notify_drain
  <2>2. UNCHANGED <<ticket, pushes, at>>
    BY ZenonT(60), <1>4 DEF notify_drain, waitVars
  <2>3. ASSUME NEW w \in D, NEW x \in registry \ D, at[x][2] = at[w][2] PROVE ticket[w] < ticket[x]
    BY <2>1, <2>3 DEF Oldest, Parked
  <2>4. D \subseteq registry /\ registry \subseteq Waits
    BY ZenonT(60) DEF Parked, TypeOK
  <2>5. FifoWake'
    BY ZenonT(60), <2>1, <2>2, <2>3, <2>4 DEF TypeOK
  <2>6. QED
    BY <2>1, <2>2, <2>4, <2>5 DEF TypeOK
<1>5. ASSUME NEW c \in Cancels, cancel_drain(c) PROVE OrderInv'
  BY ZenonT(60), <1>5 DEF cancel_drain, TypeOK, waitVars
<1>6. ASSUME UNCHANGED <<registry, ticket, pushes, at, drainer>> PROVE OrderInv'
  BY <1>6
<1>7. ASSUME NEW w \in Waits, park_wake(w) \/ interrupt_runtime(w) PROVE OrderInv'
  BY ZenonT(60), <1>6, <1>7 DEF park_wake, interrupt_runtime, wakerVars, slotVars
<1>8. ASSUME NEW k \in AsyncWaits, NEW v \in Views, NEW i \in Indices,
             do_wait_async(k, v, i) \/ register_async_waiter(k) PROVE OrderInv'
  BY ZenonT(60), <1>6, <1>8 DEF do_wait_async, register_async_waiter, wakerVars, slotVars, waitVars
<1>9. ASSUME NEW k \in AsyncWaits, register_async_waiter(k) PROVE OrderInv'
  BY ZenonT(60), <1>6, <1>9 DEF register_async_waiter, wakerVars, slotVars, waitVars
<1>10. ASSUME NEW n \in Wakers, Waking(n) \/ cancel_clear(n) PROVE OrderInv'
  BY ZenonT(60), <1>6, <1>10 DEF Waking, notify_slot, cancel_slot, notify_async, cancel_return,
                     cancel_clear, slotVars, waitVars
<1>11. ASSUME NEW x \in Addresses, NEW value \in {0, 1}, store(x, value) PROVE OrderInv'
  BY <1>6, <1>11 DEF store, waitVars, slotVars, wakerVars
<1>12. CASE UNCHANGED vars
  BY ZenonT(60), <1>6, <1>12 DEF vars, waitVars, slotVars, wakerVars
<1>13. QED
  BY ZenonT(60), <1>1, <1>2, <1>3, <1>4, <1>5, <1>7, <1>8, <1>9, <1>10, <1>11, <1>12
     DEF Next, Park, Wakers

\* notify reports every slot it drained, at most count, whatever the waits and
\* the other wakers do in between: the slots drained by n stay the set D of its
\* drain, and woken[n] starts at the size of D and only grows.
LEMMA NotifyIsBoundedInductive ==
    TypeOK /\ NotifyState /\ SlotInv /\ NotifyIsBounded /\ [Next]_vars => NotifyIsBounded'
<1> SUFFICES ASSUME TypeOK, NotifyState, SlotInv, NotifyIsBounded, [Next]_vars PROVE NotifyIsBounded'
    OBVIOUS
<1> USE AtomicsAssumption
<1> DEFINE Taken(n) == {w \in Waits : drainer[w] = n}
<1>1. NotifyState' /\ TypeOK'
  BY TypeInductive
<1>2. \A n \in Notifies : Cardinality(Taken(n)) \in Nat
  BY WaitsCardinality
<1>3. ASSUME UNCHANGED <<drainer, woken>> PROVE NotifyIsBounded'
  BY <1>3 DEF NotifyIsBounded
<1>4. ASSUME NEW m \in Wakers, NEW D \in SUBSET registry,
             waker_pc[m] = "new",
             drainer' = [w \in Waits |-> IF w \in D THEN m ELSE drainer[w]],
             woken' = [woken EXCEPT ![m] = Cardinality(D)]
      PROVE NotifyIsBounded'
  <2> SUFFICES ASSUME NEW n \in Notifies PROVE Cardinality(Taken(n)') <= woken'[n]
      BY <1>1 DEF NotifyState, NotifyIsBounded
  <2>1. \A w \in D : w \in Waits /\ drainer[w] = None
    BY DEF TypeOK, SlotInv, RegistryHoldsBlocked
  <2>2. CASE n = m
    <3>1. \A w \in Waits : drainer[w] # m
      BY <1>4 DEF SlotInv
    <3>2. Taken(n)' = D
      BY <1>4, <2>1, <2>2, <3>1
    <3>3. woken'[n] = Cardinality(D) /\ Cardinality(D) \in Nat
      BY <1>4, <2>1, <2>2, WaitsCardinality DEF TypeOK
    <3>4. QED
      BY <3>2, <3>3
  <2>3. CASE n # m
    <3>1. Taken(n)' = Taken(n)
      BY <1>4, <2>1, <2>3 DEF Wakers
    <3>2. woken'[n] = woken[n]
      BY <1>4, <2>3 DEF TypeOK, Wakers
    <3>3. QED
      BY <3>1, <3>2 DEF NotifyIsBounded
  <2>4. QED
    BY <2>2, <2>3
<1>5. ASSUME NEW n \in Notifies, NEW v \in Views, NEW i \in Indices, notify_drain(n, v, i)
      PROVE NotifyIsBounded'
  <2>1. PICK D \in SUBSET Parked(i) :
           /\ drainer' = [w \in Waits |-> IF w \in D THEN n ELSE drainer[w]]
           /\ woken' = [woken EXCEPT ![n] = Cardinality(D)]
    BY ZenonT(60), <1>5 DEF notify_drain
  <2>2. D \in SUBSET registry /\ n \in Wakers /\ waker_pc[n] = "new"
    BY <1>5 DEF Parked, Wakers, notify_drain
  <2>3. QED
    BY ZenonT(60), <1>4, <2>1, <2>2
<1>6. ASSUME NEW c \in Cancels, cancel_drain(c) PROVE NotifyIsBounded'
  <2>1. c \in Wakers /\ registry \in SUBSET registry
    BY DEF Wakers
  <2>2. QED
    BY ZenonT(60), <1>4, <1>6, <2>1 DEF cancel_drain
<1>7. ASSUME NEW m \in Wakers, notify_async(m) PROVE NotifyIsBounded'
  <2> DEFINE k == Lesser(Count[m] - woken[m], async_waiters[target[m][2]])
  <2>1. m \in Notifies /\ target[m][2] \in Indices
    BY <1>7 DEF notify_async, NotifyState, Targets
  <2>2. Count[m] \in Nat /\ woken[m] \in Nat /\ woken[m] <= Count[m]
    BY <2>1 DEF TypeOK, NotifyState
  <2>3. k \in Nat
    <3>1. async_waiters[target[m][2]] \in Nat
      BY ZenonT(60), <2>1 DEF TypeOK
    <3>2. Count[m] - woken[m] \in Nat
      BY <2>2
    <3>3. QED
      BY ZenonT(60), <3>1, <3>2, LesserBound
  <2>4. woken' = [woken EXCEPT ![m] = @ + k] /\ UNCHANGED drainer
    BY <1>7 DEF notify_async
  <2> HIDE DEF k
  <2>5. \A n \in Notifies : woken[n] <= woken'[n] /\ woken[n] \in Nat /\ woken'[n] \in Nat
    BY <2>3, <2>4 DEF TypeOK, Wakers
  <2>6. \A n \in Notifies : Taken(n)' = Taken(n)
    BY <2>4
  <2>7. \A n \in Notifies : Cardinality(Taken(n)) <= woken[n]
    BY DEF NotifyIsBounded
  <2> HIDE DEF Taken
  <2>8. \A n \in Notifies : Cardinality(Taken(n)') <= woken'[n]
    BY <1>2, <2>5, <2>6, <2>7
  <2>9. QED
    BY <1>1, <2>8 DEF NotifyIsBounded, NotifyState, Taken
<1>8. ASSUME NEW w \in Waits, Park(w) \/ interrupt_runtime(w) PROVE NotifyIsBounded'
  BY ZenonT(60), <1>3, <1>8 DEF Park, park_register, park_wake, park_deregister, interrupt_runtime, wakerVars
<1>9. ASSUME NEW w \in Waits, NEW v \in Views, NEW i \in Indices, do_wait(w, v, i) PROVE NotifyIsBounded'
  BY <1>3, <1>9 DEF do_wait, wakerVars
<1>10. ASSUME NEW k \in AsyncWaits, NEW v \in Views, NEW i \in Indices, do_wait_async(k, v, i) PROVE NotifyIsBounded'
  BY ZenonT(60), <1>3, <1>10 DEF do_wait_async, wakerVars
<1>11. ASSUME NEW k \in AsyncWaits, register_async_waiter(k) PROVE NotifyIsBounded'
  BY <1>3, <1>11 DEF register_async_waiter, wakerVars
<1>12. ASSUME NEW n \in Wakers, Waking(n) \/ cancel_clear(n) PROVE NotifyIsBounded'
  BY <1>3, <1>7, <1>12 DEF Waking, notify_slot, cancel_slot, cancel_return, cancel_clear
<1>13. ASSUME NEW x \in Addresses, NEW value \in {0, 1}, store(x, value) PROVE NotifyIsBounded'
  BY <1>3, <1>13 DEF store, wakerVars
<1>14. CASE UNCHANGED vars
  BY <1>3, <1>14 DEF vars, wakerVars
<1>15. QED
  BY <1>5, <1>6, <1>8, <1>9, <1>10, <1>11, <1>12, <1>13, <1>14 DEF Next, Wakers

-----------------------------------------------------------------------------
IInv == TypeOK /\ NotifyState /\ SlotInv /\ OrderInv /\ NotifyIsBounded

\* Nobody waits and nobody is being woken when the process starts.
LEMMA InitIInv == Init => IInv
<1> SUFFICES ASSUME Init PROVE IInv
    OBVIOUS
<1> USE AtomicsAssumption
<1>1. TypeOK
  BY ZenonT(60) DEF Init, TypeOK
<1>2. NotifyState
  BY DEF Init, NotifyState, Wakers
<1>3. SlotInv
  <2>1. OutcomeHasCause
    BY DEF Init, OutcomeHasCause, Outcomes
  <2>2. QED
    BY <2>1 DEF Init, SlotInv, RegistryHoldsBlocked, NoStrandedWaiter
<1>4. OrderInv
  BY DEF Init, OrderInv, FifoWake
<1>5. NotifyIsBounded
  <2>1. \A n \in Notifies : {w \in Waits : drainer[w] = n} = {}
    BY DEF Init, Wakers
  <2>2. Cardinality({}) = 0
    BY FS_EmptySet
  <2>3. \A n \in Notifies : woken[n] = 0 /\ Count[n] \in Nat
    BY DEF Init, Wakers
  <2>4. QED
    BY <2>1, <2>2, <2>3 DEF NotifyIsBounded
<1>6. QED
  BY <1>1, <1>2, <1>3, <1>4, <1>5 DEF IInv

\* The whole invariant holds in every reachable state.
THEOREM Invariance == Spec => []IInv
<1>1. IInv /\ [Next]_vars => IInv'
  BY TypeInductive, SlotInductive, OrderInductive, NotifyIsBoundedInductive DEF IInv
<1>2. QED
  BY InitIInv, <1>1, PTL DEF Spec

\* The registry, the slots and the calls keep their types, for every number of
\* agents (atomics_wait.rs).
THEOREM TypeCorrect == Spec => []TypeOK
<1>1. IInv => TypeOK
  BY DEF IInv
<1>2. QED
  BY Invariance, <1>1, PTL

\* The registry holds only blocked calls nobody has drained: a wait that
\* returned has taken its slot out (park_until_notified).
THEOREM RegistryExact == Spec => []RegistryHoldsBlocked
<1>1. IInv => RegistryHoldsBlocked
  BY DEF IInv, SlotInv
<1>2. QED
  BY Invariance, <1>1, PTL

\* No blocked call is out of everybody's reach, although notify_waiters and
\* cancel_all_waiters mark the slots after they release the registry.
THEOREM NoneStranded == Spec => []NoStrandedWaiter
<1>1. IInv => NoStrandedWaiter
  BY DEF IInv, SlotInv
<1>2. QED
  BY Invariance, <1>1, PTL

\* "ok" means a notify drained the call, Cancelled that cancel_all_waiters did.
THEOREM OutcomesCaused == Spec => []OutcomeHasCause
<1>1. IInv => OutcomeHasCause
  BY DEF IInv, SlotInv
<1>2. QED
  BY Invariance, <1>1, PTL

\* Waiters of one index are woken first come, first served (notify_waiters).
THEOREM WakesInOrder == Spec => []FifoWake
<1>1. IInv => FifoWake
  BY DEF IInv, OrderInv
<1>2. QED
  BY Invariance, <1>1, PTL

\* A notify wakes at most count waiters and reports all it drained
\* (native_notify).
THEOREM NotifyBounded == Spec => []NotifyIsBounded
<1>1. IInv => NotifyIsBounded
  BY DEF IInv
<1>2. QED
  BY Invariance, <1>1, PTL
=============================================================================
