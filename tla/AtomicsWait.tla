----------------------------- MODULE AtomicsWait -----------------------------
(***************************************************************************)
(* Atomics.wait, Atomics.waitAsync and Atomics.notify (otter-vm atomics.rs) *)
(* over the process-wide parking registry (atomics_wait.rs) that the        *)
(* isolate threads share. The registry is behind one mutex, every slot has  *)
(* a mutex and a condition variable of its own, and the shared buffer is    *)
(* written by anybody. One critical section is one step.                    *)
(*                                                                          *)
(* There is one shared buffer, seen through several Int32Array views.       *)
(***************************************************************************)
EXTENDS Naturals, FiniteSets

CONSTANTS
    Waits,        \* calls of Atomics.wait, each on a thread of its own
    Timed,        \* those with a finite timeout
    Interruptible, \* those whose runtime somebody may interrupt
    AsyncWaits,   \* calls of Atomics.waitAsync whose timeout is not slept inline
    Notifies,     \* calls of Atomics.notify
    Count,        \* [Notifies -> Nat], how many waiters each may wake
    Cancels,      \* calls of cancel_all_waiters
    Views,        \* typed arrays over the buffer
    Offset,       \* [Views -> Nat], where a view starts, in elements
    Indices,      \* element indices, relative to a view
    None

Wakers == Notifies \cup Cancels
Address(v, i) == Offset[v] + i
Addresses == {Address(v, i) : v \in Views, i \in Indices}
Targets == Views \X Indices
Outcomes == {"ok", "not-equal", "timed-out", "interrupted", "cancelled"}

ASSUME AtomicsAssumption ==
    /\ IsFiniteSet(Waits)
    /\ Timed \subseteq Waits /\ Interruptible \subseteq Waits
    /\ Count \in [Notifies -> Nat]
    /\ Offset \in [Views -> Nat]
    /\ Indices \subseteq Nat
    /\ Notifies \cap Cancels = {}
    /\ None \notin Wakers \cup Targets \cup Outcomes

VARIABLES
    memory,        \* the buffer; a wait expects to find 0
    registry,      \* waits whose slot is in REGISTRY ...
    ticket,        \* ... in the order of their pushes
    pushes,        \* number of pushes so far
    async_waiters, \* ASYNC_REGISTRY: number of entries under each index
    notified, cancelled,    \* ParkState of each slot
    interrupt,     \* waits whose runtime is interrupted
    wait_pc, outcome, at,   \* per wait: step, result, target
    waker_pc, target, drained, woken, \* per waker: step, target, slots at hand, result
    async_pc, async_at,     \* per waitAsync: step, index
    drainer        \* history: the waker that drained each wait

waitVars == <<wait_pc, outcome, at, interrupt>>
asyncVars == <<async_pc, async_at>>
wakerVars == <<waker_pc, target, drained, woken, drainer>>
slotVars == <<registry, ticket, pushes, notified, cancelled>>
vars == <<memory, slotVars, async_waiters, asyncVars, waitVars, wakerVars>>

\* Type correctness of the registry, the slots and the calls in progress.
TypeOK ==
    /\ memory \in [Addresses -> {0, 1}]
    /\ registry \subseteq Waits
    /\ ticket \in [Waits -> Nat] /\ pushes \in Nat
    /\ async_waiters \in [Indices -> Nat]
    /\ notified \subseteq Waits /\ cancelled \subseteq Waits
    /\ interrupt \subseteq Waits
    /\ wait_pc \in [Waits -> {"new", "parking", "parked", "leaving", "returned"}]
    /\ outcome \in [Waits -> Outcomes \cup {None}]
    /\ at \in [Waits -> Targets \cup {None}]
    /\ waker_pc \in [Wakers -> {"new", "clearing", "waking", "returned"}]
    /\ target \in [Notifies -> Targets \cup {None}]
    /\ drained \in [Wakers -> SUBSET Waits]
    /\ woken \in [Wakers -> Nat]
    /\ async_pc \in [AsyncWaits -> {"new", "parking", "returned"}]
    /\ async_at \in [AsyncWaits -> Indices \cup {None}]
    /\ drainer \in [Waits -> Wakers \cup {None}]

Init ==
    /\ memory = [x \in Addresses |-> 0]
    /\ registry = {} /\ ticket = [w \in Waits |-> 0] /\ pushes = 0
    /\ async_waiters = [i \in Indices |-> 0]
    /\ notified = {} /\ cancelled = {} /\ interrupt = {}
    /\ wait_pc = [w \in Waits |-> "new"]
    /\ outcome = [w \in Waits |-> None]
    /\ at = [w \in Waits |-> None]
    /\ waker_pc = [n \in Wakers |-> "new"]
    /\ target = [n \in Notifies |-> None]
    /\ drained = [n \in Wakers |-> {}]
    /\ woken = [n \in Wakers |-> 0]
    /\ async_pc = [k \in AsyncWaits |-> "new"]
    /\ async_at = [k \in AsyncWaits |-> None]
    /\ drainer = [w \in Waits |-> None]

-----------------------------------------------------------------------------
(* Waiting.                                                                 *)

\* The registry is keyed by the element index of the call, whatever the view.
KeyOf(w) == at[w][2]

\* Mutant: any wake-up of the condition variable counts as a notify.
Found_spurious(w) == IF w \in cancelled THEN "cancelled" ELSE "ok"

\* Mutant: the front of the list is not looked at.
Oldest_any(D, P) == TRUE

\* Mutant: count is not compared with the number of entries.
Lesser_second(m, n) == n

\* Mutant: the slot is signalled but not marked.
notify_slot_unmarked(n, w) ==
    /\ waker_pc[n] = "waking" /\ n \in Notifies /\ w \in drained[n]
    /\ drained' = [drained EXCEPT ![n] = @ \ {w}]
    /\ UNCHANGED <<memory, slotVars, async_waiters, asyncVars, waitVars, waker_pc,
                   target, woken, drainer>>

\* do_wait compares the element with the expected value ...
do_wait(w, v, i) ==
    /\ wait_pc[w] = "new"
    /\ at' = [at EXCEPT ![w] = <<v, i>>]
    /\ IF memory[Address(v, i)] = 0
       THEN wait_pc' = [wait_pc EXCEPT ![w] = "parking"] /\ UNCHANGED outcome
       ELSE /\ wait_pc' = [wait_pc EXCEPT ![w] = "returned"]
            /\ outcome' = [outcome EXCEPT ![w] = "not-equal"]
    /\ UNCHANGED <<memory, slotVars, async_waiters, asyncVars, interrupt, wakerVars>>

\* ... and park_until_notified pushes a slot, under the registry's mutex.
park_register(w) ==
    /\ wait_pc[w] = "parking"
    /\ registry' = registry \cup {w}
    /\ ticket' = [ticket EXCEPT ![w] = pushes]
    /\ pushes' = pushes + 1
    /\ wait_pc' = [wait_pc EXCEPT ![w] = "parked"]
    /\ UNCHANGED <<memory, notified, cancelled, async_waiters, asyncVars, outcome,
                   at, interrupt, wakerVars>>

\* What the loop finds under the slot's mutex, in the order it looks. A wait
\* without deadline that finds nothing sleeps for another poll interval.
Found(w) ==
    IF w \in notified THEN "ok"
    ELSE IF w \in cancelled THEN "cancelled"
    ELSE IF w \in interrupt THEN "interrupted" ELSE "timed-out"

park_wake(w) ==
    /\ wait_pc[w] = "parked"
    /\ w \in notified \cup cancelled \cup interrupt \cup Timed
    /\ outcome' = [outcome EXCEPT ![w] = Found(w)]
    /\ wait_pc' = [wait_pc EXCEPT ![w] = "leaving"]
    /\ UNCHANGED <<memory, slotVars, async_waiters, asyncVars, at, interrupt, wakerVars>>

\* The slot is taken out of the registry, if it is still there.
park_deregister(w) ==
    /\ wait_pc[w] = "leaving"
    /\ registry' = registry \ {w}
    /\ wait_pc' = [wait_pc EXCEPT ![w] = "returned"]
    /\ UNCHANGED <<memory, ticket, pushes, notified, cancelled, async_waiters,
                   asyncVars, outcome, at, interrupt, wakerVars>>

\* The runtime of a waiting thread is interrupted.
interrupt_runtime(w) ==
    /\ w \in Interruptible \ interrupt
    /\ interrupt' = interrupt \cup {w}
    /\ UNCHANGED <<memory, slotVars, async_waiters, asyncVars, wait_pc, outcome, at,
                   wakerVars>>

\* waitAsync compares the element too, and does not block: it pushes an entry
\* that carries nothing and returns a promise that is already fulfilled.
do_wait_async(k, v, i) ==
    /\ async_pc[k] = "new"
    /\ async_pc' = [async_pc EXCEPT ![k] = IF memory[Address(v, i)] = 0
                                           THEN "parking" ELSE "returned"]
    /\ async_at' = [async_at EXCEPT ![k] = i]
    /\ UNCHANGED <<memory, slotVars, async_waiters, waitVars, wakerVars>>

register_async_waiter(k) ==
    /\ async_pc[k] = "parking"
    /\ async_waiters' = [async_waiters EXCEPT ![async_at[k]] = @ + 1]
    /\ async_pc' = [async_pc EXCEPT ![k] = "returned"]
    /\ UNCHANGED <<memory, slotVars, async_at, waitVars, wakerVars>>

\* Any thread writes the buffer.
store(x, value) ==
    /\ memory[x] # value
    /\ memory' = [memory EXCEPT ![x] = value]
    /\ UNCHANGED <<slotVars, async_waiters, asyncVars, waitVars, wakerVars>>

-----------------------------------------------------------------------------
(* Waking.                                                                  *)

Parked(i) == {w \in registry : KeyOf(w) = i}

\* D is a prefix of the list P.
Oldest(D, P) == \A w \in D, x \in P \ D : ticket[w] < ticket[x]

Lesser(m, n) == IF m < n THEN m ELSE n

\* notify_waiters drains up to count slots from the front of the list.
notify_drain(n, v, i) ==
    /\ waker_pc[n] = "new"
    /\ target' = [target EXCEPT ![n] = <<v, i>>]
    /\ \E D \in SUBSET Parked(i) :
          /\ Cardinality(D) = Lesser(Count[n], Cardinality(Parked(i)))
          /\ Oldest(D, Parked(i))
          /\ registry' = registry \ D
          /\ drained' = [drained EXCEPT ![n] = D]
          /\ woken' = [woken EXCEPT ![n] = Cardinality(D)]
          /\ drainer' = [w \in Waits |-> IF w \in D THEN n ELSE drainer[w]]
    /\ waker_pc' = [waker_pc EXCEPT ![n] = "waking"]
    /\ UNCHANGED <<memory, ticket, pushes, notified, cancelled, async_waiters,
                   asyncVars, waitVars>>

\* Outside the registry's mutex each drained slot is marked and signalled.
notify_slot(n, w) ==
    /\ waker_pc[n] = "waking" /\ n \in Notifies /\ w \in drained[n]
    /\ notified' = notified \cup {w}
    /\ drained' = [drained EXCEPT ![n] = @ \ {w}]
    /\ UNCHANGED <<memory, registry, ticket, pushes, cancelled, async_waiters,
                   asyncVars, waitVars, waker_pc, target, woken, drainer>>

\* notify_async_waiters takes what is left of count from the other registry.
notify_async(n) ==
    /\ waker_pc[n] = "waking" /\ n \in Notifies /\ drained[n] = {}
    /\ LET i == target[n][2]
           k == Lesser(Count[n] - woken[n], async_waiters[i])
       IN /\ async_waiters' = [async_waiters EXCEPT ![i] = @ - k]
          /\ woken' = [woken EXCEPT ![n] = @ + k]
    /\ waker_pc' = [waker_pc EXCEPT ![n] = "returned"]
    /\ UNCHANGED <<memory, slotVars, asyncVars, waitVars, target, drained, drainer>>

\* cancel_all_waiters empties the registry of the whole process, then the
\* asynchronous one, then marks the slots.
cancel_drain(c) ==
    /\ waker_pc[c] = "new"
    /\ registry' = {}
    /\ drained' = [drained EXCEPT ![c] = registry]
    /\ woken' = [woken EXCEPT ![c] = Cardinality(registry)]
    /\ drainer' = [w \in Waits |-> IF w \in registry THEN c ELSE drainer[w]]
    /\ waker_pc' = [waker_pc EXCEPT ![c] = "clearing"]
    /\ UNCHANGED <<memory, ticket, pushes, notified, cancelled, async_waiters,
                   asyncVars, waitVars, target>>

cancel_clear(c) ==
    /\ waker_pc[c] = "clearing"
    /\ async_waiters' = [i \in Indices |-> 0]
    /\ waker_pc' = [waker_pc EXCEPT ![c] = "waking"]
    /\ UNCHANGED <<memory, slotVars, asyncVars, waitVars, target, drained, woken, drainer>>

cancel_slot(c, w) ==
    /\ waker_pc[c] = "waking" /\ c \in Cancels /\ w \in drained[c]
    /\ cancelled' = cancelled \cup {w}
    /\ drained' = [drained EXCEPT ![c] = @ \ {w}]
    /\ UNCHANGED <<memory, registry, ticket, pushes, notified, async_waiters,
                   asyncVars, waitVars, waker_pc, target, woken, drainer>>

cancel_return(c) ==
    /\ waker_pc[c] = "waking" /\ c \in Cancels /\ drained[c] = {}
    /\ waker_pc' = [waker_pc EXCEPT ![c] = "returned"]
    /\ UNCHANGED <<memory, slotVars, async_waiters, asyncVars, waitVars, target,
                   drained, woken, drainer>>

-----------------------------------------------------------------------------
Park(w) == park_register(w) \/ park_wake(w) \/ park_deregister(w)

Waking(n) == \/ \E w \in Waits : notify_slot(n, w) \/ cancel_slot(n, w)
             \/ notify_async(n) \/ cancel_return(n)

Next ==
    \/ \E w \in Waits : Park(w) \/ interrupt_runtime(w)
    \/ \E w \in Waits, v \in Views, i \in Indices : do_wait(w, v, i)
    \/ \E k \in AsyncWaits, v \in Views, i \in Indices : do_wait_async(k, v, i)
    \/ \E k \in AsyncWaits : register_async_waiter(k)
    \/ \E n \in Notifies, v \in Views, i \in Indices : notify_drain(n, v, i)
    \/ \E n \in Wakers : Waking(n)
    \/ \E c \in Cancels : cancel_drain(c) \/ cancel_clear(c)
    \/ \E x \in Addresses, value \in {0, 1} : store(x, value)

Spec == Init /\ [][Next]_vars

\* A thread inside wait, notify or cancel_all_waiters keeps running, and a poll
\* interval or a deadline elapses; nobody has to call anything.
FairSpec ==
    /\ Spec
    /\ \A w \in Waits : WF_vars(Park(w))
    /\ \A n \in Wakers : WF_vars(Waking(n))
    /\ \A c \in Cancels : WF_vars(cancel_clear(c))

-----------------------------------------------------------------------------
(* Properties.                                                              *)

\* "Each blocked agent registers exactly one ParkSlot; if the wait returns it
\* removes its slot": the registry holds only calls that are inside
\* park_until_notified and that nobody has drained.
RegistryHoldsBlocked ==
    \A w \in registry : wait_pc[w] \in {"parked", "leaving"} /\ drainer[w] = None

\* A blocked call can be reached: it is in the registry, in the hands of the
\* waker that drained it, or its slot is marked. Nobody drains a slot and
\* forgets it.
NoStrandedWaiter ==
    \A w \in Waits :
        wait_pc[w] = "parked" => \/ w \in registry \cup notified \cup cancelled
                                 \/ \E n \in Wakers : w \in drained[n]

\* What a wait reports is what happened to it: "ok" only if a notify drained
\* its slot, Cancelled only if cancel_all_waiters did.
OutcomeHasCause ==
    \A w \in Waits :
        /\ outcome[w] = "ok" => drainer[w] \in Notifies
        /\ outcome[w] = "cancelled" => drainer[w] \in Cancels

\* notify wakes at most count waiters, over both registries, and reports the
\* slots it drained.
NotifyIsBounded ==
    \A n \in Notifies :
        /\ woken[n] <= Count[n]
        /\ Cardinality({w \in Waits : drainer[w] = n}) <= woken[n]

\* Waiters of one index leave in the order they arrived: a call that a notify
\* drained has no older call left in the registry.
FifoWake ==
    \A w, x \in Waits :
        (drainer[w] \in Notifies /\ x \in registry /\ KeyOf(x) = KeyOf(w))
        => ticket[w] < ticket[x]

\* "Keyed by (buf_id, idx) so wakes target the same byte address as the
\* Atomics.wait call": a notify drains only calls that wait at the address
\* it names.
NotifyTargetsAddress ==
    \A w \in Waits, n \in Notifies :
        drainer[w] = n =>
            Address(at[w][1], at[w][2]) = Address(target[n][1], target[n][2])

\* A blocked call that was drained, is interrupted or has a deadline returns.
WaitEnds ==
    \A w \in Waits :
        (wait_pc[w] = "parked" /\ (drainer[w] # None \/ w \in interrupt \/ w \in Timed))
        ~> wait_pc[w] = "returned"
=============================================================================
