-------------------------- MODULE TimerWakesProofs --------------------------
(***************************************************************************)
(* Timers for any program, any inbox capacity and any token width: no wake  *)
(* of an armed one-shot is lost, a cleared callback never runs, immediates  *)
(* fire in the order they were scheduled, and the counter a reply waits for *)
(* is exact.                                                                *)
(***************************************************************************)
EXTENDS TimerWakes, TLAPS, FiniteSetTheorems

\* Every leaf that names no prover goes to the SMT solver.
USE SMTT(60)

Immediate(t) == Kind[t] = "immediate"
Holds(s, t) == \E i \in 1..Len(s) : s[i] = t

\* A timer has left no trace before it is scheduled, and it is scheduled once.
FreshInv ==
    \A t \in Timers : token[t] = 0 =>
        /\ t \notin callbacks /\ t \notin registry /\ t \notin aborted
        /\ t \notin retry /\ t \notin retried /\ t \notin ran /\ t \notin cleared
        /\ task[t] = "none"
        /\ ~Holds(inbox, t)

\* Immediates have no Tokio task; an interval never takes itself off.
KindInv ==
    /\ \A t \in Timers : Immediate(t) => task[t] = "none" /\ t \notin registry
    /\ \A t \in Timers : Repeat(t) => task[t] # "expired"

\* Whoever aborts a task has removed its callback before.
AbortInv == \A t \in aborted : t \notin callbacks

\* The timers that got a token of the Tokio event loop.
Numbered == {t \in Timers : ~Immediate(t) /\ token[t] # 0}

\* The two token ranges are apart, and a token names one timer.
TokenInv ==
    /\ next_timer = Cardinality(Numbered) + 1
    /\ next_immediate_token >= FIRST_IMMEDIATE_TOKEN
    /\ \A t \in Timers : (token[t] # 0 /\ ~Immediate(t)) => token[t] < next_timer
    /\ \A t \in Timers : (token[t] # 0 /\ Immediate(t)) =>
           FIRST_IMMEDIATE_TOKEN <= token[t] /\ token[t] < next_immediate_token
    /\ \A t, u \in Timers : (token[t] # 0 /\ token[t] = token[u]) => t = u

IInv == TypeOK /\ FreshInv /\ KindInv /\ AbortInv /\ TokenInv

-----------------------------------------------------------------------------
(* Sets and sequences.                                                      *)

\* Sets of timers are finite.
LEMMA TimersCardinality ==
    ASSUME NEW S \in SUBSET Timers
    PROVE  IsFiniteSet(S) /\ Cardinality(S) \in Nat /\ Cardinality(S) < FIRST_IMMEDIATE_TOKEN
<1>1. IsFiniteSet(S) /\ Cardinality(S) <= Cardinality(Timers) /\ IsFiniteSet(Timers)
    BY TimerAssumption, FS_Subset
<1>2. Cardinality(S) \in Nat /\ Cardinality(Timers) \in Nat
    BY <1>1, FS_CardinalityType
<1>3. QED
    BY <1>1, <1>2, TimerAssumption

\* One timer more or less.
LEMMA OneElement ==
    ASSUME NEW S, NEW t, IsFiniteSet(S)
    PROVE  /\ t \notin S => Cardinality(S \cup {t}) = Cardinality(S) + 1
           /\ t \in S => Cardinality(S \ {t}) = Cardinality(S) - 1
BY FS_AddElement, FS_RemoveElement

\* A posted wake is behind all others.
LEMMA AppendHolds ==
    ASSUME NEW s \in Seq(Timers), NEW t \in Timers, NEW u
    PROVE  Holds(Append(s, t), u) <=> Holds(s, u) \/ u = t
<1>1. /\ Len(Append(s, t)) = Len(s) + 1 /\ Len(s) \in Nat
      /\ \A i \in 1..Len(s) : Append(s, t)[i] = s[i]
      /\ Append(s, t)[Len(s) + 1] = t
    OBVIOUS
<1>2. ASSUME Holds(s, u) \/ u = t PROVE Holds(Append(s, t), u)
    BY <1>1, <1>2 DEF Holds
<1>3. ASSUME Holds(Append(s, t), u) PROVE Holds(s, u) \/ u = t
    BY <1>1, <1>3 DEF Holds
<1>4. QED
    BY <1>2, <1>3

\* Only the head leaves the inbox.
LEMMA TailHolds ==
    ASSUME NEW s \in Seq(Timers), s # <<>>, NEW u
    PROVE  /\ Holds(s, u) => u = Head(s) \/ Holds(Tail(s), u)
           /\ Holds(Tail(s), u) => Holds(s, u)
<1>1. /\ Len(Tail(s)) = Len(s) - 1 /\ Len(s) \in Nat \ {0} /\ Head(s) = s[1]
      /\ \A i \in 1..Len(s) - 1 : Tail(s)[i] = s[i + 1]
    OBVIOUS
<1>2. ASSUME Holds(s, u), u # Head(s) PROVE Holds(Tail(s), u)
    <2>1. PICK i \in 1..Len(s) : s[i] = u
        BY <1>2 DEF Holds
    <2>2. i # 1 /\ i - 1 \in 1..Len(s) - 1 /\ Tail(s)[i - 1] = u
        BY <1>1, <1>2, <2>1
    <2>3. QED
        BY <1>1, <2>2 DEF Holds
<1>3. ASSUME Holds(Tail(s), u) PROVE Holds(s, u)
    BY <1>1, <1>3 DEF Holds
<1>4. QED
    BY <1>2, <1>3

\* The head of a non-empty inbox is a timer that it holds.
LEMMA HeadHolds ==
    ASSUME NEW s \in Seq(Timers), s # <<>>
    PROVE  Head(s) \in Timers /\ Holds(s, Head(s)) /\ Tail(s) \in Seq(Timers)
<1>1. Head(s) = s[1] /\ 1 \in 1..Len(s) /\ Head(s) \in Timers /\ Tail(s) \in Seq(Timers)
    OBVIOUS
<1>2. QED
    BY <1>1 DEF Holds

-----------------------------------------------------------------------------
(* The steps, by what they do to timers and messages.                       *)

ScheduleImmediate(t) == schedule_timer_common(t) /\ schedule_immediate(t)
ScheduleTask(t) == schedule_timer_common(t) /\ schedule_timer_task(t)

\* A step of the runner that touches neither timers nor messages.
Quiet == UNCHANGED <<token, next_timer, next_immediate_token, callbacks, cleared,
                     registry, task, aborted, inbox, retry, retried, ran>>

\* Every step of the system is one of these.
LEMMA StepCases ==
    ASSUME [Next]_vars
    PROVE  \/ Quiet
           \/ \E t \in Timers : ScheduleImmediate(t) \/ ScheduleTask(t)
           \/ \E t \in Timers : cancel_timer_common(t)
           \/ \E t \in Timers : Tokio(t)
           \/ cancel_timers_for_realm
           \/ fire_timer
<1>1. ASSUME UNCHANGED vars PROVE Quiet
    BY <1>1, ZenonT(60) DEF vars, vmVars, tokioVars, retryVars, loopVars, Quiet
<1>2. ASSUME run_script \/ script_returns \/ script_throws PROVE Quiet
    BY <1>2, ZenonT(60) DEF run_script, script_returns, script_throws, runnerFrame, tokioVars, retryVars, Quiet
<1>3. ASSUME drive_event_loop_to_idle \/ callback_returns \/ callback_throws PROVE Quiet
    BY <1>3, ZenonT(60) DEF drive_event_loop_to_idle, callback_returns, callback_throws,
                            runnerFrame, tokioVars, retryVars, Quiet
<1>4. ASSUME NEW t \in Timers, schedule_timer_common(t)
      PROVE  ScheduleImmediate(t) \/ ScheduleTask(t)
    BY <1>4, ZenonT(60) DEF schedule_timer_common, ScheduleImmediate, ScheduleTask
<1>5. QED
    BY <1>1, <1>2, <1>3, <1>4, ZenonT(60) DEF Next, Native, Runner

\* What a clear does to the timers N that its id names.
Cancelled(N) ==
    /\ callbacks' = callbacks \ N
    /\ registry' = registry \ N
    /\ aborted' = aborted \cup (N \cap registry)
    /\ UNCHANGED <<token, next_timer, next_immediate_token, task, inbox, retry, retried,
                   pc, driving, running, scripts, ran>>

\* clearTimeout and its siblings cancel the timers that have the rounded token.
LEMMA CancelNamed ==
    ASSUME NEW t \in Timers, cancel_timer_common(t)
    PROVE  /\ Cancelled({u \in Timers : token[u] = number_f64(token[t])})
           /\ cleared' = cleared \cup {t} /\ token[t] # 0 /\ t \in Clearable
<1> DEFINE N == {u \in Timers : token[u] = number_f64(token[t])}
<1>1. /\ callbacks' = callbacks \ N
      /\ registry' = registry \ (N \cap registry)
      /\ aborted' = aborted \cup (N \cap registry)
      /\ cleared' = cleared \cup {t} /\ token[t] # 0 /\ t \in Clearable
      /\ UNCHANGED <<token, next_timer, next_immediate_token, task, inbox, retry, retried,
                   pc, driving, running, scripts, ran>>
    BY ZenonT(60) DEF cancel_timer_common, cancel, retryVars, loopVars
<1> HIDE DEF N
<1>2. registry \ (N \cap registry) = registry \ N
    OBVIOUS
<1>3. Cancelled(N)
    BY <1>1, <1>2, ZenonT(60) DEF Cancelled
<1>4. QED
    BY <1>1, <1>3, ZenonT(60) DEF N

\* The disposal of a realm cancels the timers it armed.
LEMMA CancelRealm ==
    ASSUME cancel_timers_for_realm
    PROVE  /\ Cancelled(callbacks \cap Disposable)
           /\ cleared' = cleared \cup (callbacks \cap Disposable)
<1> DEFINE N == callbacks \cap Disposable
<1>1. /\ callbacks' = callbacks \ N
      /\ registry' = registry \ (N \cap registry)
      /\ aborted' = aborted \cup (N \cap registry)
      /\ cleared' = cleared \cup N
      /\ UNCHANGED <<token, next_timer, next_immediate_token, task, inbox, retry, retried,
                   pc, driving, running, scripts, ran>>
    BY ZenonT(60) DEF cancel_timers_for_realm, cancel, retryVars, loopVars
<1> HIDE DEF N
<1>2. registry \ (N \cap registry) = registry \ N
    OBVIOUS
<1>3. Cancelled(N)
    BY <1>1, <1>2, ZenonT(60) DEF Cancelled
<1>4. QED
    BY <1>1, <1>3, ZenonT(60) DEF N

\* Both kinds of cancellation, for the invariants that need no more.
LEMMA CancelSteps ==
    ASSUME TypeOK, FreshInv,
           cancel_timers_for_realm \/ \E t \in Timers : cancel_timer_common(t)
    PROVE  \E N \in SUBSET Timers, C \in SUBSET Timers :
              /\ Cancelled(N)
              /\ cleared' = cleared \cup C
              /\ \A u \in C : token[u] # 0
<1>1. ASSUME NEW t \in Timers, cancel_timer_common(t)
      PROVE  \E N \in SUBSET Timers, C \in SUBSET Timers :
                /\ Cancelled(N)
                /\ cleared' = cleared \cup C
                /\ \A u \in C : token[u] # 0
    <2> DEFINE N == {u \in Timers : token[u] = number_f64(token[t])}
    <2>1. Cancelled(N) /\ cleared' = cleared \cup {t} /\ token[t] # 0
        BY <1>1, CancelNamed, ZenonT(60)
    <2>2. N \in SUBSET Timers /\ {t} \in SUBSET Timers /\ \A u \in {t} : token[u] # 0
        BY <2>1, ZenonT(60)
    <2> HIDE DEF N
    <2>3. QED
        BY <2>1, <2>2, ZenonT(60)
<1>2. ASSUME cancel_timers_for_realm
      PROVE  \E N \in SUBSET Timers, C \in SUBSET Timers :
                /\ Cancelled(N)
                /\ cleared' = cleared \cup C
                /\ \A u \in C : token[u] # 0
    <2> DEFINE N == callbacks \cap Disposable
    <2>1. Cancelled(N) /\ cleared' = cleared \cup N
        BY <1>2, CancelRealm, ZenonT(60)
    <2>2. callbacks \subseteq Timers
        BY DEF TypeOK
    <2>3. N \in SUBSET Timers /\ \A u \in N : token[u] # 0
        BY <2>2, ZenonT(60) DEF FreshInv
    <2> HIDE DEF N
    <2>4. QED
        BY <2>1, <2>3, ZenonT(60)
<1>3. QED
    BY <1>1, <1>2, ZenonT(60)

-----------------------------------------------------------------------------
(* Type correctness.                                                        *)

\* The isolate starts without timers.
LEMMA TypeInit == Init => TypeOK
<1> SUFFICES ASSUME Init PROVE TypeOK
    OBVIOUS
<1>1. token \in [Timers -> Nat] /\ task \in [Timers -> Tasks]
    BY DEF Init, Tasks
<1>2. next_timer \in Nat /\ next_immediate_token \in Nat /\ pending_ref_timers \in Nat
    BY TimerAssumption DEF Init
<1>3. inbox \in Seq(Timers) /\ Len(inbox) <= Capacity
    BY TimerAssumption DEF Init
<1>4. scripts \in 0..Scripts
    BY TimerAssumption DEF Init
<1>5. QED
    BY <1>1, <1>2, <1>3, <1>4, ZenonT(60) DEF Init, TypeOK

\* A one-shot wake is in the inbox or with its redelivery task once it is posted.
LEMMA PostEffect ==
    ASSUME TypeOK, NEW t \in Timers, Post(t)
    PROVE  /\ inbox' \in Seq(Timers) /\ Len(inbox') <= Capacity
           /\ retry' \subseteq Timers /\ retried' \subseteq Timers
           /\ \/ inbox' = inbox /\ retry' = retry \cup {t} /\ retried' = retried \cup {t}
              \/ inbox' = Append(inbox, t) /\ retry' = retry /\ retried' = retried
<1>1. inbox \in Seq(Timers) /\ Len(inbox) <= Capacity /\ Len(inbox) \in Nat
      /\ retry \subseteq Timers /\ retried \subseteq Timers
    BY DEF TypeOK
<1>2. CASE Full
    BY <1>1, <1>2, ZenonT(60) DEF Post
<1>3. CASE ~Full
    <2>1. inbox' = Append(inbox, t) /\ retry' = retry /\ retried' = retried
        BY <1>3, ZenonT(60) DEF Post, retryVars
    <2>2. Append(inbox, t) \in Seq(Timers) /\ Len(Append(inbox, t)) <= Capacity
        BY <1>1, <1>3, TimerAssumption DEF Full
    <2>3. QED
        BY <1>1, <2>1, <2>2, ZenonT(60)
<1>4. QED
    BY <1>2, <1>3, ZenonT(60)

\* pending_ref_timers saturates at zero.
LEMMA CountOffType ==
    ASSUME NEW n \in Nat, NEW k \in Nat
    PROVE  CountOff(n, k) \in Nat /\ Saturating(n) \in Nat
BY DEF CountOff, Saturating

\* Cancellation takes a natural number off.
LEMMA CancelCount ==
    ASSUME TypeOK, NEW T \in SUBSET Timers, NEW k \in Nat, cancel(T, k)
    PROVE  /\ pending_ref_timers' \in Nat
           /\ pending_ref_timers' = CountOff(pending_ref_timers, Cardinality(T \cap registry) + k)
<1>1. Cardinality(T \cap registry) \in Nat /\ pending_ref_timers \in Nat
    BY TimersCardinality DEF TypeOK
<1>2. pending_ref_timers' = CountOff(pending_ref_timers, Cardinality(T \cap registry) + k)
    BY ZenonT(60) DEF cancel
<1>3. Cardinality(T \cap registry) + k \in Nat
    BY <1>1
<1>4. QED
    BY <1>1, <1>2, <1>3, CountOffType, ZenonT(60)

\* The natives keep the types.
LEMMA TypeNative ==
    ASSUME TypeOK, NEW t \in Timers, Native(t)
    PROVE  TypeOK'
<1>1. CASE ScheduleImmediate(t)
    <2>1. /\ inbox' \in Seq(Timers) /\ Len(inbox') <= Capacity
          /\ retry' \subseteq Timers /\ retried' \subseteq Timers
        <3>1. Post(t)
            BY <1>1 DEF ScheduleImmediate, schedule_immediate
        <3>2. QED
            BY <3>1, PostEffect
    <2>2. /\ token' = [token EXCEPT ![t] = next_immediate_token]
          /\ next_immediate_token' = next_immediate_token + 1
          /\ pending_ref_timers' = pending_ref_timers + 1
          /\ callbacks' = callbacks \cup {t}
          /\ UNCHANGED <<next_timer, registry, task, aborted, cleared, pc, driving,
                         running, scripts, ran>>
        BY <1>1, ZenonT(60) DEF ScheduleImmediate, schedule_timer_common, schedule_immediate, tokioVars, loopVars
    <2>3. QED
        BY <2>1, <2>2 DEF TypeOK
<1>2. CASE ScheduleTask(t)
    <2>2. /\ token' = [token EXCEPT ![t] = next_timer]
          /\ next_timer' = next_timer + 1
          /\ registry' = registry \cup {t}
          /\ task' = [task EXCEPT ![t] = "sleeping"]
          /\ pending_ref_timers' = pending_ref_timers + 1
          /\ callbacks' = callbacks \cup {t}
          /\ UNCHANGED <<next_immediate_token, inbox, retry, retried, aborted, cleared, pc,
                         driving, running, scripts, ran>>
        BY <1>2, ZenonT(60) DEF ScheduleTask, schedule_timer_common, schedule_timer_task, retryVars, loopVars
    <2>3. QED
        BY <2>2 DEF TypeOK, Tasks
<1>3. CASE cancel_timer_common(t)
    <2> DEFINE N == {u \in Timers : token[u] = number_f64(token[t])}
               k == IF number_f64(token[t]) >= FIRST_IMMEDIATE_TOKEN THEN 1 ELSE 0
    <2>1. cancel(N, k)
        BY <1>3, ZenonT(60) DEF cancel_timer_common
    <2>2. N \in SUBSET Timers
        BY ZenonT(60)
    <2>3. k \in Nat
        OBVIOUS
    <2>4. Cancelled(N) /\ cleared' = cleared \cup {t}
        BY <1>3, CancelNamed, ZenonT(60)
    <2> HIDE DEF N, k
    <2>5. pending_ref_timers' \in Nat
        BY <2>1, <2>2, <2>3, CancelCount, ZenonT(60)
    <2>6. QED
        BY <2>2, <2>4, <2>5 DEF Cancelled, TypeOK
<1>4. QED
    BY <1>1, <1>2, <1>3, ZenonT(60) DEF Native, schedule_timer_common, ScheduleImmediate, ScheduleTask

\* So does the disposal of a realm.
LEMMA TypeRealm == ASSUME TypeOK, cancel_timers_for_realm PROVE TypeOK'
<1> DEFINE N == callbacks \cap Disposable
           k == Cardinality({t \in N : Kind[t] = "immediate"})
<1>1. cancel(N, k)
    BY ZenonT(60) DEF cancel_timers_for_realm
<1>2. N \in SUBSET Timers
    BY TimerAssumption DEF TypeOK
<1>3. {t \in N : Kind[t] = "immediate"} \in SUBSET Timers
    BY <1>2, ZenonT(60)
<1>4. k \in Nat
    BY <1>3, TimersCardinality, ZenonT(60)
<1>5. Cancelled(N) /\ cleared' = cleared \cup N
    BY CancelRealm, ZenonT(60)
<1> HIDE DEF N, k
<1>6. pending_ref_timers' \in Nat
    BY <1>1, <1>2, <1>4, CancelCount, ZenonT(60)
<1>7. QED
    BY <1>2, <1>5, <1>6 DEF Cancelled, TypeOK

\* The Tokio tasks post within the bound of the inbox.
LEMMA TypeTokio == ASSUME TypeOK, NEW t \in Timers, Tokio(t) PROVE TypeOK'
<1> USE DEF vmVars, retryVars, tokioVars, loopVars
<1>1. CASE abort_observed(t)
    BY <1>1 DEF abort_observed, TypeOK, Tasks
<1>2. CASE sleep_elapsed(t)
    BY <1>2 DEF sleep_elapsed, TypeOK, Tasks
<1>3. CASE deregister(t)
    BY <1>3 DEF deregister, TypeOK, Tasks
<1>4. CASE timer_fired(t) /\ ~Repeat(t)
    <2>1. /\ inbox' \in Seq(Timers) /\ Len(inbox') <= Capacity
          /\ retry' \subseteq Timers /\ retried' \subseteq Timers
        <3>1. Post(t)
            BY <1>4, ZenonT(60) DEF timer_fired
        <3>2. QED
            BY <3>1, PostEffect
    <2>2. /\ task' = [task EXCEPT ![t] = "finished"]
          /\ UNCHANGED <<vmVars, registry, aborted, pending_ref_timers, loopVars>>
        BY <1>4, ZenonT(60) DEF timer_fired
    <2>3. QED
        BY <2>1, <2>2 DEF TypeOK, Tasks
<1>5. CASE timer_fired(t) /\ Repeat(t)
    <2>1. /\ inbox' = IF Full THEN inbox ELSE Append(inbox, t)
          /\ task' = [task EXCEPT ![t] = "sleeping"]
          /\ UNCHANGED <<vmVars, registry, aborted, retryVars, pending_ref_timers, loopVars>>
        BY <1>5, ZenonT(60) DEF timer_fired
    <2>2. inbox' \in Seq(Timers) /\ Len(inbox') <= Capacity
        BY <2>1, TimerAssumption DEF Full, TypeOK
    <2>3. QED
        BY <2>1, <2>2 DEF TypeOK, Tasks
<1>6. CASE redeliver(t)
    <2>1. inbox' \in Seq(Timers) /\ Len(inbox') <= Capacity
        BY <1>6, TimerAssumption DEF redeliver, Full, TypeOK
    <2>2. QED
        BY <1>6, <2>1 DEF redeliver, TypeOK
<1>7. QED
    BY <1>1, <1>2, <1>3, <1>4, <1>5, <1>6, ZenonT(60) DEF Tokio

\* The isolate thread takes messages off the inbox.
LEMMA TypeRunner == ASSUME TypeOK, Runner \/ run_script PROVE TypeOK'
<1> USE DEF runnerFrame, tokioVars, retryVars
<1>1. CASE script_returns \/ script_throws
    BY <1>1, ZenonT(60) DEF script_returns, script_throws, TypeOK
<1>2. CASE drive_event_loop_to_idle
    BY <1>2, ZenonT(60) DEF drive_event_loop_to_idle, TypeOK
<1>3. CASE fire_timer
    <2>1. Head(inbox) \in Timers /\ Tail(inbox) \in Seq(Timers) /\ Len(Tail(inbox)) <= Capacity
        BY <1>3, TimerAssumption DEF fire_timer, TypeOK
    <2>2. QED
        BY <1>3, <2>1 DEF fire_timer, TypeOK
<1>4. CASE callback_returns \/ callback_throws
    BY <1>4 DEF callback_returns, callback_throws, Saturating, TypeOK
<1>5. CASE run_script
    BY <1>5, TimerAssumption DEF run_script, TypeOK
<1>6. QED
    BY <1>1, <1>2, <1>3, <1>4, <1>5 DEF Runner

\* Every step keeps the types.
LEMMA TypeStep == ASSUME TypeOK, [Next]_vars PROVE TypeOK'
<1>1. CASE UNCHANGED vars
    BY <1>1 DEF vars, vmVars, tokioVars, retryVars, loopVars, TypeOK
<1>2. QED
    BY <1>1, TypeNative, TypeRealm, TypeTokio, TypeRunner, ZenonT(60) DEF Next

-----------------------------------------------------------------------------
(* Wakes.                                                                   *)

\* What a posted wake changes.
LEMMA PostHolds ==
    ASSUME TypeOK, NEW t \in Timers, Post(t)
    PROVE  /\ t \in retry' \/ Holds(inbox', t)
           /\ \A u : Holds(inbox, u) => Holds(inbox', u)
           /\ \A u : Holds(inbox', u) => Holds(inbox, u) \/ u = t
           /\ retry \subseteq retry' /\ retry' \subseteq retry \cup {t}
           /\ retried \subseteq retried' /\ retried' \subseteq retried \cup {t}
<1>1. \/ inbox' = inbox /\ retry' = retry \cup {t} /\ retried' = retried \cup {t}
      \/ inbox' = Append(inbox, t) /\ retry' = retry /\ retried' = retried
    BY PostEffect
<1>2. \A u : Holds(Append(inbox, t), u) <=> Holds(inbox, u) \/ u = t
    <2>1. inbox \in Seq(Timers)
        BY DEF TypeOK
    <2>2. QED
        BY <2>1, AppendHolds
<1>3. QED
    BY <1>1, <1>2, ZenonT(60)

\* An interval tick is posted or dropped.
LEMMA TickHolds ==
    ASSUME TypeOK, NEW t \in Timers, inbox' = IF Full THEN inbox ELSE Append(inbox, t)
    PROVE  /\ \A u : Holds(inbox, u) => Holds(inbox', u)
           /\ \A u : Holds(inbox', u) => Holds(inbox, u) \/ u = t
<1>1. inbox' = inbox \/ inbox' = Append(inbox, t)
    BY ZenonT(60)
<1>2. \A u : Holds(Append(inbox, t), u) <=> Holds(inbox, u) \/ u = t
    <2>1. inbox \in Seq(Timers)
        BY DEF TypeOK
    <2>2. QED
        BY <2>1, AppendHolds
<1>3. QED
    BY <1>1, <1>2, ZenonT(60)

\* A timer without a token stays without traces when a step leaves traces only
\* of timers that have one.
LEMMA FreshGrow ==
    ASSUME FreshInv, NEW G,
           \A u \in Timers : token'[u] = 0 => token[u] = 0 /\ u \notin G,
           callbacks' \subseteq callbacks \cup G, registry' \subseteq registry \cup G,
           aborted' \subseteq aborted \cup G, retry' \subseteq retry \cup G,
           retried' \subseteq retried \cup G, ran' \subseteq ran \cup G,
           cleared' \subseteq cleared \cup G,
           \A u \in Timers : u \notin G => task'[u] = task[u],
           \A u : Holds(inbox', u) => Holds(inbox, u) \/ u \in G
    PROVE  FreshInv'
BY ZenonT(60) DEF FreshInv

\* Tokens are never zero.
LEMMA TokensPositive ==
    ASSUME TypeOK, TokenInv
    PROVE  next_timer # 0 /\ next_immediate_token # 0 /\ FIRST_IMMEDIATE_TOKEN # 0
<1>1. Numbered \in SUBSET Timers
    BY ZenonT(60) DEF Numbered
<1>2. Cardinality(Numbered) \in Nat /\ Cardinality(Numbered) < FIRST_IMMEDIATE_TOKEN
    BY <1>1, TimersCardinality
<1>3. QED
    BY <1>2, TimerAssumption DEF TokenInv, TypeOK

\* The task a Tokio step belongs to was scheduled.
LEMMA TokioKnown ==
    ASSUME FreshInv, NEW t \in Timers, Tokio(t)
    PROVE  token[t] # 0
BY ZenonT(60) DEF FreshInv, Tokio, abort_observed, sleep_elapsed, deregister, timer_fired, redeliver

\* What a Tokio step leaves alone.
LEMMA TokioFrame ==
    ASSUME TypeOK, NEW t \in Timers, Tokio(t)
    PROVE  /\ token' = token /\ next_timer' = next_timer
           /\ next_immediate_token' = next_immediate_token
           /\ callbacks' = callbacks /\ cleared' = cleared /\ aborted' = aborted /\ ran' = ran
           /\ registry' \subseteq registry
           /\ \A u \in Timers : u # t => task'[u] = task[u]
           /\ \A u : Holds(inbox, u) => Holds(inbox', u)
           /\ \A u : Holds(inbox', u) => Holds(inbox, u) \/ u = t
           /\ retry' \subseteq retry \cup {t} /\ retried' \subseteq retried \cup {t}
           /\ \A u \in retry : u # t => u \in retry'
           /\ retried \subseteq retried'
           /\ inbox' = inbox \/ inbox' = Append(inbox, t)
<1>1. /\ token' = token /\ next_timer' = next_timer
      /\ next_immediate_token' = next_immediate_token
      /\ callbacks' = callbacks /\ cleared' = cleared /\ aborted' = aborted /\ ran' = ran
      /\ registry' \subseteq registry
    BY ZenonT(60) DEF Tokio, abort_observed, sleep_elapsed, deregister, timer_fired, redeliver,
       vmVars, tokioVars, loopVars
<1>2. \A u \in Timers : u # t => task'[u] = task[u]
    <2>1. task' = task \/ \E v : task' = [task EXCEPT ![t] = v]
        BY ZenonT(60) DEF Tokio, abort_observed, sleep_elapsed, deregister, timer_fired, redeliver, tokioVars
    <2>2. QED
        BY <2>1 DEF TypeOK
<1>3. CASE inbox' = inbox /\ retry' = retry /\ retried' = retried
    BY <1>1, <1>2, <1>3, ZenonT(60)
<1>4. CASE Post(t)
    <2>1. inbox' = inbox \/ inbox' = Append(inbox, t)
        BY <1>4, PostEffect, ZenonT(60)
    <2>2. QED
        BY <1>1, <1>2, <1>4, <2>1, PostHolds, ZenonT(60)
<1>5. CASE /\ inbox' = IF Full THEN inbox ELSE Append(inbox, t)
           /\ retry' = retry /\ retried' = retried
    BY <1>1, <1>2, <1>5, TickHolds, ZenonT(60)
<1>6. CASE redeliver(t)
    <2>1. ~Full /\ inbox' = Append(inbox, t) /\ retry' = retry \ {t} /\ retried' = retried
        BY <1>6, ZenonT(60) DEF redeliver
    <2>2. inbox' = IF Full THEN inbox ELSE Append(inbox, t)
        BY <2>1, ZenonT(60)
    <2>3. QED
        BY <1>1, <1>2, <2>1, <2>2, TickHolds, ZenonT(60)
<1>7. QED
    BY <1>3, <1>4, <1>5, <1>6, ZenonT(60)
       DEF Tokio, abort_observed, sleep_elapsed, deregister, timer_fired, retryVars

\* fire_timer takes the head of the inbox.
LEMMA FireFrame ==
    ASSUME TypeOK, fire_timer
    PROVE  /\ inbox # <<>> /\ Head(inbox) \in Timers /\ Holds(inbox, Head(inbox))
           /\ \A u : Holds(inbox, u) => u = Head(inbox) \/ Holds(inbox', u)
           /\ \A u : Holds(inbox', u) => Holds(inbox, u)
           /\ callbacks' \subseteq callbacks
           /\ Head(inbox) \in callbacks' => Repeat(Head(inbox))
           /\ \A u \in callbacks : u # Head(inbox) => u \in callbacks'
           /\ ran' \subseteq ran \cup {Head(inbox)} /\ ran \subseteq ran'
           /\ Head(inbox) \in callbacks => Head(inbox) \in ran'
           /\ UNCHANGED <<token, next_timer, next_immediate_token, cleared, registry, task,
                          aborted, retry, retried>>
<1>1. inbox # <<>> /\ inbox' = Tail(inbox)
    BY ZenonT(60) DEF fire_timer
<1>2. inbox \in Seq(Timers)
    BY DEF TypeOK
<1>3. /\ callbacks' \subseteq callbacks
      /\ Head(inbox) \in callbacks' => Repeat(Head(inbox))
      /\ \A u \in callbacks : u # Head(inbox) => u \in callbacks'
      /\ ran' \subseteq ran \cup {Head(inbox)} /\ ran \subseteq ran'
      /\ Head(inbox) \in callbacks => Head(inbox) \in ran'
    BY ZenonT(60) DEF fire_timer
<1>4. UNCHANGED <<token, next_timer, next_immediate_token, cleared, registry, task,
                  aborted, retry, retried>>
    BY ZenonT(60) DEF fire_timer, runnerFrame, tokioVars, retryVars
<1>5. /\ Head(inbox) \in Timers /\ Holds(inbox, Head(inbox))
      /\ \A u : Holds(inbox, u) => u = Head(inbox) \/ Holds(Tail(inbox), u)
      /\ \A u : Holds(Tail(inbox), u) => Holds(inbox, u)
    BY <1>1, <1>2, TailHolds, HeadHolds, ZenonT(60)
<1>6. QED
    BY <1>1, <1>3, <1>4, <1>5, ZenonT(60)

\* Scheduling an immediate gives it the next immediate token and posts its wake.
LEMMA ImmediateFrame ==
    ASSUME TypeOK, NEW t \in Timers, ScheduleImmediate(t)
    PROVE  /\ token[t] = 0 /\ Immediate(t) /\ Post(t)
           /\ token'[t] = next_immediate_token
           /\ \A u \in Timers : u # t => token'[u] = token[u]
           /\ next_immediate_token' = next_immediate_token + 1
           /\ callbacks' = callbacks \cup {t}
           /\ pending_ref_timers' = pending_ref_timers + 1
           /\ UNCHANGED <<next_timer, registry, task, aborted, cleared, running, pc, ran>>
<1>1. /\ token[t] = 0 /\ Immediate(t) /\ Post(t)
      /\ token' = [token EXCEPT ![t] = next_immediate_token]
      /\ next_immediate_token' = next_immediate_token + 1
      /\ callbacks' = callbacks \cup {t}
      /\ pending_ref_timers' = pending_ref_timers + 1
      /\ UNCHANGED <<next_timer, registry, task, aborted, cleared, running, pc, ran>>
    BY ZenonT(60) DEF ScheduleImmediate, schedule_timer_common, schedule_immediate, Immediate, tokioVars, loopVars
<1>2. token'[t] = next_immediate_token /\ \A u \in Timers : u # t => token'[u] = token[u]
    BY <1>1 DEF TypeOK
<1>3. QED
    BY <1>1, <1>2, ZenonT(60)

\* Any other timer gets the next token of the event loop and a task.
LEMMA TaskFrame ==
    ASSUME TypeOK, NEW t \in Timers, ScheduleTask(t)
    PROVE  /\ token[t] = 0 /\ ~Immediate(t)
           /\ token'[t] = next_timer
           /\ \A u \in Timers : u # t => token'[u] = token[u]
           /\ next_timer' = next_timer + 1
           /\ registry' = registry \cup {t}
           /\ task'[t] = "sleeping"
           /\ \A u \in Timers : u # t => task'[u] = task[u]
           /\ callbacks' = callbacks \cup {t}
           /\ pending_ref_timers' = pending_ref_timers + 1
           /\ UNCHANGED <<next_immediate_token, inbox, retry, retried, aborted, cleared,
                          running, pc, ran>>
<1>1. /\ token[t] = 0 /\ ~Immediate(t)
      /\ token' = [token EXCEPT ![t] = next_timer]
      /\ next_timer' = next_timer + 1
      /\ registry' = registry \cup {t}
      /\ task' = [task EXCEPT ![t] = "sleeping"]
      /\ callbacks' = callbacks \cup {t}
      /\ pending_ref_timers' = pending_ref_timers + 1
      /\ UNCHANGED <<next_immediate_token, inbox, retry, retried, aborted, cleared,
                     running, pc, ran>>
    BY ZenonT(60) DEF ScheduleTask, schedule_timer_common, schedule_timer_task, Immediate, retryVars, loopVars
<1>2. /\ token'[t] = next_timer /\ \A u \in Timers : u # t => token'[u] = token[u]
      /\ task'[t] = "sleeping" /\ \A u \in Timers : u # t => task'[u] = task[u]
    BY <1>1 DEF TypeOK
<1>3. QED
    BY <1>1, <1>2, ZenonT(60)

\* No step leaves a trace of a timer that was not scheduled.
LEMMA FreshStep == ASSUME IInv, [Next]_vars PROVE FreshInv'
<1> USE DEF IInv
<1>1. CASE Quiet
    <2>1. \A u : Holds(inbox', u) => Holds(inbox, u)
        BY <1>1, ZenonT(60) DEF Quiet
    <2>2. QED
        BY <1>1, <2>1, ZenonT(60) DEF Quiet, FreshInv, Holds
<1>2. ASSUME NEW t \in Timers, ScheduleImmediate(t) PROVE FreshInv'
    <2>1. \A u \in Timers : token'[u] = 0 => token[u] = 0 /\ u \notin {t}
        BY <1>2, ImmediateFrame, TokensPositive, ZenonT(60)
    <2>2. QED
        BY <1>2, <2>1, ImmediateFrame, PostHolds, FreshGrow, ZenonT(60)
<1>3. ASSUME NEW t \in Timers, ScheduleTask(t) PROVE FreshInv'
    <2>1. \A u \in Timers : token'[u] = 0 => token[u] = 0 /\ u \notin {t}
        BY <1>3, TaskFrame, TokensPositive, ZenonT(60)
    <2>2. \A u : Holds(inbox', u) => Holds(inbox, u)
        BY <1>3, TaskFrame, ZenonT(60)
    <2>3. QED
        BY <1>3, <2>1, <2>2, TaskFrame, FreshGrow, ZenonT(60)
<1>4. ASSUME cancel_timers_for_realm \/ \E t \in Timers : cancel_timer_common(t)
      PROVE  FreshInv'
    <2>1. PICK N \in SUBSET Timers, C \in SUBSET Timers :
              /\ Cancelled(N) /\ cleared' = cleared \cup C /\ \A u \in C : token[u] # 0
        BY <1>4, CancelSteps, ZenonT(60)
    <2> DEFINE G == C \cup (N \cap registry)
    <2>2. \A u \in Timers : token'[u] = 0 => token[u] = 0 /\ u \notin G
        BY <2>1, ZenonT(60) DEF Cancelled, FreshInv
    <2>3. /\ callbacks' \subseteq callbacks \cup G /\ registry' \subseteq registry \cup G
          /\ aborted' \subseteq aborted \cup G /\ retry' \subseteq retry \cup G
          /\ retried' \subseteq retried \cup G /\ ran' \subseteq ran \cup G
          /\ cleared' \subseteq cleared \cup G
          /\ \A u \in Timers : u \notin G => task'[u] = task[u]
          /\ \A u : Holds(inbox', u) => Holds(inbox, u) \/ u \in G
        BY <2>1, ZenonT(60) DEF Cancelled
    <2> HIDE DEF G
    <2>4. QED
        BY <2>2, <2>3, FreshGrow, ZenonT(60)
<1>5. ASSUME NEW t \in Timers, Tokio(t) PROVE FreshInv'
    <2>1. \A u \in Timers : token'[u] = 0 => token[u] = 0 /\ u \notin {t}
        BY <1>5, TokioKnown, TokioFrame, ZenonT(60)
    <2>2. QED
        BY <1>5, <2>1, TokioFrame, FreshGrow, ZenonT(60)
<1>6. CASE fire_timer
    <2>1. \A u \in Timers : token'[u] = 0 => token[u] = 0 /\ u \notin {Head(inbox)}
        BY <1>6, FireFrame, ZenonT(60) DEF FreshInv
    <2>2. QED
        BY <1>6, <2>1, FireFrame, FreshGrow, ZenonT(60)
<1>7. QED
    BY <1>1, <1>2, <1>3, <1>4, <1>5, <1>6, StepCases, ZenonT(60)

\* The kinds of timers stay with their own scheduler.
LEMMA KindStep == ASSUME IInv, [Next]_vars PROVE KindInv'
<1> USE DEF IInv
<1>1. CASE Quiet
    BY <1>1, ZenonT(60) DEF Quiet, KindInv
<1>2. ASSUME NEW t \in Timers, ScheduleImmediate(t) PROVE KindInv'
    BY <1>2, ImmediateFrame, ZenonT(60) DEF KindInv
<1>3. ASSUME NEW t \in Timers, ScheduleTask(t) PROVE KindInv'
    <2>1. "sleeping" # "expired"
        OBVIOUS
    <2>2. QED
        BY <1>3, <2>1, TaskFrame, ZenonT(60) DEF KindInv
<1>4. ASSUME cancel_timers_for_realm \/ \E t \in Timers : cancel_timer_common(t)
      PROVE  KindInv'
    BY <1>4, CancelSteps, ZenonT(60) DEF Cancelled, KindInv
<1>5. ASSUME NEW t \in Timers, Tokio(t) PROVE KindInv'
    <2>1. task'[t] = task[t] \/ (task[t] # "none" /\ (Repeat(t) => task'[t] # "expired"))
        BY <1>5 DEF Tokio, abort_observed, sleep_elapsed, deregister, timer_fired, redeliver,
           tokioVars, TypeOK, Tasks, Repeat
    <2>2. QED
        BY <1>5, <2>1, TokioFrame, ZenonT(60) DEF KindInv
<1>6. CASE fire_timer
    BY <1>6, FireFrame, ZenonT(60) DEF KindInv
<1>7. QED
    BY <1>1, <1>2, <1>3, <1>4, <1>5, <1>6, StepCases, ZenonT(60)

\* Callbacks are removed with the abort of their task.
LEMMA AbortStep == ASSUME IInv, [Next]_vars PROVE AbortInv'
<1> USE DEF IInv
<1>1. CASE Quiet
    BY <1>1, ZenonT(60) DEF Quiet, AbortInv
<1>2. ASSUME NEW t \in Timers, ScheduleImmediate(t) \/ ScheduleTask(t) PROVE AbortInv'
    <2>1. callbacks' = callbacks \cup {t} /\ aborted' = aborted /\ token[t] = 0
        BY <1>2, ImmediateFrame, TaskFrame, ZenonT(60)
    <2>2. t \notin aborted
        BY <2>1, ZenonT(60) DEF FreshInv
    <2>3. QED
        BY <2>1, <2>2, ZenonT(60) DEF AbortInv
<1>4. ASSUME cancel_timers_for_realm \/ \E t \in Timers : cancel_timer_common(t)
      PROVE  AbortInv'
    BY <1>4, CancelSteps, ZenonT(60) DEF Cancelled, AbortInv
<1>5. ASSUME NEW t \in Timers, Tokio(t) PROVE AbortInv'
    BY <1>5, TokioFrame, ZenonT(60) DEF AbortInv
<1>6. CASE fire_timer
    BY <1>6, FireFrame, ZenonT(60) DEF AbortInv
<1>7. QED
    BY <1>1, <1>2, <1>4, <1>5, <1>6, StepCases, ZenonT(60)

\* The tokens of Tokio timers stay below the immediate range.
LEMMA SmallTokens ==
    ASSUME TypeOK, TokenInv
    PROVE  /\ next_timer <= FIRST_IMMEDIATE_TOKEN
           /\ Cardinality(Numbered) \in Nat /\ IsFiniteSet(Numbered)
           /\ \A t \in Timers : (token[t] # 0 /\ ~Immediate(t)) => token[t] < FIRST_IMMEDIATE_TOKEN
<1>1. Numbered \in SUBSET Timers
    BY ZenonT(60) DEF Numbered
<1>2. /\ IsFiniteSet(Numbered) /\ Cardinality(Numbered) \in Nat
      /\ Cardinality(Numbered) < FIRST_IMMEDIATE_TOKEN
    BY <1>1, TimersCardinality
<1>3. next_timer <= FIRST_IMMEDIATE_TOKEN
    BY <1>2, TimerAssumption DEF TokenInv
<1>4. QED
    BY <1>2, <1>3, TimerAssumption DEF TokenInv, TypeOK

\* Steps that hand out no token.
LEMMA TokenSame ==
    ASSUME TokenInv, UNCHANGED <<token, next_timer, next_immediate_token>>
    PROVE  TokenInv'
<1>1. Numbered' = Numbered
    BY ZenonT(60) DEF Numbered
<1>2. QED
    BY <1>1, ZenonT(60) DEF TokenInv

\* A new immediate has the largest token of all.
LEMMA TokenImmediate ==
    ASSUME IInv, NEW t \in Timers, ScheduleImmediate(t)
    PROVE  TokenInv'
<1> USE DEF IInv
<1>1. /\ token[t] = 0 /\ Immediate(t) /\ token'[t] = next_immediate_token
      /\ \A u \in Timers : u # t => token'[u] = token[u]
      /\ next_immediate_token' = next_immediate_token + 1 /\ next_timer' = next_timer
    BY ImmediateFrame, ZenonT(60)
<1>2. Numbered' = Numbered
    BY <1>1, ZenonT(60) DEF Numbered
<1>3. /\ next_timer <= FIRST_IMMEDIATE_TOKEN
      /\ \A u \in Timers : (token[u] # 0 /\ ~Immediate(u)) => token[u] < FIRST_IMMEDIATE_TOKEN
    BY SmallTokens
<1>4. token \in [Timers -> Nat] /\ next_immediate_token \in Nat /\ next_timer \in Nat
    BY DEF TypeOK
<1>5. /\ next_immediate_token >= FIRST_IMMEDIATE_TOKEN
      /\ \A u \in Timers : (token[u] # 0 /\ Immediate(u)) =>
             FIRST_IMMEDIATE_TOKEN <= token[u] /\ token[u] < next_immediate_token
      /\ \A u, v \in Timers : (token[u] # 0 /\ token[u] = token[v]) => u = v
      /\ next_timer = Cardinality(Numbered) + 1
      /\ \A u \in Timers : (token[u] # 0 /\ ~Immediate(u)) => token[u] < next_timer
    BY ZenonT(60) DEF TokenInv
<1>6. \A u \in Timers : token[u] # next_immediate_token \/ token[u] = 0
    BY <1>3, <1>4, <1>5, TimerAssumption
<1>7. \A u, v \in Timers : (token'[u] # 0 /\ token'[u] = token'[v]) => u = v
    BY <1>1, <1>5, <1>6, ZenonT(60)
<1>8. \A u \in Timers : (token'[u] # 0 /\ Immediate(u)) =>
          FIRST_IMMEDIATE_TOKEN <= token'[u] /\ token'[u] < next_immediate_token'
    BY <1>1, <1>4, <1>5, TimerAssumption
<1>9. next_immediate_token' >= FIRST_IMMEDIATE_TOKEN
    BY <1>1, <1>4, <1>5, TimerAssumption
<1>10. \A u \in Timers : (token'[u] # 0 /\ ~Immediate(u)) => token'[u] < next_timer'
    BY <1>1, <1>5, ZenonT(60)
<1>11. QED
    BY <1>1, <1>2, <1>5, <1>7, <1>8, <1>9, <1>10, ZenonT(60) DEF TokenInv, Immediate

\* A new Tokio timer has the largest token below the immediate range.
LEMMA TokenTask ==
    ASSUME IInv, NEW t \in Timers, ScheduleTask(t)
    PROVE  TokenInv'
<1> USE DEF IInv
<1>1. /\ token[t] = 0 /\ ~Immediate(t) /\ token'[t] = next_timer
      /\ \A u \in Timers : u # t => token'[u] = token[u]
      /\ next_timer' = next_timer + 1 /\ next_immediate_token' = next_immediate_token
    BY TaskFrame, ZenonT(60)
<1>2. next_timer # 0 /\ next_timer \in Nat /\ token \in [Timers -> Nat]
    BY TokensPositive DEF TypeOK
<1>3. Numbered' = Numbered \cup {t} /\ t \notin Numbered
    BY <1>1, <1>2, ZenonT(60) DEF Numbered, Immediate
<1>4. Cardinality(Numbered') = Cardinality(Numbered) + 1 /\ Cardinality(Numbered) \in Nat
    BY <1>3, SmallTokens, OneElement, ZenonT(60)
<1>5. Cardinality(Numbered') < FIRST_IMMEDIATE_TOKEN
    <2>1. Numbered' \in SUBSET Timers
        BY ZenonT(60) DEF Numbered
    <2>2. QED
        BY <2>1, TimersCardinality
<1>6. /\ next_immediate_token >= FIRST_IMMEDIATE_TOKEN
      /\ \A u \in Timers : (token[u] # 0 /\ Immediate(u)) =>
             FIRST_IMMEDIATE_TOKEN <= token[u] /\ token[u] < next_immediate_token
      /\ \A u, v \in Timers : (token[u] # 0 /\ token[u] = token[v]) => u = v
      /\ next_timer = Cardinality(Numbered) + 1
      /\ \A u \in Timers : (token[u] # 0 /\ ~Immediate(u)) => token[u] < next_timer
    BY ZenonT(60) DEF TokenInv
<1>7. \A u \in Timers : token[u] # next_timer \/ token[u] = 0
    BY <1>2, <1>4, <1>5, <1>6, TimerAssumption
<1>8. \A u, v \in Timers : (token'[u] # 0 /\ token'[u] = token'[v]) => u = v
    BY <1>1, <1>6, <1>7, ZenonT(60)
<1>9. \A u \in Timers : (token'[u] # 0 /\ ~Immediate(u)) => token'[u] < next_timer'
    BY <1>1, <1>2, <1>6
<1>10. \A u \in Timers : (token'[u] # 0 /\ Immediate(u)) =>
          FIRST_IMMEDIATE_TOKEN <= token'[u] /\ token'[u] < next_immediate_token'
    BY <1>1, <1>6, ZenonT(60)
<1>11. next_timer' = Cardinality(Numbered') + 1
    BY <1>1, <1>4, <1>6
<1>12. QED
    BY <1>1, <1>6, <1>8, <1>9, <1>10, <1>11, ZenonT(60) DEF TokenInv, Immediate

\* Tokens stay unique and apart.
LEMMA TokenStep == ASSUME IInv, [Next]_vars PROVE TokenInv'
<1> USE DEF IInv
<1>1. CASE Quiet
    BY <1>1, TokenSame, ZenonT(60) DEF Quiet
<1>2. ASSUME cancel_timers_for_realm \/ \E t \in Timers : cancel_timer_common(t)
      PROVE  TokenInv'
    BY <1>2, CancelSteps, TokenSame, ZenonT(60) DEF Cancelled
<1>3. ASSUME NEW t \in Timers, Tokio(t) PROVE TokenInv'
    BY <1>3, TokioFrame, TokenSame, ZenonT(60)
<1>4. CASE fire_timer
    BY <1>4, FireFrame, TokenSame, ZenonT(60)
<1>5. QED
    BY <1>1, <1>2, <1>3, <1>4, TokenImmediate, TokenTask, StepCases, ZenonT(60)

\* The first state satisfies the invariant.
LEMMA InvInit == Init => IInv
<1> SUFFICES ASSUME Init PROVE IInv
    OBVIOUS
<1>1. TypeOK
    BY TypeInit
<1>2. FreshInv
    BY DEF Init, FreshInv, Holds
<1>3. KindInv /\ AbortInv
    BY DEF Init, KindInv, AbortInv
<1>4. TokenInv
    <2>1. Numbered = {}
        BY DEF Init, Numbered
    <2>2. Cardinality(Numbered) = 0
        BY <2>1, FS_EmptySet
    <2>3. QED
        BY <2>2, TimerAssumption DEF Init, TokenInv
<1>5. QED
    BY <1>1, <1>2, <1>3, <1>4 DEF IInv

\* Every step keeps the invariant.
LEMMA InvStep == IInv /\ [Next]_vars => IInv'
<1> SUFFICES ASSUME IInv, [Next]_vars PROVE IInv'
    OBVIOUS
<1>1. TypeOK'
    BY TypeStep DEF IInv
<1>2. QED
    BY <1>1, FreshStep, KindStep, AbortStep, TokenStep DEF IInv

\* The invariant holds in every reachable state.
LEMMA Invariant == Spec => []IInv
BY InvInit, InvStep, PTL DEF Spec

\* The types of the timers, the inbox within its bound among them.
THEOREM TypeCorrect == Spec => []TypeOK
<1>1. IInv => TypeOK
    BY DEF IInv
<1>2. QED
    BY <1>1, Invariant, PTL

\* An armed one-shot after a step of its own task.
LEMMA WakeTokio ==
    ASSUME IInv, WakeOnItsWay, NEW t \in Timers, Tokio(t), t \in callbacks, ~Repeat(t)
    PROVE  \/ task'[t] \in {"sleeping", "expired", "posting"}
           \/ t \in retry'
           \/ Holds(inbox', t)
<1> USE DEF IInv
<1>1. CASE abort_observed(t)
    BY <1>1, ZenonT(60) DEF abort_observed, AbortInv
<1>2. CASE sleep_elapsed(t) \/ deregister(t)
    <2>1. task'[t] \in {"expired", "posting"}
        BY <1>2 DEF sleep_elapsed, deregister, TypeOK
    <2>2. QED
        BY <2>1
<1>3. CASE timer_fired(t)
    <2>1. Post(t)
        BY <1>3, ZenonT(60) DEF timer_fired
    <2>2. QED
        BY <2>1, PostHolds, ZenonT(60)
<1>4. CASE redeliver(t)
    <2>1. inbox' = Append(inbox, t) /\ inbox \in Seq(Timers)
        BY <1>4 DEF redeliver, TypeOK
    <2>2. QED
        BY <2>1, AppendHolds, ZenonT(60)
<1>5. QED
    BY <1>1, <1>2, <1>3, <1>4, ZenonT(60) DEF Tokio

\* No step loses the wake of an armed one-shot.
LEMMA WakeStep == IInv /\ WakeOnItsWay /\ [Next]_vars => WakeOnItsWay'
<1> SUFFICES ASSUME IInv, WakeOnItsWay, [Next]_vars PROVE WakeOnItsWay'
    OBVIOUS
<1> DEFINE Way(u) == \/ task[u] \in {"sleeping", "expired", "posting"}
                     \/ u \in retry
                     \/ Holds(inbox, u)
<1>1. \A u \in callbacks : ~Repeat(u) => Way(u)
    BY ZenonT(60) DEF WakeOnItsWay, Holds
<1>2. SUFFICES ASSUME NEW u \in callbacks', ~Repeat(u)
               PROVE  \/ task'[u] \in {"sleeping", "expired", "posting"}
                      \/ u \in retry'
                      \/ Holds(inbox', u)
    BY ZenonT(60) DEF WakeOnItsWay, Holds, Repeat
<1>3. u \in Timers /\ callbacks \subseteq Timers
    <2>1. TypeOK'
        BY TypeStep DEF IInv
    <2>2. QED
        BY <2>1 DEF TypeOK, IInv
<1> USE DEF IInv
<1>4. CASE Quiet
    BY <1>1, <1>2, <1>4, ZenonT(60) DEF Quiet
<1>5. ASSUME NEW t \in Timers, ScheduleImmediate(t) PROVE Way(u)'
    BY <1>1, <1>2, <1>3, <1>5, ImmediateFrame, PostHolds, ZenonT(60)
<1>6. ASSUME NEW t \in Timers, ScheduleTask(t) PROVE Way(u)'
    <2>1. CASE u = t
        BY <1>6, <2>1, TaskFrame, ZenonT(60)
    <2>2. CASE u # t
        <3>1. u \in callbacks /\ task'[u] = task[u] /\ retry' = retry /\ inbox' = inbox
            BY <1>2, <1>3, <1>6, <2>2, TaskFrame, ZenonT(60)
        <3>2. QED
            BY <1>1, <1>2, <3>1, ZenonT(60)
    <2>3. QED
        BY <2>1, <2>2
<1>7. ASSUME cancel_timers_for_realm \/ \E t \in Timers : cancel_timer_common(t)
      PROVE  Way(u)'
    <2>1. u \in callbacks /\ task' = task /\ retry' = retry /\ inbox' = inbox
        BY <1>2, <1>7, CancelSteps, ZenonT(60) DEF Cancelled
    <2>2. QED
        BY <1>1, <1>2, <2>1, ZenonT(60)
<1>8. ASSUME NEW t \in Timers, Tokio(t) PROVE Way(u)'
    <2>1. u \in callbacks
        BY <1>2, <1>8, TokioFrame, ZenonT(60)
    <2>2. CASE u = t
        BY <1>2, <1>8, <2>1, <2>2, WakeTokio, ZenonT(60)
    <2>3. CASE u # t
        BY <1>1, <1>2, <1>3, <1>8, <2>1, <2>3, TokioFrame, ZenonT(60)
    <2>4. QED
        BY <2>2, <2>3
<1>9. CASE fire_timer
    <2>1. u # Head(inbox) /\ u \in callbacks
        BY <1>2, <1>9, FireFrame, ZenonT(60)
    <2>2. QED
        BY <1>1, <1>2, <1>9, <2>1, FireFrame, ZenonT(60)
<1>10. QED
    BY <1>4, <1>5, <1>6, <1>7, <1>8, <1>9, StepCases, ZenonT(60)

\* No wake is lost, for any program and any capacity of the inbox: an armed
\* one-shot is asleep, being posted, queued or held by a redelivery task, also
\* when it expires while the inbox is full or while others are being cleared.
THEOREM NoWakeIsLost == Spec => []WakeOnItsWay
<1>1. Init => WakeOnItsWay
    BY DEF Init, WakeOnItsWay
<1>2. QED
    BY <1>1, WakeStep, Invariant, PTL DEF Spec

-----------------------------------------------------------------------------
(* Cleared timers.                                                          *)

\* The ids a program clears are those of timeouts and intervals, which a double
\* holds exactly.
ClearsNoImmediate == \A t \in Clearable : ~Immediate(t)

\* Clearing a timer removes its entry, and its token is never given again.
ClearedInv == ClearsNoImmediate /\ \A t \in cleared : t \notin callbacks

\* The clear of a Tokio timer cancels that timer and no other.
LEMMA CancelExact ==
    ASSUME TypeOK, TokenInv, NEW t \in Timers, ~Immediate(t), cancel_timer_common(t)
    PROVE  /\ Cancelled({t}) /\ cleared' = cleared \cup {t} /\ t \in Clearable
           /\ cancel({t}, 0)
<1>1. token[t] # 0 /\ token[t] < FIRST_IMMEDIATE_TOKEN /\ token[t] \in Nat
    <2>1. token[t] # 0
        BY CancelNamed, ZenonT(60)
    <2>2. QED
        BY <2>1, SmallTokens DEF TypeOK
<1>2. number_f64(token[t]) = token[t]
    BY <1>1 DEF number_f64
<1>3. {u \in Timers : token[u] = token[t]} = {t}
    BY <1>1, ZenonT(60) DEF TokenInv
<1>4. /\ Cancelled({u \in Timers : token[u] = token[t]})
      /\ cleared' = cleared \cup {t} /\ t \in Clearable
    BY <1>2, CancelNamed, ZenonT(60)
<1>5. cancel({u \in Timers : token[u] = token[t]},
             IF token[t] >= FIRST_IMMEDIATE_TOKEN THEN 1 ELSE 0)
    BY <1>2, ZenonT(60) DEF cancel_timer_common
<1>6. (IF token[t] >= FIRST_IMMEDIATE_TOKEN THEN 1 ELSE 0) = 0
    BY <1>1, TimerAssumption
<1>7. QED
    BY <1>3, <1>4, <1>5, <1>6, ZenonT(60)

\* No step arms a cleared timer again.
LEMMA ClearedStep == IInv /\ ClearedInv /\ [Next]_vars => ClearedInv'
<1> SUFFICES ASSUME IInv, ClearedInv, [Next]_vars PROVE \A t \in cleared' : t \notin callbacks'
    BY ZenonT(60) DEF ClearedInv, ClearsNoImmediate, Immediate
<1> USE DEF IInv
<1>1. CASE Quiet
    BY <1>1, ZenonT(60) DEF Quiet, ClearedInv
<1>2. ASSUME NEW t \in Timers, ScheduleImmediate(t) \/ ScheduleTask(t)
      PROVE  \A u \in cleared' : u \notin callbacks'
    <2>1. callbacks' = callbacks \cup {t} /\ cleared' = cleared /\ token[t] = 0
        BY <1>2, ImmediateFrame, TaskFrame, ZenonT(60)
    <2>2. t \notin cleared
        BY <2>1, ZenonT(60) DEF FreshInv
    <2>3. QED
        BY <2>1, <2>2, ZenonT(60) DEF ClearedInv
<1>3. ASSUME NEW t \in Timers, cancel_timer_common(t)
      PROVE  \A u \in cleared' : u \notin callbacks'
    <2>1. ~Immediate(t)
        BY <1>3, CancelNamed, ZenonT(60) DEF ClearedInv, ClearsNoImmediate
    <2>2. callbacks' = callbacks \ {t} /\ cleared' = cleared \cup {t}
        BY <1>3, <2>1, CancelExact, ZenonT(60) DEF Cancelled
    <2>3. QED
        BY <2>2, ZenonT(60) DEF ClearedInv
<1>4. CASE cancel_timers_for_realm
    BY <1>4, CancelRealm, ZenonT(60) DEF Cancelled, ClearedInv
<1>5. ASSUME NEW t \in Timers, Tokio(t) PROVE \A u \in cleared' : u \notin callbacks'
    BY <1>5, TokioFrame, ZenonT(60) DEF ClearedInv
<1>6. CASE fire_timer
    BY <1>6, FireFrame, ZenonT(60) DEF ClearedInv
<1>7. QED
    BY <1>1, <1>2, <1>3, <1>4, <1>5, <1>6, StepCases, ZenonT(60)

\* Only fire_timer starts a callback, and only one that has an entry.
LEMMA StartsArmed ==
    ASSUME TypeOK, [Next]_vars, NEW t \in Timers, running' = t, running # t
    PROVE  t \in callbacks
<1>1. t # None
    BY TimerAssumption
<1>2. CASE fire_timer
    BY <1>2, ZenonT(60) DEF fire_timer
<1>3. CASE callback_returns \/ callback_throws
    BY <1>1, <1>3, ZenonT(60) DEF callback_returns, callback_throws
<1>4. CASE run_script \/ script_returns \/ script_throws \/ drive_event_loop_to_idle
    BY <1>4, ZenonT(60) DEF run_script, script_returns, script_throws, drive_event_loop_to_idle
<1>5. CASE UNCHANGED vars
    BY <1>5, ZenonT(60) DEF vars, loopVars
<1>6. ASSUME NEW u \in Timers, Native(u) PROVE FALSE
    BY <1>6, ZenonT(60) DEF Native, schedule_timer_common, cancel_timer_common, loopVars
<1>7. ASSUME NEW u \in Timers, Tokio(u) PROVE FALSE
    BY <1>7, ZenonT(60) DEF Tokio, abort_observed, sleep_elapsed, deregister, timer_fired, redeliver, loopVars
<1>8. CASE cancel_timers_for_realm
    BY <1>8, ZenonT(60) DEF cancel_timers_for_realm, loopVars
<1>9. QED
    BY <1>2, <1>3, <1>4, <1>5, <1>6, <1>7, <1>8, ZenonT(60) DEF Next, Runner

\* "Cancellation deletes the entry so a late TimerFired becomes a no-op": a
\* timeout or an interval that was cleared never starts again, wherever its
\* task, its wake or its redelivery were at that moment. Immediates are left
\* out because the double that names one may be the id of a neighbour.
THEOREM ClearedStaysQuiet ==
    ASSUME ClearsNoImmediate
    PROVE  Spec => ClearedNeverRuns
<1>1. ClearsNoImmediate /\ Init => ClearedInv
    BY ZenonT(60) DEF Init, ClearedInv
<1>2. IInv /\ ClearedInv /\ [Next]_vars
      => [\A t \in cleared : running' = t => running = t]_vars
    <2> SUFFICES ASSUME IInv, ClearedInv, [Next]_vars, NEW t \in cleared, running' = t, running # t
                 PROVE  FALSE
        BY ZenonT(60)
    <2>1. t \in Timers
        BY DEF IInv, TypeOK
    <2>2. t \in callbacks
        BY <2>1, StartsArmed, ZenonT(60) DEF IInv
    <2>3. QED
        BY <2>2, ZenonT(60) DEF ClearedInv
<1>3. QED
    BY <1>1, <1>2, ClearedStep, Invariant, PTL DEF Spec, ClearedNeverRuns

-----------------------------------------------------------------------------
(* The order of immediates.                                                 *)

\* In the inbox s no immediate with a larger token than t is in front of t.
Front(s, k, t) ==
    \E i \in 1..Len(s) :
        /\ s[i] = t
        /\ \A j \in 1..i : ~(Immediate(s[j]) /\ k[s[j]] > k[t])

\* What arrives later queues behind.
LEMMA FrontAppend ==
    ASSUME NEW s \in Seq(Timers), NEW x \in Timers, NEW k, NEW t, Front(s, k, t)
    PROVE  Front(Append(s, x), k, t)
<1>1. PICK i \in 1..Len(s) : s[i] = t /\ \A j \in 1..i : ~(Immediate(s[j]) /\ k[s[j]] > k[t])
    BY ZenonT(60) DEF Front
<1>2. /\ i \in 1..Len(Append(s, x)) /\ Append(s, x)[i] = s[i]
      /\ \A j \in 1..i : Append(s, x)[j] = s[j]
    BY <1>1
<1>3. QED
    BY <1>1, <1>2, ZenonT(60) DEF Front

\* The first wake of an immediate is behind smaller tokens only.
LEMMA FrontEnd ==
    ASSUME NEW s \in Seq(Timers), NEW x \in Timers, NEW k \in [Timers -> Nat],
           \A v \in Timers : (Holds(s, v) /\ Immediate(v)) => ~(k[v] > k[x])
    PROVE  Front(Append(s, x), k, x)
<1> DEFINE n == Len(s) + 1
           a == Append(s, x)
<1>1. /\ n \in 1..Len(a) /\ a[n] = x
      /\ \A j \in 1..n : j = n \/ (j \in 1..Len(s) /\ a[j] = s[j] /\ s[j] \in Timers)
    OBVIOUS
<1>2. k[x] \in Nat
    OBVIOUS
<1>3. ~(k[x] > k[x])
    BY <1>2
<1>4. \A j \in 1..Len(s) : Holds(s, s[j])
    BY ZenonT(60) DEF Holds
<1> HIDE DEF n, a
<1>5. \A j \in 1..n : ~(Immediate(a[j]) /\ k[a[j]] > k[x])
    BY <1>1, <1>3, <1>4, ZenonT(60)
<1>6. Front(a, k, x)
    BY <1>1, <1>5, ZenonT(60) DEF Front
<1>7. QED
    BY <1>6 DEF a

\* Tokens of timers that are not in the inbox, or are no immediates, are free.
LEMMA FrontTokens ==
    ASSUME NEW s \in Seq(Timers), NEW k, NEW l, NEW t, Front(s, k, t), k[t] = l[t],
           \A v \in Timers : Holds(s, v) /\ Immediate(v) => k[v] = l[v]
    PROVE  Front(s, l, t)
<1>1. PICK i \in 1..Len(s) : s[i] = t /\ \A j \in 1..i : ~(Immediate(s[j]) /\ k[s[j]] > k[t])
    BY ZenonT(60) DEF Front
<1>2. \A j \in 1..i : j \in 1..Len(s) /\ s[j] \in Timers
    BY <1>1
<1>3. \A j \in 1..i : Holds(s, s[j])
    BY <1>2, ZenonT(60) DEF Holds
<1>4. \A j \in 1..i : ~(Immediate(s[j]) /\ l[s[j]] > l[t])
    BY <1>1, <1>2, <1>3, ZenonT(60)
<1>5. QED
    BY <1>1, <1>4, ZenonT(60) DEF Front

\* The head is not an immediate with a larger token; behind it nothing changes.
LEMMA FrontTail ==
    ASSUME NEW s \in Seq(Timers), s # <<>>, NEW k, NEW t, Front(s, k, t)
    PROVE  /\ ~(Immediate(Head(s)) /\ k[Head(s)] > k[t])
           /\ Head(s) = t \/ Front(Tail(s), k, t)
<1>1. PICK i \in 1..Len(s) : s[i] = t /\ \A j \in 1..i : ~(Immediate(s[j]) /\ k[s[j]] > k[t])
    BY ZenonT(60) DEF Front
<1>2. Head(s) = s[1] /\ 1 \in 1..i
    BY <1>1
<1>3. ~(Immediate(Head(s)) /\ k[Head(s)] > k[t])
    BY <1>1, <1>2, ZenonT(60)
<1>4. CASE i = 1
    BY <1>1, <1>2, <1>3, <1>4, ZenonT(60)
<1>5. CASE i # 1
    <2>1. /\ i - 1 \in 1..Len(Tail(s)) /\ Tail(s)[i - 1] = s[i]
          /\ \A j \in 1..(i - 1) : j + 1 \in 1..i /\ Tail(s)[j] = s[j + 1]
        BY <1>1, <1>5
    <2>2. Front(Tail(s), k, t)
        BY <1>1, <2>1, ZenonT(60) DEF Front
    <2>3. QED
        BY <1>3, <2>2
<1>6. QED
    BY <1>4, <1>5

\* An immediate whose first wake met room and has not been delivered.
Awaiting(t) ==
    Immediate(t) /\ token[t] # 0 /\ t \notin ran /\ t \notin cleared /\ t \notin retried

\* It is armed, in the inbox, and nothing scheduled after it is in front or ran.
Ordered(t) ==
    /\ t \in callbacks
    /\ Front(inbox, token, t)
    /\ \A u \in ran : Immediate(u) => ~(token[u] > token[t])

FifoInv == ClearsNoImmediate /\ \A t \in Timers : Awaiting(t) => Ordered(t)

\* A new immediate goes to the end of the inbox.
LEMMA FifoImmediate ==
    ASSUME IInv, FifoInv, NEW x \in Timers, ScheduleImmediate(x), NEW t \in Timers, Awaiting(t)'
    PROVE  Ordered(t)'
<1> USE DEF IInv
<1>1. /\ token[x] = 0 /\ Immediate(x) /\ Post(x)
      /\ token'[x] = next_immediate_token
      /\ \A u \in Timers : u # x => token'[u] = token[u]
      /\ callbacks' = callbacks \cup {x}
      /\ cleared' = cleared /\ ran' = ran
    BY ImmediateFrame, ZenonT(60)
<1>2. /\ inbox \in Seq(Timers) /\ ran \subseteq Timers /\ token \in [Timers -> Nat]
      /\ next_immediate_token \in Nat
    BY DEF TypeOK
<1>3. ~Holds(inbox, x) /\ x \notin ran
    BY <1>1, ZenonT(60) DEF FreshInv
<1>4. \/ inbox' = inbox /\ x \in retried' /\ retried' = retried \cup {x}
      \/ inbox' = Append(inbox, x) /\ retried' = retried
    BY <1>1, PostEffect, ZenonT(60)
<1>5. Immediate(t) /\ token'[t] # 0 /\ t \notin ran /\ t \notin cleared /\ t \notin retried'
    BY <1>1, ZenonT(60) DEF Awaiting, Immediate
<1>6. CASE t = x
    <2>1. inbox' = Append(inbox, x)
        BY <1>4, <1>5, <1>6, ZenonT(60)
    <2>2. \A v \in Timers : (v # x /\ Immediate(v)) => ~(token'[v] > token'[x])
        <3>1. \A v \in Timers : Immediate(v) => ~(token[v] > next_immediate_token)
            BY <1>2, TimerAssumption DEF TokenInv
        <3>2. QED
            BY <1>1, <3>1, ZenonT(60)
    <2>3. \A v \in Timers : (Holds(inbox, v) /\ Immediate(v)) => ~(token'[v] > token'[x])
        BY <1>3, <2>2, ZenonT(60)
    <2>4. token' \in [Timers -> Nat]
        <3>1. TypeOK'
            BY TypeNative, ZenonT(60) DEF Native, ScheduleImmediate
        <3>2. QED
            BY <3>1 DEF TypeOK
    <2>5. Front(inbox', token', x)
        BY <1>2, <2>1, <2>3, <2>4, FrontEnd, ZenonT(60)
    <2>6. \A u \in ran' : Immediate(u) => ~(token'[u] > token'[x])
        BY <1>1, <1>2, <1>3, <2>2, ZenonT(60)
    <2>7. QED
        BY <1>1, <1>6, <2>5, <2>6, ZenonT(60) DEF Ordered, Immediate
<1>7. CASE t # x
    <2>1. Awaiting(t)
        BY <1>1, <1>4, <1>5, <1>7, ZenonT(60) DEF Awaiting
    <2>2. /\ t \in callbacks /\ Front(inbox, token, t)
          /\ \A u \in ran : Immediate(u) => ~(token[u] > token[t])
        BY <2>1, ZenonT(60) DEF FifoInv, Ordered
    <2>3. /\ token[t] = token'[t]
          /\ \A v \in Timers : Holds(inbox, v) /\ Immediate(v) => token[v] = token'[v]
        BY <1>1, <1>3, <1>7, ZenonT(60)
    <2>4. Front(inbox, token', t)
        BY <1>2, <2>2, <2>3, FrontTokens, ZenonT(60)
    <2>5. Front(inbox', token', t)
        BY <1>2, <1>4, <2>4, FrontAppend, ZenonT(60)
    <2>6. \A u \in ran' : Immediate(u) => ~(token'[u] > token'[t])
        BY <1>1, <1>2, <1>3, <2>2, <2>3, ZenonT(60)
    <2>7. QED
        BY <1>1, <2>2, <2>5, <2>6, ZenonT(60) DEF Ordered, Immediate
<1>8. QED
    BY <1>6, <1>7

\* A step that changes no token of an immediate, clears or runs none, and adds
\* to the end of the inbox at most.
LEMMA FifoFrame ==
    ASSUME TypeOK, FifoInv, NEW t \in Timers, Awaiting(t)', NEW x \in Timers,
           \A u \in Timers : Immediate(u) => token'[u] = token[u],
           ran' = ran, cleared \subseteq cleared', retried \subseteq retried',
           inbox' = inbox \/ inbox' = Append(inbox, x),
           t \in callbacks => t \in callbacks'
    PROVE  Ordered(t)'
<1>1. inbox \in Seq(Timers) /\ ran \subseteq Timers
    BY DEF TypeOK
<1>2. Immediate(t) /\ token'[t] # 0 /\ t \notin ran' /\ t \notin cleared' /\ t \notin retried'
    BY ZenonT(60) DEF Awaiting, Immediate
<1>3. token'[t] = token[t]
    BY <1>2, ZenonT(60)
<1>4. Awaiting(t)
    BY <1>2, <1>3, ZenonT(60) DEF Awaiting
<1>5. /\ t \in callbacks /\ Front(inbox, token, t)
      /\ \A u \in ran : Immediate(u) => ~(token[u] > token[t])
    BY <1>4, ZenonT(60) DEF FifoInv, Ordered
<1>6. Front(inbox, token', t)
    BY <1>1, <1>3, <1>5, FrontTokens, ZenonT(60)
<1>7. Front(inbox', token', t)
    BY <1>1, <1>6, FrontAppend, ZenonT(60)
<1>8. \A u \in ran' : Immediate(u) => ~(token'[u] > token'[t])
    BY <1>1, <1>3, <1>5, ZenonT(60)
<1>9. QED
    BY <1>5, <1>7, <1>8, ZenonT(60) DEF Ordered, Immediate

\* Delivery takes the immediate with the smallest token first.
LEMMA FifoFire ==
    ASSUME IInv, FifoInv, fire_timer, NEW t \in Timers, Awaiting(t)'
    PROVE  Ordered(t)'
<1> USE DEF IInv
<1> DEFINE h == Head(inbox)
<1>1. /\ inbox # <<>> /\ h \in Timers /\ token' = token
      /\ cleared' = cleared /\ retried' = retried
      /\ ran' \subseteq ran \cup {h} /\ ran \subseteq ran'
      /\ h \in callbacks => h \in ran'
      /\ \A u \in callbacks : u # h => u \in callbacks'
    BY FireFrame, ZenonT(60)
<1>2. inbox' = Tail(inbox)
    BY ZenonT(60) DEF fire_timer
<1>3. inbox \in Seq(Timers)
    BY DEF TypeOK
<1>4. Awaiting(t) /\ t \notin ran'
    BY <1>1, ZenonT(60) DEF Awaiting, Immediate
<1>5. /\ t \in callbacks /\ Front(inbox, token, t)
      /\ \A u \in ran : Immediate(u) => ~(token[u] > token[t])
    BY <1>4, ZenonT(60) DEF FifoInv, Ordered
<1>6. /\ ~(Immediate(h) /\ token[h] > token[t])
      /\ h = t \/ Front(inbox', token, t)
    BY <1>1, <1>2, <1>3, <1>5, FrontTail, ZenonT(60)
<1> HIDE DEF h
<1>7. h # t
    BY <1>1, <1>4, <1>5, ZenonT(60)
<1>8. \A u \in ran' : Immediate(u) => ~(token'[u] > token'[t])
    BY <1>1, <1>5, <1>6, ZenonT(60)
<1>9. QED
    BY <1>1, <1>5, <1>6, <1>7, <1>8, ZenonT(60) DEF Ordered, Immediate

\* The order survives every step.
LEMMA FifoStep == IInv /\ FifoInv /\ [Next]_vars => FifoInv'
<1> SUFFICES ASSUME IInv, FifoInv, [Next]_vars, NEW t \in Timers, Awaiting(t)'
             PROVE  Ordered(t)'
    BY ZenonT(60) DEF FifoInv, ClearsNoImmediate, Immediate
<1> USE DEF IInv
<1>1. CASE Quiet
    BY <1>1, FifoFrame, ZenonT(60) DEF Quiet
<1>2. ASSUME NEW x \in Timers, ScheduleTask(x) PROVE Ordered(t)'
    BY <1>2, TaskFrame, FifoFrame, ZenonT(60)
<1>3. ASSUME NEW x \in Timers, cancel_timer_common(x) PROVE Ordered(t)'
    <2>1. ~Immediate(x)
        BY <1>3, CancelNamed, ZenonT(60) DEF FifoInv, ClearsNoImmediate
    <2>2. Cancelled({x}) /\ cleared' = cleared \cup {x}
        BY <1>3, <2>1, CancelExact, ZenonT(60)
    <2>3. t # x
        BY <2>1, ZenonT(60) DEF Awaiting, Immediate
    <2>4. /\ token' = token /\ ran' = ran /\ cleared \subseteq cleared' /\ retried' = retried
          /\ inbox' = inbox /\ (t \in callbacks => t \in callbacks')
        BY <2>2, <2>3, ZenonT(60) DEF Cancelled
    <2>5. QED
        BY <2>4, FifoFrame, ZenonT(60)
<1>4. CASE cancel_timers_for_realm
    <2>1. Cancelled(callbacks \cap Disposable) /\ cleared' = cleared \cup (callbacks \cap Disposable)
        BY <1>4, CancelRealm, ZenonT(60)
    <2>2. t \notin callbacks \cap Disposable
        BY <2>1, ZenonT(60) DEF Awaiting
    <2>3. /\ token' = token /\ ran' = ran /\ cleared \subseteq cleared' /\ retried' = retried
          /\ inbox' = inbox /\ (t \in callbacks => t \in callbacks')
        BY <2>1, <2>2, ZenonT(60) DEF Cancelled
    <2>4. QED
        BY <2>3, FifoFrame, ZenonT(60)
<1>5. ASSUME NEW x \in Timers, Tokio(x) PROVE Ordered(t)'
    BY <1>5, TokioFrame, FifoFrame, ZenonT(60)
<1>6. CASE fire_timer
    BY <1>6, FifoFire
<1>7. QED
    BY <1>1, <1>2, <1>3, <1>4, <1>5, <1>6, FifoImmediate, StepCases, ZenonT(60)

\* "multiple setTimeout(..., 0) calls fire in FIFO scheduling order", for any
\* number of immediates among other timers: an immediate is overtaken only when
\* it was cleared with its realm or its wake met a full inbox.
THEOREM ImmediatesFireInOrder ==
    ASSUME ClearsNoImmediate
    PROVE  Spec => []ImmediateFifo
<1>1. ClearsNoImmediate /\ Init => FifoInv
    BY DEF Init, FifoInv, Awaiting
<1>2. IInv /\ FifoInv => ImmediateFifo
    <2> SUFFICES ASSUME IInv, FifoInv, NEW t \in Timers, NEW u \in Timers,
                        Kind[t] = "immediate", Kind[u] = "immediate",
                        token[t] # 0, token[t] < token[u], u \in ran,
                        t \notin ran \cup cleared \cup retried
                 PROVE  FALSE
        BY ZenonT(60) DEF ImmediateFifo
    <2>1. Awaiting(t) /\ Immediate(u)
        BY ZenonT(60) DEF Awaiting, Immediate
    <2>2. ~(token[u] > token[t])
        BY <2>1, ZenonT(60) DEF FifoInv, Ordered
    <2>3. token[t] \in Nat /\ token[u] \in Nat
        BY DEF IInv, TypeOK
    <2>4. QED
        BY <2>2, <2>3
<1>3. QED
    BY <1>1, <1>2, FifoStep, Invariant, PTL DEF Spec

-----------------------------------------------------------------------------
(* The counter a reply waits for.                                           *)

\* The programs whose timers the counter follows: they clear intervals only,
\* no interval callback throws, and a disposed realm has no timeouts.
CountedProgram ==
    /\ \A t \in Clearable : Repeat(t)
    /\ \A t \in Throwing : ~Repeat(t)
    /\ \A t \in Disposable : Kind[t] # "timeout"

\* An armed interval has a join handle, so that its clear is counted once.
CountInv ==
    /\ CountedProgram
    /\ \A t \in Timers : Repeat(t) => (t \in callbacks <=> t \in registry)
    /\ running # None => pc = "js"
    /\ TimerAccounting

\* The counter and the table move together.
LEMMA CountKept ==
    ASSUME TimerAccounting, pending_ref_timers' = pending_ref_timers,
           callbacks' = callbacks, running' = running
    PROVE  TimerAccounting'
BY ZenonT(60) DEF TimerAccounting, RunningOneShot, Repeat

\* Sets of callbacks are finite.
LEMMA CallbacksCardinality ==
    ASSUME TypeOK
    PROVE  IsFiniteSet(callbacks) /\ Cardinality(callbacks) \in Nat
BY TimersCardinality DEF TypeOK

\* The running one-shot counts for one.
LEMMA OneShot ==
    /\ running # None /\ ~Repeat(running) => RunningOneShot = 1
    /\ running = None \/ Repeat(running) => RunningOneShot = 0
    /\ RunningOneShot \in {0, 1}
    /\ running' = running => RunningOneShot' = RunningOneShot
    /\ running' # None /\ ~Repeat(running') => RunningOneShot' = 1
    /\ running' = None \/ Repeat(running') => RunningOneShot' = 0
BY ZenonT(60) DEF RunningOneShot, Repeat

\* A scheduled timer is counted once.
LEMMA CountSchedule ==
    ASSUME IInv, CountInv, NEW t \in Timers, ScheduleImmediate(t) \/ ScheduleTask(t)
    PROVE  CountInv'
<1> USE DEF IInv
<1>1. /\ callbacks' = callbacks \cup {t} /\ pending_ref_timers' = pending_ref_timers + 1
      /\ running' = running /\ pc' = pc /\ token[t] = 0
    BY ImmediateFrame, TaskFrame, ZenonT(60)
<1>2. t \notin callbacks /\ t \notin registry
    BY <1>1, ZenonT(60) DEF FreshInv
<1>3. /\ Cardinality(callbacks') = Cardinality(callbacks) + 1
      /\ Cardinality(callbacks) \in Nat
    BY <1>1, <1>2, CallbacksCardinality, FS_AddElement
<1>4. TimerAccounting'
    <2>1. pending_ref_timers = Cardinality(callbacks) + RunningOneShot
        BY DEF CountInv, TimerAccounting
    <2>2. RunningOneShot \in {0, 1} /\ RunningOneShot' = RunningOneShot
        BY <1>1, OneShot, ZenonT(60)
    <2>3. pending_ref_timers' = Cardinality(callbacks') + RunningOneShot'
        BY <1>1, <1>3, <2>1, <2>2
    <2>4. QED
        BY <2>3 DEF TimerAccounting
<1>5. \A u \in Timers : Repeat(u) => (u \in callbacks' <=> u \in registry')
    <2>1. CASE ScheduleTask(t)
        <3>1. registry' = registry \cup {t}
            BY <2>1, TaskFrame, ZenonT(60)
        <3>2. QED
            BY <1>1, <3>1, ZenonT(60) DEF CountInv
    <2>2. CASE ScheduleImmediate(t)
        <3>1. registry' = registry /\ Immediate(t)
            BY <2>2, ImmediateFrame, ZenonT(60)
        <3>2. ~Repeat(t)
            BY <3>1 DEF Immediate, Repeat
        <3>3. QED
            BY <1>1, <3>1, <3>2, ZenonT(60) DEF CountInv
    <2>3. QED
        BY <2>1, <2>2
<1>6. QED
    BY <1>1, <1>4, <1>5, ZenonT(60) DEF CountInv, CountedProgram, Repeat

\* Taking a set of callbacks off takes as many off the counter.
LEMMA CountOffSet ==
    ASSUME TypeOK, TimerAccounting, NEW N \in SUBSET callbacks, NEW k \in Nat,
           k = Cardinality(N), callbacks' = callbacks \ N, running' = running,
           pending_ref_timers' = CountOff(pending_ref_timers, k)
    PROVE  TimerAccounting'
<1>1. IsFiniteSet(callbacks) /\ Cardinality(callbacks) \in Nat
    BY CallbacksCardinality
<1>2. /\ Cardinality(callbacks \ N) = Cardinality(callbacks) - Cardinality(callbacks \cap N)
      /\ callbacks \cap N = N
    BY <1>1, FS_Difference
<1>3. Cardinality(N) <= Cardinality(callbacks)
    BY <1>1, FS_Subset
<1>4. RunningOneShot \in {0, 1} /\ RunningOneShot' = RunningOneShot
    BY OneShot, ZenonT(60)
<1>5. pending_ref_timers = Cardinality(callbacks) + RunningOneShot
    BY DEF TimerAccounting
<1>6. Cardinality(callbacks') = Cardinality(callbacks) - k
    BY <1>2, ZenonT(60)
<1>7. k <= pending_ref_timers
    BY <1>1, <1>3, <1>4, <1>5
<1>8. pending_ref_timers' = Cardinality(callbacks') + RunningOneShot'
    BY <1>1, <1>4, <1>5, <1>6, <1>7 DEF CountOff
<1>9. QED
    BY <1>8 DEF TimerAccounting

\* Clearing an interval, also a second time, counts its callback off.
LEMMA CountCancel ==
    ASSUME IInv, CountInv, NEW t \in Timers, cancel_timer_common(t)
    PROVE  CountInv'
<1> USE DEF IInv
<1>1. Repeat(t) /\ ~Immediate(t)
    <2>1. t \in Clearable
        BY CancelNamed, ZenonT(60)
    <2>2. Repeat(t)
        BY <2>1, ZenonT(60) DEF CountInv, CountedProgram
    <2>3. QED
        BY <2>2 DEF Repeat, Immediate
<1>2. Cancelled({t}) /\ cancel({t}, 0)
    BY <1>1, CancelExact, ZenonT(60)
<1>3. /\ callbacks' = callbacks \ {t} /\ registry' = registry \ {t}
      /\ running' = running /\ pc' = pc
    BY <1>2, ZenonT(60) DEF Cancelled
<1>4. t \in callbacks <=> t \in registry
    BY <1>1, ZenonT(60) DEF CountInv
<1>5. {t} \cap registry = {t} \cap callbacks
    BY <1>4, ZenonT(60)
<1>6. {t} \in SUBSET Timers
    OBVIOUS
<1>7. pending_ref_timers' = CountOff(pending_ref_timers, Cardinality({t} \cap callbacks) + 0)
    BY <1>2, <1>5, <1>6, CancelCount
<1>8. Cardinality({t} \cap callbacks) \in Nat
    <2>1. {t} \cap callbacks \in SUBSET Timers
        OBVIOUS
    <2>2. QED
        BY <2>1, TimersCardinality
<1>9. pending_ref_timers' = CountOff(pending_ref_timers, Cardinality({t} \cap callbacks))
    BY <1>7, <1>8
<1>10. callbacks' = callbacks \ ({t} \cap callbacks) /\ {t} \cap callbacks \in SUBSET callbacks
    BY <1>3
<1>11. TimerAccounting'
    BY <1>3, <1>8, <1>9, <1>10, CountOffSet, ZenonT(60) DEF CountInv
<1>12. QED
    BY <1>3, <1>11, ZenonT(60) DEF CountInv, CountedProgram, Repeat

\* Disposing a realm counts its intervals and its immediates off.
LEMMA CountRealm == ASSUME IInv, CountInv, cancel_timers_for_realm PROVE CountInv'
<1> USE DEF IInv
<1> DEFINE N == callbacks \cap Disposable
           I == {t \in N : Kind[t] = "immediate"}
<1>1. cancel(N, Cardinality(I))
    BY ZenonT(60) DEF cancel_timers_for_realm
<1>2. /\ callbacks' = callbacks \ N /\ registry' = registry \ N
      /\ running' = running /\ pc' = pc
    BY CancelRealm, ZenonT(60) DEF Cancelled
<1>3. callbacks \subseteq Timers /\ Kind \in [Timers -> TimerKinds]
    BY TimerAssumption DEF TypeOK
<1>4. \A t \in N : t \in Timers /\ t \in callbacks /\ Kind[t] # "timeout"
    BY <1>3, ZenonT(60) DEF CountInv, CountedProgram
<1>5. \A t \in N : Immediate(t) \/ Repeat(t)
    BY <1>3, <1>4 DEF Immediate, Repeat, TimerKinds
<1>6. \A t \in N : (t \in registry <=> Repeat(t)) /\ ~(Immediate(t) /\ Repeat(t))
    <2>1. \A t : ~(Immediate(t) /\ Repeat(t))
        BY DEF Immediate, Repeat
    <2>2. QED
        BY <1>4, <1>5, <2>1, ZenonT(60) DEF CountInv, KindInv
<1>7. N \cap registry \in SUBSET Timers /\ I \in SUBSET Timers /\ N \in SUBSET Timers
    BY <1>4, ZenonT(60)
<1>8. (N \cap registry) \cup I = N /\ (N \cap registry) \cap I = {}
    BY <1>4, <1>5, <1>6, ZenonT(60) DEF Immediate
<1> HIDE DEF N, I
<1>9. /\ IsFiniteSet(N \cap registry) /\ Cardinality(N \cap registry) \in Nat
      /\ IsFiniteSet(I) /\ Cardinality(I) \in Nat
    BY <1>7, TimersCardinality
<1>10. Cardinality(N) = Cardinality(N \cap registry) + Cardinality(I)
    <2>1. Cardinality((N \cap registry) \cup I)
          = Cardinality(N \cap registry) + Cardinality(I) - Cardinality((N \cap registry) \cap I)
        BY <1>9, FS_Union, ZenonT(60)
    <2>2. Cardinality({}) = 0
        BY FS_EmptySet
    <2>3. Cardinality(N) = Cardinality(N \cap registry) + Cardinality(I) - 0
        BY <1>8, <2>1, <2>2, ZenonT(60)
    <2>4. QED
        BY <1>9, <2>3
<1>11. pending_ref_timers' = CountOff(pending_ref_timers, Cardinality(N))
    BY <1>1, <1>7, <1>9, <1>10, CancelCount, ZenonT(60)
<1>12. N \in SUBSET callbacks /\ Cardinality(N) \in Nat
    <2>1. N \in SUBSET callbacks
        BY <1>4, ZenonT(60)
    <2>2. QED
        BY <2>1, <1>7, TimersCardinality
<1>13. TimerAccounting'
    BY <1>2, <1>11, <1>12, CountOffSet, ZenonT(60) DEF CountInv
<1>14. QED
    BY <1>2, <1>13, ZenonT(60) DEF CountInv, CountedProgram, Repeat

\* A one-shot that starts leaves the table and stays counted.
LEMMA CountFire == ASSUME IInv, CountInv, fire_timer PROVE CountInv'
<1> USE DEF IInv
<1> DEFINE h == Head(inbox)
<1>1. pc \in {"idle", "block"} /\ pending_ref_timers' = pending_ref_timers /\ registry' = registry
    BY ZenonT(60) DEF fire_timer, runnerFrame, tokioVars
<1>2. pc # "js"
    BY <1>1
<1>3. running = None
    BY <1>2, ZenonT(60) DEF CountInv
<1>4. h \in Timers
    BY FireFrame
<1>5. h # None
    BY <1>4, TimerAssumption
<1>6. CASE h \notin callbacks
    <2>1. callbacks' = callbacks /\ running' = running
        BY <1>6, ZenonT(60) DEF fire_timer
    <2>2. TimerAccounting'
        BY <1>1, <2>1, CountKept, ZenonT(60) DEF CountInv
    <2>3. QED
        BY <1>1, <1>3, <2>1, <2>2, ZenonT(60) DEF CountInv, CountedProgram, Repeat
<1>7. CASE h \in callbacks /\ Repeat(h)
    <2>1. callbacks' = callbacks /\ running' = h /\ pc' = "js"
        BY <1>7, ZenonT(60) DEF fire_timer
    <2>2. RunningOneShot' = 0 /\ RunningOneShot = 0
        BY <1>3, <1>7, <2>1, OneShot, ZenonT(60)
    <2>3. TimerAccounting'
        BY <1>1, <2>1, <2>2, ZenonT(60) DEF CountInv, TimerAccounting
    <2>4. QED
        BY <1>1, <2>1, <2>3, ZenonT(60) DEF CountInv, CountedProgram, Repeat
<1>8. CASE h \in callbacks /\ ~Repeat(h)
    <2>1. callbacks' = callbacks \ {h} /\ running' = h /\ pc' = "js"
        BY <1>8, ZenonT(60) DEF fire_timer
    <2>2. RunningOneShot' = 1 /\ RunningOneShot = 0
        BY <1>3, <1>5, <1>8, <2>1, OneShot, ZenonT(60)
    <2>3. /\ Cardinality(callbacks \ {h}) = Cardinality(callbacks) - 1
          /\ Cardinality(callbacks) \in Nat
        BY <1>8, CallbacksCardinality, OneElement, ZenonT(60)
    <2>4. pending_ref_timers = Cardinality(callbacks) + 0
        BY <2>2, ZenonT(60) DEF CountInv, TimerAccounting
    <2>5. pending_ref_timers' = Cardinality(callbacks \ {h}) + 1
        BY <1>1, <2>3, <2>4
    <2>6. TimerAccounting'
        BY <2>1, <2>2, <2>5, ZenonT(60) DEF TimerAccounting
    <2>7. \A u \in Timers : Repeat(u) => (u \in callbacks' <=> u \in registry')
        BY <1>1, <1>8, <2>1, ZenonT(60) DEF CountInv
    <2>8. QED
        BY <2>1, <2>6, <2>7, ZenonT(60) DEF CountInv, CountedProgram, Repeat
<1>9. QED
    BY <1>6, <1>7, <1>8

\* The end of a callback counts a one-shot off, whether it returned or threw.
LEMMA CountCallback ==
    ASSUME IInv, CountInv, callback_returns \/ callback_throws
    PROVE  CountInv'
<1> USE DEF IInv
<1>1. /\ running' = None /\ callbacks' = callbacks /\ registry' = registry
    BY ZenonT(60) DEF callback_returns, callback_throws, runnerFrame, tokioVars
<1>2. RunningOneShot' = 0
    BY <1>1, OneShot, ZenonT(60)
<1>3. Cardinality(callbacks) \in Nat
    BY CallbacksCardinality
<1>4. pending_ref_timers = Cardinality(callbacks) + RunningOneShot
    BY ZenonT(60) DEF CountInv, TimerAccounting
<1>5. running # None
    BY TimerAssumption DEF callback_returns, callback_throws
<1>6. CASE Repeat(running)
    <2>1. pending_ref_timers' = pending_ref_timers /\ RunningOneShot = 0
        <3>1. ~callback_throws
            BY <1>6, ZenonT(60) DEF callback_throws, CountInv, CountedProgram
        <3>2. QED
            BY <1>6, <3>1, OneShot, ZenonT(60) DEF callback_returns
    <2>2. TimerAccounting'
        BY <1>1, <1>2, <1>4, <2>1, ZenonT(60) DEF TimerAccounting
    <2>3. QED
        BY <1>1, <2>2, ZenonT(60) DEF CountInv, CountedProgram, Repeat
<1>7. CASE ~Repeat(running)
    <2>1. pending_ref_timers' = Saturating(pending_ref_timers) /\ RunningOneShot = 1
        BY <1>5, <1>7, OneShot, ZenonT(60) DEF callback_returns, callback_throws
    <2>2. pending_ref_timers' = Cardinality(callbacks) + 0
        BY <1>3, <1>4, <2>1 DEF Saturating
    <2>3. TimerAccounting'
        BY <1>1, <1>2, <2>2, ZenonT(60) DEF TimerAccounting
    <2>4. QED
        BY <1>1, <2>3, ZenonT(60) DEF CountInv, CountedProgram, Repeat
<1>8. QED
    BY <1>6, <1>7

\* No other step touches the counter, the table or the running callback.
LEMMA CountOther ==
    ASSUME IInv, CountInv,
           \/ UNCHANGED vars
           \/ \E t \in Timers : Tokio(t)
           \/ run_script \/ script_returns \/ script_throws \/ drive_event_loop_to_idle
    PROVE  CountInv'
<1> USE DEF IInv
<1>1. /\ pending_ref_timers' = pending_ref_timers /\ callbacks' = callbacks /\ running' = running
    BY ZenonT(60) DEF vars, vmVars, loopVars, Tokio, abort_observed, sleep_elapsed, deregister,
       timer_fired, redeliver, run_script, script_returns, script_throws, drive_event_loop_to_idle
<1>2. TimerAccounting'
    BY <1>1, CountKept, ZenonT(60) DEF CountInv
<1>3. \A u \in Timers : Repeat(u) => (u \in registry' <=> u \in registry)
    <2>1. ASSUME NEW t \in Timers, deregister(t) PROVE ~Repeat(t) /\ registry' = registry \ {t}
        BY <2>1, ZenonT(60) DEF deregister, KindInv
    <2>2. ASSUME NEW t \in Timers, Tokio(t), ~deregister(t) PROVE registry' = registry
        BY <2>2, ZenonT(60) DEF Tokio, abort_observed, sleep_elapsed, timer_fired, redeliver, tokioVars
    <2>3. ASSUME UNCHANGED vars \/ run_script \/ script_returns \/ script_throws \/ drive_event_loop_to_idle
          PROVE  registry' = registry
        BY <2>3, ZenonT(60) DEF vars, run_script, script_returns, script_throws,
           drive_event_loop_to_idle, runnerFrame, tokioVars
    <2>4. QED
        BY <2>1, <2>2, <2>3, ZenonT(60)
<1>4. running # None => pc' = "js"
    <2>1. running # None => pc = "js"
        BY ZenonT(60) DEF CountInv
    <2>2. pc = "js" /\ running # None => pc' = pc \/ pc' = "js"
        BY DEF vars, vmVars, loopVars, Tokio, abort_observed, sleep_elapsed, deregister,
           timer_fired, redeliver, run_script, script_returns, script_throws, drive_event_loop_to_idle
    <2>3. QED
        BY <2>1, <2>2, ZenonT(60)
<1>5. QED
    BY <1>1, <1>2, <1>3, <1>4, ZenonT(60) DEF CountInv, CountedProgram, Repeat

\* The counter stays exact.
LEMMA CountStep == IInv /\ CountInv /\ [Next]_vars => CountInv'
<1> SUFFICES ASSUME IInv, CountInv, [Next]_vars PROVE CountInv'
    OBVIOUS
<1>1. ASSUME NEW t \in Timers, schedule_timer_common(t)
      PROVE  ScheduleImmediate(t) \/ ScheduleTask(t)
    BY <1>1, ZenonT(60) DEF schedule_timer_common, ScheduleImmediate, ScheduleTask
<1>2. QED
    BY <1>1, CountSchedule, CountCancel, CountRealm, CountFire, CountCallback, CountOther, ZenonT(60)
       DEF Next, Native, Runner

\* pending_ref_timers is the number of timers that can still run, through every
\* interleaving of natives, Tokio tasks, redelivery and callbacks, for programs
\* that keep to CountedProgram; outside of it the code counts some timers twice
\* or never.
THEOREM TimersAreCounted ==
    ASSUME CountedProgram
    PROVE  Spec => []TimerAccounting
<1>1. CountedProgram /\ Init => CountInv
    <2>1. Init => TimerAccounting
        <3>1. Cardinality({}) = 0
            BY FS_EmptySet
        <3>2. QED
            BY <3>1 DEF Init, TimerAccounting, RunningOneShot
    <2>2. QED
        BY <2>1, ZenonT(60) DEF Init, CountInv
<1>2. CountInv => TimerAccounting
    BY DEF CountInv
<1>3. QED
    BY <1>1, <1>2, CountStep, Invariant, PTL DEF Spec
=============================================================================
