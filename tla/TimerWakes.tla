----------------------------- MODULE TimerWakes -----------------------------
(***************************************************************************)
(* setTimeout, setInterval, setImmediate and their clear functions across   *)
(* three owners: the per-isolate TimerCallbacks table (otter-vm timers.rs), *)
(* the Tokio timer tasks and their registry (event_loop.rs), and the inbox  *)
(* scheduler with its liveness counter (handle.rs). A command's reply waits *)
(* for pending_ref_timers to be zero, so every path has to count each timer *)
(* exactly once.                                                            *)
(*                                                                          *)
(* Shutdown is modelled in IsolateRunner; here the isolate stays alive.     *)
(***************************************************************************)
EXTENDS Naturals, Sequences, FiniteSets

CONSTANTS
    Timers,                \* timers a program creates
    Kind,                  \* [Timers -> TimerKinds]
    Clearable,             \* timers whose id the program passes to a clear function
    Throwing,              \* timers whose callback may throw
    Disposable,            \* timers scheduled from a realm that may be disposed
    Scripts,               \* bound: number of run commands
    Capacity,              \* bound of the inbox
    FIRST_IMMEDIATE_TOKEN, \* 2^63 in the code
    Ulp,                   \* spacing of doubles from there on: 2048 in the code
    None

TimerKinds == {"immediate", "timeout", "interval"}

ASSUME TimerAssumption ==
    /\ IsFiniteSet(Timers)
    /\ None \notin Timers
    /\ Kind \in [Timers -> TimerKinds]
    /\ Clearable \subseteq Timers
    /\ Throwing \subseteq Timers
    /\ Disposable \subseteq Timers
    /\ Scripts \in Nat
    /\ Capacity \in Nat \ {0}
    /\ FIRST_IMMEDIATE_TOKEN \in Nat
    /\ Ulp \in Nat \ {0}
    /\ Cardinality(Timers) < FIRST_IMMEDIATE_TOKEN

VARIABLES
    token,              \* token the scheduler returned for a timer, 0 before
    next_timer,         \* TokioEventLoop::next_timer
    next_immediate_token,
    callbacks,          \* timers with an entry in TimerCallbacks
    registry,           \* timers with a join handle in TokioEventLoop::timers
    task,               \* where each Tokio timer task is
    aborted,            \* tasks whose join handle was aborted
    inbox,              \* TimerFired messages, by timer
    retry,              \* TimerFired messages a redelivery task holds
    retried,            \* history: timers whose wake met a full inbox
    pending_ref_timers,
    pc,                 \* the isolate thread
    driving,            \* inside drive_event_loop_to_idle
    running,            \* the timer whose callback runs
    scripts,            \* run commands started so far
    cleared,            \* history: timers the program cleared
    ran                 \* history: timers whose callback ran

tokioVars == <<registry, task, aborted>>
vmVars == <<token, next_timer, next_immediate_token, callbacks, cleared>>
retryVars == <<retry, retried>>
loopVars == <<pc, driving, running, scripts, ran>>
vars == <<vmVars, tokioVars, inbox, retryVars, pending_ref_timers, loopVars>>

Repeat(t) == Kind[t] = "interval"
Tasks == {"none", "sleeping", "expired", "posting", "finished"}

\* Type correctness; in particular the inbox stays within its bound however
\* many wakes are posted at once.
TypeOK ==
    /\ token \in [Timers -> Nat]
    /\ next_timer \in Nat /\ next_immediate_token \in Nat
    /\ callbacks \subseteq Timers /\ registry \subseteq Timers
    /\ task \in [Timers -> Tasks]
    /\ aborted \subseteq Timers
    /\ inbox \in Seq(Timers) /\ Len(inbox) <= Capacity
    /\ retry \subseteq Timers /\ retried \subseteq Timers
    /\ pending_ref_timers \in Nat
    /\ pc \in {"idle", "js", "drive", "block"}
    /\ driving \in BOOLEAN
    /\ running \in Timers \cup {None}
    /\ scripts \in 0..Scripts
    /\ cleared \subseteq Timers /\ ran \subseteq Timers

Init ==
    /\ token = [t \in Timers |-> 0]
    /\ next_timer = 1
    /\ next_immediate_token = FIRST_IMMEDIATE_TOKEN
    /\ callbacks = {} /\ registry = {}
    /\ task = [t \in Timers |-> "none"]
    /\ aborted = {}
    /\ inbox = <<>> /\ retry = {} /\ retried = {}
    /\ pending_ref_timers = 0
    /\ pc = "idle" /\ driving = FALSE /\ running = None
    /\ scripts = 0
    /\ cleared = {} /\ ran = {}

-----------------------------------------------------------------------------
(* The id JavaScript sees: Value::number_f64(token as f64), and back.       *)

\* u64 as f64 rounds to the nearest multiple of Ulp, ties to even; tokens of
\* Tokio timers are small enough to be exact.
number_f64(n) ==
    IF n < FIRST_IMMEDIATE_TOKEN THEN n
    ELSE LET d == n - FIRST_IMMEDIATE_TOKEN
             q == d \div Ulp
             r == d % Ulp
             up == 2 * r > Ulp \/ (2 * r = Ulp /\ q % 2 = 1)
         IN FIRST_IMMEDIATE_TOKEN + Ulp * (IF up THEN q + 1 ELSE q)

\* checked_sub(1) on the counter.
Saturating(n) == IF n = 0 THEN 0 ELSE n - 1

-----------------------------------------------------------------------------
(* Natives, on the isolate thread.                                          *)

Full == Len(inbox) >= Capacity

\* Mutant of Post: a full inbox loses the wake.
Post_drops(t) == IF Full THEN UNCHANGED <<inbox, retryVars>>
                   ELSE inbox' = Append(inbox, t) /\ UNCHANGED retryVars

\* post_internal_message of a one-shot wake: a full inbox hands the message to
\* a redelivery task.
Post(t) == IF Full THEN /\ retry' = retry \cup {t}
                         /\ retried' = retried \cup {t}
                         /\ UNCHANGED inbox
                   ELSE inbox' = Append(inbox, t) /\ UNCHANGED retryVars

\* Mutant of schedule_immediate: sleep(0) on a Tokio task.
schedule_immediate_sleeps(t) ==
    /\ Kind[t] = "immediate"
    /\ token' = [token EXCEPT ![t] = next_immediate_token]
    /\ next_immediate_token' = next_immediate_token + 1
    /\ registry' = registry \cup {t}
    /\ task' = [task EXCEPT ![t] = "sleeping"]
    /\ UNCHANGED <<next_timer, inbox, retryVars, aborted>>

\* setTimeout(f, 0) and setImmediate: the wake goes straight to the inbox.
schedule_immediate(t) ==
    /\ Kind[t] = "immediate"
    /\ token' = [token EXCEPT ![t] = next_immediate_token]
    /\ next_immediate_token' = next_immediate_token + 1
    /\ Post(t)
    /\ UNCHANGED <<next_timer, tokioVars>>

\* Anything else becomes a Tokio task that starts once it is registered.
schedule_timer_task(t) ==
    /\ Kind[t] # "immediate"
    /\ token' = [token EXCEPT ![t] = next_timer]
    /\ next_timer' = next_timer + 1
    /\ registry' = registry \cup {t}
    /\ task' = [task EXCEPT ![t] = "sleeping"]
    /\ UNCHANGED <<next_immediate_token, inbox, retryVars, aborted>>

schedule_timer_common(t) ==
    /\ pc = "js"
    /\ token[t] = 0
    /\ pending_ref_timers' = pending_ref_timers + 1
    /\ schedule_immediate(t) \/ schedule_timer_task(t)
    /\ callbacks' = callbacks \cup {t}
    /\ UNCHANGED <<cleared, loopVars>>

\* InboxTimerScheduler::cancel of the timers in T, each by its token.
CountOff(n, k) == IF k > n THEN 0 ELSE n - k

cancel(T, immediates) ==
    LET known == T \cap registry
    IN /\ pending_ref_timers' =
             CountOff(pending_ref_timers, Cardinality(known) + immediates)
       /\ registry' = registry \ known
       /\ aborted' = aborted \cup known

\* Mutant of cancel_timer_common: the entry stays in TimerCallbacks.
cancel_keeps_entry(t) ==
    /\ pc = "js"
    /\ t \in Clearable /\ token[t] # 0
    /\ LET id == number_f64(token[t])
           named == {u \in Timers : token[u] = id}
       IN /\ UNCHANGED callbacks
          /\ cancel(named, IF id >= FIRST_IMMEDIATE_TOKEN THEN 1 ELSE 0)
    /\ cleared' = cleared \cup {t}
    /\ UNCHANGED <<token, next_timer, next_immediate_token, task, inbox, retryVars,
                   loopVars>>

\* clearTimeout, clearInterval or clearImmediate with the id returned for t.
\* An immediate token is counted off without asking whether it is outstanding.
cancel_timer_common(t) ==
    /\ pc = "js"
    /\ t \in Clearable /\ token[t] # 0
    /\ LET id == number_f64(token[t])
           named == {u \in Timers : token[u] = id}
       IN /\ callbacks' = callbacks \ named
          /\ cancel(named, IF id >= FIRST_IMMEDIATE_TOKEN THEN 1 ELSE 0)
    /\ cleared' = cleared \cup {t}
    /\ UNCHANGED <<token, next_timer, next_immediate_token, task, inbox, retryVars,
                   loopVars>>

\* dispose_realm, a command of its own: forget the realm's callbacks and cancel
\* their tokens.
cancel_timers_for_realm ==
    /\ pc = "idle"
    /\ callbacks \cap Disposable # {}
    /\ LET T == callbacks \cap Disposable
       IN /\ callbacks' = callbacks \ T
          /\ cancel(T, Cardinality({t \in T : Kind[t] = "immediate"}))
          /\ cleared' = cleared \cup T
    /\ UNCHANGED <<token, next_timer, next_immediate_token, task, inbox, retryVars,
                   loopVars>>

-----------------------------------------------------------------------------
(* Tokio workers.                                                           *)

\* A task aborted while it sleeps ends at that await point.
abort_observed(t) ==
    /\ t \in aborted /\ task[t] = "sleeping"
    /\ task' = [task EXCEPT ![t] = "finished"]
    /\ UNCHANGED <<vmVars, registry, aborted, inbox, retryVars, pending_ref_timers, loopVars>>

\* The delay elapses; from here to its next await the task cannot be aborted.
sleep_elapsed(t) ==
    /\ task[t] = "sleeping" /\ t \notin aborted
    /\ task' = [task EXCEPT ![t] = IF Repeat(t) THEN "posting" ELSE "expired"]
    /\ UNCHANGED <<vmVars, registry, aborted, inbox, retryVars, pending_ref_timers, loopVars>>

\* Mutant of deregister: the task ends once it left the registry.
deregister_finishes(t) ==
    /\ task[t] = "expired"
    /\ registry' = registry \ {t}
    /\ task' = [task EXCEPT ![t] = "finished"]
    /\ UNCHANGED <<vmVars, aborted, inbox, retryVars, pending_ref_timers, loopVars>>

\* A one-shot task takes itself out of the registry first ...
deregister(t) ==
    /\ task[t] = "expired"
    /\ registry' = registry \ {t}
    /\ task' = [task EXCEPT ![t] = "posting"]
    /\ UNCHANGED <<vmVars, aborted, inbox, retryVars, pending_ref_timers, loopVars>>

\* ... and then posts. An interval tick that finds the inbox full is dropped.
timer_fired(t) ==
    /\ task[t] = "posting"
    /\ IF Repeat(t)
       THEN /\ inbox' = IF Full THEN inbox ELSE Append(inbox, t)
            /\ task' = [task EXCEPT ![t] = "sleeping"]
            /\ UNCHANGED retryVars
       ELSE /\ Post(t)
            /\ task' = [task EXCEPT ![t] = "finished"]
    /\ UNCHANGED <<vmVars, registry, aborted, pending_ref_timers, loopVars>>

redeliver(t) ==
    /\ t \in retry /\ ~Full
    /\ inbox' = Append(inbox, t)
    /\ retry' = retry \ {t}
    /\ UNCHANGED <<retried, vmVars, tokioVars, pending_ref_timers, loopVars>>

-----------------------------------------------------------------------------
(* The isolate runner.                                                      *)

runnerFrame == UNCHANGED <<token, next_timer, next_immediate_token, cleared,
                           tokioVars, retryVars>>

run_script ==
    /\ pc = "idle" /\ scripts < Scripts
    /\ scripts' = scripts + 1
    /\ pc' = "js" /\ driving' = TRUE
    /\ UNCHANGED <<callbacks, inbox, pending_ref_timers, running, ran>>
    /\ runnerFrame

script_returns ==
    /\ pc = "js" /\ running = None
    /\ pc' = "drive"
    /\ UNCHANGED <<callbacks, inbox, pending_ref_timers, driving, running, scripts, ran>>
    /\ runnerFrame

\* An error is the reply at once; the timers the script armed stay armed.
script_throws ==
    /\ pc = "js" /\ running = None
    /\ pc' = "idle" /\ driving' = FALSE
    /\ UNCHANGED <<callbacks, inbox, pending_ref_timers, running, scripts, ran>>
    /\ runnerFrame

\* drive_event_loop_to_idle loads the counter: zero releases the reply.
drive_event_loop_to_idle ==
    /\ pc = "drive"
    /\ IF pending_ref_timers = 0
       THEN pc' = "idle" /\ driving' = FALSE
       ELSE pc' = "block" /\ UNCHANGED driving
    /\ UNCHANGED <<callbacks, inbox, pending_ref_timers, running, scripts, ran>>
    /\ runnerFrame

\* TimerFired: fire_timer looks the callback up; a missing entry is a no-op, a
\* one-shot entry is removed before its callback runs.
fire_timer ==
    /\ pc \in {"idle", "block"}
    /\ inbox # <<>>
    /\ inbox' = Tail(inbox)
    /\ LET t == Head(inbox)
       IN IF t \in callbacks
          THEN /\ callbacks' = IF Repeat(t) THEN callbacks ELSE callbacks \ {t}
               /\ running' = t
               /\ ran' = ran \cup {t}
               /\ pc' = "js"
          ELSE /\ pc' = IF driving THEN "drive" ELSE "idle"
               /\ UNCHANGED <<callbacks, running, ran>>
    /\ UNCHANGED <<pending_ref_timers, driving, scripts>>
    /\ runnerFrame

\* The callback returned: a one-shot is counted off, an interval stays counted.
callback_returns ==
    /\ pc = "js" /\ running # None
    /\ pending_ref_timers' = IF Repeat(running) THEN pending_ref_timers
                             ELSE Saturating(pending_ref_timers)
    /\ running' = None
    /\ pc' = IF driving THEN "drive" ELSE "idle"
    /\ UNCHANGED <<callbacks, inbox, driving, scripts, ran>>
    /\ runnerFrame

\* Mutant of callback_throws: a throwing callback keeps its count.
callback_throws_uncounted ==
    /\ pc = "js" /\ running \in Throwing
    /\ UNCHANGED pending_ref_timers
    /\ running' = None
    /\ pc' = IF driving THEN "drive" ELSE "idle"
    /\ UNCHANGED <<callbacks, inbox, driving, scripts, ran>>
    /\ runnerFrame

\* The callback threw: the count is given back whatever the timer's kind.
callback_throws ==
    /\ pc = "js" /\ running \in Throwing
    /\ pending_ref_timers' = Saturating(pending_ref_timers)
    /\ running' = None
    /\ pc' = IF driving THEN "drive" ELSE "idle"
    /\ UNCHANGED <<callbacks, inbox, driving, scripts, ran>>
    /\ runnerFrame

-----------------------------------------------------------------------------
Tokio(t) == \/ abort_observed(t) \/ sleep_elapsed(t) \/ deregister(t)
            \/ timer_fired(t) \/ redeliver(t)
Native(t) == schedule_timer_common(t) \/ cancel_timer_common(t)
Runner == \/ script_returns \/ script_throws \/ drive_event_loop_to_idle \/ fire_timer
          \/ callback_returns \/ callback_throws

Next == \/ \E t \in Timers : Native(t) \/ Tokio(t)
        \/ Runner \/ run_script \/ cancel_timers_for_realm

Spec == Init /\ [][Next]_vars

\* The isolate thread runs, callbacks return, and Tokio schedules its tasks.
FairSpec ==
    /\ Spec
    /\ WF_vars(Runner)
    /\ \A t \in Timers :
          /\ WF_vars(sleep_elapsed(t)) /\ WF_vars(deregister(t))
          /\ WF_vars(timer_fired(t)) /\ WF_vars(redeliver(t))

-----------------------------------------------------------------------------
(* Properties.                                                              *)

\* The one-shot whose callback is running is still counted.
RunningOneShot == IF running # None /\ ~Repeat(running) THEN 1 ELSE 0

\* The liveness counter is exact: one for each timer that can still run.
TimerAccounting == pending_ref_timers = Cardinality(callbacks) + RunningOneShot

\* "Referenced work keeps run_until_idle alive": a reply is released only when
\* no timer can still run.
LiveTimerKeepsLoopAlive == callbacks # {} => pending_ref_timers > 0

\* "run_until_idle: run referenced work until the runtime is idle": once no
\* timer can run any more, none is counted.
NoPhantomTimer == (callbacks = {} /\ running = None) => pending_ref_timers = 0

\* "Cancellation deletes the entry from TimerCallbacks so a late TimerFired
\* becomes a no-op rather than running a stale callback."
ClearedNeverRuns ==
    [][\A t \in cleared : running' = t => running = t]_vars

\* "multiple setTimeout(..., 0) calls fire in FIFO scheduling order": only a
\* wake that met a full inbox can be overtaken.
ImmediateFifo ==
    \A t, u \in Timers :
        (/\ Kind[t] = "immediate" /\ Kind[u] = "immediate"
         /\ token[t] # 0 /\ token[t] < token[u] /\ u \in ran)
        => t \in ran \cup cleared \cup retried

\* An armed one-shot is always on its way: asleep, being posted, in the inbox or
\* held by a redelivery task. No wake is lost under inbox pressure.
WakeOnItsWay ==
    \A t \in callbacks :
        ~Repeat(t) => \/ task[t] \in {"sleeping", "expired", "posting"}
                      \/ t \in retry
                      \/ \E i \in 1..Len(inbox) : inbox[i] = t

\* An interval is armed: its ticks go on for as long as it is.
Ticking == \E t \in callbacks : Repeat(t)

\* Every one-shot timer that is not cleared runs, unless the ticks of an
\* interval keep the inbox full whenever its redelivery task looks.
TimerRuns ==
    \A t \in Timers :
        (token[t] # 0 /\ ~Repeat(t)) ~> (t \in ran \cup cleared \/ (t \in retry /\ Ticking))

\* A program gets its reply once it has no interval left: the event loop it
\* waits for becomes idle, whichever callbacks throw.
ReplyReleased == (pc = "drive") ~> (pc = "idle" \/ Ticking)
=============================================================================
