------------------------------ MODULE Workers -------------------------------
(***************************************************************************)
(* The Worker global (worker.rs): a parent isolate, one thread per worker,  *)
(* a command channel and an event channel between them, the 1 ms interval   *)
(* that polls a worker's events in the parent, and termination, which sends *)
(* Shutdown, sets the interrupt flag, cancels every Atomics.wait of the     *)
(* process and joins the thread where the last Arc of the record is dropped.*)
(*                                                                         *)
(* The program's own code is nondeterministic: a script or a handler of a  *)
(* worker may post, close, wait, throw, return or run for ever.  Messages  *)
(* are numbered by their sender.                                           *)
(***************************************************************************)
EXTENDS Naturals, Sequences, FiniteSets, Functions

CONSTANTS
    WorkerIds,  \* workers the parent may start, each once
    Buffers,    \* ArrayBuffers the parent may transfer
    Raw,        \* those started by __otter_worker_spawn
    MaxPosts,   \* bound: messages each worker posts
    MaxSends,   \* bound: messages the parent posts to each
    None

ASSUME WorkersAssumption ==
    /\ IsFiniteSet(WorkerIds) /\ None \notin WorkerIds
    /\ Raw \subseteq WorkerIds
    /\ MaxPosts \in [WorkerIds -> Nat] /\ MaxSends \in [WorkerIds -> Nat]

VARIABLES
    registry,   \* WorkerHostState::workers
    poll,       \* Worker objects whose __otterPoll interval is set
    agenda,     \* what the parent thread has still to do in the current native
    polling,    \* the worker whose poll callback runs, holding an Arc
    batch,      \* events that callback drained and has not dispatched
    host,       \* whether the parent's WorkerHostState lives
    terminated, \* WorkerRecord::terminated
    interrupt,  \* WorkerRecord::interrupt
    cancelled,  \* waits that cancel_all_waiters cancelled
    thread,     \* where run_js_worker is
    closed,     \* its closed flag
    cmds,       \* command channel: [msg, buf], msg = 0 for Shutdown
    events,     \* event channel: [id, kind]
    home,       \* per buffer, the worker it was transferred to, or None
    posted,     \* messages posted to each worker
    handled,    \* history: messages each worker received, in order
    sent,       \* events each worker sent
    posts,      \* messages each worker's program posted
    taken,      \* history: events the parent took, in order
    lost        \* history: workers of which a batch was abandoned

parentVars == <<registry, poll, agenda, polling, batch, host>>
recordVars == <<terminated, interrupt, cancelled>>
threadVars == <<thread, closed>>
chanVars == <<cmds, events, home>>
histVars == <<posted, handled, sent, posts, taken, lost>>
vars == <<parentVars, recordVars, threadVars, chanVars, histVars>>

JsStates == {"entry", "handling"}
Waits == {"entry_wait", "handler_wait"}
ThreadStates ==
    {"none", "starting", "installing", "receiving", "stillborn", "done"} \cup JsStates \cup Waits
EventKinds == {"message", "error", "messageerror", "close"}
Ops == {"insert", "setInterval", "terminate", "interrupt", "cancel", "join"}
Step(op, w) == [op |-> op, worker |-> w]
Steps == [op : Ops, worker : WorkerIds]
Commands == [msg : Nat, buf : Buffers \cup {None}]
Events == [id : Nat, kind : EventKinds]

Ended(w) == thread[w] \in {"stillborn", "done"}

(***************************************************************************)
(* The parent.  Its program runs between natives, in a turn of its own or  *)
(* inside an event handler; agenda is empty then.                          *)
(***************************************************************************)
Js == host /\ agenda = <<>>

\* The events es are in the hands of the parent.
Take(w, es) == taken' = [taken EXCEPT ![w] = @ \o es]

\* spawn_worker_record starts the thread and blocks on the interrupt handle;
\* the constructor then installs the poll interval.
worker_constructor_call(w) ==
    /\ Js /\ w \notin Raw /\ thread[w] = "none"
    /\ thread' = [thread EXCEPT ![w] = "starting"]
    /\ agenda' = <<Step("insert", w), Step("setInterval", w)>>
    /\ UNCHANGED <<registry, poll, polling, batch, host, recordVars, closed, chanVars, histVars>>

\* __otter_worker_spawn: the same, without the interval.
worker_spawn_call(w) ==
    /\ Js /\ w \in Raw /\ thread[w] = "none"
    /\ thread' = [thread EXCEPT ![w] = "starting"]
    /\ agenda' = <<Step("insert", w)>>
    /\ UNCHANGED <<registry, poll, polling, batch, host, recordVars, closed, chanVars, histVars>>

\* interrupt_rx.recv fails when the runtime could not be built: the native
\* throws and nothing is registered.
insert(w) ==
    /\ agenda # <<>> /\ Head(agenda) = Step("insert", w)
    /\ thread[w] # "starting"
    /\ IF thread[w] = "stillborn"
       THEN agenda' = <<>> /\ UNCHANGED registry
       ELSE agenda' = Tail(agenda) /\ registry' = registry \cup {w}
    /\ UNCHANGED <<poll, polling, batch, host, recordVars, threadVars, chanVars, histVars>>

install_worker_poll_timer(w) ==
    /\ agenda # <<>> /\ Head(agenda) = Step("setInterval", w)
    /\ agenda' = Tail(agenda)
    /\ poll' = poll \cup {w}
    /\ UNCHANGED <<registry, polling, batch, host, recordVars, threadVars, chanVars, histVars>>

\* Mutant of Running: a terminated worker still takes messages.
Running_ever(w) == thread[w] \notin {"none", "starting", "stillborn"}

Running(w) == w \in registry /\ ~terminated[w]

\* Mutant of Detached: detached before the value is cloned.
Detached_first(b, w, cloneable) == b # None

\* The transfer list is validated and the value cloned before anything is
\* detached; the buffer is detached before the send, which fails when the
\* thread has dropped its receiver.
Detached(b, w, cloneable) == b # None /\ cloneable

\* postMessage of a Worker object and __otter_worker_post_message.
worker_post_message_call(w, b, cloneable) ==
    /\ Js /\ Running(w) /\ posted[w] < MaxSends[w]
    /\ b # None => home[b] = None
    /\ home' = IF Detached(b, w, cloneable) THEN [home EXCEPT ![b] = w] ELSE home
    /\ IF cloneable /\ ~Ended(w)
       THEN /\ cmds' = [cmds EXCEPT ![w] = Append(@, [msg |-> posted[w] + 1, buf |-> b])]
            /\ posted' = [posted EXCEPT ![w] = @ + 1]
       ELSE UNCHANGED <<cmds, posted>>
    /\ UNCHANGED <<parentVars, recordVars, threadVars, events, handled, sent, posts, taken, lost>>

\* Mutant of Drop: the thread is not joined.
Drop_detached(w) == <<>>

\* Drop for WorkerRecord, unless the poll callback still holds it.
Drop(w) == IF w = polling THEN <<>> ELSE <<Step("join", w)>>

\* Worker.terminate: clears the interval and removes the record.
terminate(w) ==
    /\ Js /\ w \in registry \ Raw
    /\ poll' = poll \ {w}
    /\ registry' = registry \ {w}
    /\ agenda' = <<Step("terminate", w)>> \o Drop(w)
    /\ UNCHANGED <<polling, batch, host, recordVars, threadVars, chanVars, histVars>>

\* __otter_worker_terminate.
worker_terminate_call(w) ==
    /\ Js /\ w \in registry \cap Raw
    /\ registry' = registry \ {w}
    /\ agenda' = <<Step("terminate", w)>> \o Drop(w)
    /\ UNCHANGED <<poll, polling, batch, host, recordVars, threadVars, chanVars, histVars>>

\* The orders in which a table of the workers S may be iterated.
Orders(S) == UNION {Bijection(1..n, S) : n \in 0..Cardinality(WorkerIds)}

\* Drop for WorkerHostState: terminates every worker, then joins every one.
drop_host ==
    /\ Js /\ polling = None
    /\ host' = FALSE
    /\ \E ws \in Orders(registry) :
           agenda' = [i \in DOMAIN ws |-> Step("terminate", ws[i])]
                     \o [i \in DOMAIN ws |-> Step("join", ws[i])]
    /\ registry' = {} /\ poll' = {}
    /\ UNCHANGED <<polling, batch, recordVars, threadVars, chanVars, histVars>>

\* Mutant of Terminate: the flag is not set.
Terminate_uninterrupted(w) == <<Step("cancel", w)>>

\* The rest of WorkerRecord::terminate.
Terminate(w) == <<Step("interrupt", w), Step("cancel", w)>>

\* terminate has swapped the flag, which only this thread uses.
send_shutdown(w) ==
    /\ agenda # <<>> /\ Head(agenda) = Step("terminate", w)
    /\ agenda' = Terminate(w) \o Tail(agenda)
    /\ terminated' = [terminated EXCEPT ![w] = TRUE]
    /\ cmds' = IF Ended(w) THEN cmds
               ELSE [cmds EXCEPT ![w] = Append(@, [msg |-> 0, buf |-> None])]
    /\ UNCHANGED <<registry, poll, polling, batch, host, interrupt, cancelled, threadVars,
                   events, home, histVars>>

set_interrupt(w) ==
    /\ agenda # <<>> /\ Head(agenda) = Step("interrupt", w)
    /\ agenda' = Tail(agenda)
    /\ interrupt' = [interrupt EXCEPT ![w] = TRUE]
    /\ UNCHANGED <<registry, poll, polling, batch, host, terminated, cancelled, threadVars,
                   chanVars, histVars>>

\* Every wait of the process, of whichever worker.
cancel_all_waiters(w) ==
    /\ agenda # <<>> /\ Head(agenda) = Step("cancel", w)
    /\ agenda' = Tail(agenda)
    /\ cancelled' = [u \in WorkerIds |-> cancelled[u] \/ thread[u] \in Waits]
    /\ UNCHANGED <<registry, poll, polling, batch, host, terminated, interrupt, threadVars,
                   chanVars, histVars>>

\* The record goes after the join, and with it the receiver of its events.
join(w) ==
    /\ agenda # <<>> /\ Head(agenda) = Step("join", w)
    /\ Ended(w)
    /\ agenda' = Tail(agenda)
    /\ events' = [events EXCEPT ![w] = <<>>]
    /\ UNCHANGED <<registry, poll, polling, batch, host, recordVars, threadVars, cmds, home,
                   histVars>>

\* The poll callback returns and drops its Arc.
Return(w) ==
    /\ polling' = None /\ batch' = <<>>
    /\ agenda' = IF w \in registry THEN <<>> ELSE <<Step("join", w)>>

\* Mutant of Reach: the callback returns after one event.
Reach_one(w, es) ==
    Return(w) /\ Take(w, IF es = <<>> THEN <<>> ELSE <<Head(es)>>)

\* The callback has reached the events es; it ends with the batch, and at a
\* close event.
Reach(w, es) ==
    IF es = <<>> \/ Head(es).kind = "close"
    THEN Return(w) /\ Take(w, es)
    ELSE /\ polling' = w /\ batch' = es
         /\ Take(w, <<Head(es)>>)
         /\ UNCHANGED agenda

\* Mutant of Pollable: a worker that has ended is not polled.
Pollable_running(w) == w \in poll \cap registry /\ ~Ended(w)

Pollable(w) == w \in poll \cap registry

\* The callback drains the channel and dispatches the first event.
otter_worker_poll(w) ==
    /\ Js /\ polling = None /\ Pollable(w) /\ events[w] # <<>>
    /\ Reach(w, events[w])
    /\ events' = [events EXCEPT ![w] = <<>>]
    /\ UNCHANGED <<registry, poll, host, recordVars, threadVars, cmds, home,
                   posted, handled, sent, posts, lost>>

\* The handlers of an event have returned: the next one, even when one of
\* them terminated the worker.
dispatch_event_object ==
    /\ Js /\ polling # None
    /\ Reach(polling, Tail(batch))
    /\ UNCHANGED <<registry, poll, host, recordVars, threadVars, chanVars,
                   posted, handled, sent, posts, lost>>

\* A handler threw: the callback returns and the rest of the batch is gone.
dispatch_throws ==
    /\ Js /\ polling # None
    /\ Return(polling)
    /\ lost' = IF Len(batch) > 1 THEN lost \cup {polling} ELSE lost
    /\ UNCHANGED <<registry, poll, host, recordVars, threadVars, chanVars,
                   posted, handled, sent, posts, taken>>

\* __otter_worker_drain returns the events as an array; an event that can be
\* materialized neither as itself nor as a messageerror loses them all.
worker_drain_call(w, materialized) ==
    /\ Js /\ w \in registry \cap Raw /\ events[w] # <<>>
    /\ events' = [events EXCEPT ![w] = <<>>]
    /\ IF materialized THEN Take(w, events[w]) /\ UNCHANGED lost
                       ELSE lost' = lost \cup {w} /\ UNCHANGED taken
    /\ UNCHANGED <<parentVars, recordVars, threadVars, cmds, home, posted, handled, sent, posts>>

(***************************************************************************)
(* run_js_worker.                                                          *)
(***************************************************************************)
\* tx.send for each kind in kinds.
Send(w, kinds) ==
    /\ events' = [events EXCEPT ![w] =
                    @ \o [i \in DOMAIN kinds |-> [id |-> sent[w] + i, kind |-> kinds[i]]]]
    /\ sent' = [sent EXCEPT ![w] = @ + Len(kinds)]

\* The function returns: the receiver goes, and the commands left in it.
Finish(w, kinds) ==
    /\ thread' = [thread EXCEPT ![w] = "done"]
    /\ cmds' = [cmds EXCEPT ![w] = <<>>]
    /\ Send(w, kinds)

\* Runtime::from_config; its error event has no receiver once the
\* constructor has thrown.
start(w, built) ==
    /\ thread[w] = "starting"
    /\ thread' = [thread EXCEPT ![w] = IF built THEN "installing" ELSE "stillborn"]
    /\ UNCHANGED <<parentVars, recordVars, closed, chanVars, histVars>>

install_worker_scope_natives(w, installed) ==
    /\ thread[w] = "installing"
    /\ IF installed
       THEN thread' = [thread EXCEPT ![w] = "entry"] /\ UNCHANGED <<cmds, events, sent>>
       ELSE Finish(w, <<"error">>)
    /\ UNCHANGED <<parentVars, recordVars, closed, home, posted, handled, posts, taken, lost>>

\* postMessage, close and Atomics.wait of the worker's own program.
post(w) ==
    /\ thread[w] \in JsStates /\ posts[w] < MaxPosts[w]
    /\ Send(w, <<"message">>)
    /\ posts' = [posts EXCEPT ![w] = @ + 1]
    /\ UNCHANGED <<parentVars, recordVars, threadVars, cmds, home, posted, handled, taken, lost>>

close(w) ==
    /\ thread[w] \in JsStates
    /\ closed' = [closed EXCEPT ![w] = TRUE]
    /\ UNCHANGED <<parentVars, recordVars, thread, chanVars, histVars>>

wait(w) ==
    /\ thread[w] \in JsStates
    /\ thread' = [thread EXCEPT ![w] = IF @ = "entry" THEN "entry_wait" ELSE "handler_wait"]
    /\ UNCHANGED <<parentVars, recordVars, closed, chanVars, histVars>>

\* Notified or timed out; the slot of the wait goes with it.
wait_returns(w) ==
    /\ thread[w] \in Waits
    /\ thread' = [thread EXCEPT ![w] = IF @ = "entry_wait" THEN "entry" ELSE "handling"]
    /\ cancelled' = [cancelled EXCEPT ![w] = FALSE]
    /\ UNCHANGED <<parentVars, terminated, interrupt, closed, chanVars, histVars>>

\* A script or a handler ends with an error: of the entry, the worker's end.
Abort(w) ==
    /\ IF thread[w] \in {"entry", "entry_wait"}
       THEN Finish(w, <<"error", "close">>)
       ELSE /\ thread' = [thread EXCEPT ![w] = "receiving"]
            /\ Send(w, <<"error">>)
            /\ UNCHANGED cmds
    /\ cancelled' = [cancelled EXCEPT ![w] = FALSE]
    /\ UNCHANGED <<parentVars, terminated, interrupt, closed, home, posted, handled, posts, taken, lost>>

js_throws(w) == thread[w] \in JsStates /\ Abort(w)

\* The interpreter polls the flag at every back-edge, park_until_notified
\* every 10 ms; the error cannot be caught.
interrupted(w) ==
    /\ \/ thread[w] \in JsStates \cup Waits /\ interrupt[w]
       \/ thread[w] \in Waits /\ cancelled[w]
    /\ Abort(w)

js_returns(w) ==
    /\ thread[w] \in JsStates
    /\ thread' = [thread EXCEPT ![w] = "receiving"]
    /\ UNCHANGED <<parentVars, recordVars, closed, chanVars, histVars>>

\* dispatch_worker_message_event: the handler runs, or fails on entry because
\* the flag is set, or the data cannot be materialized, or there is none.
Dispatched(w) ==
    {"messageerror", "none"} \cup (IF interrupt[w] THEN {"error"} ELSE {"handling"})

recv_message(w, how) ==
    /\ thread[w] = "receiving" /\ ~closed[w] /\ cmds[w] # <<>>
    /\ Head(cmds[w]).msg # 0
    /\ how \in Dispatched(w)
    /\ cmds' = [cmds EXCEPT ![w] = Tail(@)]
    /\ handled' = [handled EXCEPT ![w] = Append(@, Head(cmds[w]))]
    /\ IF how \in EventKinds THEN Send(w, <<how>>) ELSE UNCHANGED <<events, sent>>
    /\ thread' = IF how = "handling" THEN [thread EXCEPT ![w] = how] ELSE thread
    /\ UNCHANGED <<parentVars, recordVars, closed, home, posted, posts, taken, lost>>

\* The loop ends: close() was called, Shutdown is received, or a receive times
\* out with the flag set.  The channel is never disconnected under the loop,
\* since its sender is dropped after the join.
LeavesLoop(w) ==
    \/ closed[w]
    \/ cmds[w] # <<>> /\ Head(cmds[w]).msg = 0
    \/ cmds[w] = <<>> /\ interrupt[w]

leave_loop(w) ==
    /\ thread[w] = "receiving" /\ LeavesLoop(w)
    /\ Finish(w, <<"close">>)
    /\ UNCHANGED <<parentVars, recordVars, closed, home, posted, handled, posts, taken, lost>>

(***************************************************************************)
(* The specification.                                                      *)
(***************************************************************************)
Init ==
    /\ registry = {} /\ poll = {} /\ agenda = <<>> /\ polling = None /\ batch = <<>>
    /\ host = TRUE
    /\ terminated = [w \in WorkerIds |-> FALSE]
    /\ interrupt = [w \in WorkerIds |-> FALSE]
    /\ cancelled = [w \in WorkerIds |-> FALSE]
    /\ thread = [w \in WorkerIds |-> "none"]
    /\ closed = [w \in WorkerIds |-> FALSE]
    /\ cmds = [w \in WorkerIds |-> <<>>]
    /\ events = [w \in WorkerIds |-> <<>>]
    /\ home = [b \in Buffers |-> None]
    /\ posted = [w \in WorkerIds |-> 0]
    /\ handled = [w \in WorkerIds |-> <<>>]
    /\ sent = [w \in WorkerIds |-> 0]
    /\ posts = [w \in WorkerIds |-> 0]
    /\ taken = [w \in WorkerIds |-> <<>>]
    /\ lost = {}

\* The rest of a native the parent is in.
Continue ==
    \E w \in WorkerIds :
        \/ insert(w) \/ install_worker_poll_timer(w)
        \/ send_shutdown(w) \/ set_interrupt(w) \/ cancel_all_waiters(w) \/ join(w)

\* Natives the parent's program calls.
Call ==
    \/ \E w \in WorkerIds :
           \/ worker_constructor_call(w) \/ worker_spawn_call(w)
           \/ terminate(w) \/ worker_terminate_call(w)
           \/ \E b \in Buffers \cup {None}, c \in BOOLEAN : worker_post_message_call(w, b, c)
           \/ \E m \in BOOLEAN : worker_drain_call(w, m)
    \/ drop_host

Handled == dispatch_event_object \/ dispatch_throws

\* Steps of a worker that do not depend on its program.
Thread(w) ==
    \/ \E ok \in BOOLEAN : start(w, ok) \/ install_worker_scope_natives(w, ok)
    \/ \E how \in EventKinds \cup {"handling", "none"} : recv_message(w, how)
    \/ leave_loop(w)
    \/ interrupted(w)

Program(w) ==
    post(w) \/ close(w) \/ wait(w) \/ wait_returns(w) \/ js_throws(w) \/ js_returns(w)

Next ==
    \/ Continue \/ Call \/ Handled
    \/ \E w \in WorkerIds :
           otter_worker_poll(w) \/ Thread(w) \/ Program(w)

Spec == Init /\ [][Next]_vars

\* Threads run, the parent's handlers return and its interval keeps firing.
\* Nothing is assumed of a worker's program, not even that it returns.
FairSpec ==
    /\ Spec
    /\ WF_vars(Continue \/ Handled)
    /\ \A w \in WorkerIds \ Raw : WF_vars(otter_worker_poll(w))
    /\ \A w \in WorkerIds : WF_vars(Thread(w))

(***************************************************************************)
(* Properties.                                                             *)
(***************************************************************************)
Ids(es) == [i \in DOMAIN es |-> es[i].id]
UpTo(n) == [i \in 1..n |-> i]

\* s is the first of n numbered messages.
Beginning(s, n) == Len(s) <= n /\ s = UpTo(Len(s))

ParentTypes ==
    /\ registry \subseteq WorkerIds /\ poll \subseteq WorkerIds
    /\ agenda \in Seq(Steps) /\ batch \in Seq(Events)
    /\ polling \in WorkerIds \cup {None}
    /\ polling = None <=> batch = <<>>
    /\ host \in BOOLEAN

RecordTypes ==
    /\ terminated \in [WorkerIds -> BOOLEAN] /\ interrupt \in [WorkerIds -> BOOLEAN]
    /\ cancelled \in [WorkerIds -> BOOLEAN]

ThreadTypes == thread \in [WorkerIds -> ThreadStates] /\ closed \in [WorkerIds -> BOOLEAN]

ChannelTypes ==
    /\ cmds \in [WorkerIds -> Seq(Commands)] /\ handled \in [WorkerIds -> Seq(Commands)]
    /\ events \in [WorkerIds -> Seq(Events)] /\ taken \in [WorkerIds -> Seq(Events)]
    /\ home \in [Buffers -> WorkerIds \cup {None}]

CountTypes ==
    /\ posted \in [WorkerIds -> Nat] /\ posts \in [WorkerIds -> Nat] /\ sent \in [WorkerIds -> Nat]
    /\ \A w \in WorkerIds : posted[w] <= MaxSends[w] /\ posts[w] <= MaxPosts[w]
    /\ lost \subseteq WorkerIds

\* Every variable has its type: the natives name workers, the channels hold
\* numbered messages.
TypeOK == ParentTypes /\ RecordTypes /\ ThreadTypes /\ ChannelTypes /\ CountTypes

\* Every event a worker sends is taken by the parent once and in the order
\* it was sent, across polls, handlers that terminate the worker and the end
\* of the thread, unless a handler threw and abandoned a batch; none is
\* missing while the record exists.
EventsInOrder ==
    \A w \in WorkerIds \ lost :
        LET all == Ids(taken[w] \o (IF polling = w THEN Tail(batch) ELSE <<>>) \o events[w])
        IN  /\ Beginning(all, sent[w])
            /\ w \in registry \cup {polling} => Len(all) = sent[w]

\* A worker receives the messages posted to it in order, and Shutdown is the
\* last command of its channel: nothing can be posted behind it.
CommandsInOrder ==
    \A w \in WorkerIds :
        LET msgs == [i \in DOMAIN handled[w] |-> handled[w][i].msg]
            queue == [i \in DOMAIN cmds[w] |-> cmds[w][i].msg]
        IN  IF Ended(w) THEN Beginning(msgs, posted[w])
            ELSE msgs \o queue = UpTo(posted[w]) \o (IF terminated[w] THEN <<0>> ELSE <<>>)

\* A buffer the parent has given up is on its way to the worker it was
\* transferred to, or has arrived, or that worker has ended: postMessage that
\* throws for any other reason leaves the buffer usable.
TransferredNotStranded ==
    \A b \in Buffers : home[b] # None =>
        \/ \E c \in Range(cmds[home[b]]) \cup Range(handled[home[b]]) : c.buf = b
        \/ Ended(home[b])

\* A running worker thread is always owned: its record is registered, or the
\* poll callback holds it, or the parent is about to register or join it.
\* No thread outlives the parent's runtime.
NoOrphanThread ==
    \A w \in WorkerIds :
        thread[w] # "none" /\ ~Ended(w) =>
            \/ w \in registry \/ polling = w
            \/ \E i \in DOMAIN agenda : agenda[i] \in {Step("insert", w), Step("join", w)}

\* new Worker, terminate() and the drop of the host return, whatever the
\* worker's program does: it may loop for ever or sit in Atomics.wait.
NativesReturn == (agenda # <<>>) ~> (agenda = <<>>)

\* An event of a worker with a poll interval reaches the parent, unless a
\* batch was abandoned or the worker was terminated; also when the thread has
\* ended before the poll.
EventsReachParent ==
    \A w \in WorkerIds \ Raw : \A n \in 1..(MaxPosts[w] + MaxSends[w] + 2) :
        (sent[w] >= n /\ w \in registry \cap poll)
            ~> (Len(taken[w]) >= n \/ w \in lost \/ w \notin registry)
=============================================================================
