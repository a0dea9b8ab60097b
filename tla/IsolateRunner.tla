---------------------------- MODULE IsolateRunner ----------------------------
(***************************************************************************)
(* The isolate runner of crates/otter-runtime/src/handle.rs: a bounded      *)
(* inbox between many RuntimeHandle clones, Tokio tasks and one isolate     *)
(* thread; the deferral of commands that arrive while a command's Ref'd     *)
(* host work is drained; back-pressure and asynchronous redelivery;         *)
(* cooperative interruption; shutdown and teardown.                         *)
(*                                                                          *)
(* One atomic access of a shared counter, flag or channel is one step.      *)
(* Timer wakes have a module of their own (TimerWakes); here every pending  *)
(* unit of work is a host operation.                                        *)
(***************************************************************************)
EXTENDS Naturals, Sequences, FiniteSets

CONSTANTS
    Commands,      \* public commands, each submitted at most once
    RunCommands,   \* those whose reply waits for the event loop to be idle
    Looping,       \* run commands whose script only stops when interrupted
    Ops,           \* host operations
    Kind,          \* [Ops -> OpKinds]
    Liveness,      \* [Ops -> {"Ref", "Unref"}]
    Stoppers,      \* callers of shutdown_and_wait, or droppers of the handle
    StopKind,      \* [Stoppers -> {"shutdown", "drop"}]
    Timeouts,      \* whether a command timeout is configured
    Capacity,      \* bound of the inbox and of the command queue
    Interrupt,     \* the RuntimeMessage::Interrupt message
    Shutdown,      \* the RuntimeMessage::Shutdown message
    None           \* no current command

OpKinds == {"async", "task", "settle", "import"}
Levels == {"Ref", "Unref"}
Messages == Commands \cup Ops \cup {Interrupt, Shutdown}

ASSUME ConstantsAssumption ==
    /\ Commands \cap Ops = {}
    /\ Interrupt # Shutdown
    /\ {Interrupt, Shutdown, None} \cap (Commands \cup Ops) = {}
    /\ None \notin {Interrupt, Shutdown}
    /\ RunCommands \subseteq Commands
    /\ Looping \subseteq RunCommands
    /\ Kind \in [Ops -> OpKinds]
    /\ Liveness \in [Ops -> Levels]
    /\ \A o \in Ops : Kind[o] \in {"async", "import"} => Liveness[o] = "Ref"
    /\ StopKind \in [Stoppers -> {"shutdown", "drop"}]
    /\ Timeouts \in BOOLEAN
    /\ Capacity \in Nat \ {0}
    /\ IsFiniteSet(Commands)
    /\ IsFiniteSet(Ops)

VARIABLES
    inbox,             \* the bounded channel
    disconnected,      \* the receiver has been dropped
    deferred_commands, \* IsolateRunner::deferred_commands
    queued_commands,   \* RuntimeCounters::queued_commands
    pending_host_ops,  \* pending_ref_host_ops and pending_unref_host_ops
    shutdown,          \* RuntimeCounters::shutdown
    interrupt,         \* the InterruptFlag shared with the VM
    client,            \* where each submitting future is
    op,                \* where each host operation's completion is
    keep_alive,        \* operations whose HostKeepAlive is held
    pc,                \* program counter of the isolate thread
    next,              \* which of the two polls of run_until_idle comes next
    cur,               \* the command run_command is executing
    job,               \* the host operation process_message is executing
    result,            \* outcome of the current command's synchronous part
    self_shutdown,     \* IsolateRunner::shutdown
    stop,              \* where each stopper is
    notified,          \* stoppers whose Notified future has fired
    stopped,           \* IsolateExit::stopped
    accepted,          \* history: number of commands the inbox accepted
    ticket,            \* history: rank of each command in that order
    started            \* history: commands whose execution began

handleVars == <<client, queued_commands, accepted, ticket>>
runnerVars == <<pc, next, cur, job, result, self_shutdown, started>>
hostVars == <<op, keep_alive, pending_host_ops>>
stopVars == <<stop, notified, stopped>>
vars == <<inbox, disconnected, deferred_commands, shutdown, interrupt,
          handleVars, hostVars, runnerVars, stopVars>>

ClientStates == {"new", "checked", "reserved", "waiting", "release", "refused",
                 "ok", "err", "dropped", "interrupting", "gone"}
OpStates == {"off", "held", "checked", "retained", "inbox", "retry", "trying",
             "running", "settling", "fetching", "prepared", "sending",
             "delivered", "undo", "done", "cancelled"}
RunnerPcs == {"poll", "take", "recv", "begin", "script", "drive", "block",
              "task", "reply", "exit", "stopping", "notify", "dead"}
StopStates == {"idle", "interrupting", "posting", "waiting", "registered",
               "checked", "awaiting", "done"}

\* Type correctness; in particular the inbox and queued_commands stay within the
\* bound that sync_channel and submit enforce.
TypeOK ==
    /\ inbox \in Seq(Messages) /\ Len(inbox) <= Capacity
    /\ disconnected \in BOOLEAN
    /\ deferred_commands \in Seq(Commands)
    /\ queued_commands \in 0..Capacity
    /\ pending_host_ops \in [Levels -> Nat]
    /\ shutdown \in BOOLEAN
    /\ interrupt \in BOOLEAN
    /\ client \in [Commands -> ClientStates]
    /\ op \in [Ops -> OpStates]
    /\ keep_alive \in SUBSET Ops
    /\ pc \in RunnerPcs
    /\ next \in {"first", "second"}
    /\ cur \in Commands \cup {None}
    /\ job \in Ops \cup {None}
    /\ result \in {"ok", "err"}
    /\ self_shutdown \in BOOLEAN
    /\ stop \in [Stoppers -> StopStates]
    /\ notified \in SUBSET Stoppers
    /\ stopped \in BOOLEAN
    /\ accepted \in Nat
    /\ ticket \in [Commands -> Nat]
    /\ started \in SUBSET Commands

\* spawn_with_capacity: empty channel, zero counters, runner at its first poll.
Init ==
    /\ inbox = <<>>
    /\ disconnected = FALSE
    /\ deferred_commands = <<>>
    /\ queued_commands = 0
    /\ pending_host_ops = [l \in Levels |-> 0]
    /\ shutdown = FALSE
    /\ interrupt = FALSE
    /\ client = [c \in Commands |-> "new"]
    /\ op = [o \in Ops |-> "off"]
    /\ keep_alive = {}
    /\ pc = "poll"
    /\ next = "first"
    /\ cur = None
    /\ job = None
    /\ result = "ok"
    /\ self_shutdown = FALSE
    /\ stop = [s \in Stoppers |-> "idle"]
    /\ notified = {}
    /\ stopped = FALSE
    /\ accepted = 0
    /\ ticket = [c \in Commands |-> 0]
    /\ started = {}

-----------------------------------------------------------------------------
(* The channel and the counters.                                            *)

Full == Len(inbox) >= Capacity

\* SyncSender::try_send when it returns Ok, Err(Full) or Err(Disconnected).
TrySendOk(m) == ~disconnected /\ ~Full /\ inbox' = Append(inbox, m)
TrySendFull == ~disconnected /\ Full /\ UNCHANGED inbox
TrySendDisconnected == disconnected /\ UNCHANGED inbox

increment_liveness(o) ==
    pending_host_ops' = [pending_host_ops EXCEPT ![Liveness[o]] = @ + 1]

\* checked_sub(1) on the atomic: a counter at zero stays at zero.
decrement_liveness(o) ==
    pending_host_ops' =
        [pending_host_ops EXCEPT ![Liveness[o]] = IF @ = 0 THEN 0 ELSE @ - 1]

SetOp(o, s) == op' = [op EXCEPT ![o] = s]
SetClient(c, s) == client' = [client EXCEPT ![c] = s]
SetStop(s, p) == stop' = [stop EXCEPT ![s] = p]

-----------------------------------------------------------------------------
(* RuntimeHandle: submitting a command and waiting for its reply.           *)

\* A handle exists until its last clone is dropped.
HandleExists == \A s \in Stoppers : StopKind[s] = "drop" => stop[s] = "idle"

submit_check(c) ==
    /\ client[c] = "new"
    /\ HandleExists
    /\ SetClient(c, IF shutdown THEN "refused" ELSE "checked")
    /\ UNCHANGED <<inbox, disconnected, deferred_commands, shutdown, interrupt,
                   queued_commands, accepted, ticket, hostVars, runnerVars, stopVars>>

\* Mutant of submit_reserve: the bound is not checked.
submit_reserve_unbounded(c) ==
    /\ client[c] = "checked"
    /\ queued_commands' = queued_commands + 1
    /\ SetClient(c, "reserved")
    /\ UNCHANGED <<inbox, disconnected, deferred_commands, shutdown, interrupt,
                   accepted, ticket, hostVars, runnerVars, stopVars>>

\* fetch_update of queued_commands: claim a slot or reject with back-pressure.
submit_reserve(c) ==
    /\ client[c] = "checked"
    /\ \/ /\ queued_commands < Capacity
          /\ queued_commands' = queued_commands + 1
          /\ SetClient(c, "reserved")
       \/ /\ queued_commands >= Capacity
          /\ SetClient(c, "refused")
          /\ UNCHANGED queued_commands
    /\ UNCHANGED <<inbox, disconnected, deferred_commands, shutdown, interrupt,
                   accepted, ticket, hostVars, runnerVars, stopVars>>

submit_send(c) ==
    /\ client[c] = "reserved"
    /\ \/ /\ TrySendOk(c)
          /\ SetClient(c, "waiting")
          /\ accepted' = accepted + 1
          /\ ticket' = [ticket EXCEPT ![c] = accepted + 1]
       \/ /\ TrySendFull \/ TrySendDisconnected
          /\ SetClient(c, "release")
          /\ UNCHANGED <<accepted, ticket>>
    /\ UNCHANGED <<disconnected, deferred_commands, shutdown, interrupt,
                   queued_commands, hostVars, runnerVars, stopVars>>

\* Mutant of submit_release: a refused submit keeps its slot.
submit_release_leaks(c) ==
    /\ client[c] = "release"
    /\ UNCHANGED queued_commands
    /\ SetClient(c, "refused")
    /\ UNCHANGED <<inbox, disconnected, deferred_commands, shutdown, interrupt,
                   accepted, ticket, hostVars, runnerVars, stopVars>>

\* Give the claimed slot back after Full or Disconnected.
submit_release(c) ==
    /\ client[c] = "release"
    /\ queued_commands' = queued_commands - 1
    /\ SetClient(c, "refused")
    /\ UNCHANGED <<inbox, disconnected, deferred_commands, shutdown, interrupt,
                   accepted, ticket, hostVars, runnerVars, stopVars>>

\* await_run_reply: the timeout elapses first. interrupt() raises the flag ...
await_reply_timeout(c) ==
    /\ client[c] = "waiting"
    /\ Timeouts
    /\ interrupt' = TRUE
    /\ SetClient(c, "interrupting")
    /\ UNCHANGED <<inbox, disconnected, deferred_commands, shutdown,
                   queued_commands, accepted, ticket, hostVars, runnerVars, stopVars>>

\* ... and then posts an Interrupt message whose delivery may fail.
interrupt_post(c) ==
    /\ client[c] = "interrupting"
    /\ TrySendOk(Interrupt) \/ TrySendFull \/ TrySendDisconnected
    /\ SetClient(c, "gone")
    /\ UNCHANGED <<disconnected, deferred_commands, shutdown, interrupt,
                   queued_commands, accepted, ticket, hostVars, runnerVars, stopVars>>

\* The caller drops the waiting future.
abandon(c) ==
    /\ client[c] = "waiting"
    /\ SetClient(c, "gone")
    /\ UNCHANGED <<inbox, disconnected, deferred_commands, shutdown, interrupt,
                   queued_commands, accepted, ticket, hostVars, runnerVars, stopVars>>

-----------------------------------------------------------------------------
(* Host operations on Tokio workers.                                        *)
(*   "async"  a PromiseCompleter: keep-alive held, then enqueue_guaranteed  *)
(*   "task"   RuntimeTaskSpawner::enqueue by a host integration             *)
(*   "settle" RuntimeHandle::settle_promise by an embedder                  *)
(*   "import" a dynamic import posted by the script itself                  *)

hostFrame == UNCHANGED <<disconnected, deferred_commands, shutdown, interrupt,
                         handleVars, runnerVars, stopVars>>

\* enqueue_boxed and enqueue_boxed_guaranteed load the shutdown flag first.
enqueue_check(o) ==
    /\ \/ Kind[o] = "async" /\ op[o] = "held"
       \/ Kind[o] = "task" /\ op[o] = "off"
    /\ SetOp(o, IF shutdown THEN "cancelled" ELSE "checked")
    /\ UNCHANGED <<inbox, keep_alive, pending_host_ops>>
    /\ hostFrame

\* retain_host_activity; settle_promise starts here, without a check.
retain_host_activity(o) ==
    /\ \/ op[o] = "checked"
       \/ Kind[o] = "settle" /\ op[o] = "off" /\ HandleExists
    /\ increment_liveness(o)
    /\ SetOp(o, "retained")
    /\ UNCHANGED <<inbox, keep_alive>>
    /\ hostFrame

\* Mutant of post_internal_message: a full inbox cancels every message.
post_internal_message_drops(o) ==
    /\ op[o] = "retained"
    /\ \/ TrySendOk(o) /\ SetOp(o, "inbox")
       \/ /\ TrySendFull \/ TrySendDisconnected
          /\ SetOp(o, "undo")
    /\ UNCHANGED <<keep_alive, pending_host_ops>>
    /\ hostFrame

\* The first try_send of enqueue_boxed, enqueue_boxed_guaranteed and
\* post_internal_message.
post_internal_message(o) ==
    /\ op[o] = "retained"
    /\ \/ TrySendOk(o) /\ SetOp(o, "inbox")
       \/ TrySendFull /\ Kind[o] # "task" /\ SetOp(o, "retry")
       \/ /\ (TrySendFull /\ Kind[o] = "task") \/ TrySendDisconnected
          /\ SetOp(o, "undo")
    /\ UNCHANGED <<keep_alive, pending_host_ops>>
    /\ hostFrame

\* Mutant of retry_check: delivery is tried only during shutdown.
retry_check_inverted(o) ==
    /\ op[o] = "retry"
    /\ SetOp(o, IF shutdown THEN "trying" ELSE "retry")
    /\ UNCHANGED <<inbox, keep_alive, pending_host_ops>>
    /\ hostFrame

\* The redelivery loop: look at the flag, then try again.
retry_check(o) ==
    /\ op[o] = "retry"
    /\ SetOp(o, IF shutdown THEN "undo" ELSE "trying")
    /\ UNCHANGED <<inbox, keep_alive, pending_host_ops>>
    /\ hostFrame

retry_send(o) ==
    /\ op[o] = "trying"
    /\ \/ TrySendOk(o) /\ SetOp(o, "inbox")
       \/ TrySendFull /\ SetOp(o, "retry")
       \/ TrySendDisconnected /\ SetOp(o, "undo")
    /\ UNCHANGED <<keep_alive, pending_host_ops>>
    /\ hostFrame

\* Mutant of cancel_host_activity: the count is not given back.
cancel_keeps_count(o) ==
    /\ op[o] = "undo"
    /\ UNCHANGED pending_host_ops
    /\ SetOp(o, "cancelled")
    /\ UNCHANGED <<inbox, keep_alive>>
    /\ hostFrame

\* cancel_host_activity: give the count back. Nothing wakes the isolate.
cancel_host_activity(o) ==
    /\ op[o] = "undo"
    /\ decrement_liveness(o)
    /\ SetOp(o, "cancelled")
    /\ UNCHANGED <<inbox, keep_alive>>
    /\ hostFrame

\* Mutant of release_keep_alive: released before the completion is posted.
release_keep_alive_early(o) ==
    /\ o \in keep_alive
    /\ op[o] \notin {"held"}
    /\ keep_alive' = keep_alive \ {o}
    /\ decrement_liveness(o)
    /\ UNCHANGED <<inbox, op>>
    /\ hostFrame

\* PromiseCompleter::finish, and its Drop, release the keep-alive only after
\* HostCompletionSink::complete returned.
release_keep_alive(o) ==
    /\ o \in keep_alive
    /\ op[o] \notin {"held", "checked", "retained"}
    /\ keep_alive' = keep_alive \ {o}
    /\ decrement_liveness(o)
    /\ UNCHANGED <<inbox, op>>
    /\ hostFrame

\* prepare_remote_entry finishes, well or badly.
prepare_remote_entry(o) ==
    /\ op[o] = "fetching"
    /\ SetOp(o, "prepared")
    /\ UNCHANGED <<inbox, keep_alive, pending_host_ops>>
    /\ hostFrame

graph_prepared_check(o) ==
    /\ op[o] = "prepared"
    /\ SetOp(o, IF shutdown THEN "undo" ELSE "sending")
    /\ UNCHANGED <<inbox, keep_alive, pending_host_ops>>
    /\ hostFrame

\* A disconnected inbox ends the loop without giving the count back.
graph_prepared_send(o) ==
    /\ op[o] = "sending"
    /\ \/ TrySendOk(o) /\ SetOp(o, "delivered")
       \/ TrySendFull /\ SetOp(o, "prepared")
       \/ TrySendDisconnected /\ SetOp(o, "cancelled")
    /\ UNCHANGED <<keep_alive, pending_host_ops>>
    /\ hostFrame

-----------------------------------------------------------------------------
(* RuntimeHandle::shutdown, shutdown_and_wait and Drop.                     *)

\* No future holds the handle any more when its last clone is dropped.
ClientTerminal == {"refused", "ok", "err", "dropped", "gone"}

shutdown_flag(s) ==
    /\ stop[s] = "idle"
    /\ HandleExists
    /\ StopKind[s] = "drop" =>
          /\ \A c \in Commands : client[c] \in ClientTerminal \cup {"new"}
          /\ \A t \in Stoppers \ {s} : stop[t] \in {"idle", "done"}
    /\ SetStop(s, IF StopKind[s] = "shutdown" /\ shutdown
                  THEN "waiting" ELSE "interrupting")
    /\ shutdown' = TRUE
    /\ UNCHANGED <<inbox, disconnected, deferred_commands, interrupt, notified,
                   stopped, handleVars, hostVars, runnerVars>>

shutdown_interrupt(s) ==
    /\ stop[s] = "interrupting"
    /\ interrupt' = TRUE
    /\ SetStop(s, "posting")
    /\ UNCHANGED <<inbox, disconnected, deferred_commands, shutdown, notified,
                   stopped, handleVars, hostVars, runnerVars>>

\* The result of try_send is ignored.
shutdown_post(s) ==
    /\ stop[s] = "posting"
    /\ TrySendOk(Shutdown) \/ TrySendFull \/ TrySendDisconnected
    /\ SetStop(s, "waiting")
    /\ UNCHANGED <<disconnected, deferred_commands, shutdown, interrupt,
                   notified, stopped, handleVars, hostVars, runnerVars>>

\* exit.notify.notified(): from here on notify_waiters reaches this caller.
wait_register(s) ==
    /\ stop[s] = "waiting"
    /\ StopKind[s] = "shutdown"
    /\ SetStop(s, "registered")
    /\ notified' = notified \ {s}
    /\ UNCHANGED <<inbox, disconnected, deferred_commands, shutdown, interrupt,
                   stopped, handleVars, hostVars, runnerVars>>

wait_check(s) ==
    /\ stop[s] = "registered"
    /\ SetStop(s, IF stopped THEN "done" ELSE "checked")
    /\ UNCHANGED <<inbox, disconnected, deferred_commands, shutdown, interrupt,
                   notified, stopped, handleVars, hostVars, runnerVars>>

\* notified.await: it suspends unless notify_waiters ran since wait_register.
wait_await(s) ==
    /\ \/ /\ stop[s] = "checked" /\ s \notin notified
          /\ SetStop(s, "awaiting")
       \/ /\ stop[s] \in {"checked", "awaiting"} /\ s \in notified
          /\ SetStop(s, "waiting")
    /\ UNCHANGED <<inbox, disconnected, deferred_commands, shutdown, interrupt,
                   notified, stopped, handleVars, hostVars, runnerVars>>

\* Drop joins the isolate thread instead.
drop_join(s) ==
    /\ stop[s] = "waiting"
    /\ StopKind[s] = "drop"
    /\ pc = "dead"
    /\ SetStop(s, "done")
    /\ UNCHANGED <<inbox, disconnected, deferred_commands, shutdown, interrupt,
                   notified, stopped, handleVars, hostVars, runnerVars>>

-----------------------------------------------------------------------------
(* The isolate thread.                                                      *)

runnerFrame == UNCHANGED <<disconnected, accepted, ticket, stopVars>>

\* What follows a poll, or the blocking receive, in run_until_idle.
NextPoll == IF pc = "recv" \/ next = "second" THEN "first" ELSE "second"

\* Where the runner goes once process_message returned Processed.
AfterMessage == IF cur = None THEN "poll" ELSE "drive"

\* poll_one_tick first looks at the shared shutdown flag.
poll_one_tick_check ==
    /\ pc = "poll"
    /\ IF shutdown
       THEN pc' = "exit" /\ self_shutdown' = TRUE
       ELSE pc' = "take" /\ UNCHANGED self_shutdown
    /\ UNCHANGED <<inbox, deferred_commands, shutdown, interrupt, client,
                   queued_commands, hostVars, next, cur, job, result, started>>
    /\ runnerFrame

\* Mutant of dispatch: a Shutdown message waits for the drain.
dispatch_shutdown_drains(m) ==
    \/ /\ m \in Commands
       /\ pc' = "begin" /\ cur' = m
       /\ UNCHANGED <<job, self_shutdown, shutdown, interrupt>>
    \/ /\ m \in Ops
       /\ pc' = "task" /\ job' = m
       /\ UNCHANGED <<cur, self_shutdown, shutdown, interrupt>>
    \/ /\ m = Interrupt
       /\ interrupt' = TRUE
       /\ pc' = AfterMessage
       /\ UNCHANGED <<cur, job, self_shutdown, shutdown>>
    \/ /\ m = Shutdown
       /\ self_shutdown' = TRUE /\ shutdown' = TRUE
       /\ pc' = IF cur = None THEN "exit" ELSE "drive"
       /\ UNCHANGED <<cur, job, interrupt>>

\* process_message on the message at hand, outside or inside drive.
dispatch(m) ==
    \/ /\ m \in Commands
       /\ pc' = "begin" /\ cur' = m
       /\ UNCHANGED <<job, self_shutdown, shutdown, interrupt>>
    \/ /\ m \in Ops
       /\ pc' = "task" /\ job' = m
       /\ UNCHANGED <<cur, self_shutdown, shutdown, interrupt>>
    \/ /\ m = Interrupt
       /\ interrupt' = TRUE
       /\ pc' = AfterMessage
       /\ UNCHANGED <<cur, job, self_shutdown, shutdown>>
    \/ /\ m = Shutdown
       /\ self_shutdown' = TRUE /\ shutdown' = TRUE
       /\ pc' = IF cur = None THEN "exit" ELSE "reply"
       /\ UNCHANGED <<cur, job, interrupt>>

\* Receiving a host message takes it out of the inbox; SettlePromise and
\* DynamicImportGraphPrepared give their count back before they run.
Releases(o) == op[o] = "delivered" \/ Kind[o] = "settle"

receive(m) ==
    IF m \in Ops
    THEN /\ SetOp(m, IF Releases(m) THEN "settling" ELSE "running")
         /\ IF Releases(m) THEN decrement_liveness(m) ELSE UNCHANGED pending_host_ops
    ELSE UNCHANGED <<op, pending_host_ops>>

\* poll_one_tick: deferred commands come before the inbox.
poll_one_tick_deferred ==
    /\ pc = "take"
    /\ deferred_commands # <<>>
    /\ deferred_commands' = Tail(deferred_commands)
    /\ pc' = "begin" /\ cur' = Head(deferred_commands)
    /\ next' = NextPoll
    /\ UNCHANGED <<inbox, shutdown, interrupt, client, queued_commands, hostVars,
                   job, result, self_shutdown, started>>
    /\ runnerFrame

poll_one_tick_idle ==
    /\ pc = "take"
    /\ deferred_commands = <<>> /\ inbox = <<>>
    /\ pc' = IF next = "first" THEN "poll" ELSE "recv"
    /\ next' = "second"
    /\ UNCHANGED <<inbox, deferred_commands, shutdown, interrupt, client,
                   queued_commands, hostVars, cur, job, result, self_shutdown, started>>
    /\ runnerFrame

\* try_recv of a poll that found nothing deferred, and the blocking recv.
run_until_idle_recv ==
    /\ \/ pc = "take" /\ deferred_commands = <<>>
       \/ pc = "recv"
    /\ inbox # <<>>
    /\ inbox' = Tail(inbox)
    /\ dispatch(Head(inbox))
    /\ receive(Head(inbox))
    /\ next' = NextPoll
    /\ UNCHANGED <<deferred_commands, client, queued_commands, keep_alive,
                   result, started>>
    /\ runnerFrame

\* process_message(Command) and the head of run_command: free the slot,
\* reset the interrupt flag.
run_command_begin ==
    /\ pc = "begin"
    /\ queued_commands' = queued_commands - 1
    /\ interrupt' = FALSE
    /\ started' = started \cup {cur}
    /\ pc' = "script"
    /\ UNCHANGED <<inbox, deferred_commands, shutdown, client, hostVars, next,
                   cur, job, result, self_shutdown>>
    /\ runnerFrame

\* JavaScript runs inside a run command's script and inside host callbacks.
ExecutingJs == (pc = "script" /\ cur \in RunCommands) \/ pc = "task"

\* JavaScript starts an asynchronous native: promise_pending takes a
\* keep-alive and the future is spawned.
promise_pending(o) ==
    /\ ExecutingJs
    /\ Kind[o] = "async" /\ op[o] = "off"
    /\ SetOp(o, "held")
    /\ keep_alive' = keep_alive \cup {o}
    /\ increment_liveness(o)
    /\ UNCHANGED <<inbox, deferred_commands, shutdown, interrupt, client,
                   queued_commands, runnerVars>>
    /\ runnerFrame

\* JavaScript evaluates import(): InboxDynamicImportLoader::schedule.
dynamic_import_schedule(o) ==
    /\ ExecutingJs
    /\ Kind[o] = "import" /\ op[o] = "off"
    /\ increment_liveness(o)
    /\ \/ TrySendOk(o) /\ SetOp(o, "inbox")
       \/ TrySendFull /\ SetOp(o, "retry")
    /\ UNCHANGED <<deferred_commands, shutdown, interrupt, client,
                   queued_commands, keep_alive, runnerVars>>
    /\ runnerFrame

\* Mutant of run_command_return: the script never looks at the flag.
run_command_return_deaf ==
    /\ pc = "script"
    /\ cur \notin Looping /\ result' \in {"ok", "err"}
    /\ pc' = IF cur \in RunCommands THEN "drive" ELSE "reply"
    /\ UNCHANGED <<inbox, deferred_commands, shutdown, interrupt, client,
                   queued_commands, hostVars, next, cur, job, self_shutdown, started>>
    /\ runnerFrame

\* The synchronous part of the command returns, or is interrupted.
run_command_return ==
    /\ pc = "script"
    /\ \/ cur \notin Looping /\ result' \in {"ok", "err"}
       \/ interrupt /\ result' = "err"
    /\ pc' = IF cur \in RunCommands THEN "drive" ELSE "reply"
    /\ UNCHANGED <<inbox, deferred_commands, shutdown, interrupt, client,
                   queued_commands, hostVars, next, cur, job, self_shutdown, started>>
    /\ runnerFrame

\* drive_event_loop_to_idle: errors short-circuit; otherwise load the counters.
drive_event_loop_to_idle ==
    /\ pc = "drive"
    /\ pc' = IF result = "err" \/ pending_host_ops["Ref"] = 0
             THEN "reply" ELSE "block"
    /\ UNCHANGED <<inbox, deferred_commands, shutdown, interrupt, client,
                   queued_commands, hostVars, next, cur, job, result,
                   self_shutdown, started>>
    /\ runnerFrame

\* Mutant of defer: push_front instead of push_back.
defer_in_front(m) ==
    /\ deferred_commands' = <<m>> \o deferred_commands
    /\ pc' = "drive"
    /\ UNCHANGED <<cur, job, self_shutdown, shutdown, interrupt, op,
                   pending_host_ops>>

\* Mutant of defer: the command is thrown away.
defer_discards(m) ==
    /\ UNCHANGED deferred_commands
    /\ pc' = "drive"
    /\ UNCHANGED <<cur, job, self_shutdown, shutdown, interrupt, op,
                   pending_host_ops>>

\* A command that arrives during the drain waits for the runner's next polls.
defer(m) ==
    /\ deferred_commands' = Append(deferred_commands, m)
    /\ pc' = "drive"
    /\ UNCHANGED <<cur, job, self_shutdown, shutdown, interrupt, op,
                   pending_host_ops>>

\* The blocking receive of drive: commands are deferred, the rest processed.
drive_event_loop_recv ==
    /\ pc = "block"
    /\ inbox # <<>>
    /\ inbox' = Tail(inbox)
    /\ \/ /\ Head(inbox) \in Commands
          /\ defer(Head(inbox))
       \/ /\ Head(inbox) \notin Commands
          /\ dispatch(Head(inbox))
          /\ receive(Head(inbox))
          /\ UNCHANGED deferred_commands
    /\ UNCHANGED <<client, queued_commands, keep_alive, next, result, started>>
    /\ runnerFrame

\* Mutant of process_message_finish: the count is not given back.
process_message_finish_keeps_count ==
    /\ pc = "task"
    /\ \/ /\ op[job] = "settling"
          /\ SetOp(job, "done") /\ UNCHANGED pending_host_ops
       \/ /\ op[job] = "running"
          /\ SetOp(job, "done") /\ UNCHANGED pending_host_ops
       \/ /\ op[job] = "running" /\ Kind[job] = "import"
          /\ SetOp(job, "fetching") /\ UNCHANGED pending_host_ops
    /\ job' = None
    /\ pc' = AfterMessage
    /\ UNCHANGED <<inbox, deferred_commands, shutdown, interrupt, client,
                   queued_commands, keep_alive, next, cur, result,
                   self_shutdown, started>>
    /\ runnerFrame

\* Mutant of process_message_finish: an import that goes on fetching gives its
\* count back.
process_message_finish_uncounts_fetch ==
    /\ pc = "task"
    /\ \/ /\ op[job] = "settling"
          /\ SetOp(job, "done") /\ UNCHANGED pending_host_ops
       \/ /\ op[job] = "running"
          /\ SetOp(job, "done") /\ decrement_liveness(job)
       \/ /\ op[job] = "running" /\ Kind[job] = "import"
          /\ SetOp(job, "fetching") /\ decrement_liveness(job)
    /\ job' = None
    /\ pc' = AfterMessage
    /\ UNCHANGED <<inbox, deferred_commands, shutdown, interrupt, client,
                   queued_commands, keep_alive, next, cur, result,
                   self_shutdown, started>>
    /\ runnerFrame

\* The rest of process_message for the host message being run. A RuntimeTask
\* and a settled import give their count back after running; a remote import
\* keeps it and goes on fetching.
process_message_finish ==
    /\ pc = "task"
    /\ \/ /\ op[job] = "settling"
          /\ SetOp(job, "done") /\ UNCHANGED pending_host_ops
       \/ /\ op[job] = "running"
          /\ SetOp(job, "done") /\ decrement_liveness(job)
       \/ /\ op[job] = "running" /\ Kind[job] = "import"
          /\ SetOp(job, "fetching") /\ UNCHANGED pending_host_ops
    /\ job' = None
    /\ pc' = AfterMessage
    /\ UNCHANGED <<inbox, deferred_commands, shutdown, interrupt, client,
                   queued_commands, keep_alive, next, cur, result,
                   self_shutdown, started>>
    /\ runnerFrame

\* Mutant of run_command_reply: deferred commands run before the isolate leaves.
reply_drains_deferred ==
    /\ pc = "reply"
    /\ client' = [client EXCEPT ![cur] = IF @ = "waiting" THEN result ELSE @]
    /\ interrupt' = FALSE
    /\ cur' = None
    /\ pc' = IF ~self_shutdown THEN "poll"
             ELSE IF deferred_commands = <<>> THEN "exit" ELSE "take"
    /\ UNCHANGED <<inbox, deferred_commands, shutdown, queued_commands, hostVars,
                   next, job, result, self_shutdown, started>>
    /\ runnerFrame

\* The tail of run_command: send the reply if somebody still waits for it,
\* reset the interrupt flag, leave if a Shutdown message was processed.
run_command_reply ==
    /\ pc = "reply"
    /\ client' = [client EXCEPT ![cur] = IF @ = "waiting" THEN result ELSE @]
    /\ interrupt' = FALSE
    /\ cur' = None
    /\ pc' = IF self_shutdown THEN "exit" ELSE "poll"
    /\ UNCHANGED <<inbox, deferred_commands, shutdown, queued_commands, hostVars,
                   next, job, result, self_shutdown, started>>
    /\ runnerFrame

\* run_isolate returns: the receiver and the deferred queue are dropped, and
\* with them every reply channel and host message they hold.
isolate_drop ==
    /\ pc = "exit"
    /\ disconnected' = TRUE
    /\ inbox' = <<>>
    /\ deferred_commands' = <<>>
    /\ client' = [c \in Commands |->
                    IF client[c] = "waiting" THEN "dropped" ELSE client[c]]
    /\ op' = [o \in Ops |->
                    IF op[o] \in {"inbox", "delivered"} THEN "cancelled" ELSE op[o]]
    /\ pc' = "stopping"
    /\ UNCHANGED <<shutdown, interrupt, queued_commands, accepted, ticket,
                   keep_alive, pending_host_ops, next, cur, job, result, self_shutdown, started, stopVars>>

\* IsolateExitGuard::drop.
exit_guard_stop ==
    /\ pc = "stopping"
    /\ stopped' = TRUE
    /\ pc' = "notify"
    /\ UNCHANGED <<inbox, disconnected, deferred_commands, shutdown, interrupt,
                   handleVars, hostVars, next, cur, job, result, self_shutdown,
                   started, stop, notified>>

\* Mutant of exit_guard_notify: it reaches only callers already suspended.
exit_guard_notify_awaiting ==
    /\ pc = "notify"
    /\ notified' = notified \cup {s \in Stoppers : stop[s] = "awaiting"}
    /\ pc' = "dead"
    /\ UNCHANGED <<inbox, disconnected, deferred_commands, shutdown, interrupt,
                   handleVars, hostVars, next, cur, job, result, self_shutdown,
                   started, stop, stopped>>

exit_guard_notify ==
    /\ pc = "notify"
    /\ notified' = notified \cup
           {s \in Stoppers : stop[s] \in {"registered", "checked", "awaiting"}}
    /\ pc' = "dead"
    /\ UNCHANGED <<inbox, disconnected, deferred_commands, shutdown, interrupt,
                   handleVars, hostVars, next, cur, job, result, self_shutdown,
                   started, stop, stopped>>

-----------------------------------------------------------------------------
Client(c) ==
    \/ submit_check(c) \/ submit_reserve(c) \/ submit_send(c)
    \/ submit_release(c) \/ await_reply_timeout(c) \/ interrupt_post(c)
    \/ abandon(c)

\* Steps a Tokio worker takes once an operation's completion is being posted.
Delivery(o) ==
    \/ retain_host_activity(o) /\ op[o] = "checked"
    \/ post_internal_message(o) \/ retry_check(o) \/ retry_send(o)
    \/ cancel_host_activity(o)
    \/ release_keep_alive(o) \/ graph_prepared_check(o) \/ graph_prepared_send(o)

\* Steps that depend on the outside world: a future resolves, an embedder posts.
Resolve(o) ==
    \/ enqueue_check(o)
    \/ retain_host_activity(o) /\ op[o] = "off"
    \/ prepare_remote_entry(o)

Runner ==
    \/ poll_one_tick_check \/ poll_one_tick_deferred \/ poll_one_tick_idle
    \/ run_until_idle_recv \/ run_command_begin \/ run_command_return
    \/ drive_event_loop_to_idle \/ drive_event_loop_recv
    \/ process_message_finish \/ run_command_reply
    \/ isolate_drop \/ exit_guard_stop \/ exit_guard_notify

Script(o) == promise_pending(o) \/ dynamic_import_schedule(o)

Stopper(s) ==
    \/ shutdown_flag(s) \/ shutdown_interrupt(s) \/ shutdown_post(s)
    \/ wait_register(s) \/ wait_check(s) \/ wait_await(s) \/ drop_join(s)

Next ==
    \/ \E c \in Commands : Client(c)
    \/ \E o \in Ops : Delivery(o) \/ Resolve(o) \/ Script(o)
    \/ \E s \in Stoppers : Stopper(s)
    \/ Runner

Spec == Init /\ [][Next]_vars

\* The isolate thread runs; a submitting or stopping thread, and a Tokio worker
\* that is posting a completion, is scheduled again and again. Nothing says that
\* a caller ever calls, or that a host future ever resolves.
FairSpec ==
    /\ Spec
    /\ WF_vars(Runner)
    /\ \A c \in Commands :
          WF_vars(submit_reserve(c) \/ submit_send(c) \/ submit_release(c)
                  \/ interrupt_post(c))
    /\ \A o \in Ops : WF_vars(Delivery(o))
    /\ \A s \in Stoppers : WF_vars(Stopper(s) /\ stop[s] # "idle")

\* ... and every started asynchronous native and remote fetch resolves.
FairHostSpec ==
    /\ FairSpec
    /\ \A o \in Ops : WF_vars(Resolve(o) /\ op[o] # "off")

-----------------------------------------------------------------------------
(* Properties.                                                              *)

InInbox(m) == \E i \in 1..Len(inbox) : inbox[i] = m
InDeferred(c) == \E i \in 1..Len(deferred_commands) : deferred_commands[i] = c

\* Commands that hold a slot of the shared queue bound.
QueueSlots ==
    {c \in Commands : \/ client[c] \in {"reserved", "release"}
                      \/ InInbox(c)
                      \/ InDeferred(c)
                      \/ pc = "begin" /\ cur = c}

\* The command counter is exact: it equals the number of commands that are
\* claiming a slot, in the channel, deferred, or just received. So the shared
\* bound covers channel-resident and deferred commands together, and fetch_sub
\* never wraps (submit, process_message, drive_event_loop_to_idle).
QueueAccounting ==
    ~disconnected => queued_commands = Cardinality(QueueSlots)

\* A command starts only after every command the inbox accepted before it:
\* deferral while Ref'd work drains keeps the order (poll_one_tick,
\* drive_event_loop_to_idle).
FifoExecution ==
    \A c, d \in Commands :
        (ticket[c] # 0 /\ ticket[c] < ticket[d] /\ d \in started) => c \in started

\* Commands never run recursively: a command that has begun and is still
\* awaited is the one run_command is executing.
NoRecursiveCommand ==
    \A c \in started : client[c] = "waiting" => c = cur

\* A caller that waits is known to the isolate: its command is queued, deferred
\* or running until the reply is sent or dropped.
NoLostCommand ==
    \A c \in Commands :
        client[c] = "waiting" => InInbox(c) \/ InDeferred(c) \/ cur = c

\* Operations whose posted completion is still counted.
Counted(o) == op[o] \in {"retained", "inbox", "retry", "trying", "running",
                         "fetching", "prepared", "sending", "delivered",
                         "undo"}

\* While the isolate lives each liveness counter is exactly the number of held
\* keep-alives plus counted completions, so the saturating decrement never
\* saturates (increment_liveness, decrement_liveness).
ActivityAccounting ==
    ~disconnected =>
        \A l \in Levels :
            pending_host_ops[l] =
                Cardinality({o \in keep_alive : Liveness[o] = l})
                + Cardinality({o \in Ops : Counted(o) /\ Liveness[o] = l})

\* A successful run command is answered only when nothing JavaScript started is
\* outstanding, unless a Shutdown message cut the wait short
\* (drive_event_loop_to_idle, PromiseCompleter::finish).
ReplyAfterRefWork ==
    (pc = "reply" /\ cur \in RunCommands /\ result = "ok" /\ ~self_shutdown) =>
        \A o \in Ops :
            Kind[o] \in {"async", "import"} => o \notin keep_alive /\ ~Counted(o)

\* A guaranteed completion is dropped only when the isolate is shutting down
\* (enqueue_boxed_guaranteed, post_internal_message).
CompletionNotDropped ==
    \A o \in Ops : (op[o] \in {"undo", "cancelled"} /\ Kind[o] # "task") => shutdown

\* No command starts to execute once the isolate decided to stop.
NoStartAfterStop == [][self_shutdown => started' = started]_vars

\* A Shutdown message the inbox accepted stops the isolate, whatever the host
\* operations do, unless a script that never returns keeps the thread.
ShutdownMessageStops ==
    InInbox(Shutdown) ~> stopped \/ (pc = "script" /\ cur \in Looping)

\* shutdown_and_wait never sleeps through the isolate's exit: the Notified
\* future is created before the flag is read (IsolateExitGuard::drop).
WaitersWoken ==
    \A s \in Stoppers :
        (stopped /\ stop[s] \notin {"idle", "done"}) ~> stop[s] = "done"

\* An interrupt raised while a script runs reaches it: run_command resets the
\* flag only before the script starts and after it returned.
InterruptWakesScript == (pc = "script" /\ interrupt) ~> pc # "script"

\* Every accepted command is answered, times out, or has its reply dropped.
CommandAnswered ==
    \A c \in Commands : client[c] = "waiting" ~> client[c] # "waiting"

\* A completion that found the inbox full is delivered once the isolate drains
\* it, or cancelled by shutdown.
CompletionDelivered ==
    \A o \in Ops : op[o] = "retry" ~> op[o] \in {"done", "cancelled"}

-----------------------------------------------------------------------------
(* What the comments in shutdown() and Drop say.                            *)

\* "A full queue already guarantees the runner is awake; it observes the atomic
\* shutdown flag before its next tick": every shutdown completes.
ShutdownCompletes ==
    \A s \in Stoppers : stop[s] = "waiting" ~> stopped

\* "The cooperative interrupt wakes a running script".
ShutdownWakesScript ==
    (pc = "script" /\ \E s \in Stoppers : stop[s] \in {"waiting", "awaiting"})
        ~> pc # "script"

\* "Per-command timeout": the script of a command that timed out comes to an end.
TimeoutStopsScript ==
    \A c \in Commands :
        (pc = "script" /\ cur = c /\ client[c] = "interrupting") ~> pc # "script"
=============================================================================
