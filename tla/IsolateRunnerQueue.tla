------------------------- MODULE IsolateRunnerQueue -------------------------
(***************************************************************************)
(* The inductive invariant of the isolate runner, for any commands,         *)
(* operations, stoppers and capacity. First the parts of it that every      *)
(* handler touches: its types and what the isolate thread holds at each     *)
(* step. Then the command queue: what submit, the receives, the deferral,   *)
(* run_command and the drop of the isolate each do to the order and the     *)
(* accounting of commands.                                                  *)
(***************************************************************************)
EXTENDS IsolateRunner, TLAPS, FiniteSetTheorems

\* Every leaf that names no prover goes to the SMT solver.
USE SMTT(60)

\* Where the isolate thread is decides what it holds.
Ended == {"stopping", "notify", "dead"}

PcInv ==
    /\ pc \in {"poll", "take", "recv", "exit"} \cup Ended => cur = None
    /\ pc \in {"begin", "script", "drive", "block", "reply"} => cur \in Commands
    /\ pc = "recv" => deferred_commands = <<>>
    /\ pc = "task" => job \in Ops
    /\ disconnected <=> pc \in Ended
    /\ disconnected => inbox = <<>> /\ deferred_commands = <<>>
    /\ (cur # None /\ pc # "begin") => cur \in started

\* A command has a ticket exactly when its try_send succeeded.
Unsent == {"new", "checked", "reserved", "release", "refused"}

TicketInv ==
    \A c \in Commands :
        /\ ticket[c] <= accepted
        /\ ticket[c] = 0 <=> client[c] \in Unsent
        /\ c \in started => ticket[c] # 0

\* The inbox, the deferred queue and the received command stand in the order of
\* their tickets, after everything that has started.
InboxOrder ==
    \A i, j \in 1..Len(inbox) :
        (i < j /\ inbox[i] \in Commands /\ inbox[j] \in Commands)
        => ticket[inbox[i]] < ticket[inbox[j]]

DeferredOrder ==
    \A i, j \in 1..Len(deferred_commands) :
        i < j => ticket[deferred_commands[i]] < ticket[deferred_commands[j]]

\* t comes before every queued command.
BeforeInbox(t) == \A i \in 1..Len(inbox) : inbox[i] \in Commands => t < ticket[inbox[i]]
BeforeDeferred(t) == \A i \in 1..Len(deferred_commands) : t < ticket[deferred_commands[i]]

OrderInv ==
    /\ InboxOrder /\ DeferredOrder
    /\ BeforeInbox(0) /\ BeforeDeferred(0)
    /\ \A i \in 1..Len(deferred_commands) : BeforeInbox(ticket[deferred_commands[i]])
    /\ pc = "begin" => /\ 0 < ticket[cur]
                       /\ BeforeInbox(ticket[cur]) /\ BeforeDeferred(ticket[cur])
    /\ \A c \in started : /\ BeforeInbox(ticket[c]) /\ BeforeDeferred(ticket[c])
                          /\ pc = "begin" => ticket[c] < ticket[cur]

\* An accepted command is queued, received or started while the isolate lives.
PlacedInv ==
    \A c \in Commands :
        (ticket[c] # 0 /\ ~disconnected)
        => \/ c \in started \/ InInbox(c) \/ InDeferred(c)
           \/ pc = "begin" /\ cur = c

\* The counter covers every slot, exactly while the isolate lives.
SlotInv ==
    /\ Cardinality(QueueSlots) <= queued_commands
    /\ ~disconnected => queued_commands = Cardinality(QueueSlots)

IInv == /\ TypeOK /\ PcInv /\ TicketInv /\ OrderInv /\ PlacedInv /\ SlotInv
        /\ FifoExecution /\ NoRecursiveCommand /\ NoLostCommand

-----------------------------------------------------------------------------
(* Sequences and slots.                                                     *)

\* What Tail leaves of a non-empty queue.
LEMMA TailFacts ==
  ASSUME NEW S, NEW q \in Seq(S), q # <<>>
  PROVE  /\ Head(q) = q[1] /\ Head(q) \in S
         /\ Tail(q) \in Seq(S)
         /\ Len(q) \in Nat \ {0} /\ Len(Tail(q)) = Len(q) - 1
         /\ \A i \in 1..Len(Tail(q)) : Tail(q)[i] = q[i + 1]
OBVIOUS

\* What Append adds to a queue.
LEMMA AppendFacts ==
  ASSUME NEW S, NEW q \in Seq(S), NEW m \in S
  PROVE  /\ Append(q, m) \in Seq(S)
         /\ Len(q) \in Nat /\ Len(Append(q, m)) = Len(q) + 1
         /\ \A i \in 1..Len(q) : Append(q, m)[i] = q[i]
         /\ Append(q, m)[Len(q) + 1] = m
OBVIOUS

\* The set of slots is finite.
LEMMA SlotsFinite == /\ IsFiniteSet(QueueSlots)
                     /\ Cardinality(QueueSlots) \in Nat
BY ConstantsAssumption, FS_Subset, FS_CardinalityType DEF QueueSlots

\* A command that holds a slot is counted, so fetch_sub never wraps.
LEMMA SlotCounted ==
  ASSUME IInv, NEW c \in QueueSlots
  PROVE  queued_commands # 0
<1>1. Cardinality(QueueSlots) # 0
  BY SlotsFinite, FS_EmptySet
<1>2. QED
  BY <1>1, SlotsFinite DEF IInv, SlotInv, TypeOK

\* Receiving a message keeps the counters and the operation states typed.
LEMMA ReceiveTyped ==
  ASSUME op \in [Ops -> OpStates], pending_host_ops \in [Levels -> Nat],
         NEW m,
         receive(m) \/ UNCHANGED <<op, pending_host_ops>>
  PROVE  op' \in [Ops -> OpStates] /\ pending_host_ops' \in [Levels -> Nat]
<1>1. CASE m \in Ops /\ receive(m)
  <2>1. op' \in [Ops -> OpStates]
    BY <1>1 DEF receive, SetOp, OpStates
  <2>2. Liveness[m] \in Levels
    BY <1>1, ConstantsAssumption
  <2>3. pending_host_ops' \in [Levels -> Nat]
    BY <1>1, <2>2 DEF receive, decrement_liveness
  <2>4. QED
    BY <2>1, <2>3
<1>2. QED
  BY <1>1 DEF receive

\* try_send keeps the inbox a queue of messages within the channel's bound.
LEMMA SendTyped ==
  ASSUME inbox \in Seq(Messages), Len(inbox) <= Capacity, NEW m \in Messages,
         TrySendOk(m) \/ TrySendFull \/ TrySendDisconnected
  PROVE  inbox' \in Seq(Messages) /\ Len(inbox') <= Capacity
<1>1. CASE TrySendOk(m)
  <2>1. /\ Append(inbox, m) \in Seq(Messages) /\ Len(inbox) \in Nat
        /\ Len(Append(inbox, m)) = Len(inbox) + 1
    BY AppendFacts
  <2>2. inbox' = Append(inbox, m) /\ ~(Len(inbox) >= Capacity)
    BY <1>1 DEF TrySendOk, Full
  <2>3. QED
    BY <2>1, <2>2, ConstantsAssumption
<1>2. CASE inbox' = inbox
  BY <1>2
<1>3. QED
  BY ZenonT(60), <1>1, <1>2 DEF TrySendFull, TrySendDisconnected

-----------------------------------------------------------------------------
(* Type correctness and the program counter.                                *)

\* No handler leaves the types; queued_commands stays within 0..Capacity.
LEMMA TypeStep == IInv /\ [Next]_vars => TypeOK'
<1> SUFFICES ASSUME IInv, [Next]_vars PROVE TypeOK'
  OBVIOUS
<1>inv. TypeOK
  BY DEF IInv
<1> USE <1>inv, ConstantsAssumption DEF TypeOK, Levels, ClientStates, OpStates,
        RunnerPcs, StopStates
<1>1. CASE UNCHANGED vars
  BY <1>1 DEF vars, handleVars, hostVars, runnerVars, stopVars
<1>2. ASSUME NEW c \in Commands, submit_check(c)
      PROVE  TypeOK'
  BY <1>2 DEF submit_check, SetClient, handleVars, hostVars, runnerVars, stopVars
<1>3. ASSUME NEW c \in Commands, submit_reserve(c)
      PROVE  TypeOK'
  <2>1. queued_commands' \in 0..Capacity
    BY <1>3 DEF submit_reserve
  <2>2. client' \in [Commands -> ClientStates]
    BY ZenonT(60), <1>3 DEF submit_reserve, SetClient
  <2>3. QED
    BY <1>3, <2>1, <2>2 DEF submit_reserve, hostVars, runnerVars, stopVars
<1>4. ASSUME NEW c \in Commands, submit_send(c)
      PROVE  TypeOK'
  <2>1. inbox' \in Seq(Messages) /\ Len(inbox') <= Capacity
    <3>1. c \in Messages
      BY DEF Messages
    <3>2. TrySendOk(c) \/ TrySendFull \/ TrySendDisconnected
      BY <1>4 DEF submit_send
    <3>3. QED
      BY <3>1, <3>2, SendTyped
  <2>2. CASE SetClient(c, "waiting") /\ accepted' = accepted + 1
             /\ ticket' = [ticket EXCEPT ![c] = accepted + 1]
    BY <1>4, <2>1, <2>2 DEF submit_send, SetClient, hostVars, runnerVars, stopVars
  <2>3. CASE SetClient(c, "release") /\ UNCHANGED <<accepted, ticket>>
    BY <1>4, <2>1, <2>3 DEF submit_send, SetClient, hostVars, runnerVars, stopVars
  <2>4. QED
    BY ZenonT(60), <1>4, <2>2, <2>3 DEF submit_send
<1>5. ASSUME NEW c \in Commands, submit_release(c)
      PROVE  TypeOK'
  <2>1. c \in QueueSlots
    BY <1>5 DEF submit_release, QueueSlots
  <2>2. queued_commands # 0
    BY <2>1, SlotCounted
  <2>3. QED
    BY <1>5, <2>2 DEF submit_release, SetClient, handleVars, hostVars, runnerVars, stopVars
<1>6. ASSUME NEW c \in Commands, await_reply_timeout(c)
      PROVE  TypeOK'
  BY <1>6
     DEF await_reply_timeout, SetClient, handleVars, hostVars, runnerVars, stopVars
<1>7. ASSUME NEW c \in Commands, interrupt_post(c)
      PROVE  TypeOK'
  <2>1. inbox' \in Seq(Messages) /\ Len(inbox') <= Capacity
    <3>1. Interrupt \in Messages
      BY DEF Messages
    <3>2. TrySendOk(Interrupt) \/ TrySendFull \/ TrySendDisconnected
      BY <1>7 DEF interrupt_post
    <3>3. QED
      BY <3>1, <3>2, SendTyped
  <2>2. client' \in [Commands -> ClientStates]
    BY <1>7 DEF interrupt_post, SetClient
  <2>3. QED
    BY <1>7, <2>1, <2>2 DEF interrupt_post, handleVars, hostVars, runnerVars, stopVars
<1>8. ASSUME NEW c \in Commands, abandon(c)
      PROVE  TypeOK'
  BY <1>8 DEF abandon, SetClient, handleVars, hostVars, runnerVars, stopVars
<1>9. ASSUME NEW o \in Ops, enqueue_check(o)
      PROVE  TypeOK'
  BY <1>9 DEF enqueue_check, SetOp, hostFrame, handleVars, runnerVars, stopVars
<1>10. ASSUME NEW o \in Ops, retain_host_activity(o)
      PROVE  TypeOK'
  BY <1>10
     DEF retain_host_activity, increment_liveness, SetOp, hostFrame, handleVars,
         runnerVars, stopVars
<1>11. ASSUME NEW o \in Ops, post_internal_message(o)
      PROVE  TypeOK'
  <2>1. inbox' \in Seq(Messages) /\ Len(inbox') <= Capacity
    <3>1. o \in Messages
      BY DEF Messages
    <3>2. TrySendOk(o) \/ TrySendFull \/ TrySendDisconnected
      BY <1>11 DEF post_internal_message
    <3>3. QED
      BY <3>1, <3>2, SendTyped
  <2>2. op' \in [Ops -> OpStates]
    BY ZenonT(60), <1>11 DEF post_internal_message, SetOp
  <2>3. QED
    BY <1>11, <2>1, <2>2
       DEF post_internal_message, hostFrame, handleVars, runnerVars, stopVars
<1>12. ASSUME NEW o \in Ops, retry_check(o)
      PROVE  TypeOK'
  BY <1>12 DEF retry_check, SetOp, hostFrame, handleVars, runnerVars, stopVars
<1>13. ASSUME NEW o \in Ops, retry_send(o)
      PROVE  TypeOK'
  <2>1. inbox' \in Seq(Messages) /\ Len(inbox') <= Capacity
    <3>1. o \in Messages
      BY DEF Messages
    <3>2. TrySendOk(o) \/ TrySendFull \/ TrySendDisconnected
      BY <1>13 DEF retry_send
    <3>3. QED
      BY <3>1, <3>2, SendTyped
  <2>2. op' \in [Ops -> OpStates]
    BY ZenonT(60), <1>13 DEF retry_send, SetOp
  <2>3. QED
    BY <1>13, <2>1, <2>2 DEF retry_send, hostFrame, handleVars, runnerVars, stopVars
<1>14. ASSUME NEW o \in Ops, cancel_host_activity(o)
      PROVE  TypeOK'
  BY <1>14
     DEF cancel_host_activity, decrement_liveness, SetOp, hostFrame, handleVars,
         runnerVars, stopVars
<1>15. ASSUME NEW o \in Ops, release_keep_alive(o)
      PROVE  TypeOK'
  BY <1>15
     DEF release_keep_alive, decrement_liveness, hostFrame, handleVars, runnerVars,
         stopVars
<1>16. ASSUME NEW o \in Ops, prepare_remote_entry(o)
      PROVE  TypeOK'
  BY <1>16
     DEF prepare_remote_entry, SetOp, hostFrame, handleVars, runnerVars, stopVars
<1>17. ASSUME NEW o \in Ops, graph_prepared_check(o)
      PROVE  TypeOK'
  BY <1>17
     DEF graph_prepared_check, SetOp, hostFrame, handleVars, runnerVars, stopVars
<1>18. ASSUME NEW o \in Ops, graph_prepared_send(o)
      PROVE  TypeOK'
  <2>1. inbox' \in Seq(Messages) /\ Len(inbox') <= Capacity
    <3>1. o \in Messages
      BY DEF Messages
    <3>2. TrySendOk(o) \/ TrySendFull \/ TrySendDisconnected
      BY <1>18 DEF graph_prepared_send
    <3>3. QED
      BY <3>1, <3>2, SendTyped
  <2>2. op' \in [Ops -> OpStates]
    BY ZenonT(60), <1>18 DEF graph_prepared_send, SetOp
  <2>3. QED
    BY <1>18, <2>1, <2>2
       DEF graph_prepared_send, hostFrame, handleVars, runnerVars, stopVars
<1>19. ASSUME NEW o \in Ops, promise_pending(o)
      PROVE  TypeOK'
  BY <1>19
     DEF promise_pending, increment_liveness, SetOp, ExecutingJs, runnerFrame,
         hostVars, stopVars, runnerVars
<1>20. ASSUME NEW o \in Ops, dynamic_import_schedule(o)
      PROVE  TypeOK'
  <2>1. inbox' \in Seq(Messages) /\ Len(inbox') <= Capacity
    <3>1. o \in Messages
      BY DEF Messages
    <3>2. TrySendOk(o) \/ TrySendFull \/ TrySendDisconnected
      BY <1>20 DEF dynamic_import_schedule
    <3>3. QED
      BY <3>1, <3>2, SendTyped
  <2>2. op' \in [Ops -> OpStates]
    BY ZenonT(60), <1>20 DEF dynamic_import_schedule, SetOp
  <2>3. QED
    BY <1>20, <2>1, <2>2
       DEF dynamic_import_schedule, increment_liveness, runnerFrame, hostVars,
           stopVars, runnerVars
<1>21. ASSUME NEW s \in Stoppers, shutdown_flag(s)
      PROVE  TypeOK'
  BY <1>21 DEF shutdown_flag, SetStop, handleVars, hostVars, runnerVars, stopVars
<1>22. ASSUME NEW s \in Stoppers, shutdown_interrupt(s)
      PROVE  TypeOK'
  BY <1>22 DEF shutdown_interrupt, SetStop, handleVars, hostVars, runnerVars, stopVars
<1>23. ASSUME NEW s \in Stoppers, shutdown_post(s)
      PROVE  TypeOK'
  <2>1. inbox' \in Seq(Messages) /\ Len(inbox') <= Capacity
    <3>1. Shutdown \in Messages
      BY DEF Messages
    <3>2. TrySendOk(Shutdown) \/ TrySendFull \/ TrySendDisconnected
      BY <1>23 DEF shutdown_post
    <3>3. QED
      BY <3>1, <3>2, SendTyped
  <2>2. stop' \in [Stoppers -> StopStates]
    BY <1>23 DEF shutdown_post, SetStop
  <2>3. QED
    BY <1>23, <2>1, <2>2 DEF shutdown_post, handleVars, hostVars, runnerVars, stopVars
<1>24. ASSUME NEW s \in Stoppers, wait_register(s)
      PROVE  TypeOK'
  BY <1>24 DEF wait_register, SetStop, handleVars, hostVars, runnerVars, stopVars
<1>25. ASSUME NEW s \in Stoppers, wait_check(s)
      PROVE  TypeOK'
  BY <1>25 DEF wait_check, SetStop, handleVars, hostVars, runnerVars, stopVars
<1>26. ASSUME NEW s \in Stoppers, wait_await(s)
      PROVE  TypeOK'
  <2>1. stop' \in [Stoppers -> StopStates]
    BY ZenonT(60), <1>26 DEF wait_await, SetStop
  <2>2. QED
    BY <1>26, <2>1 DEF wait_await, handleVars, hostVars, runnerVars, stopVars
<1>27. ASSUME NEW s \in Stoppers, drop_join(s)
      PROVE  TypeOK'
  BY <1>27 DEF drop_join, SetStop, handleVars, hostVars, runnerVars, stopVars
<1>28. ASSUME poll_one_tick_check
      PROVE  TypeOK'
  BY ZenonT(60), <1>28 DEF poll_one_tick_check, runnerFrame, hostVars, stopVars, runnerVars
<1>29. ASSUME poll_one_tick_deferred
      PROVE  TypeOK'
  BY <1>29
     DEF poll_one_tick_deferred, NextPoll, runnerFrame, hostVars, stopVars, runnerVars
<1>30. ASSUME poll_one_tick_idle
      PROVE  TypeOK'
  BY <1>30 DEF poll_one_tick_idle, runnerFrame, hostVars, stopVars, runnerVars
<1>31. ASSUME run_until_idle_recv
      PROVE  TypeOK'
  <2>1. /\ inbox' \in Seq(Messages) /\ Len(inbox') <= Capacity
        /\ Head(inbox) \in Messages
    BY <1>31, TailFacts DEF run_until_idle_recv
  <2>2. /\ shutdown' \in BOOLEAN /\ interrupt' \in BOOLEAN /\ self_shutdown' \in BOOLEAN
        /\ pc' \in RunnerPcs
        /\ cur' \in Commands \cup {None} /\ job' \in Ops \cup {None}
    BY ZenonT(60), <1>31, <2>1 DEF run_until_idle_recv, dispatch, AfterMessage, Messages
  <2>3. op' \in [Ops -> OpStates] /\ pending_host_ops' \in [Levels -> Nat]
    BY <1>31, ReceiveTyped DEF run_until_idle_recv
  <2>4. deferred_commands' \in Seq(Commands)
    <3>1. CASE Head(inbox) \in Commands /\ deferred_commands' = Append(deferred_commands, Head(inbox))
      BY <3>1, AppendFacts
    <3>2. CASE UNCHANGED deferred_commands
      BY <3>2
    <3>3. QED
      BY ZenonT(60), <1>31, <3>1, <3>2 DEF run_until_idle_recv
  <2>5. QED
    BY ZenonT(60), <1>31, <2>1, <2>2, <2>3, <2>4 DEF run_until_idle_recv, NextPoll, runnerFrame, stopVars
<1>32. ASSUME run_command_begin
      PROVE  TypeOK'
  <2>1. cur \in Commands
    BY <1>32 DEF run_command_begin, IInv, PcInv
  <2>2. cur \in QueueSlots
    BY <1>32, <2>1 DEF run_command_begin, QueueSlots
  <2>3. queued_commands # 0
    BY ZenonT(60), <2>2, SlotCounted
  <2>4. queued_commands' \in 0..Capacity /\ started' \in SUBSET Commands
    BY <1>32, <2>1, <2>3 DEF run_command_begin
  <2>5. QED
    BY ZenonT(60), <1>32, <2>4 DEF run_command_begin, runnerFrame, hostVars, stopVars
<1>33. ASSUME run_command_return
      PROVE  TypeOK'
  BY <1>33 DEF run_command_return, runnerFrame, hostVars, stopVars, runnerVars
<1>34. ASSUME drive_event_loop_to_idle
      PROVE  TypeOK'
  BY <1>34 DEF drive_event_loop_to_idle, runnerFrame, hostVars, stopVars, runnerVars
<1>35. ASSUME drive_event_loop_recv
      PROVE  TypeOK'
  <2>1. /\ inbox' \in Seq(Messages) /\ Len(inbox') <= Capacity
        /\ Head(inbox) \in Messages
    BY <1>35, TailFacts DEF drive_event_loop_recv, defer
  <2>2. /\ shutdown' \in BOOLEAN /\ interrupt' \in BOOLEAN /\ self_shutdown' \in BOOLEAN
        /\ pc' \in RunnerPcs
        /\ cur' \in Commands \cup {None} /\ job' \in Ops \cup {None}
    BY ZenonT(60), <1>35, <2>1 DEF drive_event_loop_recv, defer, dispatch, AfterMessage, Messages
  <2>3. op' \in [Ops -> OpStates] /\ pending_host_ops' \in [Levels -> Nat]
    BY ZenonT(60), <1>35, ReceiveTyped DEF drive_event_loop_recv, defer
  <2>4. deferred_commands' \in Seq(Commands)
    <3>1. CASE Head(inbox) \in Commands /\ deferred_commands' = Append(deferred_commands, Head(inbox))
      BY <3>1, AppendFacts
    <3>2. CASE UNCHANGED deferred_commands
      BY <3>2
    <3>3. QED
      BY ZenonT(60), <1>35, <3>1, <3>2 DEF drive_event_loop_recv, defer
  <2>5. QED
    BY ZenonT(60), <1>35, <2>1, <2>2, <2>3, <2>4 DEF drive_event_loop_recv, defer, NextPoll, runnerFrame, stopVars
<1>36. ASSUME process_message_finish
      PROVE  TypeOK'
  <2>1. op' \in [Ops -> OpStates]
    BY <1>36 DEF process_message_finish, SetOp
  <2>2. pending_host_ops' \in [Levels -> Nat]
    BY <1>36 DEF process_message_finish, decrement_liveness
  <2>3. QED
    BY ZenonT(60), <1>36, <2>1, <2>2 DEF process_message_finish, AfterMessage, runnerFrame,
       hostVars, stopVars, runnerVars
<1>37. ASSUME run_command_reply
      PROVE  TypeOK'
  BY ZenonT(60), <1>37 DEF run_command_reply, runnerFrame, hostVars, stopVars, runnerVars
<1>38. ASSUME isolate_drop
      PROVE  TypeOK'
  BY <1>38 DEF isolate_drop, handleVars, hostVars, runnerVars, stopVars
<1>39. ASSUME exit_guard_stop
      PROVE  TypeOK'
  BY <1>39 DEF exit_guard_stop, handleVars, hostVars, runnerVars, stopVars
<1>40. ASSUME exit_guard_notify
      PROVE  TypeOK'
  BY <1>40 DEF exit_guard_notify, handleVars, hostVars, runnerVars, stopVars
<1> HIDE <1>inv, ConstantsAssumption DEF TypeOK, Levels, ClientStates, OpStates,
        RunnerPcs, StopStates
<1>41. QED
  BY ZenonT(60), <1>1, <1>2, <1>3, <1>4, <1>5, <1>6, <1>7, <1>8, <1>9, <1>10, <1>11, <1>12, <1>13,
     <1>14, <1>15, <1>16, <1>17, <1>18, <1>19, <1>20, <1>21, <1>22, <1>23, <1>24,
     <1>25, <1>26, <1>27, <1>28, <1>29, <1>30, <1>31, <1>32, <1>33, <1>34, <1>35,
     <1>36, <1>37, <1>38, <1>39, <1>40
     DEF Next, Client, Delivery, Resolve, Script, Stopper, Runner

\* process_message on a received message goes where its kind says.
LEMMA DispatchPc ==
  ASSUME PcInv, pc \in {"take", "recv", "block"}, cur \in Commands \cup {None},
         NEW m, dispatch(m), UNCHANGED <<disconnected, started>>
  PROVE  PcInv'
<1>1. ~disconnected'
  BY DEF PcInv, Ended
<1>2. None \notin Commands
  BY ConstantsAssumption
<1>3. CASE m \in Commands /\ pc' = "begin" /\ cur' = m
  BY <1>1, <1>2, <1>3 DEF PcInv, Ended
<1>4. ASSUME cur' = cur PROVE (cur' # None /\ pc' # "begin") => cur' \in started'
  BY <1>4 DEF PcInv
<1>5. CASE pc' = "task" /\ job' \in Ops /\ cur' = cur
  BY <1>1, <1>4, <1>5 DEF PcInv, Ended
<1>6. CASE pc' = AfterMessage /\ cur' = cur
  BY <1>1, <1>2, <1>4, <1>6 DEF PcInv, Ended, AfterMessage
<1>7. CASE pc' = (IF cur = None THEN "exit" ELSE "reply") /\ cur' = cur
  BY ZenonT(60), <1>1, <1>2, <1>4, <1>7 DEF PcInv, Ended
<1>8. QED
  BY <1>3, <1>5, <1>6, <1>7 DEF dispatch

\* Where the isolate thread is decides what it holds.
LEMMA PcStep == IInv /\ [Next]_vars => PcInv'
<1> SUFFICES ASSUME IInv, [Next]_vars PROVE PcInv'
  OBVIOUS
<1>inv. /\ PcInv /\ cur \in Commands \cup {None}
        /\ deferred_commands \in Seq(Commands)
  BY DEF IInv, TypeOK
<1>none. None \notin Commands
  BY ConstantsAssumption
<1> USE <1>inv, <1>none DEF PcInv, Ended
<1>1. CASE UNCHANGED vars
  BY <1>1 DEF vars, handleVars, hostVars, runnerVars, stopVars
<1>2. ASSUME NEW c \in Commands, submit_check(c)
      PROVE  PcInv'
  BY <1>2 DEF submit_check, SetClient, handleVars, hostVars, runnerVars, stopVars
<1>3. ASSUME NEW c \in Commands, submit_reserve(c)
      PROVE  PcInv'
  BY <1>3 DEF submit_reserve, SetClient, handleVars, hostVars, runnerVars, stopVars
<1>4. ASSUME NEW c \in Commands, submit_send(c)
      PROVE  PcInv'
  BY <1>4
     DEF submit_send, SetClient, TrySendOk, TrySendFull, TrySendDisconnected,
         handleVars, hostVars, runnerVars, stopVars
<1>5. ASSUME NEW c \in Commands, submit_release(c)
      PROVE  PcInv'
  BY <1>5 DEF submit_release, SetClient, handleVars, hostVars, runnerVars, stopVars
<1>6. ASSUME NEW c \in Commands, await_reply_timeout(c)
      PROVE  PcInv'
  BY <1>6
     DEF await_reply_timeout, SetClient, handleVars, hostVars, runnerVars, stopVars
<1>7. ASSUME NEW c \in Commands, interrupt_post(c)
      PROVE  PcInv'
  BY <1>7
     DEF interrupt_post, SetClient, TrySendOk, TrySendFull, TrySendDisconnected,
         handleVars, hostVars, runnerVars, stopVars
<1>8. ASSUME NEW c \in Commands, abandon(c)
      PROVE  PcInv'
  BY <1>8 DEF abandon, SetClient, handleVars, hostVars, runnerVars, stopVars
<1>9. ASSUME NEW o \in Ops, enqueue_check(o)
      PROVE  PcInv'
  BY <1>9 DEF enqueue_check, SetOp, hostFrame, handleVars, runnerVars, stopVars
<1>10. ASSUME NEW o \in Ops, retain_host_activity(o)
      PROVE  PcInv'
  BY <1>10
     DEF retain_host_activity, increment_liveness, SetOp, hostFrame, handleVars,
         runnerVars, stopVars
<1>11. ASSUME NEW o \in Ops, post_internal_message(o)
      PROVE  PcInv'
  BY <1>11
     DEF post_internal_message, SetOp, TrySendOk, TrySendFull, TrySendDisconnected,
         hostFrame, handleVars, runnerVars, stopVars
<1>12. ASSUME NEW o \in Ops, retry_check(o)
      PROVE  PcInv'
  BY <1>12 DEF retry_check, SetOp, hostFrame, handleVars, runnerVars, stopVars
<1>13. ASSUME NEW o \in Ops, retry_send(o)
      PROVE  PcInv'
  BY <1>13
     DEF retry_send, SetOp, TrySendOk, TrySendFull, TrySendDisconnected, hostFrame,
         handleVars, runnerVars, stopVars
<1>14. ASSUME NEW o \in Ops, cancel_host_activity(o)
      PROVE  PcInv'
  BY <1>14
     DEF cancel_host_activity, decrement_liveness, SetOp, hostFrame, handleVars,
         runnerVars, stopVars
<1>15. ASSUME NEW o \in Ops, release_keep_alive(o)
      PROVE  PcInv'
  BY <1>15
     DEF release_keep_alive, decrement_liveness, hostFrame, handleVars, runnerVars,
         stopVars
<1>16. ASSUME NEW o \in Ops, prepare_remote_entry(o)
      PROVE  PcInv'
  BY <1>16
     DEF prepare_remote_entry, SetOp, hostFrame, handleVars, runnerVars, stopVars
<1>17. ASSUME NEW o \in Ops, graph_prepared_check(o)
      PROVE  PcInv'
  BY <1>17
     DEF graph_prepared_check, SetOp, hostFrame, handleVars, runnerVars, stopVars
<1>18. ASSUME NEW o \in Ops, graph_prepared_send(o)
      PROVE  PcInv'
  BY <1>18
     DEF graph_prepared_send, SetOp, TrySendOk, TrySendFull, TrySendDisconnected,
         hostFrame, handleVars, runnerVars, stopVars
<1>19. ASSUME NEW o \in Ops, promise_pending(o)
      PROVE  PcInv'
  BY <1>19
     DEF promise_pending, increment_liveness, SetOp, ExecutingJs, runnerFrame,
         hostVars, stopVars, runnerVars
<1>20. ASSUME NEW o \in Ops, dynamic_import_schedule(o)
      PROVE  PcInv'
  BY <1>20
     DEF dynamic_import_schedule, increment_liveness, SetOp, ExecutingJs, TrySendOk,
         TrySendFull, TrySendDisconnected, runnerFrame, hostVars, stopVars, runnerVars
<1>21. ASSUME NEW s \in Stoppers, shutdown_flag(s)
      PROVE  PcInv'
  BY <1>21 DEF shutdown_flag, SetStop, handleVars, hostVars, runnerVars, stopVars
<1>22. ASSUME NEW s \in Stoppers, shutdown_interrupt(s)
      PROVE  PcInv'
  BY <1>22 DEF shutdown_interrupt, SetStop, handleVars, hostVars, runnerVars, stopVars
<1>23. ASSUME NEW s \in Stoppers, shutdown_post(s)
      PROVE  PcInv'
  BY <1>23
     DEF shutdown_post, SetStop, TrySendOk, TrySendFull, TrySendDisconnected,
         handleVars, hostVars, runnerVars, stopVars
<1>24. ASSUME NEW s \in Stoppers, wait_register(s)
      PROVE  PcInv'
  BY <1>24 DEF wait_register, SetStop, handleVars, hostVars, runnerVars, stopVars
<1>25. ASSUME NEW s \in Stoppers, wait_check(s)
      PROVE  PcInv'
  BY <1>25 DEF wait_check, SetStop, handleVars, hostVars, runnerVars, stopVars
<1>26. ASSUME NEW s \in Stoppers, wait_await(s)
      PROVE  PcInv'
  BY <1>26 DEF wait_await, SetStop, handleVars, hostVars, runnerVars, stopVars
<1>27. ASSUME NEW s \in Stoppers, drop_join(s)
      PROVE  PcInv'
  BY <1>27 DEF drop_join, SetStop, handleVars, hostVars, runnerVars, stopVars
<1>28. ASSUME poll_one_tick_check
      PROVE  PcInv'
  BY <1>28 DEF poll_one_tick_check, runnerFrame, hostVars, stopVars, runnerVars
<1>29. ASSUME poll_one_tick_deferred
      PROVE  PcInv'
  BY <1>29
     DEF poll_one_tick_deferred, NextPoll, runnerFrame, hostVars, stopVars, runnerVars
<1>30. ASSUME poll_one_tick_idle
      PROVE  PcInv'
  BY <1>30 DEF poll_one_tick_idle, runnerFrame, hostVars, stopVars, runnerVars
<1>31. ASSUME run_until_idle_recv
      PROVE  PcInv'
  <2>1. /\ pc \in {"take", "recv", "block"} /\ dispatch(Head(inbox))
        /\ UNCHANGED <<disconnected, started>>
    BY <1>31 DEF run_until_idle_recv, runnerFrame
  <2>2. QED
    BY <2>1, DispatchPc
<1>32. ASSUME run_command_begin
      PROVE  PcInv'
  BY <1>32 DEF run_command_begin, runnerFrame, hostVars, stopVars, runnerVars
<1>33. ASSUME run_command_return
      PROVE  PcInv'
  BY <1>33 DEF run_command_return, runnerFrame, hostVars, stopVars, runnerVars
<1>34. ASSUME drive_event_loop_to_idle
      PROVE  PcInv'
  BY <1>34 DEF drive_event_loop_to_idle, runnerFrame, hostVars, stopVars, runnerVars
<1>35. ASSUME drive_event_loop_recv
      PROVE  PcInv'
  <2>1. CASE defer(Head(inbox))
    BY <1>35, <2>1 DEF drive_event_loop_recv, defer, runnerFrame
  <2>2. CASE dispatch(Head(inbox)) /\ receive(Head(inbox))
    <3>1. pc \in {"take", "recv", "block"} /\ UNCHANGED <<disconnected, started>>
      BY <1>35 DEF drive_event_loop_recv, runnerFrame
    <3>2. QED
      BY <2>2, <3>1, DispatchPc
  <2>3. QED
    BY <1>35, <2>1, <2>2 DEF drive_event_loop_recv
<1>36. ASSUME process_message_finish
      PROVE  PcInv'
  BY <1>36
     DEF process_message_finish, SetOp, decrement_liveness, AfterMessage, runnerFrame,
         hostVars, stopVars, runnerVars
<1>37. ASSUME run_command_reply
      PROVE  PcInv'
  BY <1>37 DEF run_command_reply, runnerFrame, hostVars, stopVars, runnerVars
<1>38. ASSUME isolate_drop
      PROVE  PcInv'
  BY <1>38 DEF isolate_drop, handleVars, hostVars, runnerVars, stopVars
<1>39. ASSUME exit_guard_stop
      PROVE  PcInv'
  BY <1>39 DEF exit_guard_stop, handleVars, hostVars, runnerVars, stopVars
<1>40. ASSUME exit_guard_notify
      PROVE  PcInv'
  BY <1>40 DEF exit_guard_notify, handleVars, hostVars, runnerVars, stopVars
<1> HIDE <1>inv, <1>none DEF PcInv, Ended
<1>41. QED
  BY ZenonT(60), <1>1, <1>2, <1>3, <1>4, <1>5, <1>6, <1>7, <1>8, <1>9, <1>10, <1>11, <1>12, <1>13,
     <1>14, <1>15, <1>16, <1>17, <1>18, <1>19, <1>20, <1>21, <1>22, <1>23, <1>24,
     <1>25, <1>26, <1>27, <1>28, <1>29, <1>30, <1>31, <1>32, <1>33, <1>34, <1>35,
     <1>36, <1>37, <1>38, <1>39, <1>40
     DEF Next, Client, Delivery, Resolve, Script, Stopper, Runner

-----------------------------------------------------------------------------
(* The two queues.                                                          *)

\* Receiving from the inbox takes its oldest message and keeps the order.
LEMMA TailInbox ==
  ASSUME TypeOK, InboxOrder, inbox # <<>>, inbox' = Tail(inbox), ticket' = ticket
  PROVE  /\ \A c \in Commands : InInbox(c) <=> c = Head(inbox) \/ InInbox(c)'
         /\ InboxOrder'
         /\ \A t \in Nat :
               /\ BeforeInbox(t) => /\ BeforeInbox(t)'
                                    /\ Head(inbox) \in Commands => t < ticket[Head(inbox)]
               /\ (Head(inbox) \in Commands /\ t = ticket[Head(inbox)]) => BeforeInbox(t)'
<1>1. /\ inbox \in Seq(Messages)
      /\ Head(inbox) = inbox[1] /\ Len(inbox) \in Nat \ {0}
      /\ Len(inbox') = Len(inbox) - 1
      /\ \A i \in 1..Len(inbox') : inbox'[i] = inbox[i + 1]
  BY TailFacts DEF TypeOK
<1>2. ASSUME NEW c \in Commands PROVE InInbox(c) <=> c = Head(inbox) \/ InInbox(c)'
  <2>1. ASSUME NEW i \in 1..Len(inbox), inbox[i] = c, i # 1
        PROVE  InInbox(c)'
    <3>1. i - 1 \in 1..Len(inbox') /\ inbox'[i - 1] = c
      BY <1>1, <2>1
    <3>2. QED
      BY ZenonT(60), <3>1 DEF InInbox
  <2>2. ASSUME NEW i \in 1..Len(inbox'), inbox'[i] = c
        PROVE  InInbox(c)
    <3>1. i + 1 \in 1..Len(inbox) /\ inbox[i + 1] = c
      BY <1>1, <2>2
    <3>2. QED
      BY <3>1 DEF InInbox
  <2>3. QED
    BY <1>1, <2>1, <2>2 DEF InInbox
<1>3. InboxOrder'
  <2> SUFFICES ASSUME NEW i \in 1..Len(inbox'), NEW j \in 1..Len(inbox'), i < j,
                      inbox'[i] \in Commands, inbox'[j] \in Commands
               PROVE  ticket[inbox'[i]] < ticket[inbox'[j]]
    BY DEF InboxOrder
  <2>1. i + 1 \in 1..Len(inbox) /\ j + 1 \in 1..Len(inbox) /\ i + 1 < j + 1
    BY <1>1
  <2>2. QED
    BY <1>1, <2>1 DEF InboxOrder
<1>4. ASSUME NEW t \in Nat
      PROVE  /\ BeforeInbox(t) => /\ BeforeInbox(t)'
                                  /\ Head(inbox) \in Commands => t < ticket[Head(inbox)]
             /\ (Head(inbox) \in Commands /\ t = ticket[Head(inbox)]) => BeforeInbox(t)'
  <2>1. \A i \in 1..Len(inbox') : i + 1 \in 1..Len(inbox) /\ 1 < i + 1
    BY <1>1
  <2>2. QED
    BY <1>1, <2>1 DEF BeforeInbox, InboxOrder
<1>5. QED
  BY <1>2, <1>3, <1>4

\* A message that is no command changes nothing for the commands.
LEMMA AppendInboxOther ==
  ASSUME TypeOK, InboxOrder, NEW m \in Messages \ Commands, inbox' = Append(inbox, m),
         ticket' = ticket
  PROVE  /\ \A c \in Commands : InInbox(c) <=> InInbox(c)'
         /\ InboxOrder'
         /\ \A t \in Nat : BeforeInbox(t) => BeforeInbox(t)'
<1>1. /\ Len(inbox) \in Nat /\ Len(inbox') = Len(inbox) + 1
      /\ \A i \in 1..Len(inbox) : inbox'[i] = inbox[i]
      /\ inbox'[Len(inbox) + 1] = m
  BY AppendFacts DEF TypeOK
<1>2. \A i \in 1..Len(inbox') : inbox'[i] \in Commands => i \in 1..Len(inbox)
  BY <1>1
<1>3. \A i \in 1..Len(inbox) : i \in 1..Len(inbox')
  BY <1>1
<1>4. QED
  BY <1>1, <1>2, <1>3 DEF InInbox, InboxOrder, BeforeInbox

\* A command that enters the inbox takes the highest ticket.
LEMMA AppendInboxCommand ==
  ASSUME TypeOK, TicketInv, InboxOrder, BeforeInbox(0), NEW c \in Commands, ticket[c] = 0,
         inbox' = Append(inbox, c), ticket' = [ticket EXCEPT ![c] = accepted + 1]
  PROVE  /\ \A d \in Commands : InInbox(d)' <=> d = c \/ InInbox(d)
         /\ InboxOrder'
         /\ \A t \in Nat : (BeforeInbox(t) /\ t <= accepted) => BeforeInbox(t)'
<1>1. /\ Len(inbox) \in Nat /\ Len(inbox') = Len(inbox) + 1
      /\ \A i \in 1..Len(inbox) : inbox'[i] = inbox[i]
      /\ inbox'[Len(inbox) + 1] = c
  BY AppendFacts DEF TypeOK, Messages
<1>2. \A i \in 1..Len(inbox') : i \in 1..Len(inbox) \/ i = Len(inbox) + 1
  BY <1>1
<1>3. \A i \in 1..Len(inbox) : i \in 1..Len(inbox') /\ i < Len(inbox) + 1
  BY <1>1
<1>4. \A i \in 1..Len(inbox) :
         inbox[i] \in Commands => /\ inbox[i] # c
                                  /\ ticket'[inbox[i]] = ticket[inbox[i]]
                                  /\ ticket[inbox[i]] <= accepted
  BY DEF BeforeInbox, TypeOK, TicketInv
<1>5. ticket'[c] = accepted + 1 /\ accepted \in Nat
  BY DEF TypeOK
<1>6. \A d \in Commands : InInbox(d)' <=> d = c \/ InInbox(d)
  <2>1. Len(inbox) + 1 \in 1..Len(inbox')
    BY <1>1
  <2>2. QED
    BY <1>1, <1>2, <1>3, <2>1 DEF InInbox
<1>7. InboxOrder'
  <2> SUFFICES ASSUME NEW i \in 1..Len(inbox'), NEW j \in 1..Len(inbox'), i < j,
                      inbox'[i] \in Commands, inbox'[j] \in Commands
               PROVE  ticket'[inbox'[i]] < ticket'[inbox'[j]]
    BY DEF InboxOrder
  <2>1. i \in 1..Len(inbox)
    BY <1>1
  <2>2. CASE j \in 1..Len(inbox)
    BY <1>1, <1>4, <2>1, <2>2 DEF InboxOrder
  <2>3. CASE j = Len(inbox) + 1
    <3>1. ticket[inbox[i]] \in Nat
      BY <1>1, <2>1 DEF TypeOK
    <3>2. QED
      BY <1>1, <1>4, <1>5, <2>1, <2>3, <3>1
  <2>4. QED
    BY <1>2, <2>2, <2>3
<1>8. ASSUME NEW t \in Nat, BeforeInbox(t), t <= accepted PROVE BeforeInbox(t)'
  BY <1>1, <1>2, <1>4, <1>5, <1>8 DEF BeforeInbox
<1>9. QED
  BY <1>6, <1>7, <1>8

\* pop_front of the deferred queue.
LEMMA TailDeferred ==
  ASSUME TypeOK, DeferredOrder, deferred_commands # <<>>,
         deferred_commands' = Tail(deferred_commands), ticket' = ticket
  PROVE  /\ Head(deferred_commands) \in Commands
         /\ \A c \in Commands :
               InDeferred(c) <=> c = Head(deferred_commands) \/ InDeferred(c)'
         /\ DeferredOrder'
         /\ \A t \in Nat :
               /\ BeforeDeferred(t) =>
                     BeforeDeferred(t)' /\ t < ticket[Head(deferred_commands)]
               /\ t = ticket[Head(deferred_commands)] => BeforeDeferred(t)'
         /\ \A i \in 1..Len(deferred_commands') :
               \E j \in 1..Len(deferred_commands) :
                   deferred_commands'[i] = deferred_commands[j]
         /\ \E j \in 1..Len(deferred_commands) :
               Head(deferred_commands) = deferred_commands[j]
<1> DEFINE q == deferred_commands
<1>1. /\ q \in Seq(Commands) /\ Head(q) \in Commands
      /\ Head(q) = q[1] /\ Len(q) \in Nat \ {0}
      /\ Len(q') = Len(q) - 1
      /\ \A i \in 1..Len(q') : q'[i] = q[i + 1]
  BY TailFacts DEF TypeOK
<1>2. \A i \in 1..Len(q') : i + 1 \in 1..Len(q) /\ 1 < i + 1
  BY <1>1
<1>3. \A i \in 1..Len(q) : i = 1 \/ (i - 1 \in 1..Len(q') /\ q'[i - 1] = q[i])
  BY <1>1
<1>4. 1 \in 1..Len(q)
  BY <1>1
<1>5. \A c \in Commands : InDeferred(c) <=> c = Head(q) \/ InDeferred(c)'
  BY ZenonT(60), <1>1, <1>2, <1>3, <1>4 DEF InDeferred
<1>6. DeferredOrder'
  <2> SUFFICES ASSUME NEW i \in 1..Len(q'), NEW j \in 1..Len(q'), i < j
               PROVE  ticket[q'[i]] < ticket[q'[j]]
    BY DEF DeferredOrder
  <2>1. i + 1 \in 1..Len(q) /\ j + 1 \in 1..Len(q) /\ i + 1 < j + 1
    BY <1>1
  <2>2. QED
    BY <1>1, <2>1 DEF DeferredOrder
<1>7. QED
  BY <1>1, <1>2, <1>4, <1>5, <1>6 DEF BeforeDeferred, DeferredOrder

\* push_back on the deferred queue.
LEMMA AppendDeferred ==
  ASSUME TypeOK, DeferredOrder, NEW c \in Commands, BeforeDeferred(0),
         \A i \in 1..Len(deferred_commands) : ticket[deferred_commands[i]] < ticket[c],
         deferred_commands' = Append(deferred_commands, c), ticket' = ticket
  PROVE  /\ \A d \in Commands : InDeferred(d)' <=> d = c \/ InDeferred(d)
         /\ DeferredOrder'
         /\ \A t \in Nat : (BeforeDeferred(t) /\ t < ticket[c]) => BeforeDeferred(t)'
         /\ \A i \in 1..Len(deferred_commands') :
               \/ deferred_commands'[i] = c
               \/ \E j \in 1..Len(deferred_commands) :
                      deferred_commands'[i] = deferred_commands[j]
<1> DEFINE q == deferred_commands
<1>1. /\ Len(q) \in Nat /\ Len(q') = Len(q) + 1
      /\ \A i \in 1..Len(q) : q'[i] = q[i]
      /\ q'[Len(q) + 1] = c
  BY AppendFacts DEF TypeOK
<1>2. \A i \in 1..Len(q') : i \in 1..Len(q) \/ i = Len(q) + 1
  BY <1>1
<1>3. \A i \in 1..Len(q) : i \in 1..Len(q')
  BY <1>1
<1>4. Len(q) + 1 \in 1..Len(q')
  BY <1>1
<1>5. DeferredOrder'
  <2> SUFFICES ASSUME NEW i \in 1..Len(q'), NEW j \in 1..Len(q'), i < j
               PROVE  ticket[q'[i]] < ticket[q'[j]]
    BY DEF DeferredOrder
  <2>1. i \in 1..Len(q)
    BY <1>1
  <2>2. QED
    BY <1>1, <1>2, <2>1 DEF DeferredOrder
<1>6. QED
  BY <1>1, <1>2, <1>3, <1>4, <1>5 DEF InDeferred, BeforeDeferred

-----------------------------------------------------------------------------
(* Steps, as the command queue sees them.                                   *)

QueueInv == /\ TicketInv /\ OrderInv /\ PlacedInv /\ SlotInv
            /\ FifoExecution /\ NoRecursiveCommand /\ NoLostCommand

Slot == {"reserved", "release"}

\* A step that moves no command: other messages may come and go.
Quiet ==
    /\ UNCHANGED <<disconnected, deferred_commands, queued_commands, ticket,
                   accepted, started, cur>>
    /\ \/ inbox' = inbox
       \/ \E m \in Messages \ Commands : inbox' = Append(inbox, m)
       \/ inbox # <<>> /\ Head(inbox) \notin Commands /\ inbox' = Tail(inbox)
    /\ pc' = "begin" <=> pc = "begin"
    /\ \A c \in Commands :
          /\ client'[c] \in Unsent <=> client[c] \in Unsent
          /\ client'[c] \in Slot <=> client[c] \in Slot
          /\ client'[c] = "waiting" => client[c] = "waiting"

\* A quiet step keeps the order and the accounting of commands.
LEMMA QuietStep == IInv /\ Quiet => QueueInv'
<1> SUFFICES ASSUME IInv, Quiet PROVE QueueInv'
  OBVIOUS
<1> USE DEF IInv
<1>1. /\ \A c \in Commands : InInbox(c) <=> InInbox(c)'
      /\ InboxOrder'
      /\ \A t \in Nat : BeforeInbox(t) => BeforeInbox(t)'
  <2>1. CASE inbox' = inbox
    BY <2>1 DEF Quiet, InInbox, InboxOrder, BeforeInbox, OrderInv
  <2>2. CASE \E m \in Messages \ Commands : inbox' = Append(inbox, m)
    BY <2>2, AppendInboxOther DEF Quiet, OrderInv
  <2>3. CASE inbox # <<>> /\ Head(inbox) \notin Commands /\ inbox' = Tail(inbox)
    BY <2>3, TailInbox DEF Quiet, OrderInv
  <2>4. QED
    BY <2>1, <2>2, <2>3 DEF Quiet
<1>2. /\ \A c \in Commands : InDeferred(c)' <=> InDeferred(c)
      /\ DeferredOrder' <=> DeferredOrder
      /\ \A t \in Nat : BeforeDeferred(t)' <=> BeforeDeferred(t)
  BY DEF Quiet, InDeferred, DeferredOrder, BeforeDeferred
<1>3. TicketInv'
  BY DEF Quiet, TicketInv
<1>4. OrderInv'
  <2>1. \A i \in 1..Len(deferred_commands) : ticket[deferred_commands[i]] \in Nat
    BY DEF TypeOK
  <2>2. \A c \in Commands : ticket[c] \in Nat
    BY DEF TypeOK
  <2>3. \A i \in 1..Len(deferred_commands') : BeforeInbox(ticket[deferred_commands[i]])'
    BY <1>1, <2>1 DEF Quiet, OrderInv
  <2>4. pc' = "begin" => cur \in Commands
    BY DEF Quiet, PcInv
  <2>5. QED
    BY ZenonT(60), <1>1, <1>2, <2>1, <2>2, <2>3, <2>4 DEF Quiet, OrderInv, TypeOK
<1>5. PlacedInv'
  BY <1>1, <1>2 DEF Quiet, PlacedInv
<1>6. QueueSlots' = QueueSlots
  BY <1>1, <1>2 DEF Quiet, QueueSlots, Slot
<1>7. SlotInv'
  BY <1>6 DEF Quiet, SlotInv
<1>8. FifoExecution'
  BY DEF Quiet, FifoExecution
<1>9. NoRecursiveCommand' /\ NoLostCommand'
  BY <1>1, <1>2 DEF Quiet, NoRecursiveCommand, NoLostCommand, TypeOK
<1>10. QED
  BY <1>3, <1>4, <1>5, <1>7, <1>8, <1>9 DEF QueueInv

\* A command whose ticket comes before every queued one is in no queue.
LEMMA NotQueued ==
  ASSUME NEW c \in Commands, ticket[c] \in Nat,
         BeforeInbox(ticket[c]), BeforeDeferred(ticket[c])
  PROVE  ~InInbox(c) /\ ~InDeferred(c)
<1>1. ~InInbox(c)
  BY DEF InInbox, BeforeInbox
<1>2. ~InDeferred(c)
  BY DEF InDeferred, BeforeDeferred
<1>3. QED
  BY <1>1, <1>2

\* A submit claims a slot.
LEMMA ReserveStep ==
  ASSUME IInv, NEW c \in Commands, submit_reserve(c), queued_commands < Capacity
  PROVE  QueueInv'
<1> USE DEF IInv
<1>1. /\ client[c] = "checked" /\ client' = [client EXCEPT ![c] = "reserved"]
      /\ queued_commands' = queued_commands + 1
      /\ UNCHANGED <<inbox, disconnected, deferred_commands, ticket, accepted,
                     started, cur, pc>>
  BY ConstantsAssumption DEF submit_reserve, SetClient, runnerVars, TypeOK
<1>2. /\ \A d : InInbox(d)' <=> InInbox(d)
      /\ \A d : InDeferred(d)' <=> InDeferred(d)
  BY <1>1 DEF InInbox, InDeferred
<1>3. TicketInv' /\ FifoExecution' /\ NoRecursiveCommand' /\ NoLostCommand' /\ PlacedInv'
  BY <1>1, <1>2
     DEF TicketInv, Unsent, FifoExecution, NoRecursiveCommand, NoLostCommand, PlacedInv,
         TypeOK
<1>4. OrderInv'
  BY <1>1 DEF OrderInv, InboxOrder, DeferredOrder, BeforeInbox, BeforeDeferred
<1>5. ticket[c] = 0
  BY <1>1 DEF TicketInv, Unsent
<1>6. c \notin QueueSlots
  <2>1. ~InInbox(c) /\ ~InDeferred(c)
    <3>1. BeforeInbox(0) /\ BeforeDeferred(0)
      BY DEF OrderInv
    <3> HIDE DEF IInv
    <3>2. QED
      BY <1>5, <3>1, NotQueued
  <2>2. QED
    BY <1>1, <1>5, <2>1 DEF QueueSlots, OrderInv
<1>7. QueueSlots' = QueueSlots \cup {c}
  BY <1>1, <1>2 DEF QueueSlots, TypeOK
<1>8. SlotInv'
  <2>1. Cardinality(QueueSlots') = Cardinality(QueueSlots) + 1
    BY <1>6, <1>7, SlotsFinite, FS_AddElement
  <2>2. QED
    BY <1>1, <2>1, SlotsFinite DEF SlotInv, TypeOK
<1>9. QED
  BY <1>3, <1>4, <1>8 DEF QueueInv

\* The inbox accepts a command.
LEMMA SendStep ==
  ASSUME IInv, NEW c \in Commands, submit_send(c), TrySendOk(c)
  PROVE  QueueInv'
<1> USE DEF IInv
<1>1. /\ client[c] = "reserved" /\ client' = [client EXCEPT ![c] = "waiting"]
      /\ accepted' = accepted + 1 /\ ticket' = [ticket EXCEPT ![c] = accepted + 1]
      /\ inbox' = Append(inbox, c) /\ ~disconnected
      /\ UNCHANGED <<disconnected, deferred_commands, queued_commands, started,
                     cur, pc>>
  BY DEF submit_send, SetClient, TrySendOk, TrySendFull, TrySendDisconnected, runnerVars
<1>2. ticket[c] = 0 /\ c \notin started
  BY <1>1 DEF TicketInv, Unsent
<1>3. /\ \A d \in Commands : InInbox(d)' <=> d = c \/ InInbox(d)
      /\ InboxOrder'
      /\ \A t \in Nat : (BeforeInbox(t) /\ t <= accepted) => BeforeInbox(t)'
  BY ZenonT(60), <1>1, <1>2, AppendInboxCommand DEF OrderInv
<1>4. /\ \A d : InDeferred(d)' <=> InDeferred(d)
      /\ \A i \in 1..Len(deferred_commands) :
            deferred_commands[i] \in Commands /\ deferred_commands[i] # c
  BY <1>1, <1>2 DEF InDeferred, OrderInv, BeforeDeferred, TypeOK
<1>5. \A d \in Commands \ {c} : ticket'[d] = ticket[d]
  BY <1>1 DEF TypeOK
<1>6. ticket'[c] = accepted + 1 /\ accepted \in Nat
  BY <1>1 DEF TypeOK
<1>7. \A d \in Commands : ticket[d] \in Nat /\ ticket[d] <= accepted
  BY DEF TypeOK, TicketInv
<1>8. TicketInv'
  BY <1>1, <1>5, <1>6, <1>7 DEF TicketInv, Unsent, TypeOK
<1>9. OrderInv'
  <2>1. /\ DeferredOrder'
        /\ \A t : BeforeDeferred(t)' <=> BeforeDeferred(t)
    BY <1>1, <1>4, <1>5 DEF DeferredOrder, BeforeDeferred, OrderInv
  <2>2. \A i \in 1..Len(deferred_commands') : BeforeInbox(ticket[deferred_commands[i]])'
    <3> SUFFICES ASSUME NEW i \in 1..Len(deferred_commands)
                 PROVE  BeforeInbox(ticket[deferred_commands[i]])'
      BY <1>1
    <3>1. ticket'[deferred_commands'[i]] = ticket[deferred_commands[i]]
      BY <1>1, <1>4, <1>5
    <3>2. BeforeInbox(ticket[deferred_commands[i]])
      BY DEF OrderInv
    <3>3. ticket[deferred_commands[i]] \in Nat /\ ticket[deferred_commands[i]] <= accepted
      BY <1>4, <1>7
    <3>4. QED
      BY ZenonT(60), <1>3, <3>1, <3>2, <3>3
  <2>3. pc' = "begin" => /\ 0 < ticket'[cur']
                         /\ BeforeInbox(ticket[cur])' /\ BeforeDeferred(ticket[cur])'
    <3> SUFFICES ASSUME pc' = "begin"
                 PROVE  /\ 0 < ticket'[cur']
                        /\ BeforeInbox(ticket[cur])' /\ BeforeDeferred(ticket[cur])'
      OBVIOUS
    <3>1. cur \in Commands /\ cur # c /\ ticket'[cur'] = ticket[cur]
      BY <1>1, <1>2, <1>5 DEF PcInv, OrderInv
    <3>2. QED
      BY ZenonT(60), <1>1, <1>3, <1>7, <2>1, <3>1 DEF OrderInv
  <2>4. \A d \in started' :
            /\ BeforeInbox(ticket[d])' /\ BeforeDeferred(ticket[d])'
            /\ pc' = "begin" => ticket'[d] < ticket'[cur']
    <3> SUFFICES ASSUME NEW d \in started
                 PROVE  /\ BeforeInbox(ticket[d])' /\ BeforeDeferred(ticket[d])'
                        /\ pc' = "begin" => ticket'[d] < ticket'[cur']
      BY <1>1
    <3>1. d \in Commands /\ ticket'[d] = ticket[d]
      BY <1>2, <1>5 DEF TypeOK
    <3>2. pc' = "begin" => ticket'[cur'] = ticket[cur]
      BY <1>1, <1>2, <1>5 DEF PcInv, OrderInv
    <3>3. QED
      BY ZenonT(60), <1>1, <1>3, <1>7, <2>1, <3>1, <3>2 DEF OrderInv
  <2>5. BeforeInbox(0)' /\ BeforeDeferred(0)'
    BY <1>3, <1>6, <2>1 DEF OrderInv
  <2>6. QED
    BY ZenonT(60), <1>3, <2>1, <2>2, <2>3, <2>4, <2>5 DEF OrderInv
<1>10. PlacedInv'
  BY <1>1, <1>3, <1>4, <1>5 DEF PlacedInv
<1>11. QueueSlots' = QueueSlots
  BY <1>1, <1>3, <1>4 DEF QueueSlots, TypeOK
<1>12. SlotInv'
  BY ZenonT(60), <1>1, <1>11 DEF SlotInv
<1>13. FifoExecution'
  BY <1>1, <1>2, <1>5, <1>6, <1>7 DEF FifoExecution, TypeOK
<1>14. NoRecursiveCommand' /\ NoLostCommand'
  BY <1>1, <1>2, <1>3, <1>4 DEF NoRecursiveCommand, NoLostCommand, TypeOK
<1>15. QED
  BY ZenonT(60), <1>8, <1>9, <1>10, <1>12, <1>13, <1>14 DEF QueueInv

\* A refused submit gives its slot back.
LEMMA ReleaseStep ==
  ASSUME IInv, NEW c \in Commands, submit_release(c)
  PROVE  QueueInv'
<1> USE DEF IInv
<1>1. /\ client[c] = "release" /\ client' = [client EXCEPT ![c] = "refused"]
      /\ queued_commands' = queued_commands - 1
      /\ UNCHANGED <<inbox, disconnected, deferred_commands, ticket, accepted,
                     started, cur, pc>>
  BY DEF submit_release, SetClient, runnerVars
<1>2. /\ \A d : InInbox(d)' <=> InInbox(d)
      /\ \A d : InDeferred(d)' <=> InDeferred(d)
  BY <1>1 DEF InInbox, InDeferred
<1>3. TicketInv' /\ FifoExecution' /\ NoRecursiveCommand' /\ NoLostCommand' /\ PlacedInv'
  BY <1>1, <1>2
     DEF TicketInv, Unsent, FifoExecution, NoRecursiveCommand, NoLostCommand, PlacedInv,
         TypeOK
<1>4. OrderInv'
  BY ZenonT(60), <1>1 DEF OrderInv, InboxOrder, DeferredOrder, BeforeInbox, BeforeDeferred
<1>5. ticket[c] = 0
  BY <1>1 DEF TicketInv, Unsent
<1>6. ~InInbox(c) /\ ~InDeferred(c) /\ (pc = "begin" => cur # c)
  <2>1. ~(0 < ticket[c])
    BY ONLY <1>5
  <2>2. InInbox(c) => 0 < ticket[c]
    BY ZenonT(60) DEF OrderInv, BeforeInbox, InInbox
  <2>3. InDeferred(c) => 0 < ticket[c]
    BY ZenonT(60) DEF OrderInv, BeforeDeferred, InDeferred
  <2>4. pc = "begin" /\ cur = c => 0 < ticket[c]
    BY ZenonT(60) DEF OrderInv
  <2>5. QED
    BY ZenonT(60), <2>1, <2>2, <2>3, <2>4
<1>7. QueueSlots' = QueueSlots \ {c} /\ c \in QueueSlots
  BY <1>1, <1>2, <1>6 DEF QueueSlots, TypeOK
<1>8. SlotInv'
  <2>1. Cardinality(QueueSlots') = Cardinality(QueueSlots) - 1
    BY <1>7, SlotsFinite, FS_RemoveElement
  <2>2. QED
    BY <1>1, <2>1, SlotsFinite DEF SlotInv, TypeOK
<1>9. QED
  BY <1>3, <1>4, <1>8 DEF QueueInv

\* poll_one_tick takes the oldest deferred command.
LEMMA TakeDeferredStep ==
  ASSUME IInv, poll_one_tick_deferred
  PROVE  QueueInv'
<1> USE DEF IInv
<1> DEFINE h == Head(deferred_commands)
<1>1. /\ pc = "take" /\ pc' = "begin" /\ cur = None /\ cur' = h
      /\ deferred_commands # <<>> /\ deferred_commands' = Tail(deferred_commands)
      /\ UNCHANGED <<inbox, disconnected, queued_commands, ticket, accepted, started,
                     client>>
  BY DEF poll_one_tick_deferred, runnerFrame, PcInv
<1>2. /\ h \in Commands
      /\ \A c \in Commands : InDeferred(c) <=> c = h \/ InDeferred(c)'
      /\ DeferredOrder'
      /\ \A t \in Nat : /\ BeforeDeferred(t) => BeforeDeferred(t)' /\ t < ticket[h]
                        /\ t = ticket[h] => BeforeDeferred(t)'
      /\ \A i \in 1..Len(deferred_commands') :
            \E j \in 1..Len(deferred_commands) :
                deferred_commands'[i] = deferred_commands[j]
      /\ \E j \in 1..Len(deferred_commands) : h = deferred_commands[j]
  BY <1>1, TailDeferred DEF OrderInv
<1>3. /\ \A c : InInbox(c)' <=> InInbox(c)
      /\ InboxOrder' <=> InboxOrder
      /\ \A t : BeforeInbox(t)' <=> BeforeInbox(t)
  BY <1>1 DEF InInbox, InboxOrder, BeforeInbox
<1>4. /\ \A c \in Commands : ticket[c] \in Nat
      /\ started \subseteq Commands
  BY DEF TypeOK
<1>5. TicketInv' /\ FifoExecution'
  BY <1>1 DEF TicketInv, FifoExecution
<1>6. OrderInv'
  <2>1. \A i \in 1..Len(deferred_commands') : BeforeInbox(ticket[deferred_commands[i]])'
    BY ZenonT(60), <1>1, <1>2, <1>3 DEF OrderInv
  <2>2. /\ 0 < ticket'[cur']
        /\ BeforeInbox(ticket[cur])' /\ BeforeDeferred(ticket[cur])'
    <3>1. BeforeInbox(ticket[h]) /\ ticket[h] \in Nat
      BY <1>2, <1>4 DEF OrderInv
    <3>2. ticket'[cur'] = ticket[h]
      BY <1>1
    <3>3. 0 < ticket[h]
      BY <1>2 DEF OrderInv
    <3>4. QED
      BY ZenonT(60), <1>2, <1>3, <3>1, <3>2, <3>3
  <2>3. \A c \in started' :
            /\ BeforeInbox(ticket[c])' /\ BeforeDeferred(ticket[c])'
            /\ ticket'[c] < ticket'[cur']
    BY <1>1, <1>2, <1>3, <1>4 DEF OrderInv
  <2>4. BeforeInbox(0)' /\ BeforeDeferred(0)'
    BY ZenonT(60), <1>2, <1>3 DEF OrderInv
  <2>5. QED
    BY ZenonT(60), <1>2, <1>3, <2>1, <2>2, <2>3, <2>4 DEF OrderInv
<1>7. PlacedInv'
  BY <1>1, <1>2, <1>3 DEF PlacedInv
<1>8. QueueSlots' = QueueSlots
  BY <1>1, <1>2, <1>3 DEF QueueSlots
<1>9. SlotInv'
  BY <1>1, <1>8 DEF SlotInv
<1>10. NoRecursiveCommand' /\ NoLostCommand'
  BY ZenonT(60), <1>1, <1>2, <1>3, <1>4, ConstantsAssumption DEF NoRecursiveCommand, NoLostCommand
<1>11. QED
  BY <1>5, <1>6, <1>7, <1>9, <1>10 DEF QueueInv

\* The inbox hands a command to process_message; nothing is deferred then.
LEMMA ReceiveStep ==
  ASSUME IInv, run_until_idle_recv, Head(inbox) \in Commands
  PROVE  QueueInv'
<1> USE DEF IInv
<1> DEFINE h == Head(inbox)
<1>1. /\ pc' = "begin" /\ cur = None /\ cur' = h /\ pc # "begin"
      /\ inbox # <<>> /\ inbox' = Tail(inbox)
      /\ deferred_commands = <<>>
      /\ UNCHANGED <<deferred_commands, disconnected, queued_commands, ticket, accepted,
                     started, client>>
  BY ConstantsAssumption DEF run_until_idle_recv, dispatch, runnerFrame, PcInv
<1>2. /\ h \in Commands
      /\ \A c \in Commands : InInbox(c) <=> c = h \/ InInbox(c)'
      /\ InboxOrder'
      /\ \A t \in Nat : /\ BeforeInbox(t) => BeforeInbox(t)' /\ t < ticket[h]
                        /\ t = ticket[h] => BeforeInbox(t)'
  BY <1>1, TailInbox DEF OrderInv
<1>3. /\ \A c : InDeferred(c)' <=> InDeferred(c)
      /\ DeferredOrder' /\ \A t : BeforeDeferred(t)'
      /\ Len(deferred_commands') = 0
  BY <1>1 DEF InDeferred, DeferredOrder, BeforeDeferred
<1>4. /\ \A c \in Commands : ticket[c] \in Nat
      /\ started \subseteq Commands
  BY DEF TypeOK
<1>5. TicketInv' /\ FifoExecution'
  BY <1>1 DEF TicketInv, FifoExecution
<1>6. OrderInv'
  <2>1. /\ 0 < ticket'[cur']
        /\ BeforeInbox(ticket[cur])'
    <3>1. ticket'[cur'] = ticket[h] /\ ticket[h] \in Nat
      BY <1>1, <1>2, <1>4
    <3>2. QED
      BY <1>2, <3>1 DEF OrderInv
  <2>2. \A c \in started' : BeforeInbox(ticket[c])' /\ ticket'[c] < ticket'[cur']
    BY <1>1, <1>2, <1>4 DEF OrderInv
  <2>3. BeforeInbox(0)'
    BY <1>2 DEF OrderInv
  <2>4. QED
    BY <1>2, <1>3, <2>1, <2>2, <2>3 DEF OrderInv
<1>7. PlacedInv'
  BY <1>1, <1>2, <1>3 DEF PlacedInv
<1>8. QueueSlots' = QueueSlots
  BY <1>1, <1>2, <1>3 DEF QueueSlots
<1>9. SlotInv'
  BY <1>1, <1>8 DEF SlotInv
<1>10. NoRecursiveCommand' /\ NoLostCommand'
  BY ZenonT(60), <1>1, <1>2, <1>3, <1>4, ConstantsAssumption DEF NoRecursiveCommand, NoLostCommand
<1>11. QED
  BY ZenonT(60), <1>5, <1>6, <1>7, <1>9, <1>10 DEF QueueInv

\* A command that arrives while Ref'd work drains is deferred behind the others.
LEMMA DeferStep ==
  ASSUME IInv, drive_event_loop_recv, Head(inbox) \in Commands
  PROVE  QueueInv'
<1> USE DEF IInv
<1> DEFINE h == Head(inbox)
<1>1. /\ pc = "block" /\ pc' = "drive" /\ cur' = cur
      /\ inbox # <<>> /\ inbox' = Tail(inbox)
      /\ deferred_commands' = Append(deferred_commands, h)
      /\ UNCHANGED <<disconnected, queued_commands, ticket, accepted, started, client>>
  BY ConstantsAssumption DEF drive_event_loop_recv, defer, runnerFrame
<1>2. /\ \A c \in Commands : ticket[c] \in Nat
      /\ started \subseteq Commands
      /\ \A i \in 1..Len(deferred_commands) : deferred_commands[i] \in Commands
  BY DEF TypeOK
<1>3. /\ \A c \in Commands : InInbox(c) <=> c = h \/ InInbox(c)'
      /\ InboxOrder'
      /\ \A t \in Nat : /\ BeforeInbox(t) => BeforeInbox(t)' /\ t < ticket[h]
                        /\ t = ticket[h] => BeforeInbox(t)'
  BY ZenonT(60), <1>1, TailInbox DEF OrderInv
<1>4. \A i \in 1..Len(deferred_commands) : ticket[deferred_commands[i]] < ticket[h]
  <2> TAKE i \in 1..Len(deferred_commands)
  <2>1. PICK t \in Nat : t = ticket[deferred_commands[i]]
    BY ZenonT(60), <1>2
  <2>2. BeforeInbox(t)
    BY ZenonT(60), <2>1 DEF OrderInv
  <2>3. QED
    BY ZenonT(60), <1>3, <2>1, <2>2
<1>5. /\ \A d \in Commands : InDeferred(d)' <=> d = h \/ InDeferred(d)
      /\ DeferredOrder'
      /\ \A t \in Nat : (BeforeDeferred(t) /\ t < ticket[h]) => BeforeDeferred(t)'
      /\ \A i \in 1..Len(deferred_commands') :
            \/ deferred_commands'[i] = h
            \/ \E j \in 1..Len(deferred_commands) :
                   deferred_commands'[i] = deferred_commands[j]
  BY ZenonT(60), <1>1, <1>4, AppendDeferred DEF OrderInv
<1>6. TicketInv' /\ FifoExecution'
  BY ZenonT(60), <1>1 DEF TicketInv, FifoExecution
<1>7. OrderInv'
  <2>1. \A i \in 1..Len(deferred_commands') : BeforeInbox(ticket[deferred_commands[i]])'
    <3> SUFFICES ASSUME NEW i \in 1..Len(deferred_commands')
                 PROVE  BeforeInbox(ticket[deferred_commands[i]])'
      OBVIOUS
    <3>1. CASE deferred_commands'[i] = h
      <4>1. PICK t \in Nat : t = ticket[h]
        BY ZenonT(60), <1>2
      <4>2. BeforeInbox(t)'
        BY ZenonT(60), <1>3, <4>1
      <4>3. ticket'[deferred_commands'[i]] = t
        BY ZenonT(60), <1>1, <3>1, <4>1
      <4>4. QED
        BY ZenonT(60), <4>2, <4>3
    <3>2. ASSUME NEW j \in 1..Len(deferred_commands),
                 deferred_commands'[i] = deferred_commands[j]
          PROVE  BeforeInbox(ticket[deferred_commands[i]])'
      <4>1. PICK t \in Nat : t = ticket[deferred_commands[j]]
        BY ZenonT(60), <1>2
      <4>2. BeforeInbox(t)
        BY ZenonT(60), <4>1 DEF OrderInv
      <4>3. BeforeInbox(t)'
        BY ZenonT(60), <1>3, <4>2
      <4>4. ticket'[deferred_commands'[i]] = t
        BY ZenonT(60), <1>1, <3>2, <4>1
      <4>5. QED
        BY ZenonT(60), <4>3, <4>4
    <3>3. QED
      BY ZenonT(60), <1>5, <3>1, <3>2
  <2>2. \A c \in started' : BeforeInbox(ticket[c])' /\ BeforeDeferred(ticket[c])'
    BY ZenonT(60), <1>1, <1>2, <1>3, <1>5 DEF OrderInv
  <2>3. BeforeInbox(0)' /\ BeforeDeferred(0)'
    <3>1. BeforeInbox(0) /\ BeforeDeferred(0)
      BY ZenonT(60) DEF OrderInv
    <3>2. 0 \in Nat
      OBVIOUS
    <3> HIDE DEF IInv
    <3>3. QED
      BY ZenonT(60), <1>3, <1>5, <3>1, <3>2
  <2>4. QED
    BY ZenonT(60), <1>1, <1>3, <1>5, <2>1, <2>2, <2>3 DEF OrderInv
<1>8. PlacedInv'
  BY ZenonT(60), <1>1, <1>3, <1>5 DEF PlacedInv
<1>9. QueueSlots' = QueueSlots
  BY ZenonT(60), <1>1, <1>3, <1>5 DEF QueueSlots
<1>10. SlotInv'
  BY <1>1, <1>9 DEF SlotInv
<1>11. NoRecursiveCommand' /\ NoLostCommand'
  BY <1>1, <1>3, <1>5 DEF NoRecursiveCommand, NoLostCommand
<1>12. QED
  BY <1>6, <1>7, <1>8, <1>10, <1>11 DEF QueueInv

\* run_command frees the slot and begins to execute.
LEMMA BeginStep ==
  ASSUME IInv, run_command_begin
  PROVE  QueueInv'
<1> USE DEF IInv
<1>1. /\ pc = "begin" /\ pc' = "script" /\ cur \in Commands /\ ~disconnected
      /\ queued_commands' = queued_commands - 1
      /\ started' = started \cup {cur}
      /\ UNCHANGED <<inbox, deferred_commands, disconnected, ticket, accepted, client, cur>>
  BY DEF run_command_begin, runnerFrame, PcInv, Ended
<1>2. /\ \A d : InInbox(d)' <=> InInbox(d)
      /\ \A d : InDeferred(d)' <=> InDeferred(d)
      /\ InboxOrder' /\ DeferredOrder'
      /\ \A t : BeforeInbox(t)' <=> BeforeInbox(t)
      /\ \A t : BeforeDeferred(t)' <=> BeforeDeferred(t)
  BY ZenonT(60), <1>1 DEF InInbox, InDeferred, OrderInv, InboxOrder, DeferredOrder, BeforeInbox,
              BeforeDeferred
<1>3. TicketInv'
  <2>1. ticket[cur] # 0
    <3>1. 0 < ticket[cur]
      BY ZenonT(60), <1>1 DEF OrderInv
    <3> HIDE DEF IInv
    <3>2. QED
      BY <3>1
  <2>2. /\ started' = started \cup {cur}
        /\ ticket' = ticket /\ accepted' = accepted /\ client' = client
    BY <1>1
  <2>3. TicketInv
    OBVIOUS
  <2> HIDE DEF IInv
  <2>4. QED
    BY <2>1, <2>2, <2>3 DEF TicketInv
<1>4. OrderInv'
  <2>1. /\ pc = "begin" /\ pc' # "begin" /\ started' = started \cup {cur}
        /\ deferred_commands' = deferred_commands /\ ticket' = ticket
    BY <1>1
  <2>2. OrderInv
    OBVIOUS
  <2> HIDE DEF IInv
  <2>3. \A i \in 1..Len(deferred_commands') : BeforeInbox(ticket[deferred_commands[i]])'
    BY ZenonT(60), <1>2, <2>1, <2>2 DEF OrderInv
  <2>4. \A c \in started' : BeforeInbox(ticket[c])' /\ BeforeDeferred(ticket[c])'
    BY ZenonT(60), <1>2, <2>1, <2>2 DEF OrderInv
  <2>5. BeforeInbox(0)' /\ BeforeDeferred(0)'
    BY ZenonT(60), <1>2, <2>2 DEF OrderInv
  <2>6. QED
    BY ZenonT(60), <1>2, <2>1, <2>3, <2>4, <2>5 DEF OrderInv
<1>5. PlacedInv'
  BY <1>1, <1>2 DEF PlacedInv
<1>6. ~InInbox(cur) /\ ~InDeferred(cur) /\ client[cur] \notin {"reserved", "release"}
  <2>1. ticket[cur] \in Nat /\ 0 < ticket[cur]
    BY <1>1 DEF TypeOK, OrderInv
  <2>2. client[cur] \notin Unsent
    <3>1. cur \in Commands /\ TicketInv /\ ticket[cur] # 0
      BY <1>1, <2>1
    <3> HIDE DEF IInv
    <3>2. QED
      BY <3>1 DEF TicketInv
  <2>3. BeforeInbox(ticket[cur]) /\ BeforeDeferred(ticket[cur])
    BY ZenonT(60), <1>1 DEF OrderInv
  <2>4. cur \in Commands
    BY <1>1
  <2> HIDE DEF IInv
  <2>5. ~InInbox(cur) /\ ~InDeferred(cur)
    BY <2>1, <2>3, <2>4, NotQueued
  <2>6. QED
    BY <2>2, <2>5 DEF Unsent
<1>7. QueueSlots' = QueueSlots \ {cur} /\ cur \in QueueSlots
  BY <1>1, <1>2, <1>6 DEF QueueSlots
<1>8. SlotInv'
  <2>1. Cardinality(QueueSlots') = Cardinality(QueueSlots) - 1
    BY <1>7, SlotsFinite, FS_RemoveElement
  <2>2. QED
    BY <1>1, <2>1, SlotsFinite DEF SlotInv, TypeOK
<1>9. FifoExecution'
  <2> SUFFICES ASSUME NEW c \in Commands, NEW d \in Commands, ticket[c] # 0,
                      ticket[c] < ticket[d], d \in started'
               PROVE  c \in started'
    BY <1>1 DEF FifoExecution
  <2>1. CASE d \in started
    BY <1>1, <2>1 DEF FifoExecution
  <2>2. CASE d = cur
    <3>1. ticket[c] \in Nat /\ ticket[cur] \in Nat
      BY ZenonT(60), <1>1 DEF TypeOK
    <3>2. ~InInbox(c) /\ ~InDeferred(c)
      <4>1. ~(ticket[cur] < ticket[c])
        <5>1. ticket[c] < ticket[cur]
          BY ZenonT(60), <2>2
        <5> HIDE DEF IInv
        <5>2. QED
          BY <3>1, <5>1
      <4>2. InInbox(c) => ticket[cur] < ticket[c]
        BY ZenonT(60), <1>1 DEF OrderInv, BeforeInbox, InInbox
      <4>3. InDeferred(c) => ticket[cur] < ticket[c]
        BY ZenonT(60), <1>1 DEF OrderInv, BeforeDeferred, InDeferred
      <4>4. QED
        BY ZenonT(60), <4>1, <4>2, <4>3
    <3>3. QED
      BY <1>1, <2>2, <3>1, <3>2 DEF PlacedInv
  <2>3. QED
    BY <1>1, <2>1, <2>2
<1>10. NoRecursiveCommand' /\ NoLostCommand'
  BY <1>1, <1>2 DEF NoRecursiveCommand, NoLostCommand
<1>11. QED
  BY <1>3, <1>4, <1>5, <1>8, <1>9, <1>10 DEF QueueInv

\* run_command replies and lets go of its command.
LEMMA ReplyStep ==
  ASSUME IInv, run_command_reply
  PROVE  QueueInv'
<1> USE DEF IInv
<1>1. /\ pc = "reply" /\ pc' \in {"exit", "poll"} /\ cur \in Commands /\ cur \in started
      /\ cur' = None /\ result \in {"ok", "err"}
      /\ client' = [client EXCEPT ![cur] = IF @ = "waiting" THEN result ELSE @]
      /\ UNCHANGED <<inbox, deferred_commands, disconnected, ticket, accepted, started,
                     queued_commands>>
  BY ZenonT(60), ConstantsAssumption DEF run_command_reply, runnerFrame, PcInv, TypeOK
<1>2. /\ \A d : InInbox(d)' <=> InInbox(d)
      /\ \A d : InDeferred(d)' <=> InDeferred(d)
  BY <1>1 DEF InInbox, InDeferred
<1>3. \A c \in Commands : /\ client'[c] \in Unsent <=> client[c] \in Unsent
                          /\ client'[c] \in Slot <=> client[c] \in Slot
                          /\ client'[c] = "waiting" => client[c] = "waiting" /\ c # cur
  BY <1>1 DEF TypeOK, Unsent, Slot
<1>4. TicketInv' /\ FifoExecution' /\ PlacedInv'
  BY <1>1, <1>2, <1>3 DEF TicketInv, FifoExecution, PlacedInv
<1>5. OrderInv'
  BY ZenonT(60), <1>1 DEF OrderInv, InboxOrder, DeferredOrder, BeforeInbox, BeforeDeferred
<1>6. QueueSlots' = QueueSlots
  BY <1>1, <1>2, <1>3 DEF QueueSlots, Slot
<1>7. SlotInv'
  BY <1>1, <1>6 DEF SlotInv
<1>8. NoRecursiveCommand' /\ NoLostCommand'
  BY ZenonT(60), <1>1, <1>2, <1>3 DEF NoRecursiveCommand, NoLostCommand, TypeOK
<1>9. QED
  BY <1>4, <1>5, <1>7, <1>8 DEF QueueInv

\* The isolate thread drops the receiver, the deferred queue and their replies.
LEMMA DropStep ==
  ASSUME IInv, isolate_drop
  PROVE  QueueInv'
<1> USE DEF IInv
<1>1. /\ pc = "exit" /\ pc' = "stopping" /\ cur = None /\ cur' = None
      /\ disconnected' /\ inbox' = <<>> /\ deferred_commands' = <<>>
      /\ client' = [c \in Commands |->
                       IF client[c] = "waiting" THEN "dropped" ELSE client[c]]
      /\ UNCHANGED <<ticket, accepted, started, queued_commands>>
  BY DEF isolate_drop, PcInv
<1>2. \A d : ~InInbox(d)' /\ ~InDeferred(d)'
  BY <1>1 DEF InInbox, InDeferred
<1>3. \A c \in Commands : /\ client'[c] \in Unsent <=> client[c] \in Unsent
                          /\ client'[c] \in Slot <=> client[c] \in Slot
                          /\ client'[c] # "waiting"
  BY <1>1 DEF TypeOK, Unsent, Slot
<1>4. TicketInv' /\ FifoExecution' /\ PlacedInv'
  <2>1. TicketInv /\ FifoExecution /\ ticket' = ticket /\ accepted' = accepted /\ started' = started
    BY <1>1
  <2>2. disconnected'
    BY <1>1
  <2>3. \A c \in Commands : client'[c] \in Unsent <=> client[c] \in Unsent
    BY <1>3
  <2> HIDE DEF IInv
  <2>4. TicketInv'
    BY <2>1, <2>3 DEF TicketInv
  <2>5. FifoExecution'
    BY <2>1 DEF FifoExecution
  <2>6. PlacedInv'
    BY <2>2 DEF PlacedInv
  <2>7. QED
    BY <2>4, <2>5, <2>6
<1>5. OrderInv'
  <2>1. /\ \A i \in 1..Len(inbox') : FALSE
        /\ \A i \in 1..Len(deferred_commands') : FALSE
        /\ pc' # "begin"
    BY <1>1
  <2> HIDE DEF IInv
  <2>2. /\ InboxOrder' /\ DeferredOrder'
        /\ BeforeInbox(0)' /\ BeforeDeferred(0)'
        /\ \A c \in started' : BeforeInbox(ticket[c])' /\ BeforeDeferred(ticket[c])'
    BY <2>1 DEF InboxOrder, DeferredOrder, BeforeInbox, BeforeDeferred
  <2>3. QED
    BY <2>1, <2>2 DEF OrderInv
<1>6. SlotInv'
  <2>1. QueueSlots' \subseteq QueueSlots
    BY <1>1, <1>2, <1>3 DEF QueueSlots, Slot
  <2>2. /\ Cardinality(QueueSlots') <= Cardinality(QueueSlots)
        /\ IsFiniteSet(QueueSlots')
    BY <2>1, SlotsFinite, FS_Subset
  <2>3. Cardinality(QueueSlots') \in Nat
    BY <2>2, FS_CardinalityType
  <2>4. QED
    BY <1>1, <2>2, <2>3, SlotsFinite DEF SlotInv, TypeOK
<1>7. NoRecursiveCommand' /\ NoLostCommand'
  BY <1>1, <1>3 DEF NoRecursiveCommand, NoLostCommand, TypeOK
<1>8. QED
  BY <1>4, <1>5, <1>6, <1>7 DEF QueueInv
=============================================================================
