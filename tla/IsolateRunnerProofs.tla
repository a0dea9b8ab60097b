------------------------ MODULE IsolateRunnerProofs -------------------------
(***************************************************************************)
(* The isolate runner for any commands, operations, stoppers and capacity.  *)
(* The command queue: the shared bound is counted exactly, commands start   *)
(* in the order the inbox accepted them, never recursively, no waiting      *)
(* caller is forgotten, and a stopped isolate starts nothing. The host      *)
(* operations: the liveness counters are exact, and the reply of a script   *)
(* waits for the referenced work.                                           *)
(***************************************************************************)
EXTENDS IsolateRunnerQueue

\* Every leaf that names no prover goes to the SMT solver.
USE SMTT(60)

\* Every step keeps the command queue in order and counted.
LEMMA QueueStep == IInv /\ [Next]_vars => QueueInv'
<1> SUFFICES ASSUME IInv, [Next]_vars PROVE QueueInv'
  OBVIOUS
<1>inv. client \in [Commands -> ClientStates] /\ PcInv
  BY DEF IInv, TypeOK
<1>1. CASE UNCHANGED vars
  <2>1. Quiet
    BY <1>1, <1>inv
       DEF vars, handleVars, runnerVars, Quiet, Unsent, Slot
  <2>2. QED
    BY <2>1, QuietStep
<1>2. ASSUME NEW c \in Commands, submit_check(c)
      PROVE  QueueInv'
  <2>1. Quiet
    BY <1>2, <1>inv
       DEF submit_check, SetClient, handleVars, hostVars, runnerVars, stopVars, Quiet,
           Unsent, Slot
  <2>2. QED
    BY <2>1, QuietStep
<1>3. ASSUME NEW c \in Commands, submit_reserve(c)
      PROVE  QueueInv'
  <2>1. CASE queued_commands < Capacity
    BY <1>3, <2>1, ReserveStep
  <2>2. CASE ~(queued_commands < Capacity)
    <3>1. Quiet
      BY <1>3, <2>2, <1>inv
         DEF submit_reserve, SetClient, runnerVars, Quiet, Unsent, Slot
    <3>2. QED
      BY <3>1, QuietStep
  <2>3. QED
    BY <2>1, <2>2
<1>4. ASSUME NEW c \in Commands, submit_send(c)
      PROVE  QueueInv'
  <2>1. CASE TrySendOk(c)
    BY <1>4, <2>1, SendStep
  <2>2. CASE ~TrySendOk(c)
    <3>1. Quiet
      BY <1>4, <2>2, <1>inv
         DEF submit_send, SetClient, TrySendFull, TrySendDisconnected, runnerVars,
             Quiet, Unsent, Slot
    <3>2. QED
      BY <3>1, QuietStep
  <2>3. QED
    BY <2>1, <2>2
<1>5. ASSUME NEW c \in Commands, submit_release(c)
      PROVE  QueueInv'
  BY <1>5, ReleaseStep
<1>6. ASSUME NEW c \in Commands, await_reply_timeout(c)
      PROVE  QueueInv'
  <2>1. Quiet
    BY <1>6, <1>inv
       DEF await_reply_timeout, SetClient, handleVars, hostVars, runnerVars, stopVars,
           Quiet, Unsent, Slot
  <2>2. QED
    BY <2>1, QuietStep
<1>7. ASSUME NEW c \in Commands, interrupt_post(c)
      PROVE  QueueInv'
  <2>1. Interrupt \in Messages \ Commands
    BY ConstantsAssumption DEF Messages
  <2>2. Quiet
    BY <1>7, <2>1, <1>inv
       DEF interrupt_post, SetClient, TrySendOk, TrySendFull, TrySendDisconnected,
           handleVars, hostVars, runnerVars, stopVars, Quiet, Unsent, Slot
  <2>3. QED
    BY <2>2, QuietStep
<1>8. ASSUME NEW c \in Commands, abandon(c)
      PROVE  QueueInv'
  <2>1. Quiet
    BY <1>8, <1>inv
       DEF abandon, SetClient, handleVars, hostVars, runnerVars, stopVars, Quiet,
           Unsent, Slot
  <2>2. QED
    BY <2>1, QuietStep
<1>9. ASSUME NEW o \in Ops, enqueue_check(o)
      PROVE  QueueInv'
  <2>1. Quiet
    BY <1>9, <1>inv
       DEF enqueue_check, hostFrame, handleVars, runnerVars, stopVars, Quiet, Unsent,
           Slot
  <2>2. QED
    BY <2>1, QuietStep
<1>10. ASSUME NEW o \in Ops, retain_host_activity(o)
      PROVE  QueueInv'
  <2>1. Quiet
    BY <1>10, <1>inv
       DEF retain_host_activity, hostFrame, handleVars, runnerVars, stopVars, Quiet,
           Unsent, Slot
  <2>2. QED
    BY <2>1, QuietStep
<1>11. ASSUME NEW o \in Ops, post_internal_message(o)
      PROVE  QueueInv'
  <2>1. o \in Messages \ Commands
    BY ConstantsAssumption DEF Messages
  <2>2. Quiet
    BY <1>11, <2>1, <1>inv
       DEF post_internal_message, TrySendOk, TrySendFull, TrySendDisconnected,
           hostFrame, handleVars, runnerVars, stopVars, Quiet, Unsent, Slot
  <2>3. QED
    BY <2>2, QuietStep
<1>12. ASSUME NEW o \in Ops, retry_check(o)
      PROVE  QueueInv'
  <2>1. Quiet
    BY <1>12, <1>inv
       DEF retry_check, hostFrame, handleVars, runnerVars, stopVars, Quiet, Unsent, Slot
  <2>2. QED
    BY <2>1, QuietStep
<1>13. ASSUME NEW o \in Ops, retry_send(o)
      PROVE  QueueInv'
  <2>1. o \in Messages \ Commands
    BY ConstantsAssumption DEF Messages
  <2>2. Quiet
    BY <1>13, <2>1, <1>inv
       DEF retry_send, TrySendOk, TrySendFull, TrySendDisconnected, hostFrame,
           handleVars, runnerVars, stopVars, Quiet, Unsent, Slot
  <2>3. QED
    BY <2>2, QuietStep
<1>14. ASSUME NEW o \in Ops, cancel_host_activity(o)
      PROVE  QueueInv'
  <2>1. Quiet
    BY <1>14, <1>inv
       DEF cancel_host_activity, hostFrame, handleVars, runnerVars, stopVars, Quiet,
           Unsent, Slot
  <2>2. QED
    BY <2>1, QuietStep
<1>15. ASSUME NEW o \in Ops, release_keep_alive(o)
      PROVE  QueueInv'
  <2>1. Quiet
    BY <1>15, <1>inv
       DEF release_keep_alive, hostFrame, handleVars, runnerVars, stopVars, Quiet,
           Unsent, Slot
  <2>2. QED
    BY <2>1, QuietStep
<1>16. ASSUME NEW o \in Ops, prepare_remote_entry(o)
      PROVE  QueueInv'
  <2>1. Quiet
    BY <1>16, <1>inv
       DEF prepare_remote_entry, hostFrame, handleVars, runnerVars, stopVars, Quiet,
           Unsent, Slot
  <2>2. QED
    BY <2>1, QuietStep
<1>17. ASSUME NEW o \in Ops, graph_prepared_check(o)
      PROVE  QueueInv'
  <2>1. Quiet
    BY <1>17, <1>inv
       DEF graph_prepared_check, hostFrame, handleVars, runnerVars, stopVars, Quiet,
           Unsent, Slot
  <2>2. QED
    BY <2>1, QuietStep
<1>18. ASSUME NEW o \in Ops, graph_prepared_send(o)
      PROVE  QueueInv'
  <2>1. o \in Messages \ Commands
    BY ConstantsAssumption DEF Messages
  <2>2. Quiet
    BY <1>18, <2>1, <1>inv
       DEF graph_prepared_send, TrySendOk, TrySendFull, TrySendDisconnected, hostFrame,
           handleVars, runnerVars, stopVars, Quiet, Unsent, Slot
  <2>3. QED
    BY <2>2, QuietStep
<1>19. ASSUME NEW o \in Ops, promise_pending(o)
      PROVE  QueueInv'
  <2>1. Quiet
    BY <1>19, <1>inv
       DEF promise_pending, runnerFrame, hostVars, stopVars, runnerVars, Quiet, Unsent,
           Slot
  <2>2. QED
    BY <2>1, QuietStep
<1>20. ASSUME NEW o \in Ops, dynamic_import_schedule(o)
      PROVE  QueueInv'
  <2>1. o \in Messages \ Commands
    BY ConstantsAssumption DEF Messages
  <2>2. Quiet
    BY <1>20, <2>1, <1>inv
       DEF dynamic_import_schedule, TrySendOk, TrySendFull, TrySendDisconnected,
           runnerFrame, hostVars, stopVars, runnerVars, Quiet, Unsent, Slot
  <2>3. QED
    BY <2>2, QuietStep
<1>21. ASSUME NEW s \in Stoppers, shutdown_flag(s)
      PROVE  QueueInv'
  <2>1. Quiet
    BY <1>21, <1>inv
       DEF shutdown_flag, handleVars, hostVars, runnerVars, stopVars, Quiet, Unsent,
           Slot
  <2>2. QED
    BY <2>1, QuietStep
<1>22. ASSUME NEW s \in Stoppers, shutdown_interrupt(s)
      PROVE  QueueInv'
  <2>1. Quiet
    BY <1>22, <1>inv
       DEF shutdown_interrupt, handleVars, hostVars, runnerVars, stopVars, Quiet,
           Unsent, Slot
  <2>2. QED
    BY <2>1, QuietStep
<1>23. ASSUME NEW s \in Stoppers, shutdown_post(s)
      PROVE  QueueInv'
  <2>1. Shutdown \in Messages \ Commands
    BY ConstantsAssumption DEF Messages
  <2>2. Quiet
    BY <1>23, <2>1, <1>inv
       DEF shutdown_post, TrySendOk, TrySendFull, TrySendDisconnected, handleVars,
           hostVars, runnerVars, stopVars, Quiet, Unsent, Slot
  <2>3. QED
    BY <2>2, QuietStep
<1>24. ASSUME NEW s \in Stoppers, wait_register(s)
      PROVE  QueueInv'
  <2>1. Quiet
    BY <1>24, <1>inv
       DEF wait_register, handleVars, hostVars, runnerVars, stopVars, Quiet, Unsent,
           Slot
  <2>2. QED
    BY <2>1, QuietStep
<1>25. ASSUME NEW s \in Stoppers, wait_check(s)
      PROVE  QueueInv'
  <2>1. Quiet
    BY <1>25, <1>inv
       DEF wait_check, handleVars, hostVars, runnerVars, stopVars, Quiet, Unsent, Slot
  <2>2. QED
    BY <2>1, QuietStep
<1>26. ASSUME NEW s \in Stoppers, wait_await(s)
      PROVE  QueueInv'
  <2>1. Quiet
    BY <1>26, <1>inv
       DEF wait_await, handleVars, hostVars, runnerVars, stopVars, Quiet, Unsent, Slot
  <2>2. QED
    BY <2>1, QuietStep
<1>27. ASSUME NEW s \in Stoppers, drop_join(s)
      PROVE  QueueInv'
  <2>1. Quiet
    BY <1>27, <1>inv
       DEF drop_join, handleVars, hostVars, runnerVars, stopVars, Quiet, Unsent, Slot
  <2>2. QED
    BY <2>1, QuietStep
<1>28. ASSUME poll_one_tick_check
      PROVE  QueueInv'
  <2>1. Quiet
    BY <1>28, <1>inv
       DEF poll_one_tick_check, runnerFrame, hostVars, stopVars, runnerVars, Quiet,
           Unsent, Slot
  <2>2. QED
    BY <2>1, QuietStep
<1>29. ASSUME poll_one_tick_deferred
      PROVE  QueueInv'
  BY <1>29, TakeDeferredStep
<1>30. ASSUME poll_one_tick_idle
      PROVE  QueueInv'
  <2>1. Quiet
    BY <1>30, <1>inv
       DEF poll_one_tick_idle, runnerFrame, hostVars, stopVars, runnerVars, Quiet,
           Unsent, Slot
  <2>2. QED
    BY <2>1, QuietStep
<1>31. ASSUME run_until_idle_recv
      PROVE  QueueInv'
  <2>1. CASE Head(inbox) \in Commands
    BY <1>31, <2>1, ReceiveStep
  <2>2. CASE Head(inbox) \notin Commands
    <3>1. Quiet
      BY ZenonT(60), <1>31, <2>2, <1>inv
         DEF run_until_idle_recv, dispatch, AfterMessage, runnerFrame, Quiet, Unsent,
             Slot
    <3>2. QED
      BY <3>1, QuietStep
  <2>3. QED
    BY <2>1, <2>2
<1>32. ASSUME run_command_begin
      PROVE  QueueInv'
  BY <1>32, BeginStep
<1>33. ASSUME run_command_return
      PROVE  QueueInv'
  <2>1. Quiet
    BY <1>33, <1>inv
       DEF run_command_return, runnerFrame, hostVars, stopVars, runnerVars, Quiet,
           Unsent, Slot
  <2>2. QED
    BY <2>1, QuietStep
<1>34. ASSUME drive_event_loop_to_idle
      PROVE  QueueInv'
  <2>1. Quiet
    BY ZenonT(60), <1>34, <1>inv
       DEF drive_event_loop_to_idle, runnerFrame, hostVars, stopVars, runnerVars, Quiet,
           Unsent, Slot
  <2>2. QED
    BY <2>1, QuietStep
<1>35. ASSUME drive_event_loop_recv
      PROVE  QueueInv'
  <2>1. CASE Head(inbox) \in Commands
    BY <1>35, <2>1, DeferStep
  <2>2. CASE Head(inbox) \notin Commands
    <3>1. Quiet
      BY <1>35, <2>2, <1>inv
         DEF drive_event_loop_recv, defer, dispatch, AfterMessage, runnerFrame, Quiet,
             Unsent, Slot
    <3>2. QED
      BY <3>1, QuietStep
  <2>3. QED
    BY <2>1, <2>2
<1>36. ASSUME process_message_finish
      PROVE  QueueInv'
  <2>1. Quiet
    BY ZenonT(60), <1>36, <1>inv
       DEF process_message_finish, AfterMessage, runnerFrame, hostVars, stopVars,
           runnerVars, Quiet, Unsent, Slot
  <2>2. QED
    BY <2>1, QuietStep
<1>37. ASSUME run_command_reply
      PROVE  QueueInv'
  BY <1>37, ReplyStep
<1>38. ASSUME isolate_drop
      PROVE  QueueInv'
  BY <1>38, DropStep
<1>39. ASSUME exit_guard_stop
      PROVE  QueueInv'
  <2>1. Quiet
    BY <1>39, <1>inv
       DEF exit_guard_stop, handleVars, hostVars, runnerVars, stopVars, Quiet, Unsent,
           Slot
  <2>2. QED
    BY <2>1, QuietStep
<1>40. ASSUME exit_guard_notify
      PROVE  QueueInv'
  <2>1. Quiet
    BY <1>40, <1>inv
       DEF exit_guard_notify, handleVars, hostVars, runnerVars, stopVars, Quiet, Unsent,
           Slot
  <2>2. QED
    BY <2>1, QuietStep
<1>41. QED
  BY ZenonT(60), <1>1, <1>2, <1>3, <1>4, <1>5, <1>6, <1>7, <1>8, <1>9, <1>10, <1>11, <1>12, <1>13,
     <1>14, <1>15, <1>16, <1>17, <1>18, <1>19, <1>20, <1>21, <1>22, <1>23, <1>24,
     <1>25, <1>26, <1>27, <1>28, <1>29, <1>30, <1>31, <1>32, <1>33, <1>34, <1>35,
     <1>36, <1>37, <1>38, <1>39, <1>40
     DEF Next, Client, Delivery, Resolve, Script, Stopper, Runner

-----------------------------------------------------------------------------
(* Stopping.                                                                *)

\* The isolate's own decision to stop implies the shared flag, and from then on
\* it only replies and leaves.
StopInv ==
    /\ self_shutdown => shutdown /\ pc \in {"reply", "exit"} \cup Ended
    /\ pc \in {"exit"} \cup Ended => self_shutdown
    /\ CompletionNotDropped

FullInv == IInv /\ StopInv

\* Delivering a message cancels no operation.
LEMMA ReceiveKeeps ==
  ASSUME op \in [Ops -> OpStates], NEW m, receive(m), CompletionNotDropped,
         shutdown => shutdown'
  PROVE  CompletionNotDropped'
<1>1. CASE m \in Ops
  <2>1. PICK x \in {"settling", "running"} : op' = [op EXCEPT ![m] = x]
    BY <1>1 DEF receive, SetOp
  <2>2. QED
    BY <1>1, <2>1 DEF CompletionNotDropped
<1>2. CASE m \notin Ops
  BY <1>2 DEF receive, CompletionNotDropped
<1>3. QED
  BY <1>1, <1>2

\* Of the messages, only Shutdown sets the isolate's flag, the shared one with
\* it, and then the isolate replies or leaves.
LEMMA DispatchStops ==
  ASSUME op \in [Ops -> OpStates], StopInv, pc \in {"take", "recv", "block"},
         NEW m, dispatch(m), receive(m)
  PROVE  StopInv'
<1>1. ~self_shutdown
  BY DEF StopInv, Ended
<1>2. CASE pc' \in {"begin", "task", "poll", "drive"} /\ UNCHANGED <<self_shutdown, shutdown>>
  <2>1. CompletionNotDropped'
    BY <1>2, ReceiveKeeps DEF StopInv
  <2>2. QED
    BY <1>1, <1>2, <2>1 DEF StopInv, Ended
<1>3. CASE pc' \in {"exit", "reply"} /\ self_shutdown' /\ shutdown'
  <2>1. CompletionNotDropped'
    BY ZenonT(60), <1>3, ReceiveKeeps DEF StopInv
  <2>2. QED
    BY <1>3, <2>1 DEF StopInv, Ended
<1>4. QED
  BY <1>2, <1>3 DEF dispatch, AfterMessage

\* Only a poll that saw the flag, or a Shutdown message, makes the isolate stop.
LEMMA StopStep == FullInv /\ [Next]_vars => StopInv'
<1> SUFFICES ASSUME FullInv, [Next]_vars PROVE StopInv'
  OBVIOUS
<1>inv. op \in [Ops -> OpStates] /\ PcInv /\ StopInv
  BY DEF FullInv, IInv, TypeOK
<1> USE <1>inv DEF OpStates, PcInv, StopInv, Ended, CompletionNotDropped
<1>1. CASE UNCHANGED vars
  BY <1>1 DEF vars, handleVars, hostVars, runnerVars, stopVars
<1>2. ASSUME NEW c \in Commands, submit_check(c)
      PROVE  StopInv'
  BY <1>2 DEF submit_check, SetClient, handleVars, hostVars, runnerVars, stopVars
<1>3. ASSUME NEW c \in Commands, submit_reserve(c)
      PROVE  StopInv'
  BY <1>3 DEF submit_reserve, SetClient, handleVars, hostVars, runnerVars, stopVars
<1>4. ASSUME NEW c \in Commands, submit_send(c)
      PROVE  StopInv'
  BY <1>4
     DEF submit_send, SetClient, TrySendOk, TrySendFull, TrySendDisconnected,
         handleVars, hostVars, runnerVars, stopVars
<1>5. ASSUME NEW c \in Commands, submit_release(c)
      PROVE  StopInv'
  BY <1>5 DEF submit_release, SetClient, handleVars, hostVars, runnerVars, stopVars
<1>6. ASSUME NEW c \in Commands, await_reply_timeout(c)
      PROVE  StopInv'
  BY <1>6
     DEF await_reply_timeout, SetClient, handleVars, hostVars, runnerVars, stopVars
<1>7. ASSUME NEW c \in Commands, interrupt_post(c)
      PROVE  StopInv'
  BY <1>7
     DEF interrupt_post, SetClient, TrySendOk, TrySendFull, TrySendDisconnected,
         handleVars, hostVars, runnerVars, stopVars
<1>8. ASSUME NEW c \in Commands, abandon(c)
      PROVE  StopInv'
  BY <1>8 DEF abandon, SetClient, handleVars, hostVars, runnerVars, stopVars
<1>9. ASSUME NEW o \in Ops, enqueue_check(o)
      PROVE  StopInv'
  BY <1>9 DEF enqueue_check, SetOp, hostFrame, handleVars, runnerVars, stopVars
<1>10. ASSUME NEW o \in Ops, retain_host_activity(o)
      PROVE  StopInv'
  BY <1>10 DEF retain_host_activity, SetOp, hostFrame, handleVars, runnerVars, stopVars
<1>11. ASSUME NEW o \in Ops, post_internal_message(o)
      PROVE  StopInv'
  BY <1>11
     DEF post_internal_message, SetOp, TrySendOk, TrySendFull, TrySendDisconnected,
         hostFrame, handleVars, runnerVars, stopVars
<1>12. ASSUME NEW o \in Ops, retry_check(o)
      PROVE  StopInv'
  BY <1>12 DEF retry_check, SetOp, hostFrame, handleVars, runnerVars, stopVars
<1>13. ASSUME NEW o \in Ops, retry_send(o)
      PROVE  StopInv'
  BY <1>13
     DEF retry_send, SetOp, TrySendOk, TrySendFull, TrySendDisconnected, hostFrame,
         handleVars, runnerVars, stopVars
<1>14. ASSUME NEW o \in Ops, cancel_host_activity(o)
      PROVE  StopInv'
  BY <1>14 DEF cancel_host_activity, SetOp, hostFrame, handleVars, runnerVars, stopVars
<1>15. ASSUME NEW o \in Ops, release_keep_alive(o)
      PROVE  StopInv'
  BY <1>15 DEF release_keep_alive, hostFrame, handleVars, runnerVars, stopVars
<1>16. ASSUME NEW o \in Ops, prepare_remote_entry(o)
      PROVE  StopInv'
  BY <1>16 DEF prepare_remote_entry, SetOp, hostFrame, handleVars, runnerVars, stopVars
<1>17. ASSUME NEW o \in Ops, graph_prepared_check(o)
      PROVE  StopInv'
  BY <1>17 DEF graph_prepared_check, SetOp, hostFrame, handleVars, runnerVars, stopVars
<1>18. ASSUME NEW o \in Ops, graph_prepared_send(o)
      PROVE  StopInv'
  BY <1>18
     DEF graph_prepared_send, SetOp, TrySendOk, TrySendFull, TrySendDisconnected,
         hostFrame, handleVars, runnerVars, stopVars
<1>19. ASSUME NEW o \in Ops, promise_pending(o)
      PROVE  StopInv'
  BY <1>19
     DEF promise_pending, SetOp, ExecutingJs, runnerFrame, hostVars, stopVars,
         runnerVars
<1>20. ASSUME NEW o \in Ops, dynamic_import_schedule(o)
      PROVE  StopInv'
  BY <1>20
     DEF dynamic_import_schedule, SetOp, ExecutingJs, TrySendOk, TrySendFull,
         TrySendDisconnected, runnerFrame, hostVars, stopVars, runnerVars
<1>21. ASSUME NEW s \in Stoppers, shutdown_flag(s)
      PROVE  StopInv'
  BY <1>21 DEF shutdown_flag, SetStop, handleVars, hostVars, runnerVars, stopVars
<1>22. ASSUME NEW s \in Stoppers, shutdown_interrupt(s)
      PROVE  StopInv'
  BY <1>22 DEF shutdown_interrupt, SetStop, handleVars, hostVars, runnerVars, stopVars
<1>23. ASSUME NEW s \in Stoppers, shutdown_post(s)
      PROVE  StopInv'
  BY <1>23
     DEF shutdown_post, SetStop, TrySendOk, TrySendFull, TrySendDisconnected,
         handleVars, hostVars, runnerVars, stopVars
<1>24. ASSUME NEW s \in Stoppers, wait_register(s)
      PROVE  StopInv'
  BY <1>24 DEF wait_register, SetStop, handleVars, hostVars, runnerVars, stopVars
<1>25. ASSUME NEW s \in Stoppers, wait_check(s)
      PROVE  StopInv'
  BY <1>25 DEF wait_check, SetStop, handleVars, hostVars, runnerVars, stopVars
<1>26. ASSUME NEW s \in Stoppers, wait_await(s)
      PROVE  StopInv'
  BY <1>26 DEF wait_await, SetStop, handleVars, hostVars, runnerVars, stopVars
<1>27. ASSUME NEW s \in Stoppers, drop_join(s)
      PROVE  StopInv'
  BY <1>27 DEF drop_join, SetStop, handleVars, hostVars, runnerVars, stopVars
<1>28. ASSUME poll_one_tick_check
      PROVE  StopInv'
  BY <1>28 DEF poll_one_tick_check, runnerFrame, hostVars, stopVars, runnerVars
<1>29. ASSUME poll_one_tick_deferred
      PROVE  StopInv'
  BY <1>29
     DEF poll_one_tick_deferred, NextPoll, runnerFrame, hostVars, stopVars, runnerVars
<1>30. ASSUME poll_one_tick_idle
      PROVE  StopInv'
  BY <1>30 DEF poll_one_tick_idle, runnerFrame, hostVars, stopVars, runnerVars
<1>31. ASSUME run_until_idle_recv
      PROVE  StopInv'
  <2>1. pc \in {"take", "recv", "block"} /\ dispatch(Head(inbox)) /\ receive(Head(inbox))
    BY <1>31 DEF run_until_idle_recv
  <2>2. op \in [Ops -> OpStates] /\ StopInv
    OBVIOUS
  <2>3. QED
    BY <2>1, <2>2, DispatchStops
<1>32. ASSUME run_command_begin
      PROVE  StopInv'
  BY <1>32 DEF run_command_begin, runnerFrame, hostVars, stopVars, runnerVars
<1>33. ASSUME run_command_return
      PROVE  StopInv'
  BY <1>33 DEF run_command_return, runnerFrame, hostVars, stopVars, runnerVars
<1>34. ASSUME drive_event_loop_to_idle
      PROVE  StopInv'
  BY <1>34 DEF drive_event_loop_to_idle, runnerFrame, hostVars, stopVars, runnerVars
<1>35. ASSUME drive_event_loop_recv
      PROVE  StopInv'
  <2>1. CASE defer(Head(inbox))
    BY <1>35, <2>1 DEF drive_event_loop_recv, defer
  <2>2. CASE dispatch(Head(inbox)) /\ receive(Head(inbox))
    <3>1. pc \in {"take", "recv", "block"}
      BY <1>35 DEF drive_event_loop_recv
    <3>2. op \in [Ops -> OpStates] /\ StopInv
      OBVIOUS
    <3>3. QED
      BY ZenonT(60), <2>2, <3>1, <3>2, DispatchStops
  <2>3. QED
    BY ZenonT(60), <1>35, <2>1, <2>2 DEF drive_event_loop_recv
<1>36. ASSUME process_message_finish
      PROVE  StopInv'
  BY <1>36
     DEF process_message_finish, SetOp, AfterMessage, runnerFrame, hostVars, stopVars,
         runnerVars
<1>37. ASSUME run_command_reply
      PROVE  StopInv'
  BY <1>37 DEF run_command_reply, runnerFrame, hostVars, stopVars, runnerVars
<1>38. ASSUME isolate_drop
      PROVE  StopInv'
  BY <1>38 DEF isolate_drop, handleVars, hostVars, runnerVars, stopVars
<1>39. ASSUME exit_guard_stop
      PROVE  StopInv'
  BY <1>39 DEF exit_guard_stop, handleVars, hostVars, runnerVars, stopVars
<1>40. ASSUME exit_guard_notify
      PROVE  StopInv'
  BY <1>40 DEF exit_guard_notify, handleVars, hostVars, runnerVars, stopVars
<1> HIDE <1>inv DEF OpStates, PcInv, StopInv, Ended, CompletionNotDropped
<1>41. QED
  BY ZenonT(60), <1>1, <1>2, <1>3, <1>4, <1>5, <1>6, <1>7, <1>8, <1>9, <1>10, <1>11, <1>12, <1>13,
     <1>14, <1>15, <1>16, <1>17, <1>18, <1>19, <1>20, <1>21, <1>22, <1>23, <1>24,
     <1>25, <1>26, <1>27, <1>28, <1>29, <1>30, <1>31, <1>32, <1>33, <1>34, <1>35,
     <1>36, <1>37, <1>38, <1>39, <1>40
     DEF Next, Client, Delivery, Resolve, Script, Stopper, Runner

-----------------------------------------------------------------------------
(* The theorems about the queue.                                            *)

\* spawn_with_capacity establishes the invariant.
LEMMA InvInit == Init => FullInv
<1> SUFFICES ASSUME Init PROVE FullInv
  OBVIOUS
<1>1. TypeOK
  <2>1. /\ inbox \in Seq(Messages) /\ Len(inbox) <= Capacity
        /\ deferred_commands \in Seq(Commands)
    BY ConstantsAssumption DEF Init
  <2>2. queued_commands \in 0..Capacity /\ accepted \in Nat
    BY ConstantsAssumption DEF Init
  <2>3. /\ client \in [Commands -> ClientStates] /\ ticket \in [Commands -> Nat]
        /\ op \in [Ops -> OpStates] /\ stop \in [Stoppers -> StopStates]
        /\ pending_host_ops \in [Levels -> Nat] /\ pc \in RunnerPcs
    BY DEF Init, ClientStates, OpStates, StopStates, RunnerPcs
  <2>4. QED
    BY ZenonT(60), <2>1, <2>2, <2>3 DEF Init, TypeOK
<1>2. PcInv /\ TicketInv /\ OrderInv /\ PlacedInv /\ StopInv
  <2>1. PcInv /\ StopInv
    BY ConstantsAssumption DEF Init, PcInv, Ended, StopInv, CompletionNotDropped
  <2>2. TicketInv /\ PlacedInv
    BY DEF Init, TicketInv, Unsent, PlacedInv
  <2>3. OrderInv
    <3>1. /\ \A i \in 1..Len(inbox) : FALSE
          /\ \A i \in 1..Len(deferred_commands) : FALSE
      BY DEF Init
    <3>2. QED
      BY <3>1
         DEF Init, OrderInv, InboxOrder, DeferredOrder, BeforeInbox, BeforeDeferred
  <2>4. QED
    BY <2>1, <2>2, <2>3
<1>3. FifoExecution /\ NoRecursiveCommand /\ NoLostCommand
  BY DEF Init, FifoExecution, NoRecursiveCommand, NoLostCommand
<1>4. SlotInv
  <2>1. QueueSlots = {}
    BY DEF Init, QueueSlots, InInbox, InDeferred
  <2>2. QED
    BY <2>1, FS_EmptySet DEF Init, SlotInv
<1>5. QED
  BY <1>1, <1>2, <1>3, <1>4 DEF FullInv, IInv

\* Every reachable state satisfies the inductive invariant.
THEOREM Invariance == Spec => []FullInv
<1>1. FullInv /\ [Next]_vars => FullInv'
  BY TypeStep, PcStep, QueueStep, StopStep DEF FullInv, IInv, QueueInv
<1>2. QED
  BY InvInit, <1>1, PTL DEF Spec

\* Every variable keeps its type; queued_commands never wraps below zero nor
\* exceeds the capacity.
THEOREM TypeCorrect == Spec => []TypeOK
<1>1. FullInv => TypeOK
  BY DEF FullInv, IInv
<1>2. QED
  BY Invariance, <1>1, PTL

\* For any capacity the shared bound counts channel-resident and deferred
\* commands exactly.
THEOREM QueueIsCounted == Spec => []QueueAccounting
<1>1. FullInv => QueueAccounting
  BY DEF FullInv, IInv, SlotInv, QueueAccounting
<1>2. QED
  BY Invariance, <1>1, PTL

\* Commands start in the order the inbox accepted them, deferral included.
THEOREM CommandsAreFifo == Spec => []FifoExecution
<1>1. FullInv => FifoExecution
  BY DEF FullInv, IInv
<1>2. QED
  BY Invariance, <1>1, PTL

\* No command runs inside another one's drain.
THEOREM CommandsDoNotNest == Spec => []NoRecursiveCommand
<1>1. FullInv => NoRecursiveCommand
  BY DEF FullInv, IInv
<1>2. QED
  BY Invariance, <1>1, PTL

\* A waiting caller's command is queued, deferred or running.
THEOREM CommandsAreNotLost == Spec => []NoLostCommand
<1>1. FullInv => NoLostCommand
  BY DEF FullInv, IInv
<1>2. QED
  BY Invariance, <1>1, PTL

\* A guaranteed completion is dropped only while the isolate shuts down.
THEOREM CompletionsAreNotDropped == Spec => []CompletionNotDropped
<1>1. FullInv => CompletionNotDropped
  BY DEF FullInv, StopInv
<1>2. QED
  BY Invariance, <1>1, PTL

\* Once the isolate decided to stop, no command begins to execute.
THEOREM StopIsFinal == Spec => NoStartAfterStop
<1>1. FullInv /\ [Next]_vars => [self_shutdown => started' = started]_vars
  <2> SUFFICES ASSUME FullInv, Next, self_shutdown PROVE started' = started
    BY DEF vars
  <2>1. pc # "begin"
    BY DEF FullInv, StopInv, Ended
  <2>2. QED
    BY ZenonT(60), <2>1
       DEF Next, Client, Delivery, Resolve, Script, Stopper, Runner, submit_check,
           submit_reserve, submit_send, submit_release, await_reply_timeout,
           interrupt_post, abandon, enqueue_check, retain_host_activity,
           post_internal_message, retry_check, retry_send, cancel_host_activity,
           release_keep_alive, prepare_remote_entry, graph_prepared_check,
           graph_prepared_send, promise_pending, dynamic_import_schedule,
           shutdown_flag, shutdown_interrupt, shutdown_post, wait_register,
           wait_check, wait_await, drop_join, poll_one_tick_check,
           poll_one_tick_deferred, poll_one_tick_idle, run_until_idle_recv,
           run_command_begin, run_command_return, drive_event_loop_to_idle,
           drive_event_loop_recv, defer, process_message_finish, run_command_reply,
           isolate_drop, exit_guard_stop, exit_guard_notify, hostFrame, runnerVars
<1>2. QED
  BY Invariance, <1>1, PTL DEF Spec, NoStartAfterStop

-----------------------------------------------------------------------------
(* Host activity.                                                           *)

\* A host message that lies in the inbox.
Mailed == {"inbox", "delivered"}

\* A host message the isolate is executing.
Taken == {"running", "settling"}

\* What holds of one host operation: only a started asynchronous native has a
\* keep-alive, it has it until its completion was posted, and an import never
\* passes enqueue_boxed.
KeepAt(o) ==
    /\ o \in keep_alive => Kind[o] = "async" /\ op[o] # "off"
    /\ (Kind[o] = "async" /\ op[o] \in {"held", "checked", "retained"}) => o \in keep_alive
    /\ op[o] \in {"held", "checked"} => Kind[o] \in {"async", "task"}

KeepInv == \A o \in Ops : KeepAt(o)

\* The operation process_message executes was taken out of the inbox.
JobInv == pc = "task" => op[job] \in Taken

\* The inbox holds each operation at most once, and knows that it does.
MailInv ==
    /\ \A i \in 1..Len(inbox) : inbox[i] \in Ops => op[inbox[i]] \in Mailed
    /\ \A i, j \in 1..Len(inbox) : (inbox[i] \in Ops /\ inbox[i] = inbox[j]) => i = j

\* The inductive invariant of the liveness counters.
HostInv == KeepInv /\ JobInv /\ MailInv /\ ActivityAccounting /\ ReplyAfterRefWork

\* Outstanding work of the kinds JavaScript starts.
Outstanding(o) == Kind[o] \in {"async", "import"} /\ (o \in keep_alive \/ Counted(o))

\* The two sets a liveness counter counts.
Kept(l) == {o \in keep_alive : Liveness[o] = l}
Posted(l) == {o \in Ops : Counted(o) /\ Liveness[o] = l}

\* What a step of operation o may do to the counters and to what they count.
Uncounted(o) ==
    /\ UNCHANGED <<keep_alive, pending_host_ops>>
    /\ disconnected \/ (Counted(o)' <=> Counted(o))

Posts(o) ==
    /\ UNCHANGED keep_alive /\ increment_liveness(o)
    /\ ~Counted(o) /\ Counted(o)'

Unposts(o) ==
    /\ UNCHANGED keep_alive /\ decrement_liveness(o)
    /\ Counted(o) /\ ~Counted(o)'

Keeps(o) ==
    /\ o \notin keep_alive /\ keep_alive' = keep_alive \cup {o}
    /\ increment_liveness(o)
    /\ Counted(o)' <=> Counted(o)

Unkeeps(o) ==
    /\ o \in keep_alive /\ keep_alive' = keep_alive \ {o}
    /\ decrement_liveness(o)
    /\ Counted(o)' <=> Counted(o)

Counts(o) == Uncounted(o) \/ Posts(o) \/ Unposts(o) \/ Keeps(o) \/ Unkeeps(o)

\* A step of the host, or of JavaScript, that moves operation o alone.
OpStep(o) ==
    /\ UNCHANGED <<pc, cur, job, result, self_shutdown, disconnected>>
    /\ op' = [op EXCEPT ![o] = op'[o]]
    /\ op'[o] # op[o] => op[o] \notin Mailed \cup Taken
    /\ \/ UNCHANGED inbox
       \/ inbox' = Append(inbox, o) /\ op[o] \notin Mailed /\ op'[o] \in Mailed
    /\ KeepAt(o)'
    /\ Counts(o)
    /\ (pc = "reply" /\ Outstanding(o)') => Outstanding(o)

\* A step that leaves the operations, their keep-alives and the counters alone.
Calm ==
    /\ UNCHANGED <<op, keep_alive, pending_host_ops, disconnected>>
    /\ UNCHANGED inbox \/ \E m \in Messages \ Ops : inbox' = Append(inbox, m)
    /\ pc' = "task" => pc = "task" /\ job' = job
    /\ pc' = "reply" => \/ pc = "reply" /\ UNCHANGED <<cur, result, self_shutdown>>
                        \/ cur' \notin RunCommands
                        \/ result' # "ok"
                        \/ pending_host_ops["Ref"] = 0

-----------------------------------------------------------------------------
(* Counting.                                                                *)

\* The sets are finite.
LEMMA ActivityFinite ==
  ASSUME TypeOK, NEW l
  PROVE  /\ IsFiniteSet(Kept(l)) /\ IsFiniteSet(Posted(l))
         /\ Cardinality(Kept(l)) \in Nat /\ Cardinality(Posted(l)) \in Nat
<1>1. IsFiniteSet(Ops)
  BY ConstantsAssumption
<1>2. Kept(l) \subseteq Ops /\ Posted(l) \subseteq Ops
  BY DEF TypeOK, Kept, Posted
<1>3. IsFiniteSet(Kept(l)) /\ IsFiniteSet(Posted(l))
  BY ZenonT(60), <1>1, <1>2, FS_Subset
<1>4. QED
  BY ZenonT(60), <1>3, FS_CardinalityType

\* One more element is one more.
LEMMA OneMore ==
  ASSUME NEW S, IsFiniteSet(S), NEW o, o \notin S
  PROVE  Cardinality(S \cup {o}) = Cardinality(S) + 1
BY FS_AddElement

\* One less element is one less, and there was one.
LEMMA OneLess ==
  ASSUME NEW S, IsFiniteSet(S), NEW o \in S
  PROVE  Cardinality(S \ {o}) = Cardinality(S) - 1 /\ Cardinality(S) > 0
<1>1. Cardinality(S \ {o}) = Cardinality(S) - 1 /\ IsFiniteSet(S \ {o})
  BY FS_RemoveElement
<1>2. Cardinality(S \ {o}) \in Nat /\ Cardinality(S) \in Nat
  BY <1>1, FS_CardinalityType
<1>3. QED
  BY <1>1, <1>2

\* The accounting, in terms of the two sets.
LEMMA Account ==
  ActivityAccounting <=>
    (~disconnected => \A l \in Levels : pending_host_ops[l] =
                          Cardinality(Kept(l)) + Cardinality(Posted(l)))
BY DEF ActivityAccounting, Kept, Posted

\* A step of one operation leaves the others counted as they were.
LEMMA OthersCounted ==
  ASSUME op \in [Ops -> OpStates], NEW o \in Ops, op' = [op EXCEPT ![o] = op'[o]]
  PROVE  \A x \in Ops : x # o => (Counted(x)' <=> Counted(x))
BY DEF Counted

\* Whatever a step does to the counters it does to what they count.
LEMMA AccountStep ==
  ASSUME TypeOK, ActivityAccounting, NEW o \in Ops, disconnected' = disconnected,
         op' = [op EXCEPT ![o] = op'[o]], Counts(o)
  PROVE  ActivityAccounting'
<1> SUFFICES ASSUME ~disconnected, NEW l \in Levels
             PROVE  pending_host_ops'[l] =
                        Cardinality(Kept(l)') + Cardinality(Posted(l)')
  BY DEF ActivityAccounting, Kept, Posted
<1>1. pending_host_ops[l] = Cardinality(Kept(l)) + Cardinality(Posted(l))
  BY Account
<1>2. /\ IsFiniteSet(Kept(l)) /\ IsFiniteSet(Posted(l))
      /\ Cardinality(Kept(l)) \in Nat /\ Cardinality(Posted(l)) \in Nat
  BY ZenonT(60), ActivityFinite
<1>3. \A x \in Ops : x # o => (Counted(x)' <=> Counted(x))
  BY ZenonT(60), OthersCounted DEF TypeOK
<1>4. pending_host_ops \in [Levels -> Nat] /\ keep_alive \subseteq Ops /\ Liveness[o] \in Levels
  <2>1. pending_host_ops \in [Levels -> Nat] /\ keep_alive \subseteq Ops
    BY ZenonT(60) DEF TypeOK
  <2>2. Liveness[o] \in Levels
    BY ConstantsAssumption
  <2>3. QED
    BY ZenonT(60), <2>1, <2>2
<1>5. ASSUME \A x \in Ops : Counted(x)' <=> Counted(x)
      PROVE  Posted(l)' = Posted(l)
  BY <1>5 DEF Posted
<1>6. ASSUME keep_alive' = keep_alive
      PROVE  Kept(l)' = Kept(l)
  BY <1>6 DEF Kept
<1>7. CASE Uncounted(o)
  <2>1. \A x \in Ops : Counted(x)' <=> Counted(x)
    BY ZenonT(60), <1>3, <1>7 DEF Uncounted
  <2>2. Posted(l)' = Posted(l) /\ Kept(l)' = Kept(l) /\ pending_host_ops' = pending_host_ops
    BY ZenonT(60), <1>5, <1>6, <1>7, <2>1 DEF Uncounted
  <2>3. QED
    BY ZenonT(60), <1>1, <2>2
<1>8. CASE Posts(o)
  <2>1. Kept(l)' = Kept(l)
    BY ZenonT(60), <1>6, <1>8 DEF Posts
  <2>2. CASE Liveness[o] = l
    <3>1. Posted(l)' = Posted(l) \cup {o} /\ o \notin Posted(l)
      BY <1>3, <1>8, <2>2 DEF Posted, Posts
    <3>2. Cardinality(Posted(l)') = Cardinality(Posted(l)) + 1
      BY ZenonT(60), <1>2, <3>1, OneMore
    <3>3. pending_host_ops'[l] = pending_host_ops[l] + 1
      BY <1>4, <1>8, <2>2 DEF Posts, increment_liveness
    <3>4. QED
      BY <1>1, <1>2, <2>1, <3>2, <3>3
  <2>3. CASE Liveness[o] # l
    <3>1. Posted(l)' = Posted(l)
      BY <1>3, <2>3 DEF Posted
    <3>2. pending_host_ops'[l] = pending_host_ops[l]
      BY <1>4, <1>8, <2>3 DEF Posts, increment_liveness
    <3>3. QED
      BY ZenonT(60), <1>1, <2>1, <3>1, <3>2
  <2>4. QED
    BY <2>2, <2>3
<1>9. CASE Unposts(o)
  <2>1. Kept(l)' = Kept(l)
    BY ZenonT(60), <1>6, <1>9 DEF Unposts
  <2>2. CASE Liveness[o] = l
    <3>1. Posted(l)' = Posted(l) \ {o} /\ o \in Posted(l)
      BY <1>3, <1>9, <2>2 DEF Posted, Unposts
    <3>2. Cardinality(Posted(l)') = Cardinality(Posted(l)) - 1 /\ Cardinality(Posted(l)) > 0
      BY ZenonT(60), <1>2, <3>1, OneLess
    <3>3. pending_host_ops[l] > 0
      BY <1>1, <1>2, <3>2
    <3>4. pending_host_ops'[l] = pending_host_ops[l] - 1
      BY <1>4, <1>9, <2>2, <3>3 DEF Unposts, decrement_liveness
    <3>5. QED
      BY <1>1, <1>2, <2>1, <3>2, <3>4
  <2>3. CASE Liveness[o] # l
    <3>1. Posted(l)' = Posted(l)
      BY <1>3, <2>3 DEF Posted
    <3>2. pending_host_ops'[l] = pending_host_ops[l]
      BY <1>4, <1>9, <2>3 DEF Unposts, decrement_liveness
    <3>3. QED
      BY ZenonT(60), <1>1, <2>1, <3>1, <3>2
  <2>4. QED
    BY <2>2, <2>3
<1>10. CASE Keeps(o)
  <2>1. \A x \in Ops : Counted(x)' <=> Counted(x)
    BY ZenonT(60), <1>3, <1>10 DEF Keeps
  <2>2. Posted(l)' = Posted(l)
    BY ZenonT(60), <1>5, <2>1
  <2>3. CASE Liveness[o] = l
    <3>1. Kept(l)' = Kept(l) \cup {o} /\ o \notin Kept(l)
      BY <1>10, <2>3 DEF Kept, Keeps
    <3>2. Cardinality(Kept(l)') = Cardinality(Kept(l)) + 1
      BY ZenonT(60), <1>2, <3>1, OneMore
    <3>3. pending_host_ops'[l] = pending_host_ops[l] + 1
      BY <1>4, <1>10, <2>3 DEF Keeps, increment_liveness
    <3>4. QED
      BY <1>1, <1>2, <2>2, <3>2, <3>3
  <2>4. CASE Liveness[o] # l
    <3>1. Kept(l)' = Kept(l)
      BY <1>10, <2>4 DEF Kept, Keeps
    <3>2. pending_host_ops'[l] = pending_host_ops[l]
      BY <1>4, <1>10, <2>4 DEF Keeps, increment_liveness
    <3>3. QED
      BY ZenonT(60), <1>1, <2>2, <3>1, <3>2
  <2>5. QED
    BY <2>3, <2>4
<1>11. CASE Unkeeps(o)
  <2>1. \A x \in Ops : Counted(x)' <=> Counted(x)
    BY ZenonT(60), <1>3, <1>11 DEF Unkeeps
  <2>2. Posted(l)' = Posted(l)
    BY ZenonT(60), <1>5, <2>1
  <2>3. CASE Liveness[o] = l
    <3>1. Kept(l)' = Kept(l) \ {o} /\ o \in Kept(l)
      BY <1>11, <2>3 DEF Kept, Unkeeps
    <3>2. Cardinality(Kept(l)') = Cardinality(Kept(l)) - 1 /\ Cardinality(Kept(l)) > 0
      BY ZenonT(60), <1>2, <3>1, OneLess
    <3>3. pending_host_ops[l] > 0
      BY <1>1, <1>2, <3>2
    <3>4. pending_host_ops'[l] = pending_host_ops[l] - 1
      BY <1>4, <1>11, <2>3, <3>3 DEF Unkeeps, decrement_liveness
    <3>5. QED
      BY <1>1, <1>2, <2>2, <3>2, <3>4
  <2>4. CASE Liveness[o] # l
    <3>1. Kept(l)' = Kept(l)
      BY <1>11, <2>4 DEF Kept, Unkeeps
    <3>2. pending_host_ops'[l] = pending_host_ops[l]
      BY <1>4, <1>11, <2>4 DEF Unkeeps, decrement_liveness
    <3>3. QED
      BY ZenonT(60), <1>1, <2>2, <3>1, <3>2
  <2>5. QED
    BY <2>3, <2>4
<1>12. QED
  BY ZenonT(60), <1>7, <1>8, <1>9, <1>10, <1>11 DEF Counts

\* A counter at zero counts nothing.
LEMMA RefIdle ==
  ASSUME TypeOK, ActivityAccounting, ~disconnected, pending_host_ops["Ref"] = 0
  PROVE  \A o \in Ops : ~Outstanding(o)
<1>1. 0 = Cardinality(Kept("Ref")) + Cardinality(Posted("Ref"))
  BY Account DEF Levels
<1>2. /\ IsFiniteSet(Kept("Ref")) /\ IsFiniteSet(Posted("Ref"))
      /\ Cardinality(Kept("Ref")) \in Nat /\ Cardinality(Posted("Ref")) \in Nat
  BY ZenonT(60), ActivityFinite
<1>3. Cardinality(Kept("Ref")) = 0 /\ Cardinality(Posted("Ref")) = 0
  BY <1>1, <1>2
<1>4. Kept("Ref") = {} /\ Posted("Ref") = {}
  BY <1>2, <1>3, FS_EmptySet
<1>5. QED
  BY <1>4, ConstantsAssumption DEF Outstanding, Kept, Posted

-----------------------------------------------------------------------------
(* The inbox and the operations in it.                                      *)

\* A message that is no operation joins the inbox, or nothing does.
LEMMA MailSame ==
  ASSUME inbox \in Seq(Messages), MailInv,
         UNCHANGED inbox \/ \E m \in Messages \ Ops : inbox' = Append(inbox, m),
         \A x \in Ops : op[x] \in Mailed => op'[x] \in Mailed
  PROVE  MailInv'
<1>1. CASE UNCHANGED inbox
  BY <1>1 DEF MailInv
<1>2. CASE \E m \in Messages \ Ops : inbox' = Append(inbox, m)
  <2>1. PICK m \in Messages \ Ops : inbox' = Append(inbox, m)
    BY <1>2
  <2>2. /\ Len(inbox') = Len(inbox) + 1 /\ Len(inbox) \in Nat
        /\ \A i \in 1..Len(inbox) : inbox'[i] = inbox[i]
        /\ inbox'[Len(inbox) + 1] = m
    BY <2>1
  <2>3. \A i \in 1..Len(inbox') : inbox'[i] \in Ops => i \in 1..Len(inbox) /\ inbox'[i] = inbox[i]
    BY <2>2
  <2>4. QED
    BY <2>3 DEF MailInv
<1>3. QED
  BY <1>1, <1>2

\* An operation that was not there joins the inbox.
LEMMA MailSend ==
  ASSUME inbox \in Seq(Messages), MailInv, NEW o \in Ops, inbox' = Append(inbox, o),
         op[o] \notin Mailed, op'[o] \in Mailed,
         \A x \in Ops : op[x] \in Mailed => op'[x] \in Mailed
  PROVE  MailInv'
<1>1. o \in Messages
  BY DEF Messages
<1>2. /\ Len(inbox') = Len(inbox) + 1 /\ Len(inbox) \in Nat
      /\ \A i \in 1..Len(inbox) : inbox'[i] = inbox[i]
      /\ inbox'[Len(inbox) + 1] = o
  BY <1>1
<1>3. \A i \in 1..Len(inbox) : inbox[i] # o
  BY DEF MailInv
<1>4. \A i \in 1..Len(inbox') :
         \/ i \in 1..Len(inbox) /\ inbox'[i] = inbox[i] /\ inbox'[i] # o
         \/ i = Len(inbox) + 1 /\ inbox'[i] = o
  BY <1>2, <1>3
<1>5. QED
  BY <1>4 DEF MailInv

\* The oldest message leaves the inbox, and with it its only copy.
LEMMA MailTake ==
  ASSUME inbox \in Seq(Messages), MailInv, inbox # <<>>, inbox' = Tail(inbox),
         \A x \in Ops : x # Head(inbox) /\ op[x] \in Mailed => op'[x] \in Mailed
  PROVE  MailInv'
<1>1. /\ Len(inbox) \in Nat /\ Len(inbox) > 0 /\ Len(inbox') = Len(inbox) - 1
      /\ Head(inbox) = inbox[1]
      /\ \A i \in 1..Len(inbox') : inbox'[i] = inbox[i + 1]
  OBVIOUS
<1>2. \A i \in 1..Len(inbox') : i + 1 \in 1..Len(inbox) /\ i + 1 # 1
  BY <1>1
<1>3. \A i \in 1..Len(inbox') : inbox'[i] \in Ops => op'[inbox'[i]] \in Mailed
  <2> SUFFICES ASSUME NEW i \in 1..Len(inbox'), inbox'[i] \in Ops
               PROVE  op'[inbox'[i]] \in Mailed
    OBVIOUS
  <2>1. inbox[i + 1] \in Ops /\ i + 1 \in 1..Len(inbox) /\ 1 \in 1..Len(inbox) /\ i + 1 # 1
    BY <1>1, <1>2
  <2>2. op[inbox[i + 1]] \in Mailed /\ inbox[i + 1] # inbox[1]
    BY ZenonT(60), <2>1 DEF MailInv
  <2>3. QED
    BY ZenonT(60), <1>1, <2>1, <2>2
<1>4. \A i, j \in 1..Len(inbox') : (inbox'[i] \in Ops /\ inbox'[i] = inbox'[j]) => i = j
  <2> SUFFICES ASSUME NEW i \in 1..Len(inbox'), NEW j \in 1..Len(inbox'),
                      inbox'[i] \in Ops, inbox'[i] = inbox'[j]
               PROVE  i = j
    OBVIOUS
  <2>1. i + 1 = j + 1
    BY ZenonT(60), <1>1, <1>2 DEF MailInv
  <2>2. QED
    BY <2>1
<1>5. QED
  BY ZenonT(60), <1>3, <1>4 DEF MailInv

-----------------------------------------------------------------------------
(* The classes of steps keep the invariant.                                 *)

\* The reply invariant, in terms of outstanding work.
LEMMA Reply ==
  ReplyAfterRefWork <=>
    ((pc = "reply" /\ cur \in RunCommands /\ result = "ok" /\ ~self_shutdown)
        => \A o \in Ops : ~Outstanding(o))
BY ZenonT(60) DEF ReplyAfterRefWork, Outstanding

\* The same of the next state.
LEMMA ReplyNext ==
  ASSUME (pc' = "reply" /\ cur' \in RunCommands /\ result' = "ok" /\ ~self_shutdown')
             => \A o \in Ops : ~Outstanding(o)'
  PROVE  ReplyAfterRefWork'
BY ZenonT(60) DEF ReplyAfterRefWork, Outstanding

\* The host and JavaScript move one operation.
LEMMA OpKeeps ==
  ASSUME FullInv, HostInv, NEW o \in Ops, OpStep(o)
  PROVE  HostInv'
<1>1. /\ TypeOK /\ PcInv /\ op \in [Ops -> OpStates] /\ inbox \in Seq(Messages)
      /\ op' = [op EXCEPT ![o] = op'[o]]
  BY ZenonT(60) DEF FullInv, IInv, TypeOK, OpStep
<1>2. \A x \in Ops : x # o => op'[x] = op[x]
  BY <1>1
<1>3. \A x \in Ops : x # o => (x \in keep_alive' <=> x \in keep_alive)
  BY DEF OpStep, Counts, Uncounted, Posts, Unposts, Keeps, Unkeeps
<1>4. \A x \in Ops : x # o => (Counted(x)' <=> Counted(x))
  BY ZenonT(60), <1>1, OthersCounted
<1>5. KeepInv'
  <2>1. ASSUME NEW x \in Ops, x # o PROVE KeepAt(x)'
    BY ZenonT(60), <1>2, <1>3, <2>1 DEF HostInv, KeepInv, KeepAt
  <2>2. KeepAt(o)'
    BY ZenonT(60) DEF OpStep
  <2>3. QED
    BY ZenonT(60), <2>1, <2>2 DEF KeepInv
<1>6. JobInv'
  <2> SUFFICES ASSUME pc' = "task" PROVE op'[job'] \in Taken
    BY DEF JobInv
  <2>1. job \in Ops /\ op[job] \in Taken /\ job' = job
    BY ZenonT(60), <1>1 DEF HostInv, JobInv, OpStep, PcInv
  <2>2. CASE job = o
    BY ZenonT(60), <2>1, <2>2 DEF OpStep
  <2>3. QED
    BY ZenonT(60), <1>2, <2>1, <2>2
<1>7. MailInv'
  <2>1. \A x \in Ops : op[x] \in Mailed => op'[x] \in Mailed
    BY ZenonT(60), <1>2 DEF OpStep
  <2>2. CASE UNCHANGED inbox
    BY ZenonT(60), <1>1, <2>1, <2>2, MailSame DEF HostInv
  <2>3. CASE inbox' = Append(inbox, o) /\ op[o] \notin Mailed /\ op'[o] \in Mailed
    BY ZenonT(60), <1>1, <2>1, <2>3, MailSend DEF HostInv
  <2>4. QED
    BY ZenonT(60), <2>2, <2>3 DEF OpStep
<1>8. ActivityAccounting'
  BY ZenonT(60), <1>1, AccountStep DEF HostInv, OpStep
<1>9. ReplyAfterRefWork'
  <2> SUFFICES ASSUME pc' = "reply", cur' \in RunCommands, result' = "ok", ~self_shutdown',
                      NEW x \in Ops
               PROVE  ~Outstanding(x)'
    BY ZenonT(60), ReplyNext
  <2>1. ~Outstanding(x) /\ pc = "reply"
    BY ZenonT(60), Reply DEF HostInv, OpStep
  <2>2. CASE x = o
    BY ZenonT(60), <2>1, <2>2 DEF OpStep
  <2>3. CASE x # o
    BY ZenonT(60), <1>3, <1>4, <2>1, <2>3 DEF Outstanding
  <2>4. QED
    BY ZenonT(60), <2>2, <2>3
<1>10. QED
  BY ZenonT(60), <1>5, <1>6, <1>7, <1>8, <1>9 DEF HostInv

\* The others leave the operations alone; a drive that found the counter of
\* referenced work at zero found nothing outstanding.
LEMMA CalmKeeps ==
  ASSUME FullInv, FullInv', HostInv, Calm
  PROVE  HostInv'
<1>1. /\ TypeOK /\ inbox \in Seq(Messages) /\ PcInv'
      /\ UNCHANGED <<op, keep_alive, pending_host_ops, disconnected>>
  BY ZenonT(60) DEF FullInv, IInv, TypeOK, Calm
<1>2. KeepInv'
  BY ZenonT(60), <1>1 DEF HostInv, KeepInv, KeepAt
<1>3. JobInv'
  BY ZenonT(60), <1>1 DEF HostInv, JobInv, Calm
<1>4. MailInv'
  <2>1. UNCHANGED inbox \/ \E m \in Messages \ Ops : inbox' = Append(inbox, m)
    BY ZenonT(60) DEF Calm
  <2>2. QED
    BY ZenonT(60), <1>1, <2>1, MailSame DEF HostInv
<1>5. ActivityAccounting'
  BY ZenonT(60), <1>1 DEF HostInv, ActivityAccounting, Counted
<1>6. ReplyAfterRefWork'
  <2> SUFFICES ASSUME pc' = "reply", cur' \in RunCommands, result' = "ok", ~self_shutdown',
                      NEW x \in Ops
               PROVE  ~Outstanding(x)'
    BY ZenonT(60), ReplyNext
  <2>1. Outstanding(x)' <=> Outstanding(x)
    BY ZenonT(60), <1>1 DEF Outstanding, Counted
  <2>2. CASE pc = "reply" /\ UNCHANGED <<cur, result, self_shutdown>>
    BY ZenonT(60), <2>1, <2>2, Reply DEF HostInv
  <2>3. CASE pending_host_ops["Ref"] = 0
    <3>1. ~disconnected
      BY <1>1 DEF PcInv, Ended
    <3>2. QED
      BY ZenonT(60), <1>1, <2>1, <2>3, <3>1, RefIdle DEF HostInv
  <2>4. QED
    BY ZenonT(60), <2>2, <2>3 DEF Calm
<1>7. QED
  BY ZenonT(60), <1>2, <1>3, <1>4, <1>5, <1>6 DEF HostInv

\* The isolate takes a message out of the inbox and dispatches it.
LEMMA ReceiveCounts ==
  ASSUME FullInv, HostInv, pc \in {"take", "recv", "block"}, inbox # <<>>,
         inbox' = Tail(inbox), dispatch(Head(inbox)), receive(Head(inbox)),
         UNCHANGED <<keep_alive, disconnected>>
  PROVE  HostInv'
<1>1. /\ TypeOK /\ PcInv /\ op \in [Ops -> OpStates] /\ inbox \in Seq(Messages)
      /\ KeepInv /\ MailInv /\ ActivityAccounting
  BY ZenonT(60) DEF FullInv, IInv, TypeOK, HostInv
<1>2. ReplyAfterRefWork'
  <2>1. pc' = "reply" => self_shutdown'
    BY DEF dispatch, AfterMessage
  <2>2. QED
    BY ZenonT(60), <2>1, ReplyNext
<1>3. CASE Head(inbox) \in Ops
  <2>0. PICK o \in Ops : o = Head(inbox)
    BY ZenonT(60), <1>3
  <2>1. PICK s \in Taken : op' = [op EXCEPT ![o] = s] /\ (s = "settling" <=> Releases(o))
    BY <1>3, <2>0 DEF receive, SetOp, Taken
  <2>2. op[o] \in Mailed
    <3>1. 1 \in 1..Len(inbox) /\ inbox[1] = o
      BY <1>1, <2>0
    <3>2. QED
      BY ZenonT(60), <1>1, <1>3, <3>1 DEF MailInv
  <2>3. op'[o] = s /\ \A x \in Ops : x # o => op'[x] = op[x]
    BY <1>1, <1>3, <2>1
  <2>4. pc' = "task" /\ job' = o
    BY <1>3, <2>0, ConstantsAssumption DEF dispatch
  <2>5. JobInv'
    BY ZenonT(60), <2>3, <2>4 DEF JobInv
  <2>6. KeepInv'
    <3>1. ASSUME NEW x \in Ops PROVE KeepAt(x)'
      <4>1. CASE x = o
        <5>1. op'[o] \in Taken /\ op[o] \in Mailed /\ KeepAt(o) /\ keep_alive' = keep_alive
          BY ZenonT(60), <1>1, <1>3, <2>2, <2>3 DEF KeepInv
        <5>2. QED
          BY <4>1, <5>1 DEF KeepAt, Taken, Mailed
      <4>2. CASE x # o
        BY ZenonT(60), <1>1, <2>3, <4>2 DEF KeepInv, KeepAt
      <4>3. QED
        BY ZenonT(60), <4>1, <4>2
    <3>2. QED
      BY ZenonT(60), <3>1 DEF KeepInv
  <2>7. MailInv'
    <3>1. \A x \in Ops : x # Head(inbox) => op'[x] = op[x]
      BY ZenonT(60), <2>0, <2>3
    <3>2. QED
      BY ZenonT(60), <1>1, <3>1, MailTake
  <2>8. ActivityAccounting'
    <3>1. Counts(o)
      <4>1. CASE Releases(o)
        <5>1. decrement_liveness(o) /\ op'[o] = "settling"
          BY <1>3, <2>0, <2>1, <2>3, <4>1 DEF receive
        <5>2. Counted(o) /\ ~Counted(o)'
          BY <2>2, <5>1 DEF Counted, Mailed
        <5>3. QED
          BY ZenonT(60), <5>1, <5>2 DEF Counts, Unposts
      <4>2. CASE ~Releases(o)
        <5>1. UNCHANGED pending_host_ops /\ op'[o] = "running"
          BY <1>3, <2>0, <2>1, <2>3, <4>2 DEF receive, Taken
        <5>2. Counted(o) /\ Counted(o)'
          BY <2>2, <5>1 DEF Counted, Mailed
        <5>3. QED
          BY ZenonT(60), <5>1, <5>2 DEF Counts, Uncounted
      <4>3. QED
        BY ZenonT(60), <4>1, <4>2
    <3>2. op' = [op EXCEPT ![o] = op'[o]]
      BY ZenonT(60), <2>1, <2>3
    <3>3. QED
      BY ZenonT(60), <1>1, <1>3, <3>1, <3>2, AccountStep
  <2>9. QED
    BY ZenonT(60), <1>2, <2>5, <2>6, <2>7, <2>8 DEF HostInv
<1>4. CASE Head(inbox) \notin Ops
  <2>1. op' = op /\ pending_host_ops' = pending_host_ops /\ keep_alive' = keep_alive
    BY ZenonT(60), <1>4 DEF receive
  <2>2. pc' # "task"
    BY <1>4 DEF dispatch, AfterMessage
  <2>3. KeepInv' /\ JobInv'
    BY ZenonT(60), <1>1, <2>1, <2>2 DEF KeepInv, KeepAt, JobInv
  <2>4. MailInv'
    BY ZenonT(60), <1>1, <2>1, MailTake
  <2>5. ActivityAccounting'
    BY ZenonT(60), <1>1, <2>1 DEF ActivityAccounting, Counted
  <2>6. QED
    BY ZenonT(60), <1>2, <2>3, <2>4, <2>5 DEF HostInv
<1>5. QED
  BY ZenonT(60), <1>3, <1>4

\* process_message returns: the operation gives its count back, or goes on
\* fetching with it.
LEMMA FinishCounts ==
  ASSUME FullInv, HostInv, process_message_finish
  PROVE  HostInv'
<1>1. /\ TypeOK /\ op \in [Ops -> OpStates] /\ inbox \in Seq(Messages) /\ job \in Ops
      /\ KeepInv /\ MailInv /\ ActivityAccounting
  BY ZenonT(60) DEF FullInv, IInv, TypeOK, HostInv, PcInv, process_message_finish
<1>2. /\ UNCHANGED <<inbox, keep_alive, disconnected>>
      /\ pc' \in {"poll", "drive"}
  BY DEF process_message_finish, AfterMessage, runnerFrame
<1>3. PICK s \in {"done", "fetching"} : op' = [op EXCEPT ![job] = s]
  BY DEF process_message_finish, SetOp
<1>4. op'[job] = s /\ \A x \in Ops : x # job => op'[x] = op[x]
  BY <1>1, <1>3
<1>5. op[job] \in Taken
  BY DEF process_message_finish, Taken
<1>6. JobInv'
  BY <1>2 DEF JobInv
<1>7. ReplyAfterRefWork'
  BY <1>2, ReplyNext
<1>8. KeepInv'
  <2>1. ASSUME NEW x \in Ops PROVE KeepAt(x)'
    <3>1. CASE x = job
      <4>1. KeepAt(job) /\ keep_alive' = keep_alive
        BY ZenonT(60), <1>1, <1>2 DEF KeepInv
      <4>2. QED
        BY <1>4, <3>1, <4>1 DEF KeepAt
    <3>2. CASE x # job
      BY ZenonT(60), <1>1, <1>2, <1>4, <3>2 DEF KeepInv, KeepAt
    <3>3. QED
      BY ZenonT(60), <3>1, <3>2
  <2>2. QED
    BY ZenonT(60), <2>1 DEF KeepInv
<1>9. MailInv'
  <2>1. op[job] \notin Mailed
    BY <1>5 DEF Mailed, Taken
  <2>2. \A x \in Ops : op[x] \in Mailed => op'[x] \in Mailed
    BY ZenonT(60), <1>4, <2>1
  <2>3. QED
    BY ZenonT(60), <1>1, <1>2, <2>2, MailSame
<1>10. ActivityAccounting'
  <2>0. PICK j \in Ops : j = job
    BY ZenonT(60), <1>1
  <2>1. Counts(j)
    <3>1. CASE op[job] = "settling" /\ op' = [op EXCEPT ![job] = "done"] /\ UNCHANGED pending_host_ops
      <4>1. op'[j] = "done"
        BY <1>1, <2>0, <3>1
      <4>2. ~Counted(j) /\ ~Counted(j)'
        BY <2>0, <3>1, <4>1 DEF Counted
      <4>3. QED
        BY ZenonT(60), <1>2, <2>0, <3>1, <4>2 DEF Counts, Uncounted
    <3>2. CASE op[job] = "running" /\ op' = [op EXCEPT ![job] = "done"] /\ decrement_liveness(job)
      <4>1. op'[j] = "done"
        BY <1>1, <2>0, <3>2
      <4>2. Counted(j) /\ ~Counted(j)'
        BY <2>0, <3>2, <4>1 DEF Counted
      <4>3. QED
        BY ZenonT(60), <1>2, <2>0, <3>2, <4>2 DEF Counts, Unposts
    <3>3. CASE op[job] = "running" /\ op' = [op EXCEPT ![job] = "fetching"] /\ UNCHANGED pending_host_ops
      <4>1. op'[j] = "fetching"
        BY <1>1, <2>0, <3>3
      <4>2. Counted(j) /\ Counted(j)'
        BY <2>0, <3>3, <4>1 DEF Counted
      <4>3. QED
        BY ZenonT(60), <1>2, <2>0, <3>3, <4>2 DEF Counts, Uncounted
    <3>4. QED
      BY ZenonT(60), <3>1, <3>2, <3>3 DEF process_message_finish, SetOp
  <2>2. op' = [op EXCEPT ![j] = op'[j]]
    BY ZenonT(60), <1>3, <1>4, <2>0
  <2>3. QED
    BY ZenonT(60), <1>1, <1>2, <2>1, <2>2, AccountStep
<1>11. QED
  BY ZenonT(60), <1>6, <1>7, <1>8, <1>9, <1>10 DEF HostInv

\* A command that arrives during the drain leaves the inbox.
LEMMA DeferCounts ==
  ASSUME FullInv, HostInv, drive_event_loop_recv, Head(inbox) \in Commands,
         defer(Head(inbox))
  PROVE  HostInv'
<1>1. /\ inbox \in Seq(Messages) /\ KeepInv /\ MailInv /\ ActivityAccounting
      /\ inbox # <<>> /\ inbox' = Tail(inbox)
      /\ UNCHANGED <<op, pending_host_ops, keep_alive, disconnected>> /\ pc' = "drive"
  BY ZenonT(60) DEF FullInv, IInv, TypeOK, HostInv, drive_event_loop_recv, defer, runnerFrame
<1>2. KeepInv'
  BY ZenonT(60), <1>1 DEF KeepInv, KeepAt
<1>3. JobInv'
  BY <1>1 DEF JobInv
<1>4. ReplyAfterRefWork'
  BY <1>1, ReplyNext
<1>5. MailInv'
  BY ZenonT(60), <1>1, MailTake
<1>6. ActivityAccounting'
  BY ZenonT(60), <1>1 DEF ActivityAccounting, Counted
<1>7. QED
  BY ZenonT(60), <1>2, <1>3, <1>4, <1>5, <1>6 DEF HostInv

\* The isolate is gone: what lay in the inbox is cancelled.
LEMMA DropCounts ==
  ASSUME FullInv, HostInv, isolate_drop
  PROVE  HostInv'
<1>1. KeepInv /\ disconnected' /\ inbox' = <<>> /\ pc' = "stopping" /\ keep_alive' = keep_alive
  BY ZenonT(60) DEF HostInv, isolate_drop
<1>2. \A x \in Ops : op'[x] = op[x] \/ (op'[x] = "cancelled" /\ op[x] # "off")
  BY DEF isolate_drop
<1>3. KeepInv'
  <2>1. ASSUME NEW x \in Ops PROVE KeepAt(x)'
    <3>1. KeepAt(x) /\ keep_alive' = keep_alive
      BY ZenonT(60), <1>1 DEF KeepInv
    <3>2. QED
      BY <1>2, <3>1 DEF KeepAt
  <2>2. QED
    BY ZenonT(60), <2>1 DEF KeepInv
<1>4. JobInv' /\ ReplyAfterRefWork'
  BY <1>1, ReplyNext DEF JobInv
<1>5. MailInv'
  <2>1. \A i \in 1..Len(inbox') : FALSE
    BY <1>1
  <2>2. QED
    BY <2>1 DEF MailInv
<1>6. ActivityAccounting'
  BY ZenonT(60), <1>1 DEF ActivityAccounting
<1>7. QED
  BY ZenonT(60), <1>3, <1>4, <1>5, <1>6 DEF HostInv

\* Every step keeps the liveness counters exact.
LEMMA HostStep == FullInv /\ FullInv' /\ HostInv /\ [Next]_vars => HostInv'
<1> SUFFICES ASSUME FullInv, FullInv', HostInv, [Next]_vars PROVE HostInv'
  OBVIOUS
<1>inv. /\ op \in [Ops -> OpStates] /\ keep_alive \subseteq Ops /\ PcInv
        /\ \A o \in Ops : KeepAt(o)
  BY ZenonT(60) DEF FullInv, IInv, TypeOK, HostInv, KeepInv
<1>msg. \A c \in Commands \cup {Interrupt, Shutdown} : c \in Messages \ Ops
  BY ConstantsAssumption DEF Messages
<1>1. CASE UNCHANGED vars
  <2>1. Calm
    BY <1>1 DEF Calm, vars, hostVars, runnerVars
  <2>2. QED
    BY ZenonT(60), <2>1, CalmKeeps
<1>2. ASSUME NEW c \in Commands, submit_check(c) PROVE HostInv'
  <2>1. Calm
    BY <1>inv, <1>msg, <1>2 DEF Calm, submit_check, hostVars, runnerVars
  <2>2. QED
    BY ZenonT(60), <2>1, CalmKeeps
<1>3. ASSUME NEW c \in Commands, submit_reserve(c) PROVE HostInv'
  <2>1. Calm
    BY <1>inv, <1>msg, <1>3 DEF Calm, submit_reserve, hostVars, runnerVars
  <2>2. QED
    BY ZenonT(60), <2>1, CalmKeeps
<1>4. ASSUME NEW c \in Commands, submit_send(c) PROVE HostInv'
  <2>1. Calm
    BY <1>inv, <1>msg, <1>4 DEF Calm, submit_send, TrySendOk, TrySendFull,
       TrySendDisconnected, hostVars, runnerVars
  <2>2. QED
    BY ZenonT(60), <2>1, CalmKeeps
<1>5. ASSUME NEW c \in Commands, submit_release(c) PROVE HostInv'
  <2>1. Calm
    BY <1>inv, <1>msg, <1>5 DEF Calm, submit_release, hostVars, runnerVars
  <2>2. QED
    BY ZenonT(60), <2>1, CalmKeeps
<1>6. ASSUME NEW c \in Commands, await_reply_timeout(c) PROVE HostInv'
  <2>1. Calm
    BY <1>inv, <1>msg, <1>6 DEF Calm, await_reply_timeout, hostVars,
       runnerVars
  <2>2. QED
    BY ZenonT(60), <2>1, CalmKeeps
<1>7. ASSUME NEW c \in Commands, interrupt_post(c) PROVE HostInv'
  <2>1. Calm
    BY <1>inv, <1>msg, <1>7 DEF Calm, interrupt_post, TrySendOk, TrySendFull,
       TrySendDisconnected, hostVars, runnerVars
  <2>2. QED
    BY ZenonT(60), <2>1, CalmKeeps
<1>8. ASSUME NEW c \in Commands, abandon(c) PROVE HostInv'
  <2>1. Calm
    BY <1>inv, <1>msg, <1>8 DEF Calm, abandon, hostVars, runnerVars
  <2>2. QED
    BY ZenonT(60), <2>1, CalmKeeps
<1>9. ASSUME NEW o \in Ops, enqueue_check(o) PROVE HostInv'
  <2>1. KeepAt(o)
    BY ZenonT(60), <1>inv
  <2>2. OpStep(o)
    BY <1>inv, <1>9, <2>1 DEF OpStep, Counts, Uncounted, Posts, Unposts,
       Keeps, Unkeeps, KeepAt, Counted, Outstanding, Mailed, Taken,
       enqueue_check, SetOp, hostFrame, runnerVars
  <2>3. QED
    BY ZenonT(60), <2>2, OpKeeps
<1>10. ASSUME NEW o \in Ops, retain_host_activity(o) PROVE HostInv'
  <2>1. KeepAt(o)
    BY ZenonT(60), <1>inv
  <2>2. OpStep(o)
    BY <1>inv, <1>10, <2>1 DEF OpStep, Counts, Uncounted, Posts, Unposts,
       Keeps, Unkeeps, KeepAt, Counted, Outstanding, Mailed, Taken,
       retain_host_activity, SetOp, hostFrame, runnerVars
  <2>3. QED
    BY ZenonT(60), <2>2, OpKeeps
<1>11. ASSUME NEW o \in Ops, post_internal_message(o) PROVE HostInv'
  <2>1. KeepAt(o)
    BY ZenonT(60), <1>inv
  <2>2. OpStep(o)
    BY <1>inv, <1>11, <2>1 DEF OpStep, Counts, Uncounted, Posts, Unposts,
       Keeps, Unkeeps, KeepAt, Counted, Outstanding, Mailed, Taken,
       post_internal_message, SetOp, TrySendOk, TrySendFull,
       TrySendDisconnected, hostFrame, runnerVars
  <2>3. QED
    BY ZenonT(60), <2>2, OpKeeps
<1>12. ASSUME NEW o \in Ops, retry_check(o) PROVE HostInv'
  <2>1. KeepAt(o)
    BY ZenonT(60), <1>inv
  <2>2. OpStep(o)
    BY <1>inv, <1>12, <2>1 DEF OpStep, Counts, Uncounted, Posts, Unposts,
       Keeps, Unkeeps, KeepAt, Counted, Outstanding, Mailed, Taken,
       retry_check, SetOp, hostFrame, runnerVars
  <2>3. QED
    BY ZenonT(60), <2>2, OpKeeps
<1>13. ASSUME NEW o \in Ops, retry_send(o) PROVE HostInv'
  <2>1. KeepAt(o)
    BY ZenonT(60), <1>inv
  <2>2. OpStep(o)
    BY <1>inv, <1>13, <2>1 DEF OpStep, Counts, Uncounted, Posts, Unposts,
       Keeps, Unkeeps, KeepAt, Counted, Outstanding, Mailed, Taken,
       retry_send, SetOp, TrySendOk, TrySendFull, TrySendDisconnected,
       hostFrame, runnerVars
  <2>3. QED
    BY ZenonT(60), <2>2, OpKeeps
<1>14. ASSUME NEW o \in Ops, cancel_host_activity(o) PROVE HostInv'
  <2>1. KeepAt(o)
    BY ZenonT(60), <1>inv
  <2>2. OpStep(o)
    BY <1>inv, <1>14, <2>1 DEF OpStep, Counts, Uncounted, Posts, Unposts,
       Keeps, Unkeeps, KeepAt, Counted, Outstanding, Mailed, Taken,
       cancel_host_activity, SetOp, hostFrame, runnerVars
  <2>3. QED
    BY ZenonT(60), <2>2, OpKeeps
<1>15. ASSUME NEW o \in Ops, release_keep_alive(o) PROVE HostInv'
  <2>1. KeepAt(o)
    BY ZenonT(60), <1>inv
  <2>2. OpStep(o)
    BY <1>inv, <1>15, <2>1 DEF OpStep, Counts, Uncounted, Posts, Unposts,
       Keeps, Unkeeps, KeepAt, Counted, Outstanding, Mailed, Taken,
       release_keep_alive, SetOp, hostFrame, runnerVars
  <2>3. QED
    BY ZenonT(60), <2>2, OpKeeps
<1>16. ASSUME NEW o \in Ops, prepare_remote_entry(o) PROVE HostInv'
  <2>1. KeepAt(o)
    BY ZenonT(60), <1>inv
  <2>2. OpStep(o)
    BY <1>inv, <1>16, <2>1 DEF OpStep, Counts, Uncounted, Posts, Unposts,
       Keeps, Unkeeps, KeepAt, Counted, Outstanding, Mailed, Taken,
       prepare_remote_entry, SetOp, hostFrame, runnerVars
  <2>3. QED
    BY ZenonT(60), <2>2, OpKeeps
<1>17. ASSUME NEW o \in Ops, graph_prepared_check(o) PROVE HostInv'
  <2>1. KeepAt(o)
    BY ZenonT(60), <1>inv
  <2>2. OpStep(o)
    BY <1>inv, <1>17, <2>1 DEF OpStep, Counts, Uncounted, Posts, Unposts,
       Keeps, Unkeeps, KeepAt, Counted, Outstanding, Mailed, Taken,
       graph_prepared_check, SetOp, hostFrame, runnerVars
  <2>3. QED
    BY ZenonT(60), <2>2, OpKeeps
<1>18. ASSUME NEW o \in Ops, graph_prepared_send(o) PROVE HostInv'
  <2>1. KeepAt(o)
    BY ZenonT(60), <1>inv
  <2>2. OpStep(o)
    BY <1>inv, <1>18, <2>1 DEF OpStep, Counts, Uncounted, Posts, Unposts,
       Keeps, Unkeeps, KeepAt, Counted, Outstanding, Mailed, Taken,
       graph_prepared_send, SetOp, TrySendOk, TrySendFull,
       TrySendDisconnected, hostFrame, runnerVars
  <2>3. QED
    BY ZenonT(60), <2>2, OpKeeps
<1>19. ASSUME NEW o \in Ops, promise_pending(o) PROVE HostInv'
  <2>1. KeepAt(o)
    BY ZenonT(60), <1>inv
  <2>2. OpStep(o)
    BY <1>inv, <1>19, <2>1 DEF OpStep, Counts, Uncounted, Posts, Unposts,
       Keeps, Unkeeps, KeepAt, Counted, Outstanding, Mailed, Taken,
       promise_pending, SetOp, ExecutingJs, runnerFrame, runnerVars
  <2>3. QED
    BY ZenonT(60), <2>2, OpKeeps
<1>20. ASSUME NEW o \in Ops, dynamic_import_schedule(o) PROVE HostInv'
  <2>1. KeepAt(o)
    BY ZenonT(60), <1>inv
  <2>2. OpStep(o)
    BY <1>inv, <1>20, <2>1 DEF OpStep, Counts, Uncounted, Posts, Unposts,
       Keeps, Unkeeps, KeepAt, Counted, Outstanding, Mailed, Taken,
       dynamic_import_schedule, SetOp, ExecutingJs, TrySendOk, TrySendFull,
       runnerFrame, runnerVars
  <2>3. QED
    BY ZenonT(60), <2>2, OpKeeps
<1>21. ASSUME NEW s \in Stoppers, shutdown_flag(s) PROVE HostInv'
  <2>1. Calm
    <3>1. /\ UNCHANGED <<op, keep_alive, pending_host_ops, disconnected, inbox>>
          /\ UNCHANGED <<pc, job, cur, result, self_shutdown>>
      BY <1>21 DEF shutdown_flag, hostVars, runnerVars
    <3>2. QED
      BY <3>1 DEF Calm
  <2>2. QED
    BY ZenonT(60), <2>1, CalmKeeps
<1>22. ASSUME NEW s \in Stoppers, shutdown_interrupt(s) PROVE HostInv'
  <2>1. Calm
    BY <1>inv, <1>msg, <1>22 DEF Calm, shutdown_interrupt, hostVars,
       runnerVars
  <2>2. QED
    BY ZenonT(60), <2>1, CalmKeeps
<1>23. ASSUME NEW s \in Stoppers, shutdown_post(s) PROVE HostInv'
  <2>1. Calm
    BY <1>inv, <1>msg, <1>23 DEF Calm, shutdown_post, TrySendOk, TrySendFull,
       TrySendDisconnected, hostVars, runnerVars
  <2>2. QED
    BY ZenonT(60), <2>1, CalmKeeps
<1>24. ASSUME NEW s \in Stoppers, wait_register(s) PROVE HostInv'
  <2>1. Calm
    BY <1>inv, <1>msg, <1>24 DEF Calm, wait_register, hostVars, runnerVars
  <2>2. QED
    BY ZenonT(60), <2>1, CalmKeeps
<1>25. ASSUME NEW s \in Stoppers, wait_check(s) PROVE HostInv'
  <2>1. Calm
    BY <1>inv, <1>msg, <1>25 DEF Calm, wait_check, hostVars, runnerVars
  <2>2. QED
    BY ZenonT(60), <2>1, CalmKeeps
<1>26. ASSUME NEW s \in Stoppers, wait_await(s) PROVE HostInv'
  <2>1. Calm
    BY <1>inv, <1>msg, <1>26 DEF Calm, wait_await, hostVars, runnerVars
  <2>2. QED
    BY ZenonT(60), <2>1, CalmKeeps
<1>27. ASSUME NEW s \in Stoppers, drop_join(s) PROVE HostInv'
  <2>1. Calm
    BY <1>inv, <1>msg, <1>27 DEF Calm, drop_join, hostVars, runnerVars
  <2>2. QED
    BY ZenonT(60), <2>1, CalmKeeps
<1>28. ASSUME poll_one_tick_check PROVE HostInv'
  <2>1. Calm
    BY <1>inv, <1>msg, <1>28 DEF Calm, poll_one_tick_check, runnerFrame,
       hostVars
  <2>2. QED
    BY ZenonT(60), <2>1, CalmKeeps
<1>29. ASSUME poll_one_tick_deferred PROVE HostInv'
  <2>1. Calm
    BY <1>inv, <1>msg, <1>29 DEF Calm, poll_one_tick_deferred, runnerFrame,
       hostVars
  <2>2. QED
    BY ZenonT(60), <2>1, CalmKeeps
<1>30. ASSUME poll_one_tick_idle PROVE HostInv'
  <2>1. Calm
    BY <1>inv, <1>msg, <1>30 DEF Calm, poll_one_tick_idle, runnerFrame,
       hostVars
  <2>2. QED
    BY ZenonT(60), <2>1, CalmKeeps
<1>31. ASSUME run_until_idle_recv PROVE HostInv'
  <2>1. /\ pc \in {"take", "recv", "block"} /\ inbox # <<>> /\ inbox' = Tail(inbox)
        /\ dispatch(Head(inbox)) /\ receive(Head(inbox))
        /\ UNCHANGED <<keep_alive, disconnected>>
    BY <1>31 DEF run_until_idle_recv, runnerFrame
  <2>2. QED
    BY ZenonT(60), <2>1, ReceiveCounts
<1>32. ASSUME run_command_begin PROVE HostInv'
  <2>1. Calm
    BY <1>inv, <1>msg, <1>32 DEF Calm, run_command_begin, runnerFrame,
       hostVars
  <2>2. QED
    BY ZenonT(60), <2>1, CalmKeeps
<1>33. ASSUME run_command_return PROVE HostInv'
  <2>1. Calm
    BY <1>inv, <1>msg, <1>33 DEF Calm, run_command_return, runnerFrame,
       hostVars
  <2>2. QED
    BY ZenonT(60), <2>1, CalmKeeps
<1>34. ASSUME drive_event_loop_to_idle PROVE HostInv'
  <2>1. Calm
    BY <1>inv, <1>msg, <1>34 DEF Calm, drive_event_loop_to_idle, runnerFrame,
       hostVars
  <2>2. QED
    BY ZenonT(60), <2>1, CalmKeeps
<1>35. ASSUME drive_event_loop_recv PROVE HostInv'
  <2>1. CASE Head(inbox) \in Commands /\ defer(Head(inbox))
    BY ZenonT(60), <1>35, <2>1, DeferCounts
  <2>2. CASE dispatch(Head(inbox)) /\ receive(Head(inbox))
    <3>1. /\ pc \in {"take", "recv", "block"} /\ inbox # <<>> /\ inbox' = Tail(inbox)
          /\ UNCHANGED <<keep_alive, disconnected>>
      BY <1>35 DEF drive_event_loop_recv, runnerFrame
    <3>2. QED
      BY ZenonT(60), <2>2, <3>1, ReceiveCounts
  <2>3. QED
    BY ZenonT(60), <1>35, <2>1, <2>2 DEF drive_event_loop_recv
<1>36. ASSUME process_message_finish PROVE HostInv'
  BY ZenonT(60), <1>36, FinishCounts
<1>37. ASSUME run_command_reply PROVE HostInv'
  <2>1. Calm
    BY <1>inv, <1>msg, <1>37 DEF Calm, run_command_reply, runnerFrame,
       hostVars
  <2>2. QED
    BY ZenonT(60), <2>1, CalmKeeps
<1>38. ASSUME isolate_drop PROVE HostInv'
  BY ZenonT(60), <1>38, DropCounts
<1>39. ASSUME exit_guard_stop PROVE HostInv'
  <2>1. Calm
    BY <1>inv, <1>msg, <1>39 DEF Calm, exit_guard_stop, hostVars
  <2>2. QED
    BY ZenonT(60), <2>1, CalmKeeps
<1>40. ASSUME exit_guard_notify PROVE HostInv'
  <2>1. Calm
    BY <1>inv, <1>msg, <1>40 DEF Calm, exit_guard_notify, hostVars
  <2>2. QED
    BY ZenonT(60), <2>1, CalmKeeps
<1> HIDE <1>inv, <1>msg
<1>41. QED
  BY ZenonT(60), <1>1, <1>2, <1>3, <1>4, <1>5, <1>6, <1>7, <1>8, <1>9, <1>10,
     <1>11, <1>12, <1>13, <1>14, <1>15, <1>16, <1>17, <1>18, <1>19, <1>20,
     <1>21, <1>22, <1>23, <1>24, <1>25, <1>26, <1>27, <1>28, <1>29, <1>30,
     <1>31, <1>32, <1>33, <1>34, <1>35, <1>36, <1>37, <1>38, <1>39, <1>40
     DEF Next, Client, Delivery, Resolve, Script, Stopper, Runner

\* A new runtime counts nothing.
LEMMA HostInit == Init => HostInv
<1> SUFFICES ASSUME Init PROVE HostInv
  OBVIOUS
<1>1. KeepInv /\ JobInv /\ ReplyAfterRefWork
  BY DEF Init, KeepInv, KeepAt, JobInv, ReplyAfterRefWork
<1>2. MailInv
  <2>1. \A i \in 1..Len(inbox) : FALSE
    BY DEF Init
  <2>2. QED
    BY <2>1 DEF MailInv
<1>3. ActivityAccounting
  <2>1. ASSUME NEW l \in Levels
        PROVE  pending_host_ops[l] = 0 /\ Kept(l) = {} /\ Posted(l) = {}
    BY DEF Init, Kept, Posted, Counted
  <2>2. Cardinality({}) = 0
    BY FS_EmptySet
  <2>3. \A l \in Levels : pending_host_ops[l] = Cardinality(Kept(l)) + Cardinality(Posted(l))
    BY <2>1, <2>2
  <2>4. QED
    BY ZenonT(60), <2>3, Account
<1>4. QED
  BY ZenonT(60), <1>1, <1>2, <1>3 DEF HostInv

\* Every reachable state satisfies the invariant of the liveness counters.
THEOREM HostInvariance == Spec => []HostInv
<1>1. FullInv /\ FullInv' /\ HostInv /\ [Next]_vars => HostInv'
  BY HostStep
<1>2. QED
  BY Invariance, HostInit, <1>1, PTL DEF Spec

\* While the isolate lives each liveness counter counts the held keep-alives and
\* the posted completions exactly, so decrement_liveness never saturates.
THEOREM ActivityIsCounted == Spec => []ActivityAccounting
<1>1. HostInv => ActivityAccounting
  BY DEF HostInv
<1>2. QED
  BY HostInvariance, <1>1, PTL

\* A successful run command is answered only when nothing that JavaScript started
\* is outstanding, unless a Shutdown message cut the drain short.
THEOREM RepliesAwaitRefWork == Spec => []ReplyAfterRefWork
<1>1. HostInv => ReplyAfterRefWork
  BY DEF HostInv
<1>2. QED
  BY HostInvariance, <1>1, PTL
=============================================================================
