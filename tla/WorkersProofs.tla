--------------------------- MODULE WorkersProofs ----------------------------
(***************************************************************************)
(* Workers for any number of workers, buffers and messages: who owns a     *)
(* thread, the order of commands, transferred buffers, and the order of    *)
(* events.                                                                 *)
(***************************************************************************)
EXTENDS WorkersTypes

\* Every leaf that names no prover goes to the SMT solver.
USE SMTT(60)

(***************************************************************************)
(* Owners of threads.                                                      *)
(***************************************************************************)
\* The owners of a thread.
OwnedBy(u) ==
    \/ u \in registry \/ polling = u
    \/ \E i \in DOMAIN agenda : agenda[i] \in {Step("insert", u), Step("join", u)}

\* NoOrphanThread, by owners.
LEMMA Owners ==
    NoOrphanThread <=> \A u \in WorkerIds : thread[u] # "none" /\ ~Ended(u) => OwnedBy(u)
BY ZenonT(60) DEF NoOrphanThread, OwnedBy

\* A thread that runs on while nothing is on the agenda is registered or
\* polled.
LEMMA OwnedAtRest ==
    ASSUME NoOrphanThread, NEW u \in WorkerIds, thread'[u] # "none" /\ ~Ended(u)',
           thread'[u] = thread[u], agenda = <<>>
    PROVE  u \in registry \/ polling = u
<1>1. thread[u] # "none" /\ ~Ended(u)
    BY DEF Ended
<1>2. DOMAIN agenda = {}
    OBVIOUS
<1>3. QED
    BY <1>1, <1>2, ZenonT(60) DEF NoOrphanThread

\* A step of the agenda that is not about owning a thread leaves the owners.
LEMMA OwnersLeft ==
    ASSUME agenda \in Seq(Steps), agenda # <<>>, agenda' = Tail(agenda), NoOrphanThread,
           NEW u \in WorkerIds, Head(agenda) \notin {Step("insert", u), Step("join", u)},
           UNCHANGED <<registry, polling, thread>>,
           thread'[u] # "none" /\ ~Ended(u)'
    PROVE  OwnedBy(u)'
<1>1. thread[u] # "none" /\ ~Ended(u)
    BY DEF Ended
<1>2. CASE u \in registry \/ polling = u
    BY <1>2 DEF OwnedBy
<1>3. CASE \E i \in DOMAIN agenda : agenda[i] \in {Step("insert", u), Step("join", u)}
    <2>1. PICK i \in DOMAIN agenda : agenda[i] \in {Step("insert", u), Step("join", u)}
        BY <1>3
    <2>2. /\ DOMAIN agenda = 1..Len(agenda) /\ Len(agenda) \in Nat /\ agenda[1] = Head(agenda)
          /\ DOMAIN agenda' = 1..(Len(agenda) - 1)
          /\ \A k \in 1..(Len(agenda) - 1) : agenda'[k] = agenda[k + 1]
        BY Rest
    <2>3. i # 1
        BY <2>1, <2>2
    <2>4. i - 1 \in DOMAIN agenda' /\ (i - 1) + 1 = i
        BY <2>2, <2>3
    <2>5. agenda'[i - 1] = agenda[i]
        BY <2>2, <2>4
    <2>6. QED
        BY <2>1, <2>4, <2>5 DEF OwnedBy
<1>4. QED
    BY <1>1, <1>2, <1>3, ZenonT(60) DEF NoOrphanThread

\* A started worker is inserted next.
LEMMA OwnedNewWorker ==
    ASSUME TypeOK, Own, NoOrphanThread, NEW u \in WorkerIds,
           thread'[u] # "none" /\ ~Ended(u)',
           NEW w \in WorkerIds, worker_constructor_call(w) \/ worker_spawn_call(w)
    PROVE  OwnedBy(u)'
<1>1. /\ agenda = <<>> /\ registry' = registry /\ polling' = polling
      /\ thread' = [thread EXCEPT ![w] = "starting"]
    BY DEF worker_constructor_call, worker_spawn_call, Js
<1>2. CASE u = w
    <2>1. \/ agenda' = <<Step("insert", w), Step("setInterval", w)>>
          \/ agenda' = <<Step("insert", w)>>
        BY ZenonT(60) DEF worker_constructor_call, worker_spawn_call
    <2>2. 1 \in DOMAIN agenda' /\ agenda'[1] = Step("insert", w)
        BY <2>1
    <2>3. QED
        BY <1>2, <2>2 DEF OwnedBy
<1>3. CASE u # w
    <2>1. thread'[u] = thread[u]
        BY TypeFacts, <1>1, <1>3
    <2>2. QED
        BY OwnedAtRest, <1>1, <2>1 DEF OwnedBy
<1>4. QED
    BY <1>2, <1>3

\* An inserted worker is registered or has ended.
LEMMA OwnedInsert ==
    ASSUME TypeOK, Own, NoOrphanThread, NEW u \in WorkerIds,
           thread'[u] # "none" /\ ~Ended(u)', NEW w \in WorkerIds, insert(w)
    PROVE  OwnedBy(u)'
<1>1. /\ agenda # <<>> /\ Head(agenda) = Step("insert", w)
      /\ polling' = polling /\ thread' = thread /\ registry \subseteq registry'
      /\ thread[w] = "stillborn" \/ w \in registry'
    BY DEF insert, threadVars
<1>2. CASE u = w
    BY <1>1, <1>2 DEF OwnedBy, Ended
<1>3. CASE u # w
    <2>1. 1 \in 1..Len(agenda) /\ agenda[1].op = "insert" /\ agenda[1].worker = w /\ StepOk(1)
        BY TypeFacts, <1>1, Rest DEF Step, Own
    <2>2. \A j \in 2..Len(agenda) : agenda[j].op = "setInterval"
        BY <2>1 DEF StepOk
    <2>3. ASSUME NEW i \in DOMAIN agenda, agenda[i] \in {Step("insert", u), Step("join", u)} PROVE FALSE
        <3>1. agenda[i].op \in {"insert", "join"} /\ agenda[i].worker = u
            BY <2>3 DEF Step
        <3>2. i = 1 \/ i \in 2..Len(agenda)
            BY TypeFacts
        <3>3. QED
            BY <1>3, <2>1, <2>2, <3>1, <3>2
    <2>4. thread[u] # "none" /\ ~Ended(u)
        BY <1>1 DEF Ended
    <2>5. u \in registry \/ polling = u
        BY Owners, <2>3, <2>4, ZenonT(60) DEF OwnedBy
    <2>6. QED
        BY <1>1, <2>5 DEF OwnedBy
<1>4. QED
    BY <1>2, <1>3

\* Steps of the agenda that change no owner.
LEMMA OwnedTail ==
    ASSUME TypeOK, Own, NoOrphanThread, NEW u \in WorkerIds,
           thread'[u] # "none" /\ ~Ended(u)', NEW w \in WorkerIds,
           install_worker_poll_timer(w) \/ set_interrupt(w) \/ cancel_all_waiters(w)
    PROVE  OwnedBy(u)'
<1>1. /\ agenda # <<>> /\ agenda' = Tail(agenda) /\ UNCHANGED <<registry, polling, thread>>
      /\ Head(agenda) \in {Step("setInterval", w), Step("interrupt", w), Step("cancel", w)}
    BY ZenonT(60) DEF install_worker_poll_timer, set_interrupt, cancel_all_waiters, threadVars
<1>2. Head(agenda) \notin {Step("insert", u), Step("join", u)}
    BY <1>1 DEF Step
<1>3. QED
    BY TypeFacts, <1>1, <1>2, OwnersLeft, ZenonT(60) DEF OwnedBy

\* A joined worker has ended.
LEMMA OwnedJoin ==
    ASSUME TypeOK, Own, NoOrphanThread, NEW u \in WorkerIds,
           thread'[u] # "none" /\ ~Ended(u)', NEW w \in WorkerIds, join(w)
    PROVE  OwnedBy(u)'
<1>1. /\ agenda # <<>> /\ agenda' = Tail(agenda) /\ UNCHANGED <<registry, polling, thread>>
      /\ Head(agenda) = Step("join", w) /\ Ended(w)
    BY ZenonT(60) DEF join, threadVars
<1>2. u # w
    BY <1>1 DEF Ended
<1>3. Head(agenda) \notin {Step("insert", u), Step("join", u)}
    BY <1>1, <1>2 DEF Step
<1>4. QED
    BY TypeFacts, <1>1, <1>3, OwnersLeft, ZenonT(60) DEF OwnedBy

\* A terminated worker is joined or polled.
LEMMA OwnedTerminate ==
    ASSUME TypeOK, Own, NoOrphanThread, NEW u \in WorkerIds,
           thread'[u] # "none" /\ ~Ended(u)',
           NEW w \in WorkerIds, terminate(w) \/ worker_terminate_call(w)
    PROVE  OwnedBy(u)'
<1>1. /\ agenda = <<>> /\ registry' = registry \ {w} /\ polling' = polling /\ thread' = thread
      /\ agenda' = <<Step("terminate", w)>> \o Drop(w)
    BY ZenonT(60) DEF terminate, worker_terminate_call, Js, threadVars
<1>2. CASE u = w /\ polling # w
    <2>1. Len(agenda') = 2 /\ agenda'[2] = Step("join", w)
        BY <1>1, <1>2, TerminateAgenda
    <2>2. agenda' \in Seq(Steps)
        <3>1. TypeOK'
            BY TypesTerminate, ZenonT(60) DEF TypeOK
        <3>2. QED
            BY <3>1 DEF TypeOK, ParentTypes
    <2>3. 2 \in DOMAIN agenda'
        BY <2>1, <2>2
    <2>4. QED
        BY <1>2, <2>1, <2>3 DEF OwnedBy
<1>3. CASE ~(u = w /\ polling # w)
    BY OwnedAtRest, <1>1, <1>3 DEF OwnedBy
<1>4. QED
    BY <1>2, <1>3

\* The drop of the host joins every worker.
LEMMA OwnedDropHost ==
    ASSUME TypeOK, Own, NoOrphanThread, NEW u \in WorkerIds,
           thread'[u] # "none" /\ ~Ended(u)', drop_host
    PROVE  OwnedBy(u)'
<1>1. /\ agenda = <<>> /\ polling = None /\ thread' = thread
    BY ZenonT(60) DEF drop_host, Js, threadVars
<1>2. u \in registry
    BY OwnedAtRest, <1>1, WorkersAssumption
<1>0. PICK n \in Nat : \E ws : HostAgenda(n, ws)
    BY DropAgenda, ZenonT(60) DEF TypeOK
<1>3. PICK ws : HostAgenda(n, ws)
    BY <1>0, ZenonT(60)
<1>4. PICK i \in 1..n : ws[i] = u
    BY <1>2, <1>3, ZenonT(60) DEF HostAgenda
<1>5. agenda'[n + i] = Step("join", u) /\ Len(agenda') = n + n
    BY <1>3, <1>4, ZenonT(60) DEF HostAgenda
<1>6. agenda' \in Seq(Steps)
    <2>1. TypeOK'
        BY TypesDropHost, ZenonT(60) DEF TypeOK
    <2>2. QED
        BY <2>1 DEF TypeOK, ParentTypes
<1>7. n + i \in DOMAIN agenda'
    BY <1>5, <1>6
<1>8. QED
    BY <1>5, <1>7 DEF OwnedBy

\* The rest of terminate goes before the joins.
LEMMA OwnedShutdown ==
    ASSUME TypeOK, Own, NoOrphanThread, NEW u \in WorkerIds,
           thread'[u] # "none" /\ ~Ended(u)', NEW w \in WorkerIds, send_shutdown(w)
    PROVE  OwnedBy(u)'
<1>1. /\ agenda # <<>> /\ Head(agenda) = Step("terminate", w)
      /\ agenda' = Terminate(w) \o Tail(agenda)
      /\ registry' = registry /\ polling' = polling /\ thread' = thread
    BY ZenonT(60) DEF send_shutdown, threadVars
<1>2. /\ Len(agenda) \in Nat /\ Len(agenda') = Len(agenda) + 1
      /\ \A i \in 3..Len(agenda') : agenda'[i] = agenda[i - 1]
    BY TypeFacts, <1>1, ShutdownAgenda, ZenonT(60)
<1>3. thread[u] # "none" /\ ~Ended(u)
    BY <1>1 DEF Ended
<1>4. CASE \E i \in DOMAIN agenda : agenda[i] \in {Step("insert", u), Step("join", u)}
    <2>1. PICK i \in DOMAIN agenda : agenda[i] \in {Step("insert", u), Step("join", u)}
        BY <1>4
    <2>2. agenda[1] = Step("terminate", w) /\ i \in 1..Len(agenda)
        BY TypeFacts, <1>1, Rest
    <2>3. i # 1
        BY <2>1, <2>2 DEF Step
    <2>4. i + 1 \in 3..Len(agenda') /\ (i + 1) - 1 = i
        BY <1>2, <2>2, <2>3
    <2>5. agenda'[i + 1] = agenda[i]
        BY <1>2, <2>4
    <2>6. agenda' \in Seq(Steps)
        <3>1. TypeOK'
            BY TypesShutdown, ZenonT(60) DEF TypeOK
        <3>2. QED
            BY <3>1 DEF TypeOK, ParentTypes
    <2>7. i + 1 \in DOMAIN agenda'
        BY <2>4, <2>6
    <2>8. QED
        BY <2>1, <2>5, <2>7 DEF OwnedBy
<1>5. CASE u \in registry \/ polling = u
    BY <1>1, <1>5 DEF OwnedBy
<1>6. QED
    BY Owners, <1>3, <1>4, <1>5, ZenonT(60) DEF OwnedBy

\* A poll callback holds its record or joins it.
LEMMA OwnedCallback ==
    ASSUME TypeOK, Own, NoOrphanThread, NEW u \in WorkerIds,
           thread'[u] # "none" /\ ~Ended(u)', NEW w \in WorkerIds, agenda = <<>>,
           \/ agenda' = <<>> /\ polling' = w
           \/ agenda' = <<>> /\ polling' = None /\ w \in registry
           \/ agenda' = <<Step("join", w)>> /\ polling' = None /\ w \notin registry,
           UNCHANGED <<registry, thread>>, polling \in {w, None}
    PROVE  OwnedBy(u)'
<1>1. u \in registry \/ (polling = u /\ u = w)
    BY OwnedAtRest, WorkersAssumption
<1>2. CASE u \in registry
    BY <1>2 DEF OwnedBy
<1>3. CASE u = w /\ u \notin registry
    <2>1. CASE polling' = w
        BY <1>3, <2>1 DEF OwnedBy
    <2>2. CASE agenda' = <<Step("join", w)>>
        <3>1. 1 \in DOMAIN agenda' /\ agenda'[1] = Step("join", w)
            BY <2>2
        <3>2. QED
            BY <1>3, <3>1 DEF OwnedBy
    <2>3. QED
        BY <1>3, <2>1, <2>2
<1>4. QED
    BY <1>1, <1>2, <1>3

\* The poll callback drains its channel.
LEMMA OwnedPoll ==
    ASSUME TypeOK, Own, NoOrphanThread, NEW u \in WorkerIds,
           thread'[u] # "none" /\ ~Ended(u)', NEW w \in WorkerIds, otter_worker_poll(w)
    PROVE  OwnedBy(u)'
<1>1. /\ agenda = <<>> /\ polling \in {w, None} /\ Reach(w, events[w])
      /\ UNCHANGED <<registry, thread>>
    BY ZenonT(60) DEF otter_worker_poll, Js, threadVars
<1>2. \/ agenda' = <<>> /\ polling' = w
      \/ agenda' = <<>> /\ polling' = None /\ w \in registry
      \/ agenda' = <<Step("join", w)>> /\ polling' = None /\ w \notin registry
    BY <1>1, ReachShape, ZenonT(60)
<1>3. QED
    BY OwnedCallback, <1>1, <1>2, ZenonT(60)

\* Handlers return or throw.
LEMMA OwnedDispatch ==
    ASSUME TypeOK, Own, NoOrphanThread, NEW u \in WorkerIds,
           thread'[u] # "none" /\ ~Ended(u)', dispatch_event_object \/ dispatch_throws
    PROVE  OwnedBy(u)'
<1>1. /\ agenda = <<>> /\ polling \in WorkerIds /\ UNCHANGED <<registry, thread>>
      /\ \/ agenda' = <<>> /\ polling' = polling
         \/ agenda' = <<>> /\ polling' = None /\ polling \in registry
         \/ agenda' = <<Step("join", polling)>> /\ polling' = None /\ polling \notin registry
    BY DispatchShape, ZenonT(60)
<1>2. QED
    BY OwnedCallback, <1>1, ZenonT(60)

\* A thread's own step leaves its owner.
LEMMA OwnedThread ==
    ASSUME TypeOK, Own, NoOrphanThread, NEW u \in WorkerIds,
           thread'[u] # "none" /\ ~Ended(u)', ThreadStep
    PROVE  OwnedBy(u)'
<1>1. UNCHANGED <<registry, polling, agenda>> /\ thread[u] # "none" /\ ~Ended(u)
    BY ZenonT(60) DEF ThreadStep, parentVars
<1>2. QED
    BY Owners, <1>1, ZenonT(60) DEF OwnedBy

\* Every step keeps an owner for every thread.
LEMMA OwnersInductive == TypeOK /\ Own /\ NoOrphanThread /\ [Next]_vars => NoOrphanThread'
<1> SUFFICES ASSUME TypeOK, Own, NoOrphanThread, [Next]_vars,
                    NEW u \in WorkerIds, thread'[u] # "none" /\ ~Ended(u)'
             PROVE  OwnedBy(u)'
    BY ZenonT(60) DEF NoOrphanThread, OwnedBy
<1>1. CASE Continue
    BY <1>1, OwnedInsert, OwnedShutdown, OwnedTail, OwnedJoin, ZenonT(60) DEF Continue
<1>2. CASE Call
    BY <1>2, OwnedNewWorker, OwnedTerminate, OwnedDropHost, OtherSteps, OwnedThread, ZenonT(60) DEF Call
<1>3. CASE Handled
    BY <1>3, OwnedDispatch, ZenonT(60) DEF Handled
<1>4. ASSUME NEW w \in WorkerIds, otter_worker_poll(w) \/ Thread(w) \/ Program(w) PROVE OwnedBy(u)'
    BY <1>4, OwnedPoll, OtherSteps, OwnedThread, ZenonT(60)
<1>5. CASE UNCHANGED vars
    BY <1>5, OtherSteps, OwnedThread, ZenonT(60)
<1>6. QED
    BY <1>1, <1>2, <1>3, <1>4, <1>5, ZenonT(60) DEF Next

\* Nobody is started, and nothing is left to do, at first.
LEMMA InitOwned == Init => Own /\ NoOrphanThread
<1>1. Init => Own
    BY WorkersAssumption DEF Init, Own
<1>2. Init => NoOrphanThread
    BY DEF Init, NoOrphanThread
<1>3. QED
    BY <1>1, <1>2

\* No worker thread is left without an owner by terminate, by the drop of the
\* host or by a poll callback that outlives the registration of its record,
\* for any number of workers.
THEOREM ThreadsOwned == Spec => []NoOrphanThread
<1>1. Init => TypeOK /\ Own /\ NoOrphanThread
    BY InitTypes, InitOwned
<1>2. TypeOK /\ Own /\ NoOrphanThread /\ [Next]_vars => (TypeOK /\ Own /\ NoOrphanThread)'
    BY TypeInductive, OwnInductive, OwnersInductive
<1>3. QED
    BY <1>1, <1>2, PTL DEF Spec

(***************************************************************************)
(* Commands.                                                               *)
(***************************************************************************)
\* h was handled, c is in the channel, p messages were posted; the worker is
\* terminated if t and has ended if e.
CmdOk(h, c, p, t, e) ==
    /\ Len(h) <= p
    /\ \A i \in 1..Len(h) : h[i].msg = i
    /\ ~e => /\ Len(h) + Len(c) = IF t THEN p + 1 ELSE p
             /\ \A i \in 1..Len(c) : c[i].msg = IF Len(h) + i <= p THEN Len(h) + i ELSE 0

CmdInv == \A w \in WorkerIds : CmdOk(handled[w], cmds[w], posted[w], terminated[w], Ended(w))

\* What a step may do to the commands of u.
Ends(u) == Ended(u)' /\ handled'[u] = handled[u] /\ posted'[u] = posted[u]
Idle(u) ==
    /\ ~Ended(u) /\ ~Ended(u)' /\ handled'[u] = handled[u] /\ cmds'[u] = cmds[u]
    /\ posted'[u] = posted[u] /\ terminated'[u] = terminated[u]
Posted(u) ==
    /\ ~Ended(u) /\ ~Ended(u)' /\ handled'[u] = handled[u] /\ ~terminated[u] /\ ~terminated'[u]
    /\ posted'[u] = posted[u] + 1
    /\ \E b \in Buffers \cup {None} : cmds'[u] = Append(cmds[u], [msg |-> posted[u] + 1, buf |-> b])
ShutDown(u) ==
    /\ ~Ended(u) /\ ~Ended(u)' /\ handled'[u] = handled[u] /\ ~terminated[u] /\ terminated'[u] = TRUE
    /\ posted'[u] = posted[u] /\ cmds'[u] = Append(cmds[u], [msg |-> 0, buf |-> None])
Received(u) ==
    /\ ~Ended(u) /\ ~Ended(u)' /\ posted'[u] = posted[u] /\ terminated'[u] = terminated[u]
    /\ cmds[u] # <<>> /\ Head(cmds[u]).msg # 0 /\ cmds'[u] = Tail(cmds[u])
    /\ handled'[u] = Append(handled[u], Head(cmds[u]))
CmdMove(u) == Ends(u) \/ Idle(u) \/ Posted(u) \/ ShutDown(u) \/ Received(u)

\* A step that leaves commands and threads alone.
LEMMA CmdIdle ==
    ASSUME UNCHANGED <<cmds, handled, posted, terminated>>, NEW u, Ended(u)' <=> Ended(u)
    PROVE  CmdMove(u)
BY ZenonT(60) DEF CmdMove, Ends, Idle

\* Every step of the parent is a move of the commands of u.
LEMMA ParentMoves ==
    ASSUME TypeOK, Own, NEW u \in WorkerIds, Continue \/ Call \/ Handled
    PROVE  CmdMove(u)
<1>t. /\ thread \in [WorkerIds -> ThreadStates] /\ terminated \in [WorkerIds -> BOOLEAN]
      /\ cmds \in [WorkerIds -> Seq(Commands)] /\ posted \in [WorkerIds -> Nat]
      /\ agenda \in Seq(Steps)
    BY DEF TypeOK, ParentTypes, ThreadTypes, RecordTypes, ChannelTypes, CountTypes
<1>1. ASSUME NEW w \in WorkerIds, worker_constructor_call(w) \/ worker_spawn_call(w) PROVE CmdMove(u)
    <2>1. /\ UNCHANGED <<cmds, handled, posted, terminated>>
          /\ thread[w] = "none" /\ thread' = [thread EXCEPT ![w] = "starting"]
        BY <1>1, ZenonT(60) DEF worker_constructor_call, worker_spawn_call, recordVars, chanVars, histVars
    <2>2. Ended(u)' <=> Ended(u)
        BY <1>t, <2>1 DEF Ended
    <2>3. QED
        BY <2>1, <2>2, CmdIdle, ZenonT(60)
<1>2. ASSUME NEW w \in WorkerIds,
             \/ insert(w) \/ install_worker_poll_timer(w) \/ set_interrupt(w) \/ cancel_all_waiters(w)
             \/ join(w) \/ terminate(w) \/ worker_terminate_call(w)
      PROVE  CmdMove(u)
    <2>1. UNCHANGED <<cmds, handled, posted, terminated, thread>>
        BY <1>2, ZenonT(60) DEF insert, install_worker_poll_timer, set_interrupt, cancel_all_waiters,
           join, terminate, worker_terminate_call, recordVars, threadVars, chanVars, histVars
    <2>2. QED
        BY <2>1, CmdIdle, ZenonT(60) DEF Ended
<1>3. ASSUME drop_host \/ Handled PROVE CmdMove(u)
    <2>1. UNCHANGED <<cmds, handled, posted, terminated, thread>>
        BY <1>3, ZenonT(60) DEF drop_host, Handled, dispatch_event_object, dispatch_throws,
           recordVars, threadVars, chanVars, histVars
    <2>2. QED
        BY <2>1, CmdIdle, ZenonT(60) DEF Ended
<1>4. ASSUME NEW w \in WorkerIds, NEW m, worker_drain_call(w, m) PROVE CmdMove(u)
    <2>1. UNCHANGED <<cmds, handled, posted, terminated, thread>>
        BY <1>4, ZenonT(60) DEF worker_drain_call, recordVars, threadVars
    <2>2. QED
        BY <2>1, CmdIdle, ZenonT(60) DEF Ended
<1>5. ASSUME NEW w \in WorkerIds, NEW b \in Buffers \cup {None}, NEW c, worker_post_message_call(w, b, c)
      PROVE  CmdMove(u)
    <2>1. /\ UNCHANGED <<handled, terminated, thread>> /\ ~terminated[w]
          /\ \/ /\ ~Ended(w)
                /\ cmds' = [cmds EXCEPT ![w] = Append(cmds[w], [msg |-> posted[w] + 1, buf |-> b])]
                /\ posted' = [posted EXCEPT ![w] = posted[w] + 1]
             \/ UNCHANGED <<cmds, posted>>
        BY <1>5 DEF worker_post_message_call, Running, recordVars, threadVars
    <2>2. CASE UNCHANGED <<cmds, posted>>
        BY <2>1, <2>2, CmdIdle, ZenonT(60) DEF Ended
    <2>3. ASSUME ~Ended(w),
                 cmds' = [cmds EXCEPT ![w] = Append(cmds[w], [msg |-> posted[w] + 1, buf |-> b])],
                 posted' = [posted EXCEPT ![w] = posted[w] + 1]
          PROVE  CmdMove(u)
        <3>1. Ended(u)' <=> Ended(u)
            BY <2>1 DEF Ended
        <3>2. CASE u = w
            <4>1. /\ cmds'[u] = Append(cmds[u], [msg |-> posted[u] + 1, buf |-> b])
                  /\ posted'[u] = posted[u] + 1
                BY <1>t, <2>3, <3>2
            <4>2. Posted(u)
                BY <2>1, <2>3, <3>1, <3>2, <4>1, ZenonT(60) DEF Posted
            <4>3. QED
                BY <4>2 DEF CmdMove
        <3>3. CASE u # w
            <4>1. cmds'[u] = cmds[u] /\ posted'[u] = posted[u]
                BY <1>t, <2>3, <3>3
            <4>2. QED
                BY <2>1, <3>1, <4>1, ZenonT(60) DEF CmdMove, Ends, Idle
        <3>4. QED
            BY <3>2, <3>3
    <2>4. QED
        BY <2>1, <2>2, <2>3
<1>6. ASSUME NEW w \in WorkerIds, send_shutdown(w) PROVE CmdMove(u)
    <2>1. /\ agenda # <<>> /\ Head(agenda) = Step("terminate", w)
          /\ terminated' = [terminated EXCEPT ![w] = TRUE]
          /\ cmds' = IF Ended(w) THEN cmds
                     ELSE [cmds EXCEPT ![w] = Append(cmds[w], [msg |-> 0, buf |-> None])]
          /\ UNCHANGED <<handled, posted, thread>>
        BY <1>6, ZenonT(60) DEF send_shutdown, threadVars, histVars
    <2>2. Ended(u)' <=> Ended(u)
        BY <2>1 DEF Ended
    <2>3. CASE Ended(u)
        BY <2>1, <2>2, <2>3 DEF CmdMove, Ends
    <2>4. CASE ~Ended(u) /\ u = w
        <3>1. 1 \in 1..Len(agenda) /\ agenda[1].op = "terminate" /\ agenda[1].worker = w
            BY <1>t, <2>1, Rest DEF Step
        <3>2. ~terminated[w]
            BY <3>1, OwnSteps DEF StepOk
        <3>3. cmds'[u] = Append(cmds[u], [msg |-> 0, buf |-> None]) /\ terminated'[u] = TRUE
            BY <1>t, <2>1, <2>4
        <3>4. QED
            BY <2>1, <2>2, <2>4, <3>2, <3>3, ZenonT(60) DEF CmdMove, ShutDown
    <2>5. CASE ~Ended(u) /\ u # w
        <3>1. cmds'[u] = cmds[u] /\ terminated'[u] = terminated[u]
            BY <1>t, <2>1, <2>5
        <3>2. QED
            BY <2>1, <2>2, <2>5, <3>1, ZenonT(60) DEF CmdMove, Idle
    <2>6. QED
        BY <2>3, <2>4, <2>5
<1>7. QED
    BY <1>1, <1>2, <1>3, <1>4, <1>5, <1>6, ZenonT(60) DEF Continue, Call

\* Every step of a worker w is a move of the commands of u.
LEMMA ThreadMoves ==
    ASSUME TypeOK, NEW u \in WorkerIds, NEW w \in WorkerIds,
           otter_worker_poll(w) \/ Thread(w) \/ Program(w)
    PROVE  CmdMove(u)
<1>t. /\ thread \in [WorkerIds -> ThreadStates] /\ cmds \in [WorkerIds -> Seq(Commands)]
      /\ handled \in [WorkerIds -> Seq(Commands)]
    BY DEF TypeOK, ThreadTypes, ChannelTypes
<1>e. ASSUME UNCHANGED <<handled, posted, terminated>>,
             \/ UNCHANGED <<cmds, thread>>
             \/ /\ cmds' = cmds
                /\ \E s : /\ s \notin {"stillborn", "done"} /\ thread' = [thread EXCEPT ![w] = s]
                          /\ ~Ended(w)
             \/ /\ \/ cmds' = cmds \/ cmds' = [cmds EXCEPT ![w] = <<>>]
                /\ \E s \in {"stillborn", "done"} : thread' = [thread EXCEPT ![w] = s]
      PROVE  CmdMove(u)
    <2>1. CASE UNCHANGED <<cmds, thread>>
        BY <1>e, <2>1, CmdIdle, ZenonT(60) DEF Ended
    <2>2. ASSUME cmds' = cmds, ~Ended(w),
                 NEW s, s \notin {"stillborn", "done"}, thread' = [thread EXCEPT ![w] = s]
          PROVE  CmdMove(u)
        <3>1. Ended(u)' <=> Ended(u)
            BY <1>t, <2>2 DEF Ended
        <3>2. QED
            BY <1>e, <2>2, <3>1, CmdIdle, ZenonT(60)
    <2>3. ASSUME cmds' = cmds \/ cmds' = [cmds EXCEPT ![w] = <<>>],
                 NEW s \in {"stillborn", "done"}, thread' = [thread EXCEPT ![w] = s]
          PROVE  CmdMove(u)
        <3>1. CASE u = w
            <4>1. Ended(u)'
                BY <1>t, <2>3, <3>1 DEF Ended
            <4>2. QED
                BY <1>e, <4>1, ZenonT(60) DEF CmdMove, Ends
        <3>2. CASE u # w
            <4>1. cmds'[u] = cmds[u] /\ thread'[u] = thread[u]
                BY <1>t, <2>3, <3>2
            <4>2. Ended(u)' <=> Ended(u)
                BY <4>1 DEF Ended
            <4>3. QED
                BY <1>e, <4>1, <4>2, ZenonT(60) DEF CmdMove, Ends, Idle
        <3>3. QED
            BY <3>1, <3>2
    <2>4. QED
        BY <1>e, <2>1, <2>2, <2>3, ZenonT(60)
<1>1. CASE otter_worker_poll(w) \/ post(w) \/ close(w)
    <2>1. UNCHANGED <<cmds, handled, posted, terminated, thread>>
        BY <1>1, ZenonT(60) DEF otter_worker_poll, post, close, recordVars, threadVars, chanVars, histVars
    <2>2. QED
        BY <1>e, <2>1, ZenonT(60)
<1>2. ASSUME NEW ok \in BOOLEAN, start(w, ok) PROVE CmdMove(u)
    <2>1. /\ UNCHANGED <<cmds, handled, posted, terminated>> /\ thread[w] = "starting"
          /\ thread' = [thread EXCEPT ![w] = IF ok THEN "installing" ELSE "stillborn"]
        BY <1>2, ZenonT(60) DEF start, recordVars, chanVars, histVars
    <2>2. \/ thread' = [thread EXCEPT ![w] = "installing"]
          \/ thread' = [thread EXCEPT ![w] = "stillborn"]
        BY <2>1, ZenonT(60)
    <2>3. ~Ended(w) /\ "installing" \notin {"stillborn", "done"} /\ "stillborn" \in {"stillborn", "done"}
        BY <2>1 DEF Ended
    <2>4. QED
        BY <1>e, <2>1, <2>2, <2>3, ZenonT(60)
<1>3. ASSUME NEW ok \in BOOLEAN, install_worker_scope_natives(w, ok) PROVE CmdMove(u)
    <2>1. /\ UNCHANGED <<handled, posted, terminated>> /\ thread[w] = "installing"
          /\ \/ cmds' = cmds /\ thread' = [thread EXCEPT ![w] = "entry"]
             \/ cmds' = [cmds EXCEPT ![w] = <<>>] /\ thread' = [thread EXCEPT ![w] = "done"]
        BY <1>3, ZenonT(60) DEF install_worker_scope_natives, Finish, recordVars
    <2>2. ~Ended(w) /\ "entry" \notin {"stillborn", "done"} /\ "done" \in {"stillborn", "done"}
        BY <2>1 DEF Ended
    <2>3. QED
        BY <1>e, <2>1, <2>2, ZenonT(60)
<1>4. CASE wait(w) \/ wait_returns(w) \/ js_returns(w)
    <2>1. /\ UNCHANGED <<cmds, handled, posted, terminated>> /\ thread[w] \in JsStates \cup Waits
          /\ \E s \in {"entry_wait", "handler_wait", "entry", "handling", "receiving"} :
                 thread' = [thread EXCEPT ![w] = s]
        BY <1>4 DEF wait, wait_returns, js_returns, recordVars, chanVars, histVars
    <2>2. /\ ~Ended(w)
          /\ \A s \in {"entry_wait", "handler_wait", "entry", "handling", "receiving"} :
                 s \notin {"stillborn", "done"}
        BY <2>1 DEF Ended, JsStates, Waits
    <2>3. QED
        BY <1>e, <2>1, <2>2, ZenonT(60)
<1>5. CASE js_throws(w) \/ interrupted(w)
    <2>1. /\ UNCHANGED <<handled, posted, terminated>> /\ thread[w] \in JsStates \cup Waits
          /\ \/ cmds' = cmds /\ thread' = [thread EXCEPT ![w] = "receiving"]
             \/ cmds' = [cmds EXCEPT ![w] = <<>>] /\ thread' = [thread EXCEPT ![w] = "done"]
        BY <1>5, ZenonT(60) DEF js_throws, interrupted, Abort, Finish
    <2>2. ~Ended(w) /\ "receiving" \notin {"stillborn", "done"} /\ "done" \in {"stillborn", "done"}
        BY <2>1 DEF Ended, JsStates, Waits
    <2>3. QED
        BY <1>e, <2>1, <2>2, ZenonT(60)
<1>6. CASE leave_loop(w)
    <2>1. /\ UNCHANGED <<handled, posted, terminated>>
          /\ cmds' = [cmds EXCEPT ![w] = <<>>] /\ thread' = [thread EXCEPT ![w] = "done"]
        BY <1>6, ZenonT(60) DEF leave_loop, Finish, recordVars
    <2>2. "done" \in {"stillborn", "done"}
        OBVIOUS
    <2>3. QED
        BY <1>e, <2>1, <2>2, ZenonT(60)
<1>7. ASSUME NEW how, recv_message(w, how) PROVE CmdMove(u)
    <2>1. /\ UNCHANGED <<posted, terminated>> /\ thread[w] = "receiving"
          /\ cmds[w] # <<>> /\ Head(cmds[w]).msg # 0
          /\ cmds' = [cmds EXCEPT ![w] = Tail(cmds[w])]
          /\ handled' = [handled EXCEPT ![w] = Append(handled[w], Head(cmds[w]))]
          /\ thread' = thread \/ thread' = [thread EXCEPT ![w] = "handling"]
        BY <1>7, ZenonT(60) DEF recv_message, recordVars
    <2>2. ~Ended(w) /\ (Ended(u)' <=> Ended(u))
        BY <1>t, <2>1 DEF Ended
    <2>3. CASE u = w
        <3>1. cmds'[u] = Tail(cmds[u]) /\ handled'[u] = Append(handled[u], Head(cmds[u]))
            BY <1>t, <2>1, <2>3
        <3>2. QED
            BY <2>1, <2>2, <2>3, <3>1, ZenonT(60) DEF CmdMove, Received
    <2>4. CASE u # w
        <3>1. cmds'[u] = cmds[u] /\ handled'[u] = handled[u]
            BY <1>t, <2>1, <2>4
        <3>2. QED
            BY <2>1, <2>2, <3>1, ZenonT(60) DEF CmdMove, Ends, Idle
    <2>5. QED
        BY <2>3, <2>4
<1>8. QED
    BY <1>1, <1>2, <1>3, <1>4, <1>5, <1>6, <1>7, ZenonT(60) DEF Thread, Program

\* Every step is a move of the commands of each worker.
LEMMA CmdMoves ==
    ASSUME TypeOK, Own, [Next]_vars, NEW u \in WorkerIds
    PROVE  CmdMove(u)
<1>1. CASE UNCHANGED vars
    <2>1. UNCHANGED <<cmds, handled, posted, terminated, thread>>
        BY <1>1, ZenonT(60) DEF vars, recordVars, threadVars, chanVars, histVars
    <2>2. QED
        BY <2>1, CmdIdle, ZenonT(60) DEF Ended
<1>2. QED
    BY <1>1, ParentMoves, ThreadMoves, ZenonT(60) DEF Next

\* CmdOk of a worker that runs, without case distinctions.
LEMMA CmdRuns ==
    ASSUME NEW h \in Seq(Commands), NEW c \in Seq(Commands), NEW p \in Nat, CmdOk(h, c, p, FALSE, FALSE)
    PROVE  /\ Len(h) \in Nat /\ Len(c) \in Nat /\ Len(h) + Len(c) = p
           /\ \A i \in 1..Len(h) : h[i].msg = i
           /\ \A i \in 1..Len(c) : c[i].msg = Len(h) + i
<1>1. Len(h) \in Nat /\ Len(c) \in Nat
    OBVIOUS
<1>2. /\ Len(h) + Len(c) = p /\ \A i \in 1..Len(h) : h[i].msg = i
      /\ \A i \in 1..Len(c) : c[i].msg = IF Len(h) + i <= p THEN Len(h) + i ELSE 0
    BY ZenonT(60) DEF CmdOk
<1>3. ASSUME NEW i \in 1..Len(c) PROVE c[i].msg = Len(h) + i
    <2>1. Len(h) + i <= p
        BY <1>1, <1>2
    <2>2. QED
        BY <1>2, <2>1, ZenonT(60)
<1>4. QED
    BY <1>1, <1>2, <1>3, ZenonT(60)

\* A command x at the end of the channel.
LEMMA CmdAppend ==
    ASSUME NEW h \in Seq(Commands), NEW c \in Seq(Commands), NEW p \in Nat, NEW x \in Commands,
           NEW q \in {p, p + 1}, NEW t \in BOOLEAN, t <=> q = p,
           x.msg = IF t THEN 0 ELSE p + 1, CmdOk(h, c, p, FALSE, FALSE)
    PROVE  CmdOk(h, Append(c, x), q, t, FALSE)
<1> DEFINE d == Append(c, x)
<1>1. /\ Len(h) \in Nat /\ Len(c) \in Nat /\ Len(h) + Len(c) = p
      /\ \A i \in 1..Len(h) : h[i].msg = i
      /\ \A i \in 1..Len(c) : c[i].msg = Len(h) + i
    BY CmdRuns, ZenonT(60)
<1>2. Len(d) = Len(c) + 1 /\ (\A i \in 1..Len(c) : d[i] = c[i]) /\ d[Len(c) + 1] = x
    BY App
<1> HIDE DEF d
<1>3. Len(h) + Len(d) = p + 1 /\ Len(h) <= q /\ p + 1 = IF t THEN q + 1 ELSE q
    BY <1>1, <1>2
<1>4. ASSUME NEW i \in 1..Len(d) PROVE d[i].msg = IF Len(h) + i <= q THEN Len(h) + i ELSE 0
    <2>1. CASE i \in 1..Len(c)
        <3>1. d[i] = c[i] /\ c[i].msg = Len(h) + i
            BY <1>1, <1>2, <2>1, ZenonT(60)
        <3>2. Len(h) + i <= q
            BY <1>1, <2>1
        <3>3. QED
            BY <3>1, <3>2, ZenonT(60)
    <2>2. CASE i = Len(c) + 1
        <3>1. d[i] = x /\ Len(h) + i = p + 1
            BY <1>1, <1>2, <2>2
        <3>2. CASE t
            BY <3>1, <3>2
        <3>3. CASE ~t
            BY <3>1, <3>3
        <3>4. QED
            BY <3>2, <3>3
    <2>3. QED
        BY <1>1, <1>2, <2>1, <2>2
<1>5. CmdOk(h, d, q, t, FALSE)
    BY <1>1, <1>3, <1>4, ZenonT(60) DEF CmdOk
<1>6. QED
    BY <1>5, ZenonT(60) DEF d

\* A posted message takes the next number.
LEMMA CmdPosted ==
    ASSUME NEW h \in Seq(Commands), NEW c \in Seq(Commands), NEW p \in Nat, NEW b \in Buffers \cup {None},
           CmdOk(h, c, p, FALSE, FALSE)
    PROVE  CmdOk(h, Append(c, [msg |-> p + 1, buf |-> b]), p + 1, FALSE, FALSE)
<1>1. [msg |-> p + 1, buf |-> b] \in Commands /\ [msg |-> p + 1, buf |-> b].msg = p + 1
    BY DEF Commands
<1>2. p + 1 \in {p, p + 1} /\ (FALSE <=> p + 1 = p)
    OBVIOUS
<1>3. QED
    BY <1>1, <1>2, CmdAppend, ZenonT(60)

\* Shutdown is behind every message.
LEMMA CmdShutDown ==
    ASSUME NEW h \in Seq(Commands), NEW c \in Seq(Commands), NEW p \in Nat, CmdOk(h, c, p, FALSE, FALSE)
    PROVE  CmdOk(h, Append(c, [msg |-> 0, buf |-> None]), p, TRUE, FALSE)
<1>1. [msg |-> 0, buf |-> None] \in Commands /\ [msg |-> 0, buf |-> None].msg = 0
    BY DEF Commands
<1>2. p \in {p, p + 1} /\ (TRUE <=> p = p)
    OBVIOUS
<1>3. QED
    BY <1>1, <1>2, CmdAppend, ZenonT(60)

\* The next message is received.
LEMMA CmdReceived ==
    ASSUME NEW h \in Seq(Commands), NEW c \in Seq(Commands), NEW p \in Nat, NEW t \in BOOLEAN,
           CmdOk(h, c, p, t, FALSE), c # <<>>, Head(c).msg # 0
    PROVE  CmdOk(Append(h, Head(c)), Tail(c), p, t, FALSE)
<1> DEFINE g == Append(h, Head(c))
           d == Tail(c)
<1>1. /\ Head(c) \in Commands /\ Head(c) = c[1] /\ Len(c) >= 1
      /\ Len(d) = Len(c) - 1 /\ \A i \in 1..(Len(c) - 1) : d[i] = c[i + 1]
    BY Rest, ZenonT(60)
<1>2. Len(h) \in Nat /\ Len(c) \in Nat
    OBVIOUS
<1>3. Len(g) = Len(h) + 1 /\ (\A i \in 1..Len(h) : g[i] = h[i]) /\ g[Len(h) + 1] = c[1]
    <2>1. Head(c) \in Commands
        BY <1>1
    <2>2. Len(g) = Len(h) + 1 /\ (\A i \in 1..Len(h) : g[i] = h[i]) /\ g[Len(h) + 1] = Head(c)
        BY <2>1, App
    <2>3. QED
        BY <1>1, <2>2, ZenonT(60)
<1> HIDE DEF g, d
<1>4. /\ Len(h) <= p /\ (\A i \in 1..Len(h) : h[i].msg = i)
      /\ Len(h) + Len(c) = IF t THEN p + 1 ELSE p
      /\ \A i \in 1..Len(c) : c[i].msg = IF Len(h) + i <= p THEN Len(h) + i ELSE 0
    BY ZenonT(60) DEF CmdOk
<1>5. 1 \in 1..Len(c) /\ c[1].msg # 0
    BY <1>1, <1>2
<1>6. Len(h) + 1 <= p /\ c[1].msg = Len(h) + 1
    BY <1>4, <1>5, ZenonT(60)
<1>7. Len(g) <= p /\ Len(g) + Len(d) = IF t THEN p + 1 ELSE p
    <2>1. Len(g) + Len(d) = Len(h) + Len(c) /\ Len(g) <= p
        <3>1. Len(d) = Len(c) - 1 /\ Len(g) = Len(h) + 1 /\ Len(h) + 1 <= p
            BY <1>1, <1>3, <1>6
        <3>2. QED
            BY <1>2, <3>1
    <2>2. QED
        BY <1>4, <2>1, ZenonT(60)
<1>8. ASSUME NEW i \in 1..Len(g) PROVE g[i].msg = i
    <2>1. i \in 1..Len(h) \/ i = Len(h) + 1
        BY <1>2, <1>3
    <2>2. QED
        BY <1>3, <1>4, <1>6, <2>1, ZenonT(60)
<1>9. ASSUME NEW i \in 1..Len(d) PROVE d[i].msg = IF Len(g) + i <= p THEN Len(g) + i ELSE 0
    <2>1. i + 1 \in 1..Len(c) /\ i \in 1..(Len(c) - 1) /\ Len(h) + (i + 1) = Len(g) + i
        BY <1>1, <1>2, <1>3
    <2>2. d[i] = c[i + 1] /\ c[i + 1].msg = IF Len(h) + (i + 1) <= p THEN Len(h) + (i + 1) ELSE 0
        BY <1>1, <1>4, <2>1, ZenonT(60)
    <2>3. QED
        BY <2>1, <2>2, ZenonT(60)
<1>10. CmdOk(g, d, p, t, FALSE)
    BY <1>7, <1>8, <1>9, ZenonT(60) DEF CmdOk
<1>11. QED
    BY <1>10, ZenonT(60) DEF g, d

\* Every step keeps the commands in order.
LEMMA CmdInductive == TypeOK /\ Own /\ CmdInv /\ [Next]_vars => CmdInv'
<1> SUFFICES ASSUME TypeOK, Own, CmdInv, [Next]_vars, NEW u \in WorkerIds
             PROVE  CmdOk(handled'[u], cmds'[u], posted'[u], terminated'[u], Ended(u)')
    BY ZenonT(60) DEF CmdInv, Ended
<1>1. CmdOk(handled[u], cmds[u], posted[u], terminated[u], Ended(u))
    BY DEF CmdInv
<1>2. /\ handled[u] \in Seq(Commands) /\ cmds[u] \in Seq(Commands) /\ posted[u] \in Nat
      /\ terminated[u] \in BOOLEAN /\ Ended(u) \in BOOLEAN
    BY DEF TypeOK, ChannelTypes, CountTypes, RecordTypes, Ended
<1>3. CASE Ends(u)
    BY <1>1, <1>3 DEF Ends, CmdOk
<1>4. CASE Idle(u)
    BY <1>1, <1>4, ZenonT(60) DEF Idle, CmdOk
<1>5. CASE Posted(u)
    <2>1. PICK b \in Buffers \cup {None} : cmds'[u] = Append(cmds[u], [msg |-> posted[u] + 1, buf |-> b])
        BY <1>5, ZenonT(60) DEF Posted
    <2>2. CmdOk(handled[u], cmds[u], posted[u], FALSE, FALSE)
        BY <1>1, <1>5, ZenonT(60) DEF Posted, CmdOk
    <2>3. CmdOk(handled[u], cmds'[u], posted[u] + 1, FALSE, FALSE)
        BY <1>2, <2>1, <2>2, CmdPosted, ZenonT(60)
    <2>4. QED
        BY <1>5, <2>3, ZenonT(60) DEF Posted, CmdOk
<1>6. CASE ShutDown(u)
    <2>1. CmdOk(handled[u], cmds[u], posted[u], FALSE, FALSE)
        BY <1>1, <1>6, ZenonT(60) DEF ShutDown, CmdOk
    <2>2. CmdOk(handled[u], cmds'[u], posted[u], TRUE, FALSE)
        BY <1>2, <1>6, <2>1, CmdShutDown, ZenonT(60) DEF ShutDown
    <2>3. terminated'[u] = TRUE /\ ~Ended(u)' /\ handled'[u] = handled[u] /\ posted'[u] = posted[u]
        BY <1>6, ZenonT(60) DEF ShutDown
    <2>4. QED
        BY <2>2, <2>3, ZenonT(60) DEF CmdOk
<1>7. CASE Received(u)
    <2>1. CmdOk(handled[u], cmds[u], posted[u], terminated[u], FALSE)
        BY <1>1, <1>7, ZenonT(60) DEF Received, CmdOk
    <2>2. CmdOk(handled'[u], cmds'[u], posted[u], terminated[u], FALSE)
        BY <1>2, <1>7, <2>1, CmdReceived, ZenonT(60) DEF Received
    <2>3. QED
        BY <1>7, <2>2, ZenonT(60) DEF Received, CmdOk
<1>8. QED
    BY <1>3, <1>4, <1>5, <1>6, <1>7, CmdMoves, ZenonT(60) DEF CmdMove

\* The numbers from 1; a queue that goes on from k to n and ends with zeros.
Counts(s) == \A i \in 1..Len(s) : s[i] = i
GoesOn(s, k, n) == \A i \in 1..Len(s) : s[i] = IF k + i <= n THEN k + i ELSE 0

\* Sequences are equal that agree at every place.
LEMMA SameSeq ==
    ASSUME NEW S, NEW s \in Seq(S), NEW t \in Seq(S), Len(s) = Len(t), \A i \in 1..Len(s) : s[i] = t[i]
    PROVE  s = t
OBVIOUS

\* The numbers from 1, not beyond n, are the first of the n.
LEMMA Begins ==
    ASSUME NEW s \in Seq(Nat), NEW n \in Nat, Len(s) <= n, Counts(s)
    PROVE  Beginning(s, n)
<1>1. s = [i \in 1..Len(s) |-> s[i]]
    OBVIOUS
<1>2. [i \in 1..Len(s) |-> s[i]] = [i \in 1..Len(s) |-> i]
    BY DEF Counts
<1>3. QED
    BY <1>1, <1>2, ZenonT(60) DEF Beginning, UpTo

\* Messages in order with a queue behind them, or in order with Shutdown at
\* the end: the same sequence, cut at two places.
LEMMA Halves ==
    ASSUME NEW a \in Seq(Nat), NEW b \in Seq(Nat), NEW c \in Seq(Nat), NEW d \in Seq(Nat),
           Len(a) <= Len(c), Len(a) + Len(b) = Len(c) + Len(d),
           Counts(a), GoesOn(b, Len(a), Len(c)), Counts(c), GoesOn(d, Len(c), Len(c))
    PROVE  a \o b = c \o d
<1>1. Len(a) \in Nat /\ Len(b) \in Nat /\ Len(c) \in Nat /\ Len(d) \in Nat
    OBVIOUS
<1>2. /\ a \o b \in Seq(Nat) /\ Len(a \o b) = Len(a) + Len(b)
      /\ \A i \in 1..Len(a) : (a \o b)[i] = a[i]
      /\ \A i \in 1..Len(b) : (a \o b)[Len(a) + i] = b[i]
    BY Cat
<1>3. /\ c \o d \in Seq(Nat) /\ Len(c \o d) = Len(c) + Len(d)
      /\ \A i \in 1..Len(c) : (c \o d)[i] = c[i]
      /\ \A i \in 1..Len(d) : (c \o d)[Len(c) + i] = d[i]
    BY Cat
<1> DEFINE x == a \o b
           y == c \o d
<1>4. x \in Seq(Nat) /\ y \in Seq(Nat) /\ Len(x) = Len(y)
    BY <1>2, <1>3, ZenonT(60)
<1> HIDE DEF x, y
<1>5. ASSUME NEW i \in 1..(Len(a) + Len(b)) PROVE x[i] = y[i]
    <2>1. x[i] = IF i <= Len(c) THEN i ELSE 0
        <3>1. CASE i \in 1..Len(a)
            <4>1. x[i] = i
                BY <1>2, <3>1, ZenonT(60) DEF x, Counts
            <4>2. i <= Len(c)
                BY <1>1, <3>1
            <4>3. QED
                BY <4>1, <4>2, ZenonT(60)
        <3>2. CASE i \notin 1..Len(a)
            <4>1. i - Len(a) \in 1..Len(b) /\ Len(a) + (i - Len(a)) = i
                BY <1>1, <3>2
            <4>2. x[Len(a) + (i - Len(a))] = b[i - Len(a)]
                BY <1>2, <4>1, ZenonT(60) DEF x
            <4>3. b[i - Len(a)] = IF Len(a) + (i - Len(a)) <= Len(c) THEN Len(a) + (i - Len(a)) ELSE 0
                BY <4>1, ZenonT(60) DEF GoesOn
            <4>4. QED
                BY <4>1, <4>2, <4>3, ZenonT(60)
        <3>3. QED
            BY <3>1, <3>2
    <2>2. y[i] = IF i <= Len(c) THEN i ELSE 0
        <3>1. CASE i \in 1..Len(c)
            <4>1. y[i] = i
                BY <1>3, <3>1, ZenonT(60) DEF y, Counts
            <4>2. QED
                BY <1>1, <3>1, <4>1
        <3>2. CASE i \notin 1..Len(c)
            <4>1. i - Len(c) \in 1..Len(d) /\ Len(c) + (i - Len(c)) = i /\ ~(i <= Len(c))
                BY <1>1, <3>2
            <4>2. y[Len(c) + (i - Len(c))] = d[i - Len(c)] /\ d[i - Len(c)] = 0
                BY <1>3, <4>1, ZenonT(60) DEF y, GoesOn
            <4>3. QED
                BY <4>1, <4>2, ZenonT(60)
        <3>3. QED
            BY <3>1, <3>2
    <2>3. QED
        BY <2>1, <2>2
<1>6. x = y
    <2>1. Len(x) = Len(a) + Len(b)
        BY <1>2, ZenonT(60) DEF x
    <2>2. QED
        BY <1>4, <1>5, <2>1, SameSeq, ZenonT(60)
<1>7. QED
    BY <1>6, ZenonT(60) DEF x, y

\* CmdInv is what CommandsInOrder says, worker by worker.
LEMMA CmdOrder == TypeOK /\ CmdInv => CommandsInOrder
<1> SUFFICES ASSUME TypeOK, CmdInv, NEW w \in WorkerIds
             PROVE  LET msgs == [i \in DOMAIN handled[w] |-> handled[w][i].msg]
                        queue == [i \in DOMAIN cmds[w] |-> cmds[w][i].msg]
                    IN  IF Ended(w) THEN Beginning(msgs, posted[w])
                        ELSE msgs \o queue = UpTo(posted[w]) \o (IF terminated[w] THEN <<0>> ELSE <<>>)
    BY ZenonT(60) DEF CommandsInOrder
<1> DEFINE h == handled[w]
           c == cmds[w]
           p == posted[w]
           msgs == [i \in DOMAIN h |-> h[i].msg]
           queue == [i \in DOMAIN c |-> c[i].msg]
           last == IF terminated[w] THEN <<0>> ELSE <<>>
<1>1. /\ h \in Seq(Commands) /\ c \in Seq(Commands) /\ p \in Nat /\ terminated[w] \in BOOLEAN
      /\ CmdOk(h, c, p, terminated[w], Ended(w))
    BY DEF TypeOK, ChannelTypes, CountTypes, RecordTypes, CmdInv
<1> HIDE DEF h, c, p
<1>2. /\ Len(h) \in Nat /\ DOMAIN h = 1..Len(h) /\ \A i \in 1..Len(h) : h[i].msg \in Nat
      /\ Len(c) \in Nat /\ DOMAIN c = 1..Len(c) /\ \A i \in 1..Len(c) : c[i].msg \in Nat
    <2>1. h \in Seq(Commands) /\ c \in Seq(Commands)
        BY <1>1
    <2>2. \A x \in Commands : x.msg \in Nat
        BY DEF Commands
    <2>3. QED
        BY <2>1, <2>2
<1>3. /\ Len(h) <= p /\ \A i \in 1..Len(h) : h[i].msg = i
    BY <1>1, ZenonT(60) DEF CmdOk
<1>4. /\ msgs \in [1..Len(h) -> Nat] /\ queue \in [1..Len(c) -> Nat] /\ UpTo(p) \in [1..p -> Nat]
    BY <1>1, <1>2 DEF UpTo
<1>5. /\ msgs \in Seq(Nat) /\ Len(msgs) = Len(h) /\ queue \in Seq(Nat) /\ Len(queue) = Len(c)
      /\ UpTo(p) \in Seq(Nat) /\ Len(UpTo(p)) = p
    BY <1>1, <1>2, <1>4
<1>6. /\ \A i \in 1..Len(h) : msgs[i] = i
      /\ \A i \in 1..Len(c) : queue[i] = c[i].msg
      /\ \A i \in 1..p : UpTo(p)[i] = i
    BY <1>2, <1>3 DEF UpTo
<1>c. Counts(msgs) /\ Counts(UpTo(p))
    BY <1>5, <1>6, ZenonT(60) DEF Counts
<1>7. last \in Seq(Nat) /\ Len(last) = IF terminated[w] THEN 1 ELSE 0
    OBVIOUS
<1>8. GoesOn(last, p, p)
    <2>1. \A i \in 1..Len(last) : i \in 1..1 /\ last[i] = 0
        OBVIOUS
    <2>2. QED
        BY <1>1, <2>1 DEF GoesOn
<1> HIDE DEF msgs, queue, last
<1>9. CASE Ended(w)
    <2>1. Beginning(msgs, p)
        BY <1>1, <1>3, <1>5, <1>c, Begins, ZenonT(60)
    <2>2. QED
        BY <1>9, <2>1, ZenonT(60) DEF h, p, msgs
<1>10. CASE ~Ended(w)
    <2>1. /\ Len(h) + Len(c) = IF terminated[w] THEN p + 1 ELSE p
          /\ \A i \in 1..Len(c) : c[i].msg = IF Len(h) + i <= p THEN Len(h) + i ELSE 0
        BY <1>1, <1>10, ZenonT(60) DEF CmdOk
    <2>2. GoesOn(queue, Len(msgs), Len(UpTo(p)))
        BY <1>5, <1>6, <2>1, ZenonT(60) DEF GoesOn
    <2>3. Len(msgs) + Len(queue) = Len(UpTo(p)) + Len(last)
        BY <1>1, <1>2, <1>5, <1>7, <2>1
    <2>4. msgs \o queue = UpTo(p) \o last
        <3>1. Len(msgs) <= Len(UpTo(p)) /\ GoesOn(last, Len(UpTo(p)), Len(UpTo(p)))
            BY <1>3, <1>5, <1>8, ZenonT(60)
        <3>2. QED
            BY <1>5, <1>7, <1>c, <2>2, <2>3, <3>1, Halves, ZenonT(60)
    <2>5. QED
        BY <1>10, <2>4, ZenonT(60) DEF h, c, p, msgs, queue, last
<1>11. QED
    BY <1>9, <1>10, ZenonT(60)


\* No command was posted at first.
LEMMA InitCmd == Init => CmdInv
<1> SUFFICES ASSUME Init, NEW w \in WorkerIds
             PROVE  CmdOk(handled[w], cmds[w], posted[w], terminated[w], Ended(w))
    BY ZenonT(60) DEF CmdInv
<1>1. handled[w] = <<>> /\ cmds[w] = <<>> /\ posted[w] = 0 /\ terminated[w] = FALSE
    BY DEF Init
<1>2. Len(handled[w]) = 0 /\ Len(cmds[w]) = 0
    BY <1>1
<1>3. QED
    BY <1>1, <1>2 DEF CmdOk

\* The loop of run_js_worker receives what postMessage sent in the order it
\* was sent, and Shutdown last, for any number of workers and messages.
THEOREM CommandsOrdered == Spec => []CommandsInOrder
<1>1. Init => TypeOK /\ Own /\ CmdInv
    BY InitTypes, InitOwned, InitCmd
<1>2. TypeOK /\ Own /\ CmdInv /\ [Next]_vars => (TypeOK /\ Own /\ CmdInv)'
    BY TypeInductive, OwnInductive, CmdInductive
<1>3. TypeOK /\ Own /\ CmdInv => CommandsInOrder
    BY CmdOrder
<1>4. QED
    BY <1>1, <1>2, <1>3, PTL DEF Spec

(***************************************************************************)
(* Transferred buffers.                                                    *)
(***************************************************************************)
\* A command of the channel c or of the history h carries b.
Carries(c, h, b) ==
    \/ \E i \in 1..Len(c) : c[i].buf = b
    \/ \E i \in 1..Len(h) : h[i].buf = b

\* TransferredNotStranded, by places.
Carried(b) == home[b] # None => Carries(cmds[home[b]], handled[home[b]], b) \/ Ended(home[b])

\* A command at a place is one of the range.
LEMMA CarriesRange ==
    ASSUME NEW c \in Seq(Commands), NEW h \in Seq(Commands), NEW b, Carries(c, h, b)
    PROVE  \E x \in Range(c) \cup Range(h) : x.buf = b
<1>1. DOMAIN c = 1..Len(c) /\ DOMAIN h = 1..Len(h)
    OBVIOUS
<1>2. QED
    BY <1>1, ZenonT(60) DEF Carries, Range

\* A command behind the others hides none of them.
LEMMA CarriesAppend ==
    ASSUME NEW c \in Seq(Commands), NEW h, NEW b, NEW x \in Commands, Carries(c, h, b) \/ x.buf = b
    PROVE  Carries(Append(c, x), h, b)
<1> DEFINE d == Append(c, x)
<1>1. Len(d) = Len(c) + 1 /\ (\A i \in 1..Len(c) : d[i] = c[i]) /\ d[Len(c) + 1] = x
    BY App
<1>2. Len(c) \in Nat
    OBVIOUS
<1> HIDE DEF d
<1>3. Len(c) + 1 \in 1..Len(d) /\ \A i \in 1..Len(c) : i \in 1..Len(d)
    BY <1>1, <1>2
<1>4. Carries(d, h, b)
    BY <1>1, <1>3, ZenonT(60) DEF Carries
<1>5. QED
    BY <1>4, ZenonT(60) DEF d

\* A command that is received stays in the history.
LEMMA CarriesReceived ==
    ASSUME NEW c \in Seq(Commands), NEW h \in Seq(Commands), NEW b, c # <<>>, Carries(c, h, b)
    PROVE  Carries(Tail(c), Append(h, Head(c)), b)
<1> DEFINE d == Tail(c)
           g == Append(h, Head(c))
<1>1. /\ Head(c) \in Commands /\ Head(c) = c[1] /\ Len(c) >= 1
      /\ Len(d) = Len(c) - 1 /\ \A i \in 1..(Len(c) - 1) : d[i] = c[i + 1]
    BY Rest, ZenonT(60)
<1>2. Len(h) \in Nat /\ Len(c) \in Nat
    OBVIOUS
<1>3. Len(g) = Len(h) + 1 /\ (\A i \in 1..Len(h) : g[i] = h[i]) /\ g[Len(h) + 1] = Head(c)
    <2>1. Head(c) \in Commands
        BY <1>1
    <2>2. QED
        BY <2>1, App
<1> HIDE DEF d, g
<1>4. Len(h) + 1 \in 1..Len(g) /\ \A i \in 1..Len(h) : i \in 1..Len(g)
    BY <1>2, <1>3
<1>5. Carries(d, g, b)
    <2>1. CASE \E i \in 1..Len(h) : h[i].buf = b
        BY <1>3, <1>4, <2>1, ZenonT(60) DEF Carries
    <2>2. ASSUME NEW i \in 1..Len(c), c[i].buf = b PROVE Carries(d, g, b)
        <3>1. CASE i = 1
            BY <1>1, <1>3, <1>4, <2>2, <3>1, ZenonT(60) DEF Carries
        <3>2. CASE i # 1
            <4>1. i - 1 \in 1..Len(d) /\ i - 1 \in 1..(Len(c) - 1) /\ (i - 1) + 1 = i
                BY <1>1, <1>2, <3>2
            <4>2. d[i - 1].buf = b
                BY <1>1, <2>2, <4>1, ZenonT(60)
            <4>3. QED
                BY <4>1, <4>2, ZenonT(60) DEF Carries
        <3>3. QED
            BY <3>1, <3>2
    <2>3. QED
        BY <2>1, <2>2, ZenonT(60) DEF Carries
<1>6. QED
    BY <1>5, ZenonT(60) DEF d, g

\* Only postMessage moves a buffer.
LEMMA HomeSteps ==
    ASSUME [Next]_vars
    PROVE  \/ home' = home
           \/ \E w \in WorkerIds, b \in Buffers \cup {None}, c \in BOOLEAN : worker_post_message_call(w, b, c)
<1>1. CASE Continue
    BY <1>1, ZenonT(60) DEF Continue, insert, install_worker_poll_timer, send_shutdown, set_interrupt,
       cancel_all_waiters, join, chanVars
<1>2. ASSUME NEW w \in WorkerIds,
             \/ worker_constructor_call(w) \/ worker_spawn_call(w) \/ terminate(w) \/ worker_terminate_call(w)
             \/ drop_host \/ \E m \in BOOLEAN : worker_drain_call(w, m)
      PROVE  home' = home
    BY <1>2, ZenonT(60) DEF worker_constructor_call, worker_spawn_call, terminate, worker_terminate_call,
       drop_host, worker_drain_call, chanVars
<1>3. CASE drop_host
    BY <1>3, ZenonT(60) DEF drop_host, chanVars
<1>4. CASE Handled
    BY <1>4, ZenonT(60) DEF Handled, dispatch_event_object, dispatch_throws, chanVars
<1>5. ASSUME NEW w \in WorkerIds, otter_worker_poll(w) \/ Program(w) PROVE home' = home
    BY <1>5, ZenonT(60) DEF otter_worker_poll, Program, post, close, wait, wait_returns, js_throws, Abort,
       js_returns, chanVars
<1>6. ASSUME NEW w \in WorkerIds, Thread(w) PROVE home' = home
    BY <1>6, ZenonT(60) DEF Thread, start, install_worker_scope_natives, recv_message, leave_loop,
       interrupted, Abort, chanVars
<1>7. CASE UNCHANGED vars
    BY <1>7, ZenonT(60) DEF vars, chanVars
<1>8. QED
    BY <1>1, <1>2, <1>3, <1>4, <1>5, <1>6, <1>7, ZenonT(60) DEF Next, Call

\* A buffer on its way to u, or arrived there, stays so.
LEMMA CarriedMove ==
    ASSUME TypeOK, NEW u \in WorkerIds, NEW b, CmdMove(u), Carries(cmds[u], handled[u], b) \/ Ended(u)
    PROVE  Carries(cmds'[u], handled'[u], b) \/ Ended(u)'
<1>1. cmds[u] \in Seq(Commands) /\ handled[u] \in Seq(Commands) /\ posted[u] \in Nat
    BY DEF TypeOK, ChannelTypes, CountTypes
<1>2. CASE Ends(u)
    BY <1>2, ZenonT(60) DEF Ends
<1>3. CASE Idle(u)
    BY <1>3, ZenonT(60) DEF Idle
<1>4. CASE Posted(u)
    <2>1. PICK a \in Buffers \cup {None} : cmds'[u] = Append(cmds[u], [msg |-> posted[u] + 1, buf |-> a])
        BY <1>4, ZenonT(60) DEF Posted
    <2>2. [msg |-> posted[u] + 1, buf |-> a] \in Commands
        BY <1>1 DEF Commands
    <2>3. ~Ended(u) /\ handled'[u] = handled[u]
        BY <1>4, ZenonT(60) DEF Posted
    <2>4. QED
        BY <1>1, <2>1, <2>2, <2>3, CarriesAppend, ZenonT(60)
<1>5. CASE ShutDown(u)
    <2>1. [msg |-> 0, buf |-> None] \in Commands
        BY DEF Commands
    <2>2. /\ ~Ended(u) /\ handled'[u] = handled[u]
          /\ cmds'[u] = Append(cmds[u], [msg |-> 0, buf |-> None])
        BY <1>5, ZenonT(60) DEF ShutDown
    <2>3. QED
        BY <1>1, <2>1, <2>2, CarriesAppend, ZenonT(60)
<1>6. CASE Received(u)
    BY <1>1, <1>6, CarriesReceived, ZenonT(60) DEF Received
<1>7. QED
    BY <1>2, <1>3, <1>4, <1>5, <1>6, ZenonT(60) DEF CmdMove

\* A buffer that is detached goes out with the message.
LEMMA CarriedPost ==
    ASSUME TypeOK, NEW w \in WorkerIds, NEW a \in Buffers \cup {None}, NEW cl \in BOOLEAN,
           worker_post_message_call(w, a, cl), NEW b \in Buffers, home'[b] # home[b]
    PROVE  home'[b] = w /\ (Carries(cmds'[w], handled'[w], b) \/ Ended(w)')
<1>1. /\ cmds \in [WorkerIds -> Seq(Commands)] /\ posted[w] \in Nat
      /\ home \in [Buffers -> WorkerIds \cup {None}]
    BY DEF TypeOK, ChannelTypes, CountTypes
<1>2. /\ home' = IF a # None /\ cl THEN [home EXCEPT ![a] = w] ELSE home
      /\ cl /\ ~Ended(w) => cmds' = [cmds EXCEPT ![w] = Append(cmds[w], [msg |-> posted[w] + 1, buf |-> a])]
      /\ UNCHANGED <<thread, handled>>
    BY ZenonT(60) DEF worker_post_message_call, Detached, threadVars
<1>3. cl /\ a = b /\ home'[b] = w
    BY <1>1, <1>2
<1>4. CASE Ended(w)
    BY <1>2, <1>3, <1>4 DEF Ended
<1>5. CASE ~Ended(w)
    <2>1. cmds'[w] = Append(cmds[w], [msg |-> posted[w] + 1, buf |-> b])
        BY <1>1, <1>2, <1>3, <1>5
    <2>2. /\ [msg |-> posted[w] + 1, buf |-> b] \in Commands
          /\ [msg |-> posted[w] + 1, buf |-> b].buf = b
        BY <1>1 DEF Commands
    <2>3. cmds[w] \in Seq(Commands)
        BY <1>1
    <2>4. QED
        BY <1>3, <2>1, <2>2, <2>3, CarriesAppend, ZenonT(60)
<1>6. QED
    BY <1>4, <1>5

\* Every step keeps every transferred buffer with its worker.
LEMMA CarriedInductive ==
    ASSUME TypeOK, Own, [Next]_vars, NEW b \in Buffers, Carried(b)
    PROVE  home'[b] # None => Carries(cmds'[home'[b]], handled'[home'[b]], b) \/ thread'[home'[b]] \in {"stillborn", "done"}
<1> SUFFICES ASSUME home'[b] # None
             PROVE  Carries(cmds'[home'[b]], handled'[home'[b]], b) \/ thread'[home'[b]] \in {"stillborn", "done"}
    OBVIOUS
<1>1. CASE home'[b] = home[b]
    <2>1. home[b] \in WorkerIds
        BY <1>1 DEF TypeOK, ChannelTypes
    <2>2. PICK u \in WorkerIds : u = home[b]
        BY <2>1, ZenonT(60)
    <2>3. Carries(cmds[u], handled[u], b) \/ Ended(u)
        BY <1>1, <2>2, ZenonT(60) DEF Carried
    <2>4. Carries(cmds'[u], handled'[u], b) \/ Ended(u)'
        BY <2>3, CmdMoves, CarriedMove, ZenonT(60)
    <2>5. QED
        BY <1>1, <2>2, <2>4, ZenonT(60) DEF Ended
<1>2. CASE home'[b] # home[b]
    <2>1. PICK w \in WorkerIds, a \in Buffers \cup {None}, c \in BOOLEAN : worker_post_message_call(w, a, c)
        BY <1>2, HomeSteps, ZenonT(60)
    <2>2. home'[b] = w /\ (Carries(cmds'[w], handled'[w], b) \/ Ended(w)')
        BY <1>2, <2>1, CarriedPost, ZenonT(60)
    <2>3. QED
        BY <2>2, ZenonT(60) DEF Ended
<1>3. QED
    BY <1>1, <1>2

\* What is kept, for every buffer.
AllCarried == \A b \in Buffers : Carried(b)

\* postMessage never strands a transferred buffer: it is detached only when
\* its message goes out to the worker or the worker has ended, and the message
\* stays until it is received, for any number of workers and buffers.
THEOREM BuffersNotStranded == Spec => []TransferredNotStranded
<1>1. Init => TypeOK /\ Own /\ AllCarried
    <2>1. Init => AllCarried
        BY DEF Init, AllCarried, Carried
    <2>2. QED
        BY <2>1, InitTypes, InitOwned
<1>2. TypeOK /\ Own /\ AllCarried /\ [Next]_vars => (TypeOK /\ Own /\ AllCarried)'
    <2>1. TypeOK /\ Own /\ AllCarried /\ [Next]_vars => AllCarried'
        BY CarriedInductive, ZenonT(60) DEF AllCarried, Carried, Ended
    <2>2. QED
        BY <2>1, TypeInductive, OwnInductive
<1>3. TypeOK /\ Own /\ AllCarried => TransferredNotStranded
    <2> SUFFICES ASSUME TypeOK, AllCarried, NEW b \in Buffers, home[b] # None
                 PROVE  (\E c \in Range(cmds[home[b]]) \cup Range(handled[home[b]]) : c.buf = b) \/ Ended(home[b])
        BY ZenonT(60) DEF TransferredNotStranded
    <2>1. home[b] \in WorkerIds
        BY DEF TypeOK, ChannelTypes
    <2>2. cmds[home[b]] \in Seq(Commands) /\ handled[home[b]] \in Seq(Commands)
        BY <2>1 DEF TypeOK, ChannelTypes
    <2>3. Carries(cmds[home[b]], handled[home[b]], b) \/ Ended(home[b])
        BY ZenonT(60) DEF AllCarried, Carried
    <2> DEFINE cs == cmds[home[b]]
               hs == handled[home[b]]
    <2>4. cs \in Seq(Commands) /\ hs \in Seq(Commands) /\ (Carries(cs, hs, b) \/ Ended(home[b]))
        BY <2>2, <2>3, ZenonT(60)
    <2> HIDE DEF cs, hs
    <2>5. (\E c \in Range(cs) \cup Range(hs) : c.buf = b) \/ Ended(home[b])
        <3>1. CASE Carries(cs, hs, b)
            BY <2>4, <3>1, CarriesRange
        <3>2. QED
            BY <2>4, <3>1, ZenonT(60)
    <2>6. QED
        BY <2>5, ZenonT(60) DEF cs, hs
<1>4. QED
    BY <1>1, <1>2, <1>3, PTL DEF Spec

(***************************************************************************)
(* Sequences of numbered events.                                           *)
(***************************************************************************)
\* The events of s are numbered on from k.
Runs(s, k) == \A i \in 1..Len(s) : s[i].id = k + i

\* t was taken, r is the rest of the batch of the callback, e is in the
\* channel and n events were sent; none is missing if l.
EvOk(t, r, e, n, l) ==
    /\ Runs(t, 0) /\ Runs(r, Len(t)) /\ Runs(e, Len(t) + Len(r))
    /\ Len(t) + Len(r) + Len(e) <= n
    /\ l => Len(t) + Len(r) + Len(e) = n

\* Two runs one after the other are a run.
LEMMA RunsCat ==
    ASSUME NEW s \in Seq(Events), NEW t \in Seq(Events), NEW k \in Nat, Runs(s, k), Runs(t, k + Len(s))
    PROVE  s \o t \in Seq(Events) /\ Len(s \o t) = Len(s) + Len(t) /\ Runs(s \o t, k)
<1> DEFINE x == s \o t
<1>1. /\ x \in Seq(Events) /\ Len(x) = Len(s) + Len(t)
      /\ \A i \in 1..Len(s) : x[i] = s[i]
      /\ \A i \in 1..Len(t) : x[Len(s) + i] = t[i]
    BY Cat
<1>2. Len(s) \in Nat /\ Len(t) \in Nat
    OBVIOUS
<1> HIDE DEF x
<1>3. ASSUME NEW i \in 1..Len(x) PROVE x[i].id = k + i
    <2>1. CASE i \in 1..Len(s)
        BY <1>1, <2>1, ZenonT(60) DEF Runs
    <2>2. CASE i \notin 1..Len(s)
        <3>1. i - Len(s) \in 1..Len(t) /\ Len(s) + (i - Len(s)) = i /\ (k + Len(s)) + (i - Len(s)) = k + i
            BY <1>1, <1>2, <2>2
        <3>2. x[Len(s) + (i - Len(s))] = t[i - Len(s)] /\ t[i - Len(s)].id = (k + Len(s)) + (i - Len(s))
            BY <1>1, <3>1, ZenonT(60) DEF Runs
        <3>3. QED
            BY <3>1, <3>2, ZenonT(60)
    <2>3. QED
        BY <2>1, <2>2
<1>4. QED
    BY <1>1, <1>3, ZenonT(60) DEF x, Runs

\* The first event of a run, and the rest of it.
LEMMA RunsRest ==
    ASSUME NEW s \in Seq(Events), s # <<>>, NEW k \in Nat, Runs(s, k)
    PROVE  /\ <<Head(s)>> \in Seq(Events) /\ Len(<<Head(s)>>) = 1 /\ Runs(<<Head(s)>>, k)
           /\ Tail(s) \in Seq(Events) /\ Len(Tail(s)) = Len(s) - 1 /\ Runs(Tail(s), k + 1)
<1> DEFINE h == <<Head(s)>>
           t == Tail(s)
<1>1. /\ Head(s) \in Events /\ Head(s) = s[1]
      /\ t \in Seq(Events) /\ Len(s) >= 1 /\ Len(t) = Len(s) - 1
      /\ \A i \in 1..(Len(s) - 1) : t[i] = s[i + 1]
    BY Rest
<1>2. h \in Seq(Events) /\ Len(h) = 1 /\ h[1] = s[1] /\ Len(s) \in Nat
    BY <1>1
<1> HIDE DEF h, t
<1>3. s[1].id = k + 1
    <2>1. 1 \in 1..Len(s)
        BY <1>1, <1>2
    <2>2. QED
        BY <2>1, ZenonT(60) DEF Runs
<1>4. Runs(h, k)
    <2>1. \A i \in 1..Len(h) : i = 1
        BY <1>2
    <2>2. QED
        BY <1>2, <1>3, <2>1, ZenonT(60) DEF Runs
<1>5. Runs(t, k + 1)
    <2>1. ASSUME NEW i \in 1..Len(t) PROVE t[i].id = (k + 1) + i
        <3>1. i \in 1..(Len(s) - 1) /\ i + 1 \in 1..Len(s) /\ k + (i + 1) = (k + 1) + i
            BY <1>1, <1>2
        <3>2. t[i] = s[i + 1] /\ s[i + 1].id = k + (i + 1)
            BY <1>1, <3>1, ZenonT(60) DEF Runs
        <3>3. QED
            BY <3>1, <3>2, ZenonT(60)
    <2>2. QED
        BY <2>1, ZenonT(60) DEF Runs
<1>6. QED
    BY <1>1, <1>2, <1>4, <1>5, ZenonT(60) DEF h, t

\* No event at all.
LEMMA RunsNone == Len(<<>>) = 0 /\ \A k : Runs(<<>>, k)
<1>1. Len(<<>>) = 0
    OBVIOUS
<1>2. \A i \in 1..Len(<<>>) : FALSE
    BY <1>1
<1>3. QED
    BY <1>1, <1>2, ZenonT(60) DEF Runs

\* A callback drains the channel.
LEMMA EvDrain ==
    ASSUME NEW t \in Seq(Events), NEW e \in Seq(Events), NEW n \in Nat, NEW l, EvOk(t, <<>>, e, n, l)
    PROVE  EvOk(t, e, <<>>, n, l)
<1>1. /\ Runs(t, 0) /\ Runs(e, Len(t) + Len(<<>>)) /\ Len(t) + Len(<<>>) + Len(e) <= n
      /\ l => Len(t) + Len(<<>>) + Len(e) = n
    BY ZenonT(60) DEF EvOk
<1>2. Len(t) \in Nat /\ Len(e) \in Nat /\ Len(<<>>) = 0
    OBVIOUS
<1>3. Len(t) + Len(<<>>) = Len(t) /\ Len(t) + Len(<<>>) + Len(e) = Len(t) + Len(e) + Len(<<>>)
    BY <1>2
<1>4. QED
    BY <1>1, <1>3, RunsNone, ZenonT(60) DEF EvOk

\* Everything of the batch is taken.
LEMMA EvTakeAll ==
    ASSUME NEW t \in Seq(Events), NEW r \in Seq(Events), NEW e \in Seq(Events), NEW n \in Nat, NEW l,
           EvOk(t, r, e, n, l)
    PROVE  EvOk(t \o r, <<>>, e, n, l)
<1> DEFINE x == t \o r
<1>1. /\ Runs(t, 0) /\ Runs(r, Len(t)) /\ Runs(e, Len(t) + Len(r)) /\ Len(t) + Len(r) + Len(e) <= n
      /\ l => Len(t) + Len(r) + Len(e) = n
    BY ZenonT(60) DEF EvOk
<1>2. Len(t) \in Nat /\ Len(r) \in Nat /\ Len(e) \in Nat /\ Len(<<>>) = 0 /\ 0 + Len(t) = Len(t) /\ 0 \in Nat
    OBVIOUS
<1>3. Len(x) = Len(t) + Len(r) /\ Runs(x, 0)
    BY <1>1, <1>2, RunsCat, ZenonT(60)
<1> HIDE DEF x
<1>4. Len(x) + Len(<<>>) = Len(t) + Len(r)
    BY <1>2, <1>3
<1>5. EvOk(x, <<>>, e, n, l)
    BY <1>1, <1>3, <1>4, RunsNone, ZenonT(60) DEF EvOk
<1>6. QED
    BY <1>5, ZenonT(60) DEF x

\* The first event of the batch is taken.
LEMMA EvTakeOne ==
    ASSUME NEW t \in Seq(Events), NEW r \in Seq(Events), NEW e \in Seq(Events), NEW n \in Nat, NEW l,
           EvOk(t, r, e, n, l), r # <<>>
    PROVE  EvOk(t \o <<Head(r)>>, Tail(r), e, n, l)
<1> DEFINE h == <<Head(r)>>
           s == Tail(r)
           x == t \o h
<1>1. /\ Runs(t, 0) /\ Runs(r, Len(t)) /\ Runs(e, Len(t) + Len(r)) /\ Len(t) + Len(r) + Len(e) <= n
      /\ l => Len(t) + Len(r) + Len(e) = n
    BY ZenonT(60) DEF EvOk
<1>2. Len(t) \in Nat /\ Len(r) \in Nat /\ Len(e) \in Nat /\ 0 + Len(t) = Len(t) /\ 0 \in Nat
    OBVIOUS
<1>3. /\ h \in Seq(Events) /\ Len(h) = 1 /\ Runs(h, Len(t))
      /\ s \in Seq(Events) /\ Len(s) = Len(r) - 1 /\ Runs(s, Len(t) + 1)
    BY <1>1, <1>2, RunsRest, ZenonT(60)
<1> HIDE DEF h, s
<1>4. Len(x) = Len(t) + Len(h) /\ Runs(x, 0)
    BY <1>1, <1>2, <1>3, RunsCat, ZenonT(60)
<1> HIDE DEF x
<1>5. Len(x) = Len(t) + 1 /\ Len(x) + Len(s) = Len(t) + Len(r)
    BY <1>2, <1>3, <1>4
<1>6. EvOk(x, s, e, n, l)
    BY <1>1, <1>3, <1>4, <1>5, ZenonT(60) DEF EvOk
<1>7. QED
    BY <1>6, ZenonT(60) DEF x, h, s

\* More events are sent.
LEMMA EvSend ==
    ASSUME NEW t \in Seq(Events), NEW r \in Seq(Events), NEW e \in Seq(Events), NEW n \in Nat,
           EvOk(t, r, e, n, TRUE), NEW kinds \in Seq(EventKinds), NEW l
    PROVE  EvOk(t, r, e \o [i \in DOMAIN kinds |-> [id |-> n + i, kind |-> kinds[i]]], n + Len(kinds), l)
<1> DEFINE f == [i \in DOMAIN kinds |-> [id |-> n + i, kind |-> kinds[i]]]
           x == e \o f
           k == Len(t) + Len(r)
<1>1. Runs(t, 0) /\ Runs(r, Len(t)) /\ Runs(e, k) /\ k + Len(e) = n
    BY ZenonT(60) DEF EvOk
<1>2. f \in Seq(Events) /\ Len(f) = Len(kinds) /\ \A i \in 1..Len(f) : f[i].id = n + i
    BY Numbered
<1> HIDE DEF f
<1>3. Len(t) \in Nat /\ Len(r) \in Nat /\ Len(e) \in Nat /\ Len(kinds) \in Nat /\ k \in Nat
    OBVIOUS
<1> HIDE DEF k
<1>4. Runs(f, k + Len(e))
    BY <1>1, <1>2, ZenonT(60) DEF Runs
<1>5. Len(x) = Len(e) + Len(f) /\ Runs(x, k)
    BY <1>1, <1>2, <1>3, <1>4, RunsCat, ZenonT(60)
<1> HIDE DEF x
<1>6. k + Len(x) = n + Len(kinds) /\ k + Len(x) <= n + Len(kinds)
    <2>1. k + Len(e) = n /\ Len(f) = Len(kinds) /\ Len(x) = Len(e) + Len(f)
        BY <1>1, <1>2, <1>5, ZenonT(60)
    <2>2. k + (Len(e) + Len(kinds)) = (k + Len(e)) + Len(kinds) /\ n + Len(kinds) <= n + Len(kinds)
        BY <1>3
    <2>3. QED
        BY <2>1, <2>2, ZenonT(60)
<1>7. EvOk(t, r, x, n + Len(kinds), l)
    BY <1>1, <1>5, <1>6, ZenonT(60) DEF EvOk, k
<1>8. QED
    BY <1>7, ZenonT(60) DEF x, f

\* The channel is gone.
LEMMA EvLose ==
    ASSUME NEW t \in Seq(Events), NEW r \in Seq(Events), NEW e \in Seq(Events), NEW n \in Nat, NEW l,
           EvOk(t, r, e, n, l)
    PROVE  EvOk(t, r, <<>>, n, FALSE)
<1>1. Runs(t, 0) /\ Runs(r, Len(t)) /\ Len(t) + Len(r) + Len(e) <= n
    BY ZenonT(60) DEF EvOk
<1>2. Len(t) \in Nat /\ Len(r) \in Nat /\ Len(e) \in Nat /\ Len(<<>>) = 0
    OBVIOUS
<1>3. Len(t) + Len(r) + Len(<<>>) <= n
    BY <1>1, <1>2
<1>4. QED
    BY <1>1, <1>3, RunsNone, ZenonT(60) DEF EvOk

(***************************************************************************)
(* Whose events can still be complete.                                     *)
(***************************************************************************)
\* The native that started w is about to register it.
Inserting(w) == Len(agenda) >= 1 /\ agenda[1] = Step("insert", w)

\* The record of w exists, or w may still send: no event of it is missing.
Live(w) == ~Ended(w) \/ w \in registry \/ polling = w \/ Inserting(w)

\* What the callback that polls w has drained and not reached.
Undispatched(w) == IF polling = w THEN Tail(batch) ELSE <<>>

EvInv == \A w \in WorkerIds \ lost : EvOk(taken[w], Undispatched(w), events[w], sent[w], Live(w))

\* Behind the first step of an agenda nothing is inserted.
LEMMA TailInserts ==
    ASSUME TypeOK, Own, agenda # <<>>, agenda' = Tail(agenda), NEW u
    PROVE  ~Inserting(u)'
<1> SUFFICES ASSUME Len(agenda') >= 1, agenda'[1] = Step("insert", u) PROVE FALSE
    BY DEF Inserting
<1>1. agenda \in Seq(Steps)
    BY DEF TypeOK, ParentTypes
<1>2. /\ Len(agenda) \in Nat /\ Len(agenda') = Len(agenda) - 1
      /\ \A i \in 1..(Len(agenda) - 1) : agenda'[i] = agenda[i + 1]
    BY <1>1, Rest
<1>3. 2 \in 1..Len(agenda) /\ agenda[2] = Step("insert", u)
    BY <1>2
<1>4. agenda[2].op = "insert" /\ StepOk(2)
    BY <1>3, OwnSteps DEF Step
<1>5. QED
    BY <1>4 DEF StepOk

\* An agenda that starts with another operation, or is empty, inserts nothing.
LEMMA OtherInserts ==
    ASSUME NEW u, \/ agenda' = <<>>
                  \/ \E op \in Ops \ {"insert"} : \E w : agenda'[1] = Step(op, w)
    PROVE  ~Inserting(u)'
<1>1. CASE agenda' = <<>>
    BY <1>1 DEF Inserting
<1>2. CASE \E op \in Ops \ {"insert"} : \E w : agenda'[1] = Step(op, w)
    BY <1>2 DEF Inserting, Step
<1>3. QED
    BY <1>1, <1>2

\* A step of the agenda, which leaves the rest of it.
LEMMA LiveTail ==
    ASSUME TypeOK, Own, NEW u \in WorkerIds, Live(u)', agenda # <<>>, agenda' = Tail(agenda),
           UNCHANGED <<registry, polling, thread>>
    PROVE  Live(u)
BY TailInserts, ZenonT(60) DEF Live, Ended

\* An agenda that inserts nothing.
LEMMA LiveOther ==
    ASSUME NEW u \in WorkerIds, Live(u)', ~Inserting(u)', UNCHANGED thread,
           registry' \subseteq registry, polling' = u => polling = u \/ u \in registry
    PROVE  Live(u)
BY DEF Live, Ended

\* new Worker and __otter_worker_spawn.
LEMMA LiveNewWorker ==
    ASSUME TypeOK, NEW u \in WorkerIds, Live(u)', NEW w \in WorkerIds,
           worker_constructor_call(w) \/ worker_spawn_call(w)
    PROVE  Live(u)
<1>1. /\ thread[w] = "none" /\ thread' = [thread EXCEPT ![w] = "starting"]
      /\ UNCHANGED <<registry, polling>>
      /\ agenda' = <<Step("insert", w), Step("setInterval", w)>> \/ agenda' = <<Step("insert", w)>>
    BY ZenonT(60) DEF worker_constructor_call, worker_spawn_call
<1>2. thread \in [WorkerIds -> ThreadStates]
    BY DEF TypeOK, ThreadTypes
<1>3. agenda'[1] = Step("insert", w)
    BY <1>1
<1>4. CASE u = w
    BY <1>1, <1>4 DEF Live, Ended
<1>5. CASE u # w
    <2>1. ~Inserting(u)'
        BY <1>3, <1>5 DEF Inserting, Step
    <2>2. thread'[u] = thread[u]
        BY <1>1, <1>2, <1>5
    <2>3. QED
        BY <1>1, <2>1, <2>2, ZenonT(60) DEF Live, Ended
<1>6. QED
    BY <1>4, <1>5

\* The record is inserted into the registry, or the native throws.
LEMMA LiveInsert ==
    ASSUME TypeOK, Own, NEW u \in WorkerIds, Live(u)', NEW w \in WorkerIds, insert(w)
    PROVE  Live(u)
<1>1. /\ agenda # <<>> /\ Head(agenda) = Step("insert", w) /\ UNCHANGED <<polling, thread>>
      /\ registry' \subseteq registry \cup {w}
      /\ agenda' = <<>> \/ agenda' = Tail(agenda)
    BY DEF insert, threadVars
<1>2. agenda \in Seq(Steps)
    BY DEF TypeOK, ParentTypes
<1>3. Inserting(w)
    BY <1>1, <1>2, Rest DEF Inserting
<1>4. ~Inserting(u)'
    BY <1>1, TailInserts, OtherInserts, ZenonT(60)
<1>5. QED
    BY <1>1, <1>3, <1>4 DEF Live, Ended

\* terminate, of either kind.
LEMMA LiveTerminate ==
    ASSUME NEW u \in WorkerIds, Live(u)', NEW w \in WorkerIds, terminate(w) \/ worker_terminate_call(w)
    PROVE  Live(u)
<1>1. /\ agenda' = <<Step("terminate", w)>> \o Drop(w) /\ registry' = registry \ {w}
      /\ UNCHANGED <<polling, thread>>
    BY ZenonT(60) DEF terminate, worker_terminate_call, threadVars
<1>2. agenda'[1] = Step("terminate", w) /\ "terminate" \in Ops \ {"insert"}
    BY <1>1, TerminateAgenda DEF Ops
<1>3. ~Inserting(u)'
    BY <1>2, OtherInserts, ZenonT(60)
<1>4. QED
    BY <1>1, <1>3, LiveOther

\* The drop of the host.
LEMMA LiveDropHost ==
    ASSUME TypeOK, NEW u \in WorkerIds, Live(u)', drop_host
    PROVE  Live(u)
<1>1. registry' = {} /\ UNCHANGED <<polling, thread>>
    BY ZenonT(60) DEF drop_host, threadVars
<1>2. ~Inserting(u)'
    <2>1. PICK n \in Nat : \E ws : HostAgenda(n, ws)
        BY DropAgenda, ZenonT(60) DEF TypeOK
    <2>2. PICK ws : HostAgenda(n, ws)
        BY <2>1
    <2>3. Len(agenda') = n + n /\ (1 \in 1..n => agenda'[1] = Step("terminate", ws[1]))
        BY <2>2, ZenonT(60) DEF HostAgenda
    <2>4. Len(agenda') >= 1 => agenda'[1] = Step("terminate", ws[1])
        BY <2>3
    <2>5. QED
        BY <2>4 DEF Inserting, Step
<1>3. QED
    BY <1>1, <1>2, LiveOther

\* The Shutdown of terminate.
LEMMA LiveShutdown ==
    ASSUME TypeOK, NEW u \in WorkerIds, Live(u)', NEW w \in WorkerIds, send_shutdown(w)
    PROVE  Live(u)
<1>1. /\ agenda # <<>> /\ agenda' = Terminate(w) \o Tail(agenda)
      /\ UNCHANGED <<registry, polling, thread>>
    BY ZenonT(60) DEF send_shutdown, threadVars
<1>2. agenda \in Seq(Steps)
    BY DEF TypeOK, ParentTypes
<1>3. agenda'[1] = Step("interrupt", w) /\ "interrupt" \in Ops \ {"insert"}
    BY <1>1, <1>2, ShutdownAgenda DEF Ops
<1>4. ~Inserting(u)'
    BY <1>3, OtherInserts, ZenonT(60)
<1>5. QED
    BY <1>1, <1>4, LiveOther

\* The poll callback, at its start, at the next event and at its end.
LEMMA LiveCallback ==
    ASSUME TypeOK, NEW u \in WorkerIds, Live(u)',
           (\E w \in WorkerIds : otter_worker_poll(w)) \/ dispatch_event_object \/ dispatch_throws
    PROVE  Live(u)
<1>j. "join" \in Ops \ {"insert"}
    BY DEF Ops
<1>1. ASSUME NEW w \in WorkerIds, otter_worker_poll(w) PROVE Live(u)
    <2>1. agenda = <<>> /\ Reach(w, events[w]) /\ w \in registry /\ UNCHANGED <<registry, thread>>
        BY <1>1, ZenonT(60) DEF otter_worker_poll, Js, Pollable, threadVars
    <2>2. /\ agenda' = <<>> \/ agenda' = <<Step("join", w)>>
          /\ polling' \in {w, None}
        BY <2>1, ReachShape
    <2>3. ~Inserting(u)'
        <3>1. CASE agenda' = <<>>
            BY <3>1, OtherInserts, ZenonT(60)
        <3>2. CASE agenda' = <<Step("join", w)>>
            <4>1. agenda'[1] = Step("join", w)
                BY <3>2
            <4>2. QED
                BY <1>j, <4>1, OtherInserts, ZenonT(60)
        <3>3. QED
            BY <2>2, <3>1, <3>2
    <2>4. polling' = u => u \in registry
        BY <2>1, <2>2, WorkersAssumption
    <2>5. QED
        BY <2>1, <2>3, <2>4, LiveOther
<1>2. CASE dispatch_event_object \/ dispatch_throws
    <2>1. /\ UNCHANGED <<registry, thread>>
          /\ agenda' = <<>> \/ agenda' = <<Step("join", polling)>>
          /\ polling' \in {polling, None}
        BY <1>2, DispatchShape
    <2>2. ~Inserting(u)'
        <3>1. CASE agenda' = <<>>
            BY <3>1, OtherInserts, ZenonT(60)
        <3>2. CASE agenda' = <<Step("join", polling)>>
            <4>1. agenda'[1] = Step("join", polling)
                BY <3>2
            <4>2. QED
                BY <1>j, <4>1, OtherInserts, ZenonT(60)
        <3>3. QED
            BY <2>1, <3>1, <3>2
    <2>3. polling' = u => polling = u
        BY <2>1, WorkersAssumption
    <2>4. QED
        BY <2>1, <2>2, <2>3, LiveOther
<1>3. QED
    BY <1>1, <1>2

\* A step of a thread: what has ended does not come back.
LEMMA LiveThread ==
    ASSUME NEW u \in WorkerIds, Live(u)', ThreadStep
    PROVE  Live(u)
BY ZenonT(60) DEF ThreadStep, parentVars, Live, Inserting

\* No step brings a record back.
LEMMA LiveStep ==
    ASSUME TypeOK, Own, [Next]_vars, NEW u \in WorkerIds, Live(u)'
    PROVE  Live(u)
<1>0. ASSUME NEW w \in WorkerIds,
             install_worker_poll_timer(w) \/ set_interrupt(w) \/ cancel_all_waiters(w) \/ join(w)
      PROVE  Live(u)
    <2>1. agenda # <<>> /\ agenda' = Tail(agenda) /\ UNCHANGED <<registry, polling, thread>>
        BY <1>0, ZenonT(60) DEF install_worker_poll_timer, set_interrupt, cancel_all_waiters, join, threadVars
    <2>2. QED
        BY <2>1, LiveTail, ZenonT(60)
<1>1. CASE Continue
    BY <1>0, <1>1, LiveInsert, LiveShutdown, ZenonT(60) DEF Continue
<1>2. CASE Call
    BY <1>2, LiveNewWorker, LiveTerminate, LiveDropHost, OtherSteps, LiveThread, ZenonT(60) DEF Call
<1>3. CASE Handled
    BY <1>3, LiveCallback, ZenonT(60) DEF Handled
<1>4. ASSUME NEW w \in WorkerIds, otter_worker_poll(w) \/ Thread(w) \/ Program(w) PROVE Live(u)
    BY <1>4, LiveCallback, OtherSteps, LiveThread, ZenonT(60)
<1>5. CASE UNCHANGED vars
    BY <1>5, OtherSteps, LiveThread, ZenonT(60)
<1>6. QED
    BY <1>1, <1>2, <1>3, <1>4, <1>5, ZenonT(60) DEF Next

(***************************************************************************)
(* What a step may do to the events of a worker.                           *)
(***************************************************************************)
EvIdle(u) ==
    /\ taken'[u] = taken[u] /\ Undispatched(u)' = Undispatched(u)
    /\ events'[u] = events[u] /\ sent'[u] = sent[u]
EvSent(u) ==
    /\ ~Ended(u) /\ taken'[u] = taken[u] /\ Undispatched(u)' = Undispatched(u)
    /\ \E kinds \in Seq(EventKinds) :
           /\ events'[u] = events[u] \o [i \in DOMAIN kinds |-> [id |-> sent[u] + i, kind |-> kinds[i]]]
           /\ sent'[u] = sent[u] + Len(kinds)

\* The events r, of the batch or of the channel, are taken up to the first one
\* whose handlers run.
EvReach(u, r) ==
    \/ taken'[u] = taken[u] \o r /\ Undispatched(u)' = <<>>
    \/ r # <<>> /\ taken'[u] = taken[u] \o <<Head(r)>> /\ Undispatched(u)' = Tail(r)
EvPolled(u) ==
    /\ Undispatched(u) = <<>> /\ EvReach(u, events[u])
    /\ events'[u] = <<>> /\ sent'[u] = sent[u]
EvHandled(u) ==
    /\ EvReach(u, Undispatched(u))
    /\ events'[u] = events[u] /\ sent'[u] = sent[u]
EvJoined(u) ==
    /\ ~Live(u)' /\ taken'[u] = taken[u] /\ Undispatched(u)' = Undispatched(u)
    /\ events'[u] = <<>> /\ sent'[u] = sent[u]
EvMove(u) == EvIdle(u) \/ EvSent(u) \/ EvPolled(u) \/ EvHandled(u) \/ EvJoined(u)

\* A step that leaves the channel and the callback alone.
LEMMA EvSame ==
    ASSUME UNCHANGED <<taken, polling, batch, events, sent>>, NEW u
    PROVE  EvMove(u)
BY ZenonT(60) DEF EvMove, EvIdle, Undispatched

\* A worker sends.
LEMMA EvSends ==
    ASSUME TypeOK, NEW u \in WorkerIds, NEW w \in WorkerIds, ~Ended(w), NEW kinds \in Seq(EventKinds),
           Send(w, kinds), UNCHANGED <<taken, polling, batch>>
    PROVE  EvMove(u)
<1> DEFINE f == [i \in DOMAIN kinds |-> [id |-> sent[w] + i, kind |-> kinds[i]]]
<1>1. events' = [events EXCEPT ![w] = events[w] \o f] /\ sent' = [sent EXCEPT ![w] = sent[w] + Len(kinds)]
    BY ZenonT(60) DEF Send
<1>2. events \in [WorkerIds -> Seq(Events)] /\ sent \in [WorkerIds -> Nat]
    BY DEF TypeOK, ChannelTypes, CountTypes
<1>3. taken'[u] = taken[u] /\ Undispatched(u)' = Undispatched(u)
    BY ZenonT(60) DEF Undispatched
<1>4. CASE u = w
    <2>1. /\ events'[w] = events[w] \o f /\ sent'[w] = sent[w] + Len(kinds)
        <3> HIDE DEF f
        <3>1. QED
            BY <1>1, <1>2
    <2>2. QED
        BY <1>3, <1>4, <2>1, ZenonT(60) DEF EvMove, EvSent
<1>5. CASE u # w
    <2>1. events'[u] = events[u] /\ sent'[u] = sent[u]
        <3> HIDE DEF f
        <3>1. QED
            BY <1>1, <1>2, <1>5
    <2>2. QED
        BY <1>3, <2>1, ZenonT(60) DEF EvMove, EvIdle
<1>6. QED
    BY <1>4, <1>5

\* The callback of w reaches es.
LEMMA EvReaches ==
    ASSUME TypeOK, NEW u \in WorkerIds, NEW w \in WorkerIds, NEW es \in Seq(Events), Reach(w, es)
    PROVE  /\ u # w => taken'[u] = taken[u] /\ Undispatched(u)' = <<>>
           /\ u = w => EvReach(u, es)
<1>0. taken \in [WorkerIds -> Seq(Events)] /\ u # None
    BY WorkersAssumption DEF TypeOK, ChannelTypes
<1>1. ASSUME NEW x, Take(w, x)
      PROVE  (u # w => taken'[u] = taken[u]) /\ (u = w => taken'[u] = taken[u] \o x)
    BY <1>0, <1>1 DEF Take
<1>2. CASE es = <<>> \/ Head(es).kind = "close"
    <2>1. polling' = None /\ Take(w, es)
        BY <1>2, ZenonT(60) DEF Reach, Return
    <2>2. Undispatched(u)' = <<>>
        BY <1>0, <2>1 DEF Undispatched
    <2>3. QED
        BY <1>1, <2>1, <2>2, ZenonT(60) DEF EvReach
<1>3. CASE ~(es = <<>> \/ Head(es).kind = "close")
    <2>1. polling' = w /\ batch' = es /\ Take(w, <<Head(es)>>) /\ es # <<>>
        BY <1>3, ZenonT(60) DEF Reach
    <2>2. (u # w => Undispatched(u)' = <<>>) /\ (u = w => Undispatched(u)' = Tail(es))
        BY <2>1, ZenonT(60) DEF Undispatched
    <2>3. QED
        BY <1>1, <2>1, <2>2, ZenonT(60) DEF EvReach
<1>4. QED
    BY <1>2, <1>3

\* The poll callback drains the channel.
LEMMA EvPoll ==
    ASSUME TypeOK, NEW u \in WorkerIds, NEW w \in WorkerIds, otter_worker_poll(w)
    PROVE  EvMove(u)
<1>1. /\ polling = None /\ Reach(w, events[w]) /\ events' = [events EXCEPT ![w] = <<>>]
      /\ sent' = sent
    BY ZenonT(60) DEF otter_worker_poll
<1>2. events \in [WorkerIds -> Seq(Events)] /\ u # None
    BY WorkersAssumption DEF TypeOK, ChannelTypes
<1>3. Undispatched(u) = <<>> /\ events[w] \in Seq(Events)
    BY <1>1, <1>2 DEF Undispatched
<1>4. /\ u # w => taken'[u] = taken[u] /\ Undispatched(u)' = <<>>
      /\ u = w => EvReach(u, events[w])
    BY <1>1, <1>3, EvReaches, ZenonT(60)
<1>5. (u = w => events'[u] = <<>>) /\ (u # w => events'[u] = events[u])
    BY <1>1, <1>2
<1>6. CASE u = w
    BY <1>1, <1>3, <1>4, <1>5, <1>6, ZenonT(60) DEF EvMove, EvPolled
<1>7. CASE u # w
    BY <1>1, <1>3, <1>4, <1>5, <1>7, ZenonT(60) DEF EvMove, EvIdle
<1>8. QED
    BY <1>6, <1>7

\* The next event of the batch.
LEMMA EvNext ==
    ASSUME TypeOK, NEW u \in WorkerIds, dispatch_event_object
    PROVE  EvMove(u)
<1>1. polling # None /\ Reach(polling, Tail(batch)) /\ UNCHANGED <<events, sent>>
    BY ZenonT(60) DEF dispatch_event_object, chanVars
<1>2. polling \in WorkerIds /\ batch \in Seq(Events) /\ batch # <<>>
    BY <1>1 DEF TypeOK, ParentTypes
<1>3. Tail(batch) \in Seq(Events)
    BY <1>2, Rest
<1>4. /\ u # polling => taken'[u] = taken[u] /\ Undispatched(u)' = <<>>
      /\ u = polling => EvReach(u, Tail(batch))
    BY <1>1, <1>2, <1>3, EvReaches, ZenonT(60)
<1>5. CASE u = polling
    <2>1. Undispatched(u) = Tail(batch)
        BY <1>5, ZenonT(60) DEF Undispatched
    <2>2. QED
        BY <1>1, <1>4, <1>5, <2>1, ZenonT(60) DEF EvMove, EvHandled
<1>6. CASE u # polling
    <2>1. Undispatched(u) = <<>>
        BY <1>6, ZenonT(60) DEF Undispatched
    <2>2. QED
        BY <1>1, <1>4, <1>6, <2>1, ZenonT(60) DEF EvMove, EvIdle
<1>7. QED
    BY <1>5, <1>6

\* Nothing follows the only element.
LEMMA Single ==
    ASSUME NEW S, NEW s \in Seq(S), s # <<>>, ~(Len(s) > 1)
    PROVE  Tail(s) = <<>>
<1>1. Len(s) \in Nat
    OBVIOUS
<1>2. Tail(s) \in Seq(S) /\ Len(s) >= 1 /\ Len(Tail(s)) = Len(s) - 1
    BY Rest, ZenonT(60)
<1>3. Len(Tail(s)) = 0
    BY <1>1, <1>2
<1>4. QED
    BY <1>2, <1>3

\* A handler throws: a batch with more events is lost.
LEMMA EvThrow ==
    ASSUME TypeOK, NEW u \in WorkerIds, u \notin lost', dispatch_throws
    PROVE  EvMove(u)
<1>1. /\ polling # None /\ polling' = None /\ UNCHANGED <<events, sent, taken>>
      /\ lost' = IF Len(batch) > 1 THEN lost \cup {polling} ELSE lost
    BY ZenonT(60) DEF dispatch_throws, Return, chanVars
<1>2. batch \in Seq(Events) /\ u # None /\ batch # <<>>
    BY <1>1, WorkersAssumption DEF TypeOK, ParentTypes
<1>3. Undispatched(u)' = <<>>
    BY <1>1, <1>2, ZenonT(60) DEF Undispatched
<1>4. Undispatched(u) = <<>>
    <2>1. CASE u = polling
        <3>1. ~(Len(batch) > 1)
            BY <1>1, <2>1
        <3>2. Tail(batch) = <<>>
            BY <1>2, <3>1, Single, ZenonT(60)
        <3>3. QED
            BY <2>1, <3>2, ZenonT(60) DEF Undispatched
    <2>2. CASE u # polling
        BY <2>2, ZenonT(60) DEF Undispatched
    <2>3. QED
        BY <2>1, <2>2
<1>5. QED
    BY <1>1, <1>3, <1>4, ZenonT(60) DEF EvMove, EvIdle

\* __otter_worker_drain, of a worker that no callback polls.
LEMMA EvDrained ==
    ASSUME TypeOK, Own, NEW u \in WorkerIds, u \notin lost', NEW w \in WorkerIds, NEW m \in BOOLEAN,
           worker_drain_call(w, m)
    PROVE  EvMove(u)
<1>1. /\ w \in Raw /\ events' = [events EXCEPT ![w] = <<>>] /\ UNCHANGED <<polling, batch, sent>>
      /\ \/ Take(w, events[w])
         \/ lost' = lost \cup {w} /\ taken' = taken
    BY ZenonT(60) DEF worker_drain_call, parentVars
<1>2. events \in [WorkerIds -> Seq(Events)] /\ taken \in [WorkerIds -> Seq(Events)] /\ polling \notin Raw
    BY DEF TypeOK, ChannelTypes, Own
<1>3. Undispatched(u)' = Undispatched(u)
    BY <1>1, ZenonT(60) DEF Undispatched
<1>4. CASE u = w
    <2>1. Undispatched(u) = <<>>
        BY <1>1, <1>2, <1>4 DEF Undispatched
    <2>2. Take(w, events[w])
        BY <1>1, <1>4
    <2>3. taken'[u] = taken[u] \o events[u] /\ events'[u] = <<>>
        BY <1>1, <1>2, <1>4, <2>2 DEF Take
    <2>4. EvReach(u, events[u])
        BY <1>3, <2>1, <2>3, ZenonT(60) DEF EvReach
    <2>5. QED
        BY <1>1, <2>1, <2>3, <2>4, ZenonT(60) DEF EvMove, EvPolled
<1>5. CASE u # w
    <2>1. taken'[u] = taken[u] /\ events'[u] = events[u]
        BY <1>1, <1>2, <1>5 DEF Take
    <2>2. QED
        BY <1>1, <1>3, <2>1, ZenonT(60) DEF EvMove, EvIdle
<1>6. QED
    BY <1>4, <1>5

\* The record goes with its receiver.
LEMMA EvJoin ==
    ASSUME TypeOK, Own, NEW u \in WorkerIds, NEW w \in WorkerIds, join(w)
    PROVE  EvMove(u)
<1>1. /\ agenda # <<>> /\ Head(agenda) = Step("join", w) /\ agenda' = Tail(agenda) /\ Ended(w)
      /\ events' = [events EXCEPT ![w] = <<>>]
      /\ UNCHANGED <<registry, polling, batch, thread, taken, sent>>
    BY ZenonT(60) DEF join, threadVars, histVars
<1>2. events \in [WorkerIds -> Seq(Events)] /\ agenda \in Seq(Steps)
    BY DEF TypeOK, ChannelTypes, ParentTypes
<1>3. Undispatched(u)' = Undispatched(u)
    BY <1>1, ZenonT(60) DEF Undispatched
<1>4. CASE u = w
    <2>1. 1 \in 1..Len(agenda) /\ agenda[1].op = "join" /\ agenda[1].worker = w
        BY <1>1, <1>2, Rest DEF Step
    <2>2. w \notin registry /\ polling # w
        BY <2>1, OwnSteps, ZenonT(60) DEF StepOk
    <2>3. ~Inserting(w)'
        BY <1>1, TailInserts, ZenonT(60)
    <2>4. ~Live(w)'
        BY <1>1, <2>2, <2>3, ZenonT(60) DEF Live, Ended
    <2>5. events'[w] = <<>>
        BY <1>1, <1>2
    <2>6. QED
        BY <1>1, <1>3, <1>4, <2>4, <2>5, ZenonT(60) DEF EvMove, EvJoined
<1>5. CASE u # w
    <2>1. events'[u] = events[u]
        BY <1>1, <1>2, <1>5
    <2>2. QED
        BY <1>1, <1>3, <2>1, ZenonT(60) DEF EvMove, EvIdle
<1>6. QED
    BY <1>4, <1>5

\* The steps of a worker's thread send, or leave the events alone.
LEMMA EvThread ==
    ASSUME TypeOK, NEW u \in WorkerIds, NEW w \in WorkerIds, Thread(w) \/ Program(w)
    PROVE  EvMove(u)
<1>k. \A k \in EventKinds : <<k>> \in Seq(EventKinds)
    OBVIOUS
<1>l. <<"error", "close">> \in Seq(EventKinds) /\ {"error", "close", "message"} \subseteq EventKinds
    BY DEF EventKinds
<1>1. ASSUME NEW ok \in BOOLEAN, start(w, ok) PROVE EvMove(u)
    BY <1>1, EvSame, ZenonT(60) DEF start, parentVars, chanVars, histVars
<1>2. CASE close(w) \/ wait(w) \/ wait_returns(w) \/ js_returns(w)
    BY <1>2, EvSame, ZenonT(60) DEF close, wait, wait_returns, js_returns, parentVars, chanVars, histVars
<1>3. ASSUME NEW ok \in BOOLEAN, install_worker_scope_natives(w, ok) PROVE EvMove(u)
    <2>1. /\ UNCHANGED <<taken, polling, batch>> /\ thread[w] = "installing"
          /\ UNCHANGED <<events, sent>> \/ Send(w, <<"error">>)
        BY <1>3, ZenonT(60) DEF install_worker_scope_natives, Finish, parentVars
    <2>2. ~Ended(w)
        BY <2>1 DEF Ended
    <2>3. QED
        BY <1>k, <1>l, <2>1, <2>2, EvSame, EvSends, ZenonT(60)
<1>4. CASE post(w)
    <2>1. UNCHANGED <<taken, polling, batch>> /\ thread[w] \in JsStates /\ Send(w, <<"message">>)
        BY <1>4, ZenonT(60) DEF post, parentVars
    <2>2. ~Ended(w)
        BY <2>1 DEF Ended, JsStates
    <2>3. QED
        BY <1>k, <1>l, <2>1, <2>2, EvSends, ZenonT(60)
<1>5. CASE js_throws(w) \/ interrupted(w)
    <2>1. /\ UNCHANGED <<taken, polling, batch>> /\ thread[w] \in JsStates \cup Waits
          /\ Send(w, <<"error">>) \/ Send(w, <<"error", "close">>)
        BY <1>5, ZenonT(60) DEF js_throws, interrupted, Abort, Finish, parentVars
    <2>2. ~Ended(w)
        BY <2>1 DEF Ended, JsStates, Waits
    <2>3. QED
        BY <1>k, <1>l, <2>1, <2>2, EvSends, ZenonT(60)
<1>6. CASE leave_loop(w)
    <2>1. UNCHANGED <<taken, polling, batch>> /\ thread[w] = "receiving" /\ Send(w, <<"close">>)
        BY <1>6, ZenonT(60) DEF leave_loop, Finish, parentVars
    <2>2. ~Ended(w)
        BY <2>1 DEF Ended
    <2>3. QED
        BY <1>k, <1>l, <2>1, <2>2, EvSends, ZenonT(60)
<1>7. ASSUME NEW how, recv_message(w, how) PROVE EvMove(u)
    <2>1. /\ UNCHANGED <<taken, polling, batch>> /\ thread[w] = "receiving"
          /\ UNCHANGED <<events, sent>> \/ (how \in EventKinds /\ Send(w, <<how>>))
        BY <1>7, ZenonT(60) DEF recv_message, parentVars
    <2>2. ~Ended(w)
        BY <2>1 DEF Ended
    <2>3. QED
        BY <1>k, <2>1, <2>2, EvSame, EvSends, ZenonT(60)
<1>8. QED
    BY <1>1, <1>2, <1>3, <1>4, <1>5, <1>6, <1>7, ZenonT(60) DEF Thread, Program

\* Every step is a move of the events of each worker of which none is lost.
LEMMA EvMoves ==
    ASSUME TypeOK, Own, [Next]_vars, NEW u \in WorkerIds, u \notin lost'
    PROVE  EvMove(u)
<1>1. ASSUME NEW w \in WorkerIds,
             \/ insert(w) \/ install_worker_poll_timer(w) \/ send_shutdown(w) \/ set_interrupt(w)
             \/ cancel_all_waiters(w)
      PROVE  EvMove(u)
    BY <1>1, EvSame, ZenonT(60) DEF insert, install_worker_poll_timer, send_shutdown, set_interrupt,
       cancel_all_waiters, chanVars, histVars
<1>2. ASSUME NEW w \in WorkerIds,
             \/ worker_constructor_call(w) \/ worker_spawn_call(w)
             \/ terminate(w) \/ worker_terminate_call(w)
      PROVE  EvMove(u)
    BY <1>2, EvSame, ZenonT(60) DEF worker_constructor_call, worker_spawn_call, terminate,
       worker_terminate_call, chanVars, histVars
<1>3. ASSUME NEW w \in WorkerIds, NEW b, NEW c, worker_post_message_call(w, b, c) PROVE EvMove(u)
    BY <1>3, EvSame, ZenonT(60) DEF worker_post_message_call, parentVars
<1>4. CASE drop_host
    BY <1>4, EvSame, ZenonT(60) DEF drop_host, chanVars, histVars
<1>5. CASE UNCHANGED vars
    BY <1>5, EvSame, ZenonT(60) DEF vars, parentVars, chanVars, histVars
<1>6. CASE Continue
    BY <1>1, <1>6, EvJoin, ZenonT(60) DEF Continue
<1>7. CASE Call
    BY <1>2, <1>3, <1>4, <1>7, EvDrained, ZenonT(60) DEF Call
<1>8. CASE Handled
    BY <1>8, EvNext, EvThrow, ZenonT(60) DEF Handled
<1>9. ASSUME NEW w \in WorkerIds, otter_worker_poll(w) \/ Thread(w) \/ Program(w) PROVE EvMove(u)
    BY <1>9, EvPoll, EvThread, ZenonT(60)
<1>10. QED
    BY <1>5, <1>6, <1>7, <1>8, <1>9, ZenonT(60) DEF Next

\* Once a batch of a worker was abandoned it stays so.
LEMMA LostGrows == ASSUME [Next]_vars PROVE lost \subseteq lost'
<1>1. ASSUME NEW w \in WorkerIds, NEW m, worker_drain_call(w, m) PROVE lost \subseteq lost'
    BY <1>1 DEF worker_drain_call
<1>2. CASE Handled
    BY <1>2 DEF Handled, dispatch_event_object, dispatch_throws
<1>3. lost' = lost \/ Handled \/ \E w \in WorkerIds : \E m \in BOOLEAN : worker_drain_call(w, m)
    BY ZenonT(60) DEF Next, Continue, Call, Thread, Program, vars, histVars, insert,
       install_worker_poll_timer, send_shutdown, set_interrupt, cancel_all_waiters, join,
       worker_constructor_call, worker_spawn_call, terminate, worker_terminate_call,
       worker_post_message_call, drop_host, otter_worker_poll, start, install_worker_scope_natives,
       recv_message, leave_loop, interrupted, js_throws, Abort, post, close, wait, wait_returns,
       js_returns
<1>4. QED
    BY <1>1, <1>2, <1>3

\* Every step keeps the events in order.
LEMMA EvInductive == TypeOK /\ TypeOK' /\ Own /\ EvInv /\ [Next]_vars => EvInv'
<1> SUFFICES ASSUME TypeOK, Own, EvInv, [Next]_vars, NEW u \in WorkerIds, u \notin lost'
             PROVE  EvOk(taken'[u], Undispatched(u)', events'[u], sent'[u], Live(u)')
    BY ZenonT(60) DEF EvInv
<1>1. EvOk(taken[u], Undispatched(u), events[u], sent[u], Live(u))
    BY LostGrows DEF EvInv
<1>2. /\ taken[u] \in Seq(Events) /\ events[u] \in Seq(Events) /\ sent[u] \in Nat
      /\ Undispatched(u) \in Seq(Events)
    <2>1. taken[u] \in Seq(Events) /\ events[u] \in Seq(Events) /\ sent[u] \in Nat
        BY DEF TypeOK, ChannelTypes, CountTypes
    <2>2. CASE polling = u
        <3>1. batch \in Seq(Events) /\ batch # <<>>
            BY <2>2, WorkersAssumption DEF TypeOK, ParentTypes
        <3>2. Tail(batch) \in Seq(Events)
            BY <3>1, Rest
        <3>3. QED
            BY <2>1, <2>2, <3>2, ZenonT(60) DEF Undispatched
    <2>3. CASE polling # u
        <3>1. <<>> \in Seq(Events)
            OBVIOUS
        <3>2. QED
            BY <2>1, <2>3, <3>1, ZenonT(60) DEF Undispatched
    <2>4. QED
        BY <2>2, <2>3
<1>3. Live(u)' => Live(u)
    BY LiveStep, ZenonT(60)
<1>4. ASSUME NEW t, NEW r, NEW e, NEW n, EvOk(t, r, e, n, Live(u)) PROVE EvOk(t, r, e, n, Live(u)')
    BY <1>3, <1>4, ZenonT(60) DEF EvOk
<1>5. CASE EvIdle(u)
    <2>1. EvOk(taken'[u], Undispatched(u)', events'[u], sent'[u], Live(u))
        BY <1>1, <1>5, ZenonT(60) DEF EvIdle
    <2>2. QED
        BY <1>4, <2>1, ZenonT(60)
<1>6. CASE EvSent(u)
    <2>1. EvOk(taken[u], Undispatched(u), events[u], sent[u], TRUE)
        BY <1>1, <1>6, ZenonT(60) DEF EvSent, Live, EvOk
    <2>2. PICK kinds \in Seq(EventKinds) :
              /\ events'[u] = events[u] \o [i \in DOMAIN kinds |-> [id |-> sent[u] + i, kind |-> kinds[i]]]
              /\ sent'[u] = sent[u] + Len(kinds)
        BY <1>6, ZenonT(60) DEF EvSent
    <2>3. EvOk(taken[u], Undispatched(u), events'[u], sent'[u], Live(u)')
        BY <1>2, <2>1, <2>2, EvSend, ZenonT(60)
    <2>4. QED
        BY <1>6, <2>3, ZenonT(60) DEF EvSent
<1>7. ASSUME NEW r \in Seq(Events), NEW e \in Seq(Events),
             EvOk(taken[u], r, e, sent[u], Live(u)), EvReach(u, r), events'[u] = e, sent'[u] = sent[u]
      PROVE  EvOk(taken'[u], Undispatched(u)', events'[u], sent'[u], Live(u)')
    <2>1. CASE taken'[u] = taken[u] \o r /\ Undispatched(u)' = <<>>
        <3>1. EvOk(taken[u] \o r, <<>>, e, sent[u], Live(u))
            BY <1>2, <1>7, EvTakeAll, ZenonT(60)
        <3>2. QED
            BY <1>4, <1>7, <2>1, <3>1, ZenonT(60)
    <2>2. CASE r # <<>> /\ taken'[u] = taken[u] \o <<Head(r)>> /\ Undispatched(u)' = Tail(r)
        <3>1. EvOk(taken[u] \o <<Head(r)>>, Tail(r), e, sent[u], Live(u))
            BY <1>2, <1>7, <2>2, EvTakeOne, ZenonT(60)
        <3>2. QED
            BY <1>4, <1>7, <2>2, <3>1, ZenonT(60)
    <2>3. QED
        BY <1>7, <2>1, <2>2, ZenonT(60) DEF EvReach
<1>8. CASE EvPolled(u)
    <2>1. EvOk(taken[u], <<>>, events[u], sent[u], Live(u))
        BY <1>1, <1>8, ZenonT(60) DEF EvPolled
    <2>2. EvOk(taken[u], events[u], <<>>, sent[u], Live(u)) /\ <<>> \in Seq(Events)
        <3>1. <<>> \in Seq(Events)
            OBVIOUS
        <3>2. QED
            BY <1>2, <2>1, <3>1, EvDrain, ZenonT(60)
    <2>3. QED
        BY <1>2, <1>7, <1>8, <2>2, ZenonT(60) DEF EvPolled
<1>9. CASE EvHandled(u)
    BY <1>1, <1>2, <1>7, <1>9, ZenonT(60) DEF EvHandled
<1>10. CASE EvJoined(u)
    <2>1. EvOk(taken[u], Undispatched(u), <<>>, sent[u], FALSE)
        BY <1>1, <1>2, EvLose, ZenonT(60)
    <2>2. QED
        BY <1>10, <2>1, ZenonT(60) DEF EvJoined, EvOk
<1>11. QED
    BY <1>5, <1>6, <1>8, <1>9, <1>10, EvMoves, ZenonT(60) DEF EvMove

\* EvInv is what EventsInOrder says, worker by worker.
LEMMA EvOrder == TypeOK /\ EvInv => EventsInOrder
<1> SUFFICES ASSUME TypeOK, EvInv, NEW w \in WorkerIds \ lost
             PROVE  LET all == Ids(taken[w] \o Undispatched(w) \o events[w])
                    IN  /\ Beginning(all, sent[w])
                        /\ w \in registry \cup {polling} => Len(all) = sent[w]
    BY ZenonT(60) DEF EventsInOrder, Undispatched
<1> DEFINE t == taken[w]
           r == Undispatched(w)
           e == events[w]
           n == sent[w]
<1>1. t \in Seq(Events) /\ e \in Seq(Events) /\ n \in Nat
    BY DEF TypeOK, ChannelTypes, CountTypes
<1>2. r \in Seq(Events)
    <2>1. CASE polling = w
        <3>1. batch \in Seq(Events) /\ batch # <<>>
            BY <2>1, WorkersAssumption DEF TypeOK, ParentTypes
        <3>2. Tail(batch) \in Seq(Events)
            BY <3>1, Rest
        <3>3. QED
            BY <2>1, <3>2, ZenonT(60) DEF Undispatched
    <2>2. CASE polling # w
        <3>1. <<>> \in Seq(Events)
            OBVIOUS
        <3>2. QED
            BY <2>2, <3>1, ZenonT(60) DEF Undispatched
    <2>3. QED
        BY <2>1, <2>2
<1>3. EvOk(t, r, e, n, Live(w))
    BY ZenonT(60) DEF EvInv
<1> HIDE DEF t, r, e, n
<1>4. /\ Runs(t, 0) /\ Runs(r, Len(t)) /\ Runs(e, Len(t) + Len(r)) /\ Len(t) + Len(r) + Len(e) <= n
      /\ Live(w) => Len(t) + Len(r) + Len(e) = n
    BY <1>3, ZenonT(60) DEF EvOk
<1>5. Len(t) \in Nat /\ Len(r) \in Nat /\ Len(e) \in Nat /\ 0 \in Nat /\ 0 + Len(t) = Len(t)
    BY <1>1, <1>2
<1> DEFINE x == t \o r
<1>6. x \in Seq(Events) /\ Len(x) = Len(t) + Len(r) /\ Runs(x, 0)
    BY <1>1, <1>2, <1>4, <1>5, RunsCat, ZenonT(60)
<1> HIDE DEF x
<1>7. 0 + Len(x) = Len(t) + Len(r)
    BY <1>5, <1>6
<1> DEFINE y == x \o e
<1>8. y \in Seq(Events) /\ Len(y) = Len(x) + Len(e) /\ Runs(y, 0)
    BY <1>1, <1>4, <1>5, <1>6, <1>7, RunsCat, ZenonT(60)
<1> HIDE DEF y
<1>9. Len(y) <= n /\ (Live(w) => Len(y) = n) /\ Len(y) \in Nat
    BY <1>1, <1>4, <1>5, <1>6, <1>8
<1> DEFINE all == Ids(y)
<1>10. DOMAIN y = 1..Len(y) /\ \A i \in 1..Len(y) : y[i].id = i
    <2>1. \A i \in 1..Len(y) : y[i].id = 0 + i /\ 0 + i = i
        BY <1>8, <1>9 DEF Runs
    <2>2. QED
        BY <1>8, <2>1
<1>11. all \in [1..Len(y) -> Nat] /\ \A i \in 1..Len(y) : all[i] = i
    BY <1>9, <1>10 DEF Ids
<1> HIDE DEF all
<1>12. all \in Seq(Nat) /\ Len(all) = Len(y)
    BY <1>9, <1>11
<1>13. Counts(all) /\ Len(all) <= n
    BY <1>9, <1>11, <1>12, ZenonT(60) DEF Counts
<1>14. Beginning(all, n)
    BY <1>1, <1>12, <1>13, Begins, ZenonT(60)
<1>15. w \in registry \cup {polling} => Live(w)
    BY DEF Live
<1>16. w \in registry \cup {polling} => Len(all) = n
    BY <1>9, <1>12, <1>15, ZenonT(60)
<1>17. QED
    BY <1>14, <1>16, ZenonT(60) DEF all, y, x, t, r, e, n

\* No event was sent at first.
LEMMA InitEv == Init => EvInv
<1> SUFFICES ASSUME Init, NEW w \in WorkerIds
             PROVE  EvOk(taken[w], Undispatched(w), events[w], sent[w], Live(w))
    BY ZenonT(60) DEF EvInv
<1>1. taken[w] = <<>> /\ events[w] = <<>> /\ sent[w] = 0 /\ polling # w
    BY WorkersAssumption DEF Init
<1>2. Undispatched(w) = <<>>
    BY <1>1, ZenonT(60) DEF Undispatched
<1>3. Len(<<>>) + Len(<<>>) + Len(<<>>) = 0 /\ 0 <= 0
    BY RunsNone
<1>4. QED
    BY <1>1, <1>2, <1>3, RunsNone DEF EvOk

\* The parent takes every event a worker sent once and in the order it was sent,
\* through polls, nested natives, terminate inside a handler and the end of the
\* thread, and misses none while the record exists, unless a handler that threw
\* or a failed drain abandoned a batch, for any number of workers and messages.
THEOREM EventsOrdered == Spec => []EventsInOrder
<1>1. Init => TypeOK /\ Own /\ EvInv
    BY InitTypes, InitOwned, InitEv
<1>2. TypeOK /\ Own /\ EvInv /\ [Next]_vars => (TypeOK /\ Own /\ EvInv)'
    BY TypeInductive, OwnInductive, EvInductive
<1>3. TypeOK /\ Own /\ EvInv => EventsInOrder
    BY EvOrder
<1>4. QED
    BY <1>1, <1>2, <1>3, PTL DEF Spec
=============================================================================
