--------------------------- MODULE WorkersTypes -----------------------------
(***************************************************************************)
(* Workers for any number of workers, buffers and messages: the types, and *)
(* Own, which says what the rest of a native may still do to a worker.     *)
(***************************************************************************)
EXTENDS Workers, TLAPS

\* Every leaf that names no prover goes to the SMT solver.
USE SMTT(60)

(***************************************************************************)
(* Sequences.                                                              *)
(***************************************************************************)
\* What \o returns.
LEMMA Cat ==
    ASSUME NEW S, NEW s \in Seq(S), NEW t \in Seq(S)
    PROVE  /\ s \o t \in Seq(S)
           /\ Len(s \o t) = Len(s) + Len(t)
           /\ \A i \in 1..Len(s) : (s \o t)[i] = s[i]
           /\ \A i \in 1..Len(t) : (s \o t)[Len(s) + i] = t[i]
OBVIOUS

\* What Append, the send of a channel, returns.
LEMMA App ==
    ASSUME NEW S, NEW s \in Seq(S), NEW e \in S
    PROVE  /\ Append(s, e) \in Seq(S)
           /\ Len(Append(s, e)) = Len(s) + 1
           /\ \A i \in 1..Len(s) : Append(s, e)[i] = s[i]
           /\ Append(s, e)[Len(s) + 1] = e
OBVIOUS

\* What is left of a channel after a receive.
LEMMA Rest ==
    ASSUME NEW S, NEW s \in Seq(S), s # <<>>
    PROVE  /\ Head(s) \in S /\ Head(s) = s[1]
           /\ Tail(s) \in Seq(S)
           /\ Len(s) >= 1 /\ Len(Tail(s)) = Len(s) - 1
           /\ \A i \in 1..(Len(s) - 1) : Tail(s)[i] = s[i + 1]
OBVIOUS

\* The events of Send are numbered on from those sent before.
LEMMA Numbered ==
    ASSUME NEW n \in Nat, NEW kinds \in Seq(EventKinds)
    PROVE  LET es == [i \in DOMAIN kinds |-> [id |-> n + i, kind |-> kinds[i]]]
           IN  /\ es \in Seq(Events)
               /\ Len(es) = Len(kinds)
               /\ \A i \in 1..Len(kinds) : es[i].id = n + i
<1> DEFINE es == [i \in DOMAIN kinds |-> [id |-> n + i, kind |-> kinds[i]]]
<1>1. DOMAIN kinds = 1..Len(kinds) /\ Len(kinds) \in Nat
    OBVIOUS
<1>2. \A i \in 1..Len(kinds) : es[i] = [id |-> n + i, kind |-> kinds[i]] /\ es[i] \in Events
    BY <1>1 DEF Events
<1>3. es \in [1..Len(kinds) -> Events]
    BY <1>1, <1>2
<1>4. es \in Seq(Events) /\ Len(es) = Len(kinds)
    BY <1>1, <1>3
<1>5. QED
    BY <1>2, <1>4

(***************************************************************************)
(* Types.                                                                  *)
(***************************************************************************)
\* A step that leaves a group of variables alone leaves their types alone.
LEMMA SameParent == ParentTypes /\ UNCHANGED parentVars => ParentTypes'
BY DEF ParentTypes, parentVars

\* The same for the flags of a record.
LEMMA SameRecord == RecordTypes /\ UNCHANGED recordVars => RecordTypes'
BY DEF RecordTypes, recordVars

\* The same for the threads.
LEMMA SameThread == ThreadTypes /\ UNCHANGED threadVars => ThreadTypes'
BY DEF ThreadTypes, threadVars

\* The same for the channels and what went through them.
LEMMA SameChannels == ChannelTypes /\ UNCHANGED <<chanVars, handled, taken>> => ChannelTypes'
BY DEF ChannelTypes, chanVars

\* The same for the counts.
LEMMA SameCounts == CountTypes /\ UNCHANGED <<posted, posts, sent, lost>> => CountTypes'
BY DEF CountTypes

\* Send appends numbered events to one channel and nothing to the others.
LEMMA SendTypes ==
    ASSUME ChannelTypes, CountTypes, NEW w \in WorkerIds, NEW kinds \in Seq(EventKinds), Send(w, kinds)
    PROVE  events' \in [WorkerIds -> Seq(Events)] /\ sent' \in [WorkerIds -> Nat]
<1> DEFINE es == [i \in DOMAIN kinds |-> [id |-> sent[w] + i, kind |-> kinds[i]]]
<1>1. sent \in [WorkerIds -> Nat] /\ sent[w] \in Nat
    BY DEF CountTypes
<1>2. es \in Seq(Events) /\ Len(kinds) \in Nat
    BY <1>1, Numbered
<1>3. events \in [WorkerIds -> Seq(Events)]
    BY DEF ChannelTypes
<1>4. events[w] \o es \in Seq(Events)
    BY <1>2, <1>3, Cat
<1>5. events' = [events EXCEPT ![w] = events[w] \o es] /\ sent' = [sent EXCEPT ![w] = @ + Len(kinds)]
    BY DEF Send
<1> HIDE DEF es
<1>6. QED
    BY <1>1, <1>2, <1>3, <1>4, <1>5

\* Take keeps the type of what the parent has taken.
LEMMA TakeTypes ==
    ASSUME ChannelTypes, NEW w \in WorkerIds, NEW es \in Seq(Events), Take(w, es)
    PROVE  taken' \in [WorkerIds -> Seq(Events)]
<1>1. taken \in [WorkerIds -> Seq(Events)]
    BY DEF ChannelTypes
<1>2. taken[w] \o es \in Seq(Events)
    BY <1>1, Cat
<1>3. QED
    BY <1>1, <1>2 DEF Take

\* The parent's steps are of the right form.
LEMMA StepTypes == \A op \in Ops, w \in WorkerIds : Step(op, w) \in Steps
BY DEF Step, Steps

\* A poll callback that returns leaves at most a join to do.
LEMMA ReturnTypes ==
    ASSUME NEW w \in WorkerIds, Return(w)
    PROVE  batch' = <<>> /\ polling' = None /\ agenda' \in Seq(Steps)
<1>1. Step("join", w) \in Steps
    BY StepTypes DEF Ops
<1>2. QED
    BY <1>1 DEF Return

\* A poll callback that goes on or returns leaves the parent well typed.
LEMMA ReachTypes ==
    ASSUME ParentTypes, ChannelTypes, NEW w \in WorkerIds, NEW es \in Seq(Events), Reach(w, es)
    PROVE  /\ taken' \in [WorkerIds -> Seq(Events)]
           /\ batch' \in Seq(Events) /\ agenda' \in Seq(Steps)
           /\ polling' \in WorkerIds \cup {None}
           /\ polling' = None <=> batch' = <<>>
<1>1. CASE es = <<>> \/ Head(es).kind = "close"
    <2>1. Return(w) /\ Take(w, es)
        BY <1>1 DEF Reach
    <2>2. QED
        <3>1. taken' \in [WorkerIds -> Seq(Events)]
            BY <2>1, TakeTypes, ZenonT(60)
        <3>2. batch' = <<>> /\ polling' = None /\ agenda' \in Seq(Steps)
            BY <2>1, ReturnTypes, ZenonT(60)
        <3>3. QED
            BY <3>1, <3>2
<1>2. CASE ~(es = <<>> \/ Head(es).kind = "close")
    <2>1. polling' = w /\ batch' = es /\ Take(w, <<Head(es)>>) /\ agenda' = agenda
        BY <1>2 DEF Reach
    <2>2. <<Head(es)>> \in Seq(Events)
        BY <1>2, Rest
    <2>3. taken' \in [WorkerIds -> Seq(Events)]
        BY <2>1, <2>2, TakeTypes, ZenonT(60)
    <2>4. agenda \in Seq(Steps)
        BY DEF ParentTypes
    <2>5. QED
        BY <1>2, <2>1, <2>3, <2>4, WorkersAssumption
<1>3. QED
    BY <1>1, <1>2

\* drop_host visits every registered worker once.
LEMMA HostOrder ==
    ASSUME ParentTypes, NEW n \in 0..Cardinality(WorkerIds), NEW ws \in Bijection(1..n, registry)
    PROVE  /\ n \in Nat /\ DOMAIN ws = 1..n
           /\ \A i \in 1..n : ws[i] \in registry
           /\ \A i, j \in 1..n : ws[i] = ws[j] => i = j
           /\ \A w \in registry : \E i \in 1..n : ws[i] = w
<1>1. n \in Nat
    OBVIOUS
<1>2. ws \in [1..n -> registry] /\ \A i, j \in 1..n : ws[i] = ws[j] => i = j
    BY DEF Bijection, Injection, IsInjective
<1>3. \A w \in registry : \E i \in 1..n : ws[i] = w
    BY DEF Bijection, Surjection
<1>4. QED
    BY <1>1, <1>2, <1>3

\* What it does to each of them is a sequence of steps.
LEMMA HostSteps ==
    ASSUME ParentTypes, NEW n \in 0..Cardinality(WorkerIds), NEW ws \in Bijection(1..n, registry),
           NEW o \in Ops, NEW s, s = [i \in DOMAIN ws |-> Step(o, ws[i])]
    PROVE  s \in Seq(Steps) /\ Len(s) = n /\ \A i \in 1..n : s[i] = Step(o, ws[i])
<1>1. n \in Nat /\ DOMAIN ws = 1..n /\ (\A i \in 1..n : ws[i] \in registry) /\ registry \subseteq WorkerIds
    BY HostOrder, ZenonT(60) DEF ParentTypes
<1>2. \A i \in 1..n : Step(o, ws[i]) \in Steps
    BY <1>1, StepTypes
<1>3. s \in [1..n -> Steps] /\ \A i \in 1..n : s[i] = Step(o, ws[i])
    BY <1>1, <1>2
<1>4. QED
    BY <1>1, <1>3

\* new Worker and spawn.
LEMMA TypesNewWorker ==
    ASSUME ParentTypes, RecordTypes, ThreadTypes, ChannelTypes, CountTypes,
           NEW w \in WorkerIds, worker_constructor_call(w) \/ worker_spawn_call(w)
    PROVE  TypeOK'
<1>1. ParentTypes'
    <2>1. Step("insert", w) \in Steps /\ Step("setInterval", w) \in Steps
        BY StepTypes DEF Ops
    <2>2. <<Step("insert", w), Step("setInterval", w)>> \in Seq(Steps) /\ <<Step("insert", w)>> \in Seq(Steps)
        BY <2>1
    <2>3. agenda' = <<Step("insert", w), Step("setInterval", w)>> \/ agenda' = <<Step("insert", w)>>
        BY ZenonT(60) DEF worker_constructor_call, worker_spawn_call
    <2>4. agenda' \in Seq(Steps)
        BY <2>2, <2>3, ZenonT(60)
    <2>5. QED
        BY <2>4 DEF worker_constructor_call, worker_spawn_call, ParentTypes
<1>2. RecordTypes'
    BY SameRecord DEF worker_constructor_call, worker_spawn_call
<1>3. ThreadTypes'
    BY DEF worker_constructor_call, worker_spawn_call, ThreadTypes, ThreadStates
<1>4. ChannelTypes'
    BY SameChannels DEF worker_constructor_call, worker_spawn_call, chanVars, histVars
<1>5. CountTypes'
    BY SameCounts DEF worker_constructor_call, worker_spawn_call, histVars
<1>6. QED
    BY <1>1, <1>2, <1>3, <1>4, <1>5 DEF TypeOK

\* The record is registered and its interval set.
LEMMA TypesInsert ==
    ASSUME ParentTypes, RecordTypes, ThreadTypes, ChannelTypes, CountTypes,
           NEW w \in WorkerIds, insert(w) \/ install_worker_poll_timer(w)
    PROVE  TypeOK'
<1>1. ParentTypes'
    <2>1. agenda \in Seq(Steps)
        BY DEF ParentTypes
    <2>2. agenda # <<>> /\ (agenda' = Tail(agenda) \/ agenda' = <<>>)
        BY DEF insert, install_worker_poll_timer
    <2>3. Tail(agenda) \in Seq(Steps) /\ <<>> \in Seq(Steps)
        BY <2>1, <2>2, Rest
    <2>4. agenda' \in Seq(Steps)
        BY <2>2, <2>3, ZenonT(60)
    <2>5. QED
        BY <2>4 DEF insert, install_worker_poll_timer, ParentTypes
<1>2. RecordTypes'
    BY SameRecord DEF insert, install_worker_poll_timer
<1>3. ThreadTypes'
    BY SameThread DEF insert, install_worker_poll_timer
<1>4. ChannelTypes'
    BY SameChannels DEF insert, install_worker_poll_timer, chanVars, histVars
<1>5. CountTypes'
    BY SameCounts DEF insert, install_worker_poll_timer, histVars
<1>6. QED
    BY <1>1, <1>2, <1>3, <1>4, <1>5 DEF TypeOK

\* postMessage to a worker.
LEMMA TypesPostMessage ==
    ASSUME ParentTypes, RecordTypes, ThreadTypes, ChannelTypes, CountTypes,
           NEW w \in WorkerIds, NEW b \in Buffers \cup {None}, NEW c \in BOOLEAN,
           worker_post_message_call(w, b, c)
    PROVE  TypeOK'
<1>1. ParentTypes'
    BY SameParent DEF worker_post_message_call
<1>2. RecordTypes'
    BY SameRecord DEF worker_post_message_call
<1>3. ThreadTypes'
    BY SameThread DEF worker_post_message_call
<1>4. ChannelTypes'
    <2>1. home' \in [Buffers -> WorkerIds \cup {None}]
        BY DEF worker_post_message_call, Detached, ChannelTypes
    <2>2. cmds \in [WorkerIds -> Seq(Commands)]
        BY DEF ChannelTypes
    <2>3. [msg |-> posted[w] + 1, buf |-> b] \in Commands
        BY DEF Commands, CountTypes
    <2>4. Append(cmds[w], [msg |-> posted[w] + 1, buf |-> b]) \in Seq(Commands)
        BY <2>2, <2>3, App
    <2>5. cmds' = cmds \/ cmds' = [cmds EXCEPT ![w] = Append(cmds[w], [msg |-> posted[w] + 1, buf |-> b])]
        BY DEF worker_post_message_call
    <2>6. cmds' \in [WorkerIds -> Seq(Commands)]
        BY <2>2, <2>4, <2>5
    <2>7. QED
        BY <2>1, <2>6 DEF worker_post_message_call, ChannelTypes
<1>5. CountTypes'
    <2>1. posted' = posted \/ posted' = [posted EXCEPT ![w] = posted[w] + 1]
        BY DEF worker_post_message_call
    <2>2. posted[w] < MaxSends[w] /\ posts' = posts /\ sent' = sent /\ lost' = lost
        BY ZenonT(60) DEF worker_post_message_call
    <2>3. QED
        BY <2>1, <2>2, WorkersAssumption DEF CountTypes
<1>6. QED
    BY <1>1, <1>2, <1>3, <1>4, <1>5 DEF TypeOK

\* terminate of either kind of worker.
LEMMA TypesTerminate ==
    ASSUME ParentTypes, RecordTypes, ThreadTypes, ChannelTypes, CountTypes,
           NEW w \in WorkerIds, terminate(w) \/ worker_terminate_call(w)
    PROVE  TypeOK'
<1>1. ParentTypes'
    <2>1. Step("terminate", w) \in Steps /\ Step("join", w) \in Steps
        BY StepTypes DEF Ops
    <2>2. <<Step("terminate", w)>> \in Seq(Steps) /\ Drop(w) \in Seq(Steps)
        BY <2>1 DEF Drop
    <2>3. agenda' = <<Step("terminate", w)>> \o Drop(w)
        BY ZenonT(60) DEF terminate, worker_terminate_call
    <2>4. agenda' \in Seq(Steps)
        BY <2>2, <2>3, Cat
    <2>5. QED
        BY <2>4 DEF terminate, worker_terminate_call, ParentTypes
<1>2. RecordTypes'
    BY SameRecord DEF terminate, worker_terminate_call
<1>3. ThreadTypes'
    BY SameThread DEF terminate, worker_terminate_call
<1>4. ChannelTypes'
    BY SameChannels DEF terminate, worker_terminate_call, chanVars, histVars
<1>5. CountTypes'
    BY SameCounts DEF terminate, worker_terminate_call, histVars
<1>6. QED
    BY <1>1, <1>2, <1>3, <1>4, <1>5 DEF TypeOK

\* The drop of the host.
LEMMA TypesDropHost ==
    ASSUME ParentTypes, RecordTypes, ThreadTypes, ChannelTypes, CountTypes, drop_host
    PROVE  TypeOK'
<1>1. ParentTypes'
    <2>1. PICK n \in 0..Cardinality(WorkerIds) : \E ws \in Bijection(1..n, registry) :
              agenda' = [i \in DOMAIN ws |-> Step("terminate", ws[i])]
                        \o [i \in DOMAIN ws |-> Step("join", ws[i])]
        BY ZenonT(60) DEF drop_host, Orders
    <2>2. agenda' \in Seq(Steps)
        <3>1. PICK ws \in Bijection(1..n, registry) :
                  agenda' = [i \in DOMAIN ws |-> Step("terminate", ws[i])]
                            \o [i \in DOMAIN ws |-> Step("join", ws[i])]
            BY <2>1, ZenonT(60)
        <3> DEFINE T == [i \in DOMAIN ws |-> Step("terminate", ws[i])]
                   J == [i \in DOMAIN ws |-> Step("join", ws[i])]
        <3>2. {"terminate", "join"} \subseteq Ops
            BY DEF Ops
        <3>t. /\ T = [i \in DOMAIN ws |-> Step("terminate", ws[i])]
              /\ J = [i \in DOMAIN ws |-> Step("join", ws[i])]
            OBVIOUS
        <3> HIDE DEF T, J
        <3>3. T \in Seq(Steps) /\ J \in Seq(Steps)
            BY <3>t, <3>2, HostSteps, ZenonT(60)
        <3>4. T \o J \in Seq(Steps)
            BY <3>3
        <3>5. QED
            BY <3>1, <3>4 DEF T, J
    <2>3. registry' = {} /\ poll' = {} /\ host' = FALSE /\ polling' = polling /\ batch' = batch
        BY ZenonT(60) DEF drop_host
    <2>4. QED
        BY <2>2, <2>3, ZenonT(60) DEF ParentTypes
<1>2. RecordTypes'
    BY SameRecord DEF drop_host
<1>3. ThreadTypes'
    BY SameThread DEF drop_host
<1>4. ChannelTypes'
    BY SameChannels DEF drop_host, chanVars, histVars
<1>5. CountTypes'
    BY SameCounts DEF drop_host, histVars
<1>6. QED
    BY <1>1, <1>2, <1>3, <1>4, <1>5 DEF TypeOK

\* The Shutdown command of terminate.
LEMMA TypesShutdown ==
    ASSUME ParentTypes, RecordTypes, ThreadTypes, ChannelTypes, CountTypes,
           NEW w \in WorkerIds, send_shutdown(w)
    PROVE  TypeOK'
<1>1. ParentTypes'
    <2>1. Step("interrupt", w) \in Steps /\ Step("cancel", w) \in Steps /\ agenda \in Seq(Steps)
        BY StepTypes DEF Ops, ParentTypes
    <2>2. Terminate(w) \in Seq(Steps) /\ Tail(agenda) \in Seq(Steps)
        BY <2>1, Rest DEF send_shutdown, Terminate
    <2>3. agenda' \in Seq(Steps)
        BY <2>2, Cat DEF send_shutdown
    <2>4. QED
        BY <2>3 DEF send_shutdown, ParentTypes
<1>2. RecordTypes'
    BY DEF send_shutdown, RecordTypes
<1>3. ThreadTypes'
    BY SameThread DEF send_shutdown
<1>4. ChannelTypes'
    <2>0. [msg |-> 0, buf |-> None] \in Commands
        BY DEF Commands
    <2>1. cmds \in [WorkerIds -> Seq(Commands)]
        BY DEF ChannelTypes
    <2>2. Append(cmds[w], [msg |-> 0, buf |-> None]) \in Seq(Commands)
        BY <2>0, <2>1, App
    <2>3. cmds' \in [WorkerIds -> Seq(Commands)]
        BY <2>1, <2>2 DEF send_shutdown
    <2>4. QED
        BY <2>3 DEF send_shutdown, ChannelTypes, histVars
<1>5. CountTypes'
    BY SameCounts DEF send_shutdown, histVars
<1>6. QED
    BY <1>1, <1>2, <1>3, <1>4, <1>5 DEF TypeOK

\* The interrupt flag and the cancelled waits of terminate.
LEMMA TypesInterrupt ==
    ASSUME ParentTypes, RecordTypes, ThreadTypes, ChannelTypes, CountTypes,
           NEW w \in WorkerIds, set_interrupt(w) \/ cancel_all_waiters(w)
    PROVE  TypeOK'
<1>1. ParentTypes'
    <2>1. agenda \in Seq(Steps)
        BY DEF ParentTypes
    <2>2. agenda # <<>> /\ (agenda' = Tail(agenda) \/ agenda' = <<>>)
        BY DEF set_interrupt, cancel_all_waiters
    <2>3. Tail(agenda) \in Seq(Steps) /\ <<>> \in Seq(Steps)
        BY <2>1, <2>2, Rest
    <2>4. agenda' \in Seq(Steps)
        BY <2>2, <2>3, ZenonT(60)
    <2>5. QED
        BY <2>4 DEF set_interrupt, cancel_all_waiters, ParentTypes
<1>2. RecordTypes'
    <2>1. CASE set_interrupt(w)
        BY <2>1 DEF set_interrupt, RecordTypes
    <2>2. CASE cancel_all_waiters(w)
        <3>1. cancelled' = [u \in WorkerIds |-> cancelled[u] \/ thread[u] \in Waits]
            BY <2>2 DEF cancel_all_waiters
        <3>2. cancelled' \in [WorkerIds -> BOOLEAN]
            BY <3>1, ZenonT(60)
        <3>3. terminated' = terminated /\ interrupt' = interrupt
            BY <2>2 DEF cancel_all_waiters
        <3>4. QED
            BY <3>2, <3>3 DEF RecordTypes
    <2>3. QED
        BY <2>1, <2>2
<1>3. ThreadTypes'
    BY SameThread DEF set_interrupt, cancel_all_waiters
<1>4. ChannelTypes'
    BY SameChannels DEF set_interrupt, cancel_all_waiters, chanVars, histVars
<1>5. CountTypes'
    BY SameCounts DEF set_interrupt, cancel_all_waiters, histVars
<1>6. QED
    BY <1>1, <1>2, <1>3, <1>4, <1>5 DEF TypeOK

\* The join of a thread.
LEMMA TypesJoin ==
    ASSUME ParentTypes, RecordTypes, ThreadTypes, ChannelTypes, CountTypes,
           NEW w \in WorkerIds, join(w)
    PROVE  TypeOK'
<1>1. ParentTypes'
    <2>1. agenda \in Seq(Steps)
        BY DEF ParentTypes
    <2>2. agenda # <<>> /\ (agenda' = Tail(agenda) \/ agenda' = <<>>)
        BY DEF join
    <2>3. Tail(agenda) \in Seq(Steps) /\ <<>> \in Seq(Steps)
        BY <2>1, <2>2, Rest
    <2>4. agenda' \in Seq(Steps)
        BY <2>2, <2>3, ZenonT(60)
    <2>5. QED
        BY <2>4 DEF join, ParentTypes
<1>2. RecordTypes'
    BY SameRecord DEF join
<1>3. ThreadTypes'
    BY SameThread DEF join
<1>4. ChannelTypes'
    BY DEF join, ChannelTypes, histVars
<1>5. CountTypes'
    BY SameCounts DEF join, histVars
<1>6. QED
    BY <1>1, <1>2, <1>3, <1>4, <1>5 DEF TypeOK

\* The poll callback drains its channel.
LEMMA TypesPoll ==
    ASSUME ParentTypes, RecordTypes, ThreadTypes, ChannelTypes, CountTypes,
           NEW w \in WorkerIds, otter_worker_poll(w)
    PROVE  TypeOK'
<1>1. ParentTypes'
    <2>1. events[w] \in Seq(Events) /\ Reach(w, events[w])
        BY DEF otter_worker_poll, ChannelTypes
    <2>2. /\ batch' \in Seq(Events) /\ agenda' \in Seq(Steps)
          /\ polling' \in WorkerIds \cup {None}
          /\ polling' = None <=> batch' = <<>>
        BY <2>1, ReachTypes, ZenonT(60)
    <2>3. QED
        BY <2>2 DEF otter_worker_poll, ParentTypes
<1>2. RecordTypes'
    BY SameRecord DEF otter_worker_poll
<1>3. ThreadTypes'
    BY SameThread DEF otter_worker_poll
<1>4. ChannelTypes'
    <2>1. events[w] \in Seq(Events) /\ Reach(w, events[w])
        BY DEF otter_worker_poll, ChannelTypes
    <2>2. taken' \in [WorkerIds -> Seq(Events)]
        BY <2>1, ReachTypes, ZenonT(60)
    <2>3. events' = [events EXCEPT ![w] = <<>>] /\ cmds' = cmds /\ home' = home /\ handled' = handled
        BY ZenonT(60) DEF otter_worker_poll
    <2>4. QED
        BY <2>2, <2>3 DEF ChannelTypes
<1>5. CountTypes'
    BY SameCounts DEF otter_worker_poll, histVars
<1>6. QED
    BY <1>1, <1>2, <1>3, <1>4, <1>5 DEF TypeOK

\* The next event of a batch.
LEMMA TypesDispatch ==
    ASSUME ParentTypes, RecordTypes, ThreadTypes, ChannelTypes, CountTypes, dispatch_event_object
    PROVE  TypeOK'
<1>1. ParentTypes'
    <2>1. polling \in WorkerIds /\ Tail(batch) \in Seq(Events) /\ Reach(polling, Tail(batch))
        BY Rest DEF dispatch_event_object, ParentTypes
    <2>2. /\ batch' \in Seq(Events) /\ agenda' \in Seq(Steps)
          /\ polling' \in WorkerIds \cup {None}
          /\ polling' = None <=> batch' = <<>>
        BY <2>1, ReachTypes, ZenonT(60)
    <2>3. QED
        BY <2>2 DEF dispatch_event_object, ParentTypes
<1>2. RecordTypes'
    BY SameRecord DEF dispatch_event_object
<1>3. ThreadTypes'
    BY SameThread DEF dispatch_event_object
<1>4. ChannelTypes'
    <2>1. polling \in WorkerIds /\ Tail(batch) \in Seq(Events) /\ Reach(polling, Tail(batch))
        BY Rest DEF dispatch_event_object, ParentTypes
    <2>2. taken' \in [WorkerIds -> Seq(Events)]
        BY <2>1, ReachTypes, ZenonT(60)
    <2>3. QED
        BY <2>2 DEF dispatch_event_object, ChannelTypes, chanVars
<1>5. CountTypes'
    BY SameCounts DEF dispatch_event_object, histVars
<1>6. QED
    BY <1>1, <1>2, <1>3, <1>4, <1>5 DEF TypeOK

\* A handler that throws.
LEMMA TypesThrow ==
    ASSUME ParentTypes, RecordTypes, ThreadTypes, ChannelTypes, CountTypes, dispatch_throws
    PROVE  TypeOK'
<1>1. ParentTypes'
    <2>1. polling \in WorkerIds /\ Return(polling)
        BY DEF dispatch_throws, ParentTypes
    <2>2. batch' = <<>> /\ polling' = None /\ agenda' \in Seq(Steps)
        BY <2>1, ReturnTypes, ZenonT(60)
    <2>3. QED
        BY <2>2 DEF dispatch_throws, ParentTypes
<1>2. RecordTypes'
    BY SameRecord DEF dispatch_throws
<1>3. ThreadTypes'
    BY SameThread DEF dispatch_throws
<1>4. ChannelTypes'
    BY SameChannels DEF dispatch_throws, chanVars, histVars
<1>5. CountTypes'
    BY DEF dispatch_throws, CountTypes, ParentTypes
<1>6. QED
    BY <1>1, <1>2, <1>3, <1>4, <1>5 DEF TypeOK

\* drain of a raw worker.
LEMMA TypesDrain ==
    ASSUME ParentTypes, RecordTypes, ThreadTypes, ChannelTypes, CountTypes,
           NEW w \in WorkerIds, NEW m \in BOOLEAN, worker_drain_call(w, m)
    PROVE  TypeOK'
<1>1. ParentTypes'
    BY SameParent DEF worker_drain_call
<1>2. RecordTypes'
    BY SameRecord DEF worker_drain_call
<1>3. ThreadTypes'
    BY SameThread DEF worker_drain_call
<1>4. ChannelTypes'
    <2>1. events[w] \in Seq(Events) /\ taken \in [WorkerIds -> Seq(Events)]
        BY DEF ChannelTypes
    <2>2. Take(w, events[w]) \/ taken' = taken
        BY DEF worker_drain_call
    <2>3. taken' \in [WorkerIds -> Seq(Events)]
        BY <2>1, <2>2, TakeTypes, ZenonT(60)
    <2>4. events' = [events EXCEPT ![w] = <<>>] /\ cmds' = cmds /\ home' = home /\ handled' = handled
        BY ZenonT(60) DEF worker_drain_call
    <2>5. QED
        BY <2>3, <2>4 DEF ChannelTypes
<1>5. CountTypes'
    BY DEF worker_drain_call, CountTypes
<1>6. QED
    BY <1>1, <1>2, <1>3, <1>4, <1>5 DEF TypeOK

\* Steps of a thread that touch no channel.
LEMMA TypesThread ==
    ASSUME ParentTypes, RecordTypes, ThreadTypes, ChannelTypes, CountTypes,
           NEW w \in WorkerIds, NEW ok \in BOOLEAN,
           start(w, ok) \/ close(w) \/ wait(w) \/ js_returns(w)
    PROVE  TypeOK'
<1>1. ParentTypes'
    BY SameParent DEF start, close, wait, js_returns
<1>2. RecordTypes'
    BY SameRecord DEF start, close, wait, js_returns
<1>3. ThreadTypes'
    <2>1. CASE start(w, ok)
        BY <2>1 DEF start, ThreadTypes, ThreadStates
    <2>2. CASE close(w)
        BY <2>2 DEF close, ThreadTypes
    <2>3. CASE wait(w)
        BY <2>3 DEF wait, ThreadTypes, ThreadStates, Waits
    <2>4. CASE js_returns(w)
        BY <2>4 DEF js_returns, ThreadTypes, ThreadStates
    <2>5. QED
        BY <2>1, <2>2, <2>3, <2>4
<1>4. ChannelTypes'
    BY SameChannels DEF start, close, wait, js_returns, chanVars, histVars
<1>5. CountTypes'
    BY SameCounts DEF start, close, wait, js_returns, histVars
<1>6. QED
    BY <1>1, <1>2, <1>3, <1>4, <1>5 DEF TypeOK

\* A wait that returns.
LEMMA TypesWaitReturns ==
    ASSUME ParentTypes, RecordTypes, ThreadTypes, ChannelTypes, CountTypes,
           NEW w \in WorkerIds, wait_returns(w)
    PROVE  TypeOK'
<1>1. ParentTypes'
    BY SameParent DEF wait_returns
<1>2. RecordTypes'
    BY DEF wait_returns, RecordTypes
<1>3. ThreadTypes'
    BY DEF wait_returns, ThreadTypes, ThreadStates, JsStates, Waits
<1>4. ChannelTypes'
    BY SameChannels DEF wait_returns, chanVars, histVars
<1>5. CountTypes'
    BY SameCounts DEF wait_returns, histVars
<1>6. QED
    BY <1>1, <1>2, <1>3, <1>4, <1>5 DEF TypeOK

\* The natives of the worker's scope.
LEMMA TypesInstall ==
    ASSUME ParentTypes, RecordTypes, ThreadTypes, ChannelTypes, CountTypes,
           NEW w \in WorkerIds, NEW ok \in BOOLEAN, install_worker_scope_natives(w, ok)
    PROVE  TypeOK'
<1>1. ParentTypes'
    BY SameParent DEF install_worker_scope_natives, Finish
<1>2. RecordTypes'
    BY SameRecord DEF install_worker_scope_natives, Finish
<1>3. ThreadTypes'
    BY DEF install_worker_scope_natives, Finish, ThreadTypes, ThreadStates, JsStates
<1>4. ChannelTypes'
    <2>1. <<"error">> \in Seq(EventKinds) /\ (Send(w, <<"error">>) \/ UNCHANGED <<events, sent>>)
        BY DEF install_worker_scope_natives, Finish, EventKinds
    <2>2. events' \in [WorkerIds -> Seq(Events)] /\ sent' \in [WorkerIds -> Nat]
        <3>1. CASE Send(w, <<"error">>)
            BY <2>1, <3>1, SendTypes, ZenonT(60)
        <3>2. CASE UNCHANGED <<events, sent>>
            BY <3>2 DEF ChannelTypes, CountTypes
        <3>3. QED
            BY <2>1, <3>1, <3>2
    <2>3. cmds' = cmds \/ cmds' = [cmds EXCEPT ![w] = <<>>]
        BY DEF install_worker_scope_natives, Finish
    <2>4. cmds \in [WorkerIds -> Seq(Commands)]
        BY DEF ChannelTypes
    <2>5. [cmds EXCEPT ![w] = <<>>] \in [WorkerIds -> Seq(Commands)]
        BY <2>4
    <2>6. cmds' \in [WorkerIds -> Seq(Commands)]
        BY <2>3, <2>4, <2>5, ZenonT(60)
    <2>7. QED
        BY <2>2, <2>6 DEF install_worker_scope_natives, Finish, ChannelTypes
<1>5. CountTypes'
    <2>1. <<"error">> \in Seq(EventKinds) /\ (Send(w, <<"error">>) \/ UNCHANGED <<events, sent>>)
        BY DEF install_worker_scope_natives, Finish, EventKinds
    <2>2. events' \in [WorkerIds -> Seq(Events)] /\ sent' \in [WorkerIds -> Nat]
        <3>1. CASE Send(w, <<"error">>)
            BY <2>1, <3>1, SendTypes, ZenonT(60)
        <3>2. CASE UNCHANGED <<events, sent>>
            BY <3>2 DEF ChannelTypes, CountTypes
        <3>3. QED
            BY <2>1, <3>1, <3>2
    <2>3. QED
        BY <2>2 DEF install_worker_scope_natives, Finish, CountTypes
<1>6. QED
    BY <1>1, <1>2, <1>3, <1>4, <1>5 DEF TypeOK

\* postMessage of a worker.
LEMMA TypesPost ==
    ASSUME ParentTypes, RecordTypes, ThreadTypes, ChannelTypes, CountTypes,
           NEW w \in WorkerIds, post(w)
    PROVE  TypeOK'
<1>1. ParentTypes'
    BY SameParent DEF post
<1>2. RecordTypes'
    BY SameRecord DEF post
<1>3. ThreadTypes'
    BY SameThread DEF post
<1>4. ChannelTypes'
    <2>1. <<"message">> \in Seq(EventKinds) /\ Send(w, <<"message">>)
        BY DEF post, EventKinds
    <2>2. events' \in [WorkerIds -> Seq(Events)] /\ sent' \in [WorkerIds -> Nat]
        BY <2>1, SendTypes, ZenonT(60)
    <2>3. QED
        BY <2>2 DEF post, ChannelTypes
<1>5. CountTypes'
    <2>1. <<"message">> \in Seq(EventKinds) /\ Send(w, <<"message">>)
        BY DEF post, EventKinds
    <2>2. events' \in [WorkerIds -> Seq(Events)] /\ sent' \in [WorkerIds -> Nat]
        BY <2>1, SendTypes, ZenonT(60)
    <2>3. posts[w] < MaxPosts[w] /\ posts' = [posts EXCEPT ![w] = posts[w] + 1] /\ posted' = posted /\ lost' = lost
        BY DEF post
    <2>t. /\ posts \in [WorkerIds -> Nat] /\ MaxPosts \in [WorkerIds -> Nat]
          /\ \A u \in WorkerIds : posts[u] <= MaxPosts[u]
        BY WorkersAssumption DEF CountTypes
    <2>4. posts' \in [WorkerIds -> Nat] /\ \A u \in WorkerIds : posts'[u] <= MaxPosts[u]
        <3>1. posts' = [posts EXCEPT ![w] = posts[w] + 1]
            BY <2>3
        <3>2. posts[w] + 1 \in Nat /\ posts[w] + 1 <= MaxPosts[w]
            BY <2>3, <2>t
        <3>3. QED
            BY <2>t, <3>1, <3>2
    <2>5. \A u \in WorkerIds : posted'[u] <= MaxSends[u]
        BY <2>3 DEF CountTypes
    <2>6. QED
        BY <2>2, <2>3, <2>4, <2>5, ZenonT(60) DEF CountTypes
<1>6. QED
    BY <1>1, <1>2, <1>3, <1>4, <1>5 DEF TypeOK

\* A script or handler that ends with an error.
LEMMA TypesAbort ==
    ASSUME ParentTypes, RecordTypes, ThreadTypes, ChannelTypes, CountTypes,
           NEW w \in WorkerIds, js_throws(w) \/ interrupted(w)
    PROVE  TypeOK'
<1>1. ParentTypes'
    BY SameParent DEF js_throws, interrupted, Abort, Finish
<1>2. RecordTypes'
    <2>1. Abort(w)
        BY DEF js_throws, interrupted
    <2>2. cancelled' = [cancelled EXCEPT ![w] = FALSE] /\ terminated' = terminated /\ interrupt' = interrupt
        BY <2>1, ZenonT(60) DEF Abort
    <2>3. QED
        BY <2>2 DEF RecordTypes
<1>3. ThreadTypes'
    BY DEF js_throws, interrupted, Abort, Finish, ThreadTypes, ThreadStates
<1>4. ChannelTypes'
    <2>1. <<"error">> \in Seq(EventKinds) /\ <<"error", "close">> \in Seq(EventKinds)
        BY DEF EventKinds
    <2>2. events' \in [WorkerIds -> Seq(Events)] /\ sent' \in [WorkerIds -> Nat]
        <3>1. Send(w, <<"error">>) \/ Send(w, <<"error", "close">>)
            BY DEF js_throws, interrupted, Abort, Finish
        <3>2. QED
            BY <2>1, <3>1, SendTypes, ZenonT(60)
    <2>3. cmds' = cmds \/ cmds' = [cmds EXCEPT ![w] = <<>>]
        BY DEF js_throws, interrupted, Abort, Finish
    <2>4. cmds \in [WorkerIds -> Seq(Commands)]
        BY DEF ChannelTypes
    <2>5. [cmds EXCEPT ![w] = <<>>] \in [WorkerIds -> Seq(Commands)]
        BY <2>4
    <2>6. cmds' \in [WorkerIds -> Seq(Commands)]
        BY <2>3, <2>4, <2>5, ZenonT(60)
    <2>7. QED
        BY <2>2, <2>6 DEF js_throws, interrupted, Abort, Finish, ChannelTypes
<1>5. CountTypes'
    <2>1. <<"error">> \in Seq(EventKinds) /\ <<"error", "close">> \in Seq(EventKinds)
        BY DEF EventKinds
    <2>2. events' \in [WorkerIds -> Seq(Events)] /\ sent' \in [WorkerIds -> Nat]
        <3>1. Send(w, <<"error">>) \/ Send(w, <<"error", "close">>)
            BY DEF js_throws, interrupted, Abort, Finish
        <3>2. QED
            BY <2>1, <3>1, SendTypes, ZenonT(60)
    <2>3. UNCHANGED <<posted, posts, lost>>
        BY ZenonT(60) DEF js_throws, interrupted, Abort, Finish
    <2>4. QED
        BY <2>2, <2>3 DEF CountTypes
<1>6. QED
    BY <1>1, <1>2, <1>3, <1>4, <1>5 DEF TypeOK

\* A message is received.
LEMMA TypesReceive ==
    ASSUME ParentTypes, RecordTypes, ThreadTypes, ChannelTypes, CountTypes,
           NEW w \in WorkerIds, NEW how \in EventKinds \cup {"handling", "none"}, recv_message(w, how)
    PROVE  TypeOK'
<1>1. ParentTypes'
    BY SameParent DEF recv_message
<1>2. RecordTypes'
    BY SameRecord DEF recv_message
<1>3. ThreadTypes'
    BY DEF recv_message, ThreadTypes, ThreadStates, JsStates
<1>4. ChannelTypes'
    <2>1. events' \in [WorkerIds -> Seq(Events)] /\ sent' \in [WorkerIds -> Nat]
        <3>1. CASE how \in EventKinds
            <4>1. <<how>> \in Seq(EventKinds) /\ Send(w, <<how>>)
                BY <3>1 DEF recv_message
            <4>2. QED
                BY <4>1, SendTypes, ZenonT(60)
        <3>2. CASE how \notin EventKinds
            BY <3>2 DEF recv_message, ChannelTypes, CountTypes
        <3>3. QED
            BY <3>1, <3>2
    <2>2. cmds \in [WorkerIds -> Seq(Commands)] /\ handled \in [WorkerIds -> Seq(Commands)]
        BY DEF ChannelTypes
    <2>3. Head(cmds[w]) \in Commands /\ Tail(cmds[w]) \in Seq(Commands)
        BY <2>2, Rest DEF recv_message
    <2>4. Append(handled[w], Head(cmds[w])) \in Seq(Commands)
        BY <2>2, <2>3, App
    <2>5. cmds' \in [WorkerIds -> Seq(Commands)] /\ handled' \in [WorkerIds -> Seq(Commands)]
        BY <2>2, <2>3, <2>4 DEF recv_message
    <2>6. QED
        BY <2>1, <2>5 DEF recv_message, ChannelTypes
<1>5. CountTypes'
    <2>1. events' \in [WorkerIds -> Seq(Events)] /\ sent' \in [WorkerIds -> Nat]
        <3>1. CASE how \in EventKinds
            <4>1. <<how>> \in Seq(EventKinds) /\ Send(w, <<how>>)
                BY <3>1 DEF recv_message
            <4>2. QED
                BY <4>1, SendTypes, ZenonT(60)
        <3>2. CASE how \notin EventKinds
            BY <3>2 DEF recv_message, ChannelTypes, CountTypes
        <3>3. QED
            BY <3>1, <3>2
    <2>2. QED
        BY <2>1 DEF recv_message, CountTypes
<1>6. QED
    BY <1>1, <1>2, <1>3, <1>4, <1>5 DEF TypeOK

\* The loop of the worker ends.
LEMMA TypesLeave ==
    ASSUME ParentTypes, RecordTypes, ThreadTypes, ChannelTypes, CountTypes,
           NEW w \in WorkerIds, leave_loop(w)
    PROVE  TypeOK'
<1>1. ParentTypes'
    BY SameParent DEF leave_loop, Finish
<1>2. RecordTypes'
    BY SameRecord DEF leave_loop, Finish
<1>3. ThreadTypes'
    BY DEF leave_loop, Finish, ThreadTypes, ThreadStates
<1>4. ChannelTypes'
    <2>1. <<"close">> \in Seq(EventKinds) /\ Send(w, <<"close">>)
        BY DEF leave_loop, Finish, EventKinds
    <2>2. events' \in [WorkerIds -> Seq(Events)] /\ sent' \in [WorkerIds -> Nat]
        BY <2>1, SendTypes, ZenonT(60)
    <2>3. cmds' = cmds \/ cmds' = [cmds EXCEPT ![w] = <<>>]
        BY DEF leave_loop, Finish
    <2>4. cmds \in [WorkerIds -> Seq(Commands)]
        BY DEF ChannelTypes
    <2>5. [cmds EXCEPT ![w] = <<>>] \in [WorkerIds -> Seq(Commands)]
        BY <2>4
    <2>6. cmds' \in [WorkerIds -> Seq(Commands)]
        BY <2>3, <2>4, <2>5, ZenonT(60)
    <2>7. QED
        BY <2>2, <2>6 DEF leave_loop, Finish, ChannelTypes
<1>5. CountTypes'
    <2>1. <<"close">> \in Seq(EventKinds) /\ Send(w, <<"close">>)
        BY DEF leave_loop, Finish, EventKinds
    <2>2. events' \in [WorkerIds -> Seq(Events)] /\ sent' \in [WorkerIds -> Nat]
        BY <2>1, SendTypes, ZenonT(60)
    <2>3. UNCHANGED <<posted, posts, lost>>
        BY ZenonT(60) DEF leave_loop, Finish
    <2>4. QED
        BY <2>2, <2>3 DEF CountTypes
<1>6. QED
    BY <1>1, <1>2, <1>3, <1>4, <1>5 DEF TypeOK

\* A stuttering step.
LEMMA TypesStutter ==
    ASSUME ParentTypes, RecordTypes, ThreadTypes, ChannelTypes, CountTypes, UNCHANGED vars
    PROVE  TypeOK'
<1>1. ParentTypes'
    BY SameParent DEF vars
<1>2. RecordTypes'
    BY SameRecord DEF vars
<1>3. ThreadTypes'
    BY SameThread DEF vars
<1>4. ChannelTypes'
    BY SameChannels DEF vars, chanVars, histVars
<1>5. CountTypes'
    BY SameCounts DEF vars, histVars
<1>6. QED
    BY <1>1, <1>2, <1>3, <1>4, <1>5 DEF TypeOK

\* Every step of the parent and of a worker keeps the types.
LEMMA TypeInductive == TypeOK /\ [Next]_vars => TypeOK'
<1>1. ASSUME TypeOK, UNCHANGED vars PROVE TypeOK'
    BY <1>1, TypesStutter, ZenonT(60) DEF TypeOK
<1>2. ASSUME TypeOK, Continue PROVE TypeOK'
    BY <1>2, TypesInsert, TypesShutdown, TypesInterrupt, TypesJoin, ZenonT(60) DEF Continue, TypeOK
<1>3. ASSUME TypeOK, Call PROVE TypeOK'
    BY <1>3, TypesNewWorker, TypesTerminate, TypesPostMessage, TypesDrain, TypesDropHost,
       ZenonT(60) DEF Call, TypeOK
<1>4. ASSUME TypeOK, Handled PROVE TypeOK'
    BY <1>4, TypesDispatch, TypesThrow, ZenonT(60) DEF Handled, TypeOK
<1>5. ASSUME TypeOK, NEW w \in WorkerIds, otter_worker_poll(w) PROVE TypeOK'
    BY <1>5, TypesPoll, ZenonT(60) DEF TypeOK
<1>6. ASSUME TypeOK, NEW w \in WorkerIds, Thread(w) PROVE TypeOK'
    BY <1>6, TypesThread, TypesInstall, TypesReceive, TypesLeave, TypesAbort, ZenonT(60) DEF Thread, TypeOK
<1>7. ASSUME TypeOK, NEW w \in WorkerIds, Program(w) PROVE TypeOK'
    BY <1>7, TypesPost, TypesThread, TypesWaitReturns, TypesAbort, ZenonT(60) DEF Program, TypeOK
<1>8. QED
    BY <1>1, <1>2, <1>3, <1>4, <1>5, <1>6, <1>7, ZenonT(60) DEF Next


\* The initial state is typed.
LEMMA InitTypes == Init => TypeOK
<1> SUFFICES ASSUME Init PROVE TypeOK
    OBVIOUS
<1>1. ParentTypes
    BY DEF Init, ParentTypes
<1>2. RecordTypes
    BY DEF Init, RecordTypes
<1>3. ThreadTypes
    BY DEF Init, ThreadTypes, ThreadStates
<1>4. ChannelTypes
    BY DEF Init, ChannelTypes
<1>5. CountTypes
    BY WorkersAssumption DEF Init, CountTypes
<1>6. QED
    BY <1>1, <1>2, <1>3, <1>4, <1>5 DEF TypeOK

\* Every variable keeps its type, for any workers, buffers and bounds: the
\* natives of worker.rs name started workers and the channels carry numbered
\* messages.
THEOREM TypeCorrect == Spec => []TypeOK
<1>1. Init => TypeOK
    BY InitTypes
<1>2. QED
    BY <1>1, TypeInductive, PTL DEF Spec

(***************************************************************************)
(* What the parent has still to do, and about which workers.               *)
(***************************************************************************)
\* A step of the agenda is about a started worker.  A worker is inserted by
\* the native that started it; one that is terminated or joined has left the
\* registry, is terminated once, and is joined by the poll callback if that
\* holds its record.
StepOk(i) ==
    LET w == agenda[i].worker
        op == agenda[i].op
    IN  /\ thread[w] # "none"
        /\ op = "insert" =>
               /\ i = 1 /\ ~terminated[w] /\ w \notin registry
               /\ \A j \in 2..Len(agenda) : agenda[j].op = "setInterval"
        /\ op = "setInterval" => w \notin Raw
        /\ op = "terminate" =>
               /\ ~terminated[w] /\ w \notin registry
               /\ \A j \in 1..Len(agenda) :
                      agenda[j].op = "terminate" /\ agenda[j].worker = w => j = i
        /\ op = "join" => w \notin registry /\ polling # w

\* Every step of the agenda is legal; what is registered or polled runs.
Own ==
    /\ poll \cap Raw = {} /\ polling \notin Raw
    /\ polling # None => thread[polling] # "none"
    /\ \A w \in registry : thread[w] # "none" /\ ~terminated[w]
    /\ \A w \in WorkerIds : thread[w] = "none" => ~terminated[w]
    /\ \A i \in 1..Len(agenda) : StepOk(i)

\* Every step of the agenda names an operation and a worker.
LEMMA AgendaWorkers ==
    ASSUME NEW a \in Seq(Steps)
    PROVE  \A i \in 1..Len(a) : a[i].worker \in WorkerIds /\ a[i].op \in Ops
<1>1. ASSUME NEW i \in 1..Len(a) PROVE a[i].worker \in WorkerIds /\ a[i].op \in Ops
    <2>1. a[i] \in Steps
        OBVIOUS
    <2>2. QED
        BY <2>1 DEF Steps
<1>2. QED
    BY <1>1

\* A step taken off the agenda leaves the others in order.
LEMMA TailOk ==
    ASSUME agenda \in Seq(Steps), Own, agenda # <<>>, agenda' = Tail(agenda),
           UNCHANGED <<registry, polling, thread, terminated>>
    PROVE  \A i \in 1..Len(agenda') : StepOk(i)'
<1>1. /\ agenda' \in Seq(Steps) /\ Len(agenda) \in Nat /\ Len(agenda') = Len(agenda) - 1
      /\ \A i \in 1..Len(agenda') : agenda'[i] = agenda[i + 1]
    BY Rest
<1> SUFFICES ASSUME NEW i \in 1..Len(agenda') PROVE StepOk(i)'
    OBVIOUS
<1>2. i + 1 \in 1..Len(agenda) /\ i + 1 # 1 /\ StepOk(i + 1) /\ agenda'[i] = agenda[i + 1]
    BY <1>1 DEF Own
<1> DEFINE w == agenda[i + 1].worker
<1>3. thread[w] # "none" /\ agenda[i + 1].op # "insert"
    BY <1>2 DEF StepOk
<1>4. agenda[i + 1].op = "setInterval" => w \notin Raw
    BY <1>2 DEF StepOk
<1>5. agenda[i + 1].op = "join" => w \notin registry /\ polling # w
    BY <1>2 DEF StepOk
<1>6. ASSUME agenda[i + 1].op = "terminate"
      PROVE  /\ ~terminated[w] /\ w \notin registry
             /\ \A j \in 1..Len(agenda') : agenda'[j].op = "terminate" /\ agenda'[j].worker = w => j = i
    <2>1. /\ ~terminated[w] /\ w \notin registry
          /\ \A j \in 1..Len(agenda) : agenda[j].op = "terminate" /\ agenda[j].worker = w => j = i + 1
        BY <1>2, <1>6 DEF StepOk
    <2>2. ASSUME NEW j \in 1..Len(agenda'), agenda'[j].op = "terminate", agenda'[j].worker = w
          PROVE  j = i
        <3>1. j + 1 \in 1..Len(agenda) /\ agenda'[j] = agenda[j + 1]
            BY <1>1
        <3>2. j + 1 = i + 1
            BY <2>1, <2>2, <3>1
        <3>3. QED
            BY <3>2, <1>1
    <2>3. QED
        BY <2>1, <2>2
<1>7. QED
    BY <1>2, <1>3, <1>4, <1>5, <1>6 DEF StepOk

\* A step of a worker's thread: nobody starts, nobody comes back.
ThreadStep ==
    /\ UNCHANGED <<parentVars, terminated>>
    /\ \A u \in WorkerIds : (thread'[u] = "none" <=> thread[u] = "none") /\ (Ended(u) => Ended(u)')

\* A step of a thread leaves the parent's agenda and registry alone.
LEMMA ThreadOnly == TypeOK /\ Own /\ ThreadStep => Own'
<1> SUFFICES ASSUME TypeOK, Own, ThreadStep PROVE Own'
    OBVIOUS
<1>1. /\ registry' = registry /\ poll' = poll /\ agenda' = agenda /\ polling' = polling
      /\ terminated' = terminated
      /\ \A u \in WorkerIds : thread'[u] = "none" <=> thread[u] = "none"
    BY DEF ThreadStep, parentVars
<1>2. registry \subseteq WorkerIds /\ agenda \in Seq(Steps) /\ polling \in WorkerIds \cup {None}
    BY DEF TypeOK, ParentTypes
<1>3. \A i \in 1..Len(agenda) : agenda[i].worker \in WorkerIds
    BY <1>2, AgendaWorkers
<1>4. ASSUME NEW i \in 1..Len(agenda) PROVE StepOk(i)'
    <2>1. StepOk(i) /\ agenda[i].worker \in WorkerIds
        BY <1>3 DEF Own
    <2>2. QED
        BY <1>1, <2>1, ZenonT(60) DEF StepOk
<1>5. QED
    BY <1>1, <1>2, <1>4 DEF Own

\* The steps of a thread, whoever's program runs in it.
LEMMA ThreadSteps ==
    ASSUME TypeOK, NEW w \in WorkerIds, Thread(w) \/ Program(w)
    PROVE  ThreadStep
<1>0. thread \in [WorkerIds -> ThreadStates]
    BY DEF TypeOK, ThreadTypes
<1>1. ASSUME NEW ok \in BOOLEAN, start(w, ok) PROVE ThreadStep
    BY <1>0, <1>1 DEF start, ThreadStep, Ended, recordVars
<1>2. ASSUME NEW ok \in BOOLEAN, install_worker_scope_natives(w, ok) PROVE ThreadStep
    BY <1>0, <1>2 DEF install_worker_scope_natives, Finish, ThreadStep, Ended, recordVars
<1>3. ASSUME NEW how, recv_message(w, how) PROVE ThreadStep
    BY <1>0, <1>3 DEF recv_message, ThreadStep, Ended, recordVars
<1>4. CASE leave_loop(w)
    BY <1>0, <1>4 DEF leave_loop, Finish, ThreadStep, Ended, recordVars
<1>5. CASE interrupted(w) \/ js_throws(w)
    BY <1>0, <1>5 DEF interrupted, js_throws, Abort, Finish, ThreadStep, Ended, JsStates, Waits, recordVars
<1>6. CASE post(w) \/ close(w)
    BY <1>6 DEF post, close, ThreadStep, Ended, recordVars, threadVars
<1>7. CASE wait(w)
    BY <1>0, <1>7 DEF wait, ThreadStep, Ended, JsStates, recordVars
<1>8. CASE wait_returns(w)
    BY <1>0, <1>8 DEF wait_returns, ThreadStep, Ended, Waits
<1>9. CASE js_returns(w)
    BY <1>0, <1>9 DEF js_returns, ThreadStep, Ended, JsStates, recordVars
<1>10. QED
    BY <1>1, <1>2, <1>3, <1>4, <1>5, <1>6, <1>7, <1>8, <1>9, ZenonT(60) DEF Thread, Program

\* A poll callback leaves an empty agenda or one join of a worker that has
\* left the registry.
LEMMA ReachShape ==
    ASSUME agenda = <<>>, NEW w \in WorkerIds, NEW es, Reach(w, es)
    PROVE  \/ agenda' = <<>> /\ polling' = w
           \/ agenda' = <<>> /\ polling' = None /\ w \in registry
           \/ agenda' = <<Step("join", w)>> /\ polling' = None /\ w \notin registry
BY DEF Reach, Return

\* The same for the end of an event's handlers.
LEMMA DispatchShape ==
    ASSUME TypeOK, dispatch_event_object \/ dispatch_throws
    PROVE  /\ agenda = <<>> /\ polling \in WorkerIds
           /\ UNCHANGED <<registry, poll, thread, terminated>>
           /\ \/ agenda' = <<>> /\ polling' = polling
              \/ agenda' = <<>> /\ polling' = None /\ polling \in registry
              \/ agenda' = <<Step("join", polling)>> /\ polling' = None /\ polling \notin registry
<1>1. /\ agenda = <<>> /\ polling \in WorkerIds
      /\ UNCHANGED <<registry, poll, thread, terminated>>
      /\ Reach(polling, Tail(batch)) \/ Return(polling)
    BY DEF TypeOK, ParentTypes, dispatch_event_object, dispatch_throws, Js, recordVars, threadVars
<1>2. CASE Reach(polling, Tail(batch))
    BY <1>1, <1>2, ReachShape, ZenonT(60)
<1>3. CASE Return(polling)
    BY <1>1, <1>3 DEF Return
<1>4. QED
    BY <1>1, <1>2, <1>3

\* The steps that leave the parent's agenda and registry alone.
LEMMA OtherSteps ==
    ASSUME TypeOK
    PROVE  /\ \A w \in WorkerIds : \A b, c : worker_post_message_call(w, b, c) => ThreadStep
           /\ \A w \in WorkerIds : \A m : worker_drain_call(w, m) => ThreadStep
           /\ \A w \in WorkerIds : Thread(w) \/ Program(w) => ThreadStep
           /\ UNCHANGED vars => ThreadStep
<1>1. ASSUME NEW w \in WorkerIds, NEW b, NEW c, worker_post_message_call(w, b, c) PROVE ThreadStep
    BY <1>1, ZenonT(60) DEF worker_post_message_call, ThreadStep, Ended, recordVars, threadVars
<1>2. ASSUME NEW w \in WorkerIds, NEW m, worker_drain_call(w, m) PROVE ThreadStep
    BY <1>2, ZenonT(60) DEF worker_drain_call, ThreadStep, Ended, recordVars, threadVars
<1>3. ASSUME NEW w \in WorkerIds, Thread(w) \/ Program(w) PROVE ThreadStep
    BY <1>3, ThreadSteps
<1>4. ASSUME UNCHANGED vars PROVE ThreadStep
    BY <1>4, ZenonT(60) DEF vars, ThreadStep, Ended, recordVars, threadVars
<1>5. QED
    BY <1>1, <1>2, <1>3, <1>4, ZenonT(60)

\* The agenda of one step that a returning callback leaves.
LEMMA JoinOnly ==
    ASSUME NEW w \in WorkerIds, agenda' = <<Step("join", w)>>,
           thread'[w] # "none", w \notin registry', polling' # w
    PROVE  \A i \in 1..Len(agenda') : StepOk(i)'
<1>1. Len(agenda') = 1 /\ agenda'[1] = Step("join", w)
    OBVIOUS
<1>2. \A i \in 1..Len(agenda') : agenda'[i].op = "join" /\ agenda'[i].worker = w
    BY <1>1 DEF Step
<1>3. QED
    BY <1>2 DEF StepOk

\* What terminate leaves to do: the record is dropped unless the callback
\* holds it.
LEMMA TerminateAgenda ==
    ASSUME NEW w \in WorkerIds
    PROVE  LET a == <<Step("terminate", w)>> \o Drop(w)
           IN  /\ Len(a) \in 1..2 /\ a[1] = Step("terminate", w)
               /\ Len(a) = 2 => a[2] = Step("join", w) /\ polling # w
               /\ polling # w => Len(a) = 2
<1> DEFINE s == <<Step("terminate", w)>>
           t == Drop(w)
<1>1. Step("terminate", w) \in Steps /\ Step("join", w) \in Steps
    BY StepTypes DEF Ops
<1>2. s \in Seq(Steps) /\ Len(s) = 1 /\ s[1] = Step("terminate", w)
    BY <1>1
<1>3. /\ t \in Seq(Steps)
      /\ w = polling => Len(t) = 0
      /\ w # polling => Len(t) = 1 /\ t[1] = Step("join", w)
    BY <1>1 DEF Drop
<1> HIDE DEF s, t
<1>4. /\ Len(s \o t) = Len(s) + Len(t)
      /\ \A i \in 1..Len(s) : (s \o t)[i] = s[i]
      /\ \A i \in 1..Len(t) : (s \o t)[Len(s) + i] = t[i]
    <2>1. s \in Seq(Steps) /\ t \in Seq(Steps)
        BY <1>2, <1>3
    <2>2. QED
        BY <2>1
<1>5. /\ Len(s \o t) \in 1..2 /\ (s \o t)[1] = Step("terminate", w)
      /\ Len(s \o t) = 2 => (s \o t)[2] = Step("join", w) /\ polling # w
      /\ polling # w => Len(s \o t) = 2
    BY <1>2, <1>3, <1>4
<1>6. QED
    BY <1>5 DEF s, t

\* What send_shutdown leaves to do.
LEMMA ShutdownAgenda ==
    ASSUME agenda \in Seq(Steps), agenda # <<>>, NEW w \in WorkerIds,
           agenda' = Terminate(w) \o Tail(agenda)
    PROVE  /\ Len(agenda) \in Nat /\ Len(agenda') = Len(agenda) + 1
           /\ agenda'[1] = Step("interrupt", w) /\ agenda'[2] = Step("cancel", w)
           /\ \A i \in 3..Len(agenda') : agenda'[i] = agenda[i - 1]
<1>1. Step("interrupt", w) \in Steps /\ Step("cancel", w) \in Steps
    BY StepTypes DEF Ops
<1>2. /\ Terminate(w) \in Seq(Steps) /\ Len(Terminate(w)) = 2
      /\ Terminate(w)[1] = Step("interrupt", w) /\ Terminate(w)[2] = Step("cancel", w)
    BY <1>1 DEF Terminate
<1>3. /\ Tail(agenda) \in Seq(Steps) /\ Len(Tail(agenda)) = Len(agenda) - 1 /\ Len(agenda) \in Nat
      /\ \A i \in 1..(Len(agenda) - 1) : Tail(agenda)[i] = agenda[i + 1]
    BY Rest
<1>4. /\ Len(agenda') = Len(agenda) + 1
      /\ \A i \in 1..2 : agenda'[i] = Terminate(w)[i]
      /\ \A i \in 1..(Len(agenda) - 1) : agenda'[2 + i] = Tail(agenda)[i]
    <2>1. /\ Len(Terminate(w) \o Tail(agenda)) = 2 + Len(Tail(agenda))
          /\ \A i \in 1..2 : (Terminate(w) \o Tail(agenda))[i] = Terminate(w)[i]
          /\ \A i \in 1..Len(Tail(agenda)) : (Terminate(w) \o Tail(agenda))[2 + i] = Tail(agenda)[i]
        <3> DEFINE s == Terminate(w)
                   t == Tail(agenda)
        <3>1. s \in Seq(Steps) /\ t \in Seq(Steps) /\ Len(s) = 2
            BY <1>2, <1>3
        <3> HIDE DEF s, t
        <3>2. /\ Len(s \o t) = 2 + Len(t)
              /\ \A i \in 1..2 : (s \o t)[i] = s[i]
              /\ \A i \in 1..Len(t) : (s \o t)[2 + i] = t[i]
            <4>1. /\ Len(s \o t) = Len(s) + Len(t)
                  /\ \A i \in 1..Len(s) : (s \o t)[i] = s[i]
                  /\ \A i \in 1..Len(t) : (s \o t)[Len(s) + i] = t[i]
                <5>1. s \in Seq(Steps) /\ t \in Seq(Steps)
                    BY <3>1
                <5>2. QED
                    BY <5>1
            <4>2. Len(s) = 2
                BY <3>1
            <4>3. QED
                BY <4>1, <4>2, ZenonT(60)
        <3>3. QED
            BY <3>2 DEF s, t
    <2>2. 2 + Len(Tail(agenda)) = Len(agenda) + 1
        BY <1>3
    <2>3. QED
        BY <1>3, <2>1, <2>2, ZenonT(60)
<1>5. ASSUME NEW i \in 3..Len(agenda') PROVE agenda'[i] = agenda[i - 1]
    <2>1. i - 2 \in 1..(Len(agenda) - 1) /\ 2 + (i - 2) = i /\ (i - 2) + 1 = i - 1
        BY <1>3, <1>4
    <2>2. /\ agenda'[2 + (i - 2)] = Tail(agenda)[i - 2]
          /\ Tail(agenda)[i - 2] = agenda[(i - 2) + 1]
        BY <1>3, <1>4, <2>1, ZenonT(60)
    <2>3. QED
        BY <2>1, <2>2, ZenonT(60)
<1>6. QED
    BY <1>2, <1>3, <1>4, <1>5

\* What the drop of the host leaves to do: every registered worker, in the
\* order ws, is terminated once and then joined.
HostAgenda(n, ws) ==
    /\ Len(agenda') = n + n
    /\ \A i \in 1..n : agenda'[i] = Step("terminate", ws[i])
    /\ \A i \in 1..n : agenda'[n + i] = Step("join", ws[i])
    /\ \A i \in 1..n : ws[i] \in registry
    /\ \A i, j \in 1..n : ws[i] = ws[j] => i = j
    /\ \A w \in registry : \E i \in 1..n : ws[i] = w

\* The drop of the host leaves such an agenda.
LEMMA DropAgenda ==
    ASSUME ParentTypes, drop_host
    PROVE  \E n \in Nat : \E ws : HostAgenda(n, ws)
<1>0. PICK n \in 0..Cardinality(WorkerIds) : \E ws \in Bijection(1..n, registry) :
          agenda' = [i \in DOMAIN ws |-> Step("terminate", ws[i])]
                    \o [i \in DOMAIN ws |-> Step("join", ws[i])]
    BY ZenonT(60) DEF drop_host, Orders
<1>1. PICK ws \in Bijection(1..n, registry) :
          agenda' = [i \in DOMAIN ws |-> Step("terminate", ws[i])]
                    \o [i \in DOMAIN ws |-> Step("join", ws[i])]
    BY <1>0, ZenonT(60)
<1> DEFINE T == [i \in DOMAIN ws |-> Step("terminate", ws[i])]
           J == [i \in DOMAIN ws |-> Step("join", ws[i])]
<1>2. /\ n \in Nat
      /\ T \in Seq(Steps) /\ Len(T) = n /\ \A i \in 1..n : T[i] = Step("terminate", ws[i])
      /\ J \in Seq(Steps) /\ Len(J) = n /\ \A i \in 1..n : J[i] = Step("join", ws[i])
      /\ \A i \in 1..n : ws[i] \in registry
      /\ \A i, j \in 1..n : ws[i] = ws[j] => i = j
      /\ \A w \in registry : \E i \in 1..n : ws[i] = w
    <2>1. "terminate" \in Ops /\ "join" \in Ops
        BY DEF Ops
    <2>t. /\ T = [i \in DOMAIN ws |-> Step("terminate", ws[i])]
          /\ J = [i \in DOMAIN ws |-> Step("join", ws[i])]
        OBVIOUS
    <2> HIDE DEF T, J
    <2>2. T \in Seq(Steps) /\ Len(T) = n /\ \A i \in 1..n : T[i] = Step("terminate", ws[i])
        BY <2>t, <2>1, HostSteps
    <2>3. J \in Seq(Steps) /\ Len(J) = n /\ \A i \in 1..n : J[i] = Step("join", ws[i])
        BY <2>t, <2>1, HostSteps
    <2>4. QED
        BY <2>2, <2>3, HostOrder, ZenonT(60)
<1>3. agenda' = T \o J
    BY <1>1
<1> HIDE DEF T, J
<1>4. /\ Len(T \o J) = n + n
      /\ \A i \in 1..n : (T \o J)[i] = T[i]
      /\ \A i \in 1..n : (T \o J)[n + i] = J[i]
    <2>1. T \in Seq(Steps) /\ J \in Seq(Steps) /\ Len(T) = n /\ Len(J) = n
        BY <1>2
    <2>2. /\ Len(T \o J) = Len(T) + Len(J)
          /\ \A i \in 1..Len(T) : (T \o J)[i] = T[i]
          /\ \A i \in 1..Len(J) : (T \o J)[Len(T) + i] = J[i]
        <3>1. T \in Seq(Steps) /\ J \in Seq(Steps)
            BY <2>1
        <3>2. QED
            BY <3>1
    <2>3. Len(T) = n /\ Len(J) = n
        BY <2>1
    <2>4. QED
        BY <2>2, <2>3, ZenonT(60)
<1>5. HostAgenda(n, ws)
    BY <1>2, <1>3, <1>4, ZenonT(60) DEF HostAgenda
<1>6. QED
    BY <1>2, <1>5, ZenonT(60)

\* What Own and the types say of the parent, in one piece.
LEMMA TypeFacts ==
    TypeOK => /\ registry \subseteq WorkerIds /\ agenda \in Seq(Steps) /\ polling \in WorkerIds \cup {None}
              /\ thread \in [WorkerIds -> ThreadStates] /\ terminated \in [WorkerIds -> BOOLEAN]
BY DEF TypeOK, ParentTypes, ThreadTypes, RecordTypes

\* What Own says of the records.
LEMMA OwnFacts ==
    Own => /\ poll \cap Raw = {} /\ polling \notin Raw
           /\ polling # None => thread[polling] # "none"
           /\ \A w \in registry : thread[w] # "none" /\ ~terminated[w]
           /\ \A w \in WorkerIds : thread[w] = "none" => ~terminated[w]
BY DEF Own

\* What Own says of the agenda.
LEMMA OwnSteps == Own => \A i \in 1..Len(agenda) : StepOk(i)
BY DEF Own

\* A started worker is inserted next.
LEMMA OwnNewWorker ==
    ASSUME TypeOK, Own, NEW w \in WorkerIds, worker_constructor_call(w) \/ worker_spawn_call(w)
    PROVE  Own'
<1>1. /\ thread[w] = "none" /\ thread' = [thread EXCEPT ![w] = "starting"]
      /\ registry' = registry /\ poll' = poll /\ polling' = polling /\ terminated' = terminated
    BY DEF worker_constructor_call, worker_spawn_call, recordVars
<1>2. \/ w \notin Raw /\ agenda' = <<Step("insert", w), Step("setInterval", w)>>
      \/ agenda' = <<Step("insert", w)>>
    BY ZenonT(60) DEF worker_constructor_call, worker_spawn_call
<1>3. /\ \A i \in 1..Len(agenda') : agenda'[i].worker = w
      /\ Len(agenda') \in 1..2 /\ agenda'[1].op = "insert"
      /\ Len(agenda') = 2 => agenda'[2].op = "setInterval" /\ w \notin Raw
    BY <1>2 DEF Step
<1>4. thread'[w] # "none" /\ ~terminated'[w] /\ w \notin registry'
    BY TypeFacts, OwnFacts, <1>1
<1>5. \A i \in 1..Len(agenda') : StepOk(i)'
    BY <1>3, <1>4 DEF StepOk
<1>6. QED
    BY TypeFacts, <1>1, <1>5 DEF Own

\* The record of a worker is registered.
LEMMA OwnInsert ==
    ASSUME TypeOK, Own, NEW w \in WorkerIds, insert(w)
    PROVE  Own'
<1>1. /\ agenda # <<>> /\ Head(agenda) = Step("insert", w)
      /\ poll' = poll /\ polling' = polling /\ terminated' = terminated /\ thread' = thread
    BY ZenonT(60) DEF insert, recordVars, threadVars
<1>2. Len(agenda) >= 1 /\ agenda[1].op = "insert" /\ agenda[1].worker = w
    BY TypeFacts, <1>1, Rest DEF Step
<1>3. /\ thread[w] # "none" /\ ~terminated[w]
      /\ \A j \in 2..Len(agenda) : agenda[j].op = "setInterval"
    BY TypeFacts, OwnSteps, <1>2 DEF StepOk
<1>4. CASE agenda' = <<>> /\ registry' = registry
    BY <1>1, <1>4 DEF Own
<1>5. CASE agenda' = Tail(agenda) /\ registry' = registry \cup {w}
    <2>1. /\ Len(agenda) \in Nat /\ Len(agenda') = Len(agenda) - 1
          /\ \A i \in 1..Len(agenda') : agenda'[i] = agenda[i + 1]
        BY TypeFacts, <1>1, <1>5, Rest
    <2>2. ASSUME NEW i \in 1..Len(agenda') PROVE StepOk(i)'
        <3>1. i + 1 \in 1..Len(agenda) /\ i + 1 \in 2..Len(agenda) /\ agenda'[i] = agenda[i + 1]
            BY <2>1
        <3>2. StepOk(i + 1) /\ agenda[i + 1].op = "setInterval"
            BY OwnSteps, <1>3, <3>1
        <3>3. QED
            BY <1>1, <3>1, <3>2 DEF StepOk
    <2>3. QED
        BY <1>1, <1>3, <1>5, <2>2 DEF Own
<1>6. QED
    BY <1>4, <1>5 DEF insert

\* The interval of a registered worker.
LEMMA OwnInterval ==
    ASSUME TypeOK, Own, NEW w \in WorkerIds, install_worker_poll_timer(w)
    PROVE  Own'
<1>1. /\ agenda # <<>> /\ Head(agenda) = Step("setInterval", w) /\ agenda' = Tail(agenda)
      /\ poll' = poll \cup {w}
      /\ UNCHANGED <<registry, polling, thread, terminated>>
    BY ZenonT(60) DEF install_worker_poll_timer, recordVars, threadVars
<1>2. 1 \in 1..Len(agenda) /\ agenda[1].op = "setInterval" /\ agenda[1].worker = w
    BY TypeFacts, <1>1, Rest DEF Step
<1>3. w \notin Raw
    BY OwnSteps, <1>2 DEF StepOk
<1>4. \A i \in 1..Len(agenda') : StepOk(i)'
    BY TypeFacts, <1>1, TailOk
<1>5. QED
    BY <1>1, <1>3, <1>4 DEF Own

\* terminate takes the worker off the registry.
LEMMA OwnTerminate ==
    ASSUME TypeOK, Own, NEW w \in WorkerIds, terminate(w) \/ worker_terminate_call(w)
    PROVE  Own'
<1>1. /\ w \in registry /\ registry' = registry \ {w} /\ poll' \subseteq poll
      /\ polling' = polling /\ terminated' = terminated /\ thread' = thread
      /\ agenda' = <<Step("terminate", w)>> \o Drop(w)
    BY DEF terminate, worker_terminate_call, recordVars, threadVars
<1>2. /\ Len(agenda') \in 1..2 /\ agenda'[1] = Step("terminate", w)
      /\ Len(agenda') = 2 => agenda'[2] = Step("join", w) /\ polling # w
    BY <1>1, TerminateAgenda
<1>3. /\ \A i \in 1..Len(agenda') : agenda'[i].worker = w
      /\ Len(agenda') \in 1..2 /\ agenda'[1].op = "terminate"
      /\ Len(agenda') = 2 => agenda'[2].op = "join" /\ polling # w
    BY <1>2 DEF Step
<1>4. \A i \in 1..Len(agenda') : StepOk(i)'
    BY OwnFacts, <1>1, <1>3 DEF StepOk
<1>5. QED
    BY <1>1, <1>4 DEF Own

\* The drop of the host empties the registry.
LEMMA OwnDropHost ==
    ASSUME TypeOK, Own, drop_host
    PROVE  Own'
<1>2. /\ registry' = {} /\ poll' = {} /\ polling = None /\ polling' = polling
      /\ terminated' = terminated /\ thread' = thread
    BY ZenonT(60) DEF drop_host, recordVars, threadVars
<1>0. PICK n \in Nat : \E ws : HostAgenda(n, ws)
    BY DropAgenda, ZenonT(60) DEF TypeOK
<1>1. PICK ws : HostAgenda(n, ws)
    BY <1>0, ZenonT(60)
<1>3. /\ n \in Nat /\ Len(agenda') = n + n
      /\ \A i \in 1..n : agenda'[i] = Step("terminate", ws[i])
      /\ \A i \in 1..n : agenda'[n + i] = Step("join", ws[i])
      /\ \A i \in 1..n : ws[i] \in registry
      /\ \A i, j \in 1..n : ws[i] = ws[j] => i = j
    BY <1>1, ZenonT(60) DEF HostAgenda
<1>4. ASSUME NEW i \in 1..Len(agenda') PROVE StepOk(i)'
    <2>1. CASE i <= n
        <3>0. i \in 1..n
            BY <1>3, <2>1
        <3>1. agenda'[i].op = "terminate" /\ agenda'[i].worker = ws[i] /\ ws[i] \in registry
            <4>1. agenda'[i] = Step("terminate", ws[i]) /\ ws[i] \in registry
                BY <1>3, <3>0, ZenonT(60)
            <4>2. QED
                BY <4>1 DEF Step
        <3>2. ASSUME NEW j \in 1..Len(agenda'), agenda'[j].op = "terminate", agenda'[j].worker = ws[i]
              PROVE  j = i
            <4>1. CASE j <= n
                <5>1. j \in 1..n
                    BY <1>3, <4>1
                <5>2. agenda'[j] = Step("terminate", ws[j])
                    BY <1>3, <5>1, ZenonT(60)
                <5>3. ws[j] = ws[i]
                    BY <3>2, <5>2 DEF Step
                <5>4. QED
                    BY <1>3, <3>0, <5>1, <5>3, ZenonT(60)
            <4>2. CASE j > n
                <5>1. j - n \in 1..n /\ n + (j - n) = j
                    BY <1>3, <4>2
                <5>2. agenda'[j] = Step("join", ws[j - n])
                    BY <1>3, <5>1
                <5>3. QED
                    BY <3>2, <5>2 DEF Step
            <4>3. QED
                BY <1>3, <4>1, <4>2
        <3>o. thread[ws[i]] # "none" /\ ~terminated[ws[i]]
            BY OwnFacts, <3>1
        <3>3. agenda'[i].op # "insert" /\ agenda'[i].op # "setInterval" /\ agenda'[i].op # "join"
            BY <3>1
        <3>4. /\ thread'[agenda'[i].worker] # "none" /\ ~terminated'[agenda'[i].worker]
              /\ agenda'[i].worker \notin registry'
            BY <1>2, <3>1, <3>o, ZenonT(60)
        <3>5. \A j \in 1..Len(agenda') :
                  agenda'[j].op = "terminate" /\ agenda'[j].worker = agenda'[i].worker => j = i
            BY <3>1, <3>2, ZenonT(60)
        <3>6. QED
            BY <3>3, <3>4, <3>5, ZenonT(60) DEF StepOk
    <2>2. CASE i > n
        <3>1. i - n \in 1..n /\ n + (i - n) = i
            BY <1>3, <2>2
        <3>2. agenda'[i] = Step("join", ws[i - n]) /\ ws[i - n] \in registry
            BY <1>3, <3>1
        <3>3. agenda'[i].op = "join" /\ agenda'[i].worker = ws[i - n] /\ ws[i - n] \in WorkerIds
            BY TypeFacts, <3>2 DEF Step
        <3>o. thread[ws[i - n]] # "none"
            BY OwnFacts, <3>2
        <3>4. QED
            BY <1>2, <3>3, <3>o, WorkersAssumption DEF StepOk
    <2>3. QED
        BY <1>3, <2>1, <2>2
<1>5. QED
    BY <1>2, <1>4 DEF Own

\* A worker is terminated once.
LEMMA OwnShutdown ==
    ASSUME TypeOK, Own, NEW w \in WorkerIds, send_shutdown(w)
    PROVE  Own'
<1>1. /\ agenda # <<>> /\ Head(agenda) = Step("terminate", w)
      /\ agenda' = Terminate(w) \o Tail(agenda)
      /\ terminated' = [terminated EXCEPT ![w] = TRUE]
      /\ registry' = registry /\ poll' = poll /\ polling' = polling /\ thread' = thread
    BY ZenonT(60) DEF send_shutdown, threadVars
<1>2. 1 \in 1..Len(agenda) /\ agenda[1].op = "terminate" /\ agenda[1].worker = w
    BY TypeFacts, <1>1, Rest DEF Step
<1>3. /\ thread[w] # "none" /\ w \notin registry
      /\ \A j \in 1..Len(agenda) : agenda[j].op = "terminate" /\ agenda[j].worker = w => j = 1
    BY OwnSteps, <1>2 DEF StepOk
<1>4. /\ Len(agenda) \in Nat /\ Len(agenda') = Len(agenda) + 1
      /\ agenda'[1] = Step("interrupt", w) /\ agenda'[2] = Step("cancel", w)
      /\ \A i \in 3..Len(agenda') : agenda'[i] = agenda[i - 1]
    BY TypeFacts, <1>1, ShutdownAgenda, ZenonT(60)
<1>5. ASSUME NEW i \in 1..Len(agenda') PROVE StepOk(i)'
    <2>1. CASE i \in 1..2
        <3>1. agenda'[i].worker = w /\ agenda'[i].op \in {"interrupt", "cancel"}
            BY <1>4, <2>1 DEF Step
        <3>2. /\ agenda'[i].op # "insert" /\ agenda'[i].op # "setInterval"
              /\ agenda'[i].op # "terminate" /\ agenda'[i].op # "join"
            BY <3>1
        <3>3. thread'[agenda'[i].worker] # "none"
            BY <1>1, <1>3, <3>1, ZenonT(60)
        <3>4. QED
            BY <3>2, <3>3, ZenonT(60) DEF StepOk
    <2>2. CASE i \in 3..Len(agenda')
        <3>1. /\ i - 1 \in 1..Len(agenda) /\ i - 1 # 1 /\ agenda'[i] = agenda[i - 1]
              /\ StepOk(i - 1) /\ agenda[i - 1].worker \in WorkerIds
            <4>1. i - 1 \in 1..Len(agenda) /\ i - 1 # 1 /\ agenda'[i] = agenda[i - 1]
                BY <1>4, <2>2
            <4>2. StepOk(i - 1) /\ agenda[i - 1].worker \in WorkerIds
                BY TypeFacts, OwnSteps, <4>1, AgendaWorkers, ZenonT(60)
            <4>3. QED
                BY <4>1, <4>2, ZenonT(60)
        <3>2. agenda[i - 1].op # "insert"
            BY <3>1 DEF StepOk
        <3>3. ASSUME agenda[i - 1].op = "terminate"
              PROVE  /\ ~terminated'[agenda[i - 1].worker] /\ agenda[i - 1].worker \notin registry
                     /\ \A j \in 1..Len(agenda') :
                            agenda'[j].op = "terminate" /\ agenda'[j].worker = agenda[i - 1].worker => j = i
            <4>1. /\ ~terminated[agenda[i - 1].worker] /\ agenda[i - 1].worker \notin registry
                  /\ \A j \in 1..Len(agenda) :
                         agenda[j].op = "terminate" /\ agenda[j].worker = agenda[i - 1].worker => j = i - 1
                BY <3>1, <3>3 DEF StepOk
            <4>2. agenda[i - 1].worker # w
                BY <1>3, <3>1, <3>3
            <4>3. ASSUME NEW j \in 1..Len(agenda'), agenda'[j].op = "terminate",
                         agenda'[j].worker = agenda[i - 1].worker
                  PROVE  j = i
                <5>1. j \in 3..Len(agenda')
                    BY <1>4, <4>3 DEF Step
                <5>2. j - 1 \in 1..Len(agenda) /\ agenda'[j] = agenda[j - 1]
                    BY <1>4, <5>1
                <5>3. j - 1 = i - 1
                    BY <4>1, <4>3, <5>2
                <5>4. QED
                    BY <1>4, <5>1, <5>3, <2>2
            <4>4. QED
                BY TypeFacts, <1>1, <3>1, <4>1, <4>2, <4>3
        <3>4. /\ thread'[agenda'[i].worker] # "none"
              /\ agenda'[i].op = "setInterval" => agenda'[i].worker \notin Raw
              /\ agenda'[i].op = "join" => agenda'[i].worker \notin registry' /\ polling' # agenda'[i].worker
            BY <1>1, <3>1 DEF StepOk
        <3>6. agenda'[i] = agenda[i - 1]
            BY <3>1
        <3>7. agenda'[i].op # "insert"
            BY <3>2, <3>6, ZenonT(60)
        <3>8. agenda'[i].op = "terminate" =>
                  /\ ~terminated'[agenda'[i].worker] /\ agenda'[i].worker \notin registry'
                  /\ \A j \in 1..Len(agenda') :
                         agenda'[j].op = "terminate" /\ agenda'[j].worker = agenda'[i].worker => j = i
            BY <1>1, <3>3, <3>6, ZenonT(60)
        <3>5. QED
            BY <3>4, <3>7, <3>8, ZenonT(60) DEF StepOk
    <2>3. QED
        BY <1>4, <2>1, <2>2
<1>6. QED
    BY TypeFacts, <1>1, <1>3, <1>5 DEF Own

\* Steps of the agenda that change no owner.
LEMMA OwnTail ==
    ASSUME TypeOK, Own, NEW w \in WorkerIds, set_interrupt(w) \/ cancel_all_waiters(w) \/ join(w)
    PROVE  Own'
<1>1. /\ agenda # <<>> /\ agenda' = Tail(agenda) /\ poll' = poll
      /\ UNCHANGED <<registry, polling, thread, terminated>>
    BY ZenonT(60) DEF set_interrupt, cancel_all_waiters, join, recordVars, threadVars
<1>2. \A i \in 1..Len(agenda') : StepOk(i)'
    BY TypeFacts, <1>1, TailOk
<1>3. QED
    BY <1>1, <1>2, ZenonT(60) DEF Own

\* A poll callback goes on or returns.
LEMMA OwnCallback ==
    ASSUME TypeOK, Own, NEW w \in WorkerIds, thread[w] # "none", w \notin Raw, agenda = <<>>,
           \/ agenda' = <<>> /\ polling' = w
           \/ agenda' = <<>> /\ polling' = None /\ w \in registry
           \/ agenda' = <<Step("join", w)>> /\ polling' = None /\ w \notin registry,
           UNCHANGED <<registry, poll, thread, terminated>>
    PROVE  Own'
<1>1. CASE agenda' = <<>>
    BY <1>1, WorkersAssumption DEF Own
<1>2. CASE agenda' = <<Step("join", w)>> /\ polling' = None /\ w \notin registry
    <2>1. \A i \in 1..Len(agenda') : StepOk(i)'
        <3>1. thread'[w] # "none" /\ w \notin registry' /\ polling' # w
            BY <1>2, WorkersAssumption
        <3>2. QED
            BY <1>2, <3>1, JoinOnly, ZenonT(60)
    <2>2. QED
        BY <1>2, WorkersAssumption, <2>1 DEF Own
<1>3. QED
    BY <1>1, <1>2

\* The poll callback drains its channel.
LEMMA OwnPoll ==
    ASSUME TypeOK, Own, NEW w \in WorkerIds, otter_worker_poll(w)
    PROVE  Own'
<1>1. /\ agenda = <<>> /\ w \in poll /\ w \in registry /\ Reach(w, events[w])
      /\ UNCHANGED <<registry, poll, thread, terminated>>
    BY ZenonT(60) DEF otter_worker_poll, Js, Pollable, recordVars, threadVars
<1>2. \/ agenda' = <<>> /\ polling' = w
      \/ agenda' = <<>> /\ polling' = None /\ w \in registry
      \/ agenda' = <<Step("join", w)>> /\ polling' = None /\ w \notin registry
    BY <1>1, ReachShape, ZenonT(60)
<1>3. thread[w] # "none" /\ w \notin Raw
    BY OwnFacts, WorkersAssumption, <1>1
<1>4. QED
    BY OwnCallback, <1>1, <1>2, <1>3, ZenonT(60)

\* Handlers return or throw.
LEMMA OwnDispatch ==
    ASSUME TypeOK, Own, dispatch_event_object \/ dispatch_throws
    PROVE  Own'
<1>1. /\ agenda = <<>> /\ polling \in WorkerIds
      /\ UNCHANGED <<registry, poll, thread, terminated>>
    BY DispatchShape, ZenonT(60)
<1>2. \/ agenda' = <<>> /\ polling' = polling
      \/ agenda' = <<>> /\ polling' = None /\ polling \in registry
      \/ agenda' = <<Step("join", polling)>> /\ polling' = None /\ polling \notin registry
    BY DispatchShape, ZenonT(60)
<1>3. thread[polling] # "none" /\ polling \notin Raw
    BY OwnFacts, WorkersAssumption, <1>1
<1>4. QED
    BY OwnCallback, <1>1, <1>2, <1>3, ZenonT(60)

\* Every step keeps Own.
LEMMA OwnInductive == TypeOK /\ Own /\ [Next]_vars => Own'
<1>1. ASSUME TypeOK, Own, Continue PROVE Own'
    BY <1>1, OwnInsert, OwnInterval, OwnShutdown, OwnTail, ZenonT(60) DEF Continue
<1>2. ASSUME TypeOK, Own, Call PROVE Own'
    BY <1>2, OwnNewWorker, OwnTerminate, OwnDropHost, OtherSteps, ThreadOnly, ZenonT(60) DEF Call
<1>3. ASSUME TypeOK, Own, Handled PROVE Own'
    BY <1>3, OwnDispatch, ZenonT(60) DEF Handled
<1>4. ASSUME TypeOK, Own, NEW w \in WorkerIds, otter_worker_poll(w) \/ Thread(w) \/ Program(w) PROVE Own'
    BY <1>4, OwnPoll, OtherSteps, ThreadOnly, ZenonT(60)
<1>5. ASSUME TypeOK, Own, UNCHANGED vars PROVE Own'
    BY <1>5, OtherSteps, ThreadOnly, ZenonT(60)
<1>6. QED
    BY <1>1, <1>2, <1>3, <1>4, <1>5, ZenonT(60) DEF Next
=============================================================================
