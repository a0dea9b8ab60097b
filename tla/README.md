# A TLA+ model of the Otter runtime

Otter runs JavaScript and TypeScript on isolates. One thread owns an isolate's
virtual machine and heap; everything else reaches it by messages, atomic
counters and flags. This directory models the parts of Otter where threads,
Tokio tasks, collections, crashes and callers meet, checks them with TLC on small instances and proves
the central invariants with TLAPS for every size.

## The system

| Part | State | Operations | What makes it hard |
|---|---|---|---|
| Isolate runner and `RuntimeHandle` (`otter-runtime/src/handle.rs`) | bounded inbox, deferred commands, queue counter, two activity counters, shutdown and interrupt flags | submit, run, drain until idle, reply, interrupt, time out, shut down, drop | many callers, a bounded channel that may be full, commands arriving while another drains, a stop in any phase |
| Host completions (`otter-vm/src/marshal/completer.rs`, `runtime_activity.rs`) | keep-alives, completions in flight | post, redeliver, cancel, release | posting and releasing are two steps on a foreign thread |
| Timers (`otter-vm/src/timers.rs`, `event_loop.rs`, `handle.rs`) | callback table, Tokio tasks and their registry, wake messages, timer counter | schedule, expire, post, run, clear, dispose a realm | three owners of one timer, each with its own idea of whether it is live |
| Host resource liveness (`runtime_activity.rs`) | one flag, level and mutex per resource, two shared counters | retain, clone, `ref_`, `unref`, close, drop | an atomic swap outside the mutex races moves under it |
| Atomics wait and notify (`otter-vm/src/atomics_wait.rs`, `atomics.rs`) | process-wide registry, one slot per blocked thread | wait, waitAsync, notify, cancel all | slots are marked after the registry is released |
| Workers (`otter-runtime/src/worker.rs`) | a registry of records, one thread, two channels and one poll interval per worker | construct, post, transfer, poll, dispatch, terminate, drop, and the worker's own loop | the parent joins a thread that may loop for ever or wait, from inside a native or a handler |
| Garbage collector (`otter-gc/src`) | two generations, remembered set, byte counters | allocate, store, root, reserve, scavenge, full collection, emergency collection | a collection may start inside any allocation, with half-built objects as roots |
| Weak collections (`otter-vm/src/collections.rs`, `scavenger.rs`) | entries of a `WeakMap` over the heap | set, get, delete, three kinds of collection | liveness of a value depends on another object's |
| Package manager (`otter-pm/src`, `otter-cli/src/main.rs`) | manifest, lockfile, package cache, `node_modules`, markers | install, add, remove | every file outlives a process that may die between two writes |
| Module preparation, microtasks, realms, server, key/value store and the sequential parts | | | not modelled, see below |

The parts interact through two things. The inbox carries commands, completions
and timer wakes, and its bound forces redelivery. The counters of referenced
work decide when a command's reply is released: a count too many and the caller
waits for ever, a count too few and it is answered early. Most properties of the
first four parts are about one of the two. Workers add threads that are joined,
and cancel the waits of `AtomicsWait`; the collector runs inside a script step
of the isolate thread alone; the package manager shares nothing with the rest. `PROJECT.json` lists
every component, and the hazards with their source lines.

## Modules

`IsolateRunner` has one action for each atomic access of `handle.rs`. A command
goes through `submit_check`, `submit_reserve`, `submit_send` and
`submit_release`; the isolate thread's `pc` follows `run_until_idle`
(`poll`, `take`, `recv`), `run_command` (`begin`, `script`, `reply`),
`drive_event_loop_to_idle` (`drive`, `block`), `process_message` (`task`) and the
exit guard. Host operations are of four kinds, by their way into the inbox:
an asynchronous native, a plain task, an embedder's settlement, and a dynamic
import. `accepted`, `ticket` and `started` are history variables.

`TimerWakes` follows a timer through the callback table, the Tokio task, the
registry and the inbox. Tokens are numbers, because `clear` tells zero-delay
timers apart by the range of their token and tokens pass through a double;
`FIRST_IMMEDIATE_TOKEN` and `Ulp` scale 2^63 and 2048 down.

`KeepAlive` models `RuntimeKeepAlive` with every access of the flag, the mutex
and the counters a step of its own. `KeepAliveHold` is what the two counters
promise: a resource counts at one level, leaves it and arrives at the other, and
is released once. Its `count` is `pending_host_ops` itself, and the state of a
resource (`AbstractState`) is computed from the steps its calls have reached, so
`HoldSpec` says that the counters change only as those moves allow, one by one.

`AtomicsWait` models the parking registry. A call is used once, so a call and
its `ParkSlot` are the same thing. The list of slots under a key is a set with
the order of the pushes (`ticket`), and a drain takes a prefix of it. The order
in which drained slots are marked is left open.

`Workers` has the parent's natives, its poll callback and the worker's thread.
A native that does several things (`new Worker`, `terminate`, the drop of the
host) puts its steps on `agenda`, and each is an action. A record is dropped,
and its thread joined, where the last reference goes: in `terminate`, or later,
when the poll callback that holds it returns. The programs of parent and
workers are nondeterministic.

`GcHeap` is the heap of one isolate. A cell stands for an object and keeps its
identity when the object moves; a parent whose slot was not updated is in
`stale`. A collection is one step, as it is in the code: the pause ends before
the mutator runs. `alloc` contains the collections it may trigger. The scope is a
heap in which no weak collection is registered, so that the ephemeron and weak
passes of a collection have nothing to do, and `Cap` is not 0, which would switch
the byte accounting off. `WeakTables` extends it with one `WeakMap`.

`PackageInstall` has one step per file operation of `install`, `add` and
`remove`, and `stop`, a crash or an error, between any two. A lockfile id stands
for its archive too, because registry metadata is fetched once per project.
`lockfile` is absent, torn, or maps each id to the metadata its entry was written
with; the entries `remove` writes have none.

The `MC` modules give constants their values. The `Proofs` modules extend a
component's module with its theorems.

## Runs

| Run | Shows |
|---|---|
| `runner_commands` | Three commands compete for two slots while an asynchronous native drains and a caller shuts down. The queue counter and the activity counters are exact; commands keep their order, are not lost, or started after the stop; a reply waits for referenced work. |
| `runner_stop` | An accepted Shutdown message stops the isolate in every phase, `shutdown_and_wait` never sleeps through the exit, an interrupt raised during a script ends it. |
| `runner_replies` | Imports and unreferenced settlements that find the inbox full are delivered, a reply waits for the imports of its script, and the commands are answered. |
| `timers` | Four timers over two scripts with an inbox of two messages, throwing callbacks, a cleared interval and a disposed realm: each is counted once, no wake is lost, zero-delay timers that met room keep their order, no cleared callback runs, every one-shot runs and every command is answered. |
| `keep_alive` | Counters are exact at rest, decrements are matched, the calls implement `KeepAliveHold`, a dropped resource is released. |
| `atomics_wait` | No blocked call is forgotten between drain and mark, outcomes have causes, wakes are bounded and in order, and calls that were drained, interrupted or timed return. |
| `gc_heap` | Collections at every point the code allows: no slot dangles, every old-to-young slot is remembered, `tracked_bytes` covers what is held, no reachable object is reclaimed. |
| `workers` | A `Worker` object and a raw worker, with programs that post, close, throw, wait or loop: events and messages keep their order, transferred buffers are not stranded, no thread is without an owner, `terminate` and the drop of the host return, events reach the parent. |

That commands never nest (`NoRecursiveCommand`), that the registry of waits holds
blocked calls only (`RegistryHoldsBlocked`), and the types of timers, waits, heap
and workers are not among the runs' properties, because they are proved.

Four runs state what a comment or a test of the code says and find it violated:

| Run | Disagreement |
|---|---|
| `lost_wakeup` | `PromiseCompleter::finish` posts, then releases its keep-alive. The isolate can block again in between, and the release wakes nobody. |
| `shutdown_full_inbox` | A shutdown that meets a full inbox sends no message, and a draining runner does not read the flag. |
| `weak_entries` | A full collection triggered by an allocation runs no ephemeron fixpoint, so a value that only a `WeakMap` holds is swept while its key lives. |
| `stale_install` | A `remove` that dies half-way leaves a partial package with a valid marker; the next install calls it current. |

More disagreements can be reproduced by changing constants; no run is kept for
them. Clearing a timer twice, or an immediate after it ran, takes off a second
count (`handle.rs:1892`, `LiveTimerKeepsLoopAlive`, an immediate in `Clearable` beside
a timeout).
An interval whose callback throws is counted off while it stays armed
(`handle.rs:2066`, `LiveTimerKeepsLoopAlive`, one interval in `Clearable` and
`Throwing`). Tokens from 2^63 on are rounded
by the double, so a clear can hit a neighbour (`timers.rs:317`,
`ClearedNeverRuns`, two immediates, the later in `Clearable`). Redelivery can
reorder zero-delay timers when the inbox is full (`handle.rs:2430`; `ImmediateFifo`
excepts the wakes in `retried` for this reason). The reset in
`run_command` can erase the interrupt of a shutdown (`handle.rs:2204`,
`ShutdownWakesScript` with a looping command and a stopper). It also erases the
interrupt of a command that timed out in the queue, whose script then runs
without a limit (`TimeoutStopsScript`, one looping command, `Timeouts` true). A
timeout cleared after it expired and before its wake is handled stays counted
(`handle.rs:1890`, `NoPhantomTimer`, a timeout in `Clearable`). The wait registry
is keyed by the index within a view, not by the byte address (`atomics.rs:668`,
`NotifyTargetsAddress`, views with different offsets). The scavenger nulls a weak
entry whose key is the value of a later entry (`scavenger.rs:564`,
`WeakEntriesKept` with `Grows` false). Adding one range of a package, another, and
the first again reuses the tree of the second without any crash
(`install.rs:129`, `ReusedIsCurrent` with `MaxStops` 0). `remove` prunes the
dependencies of the packages that stay (`main.rs:2240`, `PrunedIsUnneeded`).

Consequently `TimerAccounting` is checked where programs clear intervals and
throw from one-shots only; with the constants of the first three it fails. The
theorem about it has the same hypothesis, `CountedProgram`.

In `AtomicsWait` the element is compared before the slot is pushed, under no
common lock. A store and a notify that fall in between wake nobody. Nothing in
the code says otherwise, so no run states it. `notify` also counts a slot whose
waiter has meanwhile timed out.

`Workers` shows more that no comment speaks of: `terminate` cancels the waits of
the whole process (`worker.rs:124`); the poll interval is not cleared on a close
event (526), so the command of a parent whose worker closed itself stays busy; a
handler that throws loses the rest of its batch (529); `terminate` inside a
handler does not stop the batch; buffers are detached before the send that may
fail (435). `EventsInOrder` and `EventsReachParent` except abandoned batches
(`lost`), and `TransferredNotStranded` ended workers, for these reasons: a buffer
sent to a worker that ends before it reads the message is lost to both sides.

## Bounds

Commands, operations, timers, waits and notifies are used at most once each, so
their numbers bound every run; `Scripts` bounds the run commands of
`TimerWakes`. `Capacity` is 1 or 2 where back-pressure matters, so that a full
inbox is ordinary.
Two commands are needed for deferral and three for order among queued ones. Two
threads and two holds show every race on one hold and its independence of
another. Two waits are enough for one to overtake the other; three took TLC
past a quarter of an hour. `Interruptible` names the waits whose runtime is
interrupted and is a bound too. `timers` has two immediates, a timeout and an
interval, one of each for every exception (cleared, throwing, disposed).
`workers` has one message each way, one buffer and a second worker whose thread
competes for the join and the cancel; that longer sequences of commands keep
their order is proved.
`gc_heap` has four objects, a nursery of two and a cap of three, so that ageing,
promotion, direct old allocation and the emergency collection all happen;
`MaxEdges` and `MaxReserved` cap slots and reservations. `stale_install` has
three ids, two of one package, three commands and one crash. Symmetry of the
cells is used in `gc_heap` and `weak_entries`, which check safety only. Deadlock
is not checked: all these systems may rest when no caller calls.

## Fairness

The isolate thread, and any thread or Tokio task inside a call, is scheduled
again (weak fairness). A poll interval, a sleep or a deadline elapses. No caller
has to call. `FairHostSpec` adds that started host futures resolve; only the
properties about answers need it. A looping script does not return unless
interrupted, and no fairness says it does. In `Workers` the parent finishes a
native it is in (`Continue`) and a handler it runs (`Handled`), the poll interval
ticks, and a worker's thread is scheduled; its program may still loop or wait for
ever. `NativesReturn` and `EventsReachParent` need no more.

## Proofs

All theorems hold for every value of the constants that satisfies the named
`ASSUME` of the module; finiteness of the sets that are counted is the only
restriction of size. A leaf goes to the SMT solver unless it names Zenon or PTL.

- `IsolateRunnerQueue` (the invariant, types, program counter, and one lemma for
  each thing that moves a command) and `IsolateRunnerProofs` (all steps, the stop,
  the host operations, the theorems). `QueueAccounting` and `FifoExecution` are
  not inductive. The invariant adds what the program counter says about the
  current command, that a command has a ticket exactly when its send succeeded,
  that inbox and deferred queue are sorted by ticket behind everything started,
  and where each accepted command is. `StopInv` adds that the isolate's own flag
  implies the shared one. From these: types, exact queue counter, order, no
  nesting, no lost command, no dropped completion, no start after the stop.
  `HostInv` is about the host operations. `ActivityAccounting` alone is not
  inductive, because a decrement that saturates at zero is exact only if its
  operation is counted. `KeepInv` says until when an asynchronous native has its
  keep-alive, `MailInv` that an operation is in the inbox at most once, `JobInv`
  that the message being executed was taken out of it. Every step then moves one
  operation and one count (`OpStep`), or neither (`Calm`), and the drop of the
  isolate ends the accounting. A reply is reached only from a drive loop that read
  zero, and an outstanding native or import of a script would be in that count.
- `TimerWakesProofs`. `IInv` says that a timer leaves no trace before it is
  scheduled, that an immediate has no Tokio task, that an aborted task has lost
  its callback, and that a token names one timer, in the range of its kind. It
  holds for every program, and so does `WakeOnItsWay`. The other three have a
  hypothesis on the program, because the code does not do it for every program
  (see above). For `ClearedNeverRuns` and `ImmediateFifo` it is that immediates are
  not cleared (`ClearsNoImmediate`): the double that names one may name its
  neighbour. `ClearedInv` says a cleared timer is not armed, which lasts because
  nothing arms a timer twice; `FifoInv` that an immediate whose wake met room is
  queued with nothing scheduled later in front of it. For `TimerAccounting` it is
  `CountedProgram`, and `CountInv` adds that an armed interval is exactly one with
  a join handle, so that its clear takes off one count.
- `KeepAliveProofs`. A ghost, `held`, says where each hold is counted. The
  invariant says who is inside the mutex, that the swap elects one releaser, and
  where a hold is counted at each step; the counters are the cardinalities. From
  these: exact counters, matched decrements, a referenced hold keeps the loop
  alive, and the refinement of `KeepAliveHold`. There `AbstractState` says of a
  hold that counts somewhere exactly where (`Counted`), so the counter that a
  decrement finds is not zero and the saturating subtraction is a subtraction.
- `AtomicsWaitProofs`. `SlotInv` says a slot belongs to the registry, then to the
  one waker that drained it; `OrderInv` that tickets are below the number of
  pushes; `NotifyState` that `count - woken` does not underflow. From these: all
  safety properties of `atomics_wait`.
- `GcHeapProofs`. `HeapOk` says that roots and slots of allocated objects lead to
  allocated objects, that old parents of young objects are remembered and that no
  slot is stale; `IInv` adds that `tracked_bytes` covers the heap. Each collection
  is shown to keep `HeapOk` and everything its roots reach, whatever the roots;
  then each operation is a composition of these. From these: all properties of
  `gc_heap`, the action property `ReclaimOnlyGarbage` included.
- `WorkersTypes` (types, and `Own`: what every step on the agenda and every
  registered record says of its thread) and `WorkersProofs`. `CmdInv` says that
  what a worker received followed by what is queued is 1, 2, ... up to the last
  post, then Shutdown; `Carried` that a transferred buffer is in one of the two.
  `EvInv` says that what the parent took, the rest of the batch of the callback
  (`Undispatched`) and what is in the channel are one run of numbers, and that
  none is missing while the worker is `Live`: its thread has not ended, or its
  record is registered, polled, or about to be registered. The last case is what
  makes it inductive, as a worker may post and end before `new Worker` registers
  it. From these: types, no thread without an owner, command order, event order,
  no stranded buffer.

Only model-checked: liveness, which is out of the prover's reach, and what the
runs show violated. `WeakTables` and `PackageInstall` have no passing property
and no theorem. Every other invariant and action property of a passing run is
proved.

## Not modelled

JavaScript values, marshalling, the interpreter, the compiler and the JIT are
data or sequential code. A script is a step that may loop, throw, or start host
work. Errors of memory allocation and poisoned mutexes are left out. The order of
memory accesses is sequentially consistent. In `AtomicsWait` there is one shared
buffer, an element is 0 or 1, and `waitAsync` calls that sleep inline register
nothing and are left out.

In `GcHeap` the incremental marking driver is left out, because only tests call
it, and so are finalizers, shared external releases and the allocation path that
never collects. What a registered weak collection keeps alive, or leaves behind
as floating garbage, is outside `GcHeap` and its theorems. `WeakSet`, `WeakRef` and `FinalizationRegistry` are left out of
`WeakTables`. In `Workers` structured clone, listener lists, workers started by
workers and the host-side `Worker` and `OtterPool` are left out, and a channel
never disconnects under the worker's loop, because its record keeps the sender.
`PackageInstall` leaves out version selection, the import of other lockfile
formats, lifecycle scripts (a failing one is `stop`) and two commands at a time.

Not modelled at all, although they have state that several actors touch: module
preparation with its shared source cache, host promises against realm disposal,
the timeout guard of direct calls, the HTTP server, the key/value store and the
read-modify-write operations of `Atomics`. `PROJECT.json` gives the reasons. The bulk of the repository, the interpreter, the built-ins, the
compiler, the JIT and the compatibility layers, is sequential code over
JavaScript values; a model of it would be a second implementation, so the modules
here cover about one per cent of the source lines: those where threads, tasks,
collections and crashes meet.
