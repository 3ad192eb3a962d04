# TLA+ models of c-trpc

c-trpc is a C library for remote procedure calls over multiplexed connections.
This directory holds specifications of its concurrent core, the configurations
that model-check them with TLC, and proofs checked by TLAPS.

## 1. The system

A **reactor** (`src/execution/reactor.c`) is one owner thread with an epoll loop.
All connection state belongs to the owner. Other threads reach it through two
bounded queues only: the **command queue** (send, synchronous calls, STOP) and
the **completion queue** (results of worker threads). Both wake the owner
through one eventfd. On the owner run a **timer queue** (indexed heap), the
**transmit path** (one FIFO per connection, reserved GOAWAY and RESET items, a
"TX drained" observer) and the receive path. A **task executor** runs work on
threads and delivers results to its owner. **Buffer pools** grow against a
two-level **memory budget**.

A **channel** (`src/transport/channel/channel.c`) multiplexes streams over one
connection: byte credit with WINDOW_UPDATE, half close, a two-way RESET, refusal
of OPEN, GOAWAY drain, and a maintenance timer that retries what the reactor
refused. Above it are the RPC V2 record layers, the message service, the
runtime, pipeline groups and the client and server facades.

### Inventory

| component | state | operations | hard behaviours |
|---|---|---|---|
| command queue | ring, STOP slot, admission generation, sequence, wake bit | push, push_wait, push_wait_force, pop_batch, wait_open/close | full ring against stop; restart under a sleeping producer; sequence wrap |
| completion queue | ring, admission generation, wake bit | open, close, push_wait, pop_batch | worker outside the control lock; lost wakeup |
| reactor lifecycle | started, accepting, stop_submitted, fatal_exit, eventfd, caller-owned sync objects | start, stop, join, call, call_or_stopped, sendv, complete, owner loop | failing poll; caller's stack frame referenced from a queue; join failure and retry |
| reactor transmit | slots with generations, TX FIFO, reserved items, frontiers | send, direct append, flush, close, adopt, drain observer | reordering, partial writes, reuse of a slot under queued commands |
| timer queue | entries, heap, free list, versions | register, arm, unregister, run_due | callback that re-enters the queue; removal from the middle of the heap |
| task executor | slots, three lists, workers | submit, cancel, dispatch, stop, join, destroy | stale handles; stop against running work |
| buffer pool, budget | descriptors, free list, counters | acquire, release, destroy, reserve, rollback | two-step reservations of several threads |
| channel | stream slots, credit, pending work, drain state, timer | open, send, release, close, reset, drain, frame handlers, maintenance | frames that cross; refusal by the reactor at any send; shared reserved item |
| RPC records, message service, runtime, groups, connector, facades | not modelled yet | | see section 7 |

`PROJECT.json` lists every component with its sources, the hazards by source
line, and for every definition the source lines it stands for.

## 2. Modules

| module | models | form |
|---|---|---|
| `CommandQueue` | `command_queue.c` | one operator per critical section; no threads of its own |
| `CompletionQueue` | `completion_queue.c` | the same |
| `ReactorLifecycle` | start/stop/call/complete and the owner loop of `reactor.c` | extends both queues; processes Callers, Senders, Workers, Controller, Owner |
| `ReactorTypeProofs`, `ReactorSyncProofs`, `ReactorStopProofs` | theorems about it, one module per theorem | TLAPS |
| `ReactorTx` | command dispatch and transmit path of `reactor.c` | extends `CommandQueue`; sequence arithmetic modulo `SequenceLimit` |
| `TaskContract`, `TaskExecutor` | contract and implementation of `task_executor.c` | refinement |
| `TimerContract`, `TimerQueue` | contract and implementation of `timer_queue.c` | refinement; sifting is recursive |
| `BufferPool` | `buffer.c`, `memory_budget.h` | every CAS is a step |
| `Channel` | two channels on one connection | each handler is a function from channel record to channel record |
| `MC*` | instances for TLC | |

How state and code correspond:

- A mutex section is one action. A lock kept over several steps (`ctl_lock`) is
  a variable naming its holder. A condition variable is the set of threads
  asleep on it; a broadcast empties the set, spurious wakeups are actions.
- In `ReactorLifecycle` `pc`, `control` and `owner` are program counters.
  `seen` and `round` are history: they name the round in which an operation was
  admitted, so that leaking into another round becomes visible.
- In `ReactorTx` an accepted request gets an id in order of acceptance;
  `accepted` and `wire` are history. A frame has two halves, so that a write may
  stop in the middle of it.
- In `Channel` the reactor is what `ReactorTx` shows it to be: ordinary sends
  may be refused, accepted frames leave in order except that a WINDOW_UPDATE may
  overtake DATA, and there is one reserved item for RESET and REFUSED.
- Payloads, names and error texts are left out; a message is its length.

The operators named after a slip (`PushStatusUnbounded`,
`CallReturnAfterAnyWakeup`, ...) stand directly before the definition they
distort. They are used by no specification; each shows that some property
notices the slip.

## 3. Runs

Every run except the last passes.

| run | instance | what it shows |
|---|---|---|
| `reactor_safe` | a caller, a sender, a worker and one callback send, queues of 1, batches of 1, 2 rounds | `NoDanglingSync` (no command outlives the stack frame it points at), `NoLostWakeup`, `NothingLeftBehind`, `RoundIsolation`, `StopNotRefused`, `StoppedCallExcludesOwner`, `TypeOK` |
| `reactor_call_live` | 2 callers and a callback send, ring of 1, 2 rounds | `CallReturns`, `StopReturns` |
| `reactor_complete_live` | 2 workers, completion queue of 1, 2 rounds | `CompleteReturns` |
| `tx_order` | one slot with two generations, DATA, WINDOW_UPDATE, GOAWAY, RESET, 3 accepted requests, sequence starting 3 below its wrap | order, whole frames, no loss, no stale transmit, the drain frontier, `TxBookkeeping` (exact count of waiting reserved items, no direct append past one), bounded bypass |
| `tx_live` | DATA, GOAWAY, RESET and a drain observer over the wrap | `ReservedLeaves`, `DrainNotified` |
| `task_executor` | 2 workers, 2 slots, 3 tasks, 2 generations per slot | list integrity, exactly once, exact cancellation, quiescent destroy, refinement of `TaskContract`, delivery and worker exit |
| `timer_queue` | 6 timers, 2 deadlines, 2 operations inside a callback | `HeapSound` (index and heap order), refinement of `TimerContract` |
| `buffer_budget` | 3 threads, 2 pools of 2 buffers, a root limit too small for both | exact accounting, single holder |
| `channel_credit` | 1 stream, window 3, messages of 1 or 2 bytes in frames of 1, 5 bytes, resets of both sides, connection loss | `CreditConserved`, `CreditRestored` |
| `channel_cross` | both sides open, close, reset and drain; 2 client slots, 1 server slot, 1 byte | `NoProtocolError`, `NoOrphanStream`, `DrainBoundary`, `RetryArmed`, `DrainedStable` |
| `channel_live` | 2 client opens against 1 server slot, resets and drains of both sides | `ResetCompletes`, `DrainCompletes`, `OpenAnswered` |
| `channel_half_close` | a caller that keeps returning credit after CLOSE | **violates** `NoProtocolError`, see section 6 |

### Bounds

Queues of one slot make "full" the common case. Two rounds are enough for a
producer of one round to meet the queue of the next. That a caller's older
command never meets a later call is proved for any number of calls. The sequence
starts just below its wrap. Six timers are the smallest heap in which a removal must sift up, and
two nested operations let a callback unregister its timer and reuse the slot. A
window of three with messages of two makes the clamp of the update threshold
matter. One server slot makes refusal reachable.

`timer_queue` uses a view: versions and generations are only compared with the
ones the running callback started with, and the assumption `NoWrapInCallback`
keeps them from coming round within one callback, so the outcome of the
comparison identifies states. What happens after 2^64 operations inside one
callback is therefore not examined. `buffer_budget`, which has no
liveness property, uses the symmetry of threads and pools.

The channel runs do not check deadlock: when the bounded opens and bytes are
spent, both peers idle and nothing is left to do. `Terminated` plays that part
in the other modules.

### Fairness

- `ReactorLifecycle`: weak fairness of every step of a thread that is inside an
  operation, and of the owner: the operating system schedules threads. Not
  assumed: that an operation begins, that poll is interrupted or fails, that a
  join fails.
- `ReactorTx`: the owner loop visits command dispatch, flush and the drain
  observer again and again, and the peer reads.
- `TaskExecutor`: workers are scheduled and `work()` returns. Dispatch is
  strongly fair, because between two dispatches the owner may attempt a join,
  which disables it for a moment.
- `Channel`: the owner delivers frames, runs its armed timer, and transmits; the
  reactor is not full for ever, so some maintenance round finds room. The
  application releases what it receives, and closes its streams once a drain has
  begun. Weak fairness of delivery, maintenance and release is written with
  explicit enabling conditions in place of ENABLED.

## 4. Proofs

The theorems hold for every set of threads, every capacity and batch size and
every number of rounds. They use the assumptions stated in the modules:
positive capacities and batches, a sequence limit above 1, disjoint sets of
threads.

- **TypeCorrect** (`ReactorTypeProofs`), `Spec => []TypeOK`: both rings stay within capacity. One lemma
  per kind of thread; the lemmas on `pop_batch` and `enqueue_locked` say what
  these do to a sequence.
- **SyncSafe** (`ReactorSyncProofs`), `Spec => []NoDanglingSync`. The property is not inductive: it
  allows a second command of the same call, whose dispatch would find the object
  gone. `SyncInv` adds that a caller has at most one command in ring and batch
  together, that a caller still waiting for capacity has an open object, and
  that the reserved slot holds only STOP. A step that touches no queue preserves
  it by `SyncFrame`; `SyncEnqueue`, `SyncPop`, `SyncDispatch` and `SyncAbort`
  treat the others.
- **StoppedCallSafe** (`ReactorStopProofs`), `Spec => []StoppedCallExcludesOwner`. The strengthening is
  `LockInv` (who holds `ctl_lock` over several steps) with `LifeInv` (how
  started, accepting and stop_submitted follow the owner's life).

Only model-checked: everything else in section 3. Liveness and ENABLED, what the
recursive heap operators compute for every heap, and induction over data are
outside what the prover does. The other safety properties are candidates for
proofs (section 7).

## 5. What the checks rest on

- Sequentially consistent steps: the code's locks and sequentially consistent
  atomics justify this where they are used; weaker orderings are not modelled.
- `ReactorLifecycle` leaves connections out of the owner's turn and `ReactorTx`
  leaves start and stop out. They share `CommandQueue`.
- In `Channel` a handler is one step although it takes `channel->lock` several
  times: each later section looks the stream up again by its handle.
- `tr_reactor_stop` closes the two queues in one step; they share no data.

## 6. Finding

`channel_half_close`. After an ordinary half-close the closing side keeps
returning receive credit, as the comment at
`src/transport/channel/channel_internal.h:29` prescribes. When it consumes the
last reply it sends WINDOW_UPDATE. The peer may by then have sent its own CLOSE
and retired the stream; `tr_channel_handle_window_update` finds no stream and
aborts the connection with all its other streams. The RPC layers stop credit
before CLOSE and avoid this (`StopCreditBeforeClose = TRUE` in the other runs).

## 7. Plan

Done, in this order: queues, reactor lifecycle with proofs, transmit path, task
executor, timers, buffers, channel.

Next, models:

1. Channel: HELLO, reconnect, keepalive, control-TX watch.
2. Receive path: the incremental parser as an algorithm against a reference.
3. Record layers: `RecordState` as the abstract specification of one call;
   producer mailbox, client call table and dispatcher refine it.
4. Message service (acknowledge before dispatch) on top of `TaskExecutor`.
5. Runtime and facades: claims, peer accounting, stop and destroy order.
6. Pipeline groups: registry, routes, attach, cancel, detach.
7. Connector and byte endpoints.

Next, proofs: `NothingLeftBehind` and `RoundIsolation` of the reactor;
`SlotAccounting`, `ExactlyOnce` and the refinement of the task executor;
`PendingCountExact` and `DirectAppendIsLast` of the transmit path; the credit
invariants of the channel.

Not modelled and not planned: TLS (a thin layer over OpenSSL), compression,
checksums and codecs (pure data), deadline helpers (they are the waiting steps
of the modules above). `set_notify` and `adopt_cleanup` of the task executor and
event sources, adoption and recovery of the reactor are left out for now.
