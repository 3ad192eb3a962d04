------------------------- MODULE ReactorLifecycle -------------------------
(***************************************************************************)
(* One reactor, its owner thread, the threads that submit work to it and   *)
(* the thread that starts and stops it (src/src/execution/reactor.c).      *)
(*                                                                         *)
(*   Callers   tr_reactor_call / quiesce / set_handler: a synchronous      *)
(*             request whose completion object lives on the caller's stack *)
(*             and tr_reactor_call_or_stopped on a stopped reactor         *)
(*   Senders   tr_reactor_sendv and the other immediate commands           *)
(*   Workers   tr_reactor_complete from a worker thread                    *)
(*   Controller tr_reactor_start, tr_reactor_stop (externally serialised)  *)
(*   Owner     tr_reactor_thread_main                                      *)
(*                                                                         *)
(* ctl_lock is the mutex of that name: a thread that holds it over several *)
(* steps is recorded in the variable, every other ctl_lock section is one  *)
(* step guarded by the lock being free.  The eventfd is the Boolean        *)
(* wake_fd: its counter is only ever compared with zero.                   *)
(***************************************************************************)
EXTENDS CommandQueue, CompletionQueue

CONSTANTS Callers, Senders, Workers,
          Controller, Owner, NoThread,
          CommandBatch,      \* TR_COMMAND_BATCH: commands per owner turn
          CompletionBatch,   \* TR_COMPLETION_BATCH: completions per turn
          MaxRounds,         \* bound: how often start() may succeed
          MaxCalls,          \* bound: operations per submitting thread
          Casts,             \* bound: which threads submit in one behaviour
          MaxNested          \* bound: sends issued by owner callbacks

Threads == Callers \cup Senders \cup Workers

ASSUME ThreadsAssumption ==
  /\ Callers \cap Senders = {} /\ Callers \cap Workers = {}
  /\ Senders \cap Workers = {}
  /\ Controller \notin Threads /\ Owner \notin Threads
  /\ NoThread \notin Threads \cup {Controller, Owner}
  /\ Controller # Owner
ASSUME BatchAssumption ==
  CommandBatch \in Nat \ {0} /\ CompletionBatch \in Nat \ {0}
ASSUME BoundAssumption ==
  MaxRounds \in Nat /\ MaxCalls \in Nat /\ MaxNested \in Nat

VARIABLES
  ctl_lock, started, accepting, stop_submitted, fatal_exit, stopping,
  wake_fd,
  pc,         \* control state of each submitting thread
  generation, \* admission generation the thread sampled
  seen,       \* round in which it sampled it (history)
  calls,      \* operations the thread has begun (bounded by MaxCalls)
  sync,       \* completion object of a caller: "none" | "pending" | status
  control,    \* control state of the controller
  owner,      \* control state of the owner thread
  batch,      \* commands the owner has popped and not yet dispatched
  commands_pending, completions_pending, completions_left,
  round,      \* number of successful starts (history)
  nested      \* sends attempted so far by the owner's own callbacks

lifeVars == <<ctl_lock, started, accepting, stop_submitted, fatal_exit,
              stopping, wake_fd>>
threadVars == <<pc, generation, seen, calls, sync>>
ownerVars == <<owner, batch, commands_pending, completions_pending,
               completions_left, nested>>
vars == <<cqVars, compVars, lifeVars, threadVars, ownerVars, control, round>>

\* A command names its submitter, which of its operations it is, and the
\* round in which it was admitted; the queue assigns the sequence number.
Command(type, t, n, r) ==
  [type |-> type, from |-> t, n |-> n, round |-> r, sequence |-> 0]

CtlFree == ctl_lock = NoThread

Goto(t, label) == pc' = [pc EXCEPT ![t] = label]

Init ==
  /\ CommandQueueInit /\ CompletionQueueInit
  /\ ctl_lock = NoThread /\ started = FALSE /\ accepting = FALSE
  /\ stop_submitted = FALSE /\ fatal_exit = FALSE /\ stopping = FALSE
  /\ wake_fd = FALSE
  /\ pc = [t \in Threads |-> "idle"]
  /\ generation = [t \in Threads |-> 0]
  /\ seen = [t \in Threads |-> 0]
  /\ \E cast \in Casts :
       calls = [t \in Threads |-> IF t \in cast THEN 0 ELSE MaxCalls]
  /\ sync = [c \in Callers |-> "none"]
  /\ control = "idle" /\ owner = "none" /\ batch = <<>>
  /\ commands_pending = FALSE /\ completions_pending = FALSE
  /\ completions_left = 0
  /\ round = 0 /\ nested = 0

-----------------------------------------------------------------------------
(* Callers: tr_reactor_call, tr_reactor_quiesce, tr_reactor_set_handler.   *)

Begin(t) ==
  /\ pc[t] = "idle" /\ calls[t] < MaxCalls
  /\ calls' = [calls EXCEPT ![t] = @ + 1]

\* Under ctl_lock: refuse unless started and accepting, else sample the
\* command queue's admission generation.
CallAdmit(c) ==
  /\ Begin(c) /\ CtlFree
  /\ started
  /\ generation' = [generation EXCEPT ![c] = tr_command_queue_wait_generation]
  /\ seen' = [seen EXCEPT ![c] = round]
  /\ IF accepting /\ generation'[c] # 0
       THEN Goto(c, "push_wait") /\ sync' = [sync EXCEPT ![c] = "pending"]
       ELSE UNCHANGED <<pc, sync>>
  /\ UNCHANGED <<cqVars, compVars, lifeVars, ownerVars, control, round>>

\* tr_reactor_call_or_stopped on a stopped reactor: the function runs on the
\* calling thread, which keeps ctl_lock until it returns.
CallStoppedUnlessAccepting(c) ==
  /\ Begin(c) /\ CtlFree /\ ~accepting
  /\ ctl_lock' = c
  /\ Goto(c, "direct")
  /\ UNCHANGED <<cqVars, compVars, started, accepting, stop_submitted,
                 fatal_exit, stopping, wake_fd, generation, seen, sync,
                 ownerVars, control, round>>

CallStopped(c) ==
  /\ Begin(c) /\ CtlFree /\ ~started
  /\ ctl_lock' = c
  /\ Goto(c, "direct")
  /\ UNCHANGED <<cqVars, compVars, started, accepting, stop_submitted,
                 fatal_exit, stopping, wake_fd, generation, seen, sync,
                 ownerVars, control, round>>

CallStoppedReturn(c) ==
  /\ pc[c] = "direct"
  /\ ctl_lock' = NoThread
  /\ Goto(c, "idle")
  /\ UNCHANGED <<cqVars, compVars, started, accepting, stop_submitted,
                 fatal_exit, stopping, wake_fd, generation, seen, calls, sync,
                 ownerVars, control, round>>

CallSleep(c) ==
  /\ pc[c] = "push_wait" /\ c \notin not_full
  /\ PushWaitSleep(c, generation[c])
  /\ UNCHANGED <<compVars, lifeVars, threadVars, ownerVars, control, round>>

CallRefused(c) ==
  /\ pc[c] = "push_wait" /\ c \notin not_full
  /\ PushWaitClosed(generation[c])
  /\ Goto(c, "idle")
  /\ sync' = [sync EXCEPT ![c] = "none"]
  /\ UNCHANGED <<cqVars, compVars, lifeVars, generation, seen, calls,
                 ownerVars, control, round>>

CallEnqueueWithoutSignal(c) ==
  /\ pc[c] = "push_wait" /\ c \notin not_full
  /\ PushWaitEnqueue(Command("call", c, calls[c], seen[c]), generation[c])
  /\ Goto(c, "sync_wait")
  /\ UNCHANGED <<compVars, lifeVars, generation, seen, calls, sync,
                 ownerVars, control, round>>

CallEnqueue(c) ==
  /\ pc[c] = "push_wait" /\ c \notin not_full
  /\ PushWaitEnqueue(Command("call", c, calls[c], seen[c]), generation[c])
  /\ Goto(c, IF NeedWake THEN "signal" ELSE "sync_wait")
  /\ UNCHANGED <<compVars, lifeVars, generation, seen, calls, sync,
                 ownerVars, control, round>>

\* tr_reactor_signal: write the eventfd.
CallSignal(c) ==
  /\ pc[c] = "signal" /\ c \in Callers
  /\ wake_fd' = TRUE
  /\ Goto(c, "sync_wait")
  /\ UNCHANGED <<cqVars, compVars, ctl_lock, started, accepting,
                 stop_submitted, fatal_exit, stopping, generation, seen,
                 calls, sync, ownerVars, control, round>>

\* tr_reactor_sync_wait and tr_reactor_sync_destroy: the stack frame that
\* holds the completion object is gone after this step.
CallReturnAfterAnyWakeup(c) ==
  /\ pc[c] = "sync_wait"
  /\ Goto(c, "idle")
  /\ sync' = [sync EXCEPT ![c] = "none"]
  /\ UNCHANGED <<cqVars, compVars, lifeVars, generation, seen, calls,
                 ownerVars, control, round>>

CallReturn(c) ==
  /\ pc[c] = "sync_wait" /\ sync[c] # "pending"
  /\ Goto(c, "idle")
  /\ sync' = [sync EXCEPT ![c] = "none"]
  /\ UNCHANGED <<cqVars, compVars, lifeVars, generation, seen, calls,
                 ownerVars, control, round>>

\* POSIX allows a wait on not_full to return without a broadcast.
CallSpuriousWake(c) ==
  /\ c \in not_full
  /\ not_full' = not_full \ {c}
  /\ UNCHANGED <<items, stop_command, stop_closed, wait_accepting,
                 wait_generation, next_sequence, wake_pending, compVars,
                 lifeVars, threadVars, ownerVars, control, round>>

-----------------------------------------------------------------------------
(* Senders: the whole admission runs under ctl_lock, eventfd write included *)
(* (tr_reactor_sendv_limited, tr_reactor_simple_command, tr_reactor_abort). *)

SendRefused(s) ==
  /\ Begin(s) /\ CtlFree
  /\ ~started \/ ~accepting \/ PushStatus # "ok"
  /\ UNCHANGED <<cqVars, compVars, lifeVars, pc, generation, seen, sync,
                 ownerVars, control, round>>

SendPush(s) ==
  /\ Begin(s) /\ CtlFree
  /\ started /\ accepting
  /\ seen' = [seen EXCEPT ![s] = round]
  /\ tr_command_queue_push(Command("send", s, calls'[s], round))
  /\ IF NeedWake THEN ctl_lock' = s /\ Goto(s, "signal")
                 ELSE UNCHANGED <<ctl_lock, pc>>
  /\ UNCHANGED <<compVars, started, accepting, stop_submitted, fatal_exit,
                 stopping, wake_fd, generation, sync, ownerVars, control,
                 round>>

SendSignal(s) ==
  /\ pc[s] = "signal" /\ s \in Senders
  /\ wake_fd' = TRUE
  /\ ctl_lock' = NoThread
  /\ Goto(s, "idle")
  /\ UNCHANGED <<cqVars, compVars, started, accepting, stop_submitted,
                 fatal_exit, stopping, generation, seen, calls, sync,
                 ownerVars, control, round>>

-----------------------------------------------------------------------------
(* Workers: tr_reactor_complete.  The generation is sampled before the     *)
(* reactor's accepting flag is read, and neither read takes ctl_lock.      *)

CompleteSample(w) ==
  /\ Begin(w)
  /\ generation' =
       [generation EXCEPT ![w] = tr_completion_queue_admission_generation]
  /\ seen' = [seen EXCEPT ![w] = round]
  /\ IF generation'[w] # 0 THEN Goto(w, "gate") ELSE UNCHANGED pc
  /\ UNCHANGED <<cqVars, compVars, lifeVars, sync, ownerVars, control, round>>

CompleteGate(w) ==
  /\ pc[w] = "gate"
  /\ Goto(w, IF accepting THEN "complete" ELSE "idle")
  /\ UNCHANGED <<cqVars, compVars, lifeVars, generation, seen, calls, sync,
                 ownerVars, control, round>>

CompleteSleep(w) ==
  /\ pc[w] = "complete" /\ w \notin c_not_full
  /\ CompletionSleep(w, generation[w])
  /\ UNCHANGED <<cqVars, lifeVars, threadVars, ownerVars, control, round>>

CompleteRefused(w) ==
  /\ pc[w] = "complete" /\ w \notin c_not_full
  /\ ~CompletionAdmits(generation[w])
  /\ Goto(w, "idle")
  /\ UNCHANGED <<cqVars, compVars, lifeVars, generation, seen, calls, sync,
                 ownerVars, control, round>>

CompleteEnqueue(w) ==
  /\ pc[w] = "complete" /\ w \notin c_not_full
  /\ CompletionEnqueue([from |-> w, round |-> seen[w]], generation[w])
  /\ Goto(w, IF CompletionNeedWake THEN "signal" ELSE "idle")
  /\ UNCHANGED <<cqVars, lifeVars, generation, seen, calls, sync, ownerVars,
                 control, round>>

CompleteSignal(w) ==
  /\ pc[w] = "signal" /\ w \in Workers
  /\ wake_fd' = TRUE
  /\ Goto(w, "idle")
  /\ UNCHANGED <<cqVars, compVars, ctl_lock, started, accepting,
                 stop_submitted, fatal_exit, stopping, generation, seen,
                 calls, sync, ownerVars, control, round>>

CompleteSpuriousWake(w) ==
  /\ w \in c_not_full
  /\ c_not_full' = c_not_full \ {w}
  /\ UNCHANGED <<c_items, c_accepting, c_generation, c_wake_pending, cqVars,
                 lifeVars, threadVars, ownerVars, control, round>>

-----------------------------------------------------------------------------
(* Controller: tr_reactor_start.  The owner thread is created first and    *)
(* blocks on ctl_lock until the round is published.                        *)

Start ==
  /\ control = "idle" /\ CtlFree /\ ~started /\ round < MaxRounds
  /\ ctl_lock' = Controller
  /\ stopping' = FALSE /\ fatal_exit' = FALSE
  /\ owner' = "boot"
  /\ round' = round + 1
  /\ tr_completion_queue_open
  /\ control' = "publish"
  /\ UNCHANGED <<cqVars, started, accepting, stop_submitted, wake_fd,
                 threadVars, batch, commands_pending, completions_pending,
                 completions_left, nested>>

StartPublish ==
  /\ control = "publish"
  /\ tr_command_queue_wait_open
  /\ started' = TRUE /\ accepting' = TRUE
  /\ ctl_lock' = NoThread
  /\ control' = "idle"
  /\ UNCHANGED <<compVars, stop_submitted, fatal_exit, stopping, wake_fd,
                 threadVars, ownerVars, round>>

(* tr_reactor_stop.  ctl_lock is held from the accepting gate to the       *)
(* submission of STOP; the two queues are closed in one step because they  *)
(* share no data and no thread.                                            *)

StopGate ==
  /\ control = "idle" /\ CtlFree /\ started
  /\ IF stop_submitted
       THEN control' = "join" /\ UNCHANGED <<ctl_lock, accepting>>
       ELSE /\ accepting' = FALSE
            /\ ctl_lock' = Controller
            /\ control' = "close"
  /\ UNCHANGED <<cqVars, compVars, started, stop_submitted, fatal_exit,
                 stopping, wake_fd, threadVars, ownerVars, round>>

StopClose ==
  /\ control = "close"
  /\ tr_completion_queue_close
  /\ tr_command_queue_wait_close
  /\ control' = "force"
  /\ UNCHANGED <<lifeVars, threadVars, ownerVars, round>>

\* ERR_STATE of push_wait_force is an early return of stop() with the lock
\* released; no run reaches it, StopNotRefused says so.
StopForce ==
  /\ control = "force"
  /\ IF stop_closed
       THEN control' = "idle" /\ ctl_lock' = NoThread /\ UNCHANGED cqVars
       ELSE /\ tr_command_queue_push_wait_force(
                 Command("stop", Controller, 0, round))
            /\ control' = IF NeedWake THEN "signal" ELSE "submitted"
            /\ UNCHANGED ctl_lock
  /\ UNCHANGED <<compVars, started, accepting, stop_submitted, fatal_exit,
                 stopping, wake_fd, threadVars, ownerVars, round>>

StopSignal ==
  /\ control = "signal"
  /\ wake_fd' = TRUE
  /\ control' = "submitted"
  /\ UNCHANGED <<cqVars, compVars, ctl_lock, started, accepting,
                 stop_submitted, fatal_exit, stopping, threadVars, ownerVars,
                 round>>

StopSubmitted ==
  /\ control = "submitted"
  /\ stop_submitted' = TRUE
  /\ ctl_lock' = NoThread
  /\ control' = "join"
  /\ UNCHANGED <<cqVars, compVars, started, accepting, fatal_exit, stopping,
                 wake_fd, threadVars, ownerVars, round>>

\* pthread_join succeeds once the owner has left its main function.  A
\* failing join makes stop() return ERR_SYS with the round still started, and
\* the caller may call stop() again.
Join ==
  /\ control = "join" /\ owner = "exited"
  /\ owner' = "none"
  /\ control' = "joined"
  /\ UNCHANGED <<cqVars, compVars, lifeVars, threadVars, batch,
                 commands_pending, completions_pending, completions_left,
                 nested, round>>

JoinFails ==
  /\ control = "join"
  /\ control' = "idle"
  /\ UNCHANGED <<cqVars, compVars, lifeVars, threadVars, ownerVars, round>>

StopDone ==
  /\ control = "joined" /\ CtlFree
  /\ started' = FALSE /\ stop_submitted' = FALSE
  /\ control' = "idle"
  /\ UNCHANGED <<cqVars, compVars, ctl_lock, accepting, fatal_exit, stopping,
                 wake_fd, threadVars, ownerVars, round>>

-----------------------------------------------------------------------------
(* Owner: tr_reactor_thread_main.  Connection I/O, timers and readiness    *)
(* queues are the subject of other modules; here a turn is: pop and        *)
(* dispatch commands, apply completions, poll, drain the eventfd.          *)

OwnerGoto(label) == owner' = label

OwnerBoot ==
  /\ owner = "boot" /\ CtlFree
  /\ OwnerGoto("commands")
  /\ UNCHANGED <<cqVars, compVars, lifeVars, threadVars, batch,
                 commands_pending, completions_pending, completions_left,
                 nested, control, round>>

\* tr_process_commands: a batch that used its whole budget means the wakeup
\* may already be consumed, so the next poll must not block.
PopCommandsThenBlock ==
  /\ owner = "commands"
  /\ tr_command_queue_pop_batch(CommandBatch)
  /\ batch' = Popped(CommandBatch)
  /\ commands_pending' = FALSE
  /\ OwnerGoto("dispatch")
  /\ UNCHANGED <<compVars, lifeVars, threadVars, completions_pending,
                 completions_left, nested, control, round>>

OwnerPopCommands ==
  /\ owner = "commands"
  /\ tr_command_queue_pop_batch(CommandBatch)
  /\ batch' = Popped(CommandBatch)
  /\ commands_pending' = (Len(batch') = CommandBatch)
  /\ OwnerGoto("dispatch")
  /\ UNCHANGED <<compVars, lifeVars, threadVars, completions_pending,
                 completions_left, nested, control, round>>

SyncComplete(command, status) ==
  sync' = IF command.type = "call"
            THEN [sync EXCEPT ![command.from] = status] ELSE sync

OwnerDispatch ==
  /\ owner = "dispatch" /\ batch # <<>>
  /\ SyncComplete(Head(batch), "ok")
  /\ stopping' = (stopping \/ Head(batch).type = "stop")
  /\ batch' = Tail(batch)
  /\ UNCHANGED <<cqVars, compVars, ctl_lock, started, accepting,
                 stop_submitted, fatal_exit, wake_fd, pc, generation, seen,
                 calls, owner, commands_pending, completions_pending,
                 completions_left, nested, control, round>>

\* The function of a CALL may itself send: during dispatch that goes through
\* ctl_lock and the ring like any other producer's command.
OwnerCallbackSends ==
  /\ owner = "dispatch" /\ batch # <<>> /\ Head(batch).type = "call"
  /\ nested < MaxNested
  /\ nested' = nested + 1
  /\ OwnerGoto("nested")
  /\ UNCHANGED <<cqVars, compVars, lifeVars, threadVars, batch,
                 commands_pending, completions_pending, completions_left,
                 control, round>>

OwnerNestedPush ==
  /\ owner = "nested" /\ CtlFree
  /\ IF started /\ accepting /\ PushStatus = "ok"
       THEN /\ tr_command_queue_push(Command("send", Owner, nested, round))
            /\ wake_fd' = (wake_fd \/ NeedWake)
       ELSE UNCHANGED <<cqVars, wake_fd>>
  /\ OwnerGoto("dispatch")
  /\ UNCHANGED <<compVars, ctl_lock, started, accepting, stop_submitted,
                 fatal_exit, stopping, threadVars, batch, commands_pending,
                 completions_pending, completions_left, nested, control,
                 round>>

OwnerDispatched ==
  /\ owner = "dispatch" /\ batch = <<>>
  /\ OwnerGoto(IF stopping THEN "drain" ELSE "completions")
  /\ UNCHANGED <<cqVars, compVars, lifeVars, threadVars, batch,
                 commands_pending, completions_pending, completions_left,
                 nested, control, round>>

\* tr_process_completions with the completions budget of this turn.
OwnerCompletions ==
  /\ owner = "completions"
  /\ tr_completion_queue_pop_batch(CompletionBatch)
  /\ completions_pending' = CompletionHasMore(CompletionBatch)
  /\ completions_left' = CompletionBatch - CompletionPopCount(CompletionBatch)
  /\ OwnerGoto("poll")
  /\ UNCHANGED <<cqVars, lifeVars, threadVars, batch, commands_pending,
                 nested, control, round>>

\* epoll_wait: with known pending work the timeout is 0, otherwise it blocks
\* until the eventfd is readable.
PollTimeoutZero == commands_pending \/ completions_pending

OwnerPoll ==
  /\ owner = "poll"
  /\ wake_fd \/ PollTimeoutZero
  /\ OwnerGoto(IF wake_fd THEN "wake" ELSE "commands")
  /\ UNCHANGED <<cqVars, compVars, lifeVars, threadVars, batch,
                 commands_pending, completions_pending, completions_left,
                 nested, control, round>>

OwnerPollInterrupted ==
  /\ owner = "poll"
  /\ OwnerGoto("commands")
  /\ UNCHANGED <<cqVars, compVars, lifeVars, threadVars, batch,
                 commands_pending, completions_pending, completions_left,
                 nested, control, round>>

OwnerDrainWake ==
  /\ owner = "wake"
  /\ wake_fd' = FALSE
  /\ OwnerGoto("woken")
  /\ UNCHANGED <<cqVars, compVars, ctl_lock, started, accepting,
                 stop_submitted, fatal_exit, stopping, threadVars, batch,
                 commands_pending, completions_pending, completions_left,
                 nested, control, round>>

OwnerWokenCompletions ==
  /\ owner = "woken"
  /\ tr_completion_queue_pop_batch(completions_left)
  /\ OwnerGoto("commands")
  /\ UNCHANGED <<cqVars, lifeVars, threadVars, batch, commands_pending,
                 completions_pending, completions_left, nested, control,
                 round>>

\* A poll error other than EINTR: tr_reactor_begin_fatal_exit closes the round
\* under ctl_lock, so that a concurrent stop() only joins.
OwnerPollFails ==
  /\ owner = "poll"
  /\ OwnerGoto("fatal")
  /\ UNCHANGED <<cqVars, compVars, lifeVars, threadVars, batch,
                 commands_pending, completions_pending, completions_left,
                 nested, control, round>>

OwnerBeginFatal ==
  /\ owner = "fatal" /\ CtlFree
  /\ ctl_lock' = Owner
  /\ accepting' = FALSE /\ fatal_exit' = TRUE /\ stop_submitted' = TRUE
  /\ OwnerGoto("fatal_close")
  /\ UNCHANGED <<cqVars, compVars, started, stopping, wake_fd, threadVars,
                 batch, commands_pending, completions_pending,
                 completions_left, nested, control, round>>

OwnerFatalClose ==
  /\ owner = "fatal_close"
  /\ tr_completion_queue_close
  /\ tr_command_queue_wait_close
  /\ ctl_lock' = NoThread
  /\ OwnerGoto("abort")
  /\ UNCHANGED <<started, accepting, stop_submitted, fatal_exit, stopping,
                 wake_fd, threadVars, batch, commands_pending,
                 completions_pending, completions_left, nested, control,
                 round>>

\* tr_reactor_abort_pending_commands: every popped synchronous request is
\* completed with ERR_SYS, every popped send is released; no CALL runs.
Aborted(c) == \E i \in DOMAIN Popped(CommandBatch) :
                Popped(CommandBatch)[i].type = "call"
                  /\ Popped(CommandBatch)[i].from = c

OwnerAbort ==
  /\ owner = "abort"
  /\ tr_command_queue_pop_batch(CommandBatch)
  /\ sync' = [c \in Callers |-> IF Aborted(c) THEN "sys" ELSE sync[c]]
  /\ OwnerGoto(IF Popped(CommandBatch) = <<>> THEN "drain" ELSE "abort")
  /\ UNCHANGED <<compVars, lifeVars, pc, generation, seen, calls, batch,
                 commands_pending, completions_pending, completions_left,
                 nested, control, round>>

\* tr_drain_completions, after STOP and after a fatal exit; then
\* tr_cleanup_connections, and once more tr_drain_completions when fatal.
OwnerDrain ==
  /\ owner \in {"drain", "drain_again"}
  /\ tr_completion_queue_pop_batch(CompletionBatch)
  /\ OwnerGoto(IF CompletionHasMore(CompletionBatch) THEN owner
               ELSE IF owner = "drain" THEN "cleanup" ELSE "exited")
  /\ UNCHANGED <<cqVars, lifeVars, threadVars, batch, commands_pending,
                 completions_pending, completions_left, nested, control,
                 round>>

OwnerCleanup ==
  /\ owner = "cleanup"
  /\ OwnerGoto(IF fatal_exit THEN "drain_again" ELSE "exited")
  /\ UNCHANGED <<cqVars, compVars, lifeVars, threadVars, batch,
                 commands_pending, completions_pending, completions_left,
                 nested, control, round>>

-----------------------------------------------------------------------------
CallerNext(c) ==
  \/ CallAdmit(c) \/ CallStopped(c) \/ CallStoppedReturn(c) \/ CallSleep(c)
  \/ CallRefused(c) \/ CallEnqueue(c) \/ CallSignal(c) \/ CallReturn(c)
  \/ CallSpuriousWake(c)

SenderNext(s) == SendRefused(s) \/ SendPush(s) \/ SendSignal(s)

WorkerNext(w) ==
  \/ CompleteSample(w) \/ CompleteGate(w) \/ CompleteSleep(w)
  \/ CompleteRefused(w) \/ CompleteEnqueue(w) \/ CompleteSignal(w)
  \/ CompleteSpuriousWake(w)

ControllerNext ==
  \/ Start \/ StartPublish \/ StopGate \/ StopClose \/ StopForce
  \/ StopSignal \/ StopSubmitted \/ Join \/ JoinFails \/ StopDone

\* Steps the owner takes by itself; a poll that is interrupted or fails is
\* the kernel's choice.
OwnerStep ==
  \/ OwnerBoot \/ OwnerPopCommands \/ OwnerDispatch \/ OwnerNestedPush
  \/ OwnerDispatched \/ OwnerCompletions \/ OwnerPoll \/ OwnerDrainWake
  \/ OwnerWokenCompletions \/ OwnerBeginFatal \/ OwnerFatalClose
  \/ OwnerAbort \/ OwnerDrain \/ OwnerCleanup

OwnerNext ==
  OwnerStep \/ OwnerCallbackSends \/ OwnerPollInterrupted \/ OwnerPollFails

\* Every bound is used up and the reactor is stopped.
Terminated ==
  /\ control = "idle" /\ ~started /\ round = MaxRounds
  /\ \A t \in Threads : pc[t] = "idle" /\ calls[t] = MaxCalls
  /\ UNCHANGED vars

Next ==
  \/ \E c \in Callers : CallerNext(c)
  \/ \E s \in Senders : SenderNext(s)
  \/ \E w \in Workers : WorkerNext(w)
  \/ ControllerNext \/ OwnerNext \/ Terminated

Spec == Init /\ [][Next]_vars

\* The operating system runs every thread: a thread inside an operation keeps
\* taking its steps.  Beginning an operation, an interrupted or failing poll
\* and a failing join are never required.
Fairness ==
  /\ \A c \in Callers :
       /\ WF_vars(CallStoppedReturn(c)) /\ WF_vars(CallSleep(c))
       /\ WF_vars(CallRefused(c)) /\ WF_vars(CallEnqueue(c))
       /\ WF_vars(CallSignal(c)) /\ WF_vars(CallReturn(c))
  /\ \A s \in Senders : WF_vars(SendSignal(s))
  /\ \A w \in Workers :
       /\ WF_vars(CompleteGate(w)) /\ WF_vars(CompleteSleep(w))
       /\ WF_vars(CompleteRefused(w)) /\ WF_vars(CompleteEnqueue(w))
       /\ WF_vars(CompleteSignal(w))
  /\ WF_vars(StartPublish) /\ WF_vars(StopClose) /\ WF_vars(StopForce)
  /\ WF_vars(StopSignal) /\ WF_vars(StopSubmitted) /\ WF_vars(Join)
  /\ WF_vars(StopDone)
  /\ WF_vars(OwnerStep)

FairSpec == Spec /\ Fairness

-----------------------------------------------------------------------------
ControlStates == {"idle", "publish", "close", "force", "signal", "submitted",
                  "join", "joined"}
OwnerStates == {"none", "boot", "commands", "dispatch", "nested",
                "completions", "poll", "wake", "woken", "fatal",
                "fatal_close", "abort", "drain", "cleanup", "drain_again",
                "exited"}
Commands == [type : {"call", "send", "stop"},
             from : Threads \cup {Controller, Owner},
             n : Nat, round : Nat, sequence : Nat]
Completions == [from : Workers, round : Nat]

CommandQueueType ==
  /\ items \in Seq(Commands) /\ Len(items) <= Capacity
  /\ stop_command \in Seq(Commands)
  /\ stop_closed \in BOOLEAN /\ wait_accepting \in BOOLEAN
  /\ wait_generation \in Nat /\ next_sequence \in Nat
  /\ wake_pending \in BOOLEAN /\ not_full \subseteq Callers

CompletionQueueType ==
  /\ c_items \in Seq(Completions) /\ Len(c_items) <= CompletionCapacity
  /\ c_accepting \in BOOLEAN /\ c_generation \in Nat
  /\ c_wake_pending \in BOOLEAN /\ c_not_full \subseteq Workers

LifeType ==
  /\ ctl_lock \in Threads \cup {Controller, Owner, NoThread}
  /\ started \in BOOLEAN /\ accepting \in BOOLEAN
  /\ stop_submitted \in BOOLEAN /\ fatal_exit \in BOOLEAN
  /\ stopping \in BOOLEAN /\ wake_fd \in BOOLEAN
  /\ control \in ControlStates /\ round \in Nat

ThreadType ==
  /\ pc \in [Threads -> {"idle", "push_wait", "signal", "sync_wait", "direct",
                         "gate", "complete"}]
  /\ generation \in [Threads -> Nat] /\ seen \in [Threads -> Nat]
  /\ calls \in [Threads -> Nat]
  /\ sync \in [Callers -> {"none", "pending", "ok", "sys"}]

OwnerType ==
  /\ owner \in OwnerStates /\ batch \in Seq(Commands)
  /\ commands_pending \in BOOLEAN /\ completions_pending \in BOOLEAN
  /\ completions_left \in 0 .. CompletionBatch /\ nested \in Nat

\* Type invariant of the composed reactor; both rings stay within capacity.
TypeOK ==
  /\ CommandQueueType /\ CompletionQueueType /\ LifeType /\ ThreadType
  /\ OwnerType

\* A command that points at a caller's completion object.
References(command, c) == command.type = "call" /\ command.from = c

\* The caller is inside call n and still waits for its result.
Outstanding(c, n) ==
  pc[c] \in {"signal", "sync_wait"} /\ sync[c] = "pending" /\ calls[c] = n

\* The completion object of a synchronous request lives on the caller's stack
\* (reactor.c:5420, 5128, 5057).  While a command that points at it is in the
\* ring or in the owner's batch, the caller is still inside that very call
\* and has not been completed: the owner never writes a dead stack frame and
\* never completes a request twice.
NoDanglingSync ==
  \A c \in Callers :
    /\ \A i \in DOMAIN items :
         References(items[i], c) => Outstanding(c, items[i].n)
    /\ \A i \in DOMAIN batch :
         References(batch[i], c) => Outstanding(c, batch[i].n)

\* The inductive strengthening: a caller has at most one command anywhere, a
\* caller still waiting for ring capacity has none and an open completion
\* object, and the reserved slot only ever holds STOP.
AtMostOne(ring, popped, c) ==
  /\ \A i, j \in DOMAIN ring :
       References(ring[i], c) /\ References(ring[j], c) => i = j
  /\ \A i, j \in DOMAIN popped :
       References(popped[i], c) /\ References(popped[j], c) => i = j
  /\ \A i \in DOMAIN ring, j \in DOMAIN popped :
       ~(References(ring[i], c) /\ References(popped[j], c))

OneCommandPerCall == \A c \in Callers : AtMostOne(items, batch, c)

\* The inductive invariant behind NoDanglingSync: together with it, every
\* caller of tr_reactor_call owns at most one command in the ring, the
\* reserved slot and the batch, and none before its command was accepted.
SyncInv ==
  /\ NoDanglingSync /\ OneCommandPerCall
  /\ \A c \in Callers : pc[c] = "push_wait" => sync[c] = "pending"
  /\ \A i \in DOMAIN stop_command : stop_command[i].type = "stop"

\* Nothing accepted is left for an owner thread that has ended.
NothingLeftBehind ==
  owner \in {"exited", "none"} =>
    /\ items = <<>> /\ stop_command = <<>> /\ batch = <<>> /\ c_items = <<>>
    /\ \A c \in Callers : pc[c] \in {"signal", "sync_wait"} =>
                            sync[c] # "pending"

\* No wakeup is lost: when the owner is about to block in epoll_wait although
\* accepted work is queued, the eventfd is readable or some thread has yet to
\* write it (wake_pending protocol of both queues, reactor.c:2973-2978,
\* 3341-3347, 3368-3371).
SignalOwed ==
  \/ wake_fd \/ control = "signal" \/ \E t \in Threads : pc[t] = "signal"

NoLostWakeup ==
  /\ owner = "poll" /\ ~PollTimeoutZero
  /\ items # <<>> \/ StopPending \/ c_items # <<>>
  => SignalOwed

\* What belongs to a round ends with it.  Whichever way the owner thread ends
\* (STOP or a failed poll), both queues, the reserved STOP slot and the local
\* batch are empty, and no caller waits for a completion that nobody can
\* deliver (reactor.c:3184-3192, 3201-3257, 3406-3420).  A producer that
\* sampled its admission in one round never lands in another round's queue,
\* however long it sleeps across stop() and start() (reactor.c:4306-4310,
\* 5386-5398), and neither does STOP: stop() never finds
\* the STOP slot of its round taken, because after a STOP or a fatal exit every
\* later stop() of that round is a pure join, and start() finds the slot empty
\* (command_queue.c:169-173, 259-262).
RoundIsolation ==
  /\ NothingLeftBehind
  /\ \A i \in DOMAIN items : items[i].round = round
  /\ \A i \in DOMAIN c_items : c_items[i].round = round
  /\ control = "force" => ~stop_closed
  /\ control = "publish" => ~StopPending

\* tr_reactor_call_or_stopped mutates reactor state from a foreign thread only
\* while no owner thread exists (reactor.c:5547-5555).
StoppedCallExcludesOwner ==
  \A c \in Callers : pc[c] = "direct" => owner = "none" /\ ~accepting

\* Its inductive strengthening.  Whoever holds ctl_lock over several steps is
\* recorded as its holder, and the lifecycle flags follow the owner thread:
\* accepting implies started, and started spans the owner's whole life.
LockInv ==
  /\ \A c \in Callers : pc[c] = "direct" => ctl_lock = c /\ ~started
  /\ \A s \in Senders : pc[s] = "signal" => ctl_lock = s
  /\ control \in {"publish", "close", "force", "signal", "submitted"} =>
       ctl_lock = Controller
  /\ owner = "fatal_close" => ctl_lock = Owner

LifeInv ==
  /\ control = "publish" => ~started /\ owner # "none"
  /\ control = "joined" => owner = "none"
  /\ control \notin {"idle", "publish"} => started /\ ~accepting
  /\ owner # "none" => started \/ control = "publish"
  /\ started => owner # "none" \/ control = "joined"
  /\ accepting => started
  /\ stop_submitted => started /\ ~accepting

\* Every operation returns.  A synchronous call returns with a result, with
\* ERR_SYS after a fatal exit or with CLOSED, whatever stop(), restart or a
\* failing poll does meanwhile; tr_reactor_complete returns although the
\* completion queue may be full when it starts (completion_queue.c:157-174);
\* stop() returns, because STOP needs no ring capacity and the owner, which may
\* itself want ctl_lock, is never waited for with ctl_lock held
\* (reactor.c:5840-5875).
OperationsReturn ==
  /\ \A t \in Threads : []<>(pc[t] = "idle")
  /\ []<>(control = "idle")
=============================================================================
