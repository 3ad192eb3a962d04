---------------------------- MODULE TaskExecutor ----------------------------
(***************************************************************************)
(* The bounded task executor (src/src/execution/task_executor.c): a fixed  *)
(* set of slots, a pending list that worker threads consume, a completion  *)
(* list that the owner dispatches, cancellation by handle, stop, join and  *)
(* destroy.                                                                *)
(*                                                                         *)
(* Every critical section of executor->lock is one step.  A worker runs    *)
(* work(), and the owner runs done(), outside the lock, between two steps. *)
(* submit, cancel and stop may be called by any thread, by done() included.*)
(* Each member of Tasks is submitted at most once.                         *)
(***************************************************************************)
EXTENDS Naturals, Sequences, FiniteSets

CONSTANTS Workers, Tasks, NoTask,
          TaskCapacity,       \* slots, for tasks in every stage
          MaxTaskGeneration,  \* last generation a slot can have (2^64 - 1)
          Limits              \* of completions, a dispatch is called with

Slots == 1 .. TaskCapacity

ASSUME ExecutorAssumption ==
  /\ IsFiniteSet(Workers) /\ NoTask \notin Tasks
  /\ TaskCapacity \in Nat \ {0} /\ MaxTaskGeneration \in Nat
  /\ Limits \subseteq Nat \ {0}

VARIABLES
  state,          \* NEW, OPEN, STOPPING, JOINED, then DESTROYED
  slot,           \* per slot: state, generation, task, cancel, cancelled
  free,           \* the free list, a stack
  pending,        \* queued slots, oldest first
  complete,       \* completed slots, in completion order
  outstanding, workers_alive,
  worker,         \* per worker: control state and the slot it works on
  sleeping,       \* workers asleep on work_available
  owner,          \* "idle", "dispatch", "deliver" (inside done), "join"
  left,           \* deliveries left in this dispatch
  handle,         \* handle submit() returned for each task
  ran,            \* history: how often work() of a task was called
  delivered,      \* history: how often done() was called
  reported,       \* history: result.cancelled as done() saw it
  cancel_ok       \* history: tasks for which cancel or stop set the token

execVars == <<state, free, pending, complete, outstanding, workers_alive>>
threadVars == <<worker, sleeping, owner, left>>
historyVars == <<handle, ran, delivered, reported, cancel_ok>>
vars == <<execVars, slot, threadVars, historyVars>>

NoHandle == [slot |-> 0, generation |-> 0]

FreeSlot == [state |-> "FREE", generation |-> 0, task |-> NoTask,
             cancel |-> FALSE, cancelled |-> FALSE]

Init ==
  /\ state = "NEW" /\ pending = <<>> /\ complete = <<>>
  /\ slot = [i \in Slots |-> FreeSlot]
  /\ free = [i \in 1 .. TaskCapacity |-> i]
  /\ outstanding = 0 /\ workers_alive = 0
  /\ worker = [w \in Workers |-> [pc |-> "none", slot |-> 0]]
  /\ sleeping = {} /\ owner = "idle" /\ left = 0
  /\ handle = [t \in Tasks |-> NoHandle]
  /\ ran = [t \in Tasks |-> 0] /\ delivered = [t \in Tasks |-> 0]
  /\ reported = [t \in Tasks |-> FALSE] /\ cancel_ok = {}

Active == {i \in Slots : slot[i].state \in {"QUEUED", "RUNNING"}}

-----------------------------------------------------------------------------
(* Any thread                                                              *)

SubmitWithoutSignal(t) ==
  /\ state = "OPEN" /\ handle[t] = NoHandle
  /\ free # <<>>
  /\ LET i == Head(free)
         g == slot[i].generation + 1
     IN  /\ g <= MaxTaskGeneration
         /\ slot' = [slot EXCEPT ![i] = [state |-> "QUEUED", generation |-> g,
                        task |-> t, cancel |-> FALSE, cancelled |-> @.cancelled]]
         /\ free' = Tail(free)
         /\ pending' = Append(pending, i)
         /\ handle' = [handle EXCEPT ![t] = [slot |-> i, generation |-> g]]
  /\ outstanding' = outstanding + 1
  /\ UNCHANGED <<sleeping, state, complete, workers_alive, worker, owner, left, ran,
                 delivered, reported, cancel_ok>>

tr_task_executor_submit(t) ==
  /\ state = "OPEN" /\ handle[t] = NoHandle
  /\ free # <<>>
  /\ LET i == Head(free)
         g == slot[i].generation + 1
     IN  /\ g <= MaxTaskGeneration
         /\ slot' = [slot EXCEPT ![i] = [state |-> "QUEUED", generation |-> g,
                        task |-> t, cancel |-> FALSE, cancelled |-> @.cancelled]]
         /\ free' = Tail(free)
         /\ pending' = Append(pending, i)
         /\ handle' = [handle EXCEPT ![t] = [slot |-> i, generation |-> g]]
  /\ outstanding' = outstanding + 1
  \* pthread_cond_signal: at most one sleeper is woken
  /\ \/ sleeping = {} /\ UNCHANGED sleeping
     \/ \E w \in sleeping : sleeping' = sleeping \ {w}
  /\ UNCHANGED <<state, complete, workers_alive, worker, owner, left, ran,
                 delivered, reported, cancel_ok>>

CancelRewritesResult(t) ==
  LET h == handle[t]
  IN  /\ state # "DESTROYED" /\ h # NoHandle
      /\ slot[h.slot].generation = h.generation
      /\ slot[h.slot].state \in {"QUEUED", "RUNNING", "COMPLETED"}
      /\ slot' = [slot EXCEPT ![h.slot].cancel = TRUE, ![h.slot].cancelled = TRUE]
      /\ cancel_ok' = cancel_ok \cup {t}
      /\ UNCHANGED <<execVars, threadVars, handle, ran, delivered, reported>>

\* cancel with the handle of task t, which may be stale by now.
tr_task_executor_cancel(t) ==
  LET h == handle[t]
  IN  /\ state # "DESTROYED" /\ h # NoHandle
      /\ h.slot \in Active /\ slot[h.slot].generation = h.generation
      /\ slot' = [slot EXCEPT ![h.slot].cancel = TRUE]
      /\ cancel_ok' = cancel_ok \cup {t}
      /\ UNCHANGED <<execVars, threadVars, handle, ran, delivered, reported>>

tr_task_executor_stop(mode) ==
  /\ state # "DESTROYED"
  /\ state' = IF state = "JOINED" THEN state ELSE "STOPPING"
  /\ slot' = IF mode = "CANCEL"
               THEN [i \in Slots |-> IF i \in Active
                                       THEN [slot[i] EXCEPT !.cancel = TRUE]
                                       ELSE slot[i]]
               ELSE slot
  /\ cancel_ok' = IF mode = "CANCEL"
                    THEN cancel_ok \cup {slot[i].task : i \in Active}
                    ELSE cancel_ok
  /\ sleeping' = {}
  /\ UNCHANGED <<free, pending, complete, outstanding, workers_alive, worker,
                 owner, left, handle, ran, delivered, reported>>

-----------------------------------------------------------------------------
(* tr_task_worker                                                          *)

Awake(w) == w \notin sleeping

WorkerWait(w) ==
  /\ worker[w].pc = "loop" /\ Awake(w)
  /\ pending = <<>> /\ state # "STOPPING"
  /\ sleeping' = sleeping \cup {w}
  /\ UNCHANGED <<execVars, slot, worker, owner, left, historyVars>>

SpuriousWakeup(w) ==
  /\ w \in sleeping /\ sleeping' = sleeping \ {w}
  /\ UNCHANGED <<execVars, slot, worker, owner, left, historyVars>>

WorkerTake(w) ==
  /\ worker[w].pc = "loop" /\ Awake(w) /\ pending # <<>>
  /\ LET i == Head(pending)
     IN  /\ slot' = [slot EXCEPT ![i].state = "RUNNING"]
         /\ worker' = [worker EXCEPT ![w] = [pc |-> "work", slot |-> i]]
         /\ ran' = [ran EXCEPT ![slot[i].task] = @ + 1]
  /\ pending' = Tail(pending)
  /\ UNCHANGED <<state, free, complete, outstanding, workers_alive, sleeping,
                 owner, left, handle, delivered, reported, cancel_ok>>

WorkerCommitRetries(w) ==
  /\ worker[w].pc = "work"
  /\ LET i == worker[w].slot
     IN  IF slot[i].cancel
           THEN /\ slot' = [slot EXCEPT ![i].state = "QUEUED"]
                /\ pending' = Append(pending, i) /\ UNCHANGED complete
           ELSE /\ slot' = [slot EXCEPT ![i].state = "COMPLETED",
                                        ![i].cancelled = FALSE]
                /\ complete' = Append(complete, i) /\ UNCHANGED pending
  /\ worker' = [worker EXCEPT ![w] = [pc |-> "loop", slot |-> 0]]
  /\ UNCHANGED <<state, free, outstanding, workers_alive, sleeping, owner, left,
                 historyVars>>

\* work() has returned: commit the result under the lock.
WorkerCommit(w) ==
  /\ worker[w].pc = "work"
  /\ LET i == worker[w].slot
     IN  /\ slot' = [slot EXCEPT ![i].state = "COMPLETED",
                                 ![i].cancelled = slot[i].cancel]
         /\ complete' = Append(complete, i)
  /\ worker' = [worker EXCEPT ![w] = [pc |-> "loop", slot |-> 0]]
  /\ UNCHANGED <<state, free, pending, outstanding, workers_alive, sleeping,
                 owner, left, historyVars>>

WorkerExit(w) ==
  /\ worker[w].pc = "loop" /\ Awake(w)
  /\ pending = <<>> /\ state = "STOPPING"
  /\ workers_alive' = workers_alive - 1
  /\ worker' = [worker EXCEPT ![w].pc = "exited"]
  /\ UNCHANGED <<state, free, pending, complete, outstanding, slot, sleeping,
                 owner, left, historyVars>>

-----------------------------------------------------------------------------
(* The owner                                                               *)

\* The lock is held throughout: no worker runs before every thread exists.
\* When pthread_create fails the executor is closed with the threads it has.
tr_task_executor_start ==
  /\ state = "NEW" /\ owner = "idle"
  /\ \E W \in SUBSET Workers :
       /\ worker' = [w \in Workers |-> [pc |-> IF w \in W THEN "loop" ELSE "none",
                                        slot |-> 0]]
       /\ workers_alive' = Cardinality(W)
       /\ state' = IF W = Workers THEN "OPEN" ELSE "STOPPING"
  /\ UNCHANGED <<slot, free, pending, complete, outstanding, sleeping, owner,
                 left, historyVars>>

tr_task_executor_dispatch(limit) ==
  /\ owner = "idle" /\ state # "DESTROYED"
  /\ complete # <<>>
  /\ owner' = "dispatch" /\ left' = limit
  /\ UNCHANGED <<execVars, slot, worker, sleeping, historyVars>>

\* One iteration up to the call of done(), or the end of the loop.
DispatchOne ==
  /\ owner = "dispatch"
  /\ IF left # 0 /\ complete # <<>>
       THEN LET i == Head(complete)
                t == slot[i].task
            IN  /\ slot' = [slot EXCEPT ![i].state = "DELIVERING"]
                /\ complete' = Tail(complete)
                /\ delivered' = [delivered EXCEPT ![t] = @ + 1]
                /\ reported' = [reported EXCEPT ![t] = slot[i].cancelled]
                /\ owner' = "deliver" /\ left' = left - 1
       ELSE /\ owner' = "idle" /\ left' = 0
            /\ UNCHANGED <<slot, complete, delivered, reported>>
  /\ UNCHANGED <<state, free, pending, outstanding, workers_alive, worker,
                 sleeping, handle, ran, cancel_ok>>

DispatchReturn ==
  /\ owner = "deliver"
  /\ \E i \in Slots :
       /\ slot[i].state = "DELIVERING"
       /\ slot' = [slot EXCEPT ![i].state = "FREE", ![i].task = NoTask]
       /\ free' = <<i>> \o free
  /\ outstanding' = outstanding - 1
  /\ owner' = "dispatch"
  /\ UNCHANGED <<state, pending, complete, workers_alive, worker, sleeping,
                 left, historyVars>>

\* join: the check, then pthread_join of every worker, then the new state.
tr_task_executor_join ==
  /\ owner = "idle" /\ state \in {"STOPPING", "JOINED"}
  /\ workers_alive = 0
  /\ owner' = "join"
  /\ UNCHANGED <<execVars, slot, worker, sleeping, left, historyVars>>

JoinReturn ==
  /\ owner = "join"
  /\ \A w \in Workers : worker[w].pc \in {"none", "exited"}
  /\ owner' = "idle" /\ state' = "JOINED"
  /\ UNCHANGED <<slot, free, pending, complete, outstanding, workers_alive,
                 worker, sleeping, left, historyVars>>

tr_task_executor_destroy ==
  /\ owner = "idle" /\ state \in {"NEW", "JOINED"}
  /\ outstanding = 0
  /\ state' = "DESTROYED"
  /\ UNCHANGED <<slot, free, pending, complete, outstanding, workers_alive,
                 threadVars, historyVars>>

-----------------------------------------------------------------------------
AnyThread ==
  \/ \E t \in Tasks : tr_task_executor_submit(t) \/ tr_task_executor_cancel(t)
  \/ \E mode \in {"DRAIN", "CANCEL"} : tr_task_executor_stop(mode)

WorkerNext(w) == WorkerWait(w) \/ WorkerTake(w) \/ WorkerCommit(w) \/ WorkerExit(w)

DispatchNext ==
  \/ \E limit \in Limits : tr_task_executor_dispatch(limit)
  \/ DispatchOne \/ DispatchReturn

OwnerNext ==
  \/ tr_task_executor_start
  \/ DispatchNext
  \/ tr_task_executor_join
  \/ JoinReturn
  \/ tr_task_executor_destroy

Next ==
  \/ AnyThread
  \/ \E w \in Workers : WorkerNext(w) \/ SpuriousWakeup(w)
  \/ OwnerNext

Terminated == state = "DESTROYED" /\ UNCHANGED vars

Spec == Init /\ [][Next \/ Terminated]_vars

\* Worker threads are scheduled, work() returns, and the owner dispatches again
\* and again (strongly fair: between dispatches it may also try to join);
\* nothing forces anyone to stop, join or destroy.
Fairness ==
  /\ \A w \in Workers : WF_vars(WorkerNext(w))
  /\ SF_vars(DispatchNext)
  /\ WF_vars(JoinReturn)

FairSpec == Spec /\ Fairness

-----------------------------------------------------------------------------
(* Properties                                                              *)

SlotStates == {"FREE", "QUEUED", "RUNNING", "COMPLETED", "DELIVERING"}

\* The state variables have their types.
TypeOK ==
  /\ state \in {"NEW", "OPEN", "STOPPING", "JOINED", "DESTROYED"}
  /\ slot \in [Slots -> [state : SlotStates, generation : 0 .. MaxTaskGeneration,
                         task : Tasks \cup {NoTask}, cancel : BOOLEAN,
                         cancelled : BOOLEAN]]
  /\ free \in Seq(Slots) /\ pending \in Seq(Slots) /\ complete \in Seq(Slots)
  /\ outstanding \in Nat /\ workers_alive \in Nat
  /\ worker \in [Workers -> [pc : {"none", "loop", "work", "exited"},
                             slot : Slots \cup {0}]]
  /\ sleeping \subseteq Workers
  /\ owner \in {"idle", "dispatch", "deliver", "join"} /\ left \in Nat
  /\ handle \in [Tasks -> [slot : Slots \cup {0}, generation : 0 .. MaxTaskGeneration]]
  /\ ran \in [Tasks -> Nat] /\ delivered \in [Tasks -> Nat]
  /\ reported \in [Tasks -> BOOLEAN] /\ cancel_ok \subseteq Tasks

Lists(seq, s) ==
  /\ \A i, j \in DOMAIN seq : i # j => seq[i] # seq[j]
  /\ {seq[i] : i \in DOMAIN seq} = {i \in Slots : slot[i].state = s}

\* The intrusive lists never lose or share a slot.
SlotAccounting ==
  /\ TypeOK
  /\ Lists(free, "FREE") /\ Lists(pending, "QUEUED") /\ Lists(complete, "COMPLETED")
  /\ \A i \in Slots : slot[i].state = "RUNNING" =>
       \E w \in Workers : /\ worker[w] = [pc |-> "work", slot |-> i]
                          /\ \A v \in Workers \ {w} : worker[v].slot # i
  /\ outstanding = Cardinality({i \in Slots : slot[i].state # "FREE"})

\* Every accepted task is worked on at most once and delivered at most once,
\* never before its work, whatever cancel, stop and slot reuse do, and when
\* destroy succeeds it has been delivered and no worker is left that could
\* touch a slot.  done() reports a cancellation exactly when cancel, or
\* stop(CANCEL), was told that it came in time for this very task: a handle
\* that outlives its task never cancels the next task of the slot.  The
\* intrusive lists this rests on never lose or share a slot: free, pending and
\* complete hold exactly the slots in those states, each once, a running slot
\* belongs to one worker, and outstanding counts the rest.
DeliveredExactly ==
  /\ SlotAccounting
  /\ \A t \in Tasks :
       /\ delivered[t] <= ran[t] /\ ran[t] <= 1
       /\ delivered[t] # 0 => (reported[t] <=> t \in cancel_ok)
  /\ state = "DESTROYED" =>
       /\ \A t \in Tasks : handle[t] # NoHandle => delivered[t] = 1
       /\ \A w \in Workers : worker[w].pc \in {"none", "exited"}

SlotOf(t, states) ==
  {i \in Slots : slot[i].task = t /\ slot[i].state \in states}

StatusOf(t) ==
  IF delivered[t] # 0 THEN "delivered"
  ELSE IF SlotOf(t, {"COMPLETED"}) # {} THEN "worked"
  ELSE IF handle[t] # NoHandle THEN "accepted" ELSE "none"

CancelledOf(t) ==
  \/ delivered[t] # 0 /\ reported[t]
  \/ \E i \in SlotOf(t, {"QUEUED", "RUNNING"}) : slot[i].cancel
  \/ \E i \in SlotOf(t, {"COMPLETED"}) : slot[i].cancelled

Contract == INSTANCE TaskContract WITH
  status <- [t \in Tasks |-> StatusOf(t)],
  cancelled <- [t \in Tasks |-> CancelledOf(t)]

\* The executor implements the contract of its header: slots, lists and
\* threads are a way to take every task through submit, work and delivery.
ImplementsContract == Contract!Spec

\* Every accepted task is eventually delivered: no wakeup of a worker is lost,
\* and a task queued when the executor stops is still run.  Once stopped, the
\* workers leave, so that join stops answering AGAIN.
TasksFinish ==
  /\ \A t \in Tasks : []<>(handle[t] # NoHandle => delivered[t] = 1)
  /\ []<>(state = "STOPPING" => workers_alive = 0)
=============================================================================
