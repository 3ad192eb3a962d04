--------------------------- MODULE MessageService ---------------------------
(***************************************************************************)
(* The message service (src/src/runtime/message_service.c): transform jobs *)
(* run by a task executor and delivered on the reactor thread.  A worker   *)
(* that commits a result writes an eventfd; the reactor's event callback   *)
(* and a watchdog timer pump the completions; close() tears the service    *)
(* down on the owner, reap_stopped() after the reactor has stopped.        *)
(*                                                                         *)
(* The executor is that of TaskExecutor, its critical sections and its     *)
(* worker steps unchanged.  "plan" says who drives it: "alone" is the      *)
(* executor under any legal use, "service" is the executor of a service.   *)
(* Between two steps of the pump, or of close(), workers and cancel() run. *)
(* The reactor is stopped at most once and not started again.              *)
(***************************************************************************)
EXTENDS TaskExecutor

CONSTANTS JobTasks,        \* the tasks an application gives to the service
          DispatchLimit,   \* config.dispatch_limit
          MaxFaults        \* system calls of the service that fail

ASSUME ServiceAssumption ==
  JobTasks \subseteq Tasks /\ DispatchLimit \in Limits /\ MaxFaults \in Nat

VARIABLES
  plan,
  service,   \* struct tr_message_service, and the call its thread is in
  reactor,   \* "running", then "stopped": joined, recovery may begin
  faults,    \* system calls that may still fail
  outcome    \* history: what the done callback of a task was told

serviceVars == <<plan, service, reactor, faults, outcome>>
allVars == <<vars, serviceVars>>

tr_message_service_create_on_owner ==
  [pc |-> "none",        \* step of the pump or of close()
   call |-> "none",      \* who pumps: "event", "watchdog", "close"
   readable |-> FALSE,   \* the counter of the eventfd is not zero
   notify |-> FALSE,     \* the executor has tr_service_notify
   notification_error |-> FALSE, held_jobs |-> 0,
   start_attempted |-> FALSE, accepting |-> FALSE,
   event_attached |-> FALSE, timer_attached |-> FALSE,
   executor_retiring |-> FALSE, recovering |-> FALSE,
   closing |-> FALSE,    \* history: close() or reap_stopped() was called
   freed |-> FALSE]

ServiceInit ==
  /\ Init
  /\ plan \in {"alone", "service"}
  /\ service = tr_message_service_create_on_owner
  /\ reactor = "running" /\ faults = MaxFaults
  /\ outcome = [t \in Tasks |-> "none"]

\* depth: a pump is under way
Depth == service.pc \in {"acked", "dispatch", "dispatching", "stats"}

\* The thread of the service is in application code of the reactor thread:
\* a callback of its own, or the done callback of a job.
tr_service_owner ==
  /\ plan = "service" /\ ~service.freed
  /\ ~service.recovering /\ reactor = "running"
  /\ service.pc = "none" \/ owner = "deliver"

\* write(): the counter is not zero afterwards, EAGAIN included; or an error.
tr_service_notify(s) ==
  \/ /\ service' = [s EXCEPT !.readable = TRUE]
     /\ UNCHANGED faults
  \/ /\ faults # 0 /\ faults' = faults - 1
     /\ service' = [s EXCEPT !.notification_error = TRUE]

\* read(): the counter is zero afterwards; or an error.
tr_service_ack(s) ==
  \/ /\ service' = [s EXCEPT !.readable = FALSE]
     /\ UNCHANGED faults
  \/ /\ faults # 0 /\ faults' = faults - 1
     /\ service' = [s EXCEPT !.notification_error = TRUE]

-----------------------------------------------------------------------------
(* The application, on the reactor thread; cancel from any thread          *)

\* The executor is started last; whatever fails before closes it.
tr_message_service_start_on_owner ==
  /\ tr_service_owner /\ ~service.start_attempted /\ ~service.executor_retiring
  /\ LET attempted == [service EXCEPT !.start_attempted = TRUE, !.notify = TRUE]
     IN  \/ /\ tr_task_executor_start
            /\ service' = [attempted EXCEPT !.event_attached = TRUE,
                             !.timer_attached = TRUE, !.accepting = state' = "OPEN"]
            /\ UNCHANGED faults
         \/ /\ faults # 0 /\ faults' = faults - 1
            /\ tr_task_executor_stop("CANCEL")
            /\ \E event, timer \in BOOLEAN :
                 /\ timer => event
                 /\ service' = [attempted EXCEPT !.event_attached = event,
                                                 !.timer_attached = timer]
  /\ UNCHANGED <<plan, reactor, outcome>>

tr_message_service_submit_on_owner(t) ==
  /\ tr_service_owner
  /\ service.accepting /\ ~service.notification_error
  /\ service.held_jobs < TaskCapacity
  /\ tr_task_executor_submit(t)
  /\ service' = [service EXCEPT !.held_jobs = @ + 1]
  /\ UNCHANGED <<plan, reactor, faults, outcome>>

tr_message_service_cancel(t) ==
  /\ plan = "service" /\ ~service.freed
  /\ tr_task_executor_cancel(t)
  /\ UNCHANGED serviceVars

tr_message_service_stop_on_owner(mode) ==
  /\ tr_service_owner /\ ~service.executor_retiring
  /\ tr_task_executor_stop(mode)
  /\ service' = [service EXCEPT !.accepting = FALSE]
  /\ UNCHANGED <<plan, reactor, faults, outcome>>

-----------------------------------------------------------------------------
(* Workers: the result is committed and the owner notified under one lock  *)

\* The executor has its notify function from before the first worker exists
\* until the last is joined.
ServiceWorker(w) ==
  /\ plan = "service"
  /\ \/ /\ WorkerCommit(w)
        /\ tr_service_notify(service)
     \/ /\ WorkerWait(w) \/ WorkerTake(w) \/ WorkerExit(w)
        /\ UNCHANGED <<service, faults>>
  /\ UNCHANGED <<plan, reactor, outcome>>

-----------------------------------------------------------------------------
(* tr_service_pump                                                         *)

\* From a callback of the reactor: acknowledge first, then look.
PumpFrom(call) ==
  /\ ~Depth /\ ~service.executor_retiring
  /\ tr_service_ack([service EXCEPT !.pc = "acked", !.call = call])

tr_service_event ==
  /\ plan = "service" /\ reactor = "running" /\ service.pc = "none"
  /\ service.event_attached /\ service.readable
  /\ PumpFrom("event")
  /\ UNCHANGED <<vars, plan, reactor, outcome>>

tr_service_watchdog ==
  /\ plan = "service" /\ reactor = "running" /\ service.pc = "none"
  /\ service.timer_attached
  /\ PumpFrom("watchdog")
  /\ UNCHANGED <<vars, plan, reactor, outcome>>

\* A fault seen here ends the service: what is not done yet is cancelled.
PumpCheck ==
  /\ service.pc = "acked"
  /\ IF service.notification_error
       THEN /\ tr_task_executor_stop("CANCEL")
            /\ service' = [service EXCEPT !.pc = "dispatch", !.accepting = FALSE]
       ELSE /\ service' = [service EXCEPT !.pc = "dispatch"]
            /\ UNCHANGED vars
  /\ UNCHANGED <<plan, reactor, faults, outcome>>

PumpDispatch ==
  /\ service.pc = "dispatch"
  /\ \/ /\ tr_task_executor_dispatch(DispatchLimit)
        /\ service' = [service EXCEPT !.pc = "dispatching"]
     \/ /\ complete = <<>> /\ UNCHANGED vars
        /\ service' = [service EXCEPT !.pc = "stats"]
  /\ UNCHANGED <<plan, reactor, faults, outcome>>

\* tr_service_done up to the callback of the application, or the end of the
\* loop of the executor.
tr_service_done ==
  /\ service.pc = "dispatching" /\ DispatchOne
  /\ outcome' = [t \in Tasks |-> IF delivered'[t] = delivered[t] THEN outcome[t]
                                 ELSE IF reported'[t] \/ service.recovering
                                        THEN "cancelled" ELSE "finished"]
  /\ service' = [service EXCEPT !.pc = IF owner' = "idle" THEN "stats" ELSE @]
  /\ UNCHANGED <<plan, reactor, faults>>

\* The callback has returned: the job and the slot are free again.
DoneReturn ==
  /\ service.pc = "dispatching" /\ DispatchReturn
  /\ service' = [service EXCEPT !.held_jobs = @ - 1]
  /\ UNCHANGED <<plan, reactor, faults, outcome>>

\* Mutant: completions beyond the limit are left to a later notification.
StatsWithoutNotify ==
  /\ service.pc = "stats"
  /\ service' = [service EXCEPT !.pc = IF service.call = "close" THEN "join" ELSE "none"]
  /\ UNCHANGED <<vars, plan, reactor, faults, outcome>>

\* Completions beyond the limit, or committed meanwhile, are announced again.
PumpStats ==
  /\ service.pc = "stats"
  /\ LET back == [service EXCEPT !.pc = IF service.call = "close" THEN "join" ELSE "none"]
     IN  IF complete # <<>> THEN tr_service_notify(back)
                            ELSE service' = back /\ UNCHANGED faults
  /\ UNCHANGED <<vars, plan, reactor, outcome>>

-----------------------------------------------------------------------------
(* tr_service_close                                                        *)

\* stop(DRAIN), then the pump, unless only the destruction is left to retry.
CloseFrom(s) ==
  IF s.executor_retiring
    THEN /\ service' = [s EXCEPT !.pc = "destroy", !.closing = TRUE]
         /\ UNCHANGED vars
    ELSE /\ tr_task_executor_stop("DRAIN")
         /\ service' = [s EXCEPT !.pc = "stopped", !.closing = TRUE,
                                 !.accepting = FALSE]

tr_message_service_close_on_owner ==
  /\ tr_service_owner /\ service.pc = "none"
  /\ CloseFrom(service)
  /\ UNCHANGED <<plan, reactor, faults, outcome>>

\* On another thread, once the reactor is joined: the lease of the recovery,
\* stop(CANCEL) and the ownership of the executor, then close.
tr_message_service_reap_stopped ==
  /\ plan = "service" /\ ~service.freed
  /\ reactor = "stopped" /\ service.pc = "none"
  /\ LET s == [service EXCEPT !.recovering = TRUE, !.accepting = FALSE,
                              !.closing = TRUE]
     IN  IF service.executor_retiring
           THEN UNCHANGED vars /\ service' = [s EXCEPT !.pc = "adopted"]
           ELSE /\ tr_task_executor_stop("CANCEL")
                /\ service' = [s EXCEPT !.pc = "adopted"]
  /\ UNCHANGED <<plan, reactor, faults, outcome>>

ReapClose ==
  /\ service.pc = "adopted"
  /\ CloseFrom(service)
  /\ UNCHANGED <<plan, reactor, faults, outcome>>

ClosePump ==
  /\ service.pc = "stopped"
  /\ PumpFrom("close")
  /\ UNCHANGED <<vars, plan, reactor, outcome>>

\* Workers that have not left, or results that have not been delivered: AGAIN.
CloseJoin ==
  /\ service.pc = "join"
  /\ \/ /\ tr_task_executor_join
        /\ service' = [service EXCEPT !.pc = "joining"]
     \/ /\ workers_alive # 0 /\ UNCHANGED vars
        /\ service' = [service EXCEPT !.pc = "none"]
  /\ UNCHANGED <<plan, reactor, faults, outcome>>

CloseJoined ==
  /\ service.pc = "joining" /\ JoinReturn
  /\ service' = [service EXCEPT !.pc = IF outstanding = 0 /\ service.held_jobs = 0
                                         THEN "detach" ELSE "none"]
  /\ UNCHANGED <<plan, reactor, faults, outcome>>

\* Event, timer, notification: each failure leaves the rest to the next close.
CloseDetach ==
  /\ service.pc = "detach"
  /\ \/ /\ faults # 0 /\ faults' = faults - 1
        /\ \/ service' = [service EXCEPT !.pc = "none"]
           \/ service' = [service EXCEPT !.pc = "none", !.event_attached = FALSE]
     \/ /\ service' = [service EXCEPT !.event_attached = FALSE,
                         !.timer_attached = FALSE, !.notify = FALSE,
                         !.executor_retiring = TRUE, !.pc = "destroy"]
        /\ UNCHANGED faults
  /\ UNCHANGED <<vars, plan, reactor, outcome>>

CloseDestroy ==
  /\ service.pc = "destroy"
  /\ \/ /\ faults # 0 /\ faults' = faults - 1
        /\ service' = [service EXCEPT !.pc = "none"] /\ UNCHANGED vars
     \/ /\ tr_task_executor_destroy
        /\ service' = [service EXCEPT !.pc = "none", !.freed = TRUE]
        /\ UNCHANGED faults
  /\ UNCHANGED <<plan, reactor, outcome>>

\* tr_reactor_stop has joined the owner: no call of its is under way.
ReactorStop ==
  /\ plan = "service" /\ reactor = "running" /\ service.pc = "none"
  /\ reactor' = "stopped"
  /\ UNCHANGED <<vars, plan, service, faults, outcome>>

-----------------------------------------------------------------------------
PumpNext ==
  \/ PumpCheck \/ PumpDispatch \/ tr_service_done \/ DoneReturn \/ PumpStats
  \/ ReapClose \/ ClosePump \/ CloseJoin \/ CloseJoined \/ CloseDetach \/ CloseDestroy

Application ==
  \/ tr_message_service_start_on_owner
  \/ \E t \in JobTasks : \/ tr_message_service_submit_on_owner(t)
                         \/ tr_message_service_cancel(t)
  \/ \E mode \in {"DRAIN", "CANCEL"} : tr_message_service_stop_on_owner(mode)
  \/ tr_message_service_close_on_owner
  \/ tr_message_service_reap_stopped
  \/ ReactorStop

\* The executor under any legal use.
AloneWorker(w) == plan = "alone" /\ WorkerNext(w) /\ UNCHANGED serviceVars
AloneDispatch == plan = "alone" /\ DispatchNext /\ UNCHANGED serviceVars
AloneJoinReturn == plan = "alone" /\ JoinReturn /\ UNCHANGED serviceVars

ServiceNext ==
  \/ plan = "alone" /\ (AnyThread \/ OwnerNext) /\ UNCHANGED serviceVars
  \/ \E w \in Workers : \/ AloneWorker(w) \/ ServiceWorker(w)
                        \/ SpuriousWakeup(w) /\ UNCHANGED serviceVars
  \/ Application
  \/ tr_service_event \/ tr_service_watchdog
  \/ PumpNext

ServiceTerminated == Terminated /\ UNCHANGED serviceVars

\* Worker threads are scheduled, transforms and done callbacks return, and a
\* running reactor calls its timers again and again.  An application that has
\* begun to close repeats the call while it answers AGAIN, and one that has
\* stopped the reactor reaps; nothing forces it to close or to stop.  Alone,
\* the executor is driven as in TaskExecutor.
ServiceFairness ==
  /\ \A w \in Workers : WF_allVars(AloneWorker(w)) /\ WF_allVars(ServiceWorker(w))
  /\ SF_allVars(AloneDispatch) /\ WF_allVars(AloneJoinReturn)
  /\ WF_allVars(PumpNext)
  /\ SF_allVars(tr_service_watchdog)
  /\ SF_allVars(service.closing /\ tr_message_service_close_on_owner)
  /\ WF_allVars(tr_message_service_reap_stopped)

ServiceSpec ==
  ServiceInit /\ [][ServiceNext \/ ServiceTerminated]_allVars /\ ServiceFairness

-----------------------------------------------------------------------------
(* Properties                                                              *)

\* The service's own state has its type.
ServiceTypeOK ==
  /\ plan \in {"alone", "service"} /\ reactor \in {"running", "stopped"}
  /\ faults \in 0 .. MaxFaults
  /\ outcome \in [Tasks -> {"none", "finished", "cancelled"}]
  /\ service.held_jobs \in 0 .. TaskCapacity

\* No completion is stranded: unless the pump is still going to look at the
\* queue, a completed job has left the eventfd readable, or a failed system
\* call was recorded that turns the delivery over to the watchdog
\* (message_service.c:180, 193).
NoCompletionStranded ==
  complete # <<>> => Depth \/ service.readable \/ service.notification_error

\* A job is held exactly as long as its executor slot, so that close() never
\* answers STATE for good (message_service.c:465).
JobsFollowSlots == service.held_jobs = outstanding

\* A service is freed when nothing can call into it any more: no worker, no
\* task, no event, no timer and no notification (message_service.c:489).
ReleasedQuietly ==
  service.freed =>
    /\ \A w \in Workers : worker[w].pc \in {"none", "exited"}
    /\ outstanding = 0 /\ complete = <<>>
    /\ ~service.event_attached /\ ~service.timer_attached /\ ~service.notify

\* The service keeps its promises about completions.  None is stranded between
\* the workers and the reactor thread, whatever the order of commit, notify,
\* acknowledge and dispatch; jobs and slots are given back together; a done
\* callback hears of success only for a task that nobody cancelled in time and
\* that the reactor thread delivered (message_service.c:145); and the service
\* goes when nothing refers to it.
ServiceSound ==
  plan = "service" =>
    /\ ServiceTypeOK
    /\ NoCompletionStranded /\ JobsFollowSlots /\ ReleasedQuietly
    /\ \A t \in Tasks : delivered[t] = 1 =>
         (outcome[t] = "finished" => t \notin cancel_ok)
    /\ service.recovering => reactor = "stopped"

\* Every accepted task is eventually delivered, by the executor alone and
\* through the service: after a failed notification the watchdog delivers it,
\* after the end of the reactor reap_stopped() does.  A stopped executor's
\* workers leave, and a close that is repeated while it answers AGAIN succeeds.
ServiceFinishes ==
  /\ TasksFinish
  /\ []<>(service.closing => service.freed)
=============================================================================
