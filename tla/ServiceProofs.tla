--------------------------- MODULE ServiceProofs ----------------------------
(***************************************************************************)
(* The message service strands no completion, holds a job exactly as long  *)
(* as its slot, reports success honestly and is freed when nothing refers  *)
(* to it: ServiceSound, for every number of workers, tasks and slots and   *)
(* any number of failing system calls.                                     *)
(***************************************************************************)
EXTENDS TaskProofs

USE ExecutorAssumption, ServiceAssumption

USE DEF execVars, threadVars, historyVars

Steps == {"none", "acked", "dispatch", "dispatching", "stats", "stopped",
          "adopted", "join", "joining", "detach", "destroy"}

Services ==
  [pc : Steps, call : {"none", "event", "watchdog", "close"},
   readable : BOOLEAN, notify : BOOLEAN, notification_error : BOOLEAN,
   held_jobs : Nat, start_attempted : BOOLEAN, accepting : BOOLEAN,
   event_attached : BOOLEAN, timer_attached : BOOLEAN,
   executor_retiring : BOOLEAN, recovering : BOOLEAN, closing : BOOLEAN,
   freed : BOOLEAN]

ServiceTypes ==
  /\ plan \in {"alone", "service"} /\ reactor \in {"running", "stopped"}
  /\ faults \in 0 .. MaxFaults
  /\ outcome \in [Tasks -> {"none", "finished", "cancelled"}]
  /\ service \in Services

(* The stages of the end: the executor is retired when nothing is attached *)
(* any more, and the service is freed when the executor is.                *)
Ending ==
  /\ service.executor_retiring =>
       ~service.event_attached /\ ~service.timer_attached /\ ~service.notify
  /\ service.pc = "destroy" => service.executor_retiring
  /\ service.freed =>
       service.pc = "none" /\ state = "DESTROYED" /\ service.executor_retiring
  /\ service.recovering => reactor = "stopped"

Outcomes ==
  \A t \in Tasks : delivered[t] # 0 /\ outcome[t] = "finished" => ~reported[t]

ServiceInv ==
  /\ plan = "alone" => service.pc = "none"
  /\ plan = "service" => NoCompletionStranded /\ JobsFollowSlots /\ Ending /\ Outcomes

-----------------------------------------------------------------------------
\* The invariant says what ServiceSound says.
LEMMA ServiceMeans ==
  ASSUME TaskInv, ServiceTypes, ServiceInv
  PROVE  ServiceSound
<1> SUFFICES ASSUME plan = "service"
             PROVE  /\ ServiceTypeOK
                    /\ NoCompletionStranded /\ JobsFollowSlots /\ ReleasedQuietly
                    /\ \A t \in Tasks : delivered[t] = 1 =>
                         (outcome[t] = "finished" => t \notin cancel_ok)
                    /\ service.recovering => reactor = "stopped"
  BY DEF ServiceSound
<1>1. /\ TypeOK /\ Accounts /\ Crew /\ Stages
      /\ NoCompletionStranded /\ JobsFollowSlots /\ Ending /\ Outcomes
  BY DEF TaskInv, ServiceInv
<1>2. outstanding = Cardinality(Busy) /\ Busy \subseteq Slots
  BY <1>1 DEF Accounts, Busy
<1>3. IsFiniteSet(Slots) /\ Cardinality(Slots) = TaskCapacity
  <2>1. /\ IsFiniteSet(1 .. TaskCapacity)
        /\ Cardinality(1 .. TaskCapacity) =
             IF 1 > TaskCapacity THEN 0 ELSE TaskCapacity - 1 + 1
    <3>1. 1 \in Int /\ TaskCapacity \in Int
      OBVIOUS
    <3> QED BY <3>1, FS_Interval, Zenon
  <2>2. TaskCapacity - 1 + 1 = TaskCapacity /\ ~(1 > TaskCapacity)
    OBVIOUS
  <2> QED BY <2>1, <2>2 DEF Slots
<1>4. outstanding \in 0 .. TaskCapacity
  <2>1. Cardinality(Busy) <= Cardinality(Slots)
    BY <1>2, <1>3, FS_Subset
  <2>2. Cardinality(Busy) \in Nat
    BY SlotsFinite
  <2> QED BY <1>2, <1>3, <2>1, <2>2
<1>5. ServiceTypeOK
  BY <1>1, <1>4 DEF ServiceTypes, ServiceTypeOK, JobsFollowSlots
<1>6. ASSUME service.freed
      PROVE  /\ \A w \in Workers : worker[w].pc \in {"none", "exited"}
             /\ outstanding = 0 /\ complete = <<>>
  <2>1. state = "DESTROYED" /\ outstanding = 0
    BY <1>1, <1>6 DEF Ending, Stages
  <2>2. \A w \in Workers : worker[w].pc \in {"none", "exited"}
    BY <1>1, <2>1 DEF Crew
  <2>3. Busy = {}
    BY <1>2, <2>1, SlotsFinite, FS_EmptySet
  <2>4. Elems(complete) = {}
    <3>1. Elems(complete) = In("COMPLETED")
      BY <1>1, ListsMeans, Zenon DEF Accounts
    <3> QED BY <2>3, <3>1 DEF Busy, In
  <2>5. complete = <<>>
    <3>1. complete \in Seq(Slots)
      BY <1>1 DEF TypeOK
    <3>2. complete # <<>> => 1 \in DOMAIN complete
      BY <3>1
    <3> QED BY <2>4, <3>2 DEF Elems
  <2> QED BY <2>1, <2>2, <2>5
<1>7. ReleasedQuietly
  BY <1>1, <1>6 DEF ReleasedQuietly, Ending
<1>8. ASSUME NEW t \in Tasks, delivered[t] = 1, outcome[t] = "finished"
      PROVE  t \notin cancel_ok
  <2>1. ~reported[t]
    BY <1>1, <1>8 DEF Outcomes
  <2>2. delivered[t] # 0 => (reported[t] <=> t \in cancel_ok)
    BY <1>1, Zenon DEF Stages, TaskStage
  <2> QED BY <1>8, <2>1, <2>2
<1> QED BY <1>1, <1>5, <1>7, <1>8, Zenon DEF Ending

\* A service that was just created.
LEMMA ServiceStart ==
  ASSUME ServiceInit
  PROVE  ServiceTypes /\ ServiceInv
<1>1. ServiceTypes
  <2>1. tr_message_service_create_on_owner \in Services
    BY DEF tr_message_service_create_on_owner, Services, Steps
  <2>2. faults \in 0 .. MaxFaults
    BY DEF ServiceInit
  <2> QED BY <2>1, <2>2 DEF ServiceInit, ServiceTypes
<1>2. complete = <<>> /\ outstanding = 0 /\ \A t \in Tasks : delivered[t] = 0
  BY DEF ServiceInit, Init
<1> QED BY <1>1, <1>2
       DEF ServiceInit, ServiceInv, NoCompletionStranded, JobsFollowSlots, Ending,
           Outcomes, tr_message_service_create_on_owner

-----------------------------------------------------------------------------
(* What the steps need to know of each other.                              *)

\* A step of the service that delivers nothing and frees no job.
LEMMA ServiceFrame ==
  ASSUME ServiceInv, plan = "service",
         UNCHANGED <<plan, outstanding, delivered, reported, outcome>>,
         service'.held_jobs = service.held_jobs,
         NoCompletionStranded', Ending'
  PROVE  ServiceInv'
<1>1. JobsFollowSlots'
  BY DEF ServiceInv, JobsFollowSlots
<1>2. Outcomes'
  BY Zenon DEF ServiceInv, Outcomes
<1> QED BY <1>1, <1>2 DEF ServiceInv

\* stop changes nothing that the service counts, and nothing destroyed.
LEMMA StopKeeps ==
  ASSUME NEW mode, tr_task_executor_stop(mode)
  PROVE  /\ UNCHANGED <<complete, outstanding, delivered, reported>>
         /\ state # "DESTROYED" /\ state' # "DESTROYED"
BY DEF tr_task_executor_stop

\* write(): a service that is notified is readable or has recorded a fault.
LEMMA NotifyEffect ==
  ASSUME NEW s \in Services, ServiceTypes, tr_service_notify(s)
  PROVE  /\ service' \in Services /\ faults' \in 0 .. MaxFaults
         /\ service'.readable \/ service'.notification_error
         /\ service'.pc = s.pc /\ service'.held_jobs = s.held_jobs
         /\ service'.executor_retiring = s.executor_retiring
         /\ service'.event_attached = s.event_attached
         /\ service'.timer_attached = s.timer_attached
         /\ service'.notify = s.notify /\ service'.freed = s.freed
         /\ service'.recovering = s.recovering
<1>1. CASE service' = [s EXCEPT !.readable = TRUE] /\ UNCHANGED faults
  <2>1. service' \in Services
    BY <1>1, Zenon DEF Services
  <2> QED BY <1>1, <2>1 DEF Services, ServiceTypes
<1>2. CASE /\ faults # 0 /\ faults' = faults - 1
           /\ service' = [s EXCEPT !.notification_error = TRUE]
  <2>1. service' \in Services
    BY <1>2, Zenon DEF Services
  <2> QED BY <1>2, <2>1 DEF Services, ServiceTypes
<1> QED BY <1>1, <1>2 DEF tr_service_notify

\* read(): the same fields stay as they are.
LEMMA AckEffect ==
  ASSUME NEW s \in Services, ServiceTypes, tr_service_ack(s)
  PROVE  /\ service' \in Services /\ faults' \in 0 .. MaxFaults
         /\ service'.pc = s.pc /\ service'.held_jobs = s.held_jobs
         /\ service'.executor_retiring = s.executor_retiring
         /\ service'.event_attached = s.event_attached
         /\ service'.timer_attached = s.timer_attached
         /\ service'.notify = s.notify /\ service'.freed = s.freed
         /\ service'.recovering = s.recovering
<1>1. CASE service' = [s EXCEPT !.readable = FALSE] /\ UNCHANGED faults
  <2>1. service' \in Services
    BY <1>1, Zenon DEF Services
  <2> QED BY <1>1, <2>1 DEF Services, ServiceTypes
<1>2. CASE /\ faults # 0 /\ faults' = faults - 1
           /\ service' = [s EXCEPT !.notification_error = TRUE]
  <2>1. service' \in Services
    BY <1>2, Zenon DEF Services
  <2> QED BY <1>2, <2>1 DEF Services, ServiceTypes
<1> QED BY <1>1, <1>2 DEF tr_service_ack

\* The pump acknowledges before it looks: it is under way from then on.
LEMMA PumpFromStep ==
  ASSUME ServiceTypes, ServiceInv, plan = "service", ~service.freed,
         NEW call \in {"event", "watchdog", "close"}, PumpFrom(call),
         UNCHANGED <<vars, plan, reactor, outcome>>
  PROVE  ServiceTypes' /\ ServiceInv'
<1> DEFINE s == [service EXCEPT !.pc = "acked", !.call = call]
<1>1. s \in Services
  <2>1. "acked" \in Steps /\ call \in {"none", "event", "watchdog", "close"}
    BY DEF Steps
  <2> QED BY <2>1, Zenon DEF ServiceTypes, Services
<1>2. /\ s.pc = "acked" /\ s.held_jobs = service.held_jobs
      /\ s.executor_retiring = service.executor_retiring
      /\ s.event_attached = service.event_attached
      /\ s.timer_attached = service.timer_attached
      /\ s.notify = service.notify /\ s.freed = service.freed
      /\ s.recovering = service.recovering
  BY DEF ServiceTypes, Services
<1>3. tr_service_ack(s)
  BY DEF PumpFrom
<1> HIDE DEF s
<1>4. /\ service' \in Services /\ faults' \in 0 .. MaxFaults
      /\ service'.pc = "acked" /\ service'.held_jobs = service.held_jobs
      /\ service'.executor_retiring = service.executor_retiring
      /\ service'.event_attached = service.event_attached
      /\ service'.timer_attached = service.timer_attached
      /\ service'.notify = service.notify /\ service'.freed = service.freed
      /\ service'.recovering = service.recovering
  BY <1>1, <1>2, <1>3, AckEffect, Zenon
<1>5. ServiceTypes'
  BY <1>4 DEF ServiceTypes
<1>6. NoCompletionStranded'
  BY <1>4 DEF NoCompletionStranded, Depth
<1>7. Ending'
  BY <1>4 DEF ServiceInv, Ending, vars
<1>8. UNCHANGED <<outstanding, delivered, reported>>
  BY DEF vars
<1> QED BY <1>4, <1>5, <1>6, <1>7, <1>8, ServiceFrame, Zenon

-----------------------------------------------------------------------------
(* The application.                                                        *)

\* start attaches the event and the timer before the first worker exists;
\* what fails closes the executor.
LEMMA StartStep ==
  ASSUME TaskInv, ServiceTypes, ServiceInv, tr_message_service_start_on_owner
  PROVE  ServiceTypes' /\ ServiceInv'
<1> DEFINE attempted == [service EXCEPT !.start_attempted = TRUE, !.notify = TRUE]
<1>1. /\ plan = "service" /\ ~service.freed /\ ~service.recovering
      /\ ~service.executor_retiring /\ UNCHANGED <<plan, reactor, outcome>>
  BY DEF tr_message_service_start_on_owner, tr_service_owner
<1>2. /\ UNCHANGED <<complete, outstanding, delivered, reported>>
      /\ state' # "DESTROYED" /\ faults' \in 0 .. MaxFaults
      /\ \E event, timer, accepting \in BOOLEAN :
           service' = [attempted EXCEPT !.event_attached = event,
                         !.timer_attached = timer, !.accepting = accepting]
  <2>1. CASE /\ tr_task_executor_start
             /\ service' = [attempted EXCEPT !.event_attached = TRUE,
                              !.timer_attached = TRUE, !.accepting = state' = "OPEN"]
             /\ UNCHANGED faults
    <3>1. /\ UNCHANGED <<complete, outstanding, delivered, reported>>
          /\ state' # "DESTROYED"
      BY <2>1 DEF tr_task_executor_start
    <3>2. (state' = "OPEN") \in BOOLEAN /\ TRUE \in BOOLEAN
      BY Zenon
    <3> QED BY <2>1, <3>1, <3>2, Zenon DEF ServiceTypes
  <2>2. CASE /\ faults # 0 /\ faults' = faults - 1
             /\ tr_task_executor_stop("CANCEL")
             /\ \E event, timer \in BOOLEAN :
                  /\ timer => event
                  /\ service' = [attempted EXCEPT !.event_attached = event,
                                                  !.timer_attached = timer]
    <3>1. faults' \in 0 .. MaxFaults
      BY <2>2 DEF ServiceTypes
    <3>2. PICK event \in BOOLEAN, timer \in BOOLEAN :
            service' = [attempted EXCEPT !.event_attached = event,
                                         !.timer_attached = timer]
      BY <2>2, Zenon
    <3>3. service' = [attempted EXCEPT !.event_attached = event,
                        !.timer_attached = timer, !.accepting = service.accepting]
      BY <3>2 DEF ServiceTypes, Services
    <3>4. service.accepting \in BOOLEAN
      BY Zenon DEF ServiceTypes, Services
    <3> QED BY <2>2, <3>1, <3>3, <3>4, StopKeeps, Zenon
  <2> QED BY <2>1, <2>2, Zenon DEF tr_message_service_start_on_owner
<1>3. PICK event, timer, accepting \in BOOLEAN :
        service' = [attempted EXCEPT !.event_attached = event,
                      !.timer_attached = timer, !.accepting = accepting]
  BY <1>2
<1>4. service' \in Services
  BY <1>3, Zenon DEF ServiceTypes, Services
<1>5. /\ service'.pc = service.pc /\ service'.held_jobs = service.held_jobs
      /\ service'.executor_retiring = service.executor_retiring
      /\ service'.readable = service.readable
      /\ service'.notification_error = service.notification_error
      /\ service'.freed = service.freed /\ service'.recovering = service.recovering
  BY <1>3 DEF ServiceTypes, Services
<1>6. ServiceTypes'
  BY <1>1, <1>2, <1>4 DEF ServiceTypes
<1>7. NoCompletionStranded'
  BY <1>1, <1>2, <1>5 DEF ServiceInv, NoCompletionStranded, Depth
<1>8. Ending'
  BY <1>1, <1>5 DEF ServiceInv, Ending
<1> QED BY <1>1, <1>2, <1>5, <1>6, <1>7, <1>8, ServiceFrame, Zenon

\* A job takes a slot of the executor and is held from then on.
LEMMA SubmitJobStep ==
  ASSUME TaskInv, TaskInv', ServiceTypes, ServiceInv, NEW t \in Tasks,
         tr_message_service_submit_on_owner(t)
  PROVE  ServiceTypes' /\ ServiceInv'
<1>1. /\ plan = "service" /\ service' = [service EXCEPT !.held_jobs = @ + 1]
      /\ UNCHANGED <<plan, reactor, faults, outcome>>
  BY DEF tr_message_service_submit_on_owner, tr_service_owner
<1>2. /\ outstanding' = outstanding + 1 /\ UNCHANGED <<state, complete, delivered, reported>>
  BY DEF tr_message_service_submit_on_owner, tr_task_executor_submit
<1>3. service.held_jobs + 1 \in Nat
  BY DEF ServiceTypes, Services
<1>4. service' \in Services
  BY <1>1, <1>3, Zenon DEF ServiceTypes, Services
<1>5. /\ service'.pc = service.pc /\ service'.held_jobs = service.held_jobs + 1
      /\ service'.executor_retiring = service.executor_retiring
      /\ service'.readable = service.readable
      /\ service'.notification_error = service.notification_error
      /\ service'.event_attached = service.event_attached
      /\ service'.timer_attached = service.timer_attached
      /\ service'.notify = service.notify
      /\ service'.freed = service.freed /\ service'.recovering = service.recovering
  BY <1>1 DEF ServiceTypes, Services
<1>6. ServiceTypes'
  BY <1>1, <1>4 DEF ServiceTypes
<1>7. NoCompletionStranded'
  BY <1>1, <1>2, <1>5 DEF ServiceInv, NoCompletionStranded, Depth
<1>8. Ending'
  BY <1>1, <1>2, <1>5 DEF ServiceInv, Ending
<1>9. JobsFollowSlots'
  BY <1>1, <1>2, <1>5 DEF ServiceInv, JobsFollowSlots
<1>10. Outcomes'
  BY <1>1, <1>2, Zenon DEF ServiceInv, Outcomes
<1> QED BY <1>1, <1>6, <1>7, <1>8, <1>9, <1>10 DEF ServiceInv

\* cancel touches the executor only.
LEMMA CancelJobStep ==
  ASSUME ServiceTypes, ServiceInv, NEW t \in Tasks, tr_message_service_cancel(t)
  PROVE  ServiceTypes' /\ ServiceInv'
<1>1. plan = "service" /\ UNCHANGED <<plan, service, reactor, faults, outcome>>
  BY DEF tr_message_service_cancel, serviceVars
<1>2. UNCHANGED <<state, complete, outstanding, delivered, reported>>
  BY DEF tr_message_service_cancel, tr_task_executor_cancel
<1>3. ServiceTypes'
  BY <1>1 DEF ServiceTypes
<1>4. NoCompletionStranded'
  BY <1>1, <1>2 DEF ServiceInv, NoCompletionStranded, Depth
<1>5. Ending'
  BY <1>1, <1>2 DEF ServiceInv, Ending
<1> QED BY <1>1, <1>2, <1>3, <1>4, <1>5, ServiceFrame, Zenon

\* stop, the first half of close() and of reap_stopped(): the executor stops
\* or is retired already, the service begins to end.
LEMMA StopServiceStep ==
  ASSUME ServiceTypes, ServiceInv,
         \/ \E mode : tr_message_service_stop_on_owner(mode)
         \/ tr_message_service_close_on_owner
         \/ tr_message_service_reap_stopped
         \/ ReapClose
  PROVE  ServiceTypes' /\ ServiceInv'
<1>1. /\ plan = "service" /\ ~service.freed
      /\ UNCHANGED <<plan, reactor, faults, outcome>>
  BY Zenon DEF ServiceInv, ServiceTypes, Ending, tr_service_owner, ReapClose,
       tr_message_service_stop_on_owner, tr_message_service_close_on_owner,
       tr_message_service_reap_stopped
<1>2. /\ UNCHANGED <<complete, outstanding, delivered, reported>>
  BY StopKeeps, Zenon DEF CloseFrom, ReapClose, vars,
       tr_message_service_stop_on_owner, tr_message_service_close_on_owner,
       tr_message_service_reap_stopped
<1>3. \/ service' = [service EXCEPT !.accepting = FALSE]
      \/ /\ service.pc \in {"none", "adopted"} /\ service.executor_retiring
         /\ service' = [service EXCEPT !.pc = "destroy", !.closing = TRUE]
      \/ /\ service.pc \in {"none", "adopted"}
         /\ service' = [service EXCEPT !.pc = "stopped", !.closing = TRUE,
                                       !.accepting = FALSE]
      \/ /\ service.pc = "none" /\ reactor = "stopped"
         /\ service' = [service EXCEPT !.recovering = TRUE, !.accepting = FALSE,
                                       !.closing = TRUE, !.pc = "adopted"]
  BY DEF CloseFrom, ReapClose, ServiceTypes, Services,
       tr_message_service_stop_on_owner, tr_message_service_close_on_owner,
       tr_message_service_reap_stopped
<1>4. service' \in Services
  <2>1. "destroy" \in Steps /\ "stopped" \in Steps /\ "adopted" \in Steps
    BY DEF Steps
  <2>2. [service EXCEPT !.accepting = FALSE] \in Services
    BY Zenon DEF ServiceTypes, Services
  <2>3. [service EXCEPT !.pc = "destroy", !.closing = TRUE] \in Services
    BY <2>1, Zenon DEF ServiceTypes, Services
  <2>4. [service EXCEPT !.pc = "stopped", !.closing = TRUE, !.accepting = FALSE]
          \in Services
    BY <2>1, Zenon DEF ServiceTypes, Services
  <2>5. [service EXCEPT !.recovering = TRUE, !.accepting = FALSE, !.closing = TRUE,
                        !.pc = "adopted"] \in Services
    BY <2>1, Zenon DEF ServiceTypes, Services
  <2> QED BY <1>3, <2>2, <2>3, <2>4, <2>5, Zenon
<1>5. /\ service'.held_jobs = service.held_jobs
      /\ service'.executor_retiring = service.executor_retiring
      /\ service'.readable = service.readable
      /\ service'.notification_error = service.notification_error
      /\ service'.event_attached = service.event_attached
      /\ service'.timer_attached = service.timer_attached
      /\ service'.notify = service.notify /\ service'.freed = service.freed
  BY <1>3 DEF ServiceTypes, Services
<1>6. /\ service'.pc = service.pc \/ service.pc \in {"none", "adopted"}
      /\ service'.pc = "destroy" => service.pc = "destroy" \/ service.executor_retiring
      /\ service'.recovering => service.recovering \/ reactor = "stopped"
  BY <1>3 DEF ServiceTypes, Services
<1>7. ServiceTypes'
  BY <1>1, <1>4 DEF ServiceTypes
<1>8. NoCompletionStranded'
  BY <1>1, <1>2, <1>5, <1>6 DEF ServiceInv, NoCompletionStranded, Depth
<1>9. Ending'
  BY <1>1, <1>5, <1>6 DEF ServiceInv, Ending
<1> QED BY <1>1, <1>2, <1>5, <1>7, <1>8, <1>9, ServiceFrame, Zenon

-----------------------------------------------------------------------------
(* The workers and the pump.                                               *)

\* A worker commits its result and notifies under one lock.
LEMMA WorkerStep ==
  ASSUME TaskInv, ServiceTypes, ServiceInv, NEW w \in Workers, ServiceWorker(w)
  PROVE  ServiceTypes' /\ ServiceInv'
<1>1. plan = "service" /\ UNCHANGED <<plan, reactor, outcome>>
  BY DEF ServiceWorker
<1>2. CASE WorkerCommit(w) /\ tr_service_notify(service)
  <2>1. UNCHANGED <<state, outstanding, delivered, reported>>
    BY <1>2 DEF WorkerCommit
  <2>2. service \in Services
    BY DEF ServiceTypes
  <2>3. /\ service' \in Services /\ faults' \in 0 .. MaxFaults
        /\ service'.readable \/ service'.notification_error
        /\ service'.pc = service.pc /\ service'.held_jobs = service.held_jobs
        /\ service'.executor_retiring = service.executor_retiring
        /\ service'.event_attached = service.event_attached
        /\ service'.timer_attached = service.timer_attached
        /\ service'.notify = service.notify /\ service'.freed = service.freed
        /\ service'.recovering = service.recovering
    BY <1>2, <2>2, NotifyEffect, Zenon
  <2>4. ServiceTypes'
    BY <1>1, <2>3 DEF ServiceTypes
  <2>5. NoCompletionStranded'
    BY <2>3 DEF NoCompletionStranded
  <2>6. Ending'
    BY <1>1, <2>1, <2>3 DEF ServiceInv, Ending
  <2> QED BY <1>1, <2>1, <2>3, <2>4, <2>5, <2>6, ServiceFrame, Zenon
<1>3. CASE /\ WorkerWait(w) \/ WorkerTake(w) \/ WorkerExit(w)
           /\ UNCHANGED <<service, faults>>
  <2>1. UNCHANGED <<state, complete, outstanding, delivered, reported>>
    BY <1>3, Zenon DEF WorkerWait, WorkerTake, WorkerExit
  <2>2. ServiceTypes'
    BY <1>1, <1>3 DEF ServiceTypes
  <2>3. NoCompletionStranded'
    BY <1>1, <1>3, <2>1 DEF ServiceInv, NoCompletionStranded, Depth
  <2>4. Ending'
    BY <1>1, <1>3, <2>1 DEF ServiceInv, Ending
  <2> QED BY <1>1, <1>3, <2>1, <2>2, <2>3, <2>4, ServiceFrame, Zenon
<1> QED BY <1>2, <1>3, Zenon DEF ServiceWorker

\* The pump looks for a fault, begins a dispatch, or finds nothing to deliver.
LEMMA PumpLookStep ==
  ASSUME ServiceTypes, ServiceInv, PumpCheck \/ PumpDispatch
  PROVE  ServiceTypes' /\ ServiceInv'
<1>1. /\ plan = "service" /\ service.pc \in {"acked", "dispatch"} /\ ~service.freed
      /\ UNCHANGED <<plan, reactor, faults, outcome>>
  BY DEF ServiceInv, ServiceTypes, Ending, PumpCheck, PumpDispatch
<1>2. UNCHANGED <<outstanding, delivered, reported>>
  BY StopKeeps, Zenon DEF PumpCheck, PumpDispatch, tr_task_executor_dispatch, vars
<1>3. \/ service' = [service EXCEPT !.pc = "dispatch", !.accepting = FALSE]
      \/ service' = [service EXCEPT !.pc = "dispatch"]
      \/ service' = [service EXCEPT !.pc = "dispatching"]
      \/ service' = [service EXCEPT !.pc = "stats"]
  BY Zenon DEF PumpCheck, PumpDispatch
<1>4. service' \in Services
  <2>1. "dispatch" \in Steps /\ "dispatching" \in Steps /\ "stats" \in Steps
    BY DEF Steps
  <2>2. [service EXCEPT !.pc = "dispatch", !.accepting = FALSE] \in Services
    BY <2>1, Zenon DEF ServiceTypes, Services
  <2>3. \A pc \in Steps : [service EXCEPT !.pc = pc] \in Services
    BY Zenon DEF ServiceTypes, Services
  <2> QED BY <1>3, <2>1, <2>2, <2>3, Zenon
<1>5. /\ service'.pc \in {"dispatch", "dispatching", "stats"}
      /\ service'.held_jobs = service.held_jobs
      /\ service'.executor_retiring = service.executor_retiring
      /\ service'.event_attached = service.event_attached
      /\ service'.timer_attached = service.timer_attached
      /\ service'.notify = service.notify /\ service'.freed = service.freed
      /\ service'.recovering = service.recovering
  BY <1>3 DEF ServiceTypes, Services
<1>6. ServiceTypes'
  BY <1>1, <1>4 DEF ServiceTypes
<1>7. NoCompletionStranded'
  BY <1>5 DEF NoCompletionStranded, Depth
<1>8. Ending'
  BY <1>1, <1>5 DEF ServiceInv, Ending
<1> QED BY <1>1, <1>2, <1>5, <1>6, <1>7, <1>8, ServiceFrame, Zenon

\* done(): the application hears of success only when nobody cancelled.
LEMMA DoneStep ==
  ASSUME TaskInv, TaskInv', ServiceTypes, ServiceInv, tr_service_done
  PROVE  ServiceTypes' /\ ServiceInv'
<1>1. /\ plan = "service" /\ service.pc = "dispatching" /\ ~service.freed
      /\ UNCHANGED <<plan, reactor, faults>> /\ DispatchOne
      /\ service' = [service EXCEPT !.pc = IF owner' = "idle" THEN "stats" ELSE @]
  BY DEF ServiceInv, ServiceTypes, Ending, tr_service_done
<1>2. outcome' = [t \in Tasks |-> IF delivered'[t] = delivered[t] THEN outcome[t]
                                  ELSE IF reported'[t] \/ service.recovering
                                         THEN "cancelled" ELSE "finished"]
  BY DEF tr_service_done
<1>3. service' \in Services /\ service'.pc \in {"stats", "dispatching"}
  <2>1. PICK pc \in {"stats", "dispatching"} : service' = [service EXCEPT !.pc = pc]
    BY <1>1 DEF ServiceTypes, Services
  <2>2. pc \in Steps
    BY DEF Steps
  <2>3. service' \in Services
    BY <2>1, <2>2, Zenon DEF ServiceTypes, Services
  <2>4. service'.pc = pc
    BY <2>1 DEF ServiceTypes, Services
  <2> QED BY <2>3, <2>4
<1>4. /\ service'.held_jobs = service.held_jobs
      /\ service'.executor_retiring = service.executor_retiring
      /\ service'.event_attached = service.event_attached
      /\ service'.timer_attached = service.timer_attached
      /\ service'.notify = service.notify /\ service'.freed = service.freed
      /\ service'.recovering = service.recovering
  BY <1>1 DEF ServiceTypes, Services
<1>5. ServiceTypes'
  BY <1>1, <1>2, <1>3 DEF ServiceTypes
<1>6. NoCompletionStranded'
  BY <1>3 DEF NoCompletionStranded, Depth
<1>7. Ending'
  BY <1>1, <1>3, <1>4 DEF ServiceInv, Ending
<1>8. JobsFollowSlots'
  <2>1. outstanding' = outstanding
    BY <1>1 DEF DispatchOne
  <2> QED BY <1>1, <1>4, <2>1 DEF ServiceInv, JobsFollowSlots
<1>9. Outcomes'
  <2> SUFFICES ASSUME NEW t \in Tasks, delivered'[t] # 0, outcome'[t] = "finished"
               PROVE  ~reported'[t]
    BY Zenon DEF Outcomes
  <2>1. CASE delivered'[t] # delivered[t]
    BY <1>2, <2>1
  <2>2. CASE delivered'[t] = delivered[t]
    <3>1. outcome'[t] = outcome[t]
      BY <1>2, <2>2
    <3>2. reported'[t] = reported[t]
      <4>1. CASE UNCHANGED <<slot, complete, delivered, reported>>
        BY <4>1
      <4>2. CASE LET i == Head(complete)
                 IN  /\ delivered' = [delivered EXCEPT ![slot[i].task] = @ + 1]
                     /\ reported' = [reported EXCEPT ![slot[i].task] = slot[i].cancelled]
        <5>1. delivered \in [Tasks -> Nat] /\ DOMAIN reported = Tasks
          BY DEF TaskInv, TypeOK
        <5>2. slot[Head(complete)].task # t
          BY <2>2, <4>2, <5>1
        <5> QED BY <4>2, <5>1, <5>2
      <4> QED BY <1>1, <4>1, <4>2, Zenon DEF DispatchOne
    <3> QED BY <1>1, <2>2, <3>1, <3>2, Zenon DEF ServiceInv, Outcomes
  <2> QED BY <2>1, <2>2
<1> QED BY <1>1, <1>5, <1>6, <1>7, <1>8, <1>9 DEF ServiceInv

\* The callback has returned: the job and the slot are given back together.
LEMMA DoneReturnStep ==
  ASSUME TaskInv, TaskInv', ServiceTypes, ServiceInv, DoneReturn
  PROVE  ServiceTypes' /\ ServiceInv'
<1>1. /\ plan = "service" /\ service.pc = "dispatching" /\ ~service.freed
      /\ UNCHANGED <<plan, reactor, faults, outcome>>
      /\ service' = [service EXCEPT !.held_jobs = @ - 1]
  BY DEF ServiceInv, ServiceTypes, Ending, DoneReturn
<1>2. outstanding' = outstanding - 1 /\ UNCHANGED <<delivered, reported>>
  BY DEF DoneReturn, DispatchReturn
<1>3. service.held_jobs - 1 = outstanding' /\ service.held_jobs - 1 \in Nat
  <2>1. outstanding' \in Nat
    BY DEF TaskInv, TypeOK
  <2> QED BY <1>1, <1>2, <2>1 DEF ServiceInv, JobsFollowSlots
<1>4. service' \in Services
  BY <1>1, <1>3, Zenon DEF ServiceTypes, Services
<1>5. /\ service'.pc = "dispatching" /\ service'.held_jobs = service.held_jobs - 1
      /\ service'.executor_retiring = service.executor_retiring
      /\ service'.event_attached = service.event_attached
      /\ service'.timer_attached = service.timer_attached
      /\ service'.notify = service.notify /\ service'.freed = service.freed
      /\ service'.recovering = service.recovering
  BY <1>1 DEF ServiceTypes, Services
<1>6. ServiceTypes'
  BY <1>1, <1>4 DEF ServiceTypes
<1>7. NoCompletionStranded'
  BY <1>5 DEF NoCompletionStranded, Depth
<1>8. Ending'
  BY <1>1, <1>5 DEF ServiceInv, Ending
<1>9. JobsFollowSlots'
  BY <1>3, <1>5 DEF JobsFollowSlots
<1>10. Outcomes'
  BY <1>1, <1>2, Zenon DEF ServiceInv, Outcomes
<1> QED BY <1>1, <1>6, <1>7, <1>8, <1>9, <1>10 DEF ServiceInv

\* The pump announces what it leaves behind before it returns.
LEMMA PumpStatsStep ==
  ASSUME ServiceTypes, ServiceInv, PumpStats
  PROVE  ServiceTypes' /\ ServiceInv'
<1> DEFINE back == [service EXCEPT !.pc = IF service.call = "close" THEN "join" ELSE "none"]
<1>1. /\ plan = "service" /\ service.pc = "stats" /\ ~service.freed
      /\ UNCHANGED <<vars, plan, reactor, outcome>>
      /\ IF complete # <<>> THEN tr_service_notify(back)
                            ELSE service' = back /\ UNCHANGED faults
  BY DEF ServiceInv, ServiceTypes, Ending, PumpStats
<1>2. back \in Services
  <2>1. PICK pc \in {"join", "none"} : back = [service EXCEPT !.pc = pc]
    BY Zenon
  <2>2. pc \in Steps
    BY DEF Steps
  <2> QED BY <2>1, <2>2, Zenon DEF ServiceTypes, Services
<1>3. /\ back.pc \in {"join", "none"} /\ back.held_jobs = service.held_jobs
      /\ back.executor_retiring = service.executor_retiring
      /\ back.event_attached = service.event_attached
      /\ back.timer_attached = service.timer_attached
      /\ back.notify = service.notify /\ back.freed = service.freed
      /\ back.recovering = service.recovering
  BY DEF ServiceTypes, Services
<1> HIDE DEF back
<1>4. /\ service' \in Services /\ faults' \in 0 .. MaxFaults
      /\ service'.pc \in {"join", "none"} /\ service'.held_jobs = service.held_jobs
      /\ service'.executor_retiring = service.executor_retiring
      /\ service'.event_attached = service.event_attached
      /\ service'.timer_attached = service.timer_attached
      /\ service'.notify = service.notify /\ service'.freed = service.freed
      /\ service'.recovering = service.recovering
      /\ complete # <<>> => service'.readable \/ service'.notification_error
  <2>1. CASE complete # <<>>
    <3>1. tr_service_notify(back)
      BY <1>1, <2>1
    <3> QED BY <1>2, <1>3, <3>1, NotifyEffect
  <2>2. CASE complete = <<>>
    <3>1. service' = back /\ UNCHANGED faults
      BY <1>1, <2>2
    <3> QED BY <1>2, <1>3, <2>2, <3>1 DEF ServiceTypes
  <2> QED BY <2>1, <2>2
<1>5. ServiceTypes'
  BY <1>1, <1>4 DEF ServiceTypes
<1>6. UNCHANGED <<complete, outstanding, delivered, reported>>
  BY <1>1 DEF vars
<1>7. NoCompletionStranded'
  BY <1>4, <1>6 DEF NoCompletionStranded
<1>8. Ending'
  BY <1>1, <1>4 DEF ServiceInv, Ending
<1> QED BY <1>1, <1>4, <1>5, <1>6, <1>7, <1>8, ServiceFrame, Zenon

-----------------------------------------------------------------------------
(* close(), after the pump, and the end.                                   *)

\* join, detach and destroy give one thing back after the other; each failure
\* leaves the rest to the next close, and the service is freed last.
LEMMA CloseStep ==
  ASSUME ServiceTypes, ServiceInv,
         CloseJoin \/ CloseJoined \/ CloseDetach \/ CloseDestroy
  PROVE  ServiceTypes' /\ ServiceInv'
<1>1. /\ plan = "service" /\ service.pc \in {"join", "joining", "detach", "destroy"}
      /\ ~service.freed /\ UNCHANGED <<plan, reactor, outcome>>
  BY DEF ServiceInv, ServiceTypes, Ending, CloseJoin, CloseJoined, CloseDetach,
         CloseDestroy
<1>2. UNCHANGED <<complete, outstanding, delivered, reported>>
  BY Zenon DEF CloseJoin, CloseJoined, CloseDetach, CloseDestroy, vars, JoinReturn,
       tr_task_executor_join, tr_task_executor_destroy
<1>3. faults' \in 0 .. MaxFaults
  BY DEF ServiceTypes, CloseJoin, CloseJoined, CloseDetach, CloseDestroy
<1>4. \/ \E pc \in {"joining", "none", "detach"} : service' = [service EXCEPT !.pc = pc]
      \/ service' = [service EXCEPT !.pc = "none", !.event_attached = FALSE]
      \/ service' = [service EXCEPT !.event_attached = FALSE, !.timer_attached = FALSE,
                       !.notify = FALSE, !.executor_retiring = TRUE, !.pc = "destroy"]
      \/ /\ service.pc = "destroy" /\ state' = "DESTROYED"
         /\ service' = [service EXCEPT !.pc = "none", !.freed = TRUE]
  <2>1. CASE CloseJoin \/ CloseJoined
    BY <2>1, Zenon DEF CloseJoin, CloseJoined
  <2>2. CASE CloseDetach
    BY <2>2, Zenon DEF CloseDetach
  <2>3. CASE CloseDestroy
    BY <2>3, Zenon DEF CloseDestroy, tr_task_executor_destroy
  <2> QED BY <2>1, <2>2, <2>3
<1>5. /\ service' \in Services
      /\ service'.readable = service.readable
      /\ service'.notification_error = service.notification_error
      /\ service'.held_jobs = service.held_jobs
      /\ service'.recovering = service.recovering /\ Ending'
  <2>1. \A pc \in Steps : [service EXCEPT !.pc = pc] \in Services
    BY Zenon DEF ServiceTypes, Services
  <2>2. {"joining", "none", "detach", "destroy"} \subseteq Steps
    BY DEF Steps
  <2>3. CASE \E pc \in {"joining", "none", "detach"} : service' = [service EXCEPT !.pc = pc]
    <3>1. PICK pc \in {"joining", "none", "detach"} : service' = [service EXCEPT !.pc = pc]
      BY <2>3
    <3>2. service' \in Services
      BY <2>1, <2>2, <3>1, Zenon
    <3>3. /\ service'.pc = pc /\ service'.readable = service.readable
          /\ service'.notification_error = service.notification_error
          /\ service'.held_jobs = service.held_jobs
          /\ service'.recovering = service.recovering
          /\ service'.executor_retiring = service.executor_retiring
          /\ service'.event_attached = service.event_attached
          /\ service'.timer_attached = service.timer_attached
          /\ service'.notify = service.notify /\ service'.freed = service.freed
      BY <3>1 DEF ServiceTypes, Services
    <3>4. Ending'
      BY <1>1, <3>3 DEF ServiceInv, Ending
    <3> QED BY <3>2, <3>3, <3>4
  <2>4. CASE service' = [service EXCEPT !.pc = "none", !.event_attached = FALSE]
    <3>1. service' \in Services
      BY <2>2, <2>4, Zenon DEF ServiceTypes, Services
    <3>2. /\ service'.pc = "none" /\ service'.readable = service.readable
          /\ service'.notification_error = service.notification_error
          /\ service'.held_jobs = service.held_jobs
          /\ service'.recovering = service.recovering
          /\ service'.executor_retiring = service.executor_retiring
          /\ ~service'.event_attached
          /\ service'.timer_attached = service.timer_attached
          /\ service'.notify = service.notify /\ service'.freed = service.freed
      BY <2>4 DEF ServiceTypes, Services
    <3>3. Ending'
      BY <1>1, <3>2 DEF ServiceInv, Ending
    <3> QED BY <3>1, <3>2, <3>3
  <2>5. CASE service' = [service EXCEPT !.event_attached = FALSE, !.timer_attached = FALSE,
                           !.notify = FALSE, !.executor_retiring = TRUE, !.pc = "destroy"]
    <3>1. service' \in Services
      BY <2>2, <2>5, Zenon DEF ServiceTypes, Services
    <3>2. /\ service'.readable = service.readable
          /\ service'.notification_error = service.notification_error
          /\ service'.held_jobs = service.held_jobs
          /\ service'.recovering = service.recovering
          /\ service'.executor_retiring /\ ~service'.event_attached
          /\ ~service'.timer_attached /\ ~service'.notify
          /\ service'.freed = service.freed
      BY <2>5 DEF ServiceTypes, Services
    <3>3. Ending'
      BY <1>1, <3>2 DEF ServiceInv, Ending
    <3> QED BY <3>1, <3>2, <3>3
  <2>6. CASE /\ service.pc = "destroy" /\ state' = "DESTROYED"
             /\ service' = [service EXCEPT !.pc = "none", !.freed = TRUE]
    <3>1. service' \in Services
      BY <2>2, <2>6, Zenon DEF ServiceTypes, Services
    <3>2. /\ service'.pc = "none" /\ service'.readable = service.readable
          /\ service'.notification_error = service.notification_error
          /\ service'.held_jobs = service.held_jobs
          /\ service'.recovering = service.recovering
          /\ service'.executor_retiring = service.executor_retiring
          /\ service'.event_attached = service.event_attached
          /\ service'.timer_attached = service.timer_attached
          /\ service'.notify = service.notify
      BY <2>6 DEF ServiceTypes, Services
    <3>3. Ending'
      BY <1>1, <2>6, <3>2 DEF ServiceInv, Ending
    <3> QED BY <3>1, <3>2, <3>3
  <2> QED BY <1>4, <2>3, <2>4, <2>5, <2>6
<1>6. ServiceTypes'
  BY <1>1, <1>3, <1>5 DEF ServiceTypes
<1>7. NoCompletionStranded'
  BY <1>1, <1>2, <1>5 DEF ServiceInv, NoCompletionStranded, Depth
<1> QED BY <1>1, <1>2, <1>5, <1>6, <1>7, ServiceFrame, Zenon

\* The rest leaves the service as it is.
LEMMA RestStep ==
  ASSUME ServiceTypes, ServiceInv,
         \/ ReactorStop
         \/ \E w \in Workers : SpuriousWakeup(w) /\ UNCHANGED serviceVars
         \/ plan = "alone" /\ UNCHANGED serviceVars
         \/ UNCHANGED allVars
  PROVE  ServiceTypes' /\ ServiceInv'
<1>1. /\ UNCHANGED <<plan, service, faults, outcome>>
      /\ reactor' = reactor \/ reactor' = "stopped"
  BY Zenon DEF ReactorStop, serviceVars, allVars
<1>2. ServiceTypes'
  BY <1>1 DEF ServiceTypes
<1>3. CASE plan = "alone"
  BY <1>1, <1>2, <1>3 DEF ServiceInv
<1>4. CASE plan = "service"
  <2>1. UNCHANGED <<state, complete, outstanding, delivered, reported>>
    BY <1>4, Zenon DEF ReactorStop, SpuriousWakeup, vars, allVars
  <2>2. NoCompletionStranded'
    BY <1>1, <1>4, <2>1 DEF ServiceInv, NoCompletionStranded, Depth
  <2>3. Ending'
    BY <1>1, <1>4, <2>1 DEF ServiceInv, Ending
  <2> QED BY <1>1, <1>2, <1>4, <2>1, <2>2, <2>3, ServiceFrame, Zenon
<1> QED BY <1>3, <1>4 DEF ServiceTypes

\* Every step of the service keeps the invariant.
LEMMA ServiceInvNext ==
  ASSUME TaskInv, TaskInv', ServiceTypes, ServiceInv,
         [ServiceNext \/ ServiceTerminated]_allVars
  PROVE  ServiceTypes' /\ ServiceInv'
<1>1. ASSUME Application PROVE ServiceTypes' /\ ServiceInv'
  <2>1. \A t \in JobTasks : t \in Tasks
    BY Zenon
  <2> QED BY <1>1, <2>1, StartStep, SubmitJobStep, CancelJobStep, StopServiceStep,
             RestStep, Zenon DEF Application
<1>2. ASSUME tr_service_event \/ tr_service_watchdog \/ ClosePump
      PROVE  ServiceTypes' /\ ServiceInv'
  <2>1. /\ plan = "service" /\ UNCHANGED <<vars, plan, reactor, outcome>>
        /\ ~service.freed
    BY <1>2 DEF tr_service_event, tr_service_watchdog, ClosePump, ServiceInv,
                ServiceTypes, Ending
  <2>2. PICK call \in {"event", "watchdog", "close"} : PumpFrom(call)
    BY <1>2, Zenon DEF tr_service_event, tr_service_watchdog, ClosePump
  <2> QED BY <2>1, <2>2, PumpFromStep, Zenon
<1>3. ASSUME PumpNext PROVE ServiceTypes' /\ ServiceInv'
  BY <1>2, <1>3, PumpLookStep, DoneStep, DoneReturnStep, PumpStatsStep,
     StopServiceStep, CloseStep, Zenon DEF PumpNext
<1>4. ASSUME NEW w \in Workers,
             \/ AloneWorker(w) \/ ServiceWorker(w)
             \/ SpuriousWakeup(w) /\ UNCHANGED serviceVars
      PROVE  ServiceTypes' /\ ServiceInv'
  BY <1>4, WorkerStep, RestStep, Zenon DEF AloneWorker
<1>5. ASSUME ServiceNext PROVE ServiceTypes' /\ ServiceInv'
  BY <1>1, <1>2, <1>3, <1>4, <1>5, RestStep, Zenon DEF ServiceNext
<1>6. ASSUME ServiceTerminated \/ UNCHANGED allVars PROVE ServiceTypes' /\ ServiceInv'
  BY <1>6, RestStep, Zenon DEF ServiceTerminated, Terminated, allVars
<1> QED BY <1>5, <1>6, Zenon

\* No order of commit, notify, acknowledge, dispatch, close and reap_stopped,
\* and no number of failed system calls, strands a completion, separates a job
\* from its slot, reports a success that was cancelled in time, or frees a
\* service that something can still call into.
THEOREM ServiceIsSound == ServiceSpec => []ServiceSound
<1>1. ServiceInit => ServiceTypes /\ ServiceInv
  BY ServiceStart
<1>2. /\ TaskInv /\ TaskInv' /\ ServiceTypes /\ ServiceInv
      /\ [ServiceNext \/ ServiceTerminated]_allVars
      => ServiceTypes' /\ ServiceInv'
  BY ServiceInvNext
<1>3. TaskInv /\ ServiceTypes /\ ServiceInv => ServiceSound
  BY ServiceMeans
<1> QED BY <1>1, <1>2, <1>3, ServiceUses, ExecutorInvariant, PTL DEF ServiceSpec
=============================================================================
