--------------------------- MODULE RecordDispatch ---------------------------
(***************************************************************************)
(* The serving side of the record layer, first half: routes and their      *)
(* bindings (src/src/rpc/rpc_record_router.c), and the dispatcher that     *)
(* queues the records of a call, has the application's work run them one   *)
(* after the other on the task executor, and sends what the work replied   *)
(* (rpc_record_dispatch.c).                                                *)
(*                                                                         *)
(* An operator on s = [v, n] is a function of the owner thread: v is the   *)
(* server, n the transport.  v.calls[j] is a dispatch slot together with   *)
(* its route and binding: call.st is the binding's record state, call.     *)
(* terminal the end of the route.  call.task is the submitted job; only    *)
(* the worker that runs it touches task.reply until the executor has       *)
(* delivered it back.  tx is what one owner step meets: "OK", a transport  *)
(* without room ("AGAIN"), a memory budget without any ("NOMEM") or a task *)
(* executor without a free slot ("BUSY").                                  *)
(***************************************************************************)
EXTENDS RecordNet, RecordMailbox, SequencesExt

CONSTANTS
  DispatchCapacity,   \* dispatch slots
  MaxPending,         \* config.max_pending_per_call
  MaxReplies          \* config.max_replies_per_event

VARIABLE server

CallSlots == 1 .. DispatchCapacity

NoTask == [phase |-> "none"]
NoReply == [set |-> FALSE]
NoBox == tr_rpc_record_producer_create(FALSE)

\* What tx means to something that neither allocates nor submits.
Room(tx) == IF tx = "AGAIN" THEN "AGAIN" ELSE "OK"

FreeCall ==
  [active |-> FALSE, stream |-> 0, bound |-> FALSE, method |-> "none",
   st |-> tr_rpc_record_state_init("stream"),
   terminal |-> FALSE, status |-> "OK", notified |-> FALSE,
   started |-> FALSE, headers_sent |-> FALSE, final_accepted |-> FALSE,
   admission_failed |-> FALSE, open_due |-> "none", deadline |-> "none",
   queue |-> <<>>, task |-> NoTask, ready |-> NoReply,
   held |-> FALSE, box |-> NoBox, asynchronous |-> FALSE,
   producer_turn |-> FALSE, producer_failed |-> FALSE]

-----------------------------------------------------------------------------
(* What the application's work may do to its reply                         *)

NewReply(headers_sent, asynchronous) ==
  [set |-> TRUE, bodies |-> 0, initial |-> FALSE, trailing |-> FALSE,
   finished |-> FALSE, status |-> "OK", failed |-> FALSE, producer |-> FALSE,
   headers_sent |-> headers_sent, asynchronous |-> asynchronous]

\* The first failure is kept, whatever the work does next.
tr_reply_fail(r, status) ==
  [r EXCEPT !.failed = TRUE, !.status = IF @ = "OK" THEN status ELSE @]

Shut(r) == r.asynchronous \/ r.finished \/ r.status # "OK"

tr_rpc_record_reply_append(r) ==
  IF Shut(r) THEN tr_reply_fail(r, "FAILED_PRECONDITION")
  ELSE IF r.bodies = MaxReplies THEN tr_reply_fail(r, "RESOURCE_EXHAUSTED")
  ELSE [r EXCEPT !.bodies = @ + 1]

tr_rpc_record_reply_set_metadata(r, phase) ==
  IF Shut(r) THEN tr_reply_fail(r, "FAILED_PRECONDITION")
  ELSE IF phase = "initial"
    THEN IF r.initial \/ r.headers_sent THEN tr_reply_fail(r, "FAILED_PRECONDITION")
         ELSE [r EXCEPT !.initial = TRUE]
  ELSE IF r.trailing THEN tr_reply_fail(r, "FAILED_PRECONDITION")
  ELSE [r EXCEPT !.trailing = TRUE]

tr_rpc_record_reply_finish(r, status) ==
  IF r.asynchronous THEN tr_reply_fail(r, "FAILED_PRECONDITION")
  ELSE IF r.finished THEN r
  ELSE [r EXCEPT !.finished = TRUE, !.status = IF @ = "OK" THEN status ELSE @]

\* A refused acquisition leaves the reply as it was.
tr_rpc_v2_reply_acquire_producer(r) ==
  IF Shut(r) \/ r.failed \/ r.bodies > 0 \/ r.initial \/ r.trailing THEN r
  ELSE [r EXCEPT !.producer = TRUE, !.asynchronous = TRUE]

ReplyStep(r, op) ==
  CASE op = "append" -> tr_rpc_record_reply_append(r)
    [] op \in {"initial", "trailing"} -> tr_rpc_record_reply_set_metadata(r, op)
    [] op = "finish" -> tr_rpc_record_reply_finish(r, "OK")
    [] op = "fail" -> tr_rpc_record_reply_finish(r, "NOT_FOUND")
    [] op = "acquire" -> tr_rpc_v2_reply_acquire_producer(r)

\* The end of tr_dispatch_work: the reply once the work has returned status.
WorkReturned(r, kind, status) ==
  LET a == IF status # "OK" /\ ~r.failed THEN [r EXCEPT !.status = status] ELSE r
      b == IF kind = "HALF_CLOSE" /\ ~a.asynchronous
             THEN [a EXCEPT !.finished = TRUE] ELSE a
      c == IF b.trailing /\ ~b.finished /\ b.status = "OK"
             THEN tr_reply_fail(b, "FAILED_PRECONDITION") ELSE b
  IN  IF c.status = "OK" THEN c
      ELSE [c EXCEPT !.finished = TRUE, !.bodies = 0,
                     !.initial = @ /\ ~c.failed, !.trailing = @ /\ ~c.failed]

-----------------------------------------------------------------------------
(* The end of a call                                                       *)

\* tr_task_executor_cancel: a job that has completed is left alone.
Cancel(call) ==
  IF call.task.phase \in {"queued", "running"}
    THEN [call EXCEPT !.task.cancel = TRUE] ELSE call

\* tr_dispatch_route_terminal, through tr_router_terminal: once.
RouteTerminal(call, status) ==
  IF call.terminal THEN call
  ELSE Cancel([call EXCEPT !.terminal = TRUE, !.status = status])

\* The binding notifies its route of an end its record state has reached.
Bound(call) == IF call.st.terminal THEN RouteTerminal(call, call.st.status) ELSE call

tr_rpc_record_router_abort_on_owner(call, status) ==
  IF call.terminal THEN call
  ELSE IF call.bound
    THEN Bound([call EXCEPT !.st = tr_rpc_record_state_abort(@, status)])
  ELSE RouteTerminal(call, status)

tr_dispatch_local_abort(call, status) ==
  tr_rpc_record_router_abort_on_owner(call, status)

tr_dispatch_drop_queued(call) == [call EXCEPT !.queue = <<>>]

\* The mailbox is closed and left to the application, which can no longer
\* write to it.
tr_dispatch_close_producer(call) ==
  [call EXCEPT !.held = FALSE, !.box = IF call.held THEN NoBox ELSE @]

\* The host's terminal callback (tr_endpoint_dispatch_terminal): the endpoint
\* slot of call j learns the result; an admission that failed is reset at once.
EndpointTerminal(v, i, result, immediate_reset) ==
  IF v.slots[i].terminal THEN v
  ELSE [v EXCEPT !.slots[i].terminal = TRUE, !.slots[i].status = result.status,
                 !.slots[i].final_accepted = result.final_accepted,
                 !.slots[i].final_due = IF immediate_reset THEN "passed" ELSE "armed"]

HostTerminal(v, j) ==
  LET call == v.calls[j]
      hosts == {i \in DOMAIN v.slots : v.slots[i].active /\ v.slots[i].call = j}
      w == [v EXCEPT !.ended[call.stream] = IF call.started THEN @ + 1 ELSE @]
  IN  IF hosts = {} THEN w
      ELSE EndpointTerminal(w, CHOOSE i \in hosts : TRUE,
             [status |-> call.status, final_accepted |-> call.final_accepted],
             ~v.cleanup /\ call.admission_failed)

\* Mutant: the end is told although the application still works on the call.
SettleEarly(s, j) ==
  LET call == s.v.calls[j]
      done == [tr_dispatch_drop_queued(tr_dispatch_close_producer(call))
                 EXCEPT !.ready = NoReply]
      t == [s EXCEPT !.v.calls[j] = Cancel(done)]
  IN  IF ~call.terminal THEN s
      ELSE IF call.notified THEN t
      ELSE [t EXCEPT !.v = HostTerminal([@ EXCEPT !.calls[j].notified = TRUE], j)]

\* What is not in the worker's hands is released; the application is told
\* only when the worker has returned.
tr_dispatch_settle(s, j) ==
  LET call == s.v.calls[j]
      status == IF s.v.cleanup /\ ~call.notified /\ ~call.final_accepted
                  THEN "CANCELLED" ELSE call.status
      done == [tr_dispatch_drop_queued(tr_dispatch_close_producer(call))
                 EXCEPT !.ready = NoReply, !.status = status]
      t == [s EXCEPT !.v.calls[j] = Cancel(done)]
  IN  IF ~call.terminal THEN s
      ELSE IF call.task.phase # "none" \/ call.notified THEN t
      ELSE [t EXCEPT !.v = HostTerminal([@ EXCEPT !.calls[j].notified = TRUE], j)]

\* The admission deadline until the OPEN record, the call's own after it.
Due(call) == IF call.open_due # "none" THEN call.open_due ELSE call.deadline

tr_dispatch_live(call) ==
  IF call.terminal \/ Due(call) # "passed" THEN call
  ELSE tr_dispatch_local_abort(
         [call EXCEPT !.admission_failed = @ \/ call.open_due # "none"],
         "DEADLINE_EXCEEDED")

-----------------------------------------------------------------------------
(* Records and events of a call                                            *)

pending(call) ==
  Len(call.queue) + (IF call.task.phase # "none" THEN 1 ELSE 0)
                  + (IF call.ready.set THEN 1 ELSE 0)

\* A record that fits becomes a job.
tr_dispatch_received(v, call, record, tx) ==
  LET opened == IF record.kind = "OPEN"
                  THEN [call EXCEPT !.open_due = "none", !.started = TRUE,
                                    !.deadline = IF record.timed THEN "armed" ELSE "none"]
                ELSE call
      settled == call.ready.set /\ call.ready.finished
  IN  IF call.terminal \/ call.producer_failed \/ v.dispatch_stopping \/ settled THEN call
      ELSE IF tr_dispatch_live(call).terminal THEN tr_dispatch_live(call)
      ELSE IF pending(call) >= MaxPending \/ tx = "NOMEM"
        THEN tr_dispatch_local_abort(opened, "RESOURCE_EXHAUSTED")
      ELSE [opened EXCEPT !.queue = Append(@, record.kind)]

\* The router binds the call to the method its OPEN names; a budget that has
\* no room for the binding (tx "AGAIN") ends the call.
tr_rpc_record_router_receive_on_owner(v, call, record, tx) ==
  LET opening == [call EXCEPT !.bound = TRUE, !.method = record.method,
                              !.st = tr_rpc_record_state_init(record.method)]
      b == IF call.bound THEN call ELSE opening
      fits == Admissible(b.st, "request", record)
      next == [b EXCEPT !.st = tr_rpc_record_stream_receive_on_owner(@, "request", record)]
  IN  IF call.terminal THEN call
      ELSE IF ~call.bound /\ record.kind # "OPEN" THEN RouteTerminal(call, "INVALID_ARGUMENT")
      ELSE IF ~call.bound /\ record.method = "absent"
        THEN RouteTerminal(call, "UNIMPLEMENTED")
      ELSE IF ~call.bound /\ tx = "AGAIN" THEN RouteTerminal(call, "RESOURCE_EXHAUSTED")
      ELSE IF fits THEN tr_dispatch_received(v, next, record, tx)
      ELSE Bound(next)

tr_rpc_record_dispatch_receive_on_owner(s, j, record, tx) ==
  LET call == tr_dispatch_live(s.v.calls[j])
      next == IF call.terminal THEN call
              ELSE tr_rpc_record_router_receive_on_owner(s.v, call, record, tx)
  IN  IF s.v.dispatch_stopping THEN s
      ELSE tr_dispatch_settle([s EXCEPT !.v.calls[j] = next], j)

tr_rpc_record_router_event_on_owner(call, event, reason) ==
  IF call.terminal THEN call
  ELSE IF call.bound
    THEN Bound([call EXCEPT !.st =
           tr_rpc_record_stream_event_on_owner(@, "response", event, reason)])
  ELSE IF event \in {"RESET", "REFUSED"}
    THEN RouteTerminal(call, tr_rpc_record_status_from_reset(reason))
  ELSE IF event \in {"OPENED", "WRITABLE"} THEN call
  ELSE RouteTerminal(call, "UNAVAILABLE")

tr_rpc_record_dispatch_event_on_owner(s, j, event, reason) ==
  tr_dispatch_settle(
    [s EXCEPT !.v.calls[j] = tr_rpc_record_router_event_on_owner(@, event, reason)], j)

tr_rpc_record_dispatch_abort_on_owner(s, j, status) ==
  tr_dispatch_settle([s EXCEPT !.v.calls[j] = tr_dispatch_local_abort(@, status)], j)

\* A stream gets the first free slot; 0 is TR_AGAIN.
tr_rpc_record_dispatch_admit_until_on_owner(v) ==
  LET free == {j \in CallSlots : ~v.calls[j].active}
  IN  IF v.dispatch_stopping \/ free = {} THEN 0
      ELSE CHOOSE j \in free : \A m \in free : j <= m

tr_rpc_record_dispatch_retire_on_owner(call) ==
  call.notified /\ pending(call) = 0 /\ ~call.held

-----------------------------------------------------------------------------
(* Replies                                                                 *)

Outcome(status) == IF status = "OK" THEN "OK" ELSE "error"

\* One record of the reply is sent; [ret, s].
tr_rpc_record_router_send_on_owner(s, j, record, tx) ==
  LET call == s.v.calls[j]
      ret == IF ~call.bound \/ call.terminal THEN "STATE"
             ELSE StreamSends(s.n, "server", call.stream, call.st, "response", record,
                              IF tx = "BUSY" THEN "OK" ELSE tx)
      next == Bound([call EXCEPT
                !.st = tr_rpc_record_state_apply(@, "response", record),
                !.headers_sent = @ \/ record.kind = "INITIAL",
                !.final_accepted = @ \/ record.kind = "FINAL"])
      w == [s.v EXCEPT !.calls[j] = next,
              !.sent[call.stream] = IF record.kind = "MESSAGE" THEN @ + 1 ELSE @,
              !.final[call.stream] = IF record.kind = "FINAL" THEN Outcome(record.status) ELSE @]
  IN  IF ret = "OK"
        THEN [ret |-> ret,
              s |-> [v |-> w, n |-> SendRecord(s.n, "server", call.stream, record)]]
      ELSE [ret |-> ret, s |-> s]

\* How a call ends whose reply cannot be sent.
Unsent(ret) == IF ret = "NOMEM" THEN "RESOURCE_EXHAUSTED" ELSE "UNAVAILABLE"

\* The executor takes the head of the queue.
CanSubmit(v, call, tx) ==
  /\ tx # "BUSY"
  /\ ~call.terminal /\ ~call.producer_failed /\ ~v.dispatch_stopping
  /\ call.task.phase = "none" /\ call.queue # <<>>

tr_dispatch_submit(call) ==
  [call EXCEPT !.queue = Tail(@), !.producer_turn = TRUE,
     !.task = [phase |-> "queued", kind |-> Head(call.queue), cancel |-> FALSE,
               work_status |-> "OK", cancelled |-> FALSE,
               reply |-> NewReply(call.headers_sent, call.asynchronous)]]

\* One command of the mailbox; [moved, s].
tr_dispatch_producer_step(s, j, tx) ==
  LET call == s.v.calls[j]
      box == call.box
      kind == IF box.kind = "MESSAGE" /\ ~call.headers_sent THEN "INITIAL" ELSE box.kind
      misfits == ~call.terminal /\ ~(box.kind = "FINAL" /\ box.status = "INTERNAL")
      End(next, ret) ==
        CASE ret \in {"OK", "AGAIN"} -> next
          [] ret = "STATE" /\ misfits ->
               [tr_dispatch_drop_queued(next) EXCEPT
                  !.box = tr_rpc_record_producer_fail(@, "INTERNAL").p,
                  !.producer_failed = TRUE]
          [] OTHER -> tr_dispatch_local_abort(next, Unsent(ret))
      Answered(r) ==
        [moved |-> r.ret # "AGAIN",
         s |-> tr_dispatch_settle(
                 [r.s EXCEPT !.v.calls[j] =
                    End([@ EXCEPT !.box = tr_rpc_record_producer_complete(
                                            @, r.ret = "OK" /\ kind = box.kind)], r.ret)], j)]
  IN  IF tr_rpc_record_producer_take(box) # "OK" THEN [moved |-> FALSE, s |-> s]
      ELSE Answered(tr_rpc_record_router_send_on_owner(
                      s, j, Record(kind, box.status), tx))

\* No reply is waiting: the mailbox and the queue take turns.
StepIdle(s, j, tx) ==
  LET call == s.v.calls[j]
      first == call.held /\ (call.producer_turn \/ call.task.phase # "none"
                               \/ call.queue = <<>>)
      submits == CanSubmit(s.v, call, tx)
      submitted == [s EXCEPT !.v.calls[j] = tr_dispatch_submit(@)]
      Turn(t) == [t EXCEPT !.v.calls[j].producer_turn = FALSE]
      First(r) == IF ~r.moved /\ submits THEN submitted ELSE Turn(r.s)
  IN  IF first THEN First(tr_dispatch_producer_step(s, j, tx))
      ELSE IF submits THEN submitted
      ELSE IF call.held THEN Turn(tr_dispatch_producer_step(s, j, tx).s)
      ELSE Turn(s)

\* A reply is sent record by record: INITIAL, the messages, FINAL.
StepReply(s, j, tx) ==
  LET call == s.v.calls[j]
      reply == call.ready
      kind == IF ~call.headers_sent /\ (reply.bodies > 0 \/ reply.initial) THEN "INITIAL"
              ELSE IF reply.bodies > 0 THEN "MESSAGE" ELSE "FINAL"
      sent == CASE kind = "INITIAL" -> [reply EXCEPT !.initial = FALSE]
                [] kind = "MESSAGE" -> [reply EXCEPT !.bodies = @ - 1]
                [] OTHER -> reply
      misfits == ~(reply.finished /\ reply.status = "INTERNAL")
      End(next, ret) ==
        CASE ret = "OK" -> [next EXCEPT !.ready = sent]
          [] ret = "AGAIN" -> next
          [] ret = "STATE" /\ misfits ->
               [tr_dispatch_drop_queued(next) EXCEPT
                  !.ready = [reply EXCEPT !.bodies = 0, !.finished = TRUE,
                                          !.status = "INTERNAL"]]
          [] OTHER -> tr_dispatch_local_abort(next, Unsent(ret))
      Answered(r) == tr_dispatch_settle([r.s EXCEPT !.v.calls[j] = End(@, r.ret)], j)
  IN  IF kind = "FINAL" /\ ~reply.finished
        THEN [s EXCEPT !.v.calls[j].ready = NoReply]
      ELSE Answered(tr_rpc_record_router_send_on_owner(s, j,
             Record(kind, IF kind = "FINAL" THEN reply.status ELSE "OK"), tx))

tr_dispatch_step(s, j, tx) ==
  LET call == tr_dispatch_live(s.v.calls[j])
      abandoned == call.held /\ call.box.abandoned
      t == [s EXCEPT !.v.calls[j] = IF abandoned THEN tr_dispatch_local_abort(call, "CANCELLED")
                                    ELSE call]
  IN  IF ~call.active THEN s
      ELSE IF call.terminal \/ abandoned THEN tr_dispatch_settle(t, j)
      ELSE IF call.ready.set THEN StepReply(t, j, tx)
      ELSE StepIdle(t, j, tx)

\* The executor gives a finished job back to the owner.
tr_dispatch_done(s, j) ==
  LET call == s.v.calls[j]
      task == call.task
      reply == task.reply
      back == [call EXCEPT !.task = NoTask, !.held = @ \/ reply.producer,
                           !.asynchronous = @ \/ reply.producer]
      live == tr_dispatch_live(back)
      status == IF task.cancelled THEN "CANCELLED"
                ELSE IF task.work_status = "TIMEOUT" THEN "DEADLINE_EXCEEDED" ELSE "INTERNAL"
      next ==
        IF s.v.cleanup \/ back.terminal \/ s.v.dispatch_stopping
          THEN tr_dispatch_close_producer(back)
        ELSE IF back.producer_failed THEN live
        ELSE IF task.cancelled \/ task.work_status # "OK"
          THEN tr_dispatch_local_abort(back, status)
        ELSE IF live.terminal THEN live
        ELSE IF back.asynchronous /\ reply.status = "OK"
          THEN IF reply.producer
                 THEN [back EXCEPT !.box = tr_rpc_record_producer_activate(@)] ELSE back
        ELSE LET kept == IF back.asynchronous THEN tr_dispatch_close_producer(back) ELSE back
                 told == [kept EXCEPT !.ready = reply]
             IN  IF reply.finished THEN tr_dispatch_drop_queued(told) ELSE told
  IN  tr_dispatch_settle([s EXCEPT !.v.calls[j] = next], j)

\* tr_task_executor_dispatch, whose completion_limit covers the table.
Completions(s) ==
  FoldLeft(LAMBDA t, j : IF t.v.calls[j].task.phase = "completed"
                           THEN tr_dispatch_done(t, j) ELSE t,
           s, [j \in CallSlots |-> j])
=============================================================================
