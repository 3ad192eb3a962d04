----------------------------- MODULE RecordCall -----------------------------
(***************************************************************************)
(* Calls from end to end: a record client (RecordClient) and a record      *)
(* endpoint with its dispatcher (RecordEndpoint) on the two sides of one   *)
(* channel (RecordNet), the worker that runs the application's work, and   *)
(* an application thread that writes through a producer.                   *)
(*                                                                         *)
(* The server's actions are here: each is one step of its owner thread,    *)
(* one step of a worker or one of the application.                         *)
(***************************************************************************)
EXTENDS RecordClient, RecordEndpoint

CONSTANT Plans  \* how applications and network behave: a function to PlanType

VARIABLE plan   \* the plan of a behaviour, which never changes

\* calls bounds the calls started; a call has one of the methods and, in timed,
\* may have a deadline; work does one of the scripts to its reply and returns
\* one of the results; client_tx and server_tx are what a step of an owner may
\* meet; chances are "cancel" (a call is cancelled), "unbound" (it gets no
\* binding), "expire" (a timeout of the server passes), "link" (the connection
\* is lost), "drain" (the client drains), "client" and "server" (that side
\* closes, or its reactor stops).
PlanFields == {"calls", "methods", "timed", "scripts", "results", "client_tx",
               "server_tx", "chances"}

ASSUME PlansAssumption == \A i \in DOMAIN Plans : DOMAIN Plans[i] = PlanFields

Chance(what) == what \in Plans[plan].chances

vars == <<client, server, net, plan>>

Init ==
  /\ client = tr_rpc_record_client_create_on_owner
  /\ server = tr_rpc_record_endpoint_create_on_owner
  /\ net = NetInit
  /\ plan \in DOMAIN Plans

-----------------------------------------------------------------------------
(* The server's owner                                                      *)

Here == [v |-> server, n |-> net]

Serves(s) == server' = s.v /\ net' = s.n /\ UNCHANGED client

tr_endpoint_tick(tx) ==
  /\ server.phase = "live"
  /\ Serves(tr_rpc_record_endpoint_pump_on_owner(Here, tx))

\* The channel reads one frame and calls the endpoint.
ServerReads(k, tx) ==
  LET a == Arrives(net, "server", k)
      s == [v |-> server, n |-> a.n]
  IN  /\ net.up["server"] /\ net.out["client"][k] # <<>>
      /\ Serves(IF a.event = "none" \/ server.phase # "live" THEN s
                ELSE IF a.event = "DATA" THEN tr_endpoint_data(s, k, a.record, tx)
                ELSE tr_endpoint_event(s, k, a.event, a.status, tx))

ServerResetAnswered(k, tx) ==
  LET s == [v |-> server, n |-> ResetAnswered(net, "server", k)]
  IN  /\ net.end["server"][k].state = "acked"
      /\ Serves(IF server.phase = "live"
                  THEN tr_endpoint_event(s, k, "CLOSED", "OK", tx) ELSE s)

ServerDisconnected(tx) ==
  LET s == [v |-> server, n |-> Disconnect(net, "server")]
  IN  /\ net.up["server"]
      /\ Chance("link") \/ ~net.up["client"]
      /\ Serves(IF server.phase # "live" THEN s
                ELSE FoldLeft(LAMBDA t, k : tr_endpoint_event(t, k, "ERROR", "SYS", tx),
                              s, SetToSortSeq(Live(net, "server"), <)))

\* Close ends every call, and is repeated until every slot is done and the
\* dispatcher has no job left.
tr_rpc_record_endpoint_close_on_owner(tx) ==
  LET Abandon(t, i) ==
        LET x == t.v.slots[i]
        IN  IF x.active /\ ~x.terminal /\ x.call # 0
              THEN tr_rpc_record_dispatch_abort_on_owner(t, x.call, "CANCELLED") ELSE t
      s == FoldLeft(Abandon, [Here EXCEPT !.v.stopping = TRUE], [i \in Slots |-> i])
      Done(x) == x.active => /\ x.terminal /\ x.reported /\ Finished(x)
                             /\ x.pending_event = "none"
      Closed(t) == IF \A i \in Slots : Done(t.v.slots[i])
                     THEN [t EXCEPT !.v.phase = "gone", !.v.dispatch_stopping = TRUE]
                   ELSE t
  IN  /\ server.phase = "live" /\ Chance("server")
      /\ Serves(Closed(tr_rpc_record_endpoint_pump_on_owner(s, tx)))

\* The reactor has stopped: a recovery thread releases what no worker has and
\* asks the workers to stop.
tr_rpc_record_dispatch_reap_stopped ==
  LET Drop(call) == [tr_dispatch_drop_queued(tr_dispatch_close_producer(Cancel(call)))
                       EXCEPT !.ready = NoReply]
  IN  /\ server.phase = "live" /\ Chance("server")
      /\ Serves([v |-> [server EXCEPT !.phase = "reaping", !.cleanup = TRUE,
                          !.stopping = TRUE, !.dispatch_stopping = TRUE,
                          !.calls = [j \in CallSlots |-> Drop(@[j])]],
                 n |-> Disconnect(net, "server")])

ReapCompletions ==
  /\ server.phase = "reaping"
  /\ Serves(Completions(Here))

\* No worker has a job any more: what was not told is told now.
tr_rpc_record_endpoint_reap_stopped ==
  LET End(t, j) ==
        IF t.v.calls[j].active
          THEN tr_dispatch_settle(
                 [t EXCEPT !.v.calls[j] = tr_dispatch_local_abort(@, "CANCELLED")], j)
        ELSE t
      s == FoldLeft(End, Here, [j \in CallSlots |-> j])
      Tell(t, i) == IF t.v.slots[i].active THEN tr_endpoint_report(t, i) ELSE t
      t == FoldLeft(Tell, s, [i \in Slots |-> i])
  IN  /\ server.phase = "reaping"
      /\ \A j \in CallSlots : server.calls[j].task.phase = "none"
      /\ Serves([t EXCEPT !.v.phase = "gone"])

-----------------------------------------------------------------------------
(* Time, the worker and the application                                    *)

Works(call, j) ==
  server' = [server EXCEPT !.calls[j] = call] /\ UNCHANGED <<client, net>>

CallDeadlinePasses(j) ==
  /\ server.calls[j].active /\ server.calls[j].deadline = "armed"
  /\ Works([server.calls[j] EXCEPT !.deadline = "passed"], j)

OpenDeadlinePasses(j) ==
  /\ server.calls[j].active /\ server.calls[j].open_due = "armed"
  /\ Works([server.calls[j] EXCEPT !.open_due = "passed"], j)

FinalWaitPasses(i) ==
  /\ server.slots[i].final_due = "armed"
  /\ server' = [server EXCEPT !.slots[i].final_due = "passed"]
  /\ UNCHANGED <<client, net>>

\* The worker takes the job; one that is cancelled or late is not run.
WorkStarts(j) ==
  LET call == server.calls[j]
      task == call.task
      late == ~task.cancel /\ call.deadline = "passed"
  IN  /\ task.phase = "queued"
      /\ Works([call EXCEPT !.task =
           CASE task.cancel -> [task EXCEPT !.phase = "completed", !.cancelled = TRUE,
                                  !.reply = WorkReturned(@, task.kind, "CANCELLED")]
             [] late -> [task EXCEPT !.phase = "completed", !.work_status = "TIMEOUT"]
             [] OTHER -> [task EXCEPT !.phase = "running"]], j)

\* The work returns; whoever acquired the producer may already write to it.
tr_dispatch_work(j, script, status) ==
  LET call == server.calls[j]
      task == call.task
      reply == FoldLeft(ReplyStep, task.reply, script)
      box == tr_rpc_record_producer_create(task.reply.headers_sent)
  IN  /\ task.phase = "running"
      /\ Works([call EXCEPT !.box = IF reply.producer THEN box ELSE @,
                  !.task = [task EXCEPT !.phase = "completed", !.cancelled = task.cancel,
                              !.reply = WorkReturned(reply, task.kind, status)]], j)

HasProducer(call) ==
  call.held \/ (call.task.phase = "completed" /\ call.task.reply.producer)

\* tr_rpc_v2_producer_send, send_initial_metadata and finish, by the
\* application thread that has the handle.
ProducerWrites(j, kind, status) ==
  LET call == server.calls[j]
  IN  /\ call.active /\ HasProducer(call) /\ call.box.app_refs > 0
      /\ tr_producer_begin(call.box, kind) = "OK"
      /\ kind = "MESSAGE" => server.sent[call.stream] < MaxMessages
      /\ Works([call EXCEPT !.box = tr_producer_publish(@, kind, status, 0, "OK")], j)

ProducerReleased(j) ==
  LET call == server.calls[j]
  IN  /\ call.active /\ HasProducer(call) /\ call.box.app_refs > 0
      /\ Works([call EXCEPT !.box = tr_rpc_v2_producer_release(@)], j)

-----------------------------------------------------------------------------

ClientAsks ==
  \/ \E method \in Plans[plan].methods, timed \in Plans[plan].timed, bound \in BOOLEAN, tx \in Plans[plan].client_tx :
       /\ bound \/ Chance("unbound")
       /\ client.generation < Plans[plan].calls
       /\ tr_record_client_call_start(method, timed, bound, tx)
  \/ \E i \in ClientSlots, tx \in Plans[plan].client_tx :
       \/ \E kind \in {"MESSAGE", "HALF_CLOSE"} : tr_record_client_request(i, kind, tx)
       \/ Chance("cancel") /\ tr_rpc_record_client_cancel_on_owner(i, tx)
  \/ Chance("drain") /\ tr_rpc_record_client_begin_drain_on_owner
  \/ Chance("client") /\ tr_rpc_record_client_reap_stopped
  \/ \E tx \in Plans[plan].client_tx :
       Chance("client") /\ tr_rpc_record_client_close_on_owner(tx)

ClientStep ==
  /\ \/ ClientAsks
     \/ \E tx \in Plans[plan].client_tx : tr_record_client_tick(tx)
     \/ \E i \in ClientSlots : ClientDeadlinePasses(i)
     \/ \E k \in Calls, tx \in Plans[plan].client_tx :
          \/ \E cancel \in {FALSE, Chance("cancel")} : ClientReads(k, cancel, tx)
          \/ ClientResetAnswered(k, tx)
     \/ \E tx \in Plans[plan].client_tx :
          (Chance("link") \/ ~net.up["server"]) /\ ClientDisconnected(tx)
  /\ UNCHANGED server

ServerOwnerStep ==
  \/ \E tx \in Plans[plan].server_tx : \/ tr_endpoint_tick(tx)
                          \/ ServerDisconnected(tx)
                          \/ tr_rpc_record_endpoint_close_on_owner(tx)
                          \/ \E k \in Calls : ServerReads(k, tx) \/ ServerResetAnswered(k, tx)
  \/ tr_rpc_record_dispatch_reap_stopped
  \/ ReapCompletions
  \/ tr_rpc_record_endpoint_reap_stopped

WorkerStep ==
  \E j \in CallSlots :
    \/ WorkStarts(j)
    \/ \E script \in Plans[plan].scripts, status \in Plans[plan].results : tr_dispatch_work(j, script, status)
    \/ \E kind \in {"INITIAL", "MESSAGE"} : ProducerWrites(j, kind, "OK")
    \/ \E status \in {"OK", "NOT_FOUND"} : ProducerWrites(j, "FINAL", status)
    \/ ProducerReleased(j)

TimePasses ==
  \/ \E j \in CallSlots : CallDeadlinePasses(j)
  \/ \E j \in CallSlots : Chance("expire") /\ OpenDeadlinePasses(j)
  \/ \E i \in Slots : Chance("expire") /\ FinalWaitPasses(i)

Next ==
  /\ ClientStep \/ ServerOwnerStep \/ WorkerStep \/ TimePasses
  /\ UNCHANGED plan

Spec == Init /\ [][Next]_vars

\* A pump with nothing in its way changes nothing any more.
ClientSettled ==
  client.phase = "live" => tr_rpc_record_client_pump_on_owner(Now, "OK") = Now

ServerSettled ==
  /\ server.phase = "live" => tr_rpc_record_endpoint_pump_on_owner(Here, "OK") = Here
  /\ server.phase = "reaping" => Completions(Here) = Here

\* The periodic ticks go on, and meet room for what they send: the calls of an
\* instance are finite, so they reach a settled state again and again.  What
\* has arrived is read, workers return, deadlines pass, a lost connection is
\* noticed at both ends, and the holder of a producer uses or releases it.
Fairness ==
  /\ []<>ClientSettled /\ []<>ServerSettled
  /\ \A k \in Calls :
       /\ []<>~(net.up["client"] /\ net.out["server"][k] # <<>>)
       /\ []<>~(net.up["server"] /\ net.out["client"][k] # <<>>)
       /\ []<>(net.end["client"][k].state # "acked")
       /\ []<>(net.end["server"][k].state # "acked")
  /\ []<>(net.up["client"] = net.up["server"])
  /\ \A i \in ClientSlots : []<>(client.slots[i].deadline # "armed")
  /\ \A j \in CallSlots :
       /\ []<>(server.calls[j].task.phase \notin {"queued", "running"})
       /\ []<>(Chance("expire") /\ server.calls[j].active
                => server.calls[j].open_due # "armed")
       /\ []<>LET call == server.calls[j]
             IN  call.held => call.box.app_refs = 0 \/ call.box.finished

FairSpec == Init /\ [][Next]_vars /\ Fairness

-----------------------------------------------------------------------------
(* Properties                                                              *)

\* One end per call, and after its work: the client's terminal callback, the
\* method's terminal callback on the server and the endpoint's report each
\* happen at most once for a call (rpc_record_client.c:249,
\* rpc_record_dispatch.c:480, rpc_record_endpoint.c:359), however deadlines,
\* cancellation, FINAL, RESET and the loss of the connection race; the method
\* is told only when no worker has a job of the call, no job is submitted
\* afterwards, and a job belongs to the stream its slot was admitted for.
OneEnd ==
  /\ \A k \in Calls : /\ client.told[k].count <= 1
                      /\ server.ended[k] <= 1
                      /\ server.told[k] <= 1
  /\ \A j \in CallSlots :
       LET call == server.calls[j]
       IN  /\ call.task.phase # "none" => call.active /\ ~call.notified
           /\ call.notified => pending(call) = 0 /\ ~call.held

\* A call reported OK really went well: the server's transport accepted an OK
\* FINAL for it, every message accepted before was given to the application,
\* and a unary call got exactly one (rpc_record.c:192, rpc_record_client.c:356).
OkIsHonest ==
  \A k \in Calls :
    client.told[k].count = 1 /\ client.told[k].ok =>
      /\ server.final[k] = "OK"
      /\ client.got[k] = server.sent[k]
      /\ client.asked[k] = "unary" => client.got[k] = 1

\* Streams, slots and calls stay paired: while the endpoint lives, a stream of
\* the channel that is not being reset has one slot (the table is large enough
\* for the streams and the calls that outlive theirs,
\* rpc_record_endpoint.c:672), and a call of the dispatcher is the call of
\* exactly one slot with the same stream.  And "drained" is true when it is
\* published and stays true: on the client no slot is taken, on the server no
\* worker, queue or producer has a part of a call that has not been reported
\* (tr_record_client_publish_progress, tr_endpoint_publish_progress).
SlotsPaired ==
  /\ client.progress = "drained" => \A i \in ClientSlots : ~client.slots[i].active
  /\ server.phase = "live" =>
       /\ \A k \in Calls : net.end["server"][k].state = "open"
                          => Cardinality(Hosting(server, k)) = 1
       /\ \A j \in CallSlots : server.calls[j].active =>
            Cardinality({i \in Slots : /\ server.slots[i].active
                                       /\ server.slots[i].call = j
                                       /\ server.slots[i].stream = server.calls[j].stream}) = 1
       /\ \A i \in Slots : server.slots[i].active /\ server.slots[i].call # 0 =>
            server.calls[server.slots[i].call].active
       /\ server.progress = "drained" =>
            \A j \in CallSlots : LET call == server.calls[j]
                                 IN  call.active => /\ call.notified
                                                    /\ server.told[call.stream] = 1

=============================================================================
