---------------------------- MODULE RecordClient ----------------------------
(***************************************************************************)
(* The calling side of the record layer                                    *)
(* (src/src/rpc/rpc_record_client.c): a table of call slots, driven by the *)
(* application, by the channel's data and event callbacks and by a timer.  *)
(*                                                                         *)
(* An operator on s = [c, n] is a function of the owner thread: c is the   *)
(* client, n the transport (RecordNet).  tx is the transport's answer to   *)
(* everything sent in one owner step.  A slot holds the state of its       *)
(* binding (st); slot.terminal is that state once it has been notified.    *)
(* Time is what has happened to a deadline: "none", "armed" or "passed".   *)
(***************************************************************************)
EXTENDS RecordNet, SequencesExt

CONSTANTS
  ClientCapacity,   \* call slots
  MaxRequests       \* bound: messages the application sends on a stream call

VARIABLE client, net

ClientSlots == 1 .. ClientCapacity

FreeSlot ==
  [active |-> FALSE, stream |-> 0, accepted |-> FALSE, unary |-> "none",
   open_pending |-> FALSE, peer_window_known |-> FALSE, deadline |-> "none",
   st |-> tr_rpc_record_state_init("stream"), method |-> "none",
   terminal |-> FALSE, status |-> "OK", reported |-> FALSE,
   peer_final |-> FALSE, dead |-> FALSE, close_accepted |-> FALSE,
   reset_accepted |-> FALSE, pending_event |-> "none", pending_status |-> "OK"]

\* asked, told and got are histories: the method of each call, its terminal
\* callbacks and whether the last said OK, and the messages given to the
\* application.
tr_rpc_record_client_create_on_owner ==
  [slots |-> [i \in ClientSlots |-> FreeSlot], generation |-> 0,
   draining |-> FALSE, progress |-> "none", stopping |-> FALSE, phase |-> "live",
   asked |-> [k \in Calls |-> "none"],
   told |-> [k \in Calls |-> [count |-> 0, ok |-> FALSE]],
   got |-> [k \in Calls |-> 0]]

-----------------------------------------------------------------------------
(* Steps on one slot                                                       *)

\* The binding tells its slot about the end of the call, once.
Notify(x) ==
  IF x.st.terminal /\ ~x.terminal
    THEN [x EXCEPT !.terminal = TRUE, !.status = x.st.status] ELSE x

Abort(x, status) == Notify([x EXCEPT !.st = tr_rpc_record_state_abort(@, status)])

\* A half close may be followed by the real end; the first real end stays.
tr_record_client_defer(x, event, status) ==
  IF /\ tr_rpc_record_is_terminal_event(event)
     /\ x.pending_event \in {"none", "REMOTE_CLOSED"}
    THEN [x EXCEPT !.pending_event = event, !.pending_status = status] ELSE x

tr_record_client_apply_pending(x) ==
  IF x.pending_event = "none" THEN x
  ELSE LET y == [x EXCEPT !.pending_event = "none"]
       IN  IF x.terminal THEN y
           ELSE Notify([y EXCEPT !.st = tr_rpc_record_stream_event_on_owner(
                                   @, "request", x.pending_event, x.pending_status)])

tr_record_client_expire(x) ==
  IF x.accepted /\ ~x.terminal /\ x.deadline = "passed"
    THEN Abort(x, "DEADLINE_EXCEEDED") ELSE x

-----------------------------------------------------------------------------
(* Steps on the client                                                     *)

Update(s, i, x) == [s EXCEPT !.c.slots[i] = x]

tr_record_client_report(s, i) ==
  LET x == s.c.slots[i]
  IN  IF ~x.accepted \/ ~x.terminal \/ x.reported THEN s
      ELSE [s EXCEPT !.c.slots[i].reported = TRUE, !.c.slots[i].unary = "none",
                     !.c.told[x.stream] = [count |-> @.count + 1, ok |-> x.status = "OK"]]

\* A slot is given up when its stream is dead, or the transport has taken
\* over its end: RESET, or CLOSE once the peer's FINAL has been received.
tr_record_client_retire(s, i, tx) ==
  LET x == s.c.slots[i]
      ended == x.dead \/ x.close_accepted \/ x.reset_accepted
      ret == IF x.peer_final THEN tr_stream_close(s.n, "client", x.stream, tx)
             ELSE tr_stream_reset_on_owner(s.n, "client", x.stream)
      reason == IF x.accepted THEN tr_rpc_record_reset_reason(x.status) ELSE "CLOSED"
      freed == Update(s, i, FreeSlot)
  IN  IF x.accepted /\ ~(x.terminal /\ x.reported) THEN s
      ELSE IF ended \/ ret \in {"CLOSED", "STALE"} THEN freed
      ELSE IF ret # "OK" THEN s
      ELSE IF x.peer_final
        THEN [freed EXCEPT !.n = CloseStream(@, "client", x.stream)]
      ELSE IF s.n.end["client"][x.stream].state = "open"
        THEN [freed EXCEPT !.n = ResetStream(@, "client", x.stream, reason)]
      ELSE freed

\* Send one record on the slot's stream: the answer and the state after it.
tr_record_client_send_record(s, i, record, tx) ==
  LET x == s.c.slots[i]
      ret == StreamSends(s.n, "client", x.stream, x.st, "request", record, tx)
  IN  [ret |-> ret,
       s |-> IF ret # "OK" THEN s
             ELSE [Update(s, i, tr_record_client_apply_pending(
                     [x EXCEPT !.st = tr_rpc_record_state_apply(@, "request", record)]))
                   EXCEPT !.n = SendRecord(@, "client", x.stream, record)]]

\* The status a call ends with when its own record could not be sent.
Unsendable(ret) == IF ret = "NOMEM" THEN "RESOURCE_EXHAUSTED" ELSE "UNAVAILABLE"

SendOpen(s, i, tx) ==
  LET x == s.c.slots[i]
      open == [Record("OPEN", "OK") EXCEPT !.method = x.method,
                                           !.timed = x.deadline # "none"]
      Answered(r) ==
        CASE r.ret = "OK" -> [r.s EXCEPT !.c.slots[i].open_pending = FALSE]
          [] r.ret = "AGAIN" -> s
          [] OTHER -> Update(s, i, Abort(x, Unsendable(r.ret)))
  IN  IF ~x.open_pending \/ ~x.peer_window_known THEN s
      ELSE Answered(tr_record_client_send_record(s, i, open, tx))

\* The automatic request of a unary call: the message, then the half close.
SendUnary(s, i, tx) ==
  LET x == s.c.slots[i]
      next == IF x.unary = "MESSAGE" THEN "HALF_CLOSE" ELSE "none"
      Answered(r) ==
        CASE r.ret = "OK" -> [r.s EXCEPT !.c.slots[i].unary = next]
          [] r.ret = "AGAIN" -> s
          [] OTHER -> Update(s, i, Abort(x, Unsendable(r.ret)))
  IN  IF x.unary = "none" \/ x.terminal \/ x.open_pending THEN s
      ELSE Answered(tr_record_client_send_record(s, i, Record(x.unary, "OK"), tx))

tr_record_client_progress(s, i, tx) ==
  LET Ended(t) == tr_record_client_retire(tr_record_client_report(t, i), i, tx)
      Sent(t) == IF t.c.slots[i].terminal THEN Ended(t) ELSE t
      Current(t) ==
        IF ~t.c.slots[i].accepted \/ t.c.slots[i].terminal THEN Ended(t)
        ELSE Sent(SendUnary(SendUnary(SendOpen(t, i, tx), i, tx), i, tx))
  IN  IF ~s.c.slots[i].active THEN s
      ELSE Current(Update(s, i, tr_record_client_expire(
                                  tr_record_client_apply_pending(s.c.slots[i]))))

tr_record_client_publish_progress(s) ==
  LET now == IF \E i \in ClientSlots : s.c.slots[i].active THEN "busy" ELSE "drained"
  IN  IF s.c.draining THEN [s EXCEPT !.c.progress = now] ELSE s

\* progress_limit covers the whole table, starting at the first slot.
tr_rpc_record_client_pump_on_owner(s, tx) ==
  tr_record_client_publish_progress(
    FoldLeft(LAMBDA t, i : tr_record_client_progress(t, i, tx), s,
             [i \in ClientSlots |-> i]))

\* The application cancels from inside a received callback, or does not.
Cancelled(x, cancel) ==
  IF cancel /\ ~x.st.terminal
    THEN [x EXCEPT !.st = tr_rpc_record_state_abort(@, "CANCELLED")] ELSE x

tr_record_client_received(x, record, cancel) ==
  LET st == tr_rpc_record_stream_receive_on_owner(x.st, "response", record)
      admitted == Admissible(x.st, "response", record)
      y == [x EXCEPT !.st = st, !.peer_final = @ \/ (admitted /\ record.kind = "FINAL")]
  IN  Notify(IF admitted THEN Cancelled(y, cancel) ELSE y)

\* The data callback; a slot that has ended lets the record go.
tr_record_client_data(s, k, record, cancel) ==
  LET live == {i \in ClientSlots : LET x == s.c.slots[i]
                                   IN  x.active /\ x.stream = k /\ x.accepted /\ ~x.terminal}
      i == CHOOSE j \in live : TRUE
      x == tr_record_client_expire(tr_record_client_apply_pending(s.c.slots[i]))
      message == ~x.terminal /\ record.kind = "MESSAGE"
                   /\ Admissible(x.st, "response", record) /\ ~s.c.stopping
  IN  IF live = {} THEN s
      ELSE tr_record_client_publish_progress(
             tr_record_client_report(
               [Update(s, i, IF x.terminal THEN x
                             ELSE tr_record_client_received(x, record, cancel /\ ~s.c.stopping))
                  EXCEPT !.c.got[k] = IF message THEN @ + 1 ELSE @], i))

\* The event callback, outside of any other step of the client.
tr_record_client_event(s, k, event, status, tx) ==
  LET found == {i \in ClientSlots : s.c.slots[i].active /\ s.c.slots[i].stream = k}
      i == CHOOSE j \in found : TRUE
      x == s.c.slots[i]
      y == [x EXCEPT !.dead = @ \/ event \in {"CLOSED", "ERROR", "REFUSED"},
                     !.reset_accepted = @ \/ event = "RESET",
                     !.peer_window_known = @ \/ event = "OPENED"]
  IN  IF found = {} THEN s
      ELSE tr_record_client_publish_progress(
             tr_record_client_progress(
               Update(s, i, tr_record_client_defer(y, event, status)), i, tx))

-----------------------------------------------------------------------------
(* Actions                                                                 *)

Now == [c |-> client, n |-> net]

Becomes(s) == client' = s.c /\ net' = s.n

CallLive(i) ==
  LET x == client.slots[i]
  IN  x.active /\ x.accepted /\ ~x.terminal /\ ~client.stopping

\* A call takes a slot and a stream; without a binding it never existed for
\* the application, but its stream must still be ended.
tr_record_client_call_start(method, timed, bound, tx) ==
  LET free == {i \in ClientSlots : ~client.slots[i].active}
      i == CHOOSE j \in free : \A m \in free : j <= m
      k == client.generation + 1
      x == [FreeSlot EXCEPT !.active = TRUE, !.stream = k, !.accepted = bound,
              !.unary = IF method = "unary" /\ bound THEN "MESSAGE" ELSE "none",
              !.method = method, !.open_pending = TRUE,
              !.deadline = IF timed THEN "armed" ELSE "none",
              !.st = tr_rpc_record_state_init(method)]
      t == [Update(Now, i, x) EXCEPT !.c.generation = k, !.c.asked[k] = method, !.n = tr_stream_open(@, k)]
  IN  /\ client.phase = "live" /\ ~client.stopping /\ ~client.draining
      /\ net.up["client"] /\ k <= MaxCalls /\ free # {}
      /\ Becomes(IF bound THEN tr_rpc_record_client_pump_on_owner(t, tx)
                 ELSE tr_record_client_retire(t, i, tx))

\* tr_rpc_record_client_send_on_owner and half_close_on_owner, on a call that
\* the application drives itself.
tr_record_client_request(i, kind, tx) ==
  LET x == tr_record_client_expire(tr_record_client_apply_pending(client.slots[i]))
      t == Update(Now, i, x)
      Answered(r) == IF r.ret = "OK" THEN r.s ELSE tr_record_client_report(t, i)
  IN  /\ CallLive(i) /\ client.slots[i].method # "unary"
      /\ kind = "MESSAGE" => client.slots[i].st.requests < MaxRequests
      /\ Becomes(tr_rpc_record_client_pump_on_owner(
           IF x.terminal \/ x.open_pending THEN tr_record_client_report(t, i)
           ELSE Answered(tr_record_client_send_record(t, i, Record(kind, "OK"), tx)), tx))

tr_rpc_record_client_cancel_on_owner(i, tx) ==
  LET x == tr_record_client_apply_pending(client.slots[i])
      y == IF x.terminal THEN x ELSE Abort(x, "CANCELLED")
  IN  /\ CallLive(i)
      /\ Becomes(tr_rpc_record_client_pump_on_owner(
           tr_record_client_report(Update(Now, i, y), i), tx))

tr_record_client_tick(tx) ==
  /\ client.phase = "live"
  /\ Becomes(tr_rpc_record_client_pump_on_owner(Now, tx))

ClientDeadlinePasses(i) ==
  /\ client.slots[i].deadline = "armed"
  /\ client' = [client EXCEPT !.slots[i].deadline = "passed"]
  /\ UNCHANGED net

\* The channel reads one frame and calls the client.
ClientReads(k, cancel, tx) ==
  LET a == Arrives(net, "client", k)
      s == [c |-> client, n |-> a.n]
  IN  /\ net.up["client"] /\ net.out["server"][k] # <<>>
      /\ Becomes(IF a.event = "none" \/ client.phase # "live" THEN s
                 ELSE IF a.event = "DATA"
                   THEN tr_record_client_data(s, k, a.record, cancel)
                 ELSE tr_record_client_event(s, k, a.event, a.status, tx))

ClientResetAnswered(k, tx) ==
  LET s == [c |-> client, n |-> ResetAnswered(net, "client", k)]
  IN  /\ net.end["client"][k].state = "acked"
      /\ Becomes(IF client.phase = "live"
                   THEN tr_record_client_event(s, k, "CLOSED", "OK", tx) ELSE s)

\* The connection is lost: every stream that was left gets ERROR.
ClientDisconnected(tx) ==
  LET lost == SetToSortSeq(Live(net, "client"), <)
      s == [c |-> client, n |-> Disconnect(net, "client")]
  IN  /\ net.up["client"]
      /\ Becomes(IF client.phase # "live" THEN s
                 ELSE FoldLeft(LAMBDA t, k : tr_record_client_event(t, k, "ERROR", "SYS", tx),
                               s, lost))

tr_rpc_record_client_begin_drain_on_owner ==
  /\ client.phase = "live" /\ ~client.stopping /\ ~client.draining
  /\ Becomes(tr_record_client_publish_progress(
       [Now EXCEPT !.c.draining = TRUE]))

\* Close ends what is left and is repeated until the table is empty.
tr_rpc_record_client_close_on_owner(tx) ==
  LET End(x) == LET y == tr_record_client_apply_pending(x)
                IN  IF ~x.active \/ ~x.accepted \/ y.terminal THEN y
                    ELSE Abort(y, "CANCELLED")
      s == [Now EXCEPT !.c.stopping = TRUE,
                       !.c.slots = [i \in ClientSlots |-> End(client.slots[i])]]
      Closed(t) == IF \A i \in ClientSlots : ~t.c.slots[i].active
                     THEN [t EXCEPT !.c.phase = "gone"] ELSE t
  IN  /\ client.phase = "live"
      /\ Becomes(Closed(tr_rpc_record_client_pump_on_owner(s, tx)))

\* The reactor has stopped, and its connection with it: what is left is
\* reported from the thread that cleans up.
tr_rpc_record_client_reap_stopped ==
  LET End(x) == IF x.active /\ x.accepted /\ ~x.terminal
                  THEN [x EXCEPT !.terminal = TRUE,
                         !.status = IF x.st.terminal THEN x.st.status ELSE "CANCELLED"]
                  ELSE x
      s == [c |-> [client EXCEPT !.stopping = TRUE, !.phase = "gone",
                     !.slots = [i \in ClientSlots |-> End(client.slots[i])]],
            n |-> Disconnect(net, "client")]
      t == FoldLeft(tr_record_client_report, s, [i \in ClientSlots |-> i])
  IN  /\ client.phase = "live"
      /\ Becomes([t EXCEPT !.c.slots = [i \in ClientSlots |-> FreeSlot]])
=============================================================================
