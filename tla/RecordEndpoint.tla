--------------------------- MODULE RecordEndpoint ---------------------------
(***************************************************************************)
(* The serving side of the record layer, second half: the endpoint that    *)
(* owns the streams of a channel (src/src/rpc/rpc_record_endpoint.c).      *)
(*                                                                         *)
(* A slot ties a stream to its call in the dispatcher (slot.call, 0 when   *)
(* the call was not admitted).  The slot outlives the stream while the     *)
(* application still works on the call, so there are more slots than       *)
(* streams.  Events that arrive inside a step wait in v.pend.              *)
(*                                                                         *)
(* progress_limit and completion_limit cover the tables, which are visited *)
(* from their first slot on.                                               *)
(***************************************************************************)
EXTENDS RecordDispatch

CONSTANT
  MaxMessages   \* bound: messages the application sends through a producer

\* Mutant: a slot for every stream and none for a call that outlives its own.
SlotPerStream == 1 .. MaxStreams

Slots == 1 .. (MaxStreams + DispatchCapacity)

NoSlot ==
  [active |-> FALSE, stream |-> 0, call |-> 0, terminal |-> FALSE, status |-> "OK",
   final_accepted |-> FALSE, final_due |-> "none", reported |-> FALSE,
   peer_closed |-> FALSE, dead |-> FALSE, close_accepted |-> FALSE,
   reset_accepted |-> FALSE, pending_event |-> "none", pending_status |-> "OK"]

\* ended, told, sent and final are histories: the terminal callbacks of the
\* application, the reports of the endpoint, and the messages and the FINAL
\* the transport has accepted.
tr_rpc_record_endpoint_create_on_owner ==
  [phase |-> "live", stopping |-> FALSE, dispatch_stopping |-> FALSE, cleanup |-> FALSE,
   calls |-> [j \in CallSlots |-> FreeCall], slots |-> [i \in Slots |-> NoSlot],
   pend |-> <<>>, progress |-> "drained",
   ended |-> [k \in Calls |-> 0],
   told |-> [k \in Calls |-> 0], sent |-> [k \in Calls |-> 0],
   final |-> [k \in Calls |-> "none"]]

-----------------------------------------------------------------------------
(* Events                                                                  *)

Finished(x) == x.dead \/ x.reset_accepted \/ x.close_accepted

tr_endpoint_drained(v) ==
  /\ v.pend = <<>>
  /\ \A i \in Slots : v.slots[i].active =>
       /\ v.stopping /\ v.slots[i].terminal /\ v.slots[i].reported
       /\ Finished(v.slots[i])

tr_endpoint_publish_progress(s) ==
  IF s.v.cleanup THEN s
  ELSE [s EXCEPT !.v.progress = IF tr_endpoint_drained(s.v) THEN "drained" ELSE "busy"]

\* A slot waits once; a half close that waits gives way to what follows it.
tr_endpoint_defer(v, i, event, status) ==
  LET x == v.slots[i]
      y == [v EXCEPT !.slots[i].pending_event = event, !.slots[i].pending_status = status]
  IN  IF x.pending_event = "none" THEN [y EXCEPT !.pend = Append(@, i)]
      ELSE IF x.pending_event = "REMOTE_CLOSED" THEN y
      ELSE v

Result(status) == [status |-> status, final_accepted |-> FALSE]

\* One event that waited.
ApplyOne(s, i) ==
  LET x == s.v.slots[i]
      event == x.pending_event
      t == [s EXCEPT !.v.slots[i].pending_event = "none", !.v.pend = Tail(@)]
      status == CASE event \in {"RESET", "REFUSED"} ->
                       tr_rpc_record_status_from_reset(x.pending_status)
                  [] event = "ERROR" /\ x.pending_status # "SYS" -> "INVALID_ARGUMENT"
                  [] event = "ERROR" -> "INTERNAL"
                  [] OTHER -> "UNAVAILABLE"
  IN  IF x.terminal THEN t
      ELSE IF x.call # 0
        THEN tr_rpc_record_dispatch_event_on_owner(t, x.call, event, x.pending_status)
      ELSE [t EXCEPT !.v = EndpointTerminal(@, i, Result(status), TRUE)]

tr_endpoint_apply_deferred(s) == FoldLeft(ApplyOne, s, s.v.pend)

tr_endpoint_admit(s, i) ==
  LET x == s.v.slots[i]
      j == IF s.v.stopping THEN 0 ELSE tr_rpc_record_dispatch_admit_until_on_owner(s.v)
      refused == IF s.v.stopping THEN "UNAVAILABLE" ELSE "RESOURCE_EXHAUSTED"
  IN  IF x.terminal \/ x.call # 0 THEN s
      ELSE IF j # 0
        THEN [s EXCEPT !.v.slots[i].call = j,
                       !.v.calls[j] = [FreeCall EXCEPT !.active = TRUE, !.stream = x.stream,
                                                       !.open_due = "armed"]]
      ELSE [s EXCEPT !.v = EndpointTerminal(@, i, Result(refused), FALSE)]

-----------------------------------------------------------------------------
(* The end of a slot                                                       *)

\* A stream that was open tells its own handler about the RESET, which waits.
tr_endpoint_reset(s, i, status) ==
  LET x == s.v.slots[i]
      ret == tr_stream_reset_on_owner(s.n, "server", x.stream)
      reason == tr_rpc_record_reset_reason(status)
      t == [s EXCEPT !.v.slots[i].reset_accepted = TRUE]
  IN  CASE ret = "OK" /\ s.n.end["server"][x.stream].state = "open" ->
             [v |-> tr_endpoint_defer(t.v, i, "RESET", reason),
              n |-> ResetStream(s.n, "server", x.stream, reason)]
        [] ret = "OK" -> t
        [] ret = "AGAIN" -> s
        [] OTHER -> [s EXCEPT !.v.slots[i].dead = TRUE]

\* The reserved frame of the slot carries the error FINAL; [ret, s].
tr_endpoint_send_error(s, i, tx) ==
  LET x == s.v.slots[i]
      ret == tr_stream_sendv(s.n, "server", x.stream, Room(tx))
  IN  [ret |-> ret,
       s |-> IF ret # "OK" THEN s
             ELSE [v |-> [s.v EXCEPT !.slots[i].final_accepted = TRUE,
                                     !.final[x.stream] = Outcome(x.status)],
                   n |-> SendRecord(s.n, "server", x.stream, Record("FINAL", x.status))]]

\* After an accepted FINAL the stream is closed, otherwise it is reset.
EndStream(s, i, tx) ==
  LET x == s.v.slots[i]
      ret == tr_stream_close(s.n, "server", x.stream, Room(tx))
  IN  IF ~x.final_accepted THEN tr_endpoint_reset(s, i, x.status)
      ELSE CASE ret \in {"CLOSED", "STALE"} -> [s EXCEPT !.v.slots[i].dead = TRUE]
             [] ret = "OK" -> [v |-> [s.v EXCEPT !.slots[i].close_accepted = TRUE],
                               n |-> CloseStream(s.n, "server", x.stream)]
             [] OTHER -> s

tr_endpoint_report(s, i) ==
  IF s.v.slots[i].reported THEN s
  ELSE [s EXCEPT !.v.slots[i].reported = TRUE, !.v.told[s.v.slots[i].stream] = @ + 1]


\* The slot is free when its stream is over on both sides and the dispatcher
\* lets the call go.
RetireSlot(s, i) ==
  LET x == s.v.slots[i]
      over == x.dead \/ x.reset_accepted \/ (x.close_accepted /\ x.peer_closed)
  IN  IF ~over \/ s.v.stopping \/ x.pending_event # "none" THEN s
      ELSE IF x.call = 0 THEN [s EXCEPT !.v.slots[i] = NoSlot]
      ELSE IF tr_rpc_record_dispatch_retire_on_owner(s.v.calls[x.call])
        THEN [s EXCEPT !.v.slots[i] = NoSlot, !.v.calls[x.call] = FreeCall]
      ELSE s

\* A call that has ended before its work has returned is reset at once.
ProgressRunning(s, i) ==
  LET x == s.v.slots[i]
      call == s.v.calls[x.call]
  IN  IF x.call = 0 \/ Finished(x) THEN s
      ELSE IF call.terminal /\ ~call.final_accepted THEN tr_endpoint_reset(s, i, call.status)
      ELSE s

tr_endpoint_progress(s, i, tx) ==
  LET x == s.v.slots[i]
      explains == ~x.final_accepted /\ x.status # "OK" /\ x.final_due = "armed"
      Over(t) == IF Finished(t.v.slots[i]) THEN RetireSlot(tr_endpoint_report(t, i), i)
                 ELSE t
      Explained(e) == IF e.ret = "AGAIN" THEN s ELSE Over(EndStream(e.s, i, tx))
  IN  CASE ~x.active -> s
        [] x.active /\ ~x.terminal -> ProgressRunning(s, i)
        [] OTHER -> IF Finished(x) THEN Over(s)
                    ELSE Explained(IF explains THEN tr_endpoint_send_error(s, i, tx)
                                   ELSE [ret |-> "OK", s |-> s])

tr_rpc_record_endpoint_pump_on_owner(s, tx) ==
  LET a == tr_endpoint_apply_deferred(Completions(tr_endpoint_apply_deferred(s)))
      b == FoldLeft(LAMBDA t, j : tr_endpoint_apply_deferred(tr_dispatch_step(t, j, tx)),
                    a, [j \in CallSlots |-> j])
      c == FoldLeft(LAMBDA t, i : tr_endpoint_apply_deferred(tr_endpoint_progress(t, i, tx)),
                    b, [i \in Slots |-> i])
  IN  tr_endpoint_publish_progress(c)

-----------------------------------------------------------------------------
(* Callbacks of the channel                                                *)

Hosting(v, k) == {i \in Slots : v.slots[i].active /\ v.slots[i].stream = k}

\* The first slot that is free, or can be freed, takes the stream; slots that
\* are dead and done are freed on the way.
tr_endpoint_open_slot(s, k) ==
  LET Visit(t, i) ==
        LET x == t.v.slots[i]
        IN  IF \/ \E h \in 1 .. (i - 1) : ~t.v.slots[h].active
               \/ ~(x.active /\ x.dead /\ x.terminal /\ x.pending_event = "none")
               \/ t.v.stopping
              THEN t ELSE tr_endpoint_progress(t, i, "OK")
      Take(t, i) ==
        tr_endpoint_admit(
          [t EXCEPT !.v.slots[i] = [NoSlot EXCEPT !.active = TRUE, !.stream = k]], i)
      First(t, free) ==
        IF free = {} THEN t ELSE Take(t, CHOOSE h \in free : \A m \in free : h <= m)
      Visited(t) == First(t, {i \in Slots : ~t.v.slots[i].active})
  IN  Visited(FoldLeft(Visit, s, [i \in Slots |-> i]))

tr_endpoint_data(s, k, record, tx) ==
  LET i == CHOOSE h \in Hosting(s.v, k) : TRUE
      x == s.v.slots[i]
      t == tr_endpoint_admit(s, i)
      y == t.v.slots[i]
  IN  IF Hosting(s.v, k) = {} THEN s
      ELSE IF x.terminal \/ x.pending_event # "none" THEN s
      ELSE IF y.call # 0 /\ ~y.terminal
        THEN tr_rpc_record_dispatch_receive_on_owner(t, y.call, record, tx)
      ELSE t

\* The callback outside of any other step of the endpoint; it ends in a pump.
tr_endpoint_event(s, k, event, status, tx) ==
  LET found == Hosting(s.v, k)
      i == CHOOSE h \in found : TRUE
      x == s.v.slots[i]
      y == [x EXCEPT !.peer_closed = @ \/ event = "REMOTE_CLOSED",
                     !.dead = @ \/ event \in {"CLOSED", "ERROR", "REFUSED"},
                     !.reset_accepted = @ \/ event = "RESET"]
      t == [s EXCEPT !.v.slots[i] = y]
      u == IF found = {} THEN IF event = "OPENED" THEN tr_endpoint_open_slot(s, k) ELSE s
           ELSE IF x.terminal THEN t
           ELSE IF x.call # 0
             THEN tr_rpc_record_dispatch_event_on_owner(t, x.call, event, status)
           ELSE IF tr_rpc_record_is_terminal_event(event)
             THEN [t EXCEPT !.v = tr_endpoint_defer(@, i, event, status)]
           ELSE t
  IN  tr_rpc_record_endpoint_pump_on_owner(u, tx)
=============================================================================
