----------------------------- MODULE RecordNet -----------------------------
(***************************************************************************)
(* What the record layer sees of the transport: one stream per call,       *)
(* opened by the client, with whole records in order in both directions.   *)
(* The transport itself is modelled in Channel; here only the answers its  *)
(* entry points give (tr_stream_open, sendv, reset_on_owner, close) and    *)
(* the events it delivers are kept, from                                   *)
(* src/src/transport/channel/channel.c.  Credit and TX queues are the      *)
(* choice tx of every owner step: "OK", or "AGAIN" for no room now.        *)
(*                                                                         *)
(* n.end[p][k] is p's stream of call k, n.out[p][k] what p has sent on it  *)
(* and n.up[p] whether p still has its connection.                         *)
(***************************************************************************)
EXTENDS RecordState, Sequences, FiniteSets

CONSTANTS
  MaxCalls,      \* bound: calls the client starts
  MaxStreams     \* streams the server's channel holds

Calls == 1 .. MaxCalls

Peers == {"client", "server"}

Other(p) == IF p = "client" THEN "server" ELSE "client"

Frame(type, record, status) == [type |-> type, record |-> record, status |-> status]

Plain(type) == Frame(type, Record("OPEN", "OK"), "OK")

Gone == [state |-> "gone", local_open |-> FALSE, remote_open |-> FALSE]

NewEnd(state) == [state |-> state, local_open |-> TRUE, remote_open |-> TRUE]

NetInit ==
  [end |-> [p \in Peers |-> [k \in Calls |-> Gone]],
   out |-> [p \in Peers |-> [k \in Calls |-> <<>>]],
   up |-> [p \in Peers |-> TRUE]]

Put(n, p, k, frame) == [n EXCEPT !.out[p][k] = Append(@, frame)]

Live(n, p) == {k \in Calls : n.end[p][k].state # "gone"}

tr_stream_open(n, k) ==
  Put([n EXCEPT !.end["client"][k] = NewEnd("opening")], "client", k, Plain("OPEN"))

\* The answer of tr_stream_sendv; on OK the record is appended.
tr_stream_sendv(n, p, k, tx) ==
  LET end == n.end[p][k]
  IN  CASE end.state = "gone" -> "STALE"
        [] end.state \in {"resetting", "acked"} -> "CLOSED"
        [] end.state = "opening" \/ ~end.local_open -> "AGAIN"
        [] OTHER -> tx

SendRecord(n, p, k, record) == Put(n, p, k, Frame("DATA", record, "OK"))

tr_stream_reset_on_owner(n, p, k) ==
  LET end == n.end[p][k]
  IN  CASE end.state = "gone" -> "STALE"
        [] end.state \in {"resetting", "acked"} -> "OK"
        [] ~end.local_open -> "CLOSED"
        [] end.state = "opening" -> "AGAIN"
        [] OTHER -> "OK"

\* The first reset of a stream is announced to the peer, and to its own
\* handler, which the caller of this operator must do.
ResetStream(n, p, k, reason) ==
  Put([n EXCEPT !.end[p][k].state = "resetting"], p, k,
      Frame("RESET", Record("OPEN", "OK"), reason))

tr_stream_close(n, p, k, tx) ==
  LET end == n.end[p][k]
  IN  CASE end.state = "gone" -> "STALE"
        [] end.state = "opening" -> "AGAIN"
        [] end.state \in {"resetting", "acked"} -> "STATE"
        [] ~end.local_open -> "CLOSED"
        [] OTHER -> tx

CloseStream(n, p, k) ==
  Put([n EXCEPT !.end[p][k] = IF @.remote_open THEN [@ EXCEPT !.local_open = FALSE]
                              ELSE Gone],
      p, k, Plain("CLOSE"))

\* What p's channel does with the next frame on stream k, and the event the
\* record layer gets ("DATA" stands for the data callback, "none" for nothing).
Arrives(n, p, k) ==
  LET q == Other(p)
      f == Head(n.out[q][k])
      m == [n EXCEPT !.out[q][k] = Tail(@)]
      end == n.end[p][k]
      Answer(event, status, net) ==
        [event |-> event, status |-> status, record |-> f.record, n |-> net]
  IN  CASE f.type = "OPEN" ->
             IF Cardinality(Live(n, p)) < MaxStreams
               THEN Answer("OPENED", "OK",
                      Put([m EXCEPT !.end[p][k] = NewEnd("open")], p, k, Plain("ACCEPT")))
               ELSE Answer("none", "OK", Put(m, p, k, Plain("REFUSED")))
        [] end.state = "gone" -> Answer("none", "OK", m)
        [] f.type = "ACCEPT" ->
             Answer("OPENED", "OK", [m EXCEPT !.end[p][k].state = "open"])
        [] f.type = "REFUSED" -> Answer("REFUSED", "NOMEM", [m EXCEPT !.end[p][k] = Gone])
        [] f.type = "RESET" ->
             IF end.state = "resetting"
               THEN Answer("CLOSED", "OK", [m EXCEPT !.end[p][k] = Gone])
               ELSE Answer("RESET", f.status, [m EXCEPT !.end[p][k].state = "acked"])
        [] end.state \in {"resetting", "acked"} -> Answer("none", "OK", m)
        [] f.type = "CLOSE" ->
             IF end.local_open
               THEN Answer("REMOTE_CLOSED", "OK", [m EXCEPT !.end[p][k].remote_open = FALSE])
               ELSE Answer("CLOSED", "OK", [m EXCEPT !.end[p][k] = Gone])
        [] OTHER -> Answer("DATA", "OK", m)

\* A stream the peer has reset ends, with the event CLOSED, when its own RESET
\* has found room.
ResetAnswered(n, p, k) ==
  Put([n EXCEPT !.end[p][k] = Gone], p, k, Frame("RESET", Record("OPEN", "OK"), "CLOSED"))

\* p loses its connection: what it has not read is lost with it.
Disconnect(n, p) ==
  [n EXCEPT !.up[p] = FALSE, !.end[p] = [k \in Calls |-> Gone],
            !.out[Other(p)] = [k \in Calls |-> <<>>]]

-----------------------------------------------------------------------------
(* How a final status becomes the reason of a RESET and back               *)
(* (src/src/rpc/rpc_record_transport_internal.h).                          *)

tr_rpc_record_status_from_reset(reason) ==
  CASE reason = "CLOSED" -> "CANCELLED"
    [] reason = "TIMEOUT" -> "DEADLINE_EXCEEDED"
    [] reason = "NOMEM" -> "RESOURCE_EXHAUSTED"
    [] reason = "STATE" -> "INVALID_ARGUMENT"
    [] OTHER -> "INTERNAL"

tr_rpc_record_reset_reason(status) ==
  CASE status \in {"CANCELLED", "UNAVAILABLE"} -> "CLOSED"
    [] status = "DEADLINE_EXCEEDED" -> "TIMEOUT"
    [] status = "RESOURCE_EXHAUSTED" -> "NOMEM"
    [] status \in {"INVALID_ARGUMENT", "DATA_LOSS"} -> "STATE"
    [] OTHER -> "SYS"

tr_rpc_record_is_terminal_event(event) ==
  event \in {"REMOTE_CLOSED", "CLOSED", "ERROR", "RESET", "REFUSED"}

-----------------------------------------------------------------------------
(* One call's binding to its stream (src/src/rpc/rpc_record_stream.c): the *)
(* record state st, of the end that sends in direction `sends`.            *)

\* The answer of tr_rpc_record_stream_send_on_owner: order and cardinality
\* are checked first, the prefix is allocated (tx "NOMEM"), then sent.
StreamSends(n, p, k, st, sends, record, tx) ==
  IF ~Admissible(st, sends, record) THEN "STATE"
  ELSE IF tx = "NOMEM" THEN "NOMEM"
  ELSE tr_stream_sendv(n, p, k, tx)

\* The state after a record has been received; one that does not fit ends
\* the call.
tr_rpc_record_stream_receive_on_owner(st, receives, record) ==
  IF st.terminal THEN st
  ELSE IF Admissible(st, receives, record)
    THEN tr_rpc_record_state_apply(st, receives, record)
    ELSE tr_rpc_record_state_abort(st, "INVALID_ARGUMENT")

tr_rpc_record_stream_event_on_owner(st, sends, event, reason) ==
  IF event \in {"OPENED", "WRITABLE"} THEN st
  ELSE IF event \in {"RESET", "REFUSED"}
    THEN tr_rpc_record_state_abort(st, tr_rpc_record_status_from_reset(reason))
  ELSE IF event = "REMOTE_CLOSED" /\ sends = "response" /\ st.request_closed THEN st
  ELSE tr_rpc_record_state_abort(st, "UNAVAILABLE")
=============================================================================
