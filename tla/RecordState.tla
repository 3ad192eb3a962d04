---------------------------- MODULE RecordState ----------------------------
(***************************************************************************)
(* The state of one call as both ends keep it                              *)
(* (src/src/rpc/rpc_record.c): which record may follow which, how many     *)
(* messages each direction may carry, and the one final status.            *)
(*                                                                         *)
(* A record is reduced to its kind, the status of a FINAL, the method of   *)
(* an OPEN and whether that OPEN carries a deadline; codecs, sizes and     *)
(* metadata are left out.                                                  *)
(***************************************************************************)
EXTENDS Naturals

Kinds == {"OPEN", "INITIAL", "MESSAGE", "HALF_CLOSE", "FINAL"}

Statuses ==
  {"OK", "CANCELLED", "DEADLINE_EXCEEDED", "RESOURCE_EXHAUSTED",
   "INVALID_ARGUMENT", "FAILED_PRECONDITION", "UNIMPLEMENTED", "INTERNAL",
   "UNAVAILABLE", "DATA_LOSS", "NOT_FOUND"}

Record(kind, status) ==
  [kind |-> kind, status |-> status, method |-> "none", timed |-> FALSE]

\* "unary" is ONE request for ONE response, every other method MANY for MANY.
Cardinality_(method) == IF method = "unary" THEN "ONE" ELSE "MANY"

tr_rpc_record_state_init(method) ==
  [cardinality |-> Cardinality_(method), requests |-> 0, responses |-> 0,
   opened |-> FALSE, request_closed |-> FALSE, headers |-> FALSE,
   terminal |-> FALSE, status |-> "OK"]

One(state) == state.cardinality = "ONE"

Opening(state, direction, record) ==
  \/ record.kind = "OPEN" /\ direction = "request"
  \/ record.kind = "FINAL" /\ direction = "response" /\ record.status # "OK"

Request(state, record) ==
  /\ ~state.request_closed
  /\ \/ record.kind = "MESSAGE" /\ (One(state) => state.requests = 0)
     \/ record.kind = "HALF_CLOSE" /\ (One(state) => state.requests = 1)

\* Mutant: an OK FINAL is accepted without the one response.
ResponseWithoutCount(state, record) ==
  \/ record.kind = "INITIAL" /\ ~state.headers
  \/ record.kind = "MESSAGE" /\ state.headers
     /\ (One(state) => state.responses = 0)
  \/ record.kind = "FINAL"

Response(state, record) ==
  \/ record.kind = "INITIAL" /\ ~state.headers
  \/ record.kind = "MESSAGE" /\ state.headers
     /\ (One(state) => state.responses = 0)
  \/ record.kind = "FINAL"
     /\ (record.status = "OK" /\ One(state)
           => state.requests = 1 /\ state.responses = 1)

Admissible(state, direction, record) ==
  /\ ~state.terminal
  /\ IF ~state.opened THEN Opening(state, direction, record)
     ELSE IF direction = "request" THEN Request(state, record)
     ELSE Response(state, record)

\* The state after an admissible record; a refused one (TR_ERR_STATE) leaves
\* the state alone.
tr_rpc_record_state_apply(state, direction, record) ==
  CASE record.kind = "OPEN" -> [state EXCEPT !.opened = TRUE]
    [] record.kind = "INITIAL" -> [state EXCEPT !.headers = TRUE]
    [] record.kind = "HALF_CLOSE" -> [state EXCEPT !.request_closed = TRUE]
    [] record.kind = "FINAL" ->
         [state EXCEPT !.terminal = TRUE, !.status = record.status]
    [] record.kind = "MESSAGE" /\ direction = "request" ->
         [state EXCEPT !.requests = @ + 1]
    [] OTHER -> [state EXCEPT !.responses = @ + 1]

\* A local end of the call; the first terminal status stays.
tr_rpc_record_state_abort(state, status) ==
  IF state.terminal THEN state
  ELSE [state EXCEPT !.terminal = TRUE, !.status = status]
=============================================================================
