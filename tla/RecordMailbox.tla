--------------------------- MODULE RecordMailbox ---------------------------
(***************************************************************************)
(* The mailbox through which an application thread writes the response of  *)
(* one call (struct tr_rpc_v2_producer, src/src/rpc/rpc_record_producer.c) *)
(* and the domain that pays for it: operators on the struct, each one      *)
(* critical section of producer->lock or domain->lock.                     *)
(*                                                                         *)
(* The mailbox holds one command.  An application thread reserves it       *)
(* (building), fills it and publishes it; the owner borrows it (in_send)   *)
(* for one attempt to send and then clears or keeps it.  waiters are the   *)
(* threads blocked in wait_writable.  Sizes are counted in units: one for  *)
(* the domain, one for a mailbox, one for a message body.                  *)
(***************************************************************************)
EXTENDS Naturals

CONSTANTS
  DomainCapacity,   \* mailboxes that may exist at the same time
  BudgetLimit       \* units the upstream memory budget grants

-----------------------------------------------------------------------------
(* struct tr_rpc_record_producer_domain; upstream is what it has charged.  *)

tr_rpc_record_producer_domain_create ==
  [refs |-> 1, closed |-> FALSE, current |-> 1, upstream |-> 1, leases |-> 0]

DomainReserve(d, lease) ==
  [d EXCEPT !.refs = @ + 1, !.current = @ + 1, !.upstream = @ + 1,
            !.leases = IF lease THEN @ + 1 ELSE @]

tr_producer_domain_reserve(d, lease) ==
  IF d.closed THEN "CLOSED"
  ELSE IF lease /\ d.leases = DomainCapacity THEN "AGAIN"
  ELSE IF d.upstream >= BudgetLimit THEN "NOMEM"
  ELSE "OK"

tr_producer_domain_release(d, lease) ==
  [d EXCEPT !.refs = @ - 1, !.current = @ - 1,
            !.upstream = IF d.closed THEN @ ELSE @ - 1,
            !.leases = IF lease THEN @ - 1 ELSE @]

\* The host returns all that is still charged; late releases stay local.
tr_rpc_record_producer_domain_close(d) ==
  [d EXCEPT !.closed = TRUE, !.upstream = 0, !.refs = @ - 1]

-----------------------------------------------------------------------------
(* struct tr_rpc_v2_producer                                               *)

\* One reference for the library, one for the application.
tr_rpc_record_producer_create(headers_sent) ==
  [refs |-> 2, app_refs |-> 1, abandoned |-> FALSE,
   kind |-> "none", status |-> "OK", item |-> 0,
   active |-> FALSE, closed |-> FALSE, finished |-> FALSE,
   initial_closed |-> headers_sent, building |-> FALSE, in_send |-> FALSE,
   waiters |-> {}]

tr_rpc_record_producer_put(p) == [p EXCEPT !.refs = @ - 1]

\* Mutant: the application counts its handle but does not own it.
RetainHandleOnly(p) == [p EXCEPT !.app_refs = @ + 1]

tr_rpc_v2_producer_retain(p) ==
  [p EXCEPT !.refs = @ + 1, !.app_refs = @ + 1]

tr_rpc_v2_producer_release(p) ==
  tr_rpc_record_producer_put(
    [p EXCEPT !.app_refs = @ - 1,
              !.abandoned = @ \/ (p.app_refs = 1 /\ ~p.finished /\ ~p.closed)])

Broadcast(p) == [p EXCEPT !.waiters = {}]

Empty(p) == [p EXCEPT !.kind = "none", !.status = "OK", !.item = 0]

tr_producer_writable(p) ==
  IF p.closed THEN "CLOSED"
  ELSE IF p.finished THEN "STATE"
  ELSE IF p.kind # "none" \/ p.building \/ p.in_send THEN "AGAIN"
  ELSE "OK"

\* What tr_producer_begin returns; on OK the mailbox is building.
tr_producer_begin(p, kind) ==
  IF tr_producer_writable(p) = "OK" /\ kind = "INITIAL" /\ p.initial_closed
    THEN "STATE" ELSE tr_producer_writable(p)

\* Mutant: a failed submission leaves the waiters asleep.
PublishSilently(p, kind, status, item, result) ==
  IF p.closed \/ result # "OK" THEN [p EXCEPT !.building = FALSE]
  ELSE Broadcast([p EXCEPT !.building = FALSE, !.kind = kind,
                           !.status = status, !.item = item,
                           !.finished = @ \/ kind = "FINAL",
                           !.initial_closed = @ \/ kind # "FINAL"])

tr_producer_publish(p, kind, status, item, result) ==
  Broadcast(
    IF p.closed \/ result # "OK" THEN [p EXCEPT !.building = FALSE]
    ELSE [p EXCEPT !.building = FALSE, !.kind = kind, !.status = status,
                   !.item = item, !.finished = @ \/ kind = "FINAL",
                   !.initial_closed = @ \/ kind # "FINAL"])

\* wait_writable sleeps while this holds.
Blocked(p) ==
  \/ tr_producer_writable(p) = "AGAIN"
  \/ tr_producer_writable(p) = "OK" /\ ~p.active

tr_rpc_record_producer_activate(p) ==
  Broadcast([p EXCEPT !.active = @ \/ ~p.closed])

\* Mutant: the owner leaves a finished mailbox alone.
TakeUnfinishedOnly(p) ==
  IF p.closed THEN "CLOSED"
  ELSE IF ~p.active \/ p.kind = "none" \/ p.building \/ p.in_send \/ p.finished
    THEN "AGAIN"
  ELSE "OK"

tr_rpc_record_producer_take(p) ==
  IF p.closed THEN "CLOSED"
  ELSE IF ~p.active \/ p.kind = "none" \/ p.building \/ p.in_send THEN "AGAIN"
  ELSE "OK"

\* Mutant: a refused attempt drops the command as an accepted one does.
CompleteAlwaysClears(p, accepted) ==
  Broadcast([Empty(p) EXCEPT !.in_send = FALSE])

tr_rpc_record_producer_complete(p, accepted) ==
  LET q == [(IF accepted THEN Empty(p) ELSE p) EXCEPT !.in_send = FALSE]
  IN  IF accepted \/ p.closed THEN Broadcast(q) ELSE q

\* The owner replaces what is in the mailbox by an error FINAL.
tr_rpc_record_producer_fail(p, status) ==
  IF p.closed THEN [ret |-> "CLOSED", p |-> p]
  ELSE IF p.in_send \/ p.building THEN [ret |-> "AGAIN", p |-> p]
  ELSE [ret |-> "OK",
        p |-> Broadcast([p EXCEPT !.kind = "FINAL", !.status = status,
                                  !.item = 0, !.finished = TRUE])]

tr_rpc_record_producer_close(p) ==
  LET q == Broadcast([p EXCEPT !.closed = TRUE, !.active = FALSE])
  IN  IF p.in_send THEN [ret |-> "AGAIN", p |-> q]
      ELSE [ret |-> "OK", p |-> Empty(q)]
=============================================================================
