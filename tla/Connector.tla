----------------------------- MODULE Connector -----------------------------
(***************************************************************************)
(* One outgoing connection attempt at a time (src/src/io/connector.c).     *)
(* The writable event, the timeout and cancel all may end the attempt; the *)
(* first one latches how it ends.  The end takes place once the connector  *)
(* is unwatched, which may fail and is then tried again by the next event  *)
(* or timeout.  All of it runs on the owner reactor: an operator maps a    *)
(* connector to [ret, k] and says which fd is closed and whether           *)
(* complete_cb is called.                                                  *)
(***************************************************************************)
EXTENDS Naturals

NoFd == 0
Quiet == [active |-> FALSE, action |-> "NONE", status |-> "OK", fd |-> NoFd]

Outcome(ret, k) == [ret |-> ret, k |-> k, calls |-> FALSE, status |-> "OK", fd |-> NoFd]

tr_connector_start_on_owner(k, fd) == [k EXCEPT !.active = TRUE, !.fd = fd]

\* The callback gets the fd when the attempt succeeded; else the fd is closed.
tr_connector_complete_on_owner(k, status, unwatched) ==
  LET latched == IF k.action = "NONE" THEN [k EXCEPT !.action = "COMPLETE", !.status = status] ELSE k
  IN  IF ~k.active THEN Outcome("OK", k)
      ELSE IF k.action = "CANCEL" THEN Outcome("STATE", k)
      ELSE IF ~unwatched THEN Outcome("SYS", latched)
      ELSE [ret |-> "OK", k |-> Quiet, calls |-> TRUE, status |-> latched.status, fd |-> k.fd]

\* Mutant: a cancelled attempt leaves its socket open.
CancelCleanupKeepsFd(k, unwatched) ==
  IF k.active /\ ~unwatched THEN Outcome("SYS", k) ELSE Outcome("OK", Quiet)

tr_connector_cancel_cleanup_on_owner(k, unwatched) ==
  IF k.active /\ ~unwatched THEN Outcome("SYS", k)
  ELSE [Outcome("OK", Quiet) EXCEPT !.fd = k.fd]

tr_connector_cancel_on_owner(k, unwatched) ==
  IF k.active /\ k.action = "COMPLETE" THEN Outcome("STATE", k)
  ELSE tr_connector_cancel_cleanup_on_owner(
         IF k.active THEN [k EXCEPT !.action = "CANCEL"] ELSE k, unwatched)

\* What tr_connector_event and tr_connector_timeout do to an attempt that has
\* come to the given status, or whose end is latched already.
tr_connector_timeout(k, status, unwatched) ==
  IF k.action = "CANCEL" THEN tr_connector_cancel_cleanup_on_owner(k, unwatched)
  ELSE tr_connector_complete_on_owner(k, status, unwatched)
=============================================================================
