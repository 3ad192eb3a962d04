----------------------------- MODULE MCChannel -----------------------------
(***************************************************************************)
(* Finite instances of Channel.  Stream and message ids and byte counts    *)
(* are bounded by MaxOpens and the plan in the guards of the calls; the    *)
(* frames in flight are bounded by them in turn.                           *)
(***************************************************************************)
EXTENDS Channel

Plan(openers, senders, drainers, resetters, max_bytes) ==
  [openers |-> openers, senders |-> senders, drainers |-> drainers,
   resetters |-> resetters, max_bytes |-> max_bytes, stops_credit |-> TRUE,
   may_fail |-> FALSE]

\* Both peers open streams, more than the server has slots: without data both
\* drain and reset; with a byte of data one peer drains and the other resets,
\* or both drain.  One stream of two bytes is reset while the server drains.
CrossPlans ==
  {Plan(Peers, {}, Peers, Peers, 0),
   Plan(Peers, {"client"}, {"client"}, {"server"}, 1),
   Plan({"client"}, {"client"}, {"server"}, {"client"}, 2),
   Plan(Peers, {"client"}, Peers, {}, 1)}

\* One stream sends more than its window over a connection that may break.
CreditPlan ==
  [Plan({"client"}, {"client"}, {}, Peers, 4) EXCEPT !.may_fail = TRUE]

\* Both ends of one stream send and close, and go on consuming afterwards.
HalfClosePlan ==
  [Plan({"client"}, Peers, {}, {}, 1) EXCEPT !.stops_credit = FALSE]

MCPlans == CrossPlans \cup {CreditPlan}
MCHalfClosePlans == {HalfClosePlan}
=============================================================================
