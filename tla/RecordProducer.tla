--------------------------- MODULE RecordProducer ---------------------------
(***************************************************************************)
(* Application threads and the owner at one response mailbox               *)
(* (src/src/rpc/rpc_record_producer.c, and the owner's side of it in       *)
(* rpc_record_dispatch.c).  RecordMailbox defines the critical sections;   *)
(* here they are interleaved: a thread that submits takes three of them    *)
(* (begin, the domain's reserve, publish), the owner's attempt to send     *)
(* two (take, complete), the host closes the domain whenever it likes and  *)
(* the transport releases an accepted body whenever it likes.              *)
(***************************************************************************)
EXTENDS RecordMailbox, Sequences, FiniteSets

CONSTANTS
  Threads,          \* application threads
  First,            \* the one that acquires the mailbox
  MaxPublished      \* bound: commands submitted

ASSUME ProducerAssumption ==
  /\ First \in Threads /\ IsFiniteSet(Threads)
  /\ {DomainCapacity, BudgetLimit, MaxPublished} \subseteq Nat \ {0}

VARIABLES
  box,        \* the mailbox
  domain,     \* its domain
  thread,     \* [pc, kind]: what each application thread is doing
  owner,      \* "absent" | "staged" | "idle" | "sending" | "gone"
  tx,         \* bodies the transport still holds
  headers,    \* s->headers_sent
  failed,     \* s->producer_failed
  published,  \* history: kinds accepted from the application
  delivered   \* history: [kind, item] accepted by the transport

vars == <<box, domain, thread, owner, tx, headers, failed, published, delivered>>

Idle == [pc |-> "idle", kind |-> "none"]
Away == [pc |-> "away", kind |-> "none"]

Init ==
  /\ box = tr_rpc_record_producer_create(FALSE)
  /\ domain = tr_rpc_record_producer_domain_create
  /\ thread = [t \in Threads |-> Away]
  /\ owner = "absent"
  /\ tx = 0 /\ headers \in BOOLEAN /\ failed = FALSE
  /\ published = <<>> /\ delivered = <<>>

\* The struct is freed with its last reference and gives up its lease.
Freed(p, d) == IF p.refs = 0 THEN tr_producer_domain_release(d, TRUE) ELSE d

\* A body that nobody sent is released with the command that carried it.
Dropped(p, d) ==
  IF p.kind = "MESSAGE" THEN tr_producer_domain_release(d, FALSE) ELSE d

-----------------------------------------------------------------------------
(* The application                                                         *)

\* tr_rpc_v2_reply_acquire_producer, inside work.
Acquire ==
  /\ owner = "absent" /\ tr_producer_domain_reserve(domain, TRUE) = "OK"
  /\ box' = tr_rpc_record_producer_create(headers)
  /\ domain' = DomainReserve(domain, TRUE)
  /\ owner' = "staged"
  /\ thread' = [thread EXCEPT ![First] = Idle]
  /\ UNCHANGED <<tx, headers, failed, published, delivered>>

\* A thread hands its mailbox to another one, which gets its own reference.
Retain(t, u) ==
  /\ thread[t].pc = "idle" /\ thread[u].pc = "away"
  /\ u # First
  /\ box' = tr_rpc_v2_producer_retain(box)
  /\ thread' = [thread EXCEPT ![u] = Idle]
  /\ UNCHANGED <<domain, owner, tx, headers, failed, published, delivered>>

Release(t) ==
  /\ thread[t].pc = "idle"
  /\ box' = tr_rpc_v2_producer_release(box)
  /\ domain' = Freed(box', domain)
  /\ thread' = [thread EXCEPT ![t] = [pc |-> "released", kind |-> "none"]]
  /\ UNCHANGED <<owner, tx, headers, failed, published, delivered>>

\* send, send_initial_metadata and finish: the mailbox is taken first, and
\* only then the body allocated.
Begin(t, kind) ==
  /\ thread[t].pc = "idle" /\ Len(published) < MaxPublished
  /\ tr_producer_begin(box, kind) = "OK"
  /\ box' = [box EXCEPT !.building = TRUE]
  /\ thread' = [thread EXCEPT ![t] =
       [pc |-> IF kind = "MESSAGE" THEN "reserve" ELSE "publish", kind |-> kind]]
  /\ UNCHANGED <<domain, owner, tx, headers, failed, published, delivered>>

ReserveBody(t) ==
  LET ret == tr_producer_domain_reserve(domain, FALSE)
  IN  /\ thread[t].pc = "reserve"
      /\ domain' = IF ret = "OK" THEN DomainReserve(domain, FALSE) ELSE domain
      /\ thread' = [thread EXCEPT ![t].pc = IF ret = "OK" THEN "publish" ELSE "undo"]
      /\ UNCHANGED <<box, owner, tx, headers, failed, published, delivered>>

\* A closed mailbox, or a body that could not be had, undoes the submission.
Publish(t) ==
  LET kind == thread[t].kind
      result == IF thread[t].pc = "publish" THEN "OK" ELSE "NOMEM"
      accepted == result = "OK" /\ ~box.closed
  IN  /\ thread[t].pc \in {"publish", "undo"}
      /\ box' = tr_producer_publish(box, kind, "OK", Len(published) + 1, result)
      /\ domain' = IF result = "OK" /\ box.closed /\ kind = "MESSAGE"
                     THEN tr_producer_domain_release(domain, FALSE) ELSE domain
      /\ published' = IF accepted THEN Append(published, kind) ELSE published
      /\ thread' = [thread EXCEPT ![t] = Idle]
      /\ UNCHANGED <<owner, tx, headers, failed, delivered>>

\* wait_writable: asleep in the condition variable, woken by a broadcast or
\* by its deadline, and then on to look at the predicate again.
Wait(t) ==
  /\ thread[t].pc = "idle" /\ Blocked(box)
  /\ box' = [box EXCEPT !.waiters = @ \cup {t}]
  /\ thread' = [thread EXCEPT ![t].pc = "wait"]
  /\ UNCHANGED <<domain, owner, tx, headers, failed, published, delivered>>

Wakes(t) ==
  /\ thread[t].pc = "wait" /\ t \notin box.waiters
  /\ IF Blocked(box) THEN box' = [box EXCEPT !.waiters = @ \cup {t}]
                          /\ UNCHANGED thread
     ELSE thread' = [thread EXCEPT ![t] = Idle] /\ UNCHANGED box
  /\ UNCHANGED <<domain, owner, tx, headers, failed, published, delivered>>

TimesOut(t) ==
  /\ thread[t].pc = "wait"
  /\ box' = [box EXCEPT !.waiters = @ \ {t}]
  /\ thread' = [thread EXCEPT ![t] = Idle]
  /\ UNCHANGED <<domain, owner, tx, headers, failed, published, delivered>>

-----------------------------------------------------------------------------
(* The owner                                                               *)

Activate ==
  /\ owner = "staged"
  /\ box' = tr_rpc_record_producer_activate(box)
  /\ owner' = "idle"
  /\ UNCHANGED <<domain, thread, tx, headers, failed, published, delivered>>

\* The mutex is only tried: a thread that holds it makes the take fail, which
\* is the same as not taking now.
Take ==
  /\ owner = "idle" /\ tr_rpc_record_producer_take(box) = "OK"
  /\ box' = [box EXCEPT !.in_send = TRUE]
  /\ owner' = "sending"
  /\ UNCHANGED <<domain, thread, tx, headers, failed, published, delivered>>

\* Close the mailbox and give up the library's reference to it.
CloseProducer(p, d) ==
  /\ box' = tr_rpc_record_producer_put(tr_rpc_record_producer_close(p).p)
  /\ domain' = Freed(box', Dropped(p, d))
  /\ owner' = "gone"

\* An implicit INITIAL goes before the first message; the message stays.
Sent == IF box.kind = "MESSAGE" /\ ~headers THEN "INITIAL" ELSE box.kind

Accepted ==
  LET kind == Sent
      whole == kind = box.kind
      p == tr_rpc_record_producer_complete(box, whole)
  IN  /\ owner = "sending"
      /\ delivered' = Append(delivered,
           [kind |-> kind, item |-> IF whole THEN box.item ELSE 0])
      /\ headers' = (headers \/ kind = "INITIAL")
      /\ tx' = IF kind = "MESSAGE" THEN tx + 1 ELSE tx
      /\ IF kind = "FINAL" THEN CloseProducer(p, domain)
         ELSE box' = p /\ owner' = "idle" /\ UNCHANGED domain
      /\ UNCHANGED <<thread, failed, published>>

Refused ==
  /\ owner = "sending"
  /\ box' = tr_rpc_record_producer_complete(box, FALSE)
  /\ owner' = "idle"
  /\ UNCHANGED <<domain, thread, tx, headers, failed, published, delivered>>

\* The record does not fit the call (TR_ERR_STATE): an INTERNAL FINAL takes
\* its place, unless it is that FINAL itself or a thread is building.
Misfit ==
  LET p == tr_rpc_record_producer_complete(box, FALSE)
      f == tr_rpc_record_producer_fail(p, "INTERNAL")
  IN  /\ owner = "sending"
      /\ IF box.kind = "FINAL" /\ box.status = "INTERNAL"
           THEN CloseProducer(p, domain) /\ UNCHANGED failed
         ELSE IF f.ret = "OK"
           THEN /\ box' = f.p /\ domain' = Dropped(p, domain)
                /\ owner' = "idle" /\ failed' = TRUE
           ELSE CloseProducer(p, domain) /\ UNCHANGED failed
      /\ UNCHANGED <<thread, tx, headers, published, delivered>>

\* The call ends for any other reason: cancelled, expired, abandoned, lost.
Terminate ==
  /\ owner \in {"staged", "idle"}
  /\ CloseProducer(box, domain)
  /\ UNCHANGED <<thread, tx, headers, failed, published, delivered>>

-----------------------------------------------------------------------------
(* The transport and the host                                              *)

TxReleases ==
  /\ tx > 0 /\ tx' = tx - 1
  /\ domain' = tr_producer_domain_release(domain, FALSE)
  /\ UNCHANGED <<box, thread, owner, headers, failed, published, delivered>>

DomainClose ==
  /\ ~domain.closed
  /\ domain' = tr_rpc_record_producer_domain_close(domain)
  /\ UNCHANGED <<box, thread, owner, tx, headers, failed, published, delivered>>

ThreadStep(t) ==
  \/ Release(t) \/ ReserveBody(t) \/ Publish(t) \/ Wait(t) \/ Wakes(t)
  \/ TimesOut(t)
  \/ \E u \in Threads : Retain(t, u)
  \/ \E kind \in {"INITIAL", "MESSAGE", "FINAL"} : Begin(t, kind)

OwnerStep == Activate \/ Take \/ Accepted \/ Refused \/ Misfit \/ Terminate

Next ==
  \/ \E t \in Threads : ThreadStep(t)
  \/ Acquire \/ OwnerStep \/ TxReleases \/ DomainClose

Spec == Init /\ [][Next]_vars

\* The owner's timer pumps the call, and the transport accepts a record again
\* and again; a submission that has begun is finished.
Fairness ==
  /\ WF_vars(Activate) /\ WF_vars(Take) /\ SF_vars(Accepted)
  /\ WF_vars(Refused \/ Misfit \/ Accepted)
  /\ \A t \in Threads : WF_vars(ReserveBody(t) \/ Publish(t))

FairSpec == Spec /\ Fairness

-----------------------------------------------------------------------------
(* Properties                                                              *)

Using(t) == thread[t].pc \notin {"away", "released"}

Bodies ==
  tx + (IF box.kind = "MESSAGE" THEN 1 ELSE 0)
     + Cardinality({t \in Threads : thread[t].pc = "publish"
                                    /\ thread[t].kind = "MESSAGE"})

Alive == owner # "absent" /\ box.refs > 0

\* What the domain is charged for.
DomainExact ==
  /\ domain.current = 1 + Bodies + domain.leases
  /\ domain.upstream = IF domain.closed THEN 0 ELSE domain.current
  /\ domain.refs = Bodies + domain.leases + (IF domain.closed THEN 0 ELSE 1)
  /\ domain.leases = IF Alive THEN 1 ELSE 0

\* What the mailbox is held by.
BorrowSafe ==
  /\ owner # "absent" =>
       box.refs = Cardinality({t \in Threads : Using(t)})
                    + (IF owner = "gone" THEN 0 ELSE 1)
  /\ box.in_send <=> owner = "sending"
  /\ box.building <=> \E t \in Threads : thread[t].pc \in {"reserve", "publish", "undo"}
  /\ Cardinality({t \in Threads : thread[t].pc \in {"reserve", "publish", "undo"}}) <= 1

\* Every unit of the domain is accounted for by a mailbox, a body being
\* built, waiting or in the transport; upstream is charged for exactly
\* those until the host closes the domain and never after (domain_release).
\* The mailbox outlives everyone who uses it: a thread inside a call, a
\* sleeper, the owner's borrow during a send (release, put, close).
LedgerExact == DomainExact /\ BorrowSafe

\* The n-th command of the application has been accepted by the transport.
Delivered(n) == \E i \in DOMAIN delivered : delivered[i].item = n

\* What the application submitted leaves in that order, none twice and, while
\* the call lives, none missing but the last one when it is in the mailbox;
\* INITIAL comes before the first message and FINAL is the last record of all.
DeliveredInOrder ==
  /\ \A i \in DOMAIN delivered :
       LET r == delivered[i]
       IN  /\ r.item # 0 => /\ r.item \in DOMAIN published /\ r.kind = published[r.item]
                            /\ \A n \in 1 .. r.item : Delivered(n)
           /\ \A j \in 1 .. i - 1 :
                /\ r.item # 0 => delivered[j].item < r.item
                /\ delivered[j].kind # "FINAL"
                /\ delivered[j].kind = "MESSAGE" => r.kind # "INITIAL"
  /\ ~box.closed /\ ~failed =>
       \A n \in DOMAIN published :
          Delivered(n) <=> ~(n = Len(published) /\ box.kind # "none")

\* A sleeper in wait_writable is asleep for a reason: whatever makes the
\* mailbox writable, finished, active or closed broadcasts in the same
\* critical section.
NoSleeperForgotten == box.waiters # {} => Blocked(box)

\* A FINAL the application submitted is delivered unless the call ends first.
FinalLeaves ==
  (\E i \in DOMAIN published : published[i] = "FINAL")
    ~> (box.closed \/ \E i \in DOMAIN delivered : delivered[i].kind = "FINAL")
=============================================================================
