--------------------------- MODULE ProducerProofs ---------------------------
(***************************************************************************)
(* The safety of the response mailbox for every set of threads, every      *)
(* capacity of the domain, every budget and every number of commands.      *)
(***************************************************************************)
EXTENDS RecordProducer, Integers, FiniteSetTheorems, SequenceTheorems, TLAPS

Kinds == {"INITIAL", "MESSAGE", "FINAL"}

Boxes ==
  [refs : Int, app_refs : Int, abandoned : BOOLEAN,
   kind : Kinds \cup {"none"}, status : {"OK", "INTERNAL"}, item : Nat,
   active : BOOLEAN, closed : BOOLEAN, finished : BOOLEAN,
   initial_closed : BOOLEAN, building : BOOLEAN, in_send : BOOLEAN,
   waiters : SUBSET Threads]

Domains ==
  [refs : Int, closed : BOOLEAN, current : Int, upstream : Int, leases : Int]

ThreadStates ==
  [pc : {"away", "idle", "reserve", "publish", "undo", "wait", "released"},
   kind : Kinds \cup {"none"}]

TypeOK ==
  /\ box \in Boxes /\ domain \in Domains
  /\ thread \in [Threads -> ThreadStates]
  /\ owner \in {"absent", "staged", "idle", "sending", "gone"}
  /\ tx \in Nat /\ headers \in BOOLEAN /\ failed \in BOOLEAN
  /\ published \in Seq(Kinds)
  /\ delivered \in Seq([kind : Kinds, item : Nat])

Builds(t) == thread[t].pc \in {"reserve", "publish", "undo"}
Users == {t \in Threads : Using(t)}
Carriers == {t \in Threads : thread[t].pc = "publish" /\ thread[t].kind = "MESSAGE"}

\* How the state of the mailbox follows from what the owner and the threads do.
BoxControl ==
  /\ box.closed <=> owner = "gone"
  /\ box.in_send <=> owner = "sending"
  /\ box.in_send => box.kind # "none" /\ ~box.building
  /\ box.building => box.kind = "none" /\ ~box.finished
  /\ box.closed => box.kind = "none"
  /\ owner = "absent" => box.kind = "none" /\ published = <<>> /\ delivered = <<>>

ThreadControl ==
  /\ box.building <=> \E t \in Threads : Builds(t)
  /\ \A t, u \in Threads : Builds(t) /\ Builds(u) => t = u
  /\ \A t \in Threads :
       /\ Builds(t) => thread[t].kind \in Kinds
       /\ thread[t].pc \in {"reserve", "undo"} => thread[t].kind = "MESSAGE"
       /\ owner = "absent" => thread[t].pc = "away"

Control == BoxControl /\ ThreadControl

\* The domain pays for so many bodies and leases.
Pays(d, bodies, leases) ==
  /\ d.current = 1 + bodies + leases
  /\ d.upstream = IF d.closed THEN 0 ELSE d.current
  /\ d.refs = bodies + leases + (IF d.closed THEN 0 ELSE 1)
  /\ d.leases = leases

\* The references and charges, with the sets that are counted.
References ==
  owner # "absent" => box.refs = Cardinality(Users) + (IF owner = "gone" THEN 0 ELSE 1)

Ledger == References /\ Pays(domain, Bodies, IF Alive THEN 1 ELSE 0)

\* What the histories have to do with the mailbox.
Submitted ==
  /\ box.kind = "none" => box.item = 0
  /\ box.item # 0 => box.item = Len(published) /\ box.kind = published[box.item] /\ ~failed
  /\ box.kind # "none" /\ ~failed => box.item # 0
  /\ failed => box.finished /\ box.kind \in {"none", "FINAL"} /\ owner # "absent"
  /\ ~box.initial_closed /\ ~box.finished => published = <<>>
  /\ \A t \in Threads : thread[t].pc = "publish" /\ thread[t].kind = "INITIAL"
                          => ~box.initial_closed
  /\ box.kind = "INITIAL" => Len(published) = 1

Sequel(i) ==
  /\ delivered[i].kind = "FINAL" => box.closed
  /\ delivered[i].kind = "MESSAGE" => headers /\ delivered[i].item # 0
  /\ delivered[i].item = Len(published) => box.kind = "none" \/ failed

\* DeliveredInOrder, one record of the history at a time.
Entry(i) ==
  /\ delivered[i].item # 0 =>
       /\ delivered[i].item \in DOMAIN published
       /\ delivered[i].kind = published[delivered[i].item]
       /\ \A n \in 1 .. delivered[i].item : Delivered(n)
  /\ \A j \in 1 .. i - 1 :
       /\ delivered[i].item # 0 => delivered[j].item < delivered[i].item
       /\ delivered[j].kind # "FINAL"
       /\ delivered[j].kind = "MESSAGE" => delivered[i].kind # "INITIAL"

NoneMissing ==
  ~box.closed /\ ~failed =>
    \A n \in DOMAIN published : Delivered(n) <=> ~(n = Len(published) /\ box.kind # "none")

History ==
  /\ Submitted /\ NoneMissing
  /\ \A i \in DOMAIN delivered : Sequel(i) /\ Entry(i)

IInv == TypeOK /\ Control /\ Ledger /\ History /\ NoSleeperForgotten

-----------------------------------------------------------------------------
USE ProducerAssumption

(* The operators on the mailbox and on the domain return what they should.  *)

\* A fresh mailbox and a fresh domain are well formed (create).
LEMMA CreateType ==
  /\ \A h \in BOOLEAN : tr_rpc_record_producer_create(h) \in Boxes
  /\ tr_rpc_record_producer_domain_create \in Domains
BY DEF Boxes, Domains, Kinds, tr_rpc_record_producer_create,
   tr_rpc_record_producer_domain_create

\* Retain, release and put return a mailbox.
LEMMA ReferenceTypes ==
  ASSUME NEW p \in Boxes
  PROVE  /\ tr_rpc_v2_producer_release(p) \in Boxes
         /\ tr_rpc_record_producer_put(p) \in Boxes
         /\ tr_rpc_v2_producer_retain(p) \in Boxes
<1>1. /\ p.refs - 1 \in Int /\ p.app_refs - 1 \in Int
      /\ p.refs + 1 \in Int /\ p.app_refs + 1 \in Int
  BY SMT DEF Boxes
<1> QED BY <1>1, Zenon DEF Boxes, tr_rpc_v2_producer_release, tr_rpc_record_producer_put,
        tr_rpc_v2_producer_retain

\* Reserve, release, close and the two ends of a lease return a domain.
LEMMA DomainTypes ==
  ASSUME NEW d \in Domains, NEW lease \in BOOLEAN
  PROVE  /\ DomainReserve(d, lease) \in Domains
         /\ tr_producer_domain_release(d, lease) \in Domains
         /\ tr_rpc_record_producer_domain_close(d) \in Domains
         /\ \A p : Freed(p, d) \in Domains /\ Dropped(p, d) \in Domains
<1> USE DEF Domains
<1>0. /\ {d.refs - 1, d.current - 1, d.upstream - 1, d.leases - 1, 0} \subseteq Int
      /\ {d.refs + 1, d.current + 1, d.upstream + 1, d.leases + 1} \subseteq Int
  BY SMT
<1>1. DomainReserve(d, lease) \in Domains
  BY <1>0, Zenon DEF DomainReserve
<1>2. \A l \in BOOLEAN : tr_producer_domain_release(d, l) \in Domains
  BY <1>0, Zenon DEF tr_producer_domain_release
<1>3. tr_rpc_record_producer_domain_close(d) \in Domains
  BY <1>0, Zenon DEF tr_rpc_record_producer_domain_close
<1>4. \A p : Freed(p, d) \in Domains /\ Dropped(p, d) \in Domains
  BY <1>2, Zenon DEF Freed, Dropped
<1> QED BY <1>1, <1>2, <1>3, <1>4, Zenon

\* Every critical section of producer->lock returns a mailbox.
LEMMA BoxTypes ==
  ASSUME NEW p \in Boxes
  PROVE  /\ \A kind \in Kinds, item \in Nat, result \in {"OK", "NOMEM"} :
              tr_producer_publish(p, kind, "OK", item, result) \in Boxes
         /\ \A accepted \in BOOLEAN :
              tr_rpc_record_producer_complete(p, accepted) \in Boxes
         /\ tr_rpc_record_producer_activate(p) \in Boxes
         /\ tr_rpc_record_producer_fail(p, "INTERNAL").p \in Boxes
         /\ tr_rpc_record_producer_close(p).p \in Boxes
         /\ [p EXCEPT !.building = TRUE] \in Boxes
         /\ [p EXCEPT !.in_send = TRUE] \in Boxes
         /\ \A t \in Threads : /\ [p EXCEPT !.waiters = @ \cup {t}] \in Boxes
                               /\ [p EXCEPT !.waiters = @ \ {t}] \in Boxes
<1> USE DEF Boxes, Broadcast, Empty
<1>1. \A kind \in Kinds, item \in Nat, result \in {"OK", "NOMEM"} :
        tr_producer_publish(p, kind, "OK", item, result) \in Boxes
  BY ZenonT(60) DEF tr_producer_publish
<1>2. \A accepted \in BOOLEAN : tr_rpc_record_producer_complete(p, accepted) \in Boxes
  BY Zenon DEF tr_rpc_record_producer_complete
<1>3. tr_rpc_record_producer_activate(p) \in Boxes
  BY Zenon DEF tr_rpc_record_producer_activate
<1>4. tr_rpc_record_producer_fail(p, "INTERNAL").p \in Boxes
  BY ZenonT(60) DEF tr_rpc_record_producer_fail, Kinds
<1>5. tr_rpc_record_producer_close(p).p \in Boxes
  BY Zenon DEF tr_rpc_record_producer_close
<1>6. /\ [p EXCEPT !.building = TRUE] \in Boxes
      /\ [p EXCEPT !.in_send = TRUE] \in Boxes
  BY Zenon
<1>7. \A t \in Threads : /\ [p EXCEPT !.waiters = @ \cup {t}] \in Boxes
                         /\ [p EXCEPT !.waiters = @ \ {t}] \in Boxes
  BY SMT
<1> QED BY <1>1, <1>2, <1>3, <1>4, <1>5, <1>6, <1>7, Zenon

-----------------------------------------------------------------------------
(* Types                                                                   *)

\* An application thread keeps the state well formed.
LEMMA TypeThread ==
  ASSUME TypeOK, Control, NEW t \in Threads, ThreadStep(t)
  PROVE  TypeOK'
<1> USE DEF TypeOK, ThreadStates, Idle, Kinds
<1>1. CASE Release(t)
  BY <1>1, ReferenceTypes, DomainTypes, Zenon DEF Release
<1>2. CASE ReserveBody(t)
  BY <1>2, DomainTypes, Zenon DEF ReserveBody
<1>3. CASE Publish(t)
  <2>1. thread[t].kind \in Kinds
    BY <1>3 DEF Publish, Control, ThreadControl, Builds
  <2>2. box' \in Boxes
    <3>0. Len(published) + 1 \in Nat
      OBVIOUS
    <3>1. \A result \in {"OK", "NOMEM"} :
            tr_producer_publish(box, thread[t].kind, "OK", Len(published) + 1, result) \in Boxes
      BY <2>1, <3>0, BoxTypes, Zenon
    <3> QED BY <1>3, <3>1, Zenon DEF Publish
  <2>3. published' \in Seq(Kinds)
    BY <1>3, <2>1 DEF Publish
  <2> QED BY <1>3, <2>2, <2>3, DomainTypes, Zenon DEF Publish
<1>4. CASE Wait(t)
  BY <1>4, BoxTypes, Zenon DEF Wait
<1>5. CASE Wakes(t)
  <2>1. box' \in Boxes
    <3>1. [box EXCEPT !.waiters = @ \cup {t}] \in Boxes
      BY BoxTypes, Zenon
    <3> QED BY <1>5, <3>1, Zenon DEF Wakes
  <2> QED BY <1>5, <2>1 DEF Wakes
<1>6. CASE TimesOut(t)
  BY <1>6, BoxTypes, Zenon DEF TimesOut
<1>7. CASE \E u \in Threads : Retain(t, u)
  BY <1>7, ReferenceTypes DEF Retain
<1>8. CASE \E kind \in {"INITIAL", "MESSAGE", "FINAL"} : Begin(t, kind)
  <2>1. [box EXCEPT !.building = TRUE] \in Boxes
    BY BoxTypes, Zenon
  <2>2. box' \in Boxes
    BY <1>8, <2>1, Zenon DEF Begin
  <2> QED BY <1>8, <2>2 DEF Begin
<1> QED BY <1>1, <1>2, <1>3, <1>4, <1>5, <1>6, <1>7, <1>8 DEF ThreadStep

\* So does the close of the mailbox by its owner.
LEMMA CloseType ==
  ASSUME NEW p \in Boxes, NEW d \in Domains, CloseProducer(p, d)
  PROVE  box' \in Boxes /\ domain' \in Domains /\ owner' = "gone"
BY BoxTypes, ReferenceTypes, DomainTypes, Zenon DEF CloseProducer

\* The owner keeps the state well formed.
LEMMA TypeOwner ==
  ASSUME TypeOK, Control, OwnerStep
  PROVE  TypeOK'
<1> USE DEF TypeOK, Kinds
<1>1. CASE Activate
  BY <1>1, BoxTypes, Zenon DEF Activate
<1>2. CASE Take
  <2>1. box' \in Boxes
    BY <1>2, BoxTypes, Zenon DEF Take
  <2> QED BY <1>2, <2>1 DEF Take
<1>3. CASE Accepted
  <2> DEFINE p == tr_rpc_record_producer_complete(box, Sent = box.kind)
  <2>1. p \in Boxes
    BY BoxTypes, Zenon
  <2>2. box' \in Boxes /\ domain' \in Domains /\ owner' \in {"idle", "gone"}
    <3>1. CASE Sent = "FINAL"
      BY <1>3, <3>1, <2>1, CloseType DEF Accepted
    <3>2. CASE Sent # "FINAL"
      BY <1>3, <3>2, <2>1, Zenon DEF Accepted
    <3> QED BY <3>1, <3>2
  <2>3. Sent \in Kinds
    BY <1>3 DEF Accepted, Control, BoxControl, Sent, Boxes
  <2>4. delivered' \in Seq([kind : Kinds, item : Nat])
    <3>1. box.item \in Nat
      BY DEF Boxes
    <3> QED BY <1>3, <2>3, <3>1 DEF Accepted
  <2>5. /\ headers' \in BOOLEAN /\ tx' \in Nat
        /\ UNCHANGED <<thread, failed, published>>
    BY <1>3 DEF Accepted
  <2> QED BY <2>2, <2>4, <2>5
<1>4. CASE Refused
  BY <1>4, BoxTypes, Zenon DEF Refused
<1>5. CASE Misfit
  <2> DEFINE p == tr_rpc_record_producer_complete(box, FALSE)
  <2>1. p \in Boxes /\ tr_rpc_record_producer_fail(p, "INTERNAL").p \in Boxes
    BY BoxTypes, Zenon
  <2>2. box' \in Boxes /\ domain' \in Domains /\ owner' \in {"idle", "gone"}
                       /\ failed' \in BOOLEAN
    <3>1. CASE CloseProducer(p, domain) /\ UNCHANGED failed
      BY <3>1, <2>1, CloseType, Zenon
    <3>2. CASE ~(CloseProducer(p, domain) /\ UNCHANGED failed)
      <4>1. /\ box' = tr_rpc_record_producer_fail(p, "INTERNAL").p
            /\ domain' = Dropped(p, domain) /\ owner' = "idle" /\ failed' = TRUE
        BY <1>5, <3>2, Zenon DEF Misfit
      <4> QED BY <4>1, <2>1, DomainTypes, Zenon
    <3> QED BY <3>1, <3>2, Zenon
  <2>3. UNCHANGED <<thread, tx, headers, published, delivered>>
    BY <1>5 DEF Misfit
  <2> QED BY <2>2, <2>3
<1>6. CASE Terminate
  BY <1>6, CloseType DEF Terminate
<1> QED BY <1>1, <1>2, <1>3, <1>4, <1>5, <1>6 DEF OwnerStep

\* So do acquire, the transport and the host.
LEMMA TypeRest ==
  ASSUME TypeOK, Acquire \/ TxReleases \/ DomainClose \/ UNCHANGED vars
  PROVE  TypeOK'
<1> USE DEF TypeOK
<1>1. CASE Acquire
  <2>1. box' \in Boxes /\ domain' \in Domains
    BY <1>1, CreateType, DomainTypes, Zenon DEF Acquire
  <2>2. thread' \in [Threads -> ThreadStates]
    <3>1. Idle \in ThreadStates
      BY DEF Idle, ThreadStates, Kinds
    <3>2. thread' = [thread EXCEPT ![First] = Idle]
      BY <1>1 DEF Acquire
    <3> QED BY <3>1, <3>2
  <2> QED BY <1>1, <2>1, <2>2, Zenon DEF Acquire
<1>2. CASE TxReleases
  <2>1. domain' \in Domains
    BY <1>2, DomainTypes, Zenon DEF TxReleases
  <2>2. tx' \in Nat
    BY <1>2, SMT DEF TxReleases
  <2>3. UNCHANGED <<box, thread, owner, headers, failed, published, delivered>>
    BY <1>2 DEF TxReleases
  <2> QED BY <2>1, <2>2, <2>3
<1>3. CASE DomainClose
  BY <1>3, DomainTypes DEF DomainClose
<1>4. CASE UNCHANGED vars
  BY <1>4 DEF vars
<1> QED BY <1>1, <1>2, <1>3, <1>4

\* Every step keeps the state well formed.
LEMMA TypeNext ==
  ASSUME TypeOK, Control, [Next]_vars
  PROVE  TypeOK'
BY TypeThread, TypeOwner, TypeRest DEF Next

-----------------------------------------------------------------------------
(* The mailbox, its owner and its threads                                  *)

\* A step that starts no submission and ends none, and leaves the owner alone.
LEMMA ControlFrame ==
  ASSUME Control, owner # "absent", UNCHANGED owner,
         box'.closed = box.closed, box'.in_send = box.in_send, box'.kind = box.kind,
         box'.building = box.building, box'.finished = box.finished,
         \A u \in Threads : \/ thread'[u] = thread[u]
                            \/ Builds(u) /\ Builds(u)' /\ thread'[u].kind = thread[u].kind
                                /\ thread[u].kind = "MESSAGE"
                            \/ ~Builds(u) /\ ~Builds(u)'
  PROVE  Control'
<1>1. BoxControl'
  BY DEF Control, BoxControl
<1>2. ThreadControl'
  BY DEF Control, ThreadControl, Builds
<1> QED BY <1>1, <1>2 DEF Control

\* Only threads that have the mailbox do something with it.
LEMMA ThreadPresent ==
  ASSUME TypeOK, Control, NEW t \in Threads, ThreadStep(t)
  PROVE  owner # "absent"
BY Zenon DEF ThreadStep, Control, ThreadControl, Release, ReserveBody, Publish, Wait, Wakes,
   TimesOut, Retain, Begin

\* A thread that falls asleep or wakes changes nothing but the waiters.
LEMMA SleepEffect ==
  ASSUME TypeOK, TypeOK', NEW t \in Threads, Wait(t) \/ Wakes(t) \/ TimesOut(t)
  PROVE  /\ box'.refs = box.refs /\ box'.kind = box.kind /\ box'.item = box.item
         /\ box'.closed = box.closed /\ box'.finished = box.finished
         /\ box'.initial_closed = box.initial_closed
         /\ box'.building = box.building /\ box'.in_send = box.in_send
         /\ thread[t].pc \in {"idle", "wait"} /\ thread'[t].pc \in {"idle", "wait"}
         /\ \A u \in Threads \ {t} : thread'[u] = thread[u]
         /\ UNCHANGED <<domain, owner, tx, headers, failed, published, delivered>>
<1>1. box' = box \/ \E W : box' = [box EXCEPT !.waiters = W]
  BY Zenon DEF Wait, Wakes, TimesOut
<1>2. /\ box'.refs = box.refs /\ box'.kind = box.kind /\ box'.item = box.item
      /\ box'.closed = box.closed /\ box'.finished = box.finished
      /\ box'.initial_closed = box.initial_closed
      /\ box'.building = box.building /\ box'.in_send = box.in_send
  <2>1. CASE box' = box
    BY <2>1, Zenon
  <2>2. ASSUME NEW W, box' = [box EXCEPT !.waiters = W]
        PROVE  /\ box'.refs = box.refs /\ box'.kind = box.kind /\ box'.item = box.item
               /\ box'.closed = box.closed /\ box'.finished = box.finished
               /\ box'.initial_closed = box.initial_closed
               /\ box'.building = box.building /\ box'.in_send = box.in_send
    BY <2>2 DEF TypeOK, Boxes
  <2> QED BY <1>1, <2>1, <2>2
<1>3. UNCHANGED <<domain, owner, tx, headers, failed, published, delivered>>
  BY Zenon DEF Wait, Wakes, TimesOut
<1>4. /\ thread[t].pc \in {"idle", "wait"} /\ thread'[t].pc \in {"idle", "wait"}
      /\ \A u \in Threads \ {t} : thread'[u] = thread[u]
  <2>1. CASE Wait(t)
    BY <2>1 DEF Wait, TypeOK, ThreadStates
  <2>2. CASE Wakes(t)
    BY <2>2 DEF Wakes, Idle, TypeOK, ThreadStates
  <2>3. CASE TimesOut(t)
    BY <2>3 DEF TimesOut, Idle, TypeOK, ThreadStates
  <2> QED BY <2>1, <2>2, <2>3
<1> QED BY <1>2, <1>3, <1>4

\* What begin does to the mailbox and to its thread.
LEMMA BeginEffect ==
  ASSUME TypeOK, TypeOK', NEW t \in Threads, NEW kind \in Kinds, Begin(t, kind)
  PROVE  /\ thread[t].pc = "idle" /\ thread'[t].pc \in {"reserve", "publish"}
         /\ thread'[t].pc = "reserve" <=> kind = "MESSAGE"
         /\ thread'[t].kind = kind
         /\ \A u \in Threads \ {t} : thread'[u] = thread[u]
         /\ ~box.closed /\ ~box.finished /\ box.kind = "none"
         /\ ~box.building /\ ~box.in_send
         /\ kind = "INITIAL" => ~box.initial_closed
         /\ box'.building /\ ~box'.closed /\ ~box'.finished /\ ~box'.in_send
         /\ box'.kind = "none" /\ box'.item = box.item /\ box'.refs = box.refs
         /\ box'.initial_closed = box.initial_closed /\ box'.waiters = box.waiters
         /\ UNCHANGED <<domain, owner, tx, headers, failed, published, delivered>>
<1> USE DEF TypeOK, Begin
<1>1. /\ thread[t].pc = "idle" /\ thread'[t].pc \in {"reserve", "publish"}
      /\ thread'[t].pc = "reserve" <=> kind = "MESSAGE"
      /\ thread'[t].kind = kind
      /\ \A u \in Threads \ {t} : thread'[u] = thread[u]
  OBVIOUS
<1>2. /\ ~box.closed /\ ~box.finished /\ box.kind = "none"
      /\ ~box.building /\ ~box.in_send
      /\ kind = "INITIAL" => ~box.initial_closed
  BY DEF tr_producer_begin, tr_producer_writable, Boxes
<1>3. /\ box'.building /\ box'.closed = box.closed /\ box'.finished = box.finished
      /\ box'.in_send = box.in_send
      /\ box'.kind = box.kind /\ box'.item = box.item /\ box'.refs = box.refs
      /\ box'.initial_closed = box.initial_closed /\ box'.waiters = box.waiters
  BY DEF Boxes
<1> QED BY <1>1, <1>2, <1>3

\* What publish does: a command in the mailbox, or nothing but an end of it.
LEMMA PublishEffect ==
  ASSUME TypeOK, TypeOK', Control, NEW t \in Threads, Publish(t)
  PROVE  /\ thread[t].pc \in {"publish", "undo"} /\ thread[t].kind \in Kinds
         /\ thread' = [thread EXCEPT ![t] = Idle]
         /\ ~box'.building /\ box'.closed = box.closed /\ box'.in_send = box.in_send
         /\ box'.refs = box.refs /\ box'.waiters = {}
         /\ thread[t].pc = "publish" /\ ~box.closed =>
              /\ box'.kind = thread[t].kind /\ box'.item = Len(published) + 1
              /\ box'.finished <=> box.finished \/ thread[t].kind = "FINAL"
              /\ box'.initial_closed <=> box.initial_closed \/ thread[t].kind # "FINAL"
              /\ published' = Append(published, thread[t].kind)
              /\ UNCHANGED domain
         /\ ~(thread[t].pc = "publish" /\ ~box.closed) =>
              /\ box'.kind = box.kind /\ box'.item = box.item
              /\ box'.finished = box.finished /\ box'.initial_closed = box.initial_closed
              /\ published' = published
              /\ domain' = IF thread[t].pc = "publish" /\ thread[t].kind = "MESSAGE"
                             THEN tr_producer_domain_release(domain, FALSE) ELSE domain
         /\ UNCHANGED <<owner, tx, headers, failed, delivered>>
<1> USE DEF TypeOK, Publish
<1>1. /\ thread[t].pc \in {"publish", "undo"} /\ thread[t].kind \in Kinds
      /\ thread' = [thread EXCEPT ![t] = Idle]
  BY DEF Control, ThreadControl, Builds
<1>2. CASE thread[t].pc = "publish" /\ ~box.closed
  <2>1. box' = Broadcast([box EXCEPT !.building = FALSE, !.kind = thread[t].kind,
                 !.status = "OK", !.item = Len(published) + 1,
                 !.finished = @ \/ thread[t].kind = "FINAL",
                 !.initial_closed = @ \/ thread[t].kind # "FINAL"])
    BY <1>2, Zenon DEF tr_producer_publish
  <2>2. /\ ~box'.building /\ box'.closed = box.closed /\ box'.in_send = box.in_send
        /\ box'.refs = box.refs /\ box'.waiters = {}
        /\ box'.kind = thread[t].kind /\ box'.item = Len(published) + 1
        /\ box'.finished <=> box.finished \/ thread[t].kind = "FINAL"
        /\ box'.initial_closed <=> box.initial_closed \/ thread[t].kind # "FINAL"
    BY <2>1, ZenonT(60) DEF Broadcast, Boxes
  <2>3. /\ published' = Append(published, thread[t].kind)
        /\ UNCHANGED <<domain, owner, tx, headers, failed, delivered>>
    BY <1>2
  <2> QED BY <1>1, <1>2, <2>2, <2>3, Zenon
<1>3. CASE ~(thread[t].pc = "publish" /\ ~box.closed)
  <2>1. box' = Broadcast([box EXCEPT !.building = FALSE])
    BY <1>1, <1>3, Zenon DEF tr_producer_publish
  <2>2. /\ ~box'.building /\ box'.closed = box.closed /\ box'.in_send = box.in_send
        /\ box'.refs = box.refs /\ box'.waiters = {}
        /\ box'.kind = box.kind /\ box'.item = box.item
        /\ box'.finished = box.finished /\ box'.initial_closed = box.initial_closed
    BY <2>1, Zenon DEF Broadcast, Boxes
  <2>3. /\ published' = published
        /\ domain' = IF thread[t].pc = "publish" /\ thread[t].kind = "MESSAGE"
                        THEN tr_producer_domain_release(domain, FALSE) ELSE domain
        /\ UNCHANGED <<owner, tx, headers, failed, delivered>>
    BY <1>1, <1>3, Zenon
  <2> QED BY <1>1, <1>3, <2>2, <2>3, Zenon
<1> QED BY <1>2, <1>3, Zenon

\* Begin, publish, wait, retain and release keep building, in_send, closed and
\* the command in step with who is doing what.
LEMMA ControlThread ==
  ASSUME TypeOK, TypeOK', Control, NEW t \in Threads, ThreadStep(t)
  PROVE  Control'
<1> USE ThreadPresent DEF TypeOK, Boxes, ThreadStates, Builds
<1>1. CASE Release(t)
  BY <1>1, ControlFrame DEF Release, tr_rpc_v2_producer_release, tr_rpc_record_producer_put
<1>2. CASE ReserveBody(t)
  <2>1. /\ thread[t].pc = "reserve" /\ thread'[t].pc \in {"publish", "undo"}
        /\ thread'[t].kind = thread[t].kind /\ thread[t].kind = "MESSAGE"
        /\ \A u \in Threads \ {t} : thread'[u] = thread[u]
        /\ UNCHANGED <<box, owner>>
    BY <1>2 DEF ReserveBody, Control, ThreadControl
  <2> QED BY <2>1, ControlFrame
<1>3. CASE Publish(t)
  <2>1. BoxControl'
    BY <1>3, PublishEffect, ZenonT(60) DEF Control, BoxControl, ThreadControl
  <2>2. ThreadControl'
    <3>1. /\ Builds(t) /\ thread'[t].pc = "idle"
          /\ \A u \in Threads \ {t} : thread'[u] = thread[u]
      BY <1>3 DEF Publish, Idle
    <3>2. \A u \in Threads : ~Builds(u)'
      <4>1. \A u \in Threads : Builds(u) => u = t
        BY <3>1, SMTT(30) DEF Control, ThreadControl
      <4> QED BY <3>1, <4>1, Zenon
    <3> QED BY <1>3, <3>2, PublishEffect, ZenonT(60) DEF Control, ThreadControl
  <2> QED BY <2>1, <2>2, SMTT(30) DEF Control
<1>4. CASE Wait(t) \/ Wakes(t) \/ TimesOut(t)
  <2>1. \A u \in Threads : thread'[u] = thread[u] \/ (~Builds(u) /\ ~Builds(u)')
    <3>1. /\ thread[t].pc \in {"idle", "wait"} /\ thread'[t].pc \in {"idle", "wait"}
          /\ \A u \in Threads \ {t} : thread'[u] = thread[u]
      BY <1>4, SleepEffect, Zenon
    <3>2. ~Builds(t) /\ ~Builds(t)'
      BY <3>1
    <3> QED BY <3>1, <3>2, Zenon
  <2> QED BY <1>4, <2>1, SleepEffect, ControlFrame, Zenon
<1>7. CASE \E u \in Threads : Retain(t, u)
  BY <1>7, ControlFrame DEF Retain, tr_rpc_v2_producer_retain, Idle
<1>8. CASE \E kind \in {"INITIAL", "MESSAGE", "FINAL"} : Begin(t, kind)
  <2>1. PICK kind \in Kinds : Begin(t, kind)
    BY <1>8, SMTT(30) DEF Kinds
  <2>2. BoxControl'
    BY <2>1, BeginEffect, SMTT(30) DEF Control, BoxControl
  <2>3. ThreadControl'
    <3>1. \A u \in Threads : Builds(u)' <=> u = t
      BY <2>1, BeginEffect DEF Control, ThreadControl
    <3> QED BY <2>1, <3>1, BeginEffect DEF Control, ThreadControl
  <2> QED BY <2>2, <2>3 DEF Control
<1> QED BY <1>1, <1>2, <1>3, <1>4, <1>7, <1>8, Zenon DEF ThreadStep

\* The end of an attempt to send.
LEMMA CompleteEffect ==
  ASSUME NEW p \in Boxes, NEW accepted \in BOOLEAN,
         NEW q \in Boxes, q = tr_rpc_record_producer_complete(p, accepted)
  PROVE  /\ ~q.in_send /\ q.closed = p.closed /\ q.building = p.building
         /\ q.finished = p.finished /\ q.initial_closed = p.initial_closed
         /\ q.active = p.active /\ q.refs = p.refs
         /\ accepted => q.kind = "none" /\ q.item = 0 /\ q.waiters = {}
         /\ ~accepted => q.kind = p.kind /\ q.item = p.item /\ q.status = p.status
         /\ ~accepted /\ ~p.closed => q.waiters = p.waiters
<1> USE DEF Boxes, Broadcast, Empty, tr_rpc_record_producer_complete
<1>1. CASE accepted
  <2>1. q = Broadcast([Empty(p) EXCEPT !.in_send = FALSE])
    BY <1>1, Zenon
  <2> QED BY <1>1, <2>1
<1>2. CASE ~accepted /\ p.closed
  <2>1. q = Broadcast([p EXCEPT !.in_send = FALSE])
    BY <1>2, Zenon
  <2> QED BY <1>2, <2>1, Zenon
<1>3. CASE ~accepted /\ ~p.closed
  <2>1. q = [p EXCEPT !.in_send = FALSE]
    BY <1>3, Zenon
  <2> QED BY <1>3, <2>1
<1> QED BY <1>1, <1>2, <1>3

\* The end of the mailbox for the library; in_send is over when it happens.
LEMMA CloseEffect ==
  ASSUME NEW p \in Boxes, ~p.in_send, NEW d \in Domains, CloseProducer(p, d),
         box' \in Boxes
  PROVE  /\ box'.closed /\ ~box'.in_send /\ box'.building = p.building
         /\ box'.finished = p.finished /\ box'.initial_closed = p.initial_closed
         /\ box'.refs = p.refs - 1
         /\ box'.kind = "none" /\ box'.item = 0 /\ box'.waiters = {}
         /\ owner' = "gone" /\ domain' = Freed(box', Dropped(p, d))
<1>1. box' = [Empty(Broadcast([p EXCEPT !.closed = TRUE, !.active = FALSE]))
                EXCEPT !.refs = @ - 1]
  BY Zenon DEF CloseProducer, tr_rpc_record_producer_close, tr_rpc_record_producer_put
<1>2. owner' = "gone" /\ domain' = Freed(box', Dropped(p, d))
  BY DEF CloseProducer
<1> QED BY <1>1, <1>2 DEF Boxes, Empty, Broadcast

\* The steps of the owner, by what becomes of the command in the mailbox:
\* it stays (kept), it has been sent (cleared), the mailbox closes, or an
\* INTERNAL FINAL replaces it.
Kept ==
  /\ box'.kind = box.kind /\ box'.item = box.item
  /\ box'.closed = box.closed /\ box'.finished = box.finished
  /\ box'.initial_closed = box.initial_closed
  /\ box'.building = box.building /\ box'.refs = box.refs
  /\ UNCHANGED <<domain, thread, failed, published>>

Cleared ==
  /\ box'.kind = "none" /\ box'.item = 0 /\ box'.waiters = {}
  /\ ~box'.in_send
  /\ box'.closed = box.closed /\ box'.finished = box.finished
  /\ box'.initial_closed = box.initial_closed
  /\ box'.building = box.building /\ box'.refs = box.refs
  /\ UNCHANGED <<domain, thread, failed, published>>

Closes(kind) ==
  /\ box'.closed /\ ~box'.in_send /\ box'.building = box.building
  /\ box'.finished = box.finished /\ box'.initial_closed = box.initial_closed
  /\ box'.refs = box.refs - 1
  /\ box'.kind = "none" /\ box'.item = 0 /\ box'.waiters = {}
  /\ owner' = "gone"
  /\ domain' = Freed(box', IF kind = "MESSAGE" THEN tr_producer_domain_release(domain, FALSE)
                           ELSE domain)
  /\ UNCHANGED <<thread, failed, published>>

Replaced ==
  /\ box'.kind = "FINAL" /\ box'.item = 0 /\ box'.waiters = {}
  /\ box'.finished /\ ~box'.in_send
  /\ ~box.building /\ ~box.closed
  /\ box'.closed = box.closed
  /\ box'.initial_closed = box.initial_closed
  /\ box'.building = box.building /\ box'.refs = box.refs
  /\ domain' = Dropped(box, domain) /\ owner' = "idle" /\ failed'
  /\ UNCHANGED <<thread, published>>

\* One lemma for each step of the owner.
LEMMA ActivateEffect ==
  ASSUME TypeOK, TypeOK', Control, Activate
  PROVE  /\ Kept /\ owner = "staged" /\ owner' = "idle"
         /\ box'.in_send = box.in_send /\ box'.waiters = {} /\ ~box.in_send
         /\ UNCHANGED <<tx, headers, delivered>>
BY DEF TypeOK, Boxes, Activate, Kept, tr_rpc_record_producer_activate, Broadcast, Control,
   BoxControl

\* Take borrows a command that is there and that nobody is building.
LEMMA TakeEffect ==
  ASSUME TypeOK, TypeOK', Take
  PROVE  /\ Kept /\ owner = "idle" /\ owner' = "sending"
         /\ box'.in_send /\ box'.waiters = box.waiters
         /\ box.kind # "none" /\ ~box.building
         /\ UNCHANGED <<tx, headers, delivered>>
BY DEF TypeOK, Boxes, Take, Kept, tr_rpc_record_producer_take

\* A refused attempt leaves the command for the next one.
LEMMA RefusedEffect ==
  ASSUME TypeOK, TypeOK', Control, Refused
  PROVE  /\ Kept /\ owner = "sending" /\ owner' = "idle"
         /\ ~box'.in_send /\ box'.waiters = box.waiters
         /\ UNCHANGED <<tx, headers, delivered>>
<1>1. ~box.closed /\ owner = "sending"
  BY DEF Refused, Control, BoxControl
<1> QED BY <1>1, CompleteEffect, ZenonT(60) DEF TypeOK, Refused, Kept

\* An accepted attempt adds one record: the command itself, or the INITIAL
\* that goes before it, or the FINAL that closes the mailbox.
LEMMA AcceptedEffect ==
  ASSUME TypeOK, TypeOK', Control, Accepted
  PROVE  /\ owner = "sending" /\ Sent \in Kinds
         /\ delivered' = Append(delivered,
              [kind |-> Sent, item |-> IF Sent = box.kind THEN box.item ELSE 0])
         /\ headers' <=> headers \/ Sent = "INITIAL"
         /\ tx' = IF Sent = "MESSAGE" THEN tx + 1 ELSE tx
         /\ \/ /\ Sent = box.kind /\ Sent # "FINAL" /\ Cleared /\ owner' = "idle"
            \/ /\ Sent = "INITIAL" /\ box.kind = "MESSAGE" /\ ~headers
               /\ Kept /\ owner' = "idle"
               /\ ~box'.in_send /\ box'.waiters = box.waiters
            \/ /\ Sent = "FINAL" /\ box.kind = "FINAL" /\ Closes("none")
<1> DEFINE p == tr_rpc_record_producer_complete(box, Sent = box.kind)
<1>1. ~box.closed /\ owner = "sending" /\ box.kind # "none"
  BY DEF Accepted, Control, BoxControl
<1>2. Sent \in Kinds
  BY <1>1 DEF Sent, TypeOK, Boxes, Kinds
<1>3. p \in Boxes
  BY BoxTypes, Zenon DEF TypeOK
<1>4. /\ delivered' = Append(delivered,
           [kind |-> Sent, item |-> IF Sent = box.kind THEN box.item ELSE 0])
      /\ headers' <=> headers \/ Sent = "INITIAL"
      /\ tx' = IF Sent = "MESSAGE" THEN tx + 1 ELSE tx
  BY Zenon DEF Accepted, TypeOK
<1>5. UNCHANGED <<thread, failed, published>>
  BY DEF Accepted
<1>6. CASE Sent = box.kind /\ Sent # "FINAL"
  <2>1. box' = p /\ owner' = "idle" /\ UNCHANGED domain
    BY <1>6 DEF Accepted
  <2>2. Cleared
    <3>1. box' = tr_rpc_record_producer_complete(box, TRUE)
      BY <1>6, <2>1, Zenon
    <3> QED BY <1>5, <2>1, <3>1, CompleteEffect, ZenonT(60) DEF TypeOK, Cleared
  <2> QED BY <1>1, <1>2, <1>4, <1>6, <2>1, <2>2
<1>7. CASE Sent # box.kind
  <2>1. Sent = "INITIAL" /\ box.kind = "MESSAGE" /\ ~headers
    BY <1>7 DEF Sent
  <2>2. box' = p /\ owner' = "idle" /\ UNCHANGED domain
    BY <2>1 DEF Accepted
  <2>3. Kept /\ ~box'.in_send /\ box'.waiters = box.waiters
    <3>1. box' = tr_rpc_record_producer_complete(box, FALSE)
      BY <1>7, <2>2, Zenon
    <3> QED BY <1>1, <1>5, <2>2, <3>1, CompleteEffect, ZenonT(60) DEF TypeOK, Kept
  <2> QED BY <1>1, <1>2, <1>4, <2>1, <2>2, <2>3
<1>8. CASE Sent = "FINAL" /\ Sent = box.kind
  <2>1. CloseProducer(p, domain)
    BY <1>8 DEF Accepted
  <2>2. /\ ~p.in_send /\ p.building = box.building /\ p.finished = box.finished
        /\ p.initial_closed = box.initial_closed /\ p.refs = box.refs /\ p.kind = "none"
    <3>1. p = tr_rpc_record_producer_complete(box, TRUE)
      BY <1>8, Zenon
    <3>2. \A q \in Boxes : q = tr_rpc_record_producer_complete(box, TRUE) =>
            /\ ~q.in_send /\ q.building = box.building /\ q.finished = box.finished
            /\ q.initial_closed = box.initial_closed /\ q.refs = box.refs
            /\ q.kind = "none"
      BY CompleteEffect, ZenonT(60) DEF TypeOK
    <3> QED BY <1>3, <3>1, <3>2, Zenon
  <2>3. Dropped(p, domain) = domain
    BY <2>2, Zenon DEF Dropped
  <2>4. Closes("none")
    BY <1>3, <1>5, <2>1, <2>2, <2>3, CloseEffect DEF Closes, TypeOK
  <2> QED BY <1>1, <1>2, <1>4, <1>8, <2>4
<1> QED BY <1>6, <1>7, <1>8

\* A record that does not fit closes the mailbox or becomes an INTERNAL FINAL.
LEMMA MisfitEffect ==
  ASSUME TypeOK, TypeOK', Control, Misfit
  PROVE  /\ owner = "sending" /\ UNCHANGED <<tx, headers, delivered>>
         /\ Closes(box.kind) \/ Replaced
<1> DEFINE p == tr_rpc_record_producer_complete(box, FALSE)
           f == tr_rpc_record_producer_fail(p, "INTERNAL")
<1>1. owner = "sending" /\ UNCHANGED <<thread, tx, headers, published, delivered>>
  BY DEF Misfit
<1>2. p \in Boxes
  BY BoxTypes, Zenon DEF TypeOK
<1>3. /\ ~p.in_send /\ p.building = box.building /\ p.finished = box.finished
      /\ p.initial_closed = box.initial_closed /\ p.refs = box.refs
      /\ p.kind = box.kind /\ p.closed = box.closed
  BY <1>2, CompleteEffect, ZenonT(60) DEF TypeOK
<1>4. CASE CloseProducer(p, domain) /\ UNCHANGED failed
  BY <1>1, <1>2, <1>3, <1>4, CloseEffect, Zenon DEF Closes, TypeOK, Dropped
<1>5. CASE ~(CloseProducer(p, domain) /\ UNCHANGED failed)
  <2>1. /\ f.ret = "OK" /\ box' = f.p /\ domain' = Dropped(p, domain)
        /\ owner' = "idle" /\ failed' = TRUE
    BY <1>5, Zenon DEF Misfit
  <2>2. ~p.closed /\ ~p.building
    BY <2>1, <1>2, Zenon DEF tr_rpc_record_producer_fail, Boxes
  <2>3. box' = Broadcast([p EXCEPT !.kind = "FINAL", !.status = "INTERNAL",
                                   !.item = 0, !.finished = TRUE])
    BY <2>1, <2>2, <1>3, Zenon DEF tr_rpc_record_producer_fail
  <2>4. /\ box'.kind = "FINAL" /\ box'.item = 0 /\ box'.waiters = {}
        /\ box'.finished /\ box'.in_send = p.in_send /\ box'.closed = p.closed
        /\ box'.initial_closed = p.initial_closed
        /\ box'.building = p.building /\ box'.refs = p.refs
    BY <2>3, <1>2 DEF Broadcast, Boxes, TypeOK
  <2> QED BY <1>1, <1>3, <2>1, <2>2, <2>4, Zenon DEF Replaced, Dropped
<1> QED BY <1>4, <1>5, Zenon

\* The end of the call closes the mailbox.
LEMMA TerminateEffect ==
  ASSUME TypeOK, TypeOK', Control, Terminate
  PROVE  /\ owner \in {"staged", "idle"} /\ UNCHANGED <<tx, headers, delivered>>
         /\ Closes(box.kind)
<1>1. ~box.in_send
  BY DEF Terminate, Control, BoxControl
<1> QED BY <1>1, CloseEffect, Zenon DEF Terminate, Closes, TypeOK, Dropped

\* So do activate, take, complete, fail and close.
LEMMA ControlOwner ==
  ASSUME TypeOK, TypeOK', Control, OwnerStep
  PROVE  Control'
<1>1. UNCHANGED thread /\ box'.building = box.building /\ owner' # "absent"
  BY ActivateEffect, TakeEffect, RefusedEffect, AcceptedEffect, MisfitEffect,
     TerminateEffect, Zenon DEF OwnerStep, Kept, Cleared, Closes, Replaced
<1>2. ThreadControl'
  BY <1>1, SMTT(30) DEF Control, ThreadControl, Builds
<1>3. BoxControl'
  <2> USE DEF Control, BoxControl, TypeOK, Boxes, Kept, Cleared, Closes, Replaced
  <2>1. CASE Activate
    BY <2>1, ActivateEffect, Zenon
  <2>2. CASE Take
    BY <2>2, TakeEffect, Zenon
  <2>3. CASE Accepted
    BY <2>3, AcceptedEffect, Zenon
  <2>4. CASE Refused
    BY <2>4, RefusedEffect, Zenon
  <2>5. CASE Misfit
    BY <2>5, MisfitEffect, Zenon
  <2>6. CASE Terminate
    BY <2>6, TerminateEffect, Zenon
  <2> QED BY <2>1, <2>2, <2>3, <2>4, <2>5, <2>6, SMTT(30) DEF OwnerStep
<1> QED BY <1>2, <1>3 DEF Control

\* What acquiring the mailbox makes of it.
LEMMA AcquireEffect ==
  ASSUME TypeOK, TypeOK', Acquire
  PROVE  /\ owner = "absent" /\ owner' = "staged"
         /\ ~box'.closed /\ ~box'.in_send /\ ~box'.building /\ ~box'.finished
         /\ box'.kind = "none" /\ box'.item = 0 /\ box'.refs = 2 /\ box'.waiters = {}
         /\ thread' = [thread EXCEPT ![First] = Idle]
         /\ ~domain.closed /\ domain' = DomainReserve(domain, TRUE)
         /\ UNCHANGED <<tx, headers, failed, published, delivered>>
<1>1. /\ ~box'.closed /\ ~box'.in_send /\ ~box'.building /\ ~box'.finished
      /\ box'.kind = "none" /\ box'.item = 0 /\ box'.refs = 2 /\ box'.waiters = {}
  BY DEF Acquire, tr_rpc_record_producer_create, TypeOK, Boxes
<1>2. ~domain.closed
  BY DEF Acquire, tr_producer_domain_reserve, TypeOK, Domains
<1> QED BY <1>1, <1>2 DEF Acquire

\* Acquire starts with an empty mailbox; the others do not touch it.
LEMMA ControlRest ==
  ASSUME TypeOK, TypeOK', Control, Acquire \/ TxReleases \/ DomainClose \/ UNCHANGED vars
  PROVE  Control'
<1>1. CASE Acquire
  <2>1. BoxControl'
    BY <1>1, AcquireEffect, SMTT(30) DEF Control, BoxControl
  <2>2. \A t \in Threads : thread[t].pc = "away" /\ ~Builds(t)'
    <3>1. owner = "absent" /\ thread' = [thread EXCEPT ![First] = Idle]
      BY <1>1 DEF Acquire
    <3>2. \A t \in Threads : thread[t].pc = "away"
      BY <3>1, SMTT(30) DEF Control, ThreadControl
    <3> QED BY <3>1, <3>2 DEF Builds, Idle, TypeOK
  <2>3. ThreadControl'
    BY <1>1, <2>2, AcquireEffect DEF ThreadControl, Builds
  <2> QED BY <2>1, <2>3 DEF Control
<1>2. CASE UNCHANGED <<box, thread, owner, published, delivered>>
  BY <1>2 DEF Control, BoxControl, ThreadControl, Builds
<1> QED BY <1>1, <1>2, Zenon DEF TxReleases, DomainClose, vars

\* Every step keeps the mailbox in step with its owner and its threads.
LEMMA ControlNext ==
  ASSUME TypeOK, TypeOK', Control, [Next]_vars
  PROVE  Control'
BY ControlThread, ControlOwner, ControlRest DEF Next

-----------------------------------------------------------------------------
(* Sleepers                                                                *)

\* Whoever makes the predicate of wait_writable false empties the waiters.
LEMMA SleeperNext ==
  ASSUME TypeOK, TypeOK', Control, NoSleeperForgotten, [Next]_vars
  PROVE  NoSleeperForgotten'
<1> USE DEF NoSleeperForgotten
<1> DEFINE SameBlock == /\ box'.kind = box.kind /\ box'.closed = box.closed
                        /\ box'.finished = box.finished /\ box'.building = box.building
                        /\ box'.in_send = box.in_send /\ box'.active = box.active
<1>1. ASSUME SameBlock PROVE Blocked(box') <=> Blocked(box)
  BY <1>1, SMTT(30) DEF TypeOK, Boxes, Blocked, tr_producer_writable
<1>2. CASE \E t \in Threads : ThreadStep(t)
  <2>1. PICK t \in Threads : ThreadStep(t)
    BY <1>2, SMTT(30)
  <2>2. CASE Release(t)
    <3>1. SameBlock /\ box'.waiters = box.waiters
      BY <2>2 DEF TypeOK, Boxes, Release, tr_rpc_v2_producer_release,
         tr_rpc_record_producer_put
    <3> QED BY <3>1, <1>1
  <2>3. CASE ReserveBody(t)
    BY <2>3, SMTT(30) DEF ReserveBody
  <2>4. CASE Publish(t)
    BY <2>4, PublishEffect, Zenon
  <2>5. CASE Wait(t) \/ Wakes(t)
    <3>1. \/ UNCHANGED box
          \/ SameBlock /\ Blocked(box)
      BY <2>5 DEF TypeOK, Boxes, Wait, Wakes
    <3> QED BY <3>1, <1>1
  <2>6. CASE TimesOut(t)
    <3>1. SameBlock /\ (box'.waiters # {} => box.waiters # {})
      BY <2>6 DEF TypeOK, Boxes, TimesOut
    <3> QED BY <3>1, <1>1
  <2>7. CASE \E u \in Threads : Retain(t, u)
    <3>1. SameBlock /\ box'.waiters = box.waiters
      BY <2>7 DEF TypeOK, Boxes, Retain, tr_rpc_v2_producer_retain
    <3> QED BY <3>1, <1>1
  <2>8. CASE \E kind \in {"INITIAL", "MESSAGE", "FINAL"} : Begin(t, kind)
    <3>1. ~box'.closed /\ ~box'.finished /\ box'.building
      BY <2>8, BeginEffect, SMTT(30) DEF Kinds
    <3> QED BY <3>1, SMTT(30) DEF TypeOK, Boxes, Blocked, tr_producer_writable
  <2> QED BY <2>1, <2>2, <2>3, <2>4, <2>5, <2>6, <2>7, <2>8 DEF ThreadStep
<1>3. CASE OwnerStep
  <2>1. CASE Activate
    BY <2>1, ActivateEffect
  <2>2. CASE Take
    <3>1. /\ box'.in_send /\ box'.closed = box.closed /\ box'.finished = box.finished
          /\ box'.waiters = box.waiters
      BY <2>2, TakeEffect DEF Kept
    <3> QED BY <3>1 DEF TypeOK, Boxes, Blocked, tr_producer_writable
  <2>3. CASE Accepted
    <3>1. \/ box'.waiters = {}
          \/ /\ box'.closed = box.closed /\ box'.finished = box.finished
             /\ box'.waiters = box.waiters /\ box'.kind # "none"
      BY <2>3, AcceptedEffect DEF Kept, Cleared, Closes
    <3> QED BY <3>1, SMTT(30) DEF TypeOK, Boxes, Blocked, tr_producer_writable
  <2>4. CASE Refused
    <3>1. /\ box'.closed = box.closed /\ box'.finished = box.finished
          /\ box'.waiters = box.waiters /\ box'.kind # "none"
      BY <2>4, RefusedEffect DEF Kept, Control, BoxControl
    <3> QED BY <3>1, SMTT(30) DEF TypeOK, Boxes, Blocked, tr_producer_writable
  <2>5. CASE Misfit
    BY <2>5, MisfitEffect, Zenon DEF Closes, Replaced
  <2>6. CASE Terminate
    BY <2>6, TerminateEffect, SMTT(30) DEF Closes
  <2> QED BY <1>3, <2>1, <2>2, <2>3, <2>4, <2>5, <2>6 DEF OwnerStep
<1>4. CASE Acquire
  BY <1>4, AcquireEffect
<1>5. CASE TxReleases \/ DomainClose \/ UNCHANGED vars
  BY <1>5, Zenon DEF TxReleases, DomainClose, vars
<1> QED BY <1>2, <1>3, <1>4, <1>5 DEF Next

-----------------------------------------------------------------------------
(* References and charges                                                  *)

\* Counting in a set of threads.
LEMMA Counting ==
  ASSUME NEW S \in SUBSET Threads, NEW t \in Threads
  PROVE  /\ Cardinality(S) \in Nat
         /\ t \notin S => Cardinality(S \cup {t}) = Cardinality(S) + 1
         /\ t \in S => Cardinality(S \ {t}) = Cardinality(S) - 1 /\ Cardinality(S) > 0
<1>1. IsFiniteSet(S)
  BY FS_Subset
<1>2. Cardinality(S) \in Nat /\ Cardinality(S \ {t}) \in Nat
  BY <1>1, FS_CardinalityType, FS_RemoveElement
<1>3. t \notin S => Cardinality(S \cup {t}) = Cardinality(S) + 1
  BY <1>1, FS_AddElement
<1>4. t \in S => Cardinality(S \ {t}) = Cardinality(S) - 1
  BY <1>1, FS_RemoveElement, Zenon
<1> QED BY <1>2, <1>3, <1>4

\* What a release, and the end of the struct, give back.
LEMMA ReleaseFields ==
  ASSUME NEW d \in Domains, NEW lease \in BOOLEAN, NEW e \in Domains,
         e = tr_producer_domain_release(d, lease)
  PROVE  /\ e.closed = d.closed /\ e.refs = d.refs - 1 /\ e.current = d.current - 1
         /\ e.upstream = IF d.closed THEN d.upstream ELSE d.upstream - 1
         /\ e.leases = IF lease THEN d.leases - 1 ELSE d.leases
BY DEF Domains, tr_producer_domain_release

\* What a reservation charges.
LEMMA ReserveFields ==
  ASSUME NEW d \in Domains, NEW lease \in BOOLEAN, NEW e \in Domains,
         e = DomainReserve(d, lease)
  PROVE  /\ e.closed = d.closed /\ e.refs = d.refs + 1 /\ e.current = d.current + 1
         /\ e.upstream = d.upstream + 1
         /\ e.leases = IF lease THEN d.leases + 1 ELSE d.leases
BY DEF Domains, DomainReserve

\* A body or a lease more, or less, in what the domain pays for.
LEMMA PaysBody ==
  ASSUME NEW d \in Domains, NEW n \in Nat, NEW m \in Int, Pays(d, n, m)
  PROVE  /\ Pays(tr_producer_domain_release(d, FALSE), n - 1, m)
         /\ Pays(tr_producer_domain_release(d, TRUE), n, m - 1)
         /\ ~d.closed => Pays(DomainReserve(d, FALSE), n + 1, m)
         /\ ~d.closed => Pays(DomainReserve(d, TRUE), n, m + 1)
<1>1. /\ tr_producer_domain_release(d, FALSE) \in Domains
      /\ tr_producer_domain_release(d, TRUE) \in Domains
      /\ DomainReserve(d, FALSE) \in Domains /\ DomainReserve(d, TRUE) \in Domains
  BY DomainTypes, Zenon
<1>2. ASSUME NEW e \in Domains, e = tr_producer_domain_release(d, FALSE)
      PROVE  Pays(e, n - 1, m)
  <2>1. /\ e.closed = d.closed /\ e.refs = d.refs - 1 /\ e.current = d.current - 1
        /\ e.upstream = IF d.closed THEN d.upstream ELSE d.upstream - 1
        /\ e.leases = d.leases
    BY <1>2, ReleaseFields, Zenon
  <2> QED BY <2>1 DEF Pays, Domains
<1>3. ASSUME NEW e \in Domains, e = tr_producer_domain_release(d, TRUE)
      PROVE  Pays(e, n, m - 1)
  <2>1. /\ e.closed = d.closed /\ e.refs = d.refs - 1 /\ e.current = d.current - 1
        /\ e.upstream = IF d.closed THEN d.upstream ELSE d.upstream - 1
        /\ e.leases = d.leases - 1
    BY <1>3, ReleaseFields, Zenon
  <2> QED BY <2>1 DEF Pays, Domains
<1>4. ASSUME ~d.closed, NEW e \in Domains, e = DomainReserve(d, FALSE)
      PROVE  Pays(e, n + 1, m)
  <2>1. /\ ~e.closed /\ e.refs = d.refs + 1 /\ e.current = d.current + 1
        /\ e.upstream = d.upstream + 1
        /\ e.leases = d.leases
    BY <1>4, ReserveFields, ZenonT(60)
  <2>2. d.upstream = d.current /\ d.refs = n + m + 1 /\ d.current = 1 + n + m /\ d.leases = m
    BY <1>4 DEF Pays
  <2> QED BY <2>1, <2>2 DEF Pays, Domains
<1>5. ASSUME ~d.closed, NEW e \in Domains, e = DomainReserve(d, TRUE)
      PROVE  Pays(e, n, m + 1)
  <2>1. /\ ~e.closed /\ e.refs = d.refs + 1 /\ e.current = d.current + 1
        /\ e.upstream = d.upstream + 1
        /\ e.leases = d.leases + 1
    BY <1>5, ReserveFields, Zenon
  <2>2. d.upstream = d.current /\ d.refs = n + m + 1 /\ d.current = 1 + n + m /\ d.leases = m
    BY <1>5 DEF Pays
  <2> QED BY <2>1, <2>2 DEF Pays, Domains
<1> QED BY <1>1, <1>2, <1>3, <1>4, <1>5, Zenon

\* The last reference gives up the lease; a closed domain has returned
\* everything upstream and goes on counting by itself.
LEMMA PaysEnd ==
  ASSUME NEW d \in Domains, NEW n \in Nat, NEW m \in Int, Pays(d, n, m), NEW p
  PROVE  /\ Pays(Freed(p, d), n, IF p.refs = 0 THEN m - 1 ELSE m)
         /\ ~d.closed => Pays(tr_rpc_record_producer_domain_close(d), n, m)
<1>1. Pays(Freed(p, d), n, IF p.refs = 0 THEN m - 1 ELSE m)
  BY PaysBody, Zenon DEF Freed
<1>2. ASSUME ~d.closed, NEW e \in Domains, e = tr_rpc_record_producer_domain_close(d)
      PROVE  Pays(e, n, m)
  <2>1. /\ e.closed /\ e.refs = d.refs - 1 /\ e.current = d.current
        /\ e.upstream = 0 /\ e.leases = d.leases
    BY <1>2 DEF tr_rpc_record_producer_domain_close, Domains
  <2>2. d.refs = n + m + 1 /\ d.current = 1 + n + m /\ d.leases = m
    BY <1>2 DEF Pays
  <2> QED BY <2>1, <2>2 DEF Pays, Domains
<1>3. tr_rpc_record_producer_domain_close(d) \in Domains
  BY DomainTypes, Zenon
<1> QED BY <1>1, <1>2, <1>3, Zenon

\* A message in the mailbox, in units.
Held(kind) == IF kind = "MESSAGE" THEN 1 ELSE 0

\* The bodies are those of the transport, of the mailbox and of the threads.
LEMMA BodyCount ==
  ASSUME TypeOK
  PROVE  /\ Bodies = tx + Held(box.kind) + Cardinality(Carriers) /\ Bodies \in Nat
         /\ Cardinality(Carriers) \in Nat /\ Cardinality(Users) \in Nat
<1>1. Carriers \in SUBSET Threads /\ Users \in SUBSET Threads
  BY DEF Carriers, Users
<1>2. Cardinality(Carriers) \in Nat /\ Cardinality(Users) \in Nat
  BY <1>1, Counting, Zenon
<1>3. Bodies = tx + Held(box.kind) + Cardinality(Carriers)
  BY DEF Bodies, Held, Carriers
<1> QED BY <1>2, <1>3, SMTT(30) DEF TypeOK, Held

\* A step that moves no reference and no body.
LEMMA LedgerFrame ==
  ASSUME Ledger, UNCHANGED <<domain, tx, owner>>,
         box'.refs = box.refs, Held(box'.kind) = Held(box.kind),
         Users' = Users, Carriers' = Carriers, TypeOK, TypeOK'
  PROVE  Ledger'
<1>1. Bodies' = Bodies
  BY Zenon DEF Bodies, Held, Carriers
<1>2. Alive' = Alive
  BY DEF Alive
<1> QED BY <1>1, <1>2 DEF Ledger, References

\* No step of a thread loses or duplicates a reference or a charge: release,
\* the domain's reserve, publish (which returns the body it may not submit).
LEMMA LedgerThread ==
  ASSUME TypeOK, TypeOK', Control, Ledger, NEW t \in Threads, ThreadStep(t)
  PROVE  Ledger'
<1>0. /\ Bodies = tx + Held(box.kind) + Cardinality(Carriers) /\ Bodies \in Nat
      /\ Bodies' = tx' + Held(box'.kind) + Cardinality(Carriers')
      /\ Cardinality(Carriers) \in Nat /\ Cardinality(Users) \in Nat
  BY BodyCount DEF Bodies, Held, Carriers
<1>a. Users \in SUBSET Threads /\ Carriers \in SUBSET Threads /\ owner # "absent"
  BY ThreadPresent DEF Users, Carriers
<1>b. box.refs \in Int /\ tx \in Nat /\ domain \in Domains
  BY DEF TypeOK, Boxes
<1>c. /\ Pays(domain, Bodies, IF Alive THEN 1 ELSE 0)
      /\ (IF Alive THEN 1 ELSE 0) \in Int
  BY DEF Ledger
<1>1. CASE Release(t)
  <2>1. /\ box'.refs = box.refs - 1 /\ box'.kind = box.kind
        /\ UNCHANGED <<tx, owner>> /\ domain' = Freed(box', domain)
    BY <1>1, SMTT(30) DEF Release, tr_rpc_v2_producer_release,
       tr_rpc_record_producer_put, TypeOK, Boxes
  <2>2. t \in Users /\ Users' = Users \ {t} /\ Carriers' = Carriers
    BY <1>1 DEF Release, Users, Using, Carriers, TypeOK
  <2>3. Cardinality(Users') = Cardinality(Users) - 1 /\ Cardinality(Users) > 0
    BY <1>a, <2>2, Counting, SMTT(30)
  <2>4. References'
    BY <1>0, <1>a, <2>1, <2>3, SMTT(30) DEF Ledger, References
  <2>5. Alive /\ (Alive' <=> box'.refs # 0)
    BY <1>0, <1>a, <1>b, <2>1, <2>3 DEF Ledger, References, Alive
  <2>6. Bodies' = Bodies
    BY <1>0, <2>1, <2>2, SMTT(30)
  <2>7. Pays(Freed(box', domain), Bodies, IF box'.refs = 0 THEN 1 - 1 ELSE 1)
    BY <1>0, <1>b, <2>5, PaysEnd, SMTT(30) DEF Ledger
  <2>8. Pays(domain', Bodies', IF Alive' THEN 1 ELSE 0)
    BY <2>1, <2>5, <2>6, <2>7
  <2> QED BY <2>4, <2>8 DEF Ledger
<1>2. CASE ReserveBody(t)
  <2>1. /\ UNCHANGED <<box, owner, tx>> /\ thread[t].kind = "MESSAGE"
        /\ thread[t].pc = "reserve"
        /\ \A u \in Threads \ {t} : thread'[u] = thread[u]
        /\ thread'[t].kind = "MESSAGE"
    BY <1>2 DEF ReserveBody, Control, ThreadControl, TypeOK, ThreadStates
  <2>2. CASE tr_producer_domain_reserve(domain, FALSE) = "OK"
    <3>1. ~domain.closed /\ domain' = DomainReserve(domain, FALSE) /\ thread'[t].pc = "publish"
      BY <1>2, <2>2, ZenonT(60) DEF ReserveBody, tr_producer_domain_reserve,
         TypeOK, ThreadStates
    <3>2. Users' = Users /\ t \notin Carriers /\ Carriers' = Carriers \cup {t}
      BY <2>1, <3>1 DEF Users, Using, Carriers
    <3>3. Bodies' = Bodies + 1
      BY <1>0, <1>a, <1>b, <2>1, <3>2, Counting DEF Held
    <3>4. Alive' = Alive /\ References'
      BY <2>1, <3>2, SMTT(30) DEF Alive, Ledger, References
    <3>5. Pays(DomainReserve(domain, FALSE), Bodies + 1, IF Alive THEN 1 ELSE 0)
      BY <1>0, <1>b, <1>c, <3>1, PaysBody, Zenon
    <3> QED BY <3>1, <3>3, <3>4, <3>5, Zenon DEF Ledger
  <2>3. CASE tr_producer_domain_reserve(domain, FALSE) # "OK"
    <3>1. domain' = domain /\ thread'[t].pc = "undo"
      BY <1>2, <2>3 DEF ReserveBody, TypeOK, ThreadStates
    <3>2. Users' = Users /\ Carriers' = Carriers
      BY <2>1, <3>1 DEF Users, Using, Carriers
    <3> QED BY <2>1, <3>1, <3>2, LedgerFrame
  <2> QED BY <2>2, <2>3, Zenon
<1>3. CASE Publish(t)
  <2>1. /\ UNCHANGED <<owner, tx>> /\ box'.refs = box.refs
        /\ thread[t].pc \in {"publish", "undo"}
        /\ thread'[t].pc = "idle"
        /\ \A u \in Threads \ {t} : thread'[u] = thread[u]
    <3>1. /\ UNCHANGED <<owner, tx>> /\ box'.refs = box.refs
          /\ thread[t].pc \in {"publish", "undo"} /\ thread' = [thread EXCEPT ![t] = Idle]
      BY <1>3, PublishEffect, ZenonT(60)
    <3> QED BY <3>1, SMTT(30) DEF TypeOK, Idle
  <2>2. Users' = Users
    BY <2>1, SMTT(30) DEF Users, Using
  <2>3. Alive' = Alive /\ References'
    <3>1. Alive' = Alive
      BY <2>1 DEF Alive
    <3>2. References'
      BY <2>1, <2>2 DEF Ledger, References
    <3> QED BY <3>1, <3>2
  <2>4. box.kind = "none"
    BY <2>1 DEF Control, BoxControl, ThreadControl, Builds
  <2>5. CASE t \in Carriers
    <3>1. Carriers' = Carriers \ {t}
      BY <2>1, <2>5 DEF Carriers
    <3>2. Cardinality(Carriers') = Cardinality(Carriers) - 1
      BY <1>a, <2>5, <3>1, Counting
    <3>3. CASE box.closed
      <4>1. box'.kind = "none" /\ domain' = tr_producer_domain_release(domain, FALSE)
        BY <1>3, <2>4, <2>5, <3>3, PublishEffect, Zenon DEF Carriers
      <4>2. Bodies' = Bodies - 1
        BY <1>0, <1>b, <2>1, <2>4, <3>2, <4>1 DEF Held
      <4>3. Pays(tr_producer_domain_release(domain, FALSE), Bodies - 1, IF Alive THEN 1 ELSE 0)
        BY <1>0, <1>b, <1>c, PaysBody, Zenon
      <4> QED BY <2>3, <4>1, <4>2, <4>3, Zenon DEF Ledger
    <3>4. CASE ~box.closed
      <4>1. box'.kind = "MESSAGE" /\ domain' = domain
        BY <1>3, <2>5, <3>4, PublishEffect, Zenon DEF Carriers
      <4>2. Bodies' = Bodies
        BY <1>0, <1>b, <2>1, <2>4, <3>2, <4>1, SMTT(30) DEF Held
      <4> QED BY <2>3, <4>1, <4>2 DEF Ledger
    <3> QED BY <3>3, <3>4, SMTT(30)
  <2>6. CASE t \notin Carriers
    <3>1. Carriers' = Carriers
      BY <2>1, <2>6, SMTT(30) DEF Carriers
    <3>2. box'.kind # "MESSAGE" /\ domain' = domain
      BY <1>3, <2>4, <2>6, PublishEffect, Zenon DEF Carriers
    <3> QED BY <2>1, <2>2, <2>4, <3>1, <3>2, LedgerFrame DEF Held
  <2> QED BY <2>5, <2>6, SMTT(30)
<1>4. CASE Wait(t) \/ Wakes(t) \/ TimesOut(t)
  <2>1. /\ UNCHANGED <<owner, tx, domain>> /\ box'.refs = box.refs /\ box'.kind = box.kind
    BY <1>4, SleepEffect, Zenon
  <2>2. Users' = Users /\ Carriers' = Carriers
    <3>1. /\ thread[t].pc \in {"idle", "wait"} /\ thread'[t].pc \in {"idle", "wait"}
          /\ \A u \in Threads \ {t} : thread'[u] = thread[u]
      BY <1>4, SleepEffect, Zenon
    <3>2. \A u \in Threads : /\ Using(u)' <=> Using(u)
                             /\ u \in Carriers' <=> u \in Carriers
      BY <3>1, SMTT(30) DEF Using, Carriers
    <3> QED BY <3>2, SMTT(30) DEF Users, Carriers
  <2> QED BY <2>1, <2>2, LedgerFrame
<1>5. CASE \E u \in Threads : Retain(t, u)
  <2>1. PICK u \in Threads : Retain(t, u)
    BY <1>5
  <2>2. /\ UNCHANGED <<owner, tx, domain>> /\ box'.refs = box.refs + 1 /\ box'.kind = box.kind
    BY <2>1, SMTT(30) DEF Retain, tr_rpc_v2_producer_retain, TypeOK, Boxes
  <2>3. t \in Users /\ u \notin Users /\ Users' = Users \cup {u} /\ Carriers' = Carriers
    BY <2>1 DEF Retain, Idle, Users, Using, Carriers, TypeOK
  <2>4. Cardinality(Users') = Cardinality(Users) + 1
    BY <1>a, <2>3, Counting
  <2>5. References' /\ Alive' /\ Alive
    <3>1. Cardinality(Users) > 0
      BY <1>a, <2>3, Counting, Zenon
    <3> QED BY <1>0, <1>a, <1>b, <2>2, <2>4, <3>1 DEF Ledger, References, Alive
  <2>6. Bodies' = Bodies
    BY <1>0, <2>2, <2>3, SMTT(30)
  <2> QED BY <2>2, <2>5, <2>6 DEF Ledger
<1>6. CASE \E kind \in {"INITIAL", "MESSAGE", "FINAL"} : Begin(t, kind)
  <2>1. PICK kind \in Kinds : Begin(t, kind)
    BY <1>6, SMTT(30) DEF Kinds
  <2>2. Users' = Users /\ Carriers' = Carriers
    BY <2>1, BeginEffect, SMTT(60) DEF Users, Using, Carriers
  <2> QED BY <2>1, <2>2, BeginEffect, LedgerFrame
<1> QED BY <1>1, <1>2, <1>3, <1>4, <1>5, <1>6 DEF ThreadStep

\* The mailbox closes: the library's reference and the message in it go.
LEMMA LedgerCloses ==
  ASSUME TypeOK, TypeOK', Ledger, owner \notin {"absent", "gone"}, NEW kind, Closes(kind),
         tx' + Held(kind) = tx + Held(box.kind), tx' \in Nat
  PROVE  Ledger'
<1> DEFINE left == IF kind = "MESSAGE" THEN tr_producer_domain_release(domain, FALSE)
                   ELSE domain
<1>0. /\ Bodies = tx + Held(box.kind) + Cardinality(Carriers) /\ Bodies \in Nat
      /\ Bodies' = tx' + Held(box'.kind) + Cardinality(Carriers')
      /\ Cardinality(Carriers) \in Nat /\ Cardinality(Users) \in Nat
  BY BodyCount, SMTT(30) DEF Bodies, Held, Carriers
<1>1. Users' = Users /\ Carriers' = Carriers
  <2>1. UNCHANGED thread
    BY Zenon DEF Closes
  <2> QED BY <2>1 DEF Users, Using, Carriers
<1>2. box'.refs = box.refs - 1 /\ box'.kind = "none" /\ owner' = "gone"
      /\ domain' = Freed(box', left) /\ box.refs \in Int /\ tx \in Nat
      /\ domain \in Domains
  BY DEF Closes, TypeOK, Boxes
<1>3. References'
  BY <1>0, <1>1, <1>2 DEF Ledger, References
<1>4. Alive /\ (Alive' <=> box'.refs # 0)
  BY <1>0, <1>2 DEF Ledger, References, Alive
<1>5. Bodies' = Bodies - Held(kind) /\ Bodies' \in Nat
  <2>1. {Held(kind), Held(box.kind)} \subseteq {0, 1} /\ Held("none") = 0
    BY DEF Held
  <2> QED BY <1>0, <1>1, <1>2, <2>1
<1>6. left \in Domains /\ Pays(left, Bodies', 1)
  <2>1. Pays(domain, Bodies, 1) /\ domain \in Domains
    BY <1>4, SMTT(30) DEF Ledger, TypeOK
  <2>2. CASE kind = "MESSAGE"
    <3>1. Pays(tr_producer_domain_release(domain, FALSE), Bodies - 1, 1)
      <4>1. \A m \in Int : Pays(domain, Bodies, m) =>
              Pays(tr_producer_domain_release(domain, FALSE), Bodies - 1, m)
        BY <1>0, <2>1, PaysBody, Zenon
      <4>2. 1 \in Int
        OBVIOUS
      <4> QED BY <2>1, <4>1, <4>2, Zenon
    <3>2. Bodies' = Bodies - 1
      BY <1>5, <2>2 DEF Held
    <3> QED BY <1>2, <2>2, <3>1, <3>2, DomainTypes, Zenon
  <2>3. CASE kind # "MESSAGE"
    BY <1>0, <1>2, <1>5, <2>1, <2>3 DEF Held
  <2> QED BY <2>2, <2>3, Zenon
<1>7. Pays(domain', Bodies', IF Alive' THEN 1 ELSE 0)
  <2> HIDE DEF left
  <2>1. Pays(Freed(box', left), Bodies', IF box'.refs = 0 THEN 1 - 1 ELSE 1)
    BY <1>5, <1>6, PaysEnd
  <2> QED BY <1>2, <1>4, <2>1
<1> QED BY <1>3, <1>7, SMTT(30) DEF Ledger

\* Nor does a step of the owner: an accepted body moves to the transport, a
\* dropped one is returned, the library's reference goes with the close.
LEMMA LedgerOwner ==
  ASSUME TypeOK, TypeOK', Control, Ledger, OwnerStep
  PROVE  Ledger'
<1>1. /\ Bodies = tx + Held(box.kind) + Cardinality(Carriers) /\ Bodies \in Nat
      /\ Bodies' = tx' + Held(box'.kind) + Cardinality(Carriers')
      /\ Cardinality(Carriers) \in Nat /\ tx \in Nat /\ tx' \in Nat
  BY BodyCount DEF Bodies, Held, Carriers, TypeOK
<1>2. UNCHANGED thread => Users' = Users /\ Carriers' = Carriers
  BY DEF Users, Using, Carriers
<1>3. ASSUME UNCHANGED <<domain, thread>>, box'.refs = box.refs, Bodies' = Bodies,
             owner \notin {"absent", "gone"}, owner' \notin {"absent", "gone"}
      PROVE  Ledger'
  BY <1>2, <1>3 DEF Ledger, References, Alive
<1>4. CASE Activate
  BY <1>1, <1>2, <1>3, <1>4, ActivateEffect, Zenon DEF Kept
<1>5. CASE Take
  BY <1>1, <1>2, <1>3, <1>5, TakeEffect, ZenonT(60) DEF Kept
<1>6. CASE Refused
  <2>1. /\ UNCHANGED <<domain, thread, tx>> /\ box'.refs = box.refs
        /\ box'.kind = box.kind /\ owner = "sending" /\ owner' = "idle"
    BY <1>6, RefusedEffect, Zenon DEF Kept
  <2>2. Bodies' = Bodies
    BY <1>1, <1>2, <2>1, Zenon
  <2> QED BY <1>3, <2>1, <2>2
<1>7. CASE Terminate
  BY <1>1, <1>7, TerminateEffect, LedgerCloses
<1>8. CASE Misfit
  <2>1. CASE Closes(box.kind)
    BY <1>1, <1>8, <2>1, MisfitEffect, LedgerCloses
  <2>2. CASE Replaced
    <3>1. /\ owner = "sending" /\ owner' = "idle" /\ tx' = tx /\ UNCHANGED thread
          /\ box'.refs = box.refs /\ box'.kind = "FINAL" /\ domain' = Dropped(box, domain)
      BY <1>8, <2>2, MisfitEffect DEF Replaced
    <3>2. References' /\ Alive' = Alive
      BY <1>2, <3>1 DEF Ledger, References, Alive
    <3>3. CASE box.kind = "MESSAGE"
      <4>1. Bodies' = Bodies - 1
        BY <1>1, <1>2, <3>1, <3>3 DEF Held
      <4>2. /\ Pays(domain, Bodies, IF Alive THEN 1 ELSE 0)
            /\ (IF Alive THEN 1 ELSE 0) \in Int /\ domain \in Domains
        BY DEF Ledger, TypeOK
      <4>3. Pays(tr_producer_domain_release(domain, FALSE), Bodies - 1,
                 IF Alive THEN 1 ELSE 0)
        BY <1>1, <4>2, PaysBody, Zenon
      <4> QED BY <3>1, <3>2, <3>3, <4>1, <4>3, Zenon DEF Ledger, Dropped
    <3>4. CASE box.kind # "MESSAGE"
      <4>1. Bodies' = Bodies /\ domain' = domain
        BY <1>1, <1>2, <3>1, <3>4 DEF Held, Dropped
      <4> QED BY <3>2, <4>1 DEF Ledger
    <3> QED BY <3>3, <3>4, SMTT(30)
  <2> QED BY <1>8, <2>1, <2>2, MisfitEffect, SMTT(30)
<1>9. CASE Accepted
  <2>0. owner = "sending" /\ tx' = IF Sent = "MESSAGE" THEN tx + 1 ELSE tx
    BY <1>9, AcceptedEffect
  <2>1. CASE Sent = box.kind /\ Sent # "FINAL" /\ Cleared /\ owner' = "idle"
    <3>1. Bodies' = Bodies
      BY <1>1, <1>2, <2>0, <2>1 DEF Cleared, Held
    <3> QED BY <1>3, <2>0, <2>1, <3>1 DEF Cleared
  <2>2. CASE Sent = "INITIAL" /\ Kept /\ owner' = "idle"
    <3>1. Bodies' = Bodies
      BY <1>1, <1>2, <2>0, <2>2 DEF Kept
    <3> QED BY <1>3, <2>0, <2>2, <3>1 DEF Kept
  <2>3. CASE Sent = "FINAL" /\ box.kind = "FINAL" /\ Closes("none")
    <3>1. tx' + Held("none") = tx + Held(box.kind)
      BY <1>1, <2>0, <2>3 DEF Held
    <3> QED BY <1>1, <2>0, <2>3, <3>1, LedgerCloses
  <2> QED BY <1>9, <2>1, <2>2, <2>3, AcceptedEffect
<1> QED BY <1>4, <1>5, <1>6, <1>7, <1>8, <1>9, SMTT(30) DEF OwnerStep

\* Nor do acquire, the transport's release and the close of the domain.
LEMMA LedgerRest ==
  ASSUME TypeOK, TypeOK', Control, Ledger,
         Acquire \/ TxReleases \/ DomainClose \/ UNCHANGED vars
  PROVE  Ledger'
<1>1. /\ Bodies = tx + Held(box.kind) + Cardinality(Carriers) /\ Bodies \in Nat
      /\ Bodies' = tx' + Held(box'.kind) + Cardinality(Carriers')
      /\ Cardinality(Carriers) \in Nat /\ tx \in Nat /\ tx' \in Nat
  BY BodyCount DEF Bodies, Held, Carriers, TypeOK
<1>2. UNCHANGED thread => Users' = Users /\ Carriers' = Carriers
  BY DEF Users, Using, Carriers
<1>3. /\ Pays(domain, Bodies, IF Alive THEN 1 ELSE 0)
      /\ (IF Alive THEN 1 ELSE 0) \in Int /\ domain \in Domains
  BY DEF Ledger, TypeOK
<1>4. CASE Acquire
  <2>1. \A t \in Threads : thread[t].pc = "away"
    BY <1>4 DEF Acquire, Control, ThreadControl
  <2>2. thread' = [thread EXCEPT ![First] = Idle]
    BY <1>4, SMTT(30) DEF Acquire
  <2>3. Users' = {First} /\ Carriers' = {} /\ Carriers = {}
    BY <2>1, <2>2 DEF Users, Using, Carriers, Idle, TypeOK
  <2>4. Cardinality(Users') = 1
    BY <2>3, FS_Singleton, SMTT(30)
  <2>5. References' /\ Alive' /\ ~Alive
    BY <1>4, <2>4, AcquireEffect, SMTT(30) DEF References, Alive
  <2>6. Bodies' = Bodies
    BY <1>1, <1>4, <2>3, AcquireEffect, SMTT(30) DEF Held, Control, BoxControl
  <2>7. ~domain.closed /\ domain' = DomainReserve(domain, TRUE)
    BY <1>4, AcquireEffect
  <2>8. Pays(domain, Bodies, 0)
    BY <1>3, <2>5
  <2>9. Pays(DomainReserve(domain, TRUE), Bodies, 1)
    <3>1. \A m \in Int : Pays(domain, Bodies, m) =>
            Pays(DomainReserve(domain, TRUE), Bodies, m + 1)
      BY <1>1, <1>3, <2>7, PaysBody, Zenon
    <3>2. 0 \in Int /\ 0 + 1 = 1
      OBVIOUS
    <3>3. Pays(DomainReserve(domain, TRUE), Bodies, 0 + 1)
      BY <2>8, <3>1, <3>2, Zenon
    <3> QED BY <3>2, <3>3, Zenon
  <2> QED BY <2>5, <2>6, <2>7, <2>9, Zenon DEF Ledger
<1>5. CASE TxReleases
  <2>1. /\ UNCHANGED <<box, thread, owner>> /\ tx' = tx - 1
        /\ domain' = tr_producer_domain_release(domain, FALSE)
    BY <1>5 DEF TxReleases
  <2>2. References' /\ Alive' = Alive
    BY <1>2, <2>1 DEF Ledger, References, Alive
  <2>3. Bodies' = Bodies - 1
    BY <1>1, <1>2, <2>1 DEF Held
  <2>4. Pays(tr_producer_domain_release(domain, FALSE), Bodies - 1, IF Alive THEN 1 ELSE 0)
    BY <1>1, <1>3, PaysBody, Zenon
  <2> QED BY <2>1, <2>2, <2>3, <2>4, Zenon DEF Ledger
<1>6. CASE DomainClose
  <2>1. /\ UNCHANGED <<box, thread, owner, tx>> /\ ~domain.closed
        /\ domain' = tr_rpc_record_producer_domain_close(domain)
    BY <1>6 DEF DomainClose
  <2>2. References' /\ Alive' = Alive
    BY <1>2, <2>1 DEF Ledger, References, Alive
  <2>3. Bodies' = Bodies
    BY <1>1, <1>2, <2>1
  <2>4. Pays(tr_rpc_record_producer_domain_close(domain), Bodies, IF Alive THEN 1 ELSE 0)
    BY <1>1, <1>3, <2>1, PaysEnd, SMTT(30)
  <2> QED BY <2>1, <2>2, <2>3, <2>4 DEF Ledger
<1>7. CASE UNCHANGED vars
  BY <1>1, <1>2, <1>7, LedgerFrame DEF vars
<1> QED BY <1>4, <1>5, <1>6, <1>7, SMTT(30)

\* Every step keeps the ledger.
LEMMA LedgerNext ==
  ASSUME TypeOK, TypeOK', Control, Ledger, [Next]_vars
  PROVE  Ledger'
BY LedgerThread, LedgerOwner, LedgerRest DEF Next

-----------------------------------------------------------------------------
(* The order of the records                                                *)

\* A record of the history is a kind and the number of a command.
LEMMA DeliveredTypes ==
  ASSUME TypeOK, NEW i \in DOMAIN delivered
  PROVE  delivered[i].item \in Nat /\ delivered[i].kind \in Kinds
<1>1. delivered \in Seq([kind : Kinds, item : Nat])
  BY DEF TypeOK
<1>2. delivered[i] \in [kind : Kinds, item : Nat]
  BY <1>1, ElementOfSeq, LenProperties, Zenon
<1> QED BY <1>2

\* The invariant on the histories is what DeliveredInOrder says, and more.
LEMMA InOrder ==
  History => DeliveredInOrder
BY SMTT(30) DEF History, Entry, NoneMissing, DeliveredInOrder

\* A step that writes neither history and leaves the command where it is, or
\* takes it away when the call ends or fails.
LEMMA HistoryFrame ==
  ASSUME TypeOK, TypeOK', History, Submitted', UNCHANGED <<published, delivered, headers>>,
         box.closed => box'.closed, failed => failed',
         box'.kind = box.kind \/ box'.closed \/ failed',
         box'.kind \in {box.kind, "none"} \/ failed'
  PROVE  History'
<1>1. \A n : Delivered(n)' <=> Delivered(n)
  BY SMTT(30) DEF Delivered
<1>2. NoneMissing'
  BY <1>1, SMTT(30) DEF History, NoneMissing, TypeOK, Boxes
<1>3. \A i \in DOMAIN delivered : Sequel(i)' /\ Entry(i)'
  BY <1>1, ZenonT(60) DEF History, Sequel, Entry, TypeOK, Boxes
<1> QED BY <1>2, <1>3 DEF History

\* A thread only ever adds the next command, and only to an empty mailbox.
LEMMA HistoryThread ==
  ASSUME TypeOK, TypeOK', Control, Control', History, NEW t \in Threads, ThreadStep(t)
  PROVE  History'
<1> DEFINE Same == /\ box'.kind = box.kind /\ box'.item = box.item
                   /\ box'.finished = box.finished /\ box'.closed = box.closed
                   /\ box'.initial_closed = box.initial_closed
                   /\ UNCHANGED <<published, delivered, headers, failed, owner>>
<1>1. ASSUME Same,
             \A u \in Threads :
                \/ thread'[u] = thread[u]
                \/ thread'[u].pc = "publish" /\ thread'[u].kind = "INITIAL"
                     => ~box.initial_closed
      PROVE  History'
  <2>1. Submitted
    BY DEF History
  <2>2. \A u \in Threads : thread'[u].pc = "publish" /\ thread'[u].kind = "INITIAL"
                           => ~box'.initial_closed
    BY <1>1, <2>1, Zenon DEF Submitted
  <2>3. Submitted'
    BY <1>1, <2>1, <2>2 DEF Submitted
  <2> QED BY <1>1, <2>3, HistoryFrame, Zenon
<1>2. CASE Release(t)
  <2>1. Same
    BY <1>2, SMTT(30) DEF Release, tr_rpc_v2_producer_release,
       tr_rpc_record_producer_put, TypeOK, Boxes
  <2> QED BY <1>1, <1>2, <2>1 DEF Release, TypeOK
<1>3. CASE ReserveBody(t)
  <2>1. Same
    BY <1>3 DEF ReserveBody
  <2>2. thread'[t].kind = "MESSAGE" /\ \A u \in Threads \ {t} : thread'[u] = thread[u]
    <3>1. thread[t].kind = "MESSAGE"
      BY <1>3, Zenon DEF ReserveBody, Control, ThreadControl
    <3>2. \E pc : thread' = [thread EXCEPT ![t].pc = pc]
      BY <1>3, Zenon DEF ReserveBody
    <3> QED BY <3>1, <3>2 DEF TypeOK, ThreadStates
  <2> QED BY <1>1, <2>1, <2>2, Zenon
<1>4. CASE Wait(t) \/ Wakes(t) \/ TimesOut(t)
  <2>1. Same
    BY <1>4, SleepEffect, Zenon
  <2>2. thread'[t].pc # "publish" /\ \A u \in Threads \ {t} : thread'[u] = thread[u]
    BY <1>4, SleepEffect
  <2> QED BY <1>1, <2>1, <2>2, Zenon
<1>5. CASE \E u \in Threads : Retain(t, u)
  <2>1. Same
    BY <1>5, SMTT(30) DEF Retain, tr_rpc_v2_producer_retain, TypeOK, Boxes
  <2>2. \A u \in Threads : thread'[u] = thread[u] \/ thread'[u].pc = "idle"
    BY <1>5, SMTT(30) DEF Retain, Idle, TypeOK
  <2> QED BY <1>1, <2>1, <2>2, ZenonT(60)
<1>6. CASE \E kind \in {"INITIAL", "MESSAGE", "FINAL"} : Begin(t, kind)
  <2>1. PICK kind \in Kinds : Begin(t, kind)
    BY <1>6, SMTT(30) DEF Kinds
  <2>2. Same
    BY <2>1, BeginEffect DEF TypeOK, Boxes
  <2> QED BY <1>1, <2>1, <2>2, BeginEffect, ZenonT(60)
<1>7. CASE Publish(t) /\ thread[t].pc = "publish" /\ ~box.closed
  <2> DEFINE kind == thread[t].kind
             last == Len(published) + 1
  <2>1. /\ kind \in Kinds /\ box'.kind = kind /\ box'.item = last
        /\ published' = Append(published, kind) /\ box'.closed = box.closed
        /\ box'.finished <=> box.finished \/ kind = "FINAL"
        /\ box'.initial_closed <=> box.initial_closed \/ kind # "FINAL"
        /\ UNCHANGED <<owner, headers, failed, delivered>>
    BY <1>7, PublishEffect, Zenon
  <2>2. /\ Len(published') = last /\ last \in Nat \ {0} /\ published'[last] = kind
        /\ \A n \in DOMAIN published : n # last /\ n \in DOMAIN published'
                                        /\ published'[n] = published[n]
        /\ DOMAIN published' = 1 .. last /\ DOMAIN published = 1 .. last - 1
    BY <2>1, SMTT(30) DEF TypeOK
  <2>3. ~box.finished /\ ~failed /\ box.kind = "none" /\ \A u \in Threads : ~Builds(u)'
    <3>1. Builds(t) /\ ~box'.building
      BY <1>7, PublishEffect, Zenon DEF Builds
    <3> QED BY <3>1, ZenonT(60) DEF Control, BoxControl, ThreadControl, History, Submitted
  <2>4. Submitted'
    <3>1. kind = "INITIAL" => Len(published') = 1
      <4>1. kind = "INITIAL" => published = <<>>
        BY <1>7, <2>3, SMTT(30) DEF History, Submitted
      <4> QED BY <4>1, <2>2, SMTT(30)
    <3>2. owner' # "absent"
      BY <2>1, ThreadPresent, SMTT(30)
    <3> QED BY <2>1, <2>2, <2>3, <3>1, <3>2, SMTT(30) DEF Submitted, Builds, Kinds, TypeOK
  <2>5. \A n : Delivered(n)' <=> Delivered(n)
    BY <2>1 DEF Delivered
  <2>6. \A i \in DOMAIN delivered : delivered[i].item \in Nat /\ delivered[i].item < last
    <3>1. \A i \in DOMAIN delivered : delivered[i].item \in Nat
      BY DeliveredTypes, SMTT(30)
    <3>2. \A i \in DOMAIN delivered : delivered[i].item # 0 =>
            delivered[i].item \in 1 .. last - 1
      BY <2>2, SMTT(30) DEF History, Entry
    <3> QED BY <2>2, <3>1, <3>2
  <2>7. NoneMissing'
    <3>1. ~Delivered(last)
      BY <2>6, SMTT(30) DEF Delivered
    <3>2. \A n \in DOMAIN published : Delivered(n)
      BY <1>7, <2>3, ZenonT(60) DEF History, NoneMissing
    <3> QED BY <2>1, <2>2, <2>5, <3>1, <3>2 DEF NoneMissing, Kinds
  <2>8. \A i \in DOMAIN delivered : Sequel(i)'
    <3> SUFFICES ASSUME NEW i \in DOMAIN delivered
                 PROVE  Sequel(i)'
      OBVIOUS
    <3>1. Sequel(i) /\ delivered[i].item # last
      BY <2>2, <2>6 DEF History
    <3> QED BY <2>1, <2>2, <3>1, Zenon DEF Sequel
  <2>9. \A i \in DOMAIN delivered : Entry(i)'
    BY <2>1, <2>2, <2>5, ZenonT(60) DEF History, Entry
  <2> QED BY <2>1, <2>4, <2>7, <2>8, <2>9, Zenon DEF History
<1>8. CASE Publish(t) /\ ~(thread[t].pc = "publish" /\ ~box.closed)
  <2>1. Same /\ thread' = [thread EXCEPT ![t] = Idle]
    BY <1>8, PublishEffect, Zenon
  <2> QED BY <1>1, <2>1, Zenon DEF Idle, TypeOK
<1> QED BY <1>2, <1>3, <1>4, <1>5, <1>6, <1>7, <1>8, ZenonT(60) DEF ThreadStep

\* A record accepted by the transport, added to the history.
LEMMA AppendRecord ==
  ASSUME NEW s \in Seq([kind : Kinds, item : Nat]), NEW r \in [kind : Kinds, item : Nat],
         NEW q, q = Append(s, r)
  PROVE  /\ DOMAIN s = 1 .. Len(s) /\ Len(s) \in Nat
         /\ DOMAIN q = 1 .. Len(s) + 1
         /\ q[Len(s) + 1] = r
         /\ \A i \in 1 .. Len(s) : q[i] = s[i]
OBVIOUS

\* What the transport accepts is the next command, after all the others.
LEMMA HistoryAccepted ==
  ASSUME TypeOK, TypeOK', Control, History, Accepted
  PROVE  History'
<1> DEFINE r == [kind |-> Sent, item |-> IF Sent = box.kind THEN box.item ELSE 0]
<1>0. PICK new \in Nat : new = Len(delivered) + 1
  BY DEF TypeOK
<1>1. /\ owner = "sending" /\ Sent \in Kinds /\ delivered' = Append(delivered, r)
      /\ headers' <=> headers \/ Sent = "INITIAL"
  BY AcceptedEffect, Zenon
<1>2. ~box.closed /\ box.kind # "none" /\ box.item \in Nat /\ Len(published) \in Nat
      /\ DOMAIN published = 1 .. Len(published)
  BY <1>1, SMTT(30) DEF Control, BoxControl, TypeOK, Boxes
<1>3. r.kind = Sent /\ r.item = (IF Sent = box.kind THEN box.item ELSE 0)
      /\ r \in [kind : Kinds, item : Nat]
  BY <1>1, <1>2, SMTT(30)
<1>4. /\ DOMAIN delivered = 1 .. Len(delivered) /\ Len(delivered) \in Nat
      /\ DOMAIN delivered' = 1 .. new /\ delivered'[new] = r
      /\ \A i \in 1 .. Len(delivered) : delivered'[i] = delivered[i]
  BY <1>0, <1>1, <1>3, AppendRecord, SMTT(60) DEF TypeOK
<1> HIDE DEF r
<1>5. \A n : Delivered(n)' <=> Delivered(n) \/ n = r.item
  <2>1. \A i : i \in DOMAIN delivered' <=> i = new \/ i \in DOMAIN delivered
    BY <1>0, <1>4
  <2>2. \A i \in DOMAIN delivered : delivered'[i] = delivered[i]
    BY <1>4, SMTT(30)
  <2> QED BY <1>4, <2>1, <2>2, Zenon DEF Delivered
<1>6. UNCHANGED <<published, failed>> /\ owner' # "absent"
  BY AcceptedEffect, SMTT(30) DEF Cleared, Kept, Closes
<1>7. \/ Sent = box.kind /\ Sent # "FINAL" /\ box'.kind = "none" /\ box'.item = 0
      \/ Sent = "INITIAL" /\ box.kind = "MESSAGE" /\ ~headers
           /\ box'.kind = box.kind /\ box'.item = box.item
      \/ Sent = "FINAL" /\ box'.closed /\ box'.kind = "none" /\ box'.item = 0
  BY AcceptedEffect, SMTT(30) DEF Cleared, Kept, Closes
<1>8. /\ box'.finished = box.finished /\ box'.initial_closed = box.initial_closed
      /\ UNCHANGED thread /\ (box.closed => box'.closed)
  BY <1>2, AcceptedEffect, SMTT(30) DEF Cleared, Kept, Closes
<1>9. Submitted'
  BY <1>6, <1>7, <1>8, SMTT(30) DEF History, Submitted
<1>10. /\ r.item # 0 => r.item = Len(published) /\ Sent = published[r.item] /\ ~failed
       /\ Sent = box.kind /\ ~failed => r.item = Len(published) /\ r.item # 0
  BY <1>2, <1>3, SMTT(30) DEF History, Submitted
<1>11. NoneMissing'
  BY <1>2, <1>3, <1>5, <1>6, <1>7, <1>10, SMTT(30) DEF History, NoneMissing
<1>12. \A i \in 1 .. Len(delivered) : Sequel(i)'
  BY <1>1, <1>4, <1>6, <1>7, <1>8, ZenonT(60) DEF History, Sequel, TypeOK
<1>13. Sequel(new)'
  <2>1. r.kind = "FINAL" => box'.closed
    BY <1>3, <1>7, SMTT(30)
  <2>2. r.kind = "MESSAGE" => headers' /\ r.item # 0
    <3>1. Sent = "MESSAGE" => headers /\ box.kind = "MESSAGE"
      BY DEF Sent
    <3> QED BY <1>1, <1>3, <1>10, <3>1, SMTT(30) DEF History, Submitted
  <2>3. r.item = Len(published') => box'.kind = "none" \/ failed'
    <3>1. CASE Sent = "INITIAL" /\ box.kind = "MESSAGE"
      BY <1>2, <1>3, <1>6, <3>1, SMTT(30) DEF History, Submitted
    <3> QED BY <1>7, <3>1, SMTT(30)
  <2> QED BY <1>4, <2>1, <2>2, <2>3 DEF Sequel
<1>14. \A i \in 1 .. Len(delivered) : Entry(i)'
  <2>1. TAKE i \in 1 .. Len(delivered)
  <2>2. \A j \in 1 .. i - 1 : j \in 1 .. Len(delivered)
    BY <1>4
  <2>3. Entry(i)
    BY <1>4, SMTT(30) DEF History
  <2> QED BY <1>4, <1>5, <1>6, <2>2, <2>3 DEF Entry
<1>15. Entry(new)'
  <2>1. \A n \in 1 .. r.item : Delivered(n)'
    BY <1>2, <1>5, <1>10, SMTT(30) DEF History, NoneMissing
  <2>2. \A j \in 1 .. Len(delivered) : r.item # 0 => delivered[j].item < r.item
    <3>1. \A j \in 1 .. Len(delivered) : delivered[j].item \in Nat
      BY <1>4, DeliveredTypes, SMTT(30)
    <3> SUFFICES ASSUME NEW j \in 1 .. Len(delivered), r.item # 0
                 PROVE  delivered[j].item < r.item
      BY Zenon
    <3>2. Sequel(j) /\ Entry(j)
      BY <1>4, Zenon DEF History
    <3>3. delivered[j].item = 0 \/ delivered[j].item \in 1 .. Len(published)
      BY <1>2, <3>2, Zenon DEF Entry
    <3>4. delivered[j].item # Len(published)
      BY <1>2, <1>10, <3>2, Zenon DEF Sequel
    <3> QED BY <1>2, <1>10, <3>1, <3>3, <3>4
  <2>3. \A j \in 1 .. Len(delivered) : delivered[j].kind # "FINAL"
    BY <1>2, <1>4, SMTT(30) DEF History, Sequel
  <2>4. ASSUME NEW j \in 1 .. Len(delivered), delivered[j].kind = "MESSAGE"
        PROVE  r.kind # "INITIAL"
    <3>1. /\ headers /\ delivered[j].item # 0 /\ delivered[j].item \in DOMAIN published
          /\ published[delivered[j].item] = "MESSAGE"
      BY <1>4, <2>4, SMTT(30) DEF History, Sequel, Entry
    <3>2. box.kind = "INITIAL" => box.item = 1 /\ published[1] = "INITIAL" /\ Len(published) = 1
      BY DEF History, Submitted
    <3> QED BY <1>2, <1>3, <1>7, <3>1, <3>2, SMTT(30)
  <2>5. r.item # 0 => r.item \in DOMAIN published' /\ r.kind = published'[r.item]
    BY <1>2, <1>3, <1>6, <1>10
  <2>6. \A j \in 1 .. new - 1 : delivered'[j] = delivered[j] /\ j \in 1 .. Len(delivered)
    BY <1>0, <1>4
  <2> QED BY <1>4, <2>1, <2>2, <2>3, <2>4, <2>5, <2>6 DEF Entry
<1>16. \A i \in DOMAIN delivered' : i = new \/ i \in 1 .. Len(delivered)
  BY <1>0, <1>4
<1> QED BY <1>9, <1>11, <1>12, <1>13, <1>14, <1>15, <1>16 DEF History

\* The other steps of the owner keep the order.
LEMMA HistoryOwner ==
  ASSUME TypeOK, TypeOK', Control, Control', History, OwnerStep
  PROVE  History'
<1>1. CASE Activate \/ Take \/ Refused
  <2>1. Kept /\ UNCHANGED <<headers, delivered>> /\ owner # "absent" /\ owner' # "absent"
    BY <1>1, ActivateEffect, TakeEffect, RefusedEffect, SMTT(30)
  <2>2. Submitted'
    BY <2>1 DEF Kept, History, Submitted
  <2> QED BY <2>1, <2>2, HistoryFrame, ZenonT(60) DEF Kept
<1>2. CASE Accepted
  BY <1>2, HistoryAccepted
<1>3. CASE Misfit \/ Terminate
  <2>1. /\ UNCHANGED <<headers, delivered>> /\ owner \notin {"absent", "gone"}
        /\ Closes(box.kind) \/ Replaced
    BY <1>3, MisfitEffect, TerminateEffect
  <2>2. CASE Closes(box.kind)
    <3>1. Submitted'
      <4>1. Submitted /\ UNCHANGED <<thread, published, failed>>
        BY <2>2, Zenon DEF Closes, History
      <4>2. /\ box'.kind = "none" /\ box'.item = 0 /\ owner' # "absent"
            /\ box'.finished = box.finished /\ box'.initial_closed = box.initial_closed
        BY <2>2, SMTT(30) DEF Closes
      <4> QED BY <4>1, <4>2, SMTT(30) DEF Submitted
    <3> QED BY <2>1, <2>2, <3>1, HistoryFrame, Zenon DEF Closes
  <2>3. CASE Replaced
    <3>1. \A t \in Threads : ~Builds(t)
      BY <2>3, ZenonT(60) DEF Replaced, Control, ThreadControl
    <3>2. Submitted'
      BY <2>3, <3>1 DEF Replaced, Submitted, Builds
    <3> QED BY <2>1, <2>3, <3>2, HistoryFrame DEF Replaced
  <2> QED BY <2>1, <2>2, <2>3
<1> QED BY <1>1, <1>2, <1>3, SMTT(30) DEF OwnerStep

\* Acquire starts both histories; the rest does not touch them.
LEMMA HistoryRest ==
  ASSUME TypeOK, TypeOK', Control, Control', History,
         Acquire \/ TxReleases \/ DomainClose \/ UNCHANGED vars
  PROVE  History'
<1>1. CASE Acquire
  <2>1. published = <<>> /\ delivered = <<>> /\ ~failed /\ UNCHANGED <<published, delivered, failed>>
    BY <1>1, AcquireEffect, ZenonT(60) DEF Control, BoxControl, History, Submitted
  <2>2. \A t \in Threads : ~Builds(t)'
    <3>1. ~box'.building
      BY <1>1, AcquireEffect, Zenon
    <3> QED BY <3>1, Zenon DEF Control, ThreadControl
  <2>3. Submitted'
    BY <1>1, <2>1, <2>2, AcquireEffect DEF Submitted, Builds
  <2>4. NoneMissing'
    BY <2>1 DEF NoneMissing
  <2>5. DOMAIN delivered' = {}
    BY <2>1
  <2> QED BY <2>3, <2>4, <2>5, Zenon DEF History
<1>2. CASE UNCHANGED <<box, thread, owner, headers, failed, published, delivered>>
  <2>1. Submitted'
    BY <1>2 DEF History, Submitted
  <2> QED BY <1>2, <2>1, HistoryFrame, Zenon
<1> QED BY <1>1, <1>2, ZenonT(60) DEF TxReleases, DomainClose, vars

\* Every step keeps the order.
LEMMA HistoryNext ==
  ASSUME TypeOK, TypeOK', Control, Control', History, [Next]_vars
  PROVE  History'
BY HistoryThread, HistoryOwner, HistoryRest DEF Next

-----------------------------------------------------------------------------
(* The theorems                                                            *)

\* The invariant holds before the mailbox is acquired.
LEMMA InitInv ==
  Init => IInv
<1> SUFFICES ASSUME Init PROVE IInv
  OBVIOUS
<1>1. TypeOK
  <2>1. box \in Boxes /\ domain \in Domains
    BY CreateType, Zenon DEF Init
  <2>2. thread \in [Threads -> ThreadStates]
    BY DEF Init, Away, ThreadStates
  <2>3. /\ owner = "absent" /\ tx \in Nat /\ headers \in BOOLEAN /\ failed \in BOOLEAN
        /\ published = <<>> /\ delivered = <<>>
    BY Zenon DEF Init
  <2> QED BY <2>1, <2>2, <2>3 DEF TypeOK
<1>2. /\ ~box.closed /\ ~box.in_send /\ ~box.building /\ box.kind = "none"
      /\ box.item = 0 /\ box.waiters = {}
  BY SMTT(30) DEF Init, tr_rpc_record_producer_create
<1>3. \A t \in Threads : thread[t].pc = "away"
  BY DEF Init, Away
<1>4. Control
  BY <1>2, <1>3, Zenon DEF Init, Control, BoxControl, ThreadControl, Builds
<1>5. Ledger
  <2>1. Carriers = {} /\ Cardinality(Carriers) = 0
    BY <1>3, FS_EmptySet, Zenon DEF Carriers
  <2>2. Bodies = 0
    <3>1. tx = 0
      BY DEF Init
    <3>2. Bodies = tx + Held(box.kind) + Cardinality(Carriers)
      BY <1>1, BodyCount
    <3> QED BY <1>2, <2>1, <3>1, <3>2 DEF Held
  <2>3. ~Alive /\ References
    BY SMTT(30) DEF Init, Alive, References
  <2>4. Pays(domain, 0, 0)
    BY SMTT(30) DEF Init, Pays, tr_rpc_record_producer_domain_create
  <2> QED BY <2>2, <2>3, <2>4 DEF Ledger
<1>6. History
  <2>1. published = <<>> /\ delivered = <<>> /\ failed = FALSE
    BY SMTT(30) DEF Init
  <2>2. Submitted
    BY <1>2, <1>3, <2>1 DEF Submitted
  <2>3. NoneMissing
    BY <2>1 DEF NoneMissing
  <2> QED BY <2>1, <2>2, <2>3 DEF History
<1>7. NoSleeperForgotten
  BY <1>2 DEF NoSleeperForgotten
<1> QED BY <1>1, <1>4, <1>5, <1>6, <1>7 DEF IInv

\* Every step keeps the invariant.
LEMMA NextInv ==
  IInv /\ [Next]_vars => IInv'
<1> SUFFICES ASSUME IInv, [Next]_vars PROVE IInv'
  OBVIOUS
<1> USE DEF IInv
<1>1. TypeOK'
  BY TypeNext
<1>2. Control'
  BY <1>1, ControlNext
<1> QED BY <1>1, <1>2, LedgerNext, HistoryNext, SleeperNext

\* The inductive invariant of the mailbox holds in every reachable state, for
\* every number of threads and commands, every capacity and every budget.
THEOREM MailboxInvariant ==
  Spec => []IInv
BY InitInv, NextInv, PTL DEF Spec

\* LedgerExact for every instance: the domain is charged for exactly the
\* mailbox and the bodies that exist, and the mailbox is referenced by exactly
\* those who use it (reserve, release, retain, put, close).
THEOREM MailboxLedger ==
  Spec => []LedgerExact
<1>1. IInv => LedgerExact
  <2> SUFFICES ASSUME IInv PROVE LedgerExact
    OBVIOUS
  <2> USE DEF IInv
  <2>1. DomainExact
    BY DEF Ledger, Pays, DomainExact
  <2>2. Cardinality({t \in Threads : Builds(t)}) <= 1
    <3>1. CASE \E t \in Threads : Builds(t)
      <4>1. PICK t \in Threads : Builds(t)
        BY <3>1
      <4>2. {u \in Threads : Builds(u)} = {t}
        BY <4>1 DEF Control, ThreadControl
      <4> QED BY <4>2, FS_Singleton, SMTT(30)
    <3>2. CASE ~\E t \in Threads : Builds(t)
      <4>1. {u \in Threads : Builds(u)} = {}
        BY <3>2, SMTT(30)
      <4> QED BY <4>1, FS_EmptySet
    <3> QED BY <3>1, <3>2
  <2>3. BorrowSafe
    BY <2>2 DEF Ledger, References, Users, Control, BoxControl, ThreadControl, Builds,
       BorrowSafe
  <2> QED BY <2>1, <2>3 DEF LedgerExact
<1> QED BY <1>1, MailboxInvariant, PTL

\* DeliveredInOrder for every instance: the transport gets the commands in the
\* order of the application, none twice and none missing (begin, publish, take,
\* complete, fail, close).
THEOREM MailboxOrder ==
  Spec => []DeliveredInOrder
<1>1. IInv => DeliveredInOrder
  BY InOrder DEF IInv
<1> QED BY <1>1, MailboxInvariant, PTL

\* NoSleeperForgotten for every instance: nobody sleeps in wait_writable on a
\* mailbox that is writable, finished or closed.
THEOREM MailboxWakeup ==
  Spec => []NoSleeperForgotten
<1>1. IInv => NoSleeperForgotten
  BY DEF IInv
<1> QED BY <1>1, MailboxInvariant, PTL
=============================================================================
