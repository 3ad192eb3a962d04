------------------------- MODULE ReactorRoundProofs -------------------------
(***************************************************************************)
(* The owner never sleeps over accepted work, and nothing of one round of  *)
(* start() and stop() survives into the next.                              *)
(***************************************************************************)
EXTENDS ReactorStopProofs

USE CapacityAssumption, SequenceLimitAssumption, CompletionCapacityAssumption,
    BatchAssumption, BoundAssumption

USE DEF cqVars, compVars, lifeVars, threadVars, ownerVars

(* The wakeup protocol.  A queue that holds anything has its wake_pending  *)
(* bit set, and a set bit that the owner has passed on its way to the poll *)
(* is backed by a signal, unless the owner already knows there is more.    *)

WakeInv ==
  /\ items # <<>> \/ StopPending => wake_pending
  /\ c_items # <<>> => c_wake_pending
  /\ /\ owner \in {"dispatch", "nested", "completions", "poll"}
     /\ wake_pending /\ ~commands_pending
     => SignalOwed
  /\ owner = "poll" /\ c_wake_pending /\ ~completions_pending => SignalOwed

(* The round protocol.  Closed: the owner states in which the round admits *)
(* nothing any more; Ended: those in which the command queue is empty too. *)

Ended == {"drain", "cleanup", "drain_again", "exited", "none"}
Closed == Ended \cup {"abort"}

HasStop(popped) == \E i \in DOMAIN popped : popped[i].type = "stop"

RefersTo(commands, c) == \E i \in DOMAIN commands : References(commands[i], c)

StopState ==
  /\ stop_closed =>
       /\ ~wait_accepting
       /\ ~started \/ control \in {"signal", "submitted"} \/ stop_submitted
       /\ control = "publish" \/ ~c_accepting
  /\ StopPending \/ HasStop(batch) \/ stopping => stop_closed
  /\ HasStop(batch) \/ stopping => items = <<>> /\ stop_command = <<>>
  /\ control \in {"close", "force"} =>
       ~stop_closed /\ owner \notin Closed \cup {"fatal_close"}
  /\ control = "force" => ~c_accepting
  /\ ~HasStop(items)

OwnerState ==
  /\ owner \notin {"dispatch", "nested"} => batch = <<>>
  /\ owner \in Closed \cup {"fatal_close"} /\ started =>
       stop_submitted \/ control \in {"signal", "submitted"}
  /\ owner \in Closed => ~wait_accepting /\ ~accepting /\ ~c_accepting
  /\ owner \in Ended => items = <<>> /\ stop_command = <<>>
  /\ owner \in Ended \ {"drain"} => c_items = <<>>
  /\ control = "publish" =>
       /\ owner = "boot" /\ items = <<>> /\ stop_command = <<>>
       /\ ~wait_accepting /\ ~stopping

Rounds ==
  /\ \A i \in DOMAIN items : items[i].round = round
  /\ \A i \in DOMAIN c_items : c_items[i].round = round
  /\ \A c \in Callers :
       /\ generation[c] <= wait_generation
       /\ Admits(generation[c]) => seen[c] = round
  /\ \A w \in Workers :
       /\ generation[w] <= c_generation
       /\ CompletionAdmits(generation[w]) => seen[w] = round

Awaited ==
  \A c \in Callers :
    pc[c] \in {"signal", "sync_wait"} /\ sync[c] = "pending" =>
      RefersTo(items, c) \/ RefersTo(batch, c)

RoundInv == StopState /\ OwnerState /\ Rounds /\ Awaited

-----------------------------------------------------------------------------
(* What the queue operators do to membership in a queue.                   *)

\* An accepted command joins the ring; whatever was there stays, in place.
LEMMA RingAppend ==
  ASSUME TypeOK, NEW command \in Commands, ~Full,
         tr_command_queue_enqueue_locked(command)
  PROVE  /\ \A i \in DOMAIN items : i \in DOMAIN items' /\ items'[i] = items[i]
         /\ \A i \in DOMAIN items' :
              \/ i \in DOMAIN items /\ items'[i] = items[i]
              \/ /\ items'[i].type = command.type
                 /\ items'[i].from = command.from
                 /\ items'[i].round = command.round
         /\ \E i \in DOMAIN items' : /\ items'[i].type = command.type
                                     /\ items'[i].from = command.from
<1> DEFINE n == Len(items)
           queued == [command EXCEPT !.sequence = next_sequence']
<1>1. items \in Seq(Commands) /\ n \in Nat /\ DOMAIN items = 1 .. n
  BY LenProperties DEF TypeOK, CommandQueueType
<1>2. /\ items' \in Seq(Commands) /\ Len(items') = n + 1
      /\ \A i \in 1 .. n : items'[i] = items[i]
      /\ items'[n + 1] = queued
  BY EnqueueLocked, Zenon DEF TypeOK
<1>3. DOMAIN items' = 1 .. n + 1
  BY <1>2, LenProperties
<1>4. /\ queued.type = command.type /\ queued.from = command.from
      /\ queued.round = command.round
  BY DEF Commands
<1> HIDE DEF n, queued
<1>5. \A i \in 1 .. n + 1 : i \in 1 .. n \/ i = n + 1
  BY <1>1
<1>6. n + 1 \in 1 .. n + 1 /\ \A i \in 1 .. n : i \in 1 .. n + 1
  BY <1>1
<1> QED BY <1>1, <1>2, <1>3, <1>4, <1>5, <1>6, Zenon

\* pop_batch moves commands: each one that was in the ring is in the ring or
\* in the batch afterwards and nothing else is, except STOP, which leaves its
\* slot only when the ring is left empty.  A batch below its limit empties
\* the queue.
LEMMA RingPop ==
  ASSUME TypeOK, NEW max \in Nat \ {0}, tr_command_queue_pop_batch(max)
  PROVE  /\ \A i \in DOMAIN items' : \E j \in DOMAIN items : items'[i] = items[j]
         /\ \A j \in DOMAIN items :
              \/ \E i \in DOMAIN items' : items'[i] = items[j]
              \/ \E i \in DOMAIN Popped(max) : Popped(max)[i] = items[j]
         /\ \A i \in DOMAIN Popped(max) :
              \/ \E j \in DOMAIN items : Popped(max)[i] = items[j]
              \/ TakesStop(max)
         /\ Len(Popped(max)) # max => items' = <<>> /\ stop_command' = <<>>
         /\ TakesStop(max) => items' = <<>> /\ stop_command' = <<>>
         /\ stop_command' = <<>> \/ stop_command' = stop_command
         /\ items = <<>> => items' = <<>>
         /\ Popped(max) \in Seq(Commands)
<1> DEFINE n == Len(items)
           k == PopCount(max)
           p == Popped(max)
<1>0. max \in Nat /\ max # 0
  OBVIOUS
<1>1. items \in Seq(Commands) /\ n \in Nat /\ DOMAIN items = 1 .. n
  BY LenProperties DEF TypeOK, CommandQueueType
<1>2. /\ k \in 0 .. n
      /\ items' \in Seq(Commands) /\ Len(items') = n - k
      /\ \A i \in 1 .. Len(items') : items'[i] = items[i + k]
      /\ p \in Seq(Commands)
      /\ Len(p) \in k .. k + Len(stop_command)
      /\ \A i \in 1 .. k : p[i] = items[i]
      /\ ~TakesStop(max) => Len(p) = k
  BY <1>0, PopBatch, Zenon DEF TypeOK
<1>3. DOMAIN items' = 1 .. n - k /\ DOMAIN p = 1 .. Len(p) /\ Len(p) \in Nat
  BY <1>2, LenProperties
<1>4. /\ n < max => k = n
      /\ ~(n < max) => k = max
      /\ TakesStop(max) => n < max
      /\ n < max /\ StopPending => TakesStop(max)
  BY <1>0, <1>1 DEF PopCount, TakesStop
<1>5. stop_command' = IF TakesStop(max) THEN <<>> ELSE stop_command
  BY DEF tr_command_queue_pop_batch
<1>6. n < max => items' = <<>>
  <2>1. ASSUME n < max PROVE Len(items') = 0
    BY <1>1, <1>2, <1>4, <2>1
  <2> QED BY <1>2, <2>1, EmptySeq
<1>7. Len(p) # max => n < max
  BY <1>0, <1>1, <1>2, <1>4
<1> HIDE DEF n, k, p
<1>8. \A i \in 1 .. n - k : i + k \in 1 .. n
  BY <1>1, <1>2
<1>9. \A j \in 1 .. n : \/ j \in 1 .. k /\ j \in 1 .. Len(p)
                        \/ j - k \in 1 .. n - k /\ (j - k) + k = j
  <2>1. Len(stop_command) \in Nat
    BY DEF TypeOK, CommandQueueType
  <2>2. n \in Nat /\ k \in 0 .. n /\ Len(p) \in k .. k + Len(stop_command)
    BY <1>1, <1>2, Zenon
  <2> QED BY <2>1, <2>2
<1>10. \A i \in DOMAIN items' : \E j \in DOMAIN items : items'[i] = items[j]
  BY <1>1, <1>2, <1>3, <1>8, Zenon
<1>11. ASSUME NEW j \in 1 .. n
       PROVE  \/ \E i \in DOMAIN items' : items'[i] = items[j]
              \/ \E i \in DOMAIN p : p[i] = items[j]
  <2>1. CASE j \in 1 .. k /\ j \in 1 .. Len(p)
    BY <1>2, <1>3, <2>1, Zenon
  <2>2. CASE j - k \in 1 .. n - k /\ (j - k) + k = j
    <3>1. items'[j - k] = items[(j - k) + k]
      BY <1>2, <2>2, Zenon
    <3> QED BY <1>3, <2>2, <3>1
  <2> QED BY <1>9, <2>1, <2>2
<1>12. ASSUME NEW i \in DOMAIN p, ~TakesStop(max)
       PROVE  \E j \in DOMAIN items : p[i] = items[j]
  <2>1. i \in 1 .. k /\ i \in 1 .. n
    BY <1>1, <1>2, <1>3, <1>12
  <2> QED BY <1>1, <1>2, <2>1, Zenon
<1>13. \A i \in DOMAIN p : (\E j \in DOMAIN items : p[i] = items[j]) \/ TakesStop(max)
  BY <1>12, Zenon
<1>14. Len(p) # max => items' = <<>> /\ stop_command' = <<>>
  BY <1>4, <1>5, <1>6, <1>7 DEF StopPending
<1>15. TakesStop(max) => items' = <<>> /\ stop_command' = <<>>
  BY <1>4, <1>5, <1>6
<1>16. stop_command' = <<>> \/ stop_command' = stop_command
  BY <1>5
<1>17. items = <<>> => items' = <<>>
  <2>1. items = <<>> => n = 0
    BY DEF n
  <2> QED BY <1>0, <1>6, <2>1
<1> QED BY <1>1, <1>2, <1>10, <1>11, <1>13, <1>14, <1>15, <1>16, <1>17, Zenon DEF p

\* The completion queue's batch only removes; it says truly whether anything
\* is left.
LEMMA CompletionRingPop ==
  ASSUME TypeOK, NEW max \in Nat, tr_completion_queue_pop_batch(max)
  PROVE  /\ \A i \in DOMAIN c_items' :
              \E j \in DOMAIN c_items : c_items'[i] = c_items[j]
         /\ ~CompletionHasMore(max) => c_items' = <<>>
<1> DEFINE n == Len(c_items)
           k == CompletionPopCount(max)
<1>1. /\ n \in Nat /\ DOMAIN c_items = 1 .. n
      /\ \A i \in 1 .. n : c_items[i] \in Completions
  BY LenProperties, ElementOfSeq DEF TypeOK, CompletionQueueType
<1>2. k \in 0 .. n /\ (CompletionHasMore(max) <=> n > k)
  BY <1>1 DEF CompletionPopCount, CompletionHasMore
<1>3. c_items' = SubSeq(c_items, k + 1, n)
  BY DEF tr_completion_queue_pop_batch
<1> HIDE DEF n, k
<1>4. k + 1 \in Int /\ n \in Int /\ \A i \in k + 1 .. n : c_items[i] \in Completions
  BY <1>1, <1>2
<1>5. /\ c_items' \in Seq(Completions)
      /\ Len(c_items') = IF k + 1 <= n THEN n - (k + 1) + 1 ELSE 0
      /\ \A i \in 1 .. n - (k + 1) + 1 : c_items'[i] = c_items[(k + 1) + i - 1]
  BY <1>3, <1>4, SubSeqProperties
<1>6. DOMAIN c_items' = 1 .. Len(c_items') /\ Len(c_items') = n - k
  BY <1>1, <1>2, <1>5, LenProperties
<1>7. \A i \in 1 .. n - k : /\ i \in 1 .. n - (k + 1) + 1
                            /\ (k + 1) + i - 1 \in 1 .. n
  BY <1>1, <1>2
<1>8. \A i \in DOMAIN c_items' : \E j \in DOMAIN c_items : c_items'[i] = c_items[j]
  BY <1>1, <1>5, <1>6, <1>7, Zenon
<1>9. ~CompletionHasMore(max) => Len(c_items') = 0
  BY <1>1, <1>2, <1>6
<1> QED BY <1>5, <1>8, <1>9, EmptySeq

-----------------------------------------------------------------------------
(* The wakeup protocol.                                                    *)

\* A step that leaves both queues alone and loses no owed signal keeps the
\* wakeup protocol when the owner stays, leaves the turn, or moves on through
\* the dispatch of a batch.
LEMMA WakeFrame ==
  ASSUME WakeInv, SignalOwed => SignalOwed',
         UNCHANGED <<items, stop_command, wake_pending, c_items,
                     c_wake_pending, commands_pending, completions_pending>>,
         \/ owner' = owner
         \/ owner' \notin {"dispatch", "nested", "completions", "poll"}
         \/ /\ owner \in {"dispatch", "nested"}
            /\ owner' \in {"dispatch", "nested", "completions"}
  PROVE  WakeInv'
<1> HIDE DEF SignalOwed
<1> QED BY DEF WakeInv, StopPending

\* A push to the command queue keeps it when the producer that found
\* wake_pending clear owes the signal.
LEMMA WakePush ==
  ASSUME WakeInv, SignalOwed => SignalOwed', wake_pending' = TRUE,
         NeedWake => SignalOwed',
         UNCHANGED <<c_items, c_wake_pending, commands_pending,
                     completions_pending>>,
         owner' = owner \/ (owner = "nested" /\ owner' = "dispatch")
  PROVE  WakeInv'
<1> HIDE DEF SignalOwed
<1> QED BY DEF WakeInv, StopPending, NeedWake

\* So does a push to the completion queue.
LEMMA WakeComplete ==
  ASSUME WakeInv, SignalOwed => SignalOwed', c_wake_pending' = TRUE,
         CompletionNeedWake => SignalOwed',
         UNCHANGED <<items, stop_command, wake_pending, commands_pending,
                     completions_pending, owner>>
  PROVE  WakeInv'
<1> HIDE DEF SignalOwed
<1> QED BY DEF WakeInv, StopPending, CompletionNeedWake

\* A thread's step loses no owed signal when the thread had none to write or
\* wrote it.
LEMMA SignalKept ==
  ASSUME TypeOK, NEW t \in Threads, control' = control,
         wake_fd => wake_fd',
         \A u \in Threads : u # t => pc'[u] = pc[u],
         pc[t] = "signal" => wake_fd' \/ pc'[t] = "signal"
  PROVE  SignalOwed => SignalOwed'
BY Zenon DEF SignalOwed

\* A caller's step keeps the wakeup protocol.
LEMMA WakeCaller ==
  ASSUME TypeOK, WakeInv, NEW c \in Callers, CallerNext(c)
  PROVE  WakeInv'
<1>1. c \in Threads
  BY DEF Threads
<1>2. DOMAIN pc = Threads
  BY DEF TypeOK, ThreadType
<1>3. /\ SignalOwed => SignalOwed'
      /\ UNCHANGED <<c_items, c_wake_pending, commands_pending,
                     completions_pending, owner>>
  <2>1. /\ control' = control /\ (wake_fd => wake_fd')
        /\ \A u \in Threads : u # c => pc'[u] = pc[u]
        /\ pc[c] = "signal" => wake_fd' \/ pc'[c] = "signal"
        /\ UNCHANGED <<c_items, c_wake_pending, commands_pending,
                       completions_pending, owner>>
    <3>1. control' = control /\ UNCHANGED <<c_items, c_wake_pending, commands_pending,
                                         completions_pending, owner>>
      BY Zenon DEF CallerNext, CallAdmit, CallStopped, CallStoppedReturn,
         CallSleep, CallRefused, CallEnqueue, CallSignal, CallReturn,
         CallSpuriousWake
    <3>2. wake_fd' = wake_fd \/ wake_fd' = TRUE
      BY Zenon DEF CallerNext, CallAdmit, CallStopped, CallStoppedReturn,
         CallSleep, CallRefused, CallEnqueue, CallSignal, CallReturn,
         CallSpuriousWake
    <3>3. pc' = pc \/ \E label : pc' = [pc EXCEPT ![c] = label]
      BY Zenon DEF CallerNext, CallAdmit, CallStopped, CallStoppedReturn,
         CallSleep, CallRefused, CallEnqueue, CallSignal, CallReturn,
         CallSpuriousWake, Goto
    <3>4. /\ \A u \in Threads : u # c => pc'[u] = pc[u]
          /\ wake_fd => wake_fd'
      BY <1>1, <1>2, <3>2, <3>3
    <3>5. pc[c] = "signal" => wake_fd' \/ pc' = pc
      BY Zenon DEF CallerNext, CallAdmit, CallStopped, CallStoppedReturn,
         CallSleep, CallRefused, CallEnqueue, CallSignal, CallReturn,
         CallSpuriousWake, Begin
    <3> QED BY <3>1, <3>4, <3>5, Zenon
  <2> QED BY <1>1, <2>1, SignalKept, Zenon
<1>4. CASE CallEnqueue(c)
  <2>1. NeedWake => pc'[c] = "signal"
    BY <1>1, <1>2, <1>4 DEF CallEnqueue, Goto
  <2>2. NeedWake => SignalOwed'
    BY <1>1, <2>1, Zenon DEF SignalOwed
  <2>3. wake_pending' = TRUE
    BY <1>4 DEF CallEnqueue, PushWaitEnqueue, tr_command_queue_enqueue_locked
  <2> QED BY <1>3, <2>2, <2>3, WakePush, Zenon
<1>5. CASE CallerNext(c) /\ ~CallEnqueue(c)
  <2>1. UNCHANGED <<items, stop_command, wake_pending>>
    BY <1>5, ZenonT(30) DEF CallerNext, CallAdmit, CallStopped, CallStoppedReturn,
       CallSleep, CallRefused, CallSignal, CallReturn, CallSpuriousWake,
       PushWaitSleep
  <2> QED BY <1>3, <2>1, WakeFrame, Zenon
<1> QED BY <1>4, <1>5

\* So does a sender's: it writes the eventfd before it releases ctl_lock.
LEMMA WakeSender ==
  ASSUME TypeOK, WakeInv, NEW s \in Senders, SenderNext(s)
  PROVE  WakeInv'
<1>1. s \in Threads
  BY DEF Threads
<1>2. DOMAIN pc = Threads
  BY DEF TypeOK, ThreadType
<1>3. /\ SignalOwed => SignalOwed'
      /\ UNCHANGED <<c_items, c_wake_pending, commands_pending,
                     completions_pending, owner>>
  <2>1. /\ control' = control /\ (wake_fd => wake_fd')
        /\ \A u \in Threads : u # s => pc'[u] = pc[u]
        /\ pc[s] = "signal" => wake_fd' \/ pc'[s] = "signal"
        /\ UNCHANGED <<c_items, c_wake_pending, commands_pending,
                       completions_pending, owner>>
    <3>1. control' = control /\ UNCHANGED <<c_items, c_wake_pending, commands_pending,
                                         completions_pending, owner>>
      BY Zenon DEF SenderNext, SendRefused, SendPush, SendSignal
    <3>2. wake_fd' = wake_fd \/ wake_fd' = TRUE
      BY Zenon DEF SenderNext, SendRefused, SendPush, SendSignal
    <3>3. pc' = pc \/ \E label : pc' = [pc EXCEPT ![s] = label]
      BY Zenon DEF SenderNext, SendRefused, SendPush, SendSignal, Goto
    <3>4. /\ \A u \in Threads : u # s => pc'[u] = pc[u]
          /\ wake_fd => wake_fd'
      BY <1>1, <1>2, <3>2, <3>3
    <3>5. pc[s] = "signal" => wake_fd' \/ pc' = pc
      BY Zenon DEF SenderNext, SendRefused, SendPush, SendSignal, Begin
    <3> QED BY <3>1, <3>4, <3>5, Zenon
  <2> QED BY <1>1, <2>1, SignalKept, Zenon
<1>4. CASE SendPush(s)
  <2>1. NeedWake => pc'[s] = "signal"
    BY <1>1, <1>2, <1>4 DEF SendPush, Goto
  <2>2. NeedWake => SignalOwed'
    BY <1>1, <2>1, Zenon DEF SignalOwed
  <2>3. wake_pending' = TRUE
    BY <1>4 DEF SendPush, tr_command_queue_push, tr_command_queue_enqueue_locked
  <2> QED BY <1>3, <2>2, <2>3, WakePush, Zenon
<1>5. CASE SendRefused(s) \/ SendSignal(s)
  <2>1. UNCHANGED <<items, stop_command, wake_pending>>
    BY <1>5, Zenon DEF SendRefused, SendSignal
  <2> QED BY <1>3, <2>1, WakeFrame, Zenon
<1> QED BY <1>4, <1>5 DEF SenderNext

\* So does a worker's.
LEMMA WakeWorker ==
  ASSUME TypeOK, WakeInv, NEW w \in Workers, WorkerNext(w)
  PROVE  WakeInv'
<1>1. w \in Threads
  BY DEF Threads
<1>2. DOMAIN pc = Threads
  BY DEF TypeOK, ThreadType
<1>3. /\ SignalOwed => SignalOwed'
      /\ UNCHANGED <<items, stop_command, wake_pending, commands_pending,
                     completions_pending, owner>>
  <2>1. /\ control' = control /\ (wake_fd => wake_fd')
        /\ \A u \in Threads : u # w => pc'[u] = pc[u]
        /\ pc[w] = "signal" => wake_fd' \/ pc'[w] = "signal"
        /\ UNCHANGED <<items, stop_command, wake_pending, commands_pending,
                       completions_pending, owner>>
    <3>1. control' = control /\ UNCHANGED <<items, stop_command, wake_pending,
                       commands_pending, completions_pending, owner>>
      BY Zenon DEF WorkerNext, CompleteSample, CompleteGate, CompleteSleep,
         CompleteRefused, CompleteEnqueue, CompleteSignal,
         CompleteSpuriousWake
    <3>2. wake_fd' = wake_fd \/ wake_fd' = TRUE
      BY Zenon DEF WorkerNext, CompleteSample, CompleteGate, CompleteSleep,
         CompleteRefused, CompleteEnqueue, CompleteSignal,
         CompleteSpuriousWake
    <3>3. pc' = pc \/ \E label : pc' = [pc EXCEPT ![w] = label]
      BY Zenon DEF WorkerNext, CompleteSample, CompleteGate, CompleteSleep,
         CompleteRefused, CompleteEnqueue, CompleteSignal,
         CompleteSpuriousWake, Goto
    <3>4. /\ \A u \in Threads : u # w => pc'[u] = pc[u]
          /\ wake_fd => wake_fd'
      BY <1>1, <1>2, <3>2, <3>3
    <3>5. pc[w] = "signal" => wake_fd' \/ pc' = pc
      BY Zenon DEF WorkerNext, CompleteSample, CompleteGate, CompleteSleep,
         CompleteRefused, CompleteEnqueue, CompleteSignal,
         CompleteSpuriousWake, Begin
    <3> QED BY <3>1, <3>4, <3>5, Zenon
  <2> QED BY <1>1, <2>1, SignalKept, Zenon
<1>4. CASE CompleteEnqueue(w)
  <2>1. CompletionNeedWake => pc'[w] = "signal"
    BY <1>1, <1>2, <1>4 DEF CompleteEnqueue, Goto
  <2>2. CompletionNeedWake => SignalOwed'
    BY <1>1, <2>1, Zenon DEF SignalOwed
  <2>3. c_wake_pending' = TRUE
    BY <1>4 DEF CompleteEnqueue, CompletionEnqueue
  <2> QED BY <1>3, <2>2, <2>3, WakeComplete, Zenon
<1>5. CASE WorkerNext(w) /\ ~CompleteEnqueue(w)
  <2>1. UNCHANGED <<c_items, c_wake_pending>>
    BY <1>5, ZenonT(30) DEF WorkerNext, CompleteSample, CompleteGate,
       CompleteSleep, CompleteRefused, CompleteSignal, CompleteSpuriousWake,
       CompletionSleep
  <2> QED BY <1>3, <2>1, WakeFrame, Zenon
<1> QED BY <1>4, <1>5

\* So do start() and stop().
LEMMA WakeController ==
  ASSUME TypeOK, WakeInv, ControllerNext
  PROVE  WakeInv'
<1>1. SignalOwed => SignalOwed'
  BY ZenonT(30) DEF SignalOwed, ControllerNext, Start, StartPublish, StopGate, StopClose,
     StopForce, StopSignal, StopSubmitted, Join, JoinFails, StopDone
<1>2. CASE StopForce /\ ~stop_closed
  <2>1. NeedWake => SignalOwed'
    BY <1>2, Zenon DEF StopForce, SignalOwed
  <2>2. wake_pending' = TRUE
    BY <1>2 DEF StopForce, tr_command_queue_push_wait_force
  <2>3. UNCHANGED <<c_items, c_wake_pending, commands_pending,
                    completions_pending, owner>>
    BY <1>2 DEF StopForce
  <2> QED BY <1>1, <2>1, <2>2, <2>3, WakePush, Zenon
<1>3. CASE ControllerNext /\ ~(StopForce /\ ~stop_closed)
  <2>1. UNCHANGED <<items, stop_command, wake_pending, c_items,
                    c_wake_pending, commands_pending, completions_pending>>
    BY <1>3, ZenonT(30)
       DEF ControllerNext, Start, StartPublish, StopGate, StopClose,
           StopForce, StopSignal, StopSubmitted, Join, JoinFails, StopDone,
           tr_completion_queue_open, tr_completion_queue_close,
           tr_command_queue_wait_open, tr_command_queue_wait_close
  <2>2. owner' = owner \/ owner' \in {"boot", "none"}
    BY <1>3, ZenonT(30)
       DEF ControllerNext, Start, StartPublish, StopGate, StopClose,
           StopForce, StopSignal, StopSubmitted, Join, JoinFails, StopDone
  <2> QED BY <1>1, <2>1, <2>2, WakeFrame
<1> QED BY <1>2, <1>3

\* So does the owner's turn: it reaches the poll only past both queues, and
\* drains the eventfd only on its way back to them.
LEMMA WakeOwner ==
  ASSUME TypeOK, WakeInv, OwnerNext
  PROVE  WakeInv'
<1>1. CASE OwnerPopCommands
  <2>1. /\ Len(batch') # CommandBatch => items' = <<>> /\ stop_command' = <<>>
        /\ commands_pending' = (Len(batch') = CommandBatch)
    BY <1>1, RingPop DEF OwnerPopCommands
  <2>2. /\ wake_pending' = (wake_pending /\ ~(items' = <<>> /\ stop_command' = <<>>))
        /\ owner' = "dispatch" /\ UNCHANGED <<c_items, c_wake_pending>>
    BY <1>1 DEF OwnerPopCommands, OwnerGoto, tr_command_queue_pop_batch
  <2>3. items' # <<>> \/ stop_command' # <<>> => items # <<>> \/ stop_command # <<>>
    <3>1. /\ items = <<>> => items' = <<>>
          /\ stop_command' = <<>> \/ stop_command' = stop_command
      BY <1>1, RingPop DEF OwnerPopCommands
    <3> QED BY <3>1, Zenon
  <2> QED BY <2>1, <2>2, <2>3 DEF WakeInv, StopPending
<1>2. CASE OwnerNestedPush
  <2>1. SignalOwed => SignalOwed'
    BY <1>2, Zenon DEF OwnerNestedPush, SignalOwed
  <2>2. CASE started /\ accepting /\ PushStatus = "ok"
    <3>1. wake_pending' = TRUE /\ (NeedWake => wake_fd')
      BY <1>2, <2>2
         DEF OwnerNestedPush, tr_command_queue_push, tr_command_queue_enqueue_locked
    <3>2. NeedWake => SignalOwed'
      BY <3>1, Zenon DEF SignalOwed
    <3>3. /\ UNCHANGED <<c_items, c_wake_pending, commands_pending,
                         completions_pending>>
          /\ owner = "nested" /\ owner' = "dispatch"
      BY <1>2 DEF OwnerNestedPush, OwnerGoto
    <3> QED BY <2>1, <3>1, <3>2, <3>3, WakePush, Zenon
  <2>3. CASE ~(started /\ accepting /\ PushStatus = "ok")
    <3>1. /\ UNCHANGED <<items, stop_command, wake_pending, c_items,
                         c_wake_pending, commands_pending, completions_pending>>
          /\ owner = "nested" /\ owner' = "dispatch"
      BY <1>2, <2>3 DEF OwnerNestedPush, OwnerGoto
    <3> QED BY <2>1, <3>1, WakeFrame
  <2> QED BY <2>2, <2>3
<1>3. CASE OwnerCompletions
  <2>1. completions_pending' = CompletionHasMore(CompletionBatch)
    BY <1>3 DEF OwnerCompletions
  <2>2. /\ ~CompletionHasMore(CompletionBatch) => c_items' = <<>>
        /\ c_wake_pending' = (c_wake_pending /\ CompletionHasMore(CompletionBatch))
    BY <1>3, CompletionRingPop DEF OwnerCompletions, tr_completion_queue_pop_batch
  <2>3. /\ UNCHANGED <<items, stop_command, wake_pending, commands_pending>>
        /\ owner = "completions" /\ owner' = "poll"
        /\ SignalOwed => SignalOwed'
    BY <1>3, Zenon DEF OwnerCompletions, OwnerGoto, SignalOwed
  <2>4. CompletionHasMore(CompletionBatch) => c_items # <<>>
    <3>1. Len(<<>>) = 0 /\ CompletionBatch \in Nat
      OBVIOUS
    <3> QED BY <3>1 DEF CompletionHasMore, CompletionPopCount
  <2> HIDE DEF SignalOwed
  <2> QED BY <2>1, <2>2, <2>3, <2>4 DEF WakeInv, StopPending
<1>4. CASE OwnerWokenCompletions \/ OwnerDrain
  <2>1. PICK max \in Nat : tr_completion_queue_pop_batch(max)
    BY <1>4 DEF OwnerWokenCompletions, OwnerDrain, TypeOK, OwnerType
  <2>2. /\ ~CompletionHasMore(max) => c_items' = <<>>
        /\ c_wake_pending' = (c_wake_pending /\ CompletionHasMore(max))
    BY <2>1, CompletionRingPop DEF tr_completion_queue_pop_batch
  <2>3. /\ UNCHANGED <<items, stop_command, wake_pending, commands_pending>>
        /\ owner' \notin {"dispatch", "nested", "completions", "poll"}
    BY <1>4 DEF OwnerWokenCompletions, OwnerDrain, OwnerGoto
  <2>4. CompletionHasMore(max) => c_items # <<>>
    <3>1. Len(<<>>) = 0
      OBVIOUS
    <3> QED BY <3>1 DEF CompletionHasMore, CompletionPopCount
  <2> QED BY <2>2, <2>3, <2>4 DEF WakeInv, StopPending
<1>5. CASE OwnerAbort
  <2>1. items = <<>> => items' = <<>>
    BY <1>5, RingPop DEF OwnerAbort
  <2>2. stop_command' = <<>> \/ stop_command' = stop_command
    BY <1>5, RingPop DEF OwnerAbort
  <2>3. /\ wake_pending' = (wake_pending /\ ~(items' = <<>> /\ stop_command' = <<>>))
        /\ UNCHANGED <<c_items, c_wake_pending>> /\ owner' \in {"drain", "abort"}
    BY <1>5 DEF OwnerAbort, OwnerGoto, tr_command_queue_pop_batch
  <2> QED BY <2>1, <2>2, <2>3 DEF WakeInv, StopPending
<1>6. CASE OwnerDrainWake
  <2>1. /\ UNCHANGED <<items, stop_command, wake_pending, c_items, c_wake_pending>>
        /\ owner' = "woken"
    BY <1>6 DEF OwnerDrainWake, OwnerGoto
  <2> QED BY <2>1 DEF WakeInv, StopPending
<1>7. CASE OwnerFatalClose
  <2>1. /\ UNCHANGED <<items, stop_command, wake_pending, c_items, c_wake_pending>>
        /\ owner' = "abort"
    BY <1>7 DEF OwnerFatalClose, OwnerGoto, tr_completion_queue_close,
                tr_command_queue_wait_close
  <2> QED BY <2>1 DEF WakeInv, StopPending
<1>8. CASE \/ OwnerBoot \/ OwnerDispatch \/ OwnerCallbackSends
           \/ OwnerDispatched \/ OwnerPoll \/ OwnerPollInterrupted
           \/ OwnerPollFails \/ OwnerBeginFatal \/ OwnerCleanup
  <2>1. /\ UNCHANGED <<items, stop_command, wake_pending, c_items,
                       c_wake_pending, commands_pending, completions_pending>>
        /\ SignalOwed => SignalOwed'
    <3>1. /\ UNCHANGED <<items, stop_command, wake_pending, c_items,
                         c_wake_pending, commands_pending, completions_pending>>
          /\ UNCHANGED <<wake_fd, control, pc>>
      BY <1>8, ZenonT(60)
         DEF OwnerBoot, OwnerDispatch, OwnerCallbackSends, OwnerDispatched,
             OwnerPoll, OwnerPollInterrupted, OwnerPollFails, OwnerBeginFatal,
             OwnerCleanup
    <3> QED BY <3>1 DEF SignalOwed
  <2>2. \/ owner' = owner
        \/ owner' \notin {"dispatch", "nested", "completions", "poll"}
        \/ /\ owner \in {"dispatch", "nested"}
           /\ owner' \in {"dispatch", "nested", "completions"}
    BY <1>8 DEF OwnerBoot, OwnerDispatch, OwnerCallbackSends, OwnerDispatched,
       OwnerPoll, OwnerPollInterrupted, OwnerPollFails, OwnerBeginFatal,
       OwnerCleanup, OwnerGoto
  <2> QED BY <2>1, <2>2, WakeFrame, Zenon
<1> QED BY <1>1, <1>2, <1>3, <1>4, <1>5, <1>6, <1>7, <1>8 DEF OwnerNext, OwnerStep

\* The owner never blocks in epoll_wait over accepted work: for every number
\* of threads, every queue capacity and every batch size, either the eventfd
\* is readable or a thread is about to write it.
THEOREM WakeupNotLost == Spec => []NoLostWakeup
<1>1. Init => WakeInv
  BY DEF Init, WakeInv, StopPending, CommandQueueInit, CompletionQueueInit
<1>2. TypeOK /\ WakeInv /\ [Next]_vars => WakeInv'
  <2>1. ASSUME WakeInv, UNCHANGED vars PROVE WakeInv'
    BY <2>1, Zenon DEF vars, WakeInv, StopPending, SignalOwed
  <2> QED BY <2>1, WakeCaller, WakeSender, WakeWorker, WakeController, WakeOwner,
             Zenon DEF Next, Terminated
<1>3. WakeInv => NoLostWakeup
  BY DEF WakeInv, NoLostWakeup, PollTimeoutZero
<1> QED BY <1>1, <1>2, <1>3, TypeCorrect, PTL DEF Spec

-----------------------------------------------------------------------------
(* The round protocol.                                                     *)

\* A step that changes neither queue's contents and admission, nor the
\* lifecycle flags, nor the batch keeps the state of the round.
LEMMA RoundFrame ==
  ASSUME StopState, OwnerState,
         UNCHANGED <<items, stop_command, stop_closed, wait_accepting, c_items,
                     c_accepting, started, accepting, stop_submitted, stopping,
                     control, owner, batch>>
  PROVE  StopState' /\ OwnerState'
BY Zenon DEF StopState, OwnerState, StopPending

\* A step that leaves the queues' contents and every sampled generation alone
\* keeps every command in its round.
LEMMA RoundsFrame ==
  ASSUME Rounds,
         UNCHANGED <<items, c_items, wait_accepting, wait_generation,
                     c_accepting, c_generation, generation, seen, round>>
  PROVE  Rounds'
BY Zenon DEF Rounds, Admits, CompletionAdmits

\* A caller that still waits after a step that loses no command waited before.
LEMMA AwaitedFrame ==
  ASSUME Awaited,
         \A c \in Callers : /\ RefersTo(items, c) => RefersTo(items', c)
                            /\ RefersTo(batch, c) => RefersTo(batch', c),
         \A c \in Callers :
           pc'[c] \in {"signal", "sync_wait"} /\ sync'[c] = "pending" =>
             \/ pc[c] \in {"signal", "sync_wait"} /\ sync[c] = "pending"
             \/ RefersTo(items', c)
  PROVE  Awaited'
BY Zenon DEF Awaited

\* A push into an open round keeps the state of the round, and the command is
\* one of the round.
LEMMA RoundPush ==
  ASSUME TypeOK, StopState, OwnerState, Rounds,
         NEW command \in Commands, ~Full,
         tr_command_queue_enqueue_locked(command),
         command.type # "stop", command.round = round,
         ~stop_closed, owner \notin Ended, control # "publish",
         UNCHANGED <<stop_command, stop_closed, wait_accepting, c_items,
                     c_accepting, started, accepting, stop_submitted, stopping,
                     control, batch, round>>,
         owner' = owner \/ (owner = "nested" /\ owner' = "dispatch")
  PROVE  /\ StopState' /\ OwnerState'
         /\ \A i \in DOMAIN items' : items'[i].round = round
         /\ \A c : RefersTo(items, c) => RefersTo(items', c)
         /\ command.type = "call" => RefersTo(items', command.from)
<1>1. /\ \A i \in DOMAIN items : i \in DOMAIN items' /\ items'[i] = items[i]
      /\ \A i \in DOMAIN items' :
           \/ i \in DOMAIN items /\ items'[i] = items[i]
           \/ /\ items'[i].type = command.type
              /\ items'[i].from = command.from
              /\ items'[i].round = command.round
      /\ \E i \in DOMAIN items' : /\ items'[i].type = command.type
                                  /\ items'[i].from = command.from
  BY RingAppend, Zenon
<1>2. ~HasStop(items')
  BY <1>1, Zenon DEF StopState, HasStop
<1>3. StopState'
  BY <1>2 DEF StopState, StopPending, Ended, Closed
<1>4. OwnerState'
  BY DEF OwnerState, Ended, Closed
<1>5. \A i \in DOMAIN items' : items'[i].round = round
  BY <1>1, Zenon DEF Rounds
<1>6. \A c : RefersTo(items, c) => RefersTo(items', c)
  BY <1>1, Zenon DEF RefersTo
<1>7. command.type = "call" => RefersTo(items', command.from)
  BY <1>1, Zenon DEF RefersTo, References
<1> QED BY <1>3, <1>4, <1>5, <1>6, <1>7, Zenon

\* A caller's step keeps the rounds apart: its command enters the ring only
\* in the round in which it sampled its admission.
LEMMA RoundCaller ==
  ASSUME TypeOK, LockLife, RoundInv, NEW c \in Callers, CallerNext(c)
  PROVE  RoundInv'
<1>1. c \in Threads /\ Callers \subseteq Threads /\ \A w \in Workers : w # c
  BY Distinct
<1>2. /\ DOMAIN pc = Threads /\ generation \in [Threads -> Nat]
      /\ seen \in [Threads -> Nat] /\ DOMAIN sync = Callers
      /\ wait_generation \in Nat /\ c_generation \in Nat /\ round \in Nat
      /\ Workers \subseteq Threads
  BY Distinct DEF TypeOK, ThreadType, CommandQueueType, CompletionQueueType, LifeType
<1>3. CASE CallEnqueue(c)
  <2> DEFINE command == Command("call", c, calls[c], seen[c])
  <2>1. /\ Admits(generation[c]) /\ ~Full
        /\ tr_command_queue_enqueue_locked(command)
        /\ UNCHANGED <<stop_command, stop_closed, wait_accepting,
                       wait_generation, compVars, lifeVars, generation, seen,
                       calls, sync, ownerVars, control, round>>
        /\ pc' = [pc EXCEPT ![c] = IF NeedWake THEN "signal" ELSE "sync_wait"]
    BY <1>3, Zenon DEF CallEnqueue, PushWaitEnqueue, Goto
  <2>2. command \in Commands
    BY <1>1, CommandType, Zenon DEF TypeOK, ThreadType
  <2>3. /\ command.type = "call" /\ command.from = c
        /\ command.round = round
    BY <2>1 DEF Command, RoundInv, Rounds
  <2>4. ~stop_closed /\ owner \notin Closed /\ control # "publish"
    BY <2>1, Zenon DEF RoundInv, StopState, OwnerState, Admits
  <2>5. owner \notin Ended
    BY <2>4 DEF Closed
  <2> HIDE DEF command
  <2>6. /\ StopState' /\ OwnerState'
        /\ \A i \in DOMAIN items' : items'[i].round = round
        /\ \A d : RefersTo(items, d) => RefersTo(items', d)
        /\ RefersTo(items', c)
    <3>1. command.type # "stop"
      BY <2>3
    <3>2. UNCHANGED <<stop_command, stop_closed, wait_accepting, c_items,
                     c_accepting, started, accepting, stop_submitted, stopping,
                     control, batch, round, owner>>
      BY <2>1, Zenon
    <3> QED BY <2>1, <2>2, <2>3, <2>4, <2>5, <3>1, <3>2, RoundPush, Zenon
               DEF RoundInv
  <2>7. Rounds'
    BY <2>1, <2>6, Zenon DEF RoundInv, Rounds, Admits, CompletionAdmits
  <2>8. Awaited'
    <3>1. \A d \in Callers : d # c => pc'[d] = pc[d]
      BY <1>1, <1>2, <2>1
    <3> QED BY <2>1, <2>6, <3>1, AwaitedFrame, Zenon DEF RoundInv
  <2> QED BY <2>6, <2>7, <2>8 DEF RoundInv
<1>4. CASE CallAdmit(c)
  <2>1. /\ UNCHANGED <<cqVars, compVars, lifeVars, ownerVars, control, round>>
        /\ generation' = [generation EXCEPT ![c] = tr_command_queue_wait_generation]
        /\ seen' = [seen EXCEPT ![c] = round]
        /\ \/ UNCHANGED <<pc, sync>>
           \/ /\ pc' = [pc EXCEPT ![c] = "push_wait"]
              /\ sync' = [sync EXCEPT ![c] = "pending"]
    BY <1>4, Zenon DEF CallAdmit, Goto
  <2>2. StopState' /\ OwnerState'
    BY <2>1, RoundFrame, Zenon DEF RoundInv
  <2>3. /\ generation'[c] <= wait_generation /\ seen'[c] = round
        /\ \A t \in Threads : t # c => generation'[t] = generation[t]
                                       /\ seen'[t] = seen[t]
    BY <1>1, <1>2, <2>1 DEF tr_command_queue_wait_generation
  <2>4. Rounds'
    BY <1>1, <1>2, <2>1, <2>3, Zenon DEF RoundInv, Rounds, Admits, CompletionAdmits
  <2>5. \A d \in Callers : \/ pc'[d] = pc[d] /\ sync'[d] = sync[d]
                           \/ pc'[d] = "push_wait"
    BY <1>1, <1>2, <2>1
  <2>6. Awaited'
    BY <2>1, <2>5, AwaitedFrame DEF RoundInv
  <2> QED BY <2>2, <2>4, <2>6 DEF RoundInv
<1>5. CASE CallerNext(c) /\ ~CallEnqueue(c) /\ ~CallAdmit(c)
  <2>1. UNCHANGED <<items, stop_command, stop_closed, wait_accepting,
                    wait_generation, compVars, started, accepting,
                    stop_submitted, stopping, control, owner, batch,
                    generation, seen, round>>
    BY <1>5, ZenonT(30)
       DEF CallerNext, CallStopped, CallStoppedReturn, CallSleep, CallRefused,
           CallSignal, CallReturn, CallSpuriousWake, PushWaitSleep
  <2>2. \A d \in Callers :
          \/ pc'[d] = pc[d] /\ sync'[d] = sync[d]
          \/ pc'[d] \in {"idle", "direct"}
          \/ pc[d] = "signal" /\ pc'[d] = "sync_wait" /\ sync'[d] = sync[d]
    BY <1>1, <1>2, <1>5, ZenonT(30)
       DEF CallerNext, CallStopped, CallStoppedReturn, CallSleep, CallRefused,
           CallSignal, CallReturn, CallSpuriousWake, Goto, Begin
  <2>3. StopState' /\ OwnerState'
    BY <2>1, RoundFrame, Zenon DEF RoundInv
  <2>4. Rounds'
    BY <2>1, RoundsFrame, Zenon DEF RoundInv
  <2>5. Awaited'
    BY <2>1, <2>2, AwaitedFrame DEF RoundInv
  <2> QED BY <2>3, <2>4, <2>5 DEF RoundInv
<1> QED BY <1>3, <1>4, <1>5

\* So does a sender's step: ctl_lock spans its look at accepting and its push.
LEMMA RoundSender ==
  ASSUME TypeOK, LockLife, RoundInv, NEW s \in Senders, SenderNext(s)
  PROVE  RoundInv'
<1>1. /\ s \in Threads /\ Callers \subseteq Threads /\ Workers \subseteq Threads
      /\ \A c \in Callers : c # s
      /\ \A w \in Workers : w # s
  BY Distinct
<1>2. /\ DOMAIN pc = Threads /\ seen \in [Threads -> Nat]
      /\ calls \in [Threads -> Nat] /\ round \in Nat
  BY DEF TypeOK, ThreadType, LifeType
<1>3. /\ UNCHANGED <<wait_accepting, wait_generation, c_items, c_accepting,
                     c_generation, generation, sync, round, batch>>
      /\ \A t \in Threads : t # s => pc'[t] = pc[t] /\ seen'[t] = seen[t]
  BY <1>1, <1>2, ZenonT(30)
     DEF SenderNext, SendRefused, SendPush, SendSignal, Begin, Goto,
         tr_command_queue_push
<1>4. \A c \in Callers : pc'[c] = pc[c] /\ sync'[c] = sync[c]
                         /\ seen'[c] = seen[c]
  BY <1>1, <1>3
<1>5. \A w \in Workers : seen'[w] = seen[w]
  BY <1>1, <1>3
<1>6. CASE SendPush(s)
  <2> DEFINE command == Command("send", s, calls'[s], round)
  <2>1. /\ started /\ accepting /\ PushStatus = "ok"
        /\ tr_command_queue_enqueue_locked(command)
        /\ UNCHANGED <<stop_command, stop_closed, wait_accepting, c_items,
                       c_accepting, started, accepting, stop_submitted,
                       stopping, control, batch, round, owner>>
    BY <1>6, Zenon DEF SendPush, tr_command_queue_push
  <2>2. calls'[s] \in Nat
    BY <1>1, <1>2, <1>6 DEF SendPush, Begin
  <2>3. command \in Commands
    BY <1>1, <1>2, <2>2, CommandType, Zenon
  <2>4. command.type = "send" /\ command.round = round
    BY DEF Command
  <2>5. ~stop_closed /\ ~Full
    BY <2>1 DEF PushStatus
  <2>6. owner \notin Closed /\ control # "publish"
    BY <2>1, Zenon DEF RoundInv, OwnerState, LockLife, LifeInv
  <2>7. owner \notin Ended
    BY <2>6 DEF Closed
  <2> HIDE DEF command
  <2>8. command.type # "stop"
    BY <2>4
  <2>9. /\ StopState' /\ OwnerState'
        /\ \A i \in DOMAIN items' : items'[i].round = round
        /\ \A d : RefersTo(items, d) => RefersTo(items', d)
    BY <2>1, <2>3, <2>4, <2>5, <2>6, <2>7, <2>8, RoundPush, Zenon DEF RoundInv
  <2>10. Rounds'
    BY <1>3, <1>4, <1>5, <2>9, Zenon DEF RoundInv, Rounds, Admits, CompletionAdmits
  <2>11. Awaited'
    BY <1>3, <1>4, <2>9, AwaitedFrame, Zenon DEF RoundInv
  <2> QED BY <2>9, <2>10, <2>11 DEF RoundInv
<1>7. CASE SendRefused(s) \/ SendSignal(s)
  <2>1. UNCHANGED <<items, stop_command, stop_closed, wait_accepting,
                    wait_generation, compVars, started, accepting,
                    stop_submitted, stopping, control, owner, batch,
                    generation, seen, round>>
    BY <1>7, Zenon DEF SendRefused, SendSignal
  <2>2. StopState' /\ OwnerState'
    BY <2>1, RoundFrame, Zenon DEF RoundInv
  <2>3. Rounds'
    BY <2>1, RoundsFrame, Zenon DEF RoundInv
  <2>4. Awaited'
    BY <1>4, <2>1, AwaitedFrame, Zenon DEF RoundInv
  <2> QED BY <2>2, <2>3, <2>4 DEF RoundInv
<1> QED BY <1>6, <1>7 DEF SenderNext

\* So does a worker's step, although it never takes ctl_lock.
LEMMA RoundWorker ==
  ASSUME TypeOK, LockLife, RoundInv, NEW w \in Workers, WorkerNext(w)
  PROVE  RoundInv'
<1>1. /\ w \in Threads /\ Callers \subseteq Threads /\ Workers \subseteq Threads
      /\ \A c \in Callers : c # w
  BY Distinct
<1>2. /\ DOMAIN pc = Threads /\ generation \in [Threads -> Nat]
      /\ seen \in [Threads -> Nat] /\ c_generation \in Nat /\ round \in Nat
      /\ c_items \in Seq(Completions)
  BY DEF TypeOK, ThreadType, LifeType, CompletionQueueType
<1>3. /\ UNCHANGED <<items, stop_command, stop_closed, wait_accepting,
                     wait_generation, c_accepting, c_generation, started,
                     accepting, stop_submitted, stopping, control, owner,
                     batch, sync, round>>
      /\ \A t \in Threads : t # w => /\ pc'[t] = pc[t] /\ seen'[t] = seen[t]
                                     /\ generation'[t] = generation[t]
  BY <1>1, <1>2, ZenonT(60)
     DEF WorkerNext, CompleteSample, CompleteGate, CompleteSleep,
         CompleteRefused, CompleteEnqueue, CompleteSignal,
         CompleteSpuriousWake, Begin, Goto, CompletionSleep, CompletionEnqueue
<1>4. \A c \in Callers : /\ pc'[c] = pc[c] /\ sync'[c] = sync[c]
                         /\ seen'[c] = seen[c] /\ generation'[c] = generation[c]
  BY <1>1, <1>3
<1>5. Awaited'
  BY <1>3, <1>4, AwaitedFrame, Zenon DEF RoundInv
<1>6. CASE CompleteEnqueue(w)
  <2>1. /\ CompletionAdmits(generation[w])
        /\ c_items' = Append(c_items, [from |-> w, round |-> seen[w]])
        /\ UNCHANGED <<generation, seen>>
    BY <1>6 DEF CompleteEnqueue, CompletionEnqueue
  <2>2. seen[w] = round /\ c_accepting
    BY <2>1, Zenon DEF RoundInv, Rounds, CompletionAdmits
  <2>3. \A i \in DOMAIN c_items' : c_items'[i].round = round
    <3> DEFINE completion == [from |-> w, round |-> seen[w]]
    <3>1. completion \in Completions /\ completion.round = round
      BY <1>1, <1>2, <2>2 DEF Completions
    <3>2. c_items' = Append(c_items, completion)
      BY <2>1
    <3> HIDE DEF completion
    <3>3. /\ Len(c_items') = Len(c_items) + 1 /\ c_items' \in Seq(Completions)
          /\ \A i \in 1 .. Len(c_items) : c_items'[i] = c_items[i]
          /\ c_items'[Len(c_items) + 1] = completion
      BY <1>2, <3>1, <3>2, AppendProperties
    <3>4. /\ DOMAIN c_items' = 1 .. Len(c_items) + 1 /\ Len(c_items) \in Nat
          /\ DOMAIN c_items = 1 .. Len(c_items)
      BY <1>2, <3>3, LenProperties
    <3>5. \A i \in 1 .. Len(c_items) + 1 : i \in 1 .. Len(c_items) \/ i = Len(c_items) + 1
      BY <3>4
    <3> QED BY <3>1, <3>3, <3>4, <3>5, Zenon DEF RoundInv, Rounds
  <2>4. Rounds'
    BY <1>3, <2>1, <2>3, Zenon DEF RoundInv, Rounds, Admits, CompletionAdmits
  <2>5. owner \notin Closed
    BY <2>2, Zenon DEF RoundInv, OwnerState
  <2>6. owner \notin Ended
    BY <2>5 DEF Closed
  <2>7. StopState'
    BY <1>3, Zenon DEF RoundInv, StopState, StopPending
  <2>8. OwnerState'
    BY <1>3, <2>6, Zenon DEF RoundInv, OwnerState
  <2> QED BY <1>5, <2>4, <2>7, <2>8 DEF RoundInv
<1>7. CASE CompleteSample(w)
  <2>1. /\ generation' = [generation EXCEPT
                          ![w] = tr_completion_queue_admission_generation]
        /\ seen' = [seen EXCEPT ![w] = round] /\ UNCHANGED c_items
    BY <1>7, Zenon DEF CompleteSample
  <2>2. generation'[w] <= c_generation /\ seen'[w] = round
    BY <1>1, <1>2, <2>1 DEF tr_completion_queue_admission_generation
  <2>3. \A v \in Workers : /\ generation'[v] <= c_generation
                           /\ CompletionAdmits(generation'[v]) => seen'[v] = round
    BY <1>1, <1>3, <2>2, Zenon DEF RoundInv, Rounds
  <2>4. Rounds'
    BY <1>3, <1>4, <2>1, <2>3, Zenon DEF RoundInv, Rounds, Admits, CompletionAdmits
  <2>5. StopState' /\ OwnerState'
    BY <1>3, <2>1, RoundFrame, Zenon DEF RoundInv
  <2> QED BY <1>5, <2>4, <2>5 DEF RoundInv
<1>8. CASE WorkerNext(w) /\ ~CompleteEnqueue(w) /\ ~CompleteSample(w)
  <2>1. UNCHANGED <<c_items, generation, seen>>
    BY <1>8, ZenonT(30)
       DEF WorkerNext, CompleteGate, CompleteSleep, CompleteRefused,
           CompleteSignal, CompleteSpuriousWake, CompletionSleep
  <2>2. StopState' /\ OwnerState'
    BY <1>3, <2>1, RoundFrame, Zenon DEF RoundInv
  <2>3. Rounds'
    BY <1>3, <2>1, RoundsFrame, Zenon DEF RoundInv
  <2> QED BY <1>5, <2>2, <2>3 DEF RoundInv
<1> QED BY <1>6, <1>7, <1>8

\* start() finds the queues of the last round empty and opens both with fresh
\* generations; stop() closes them before it submits the round's only STOP.
LEMMA RoundController ==
  ASSUME TypeOK, LockLife, RoundInv, ControllerNext
  PROVE  RoundInv'
<1>1. /\ generation \in [Threads -> Nat] /\ wait_generation \in Nat
      /\ c_generation \in Nat /\ round \in Nat
      /\ Callers \subseteq Threads /\ Workers \subseteq Threads
  BY Distinct DEF TypeOK, ThreadType, CommandQueueType, CompletionQueueType, LifeType
<1>2. UNCHANGED <<items, c_items, pc, sync, generation, seen, batch>>
  BY ZenonT(30)
     DEF ControllerNext, Start, StartPublish, StopGate, StopClose, StopForce,
         StopSignal, StopSubmitted, Join, JoinFails, StopDone,
         tr_completion_queue_open, tr_completion_queue_close,
         tr_command_queue_wait_open, tr_command_queue_wait_close,
         tr_command_queue_push_wait_force
<1>3. Awaited'
  BY <1>2, AwaitedFrame, Zenon DEF RoundInv
<1>4. /\ \A c \in Callers : generation[c] \in Nat /\ generation[c] <= wait_generation
      /\ \A w \in Workers : generation[w] \in Nat /\ generation[w] <= c_generation
  BY <1>1, Zenon DEF RoundInv, Rounds
<1>5. /\ \A c \in Callers : /\ generation[c] <= wait_generation + 1
                            /\ generation[c] # wait_generation + 1
      /\ \A w \in Workers : /\ generation[w] <= c_generation + 1
                            /\ generation[w] # c_generation + 1
  BY <1>1, <1>4
<1>6. CASE Start
  <2>1. owner = "none"
    BY <1>6, Zenon DEF Start, LockLife, LifeInv
  <2>2. owner \in Closed /\ owner \in Ended \ {"drain"} /\ owner \in Ended
    BY <2>1 DEF Closed, Ended
  <2>3. /\ items = <<>> /\ stop_command = <<>> /\ batch = <<>> /\ c_items = <<>>
        /\ ~wait_accepting
    BY <2>1, <2>2 DEF RoundInv, OwnerState
  <2>4. /\ UNCHANGED <<stop_command, stop_closed, wait_accepting,
                       wait_generation, started, accepting, stop_submitted>>
        /\ c_generation' = c_generation + 1 /\ owner' = "boot"
        /\ control' = "publish" /\ stopping' = FALSE /\ ~started
    BY <1>6 DEF Start, tr_completion_queue_open
  <2>5. DOMAIN items = {} /\ DOMAIN c_items = {}
    BY <2>3
  <2>6. Rounds'
    BY <1>2, <1>4, <1>5, <2>3, <2>4, <2>5, Zenon DEF Rounds, Admits, CompletionAdmits
  <2>7. ~HasStop(batch) /\ ~HasStop(items)
    BY <2>3 DEF HasStop
  <2>8. StopState'
    BY <1>2, <2>3, <2>4, <2>7 DEF RoundInv, StopState, StopPending
  <2>9. OwnerState'
    BY <1>2, <2>3, <2>4 DEF OwnerState, Closed, Ended
  <2> QED BY <1>3, <2>6, <2>8, <2>9 DEF RoundInv
<1>7. CASE StartPublish
  <2>1. /\ owner = "boot" /\ items = <<>> /\ stop_command = <<>> /\ ~stopping
        /\ batch = <<>>
    BY <1>7 DEF StartPublish, RoundInv, OwnerState
  <2>2. /\ stop_closed' = FALSE /\ wait_generation' = wait_generation + 1
        /\ UNCHANGED <<stop_command, c_accepting, c_generation, stop_submitted,
                       stopping, owner, round>>
        /\ control' = "idle"
    BY <1>7, <2>1 DEF StartPublish, tr_command_queue_wait_open, StopPending
  <2>3. Rounds'
    BY <1>2, <1>5, <2>2, Zenon DEF RoundInv, Rounds, Admits, CompletionAdmits
  <2>4. ~HasStop(batch) /\ ~HasStop(items)
    BY <2>1 DEF HasStop
  <2>5. StopState'
    BY <1>2, <2>1, <2>2, <2>4 DEF StopState, StopPending
  <2>6. OwnerState'
    BY <1>2, <2>1, <2>2 DEF OwnerState, Closed, Ended
  <2> QED BY <1>3, <2>3, <2>5, <2>6 DEF RoundInv
<1>8. CASE StopGate
  <2>1. /\ UNCHANGED <<cqVars, compVars, started, stop_submitted, stopping,
                       ownerVars, round>>
        /\ control = "idle" /\ started
        /\ accepting' => accepting
        /\ \/ control' = "join"
           \/ control' = "close" /\ ~stop_submitted
    BY <1>8, Zenon DEF StopGate
  <2>2. Rounds'
    BY <1>2, <2>1, RoundsFrame, Zenon DEF RoundInv
  <2>3. ~stop_submitted => ~stop_closed /\ owner \notin Closed \cup {"fatal_close"}
    BY <2>1 DEF RoundInv, StopState, OwnerState
  <2>4. StopState'
    BY <2>1, <2>3 DEF RoundInv, StopState, StopPending
  <2>5. OwnerState'
    BY <2>1, <2>3 DEF RoundInv, OwnerState
  <2> QED BY <1>3, <2>2, <2>4, <2>5 DEF RoundInv
<1>9. CASE StopClose
  <2>1. /\ UNCHANGED <<lifeVars, ownerVars, round, stop_command, stop_closed>>
        /\ wait_accepting' = FALSE /\ c_accepting' = FALSE
        /\ wait_generation' = wait_generation + 1
        /\ c_generation' = c_generation + 1
        /\ control = "close" /\ control' = "force"
    BY <1>9 DEF StopClose, tr_completion_queue_close, tr_command_queue_wait_close
  <2>2. Rounds'
    BY <1>2, <1>5, <2>1, Zenon DEF RoundInv, Rounds, Admits, CompletionAdmits
  <2>3. StopState'
    BY <1>2, <2>1 DEF RoundInv, StopState, StopPending
  <2>4. OwnerState'
    BY <1>2, <2>1 DEF RoundInv, OwnerState, StopState
  <2> QED BY <1>3, <2>2, <2>3, <2>4 DEF RoundInv
<1>10. CASE StopForce
  <2>1. /\ control = "force" /\ ~stop_closed /\ ~c_accepting
        /\ owner \notin Closed \cup {"fatal_close"}
    BY <1>10 DEF StopForce, RoundInv, StopState
  <2>2. /\ stop_closed' = TRUE /\ wait_accepting' = FALSE
        /\ control' \in {"signal", "submitted"}
        /\ UNCHANGED <<wait_generation, compVars, started, accepting,
                       stop_submitted, stopping, owner, round>>
    BY <1>10, <2>1 DEF StopForce, tr_command_queue_push_wait_force
  <2>3. Rounds'
    BY <1>2, <2>2, Zenon DEF RoundInv, Rounds, Admits, CompletionAdmits
  <2>4. StopState'
    BY <1>2, <2>1, <2>2 DEF RoundInv, StopState, StopPending
  <2>5. OwnerState'
    BY <1>2, <2>1, <2>2 DEF RoundInv, OwnerState, Closed, Ended
  <2> QED BY <1>3, <2>3, <2>4, <2>5 DEF RoundInv
<1>11. CASE StopSignal \/ StopSubmitted \/ Join \/ JoinFails \/ StopDone
  <2>1. UNCHANGED <<cqVars, compVars, accepting, stopping, batch, round>>
    BY <1>11, Zenon DEF StopSignal, StopSubmitted, Join, JoinFails, StopDone
  <2>2. Rounds'
    BY <1>2, <2>1, RoundsFrame, Zenon DEF RoundInv
  <2>3. /\ control # "publish"
        /\ control' \in {"idle", "submitted", "join", "joined"}
        /\ \/ /\ owner' = owner /\ started' = started
              /\ stop_submitted => stop_submitted'
              /\ control \in {"signal", "submitted"} =>
                   control' \in {"signal", "submitted"} \/ stop_submitted'
           \/ /\ owner = "exited" /\ owner' = "none" /\ control = "join"
              /\ UNCHANGED <<started, stop_submitted>>
           \/ owner' = owner /\ ~started'
    BY <1>11 DEF StopSignal, StopSubmitted, Join, JoinFails, StopDone
  <2>4. StopState'
    BY <1>2, <2>1, <2>3 DEF RoundInv, StopState, StopPending
  <2>5. OwnerState'
    BY <1>2, <2>1, <2>3 DEF RoundInv, OwnerState, Closed, Ended
  <2> QED BY <1>3, <2>2, <2>4, <2>5 DEF RoundInv
<1> QED BY <1>6, <1>7, <1>8, <1>9, <1>10, <1>11 DEF ControllerNext

\* The owner's steps up to its exit that leave the command queue alone keep
\* the state of the round.
LEMMA RoundOwnerTurn ==
  ASSUME TypeOK, LockLife, RoundInv,
         \/ OwnerBoot \/ OwnerCallbackSends \/ OwnerCompletions \/ OwnerPoll
         \/ OwnerPollInterrupted \/ OwnerDrainWake \/ OwnerWokenCompletions
         \/ OwnerPollFails \/ OwnerDispatched
  PROVE  RoundInv'
<1>1. /\ UNCHANGED <<cqVars, c_accepting, c_generation, started, accepting,
                     stop_submitted, fatal_exit, stopping, threadVars, batch,
                     control, round>>
      /\ owner \notin Closed /\ control # "publish"
  <2>1. /\ UNCHANGED <<cqVars, c_accepting, c_generation, started, accepting,
                       stop_submitted, fatal_exit, stopping, threadVars, batch,
                       control, round>>
        /\ owner = "boot" => ctl_lock = NoThread
        /\ owner \in {"boot", "dispatch", "completions", "poll", "wake", "woken"}
    BY ZenonT(30)
       DEF OwnerBoot, OwnerCallbackSends, OwnerCompletions, OwnerPoll,
           OwnerPollInterrupted, OwnerDrainWake, OwnerWokenCompletions,
           OwnerPollFails, OwnerDispatched, tr_completion_queue_pop_batch,
           CtlFree
  <2>2. control # "publish"
    BY <2>1, Distinct DEF RoundInv, OwnerState, LockLife, LockInv
  <2> QED BY <2>1, <2>2 DEF Closed, Ended
<1>2. /\ \A i \in DOMAIN c_items' : \E j \in DOMAIN c_items : c_items'[i] = c_items[j]
      /\ owner' \in Closed => owner' = "drain" /\ owner = "dispatch"
                              /\ stopping /\ batch = <<>>
      /\ owner' # "fatal_close"
      /\ owner' \notin {"dispatch", "nested"} => batch = <<>>
  <2>1. CASE OwnerCompletions \/ OwnerWokenCompletions
    <3>1. PICK max \in Nat : tr_completion_queue_pop_batch(max)
      BY <2>1 DEF OwnerCompletions, OwnerWokenCompletions, TypeOK, OwnerType
    <3>2. owner \in {"completions", "woken"} /\ owner' \in {"poll", "commands"}
      BY <2>1 DEF OwnerCompletions, OwnerWokenCompletions, OwnerGoto
    <3> QED BY <3>1, <3>2, CompletionRingPop DEF RoundInv, OwnerState, Closed, Ended
  <2>2. CASE \/ OwnerBoot \/ OwnerCallbackSends \/ OwnerPoll
             \/ OwnerPollInterrupted \/ OwnerDrainWake \/ OwnerPollFails
             \/ OwnerDispatched
    <3>1. c_items' = c_items
      BY <2>2, Zenon
         DEF OwnerBoot, OwnerCallbackSends, OwnerPoll, OwnerPollInterrupted,
             OwnerDrainWake, OwnerPollFails, OwnerDispatched
    <3>2. \/ owner \in {"boot", "poll", "wake"}
             /\ owner' \in {"commands", "wake", "woken", "fatal"}
          \/ owner = "dispatch" /\ owner' = "nested"
          \/ owner = "dispatch" /\ batch = <<>> /\ owner' = "completions"
          \/ owner = "dispatch" /\ batch = <<>> /\ stopping /\ owner' = "drain"
      BY <2>2
         DEF OwnerBoot, OwnerCallbackSends, OwnerPoll, OwnerPollInterrupted,
             OwnerDrainWake, OwnerPollFails, OwnerDispatched, OwnerGoto
    <3> QED BY <3>1, <3>2 DEF RoundInv, OwnerState, Closed, Ended
  <2> QED BY <2>1, <2>2
<1>3. Rounds'
  BY <1>1, <1>2, Zenon DEF RoundInv, Rounds, Admits, CompletionAdmits
<1>4. Awaited'
  BY <1>1, AwaitedFrame, Zenon DEF RoundInv
<1>5. stopping => ~(control \in {"close", "force"}) /\ stop_closed
  BY DEF RoundInv, StopState
<1>6. StopState'
  <2>1. control \in {"close", "force"} => owner' \notin Closed \cup {"fatal_close"}
    BY <1>2, <1>5
  <2>2. StopState
    BY DEF RoundInv
  <2> QED BY <1>1, <2>1, <2>2, Zenon DEF StopState, StopPending, HasStop
<1>7. owner' \in Closed =>
        /\ ~wait_accepting /\ ~accepting /\ ~c_accepting
        /\ started => stop_submitted \/ control \in {"signal", "submitted"}
        /\ items = <<>> /\ stop_command = <<>>
  BY <1>1, <1>2, <1>5 DEF RoundInv, StopState, LockLife, LifeInv
<1>8. OwnerState'
  BY <1>1, <1>2, <1>7, SMTT(30) DEF RoundInv, OwnerState, Closed, Ended
<1> QED BY <1>3, <1>4, <1>6, <1>8 DEF RoundInv

\* tr_process_commands moves commands from the ring to the batch; STOP comes
\* last, with the ring and its slot left empty.
LEMMA RoundOwnerPop ==
  ASSUME TypeOK, LockLife, RoundInv, OwnerPopCommands
  PROVE  RoundInv'
<1>1. /\ owner = "commands" /\ owner' = "dispatch"
      /\ tr_command_queue_pop_batch(CommandBatch)
      /\ batch' = Popped(CommandBatch) /\ CommandBatch \in Nat \ {0}
      /\ UNCHANGED <<stop_closed, wait_accepting, wait_generation, compVars,
                     lifeVars, threadVars, control, round>>
  BY DEF OwnerPopCommands, OwnerGoto, tr_command_queue_pop_batch
<1>2. /\ \A i \in DOMAIN items' : \E j \in DOMAIN items : items'[i] = items[j]
      /\ \A j \in DOMAIN items :
           \/ \E i \in DOMAIN items' : items'[i] = items[j]
           \/ \E i \in DOMAIN batch' : batch'[i] = items[j]
      /\ \A i \in DOMAIN batch' :
           \/ \E j \in DOMAIN items : batch'[i] = items[j]
           \/ TakesStop(CommandBatch)
      /\ TakesStop(CommandBatch) => items' = <<>> /\ stop_command' = <<>>
      /\ stop_command' = <<>> \/ stop_command' = stop_command
      /\ items = <<>> => items' = <<>>
  BY <1>1, RingPop
<1>3. batch = <<>> /\ control # "publish"
  BY <1>1 DEF RoundInv, OwnerState
<1>4. Rounds'
  <2>1. ASSUME NEW i \in DOMAIN items' PROVE items'[i].round = round
    <3>1. PICK j \in DOMAIN items : items'[i] = items[j]
      BY <1>2, Zenon
    <3> QED BY <3>1 DEF RoundInv, Rounds
  <2> QED BY <1>1, <2>1 DEF RoundInv, Rounds, Admits, CompletionAdmits
<1>5. Awaited'
  <2>1. \A c : ~RefersTo(batch, c)
    BY <1>3 DEF RefersTo
  <2>2. \A c : RefersTo(items, c) => RefersTo(items', c) \/ RefersTo(batch', c)
    BY <1>2, Zenon DEF RefersTo
  <2> QED BY <1>1, <2>1, <2>2, Zenon DEF RoundInv, Awaited
<1>6. ~HasStop(items') /\ (HasStop(batch') => TakesStop(CommandBatch))
  BY <1>2, Zenon DEF RoundInv, StopState, HasStop
<1>7. TakesStop(CommandBatch) => stop_closed
  BY DEF TakesStop, RoundInv, StopState
<1>8. StopState'
  BY <1>1, <1>2, <1>3, <1>6, <1>7 DEF RoundInv, StopState, StopPending, Closed, Ended
<1>9. OwnerState'
  BY <1>1, <1>2, <1>3 DEF OwnerState, Closed, Ended
<1> QED BY <1>4, <1>5, <1>8, <1>9 DEF RoundInv

\* The dispatch of a command completes the caller that waits for it, and STOP
\* only marks the turn as the last one.
LEMMA RoundOwnerDispatch ==
  ASSUME TypeOK, LockLife, RoundInv, OwnerDispatch
  PROVE  RoundInv'
<1>1. /\ owner = "dispatch" /\ batch # <<>> /\ batch' = Tail(batch)
      /\ SyncComplete(Head(batch), "ok")
      /\ stopping' = (stopping \/ Head(batch).type = "stop")
      /\ UNCHANGED <<cqVars, compVars, started, accepting, stop_submitted,
                     pc, generation, seen, owner, control, round>>
  BY Zenon DEF OwnerDispatch
<1>2. /\ \A i \in DOMAIN batch' : \E j \in DOMAIN batch : batch'[i] = batch[j]
      /\ \E j \in DOMAIN batch : batch[j] = Head(batch)
      /\ \A j \in DOMAIN batch : batch[j] = Head(batch)
                                 \/ \E i \in DOMAIN batch' : batch'[i] = batch[j]
  <2>1. /\ batch \in Seq(Commands) /\ Len(batch) \in Nat /\ Len(batch) # 0
        /\ DOMAIN batch = 1 .. Len(batch)
    BY <1>1, EmptySeq, LenProperties DEF TypeOK, OwnerType
  <2>2. /\ Head(batch) = batch[1] /\ batch' \in Seq(Commands)
        /\ Len(batch') = Len(batch) - 1
        /\ \A i \in 1 .. Len(batch') : batch'[i] = batch[i + 1]
    BY <1>1, <2>1, HeadTailProperties
  <2>3. DOMAIN batch' = 1 .. Len(batch) - 1
    BY <2>2, LenProperties
  <2>4. /\ 1 \in DOMAIN batch
        /\ \A i \in 1 .. Len(batch) - 1 : i + 1 \in 1 .. Len(batch)
        /\ \A j \in 1 .. Len(batch) :
             j = 1 \/ (j - 1 \in 1 .. Len(batch) - 1 /\ (j - 1) + 1 = j)
    BY <2>1
  <2>5. \A i \in DOMAIN batch' : \E j \in DOMAIN batch : batch'[i] = batch[j]
    BY <2>1, <2>2, <2>3, <2>4, Zenon
  <2>6. ASSUME NEW j \in DOMAIN batch, j # 1
        PROVE  \E i \in DOMAIN batch' : batch'[i] = batch[j]
    <3>1. j - 1 \in 1 .. Len(batch) - 1 /\ (j - 1) + 1 = j
      BY <2>1, <2>4, <2>6, Zenon
    <3>2. batch'[j - 1] = batch[(j - 1) + 1]
      BY <2>2, <2>3, <3>1, Zenon
    <3> QED BY <2>3, <3>1, <3>2
  <2> QED BY <2>2, <2>4, <2>5, <2>6, Zenon
<1>3. Rounds'
  BY <1>1, RoundsFrame, Zenon DEF RoundInv
<1>4. Awaited'
  <2> SUFFICES ASSUME NEW c \in Callers, pc'[c] \in {"signal", "sync_wait"},
                      sync'[c] = "pending"
               PROVE  RefersTo(items', c) \/ RefersTo(batch', c)
    BY Zenon DEF Awaited
  <2>1. sync[c] = "pending" /\ ~References(Head(batch), c)
    BY <1>1 DEF SyncComplete, References, TypeOK, ThreadType
  <2>2. RefersTo(items, c) \/ RefersTo(batch, c)
    BY <1>1, <2>1 DEF RoundInv, Awaited
  <2>3. RefersTo(batch, c) => RefersTo(batch', c)
    BY <1>2, <2>1, Zenon DEF RefersTo
  <2> QED BY <1>1, <2>2, <2>3
<1>5. HasStop(batch') \/ Head(batch).type = "stop" => HasStop(batch)
  BY <1>2, Zenon DEF HasStop
<1>6. StopState'
  BY <1>1, <1>5 DEF RoundInv, StopState, StopPending
<1>7. OwnerState'
  BY <1>1 DEF RoundInv, OwnerState, Closed, Ended
<1> QED BY <1>3, <1>4, <1>6, <1>7 DEF RoundInv

\* A send issued by a callback enters the ring of the running round.
LEMMA RoundOwnerNested ==
  ASSUME TypeOK, LockLife, RoundInv, OwnerNestedPush
  PROVE  RoundInv'
<1>1. /\ owner = "nested" /\ owner' = "dispatch"
      /\ UNCHANGED <<stop_command, stop_closed, wait_accepting,
                     wait_generation, compVars, started, accepting,
                     stop_submitted, stopping, threadVars, batch, control,
                     round>>
  BY Zenon DEF OwnerNestedPush, OwnerGoto, tr_command_queue_push
<1>2. CASE started /\ accepting /\ PushStatus = "ok"
  <2> DEFINE command == Command("send", Owner, nested, round)
  <2>1. tr_command_queue_enqueue_locked(command) /\ ~stop_closed /\ ~Full
    BY <1>2 DEF OwnerNestedPush, tr_command_queue_push, PushStatus
  <2>2. command \in Commands
    BY CommandType, Zenon DEF TypeOK, LifeType, OwnerType
  <2>3. command.type # "stop" /\ command.round = round
    BY DEF Command
  <2>4. owner \notin Ended /\ control # "publish"
    BY <1>1 DEF Ended, RoundInv, OwnerState
  <2> HIDE DEF command
  <2>5. /\ StopState' /\ OwnerState'
        /\ \A i \in DOMAIN items' : items'[i].round = round
        /\ \A d : RefersTo(items, d) => RefersTo(items', d)
    BY <1>1, <2>1, <2>2, <2>3, <2>4, RoundPush, Zenon DEF RoundInv
  <2>6. Rounds'
    BY <1>1, <2>5, Zenon DEF RoundInv, Rounds, Admits, CompletionAdmits
  <2>7. Awaited'
    BY <1>1, <2>5, AwaitedFrame, Zenon DEF RoundInv
  <2> QED BY <2>5, <2>6, <2>7 DEF RoundInv
<1>3. CASE ~(started /\ accepting /\ PushStatus = "ok")
  <2>1. UNCHANGED items
    BY <1>3 DEF OwnerNestedPush
  <2>2. Rounds'
    BY <1>1, <2>1, RoundsFrame, Zenon DEF RoundInv
  <2>3. Awaited'
    BY <1>1, <2>1, AwaitedFrame, Zenon DEF RoundInv
  <2>4. StopState'
    BY <1>1, <2>1 DEF RoundInv, StopState, StopPending, Closed, Ended
  <2>5. OwnerState'
    BY <1>1, <2>1 DEF RoundInv, OwnerState, Closed, Ended
  <2> QED BY <2>2, <2>3, <2>4, <2>5 DEF RoundInv
<1> QED BY <1>2, <1>3

\* A fatal exit closes the round under ctl_lock, so no stop() is between its
\* gate and its STOP; every command left is aborted and its caller completed.
LEMMA RoundOwnerFatal ==
  ASSUME TypeOK, LockLife, RoundInv, OwnerBeginFatal \/ OwnerFatalClose \/ OwnerAbort
  PROVE  RoundInv'
<1>1. CASE OwnerBeginFatal
  <2>1. /\ UNCHANGED <<cqVars, compVars, started, stopping, threadVars, batch,
                       control, round>>
        /\ owner = "fatal" /\ owner' = "fatal_close" /\ ctl_lock = NoThread
        /\ accepting' = FALSE /\ stop_submitted' = TRUE
    BY <1>1 DEF OwnerBeginFatal, OwnerGoto, CtlFree
  <2>2. control \notin {"publish", "close", "force"}
    BY <2>1, Distinct DEF LockLife, LockInv
  <2>3. Rounds'
    BY <2>1, RoundsFrame, Zenon DEF RoundInv
  <2>4. Awaited'
    BY <2>1, AwaitedFrame, Zenon DEF RoundInv
  <2>5. StopState'
    BY <2>1, <2>2 DEF RoundInv, StopState, StopPending
  <2>6. OwnerState'
    BY <2>1, <2>2 DEF RoundInv, OwnerState, Closed, Ended
  <2> QED BY <2>3, <2>4, <2>5, <2>6 DEF RoundInv
<1>2. CASE OwnerFatalClose
  <2>1. /\ UNCHANGED <<items, stop_command, stop_closed, c_items, started,
                       accepting, stop_submitted, stopping, threadVars, batch,
                       control, round>>
        /\ wait_generation' = wait_generation + 1
        /\ c_generation' = c_generation + 1
        /\ wait_accepting' = FALSE /\ c_accepting' = FALSE
        /\ owner = "fatal_close" /\ owner' = "abort"
    BY <1>2 DEF OwnerFatalClose, OwnerGoto, tr_command_queue_wait_close,
                tr_completion_queue_close
  <2>2. control \notin {"publish", "close", "force"} /\ ~accepting
    BY <2>1 DEF RoundInv, StopState, OwnerState, LockLife, LifeInv
  <2>3. /\ \A c \in Callers : generation[c] <= wait_generation + 1
        /\ \A w \in Workers : generation[w] <= c_generation + 1
    <3>1. /\ wait_generation \in Nat /\ c_generation \in Nat
          /\ \A t \in Threads : generation[t] \in Nat
          /\ Callers \subseteq Threads /\ Workers \subseteq Threads
      BY Distinct DEF TypeOK, CommandQueueType, CompletionQueueType, ThreadType
    <3>2. /\ \A c \in Callers : generation[c] \in Nat /\ generation[c] <= wait_generation
          /\ \A w \in Workers : generation[w] \in Nat /\ generation[w] <= c_generation
      BY <3>1, Zenon DEF RoundInv, Rounds
    <3> QED BY <3>1, <3>2
  <2>4. Rounds'
    BY <2>1, <2>3, Zenon DEF RoundInv, Rounds, Admits, CompletionAdmits
  <2>5. Awaited'
    BY <2>1, AwaitedFrame, Zenon DEF RoundInv
  <2>6. StopState'
    BY <2>1, <2>2 DEF RoundInv, StopState, StopPending
  <2>7. OwnerState'
    BY <2>1, <2>2 DEF RoundInv, OwnerState, Closed, Ended
  <2> QED BY <2>4, <2>5, <2>6, <2>7 DEF RoundInv
<1>3. CASE OwnerAbort
  <2> DEFINE popped == Popped(CommandBatch)
  <2>1. /\ owner = "abort" /\ owner' = IF popped = <<>> THEN "drain" ELSE "abort"
        /\ tr_command_queue_pop_batch(CommandBatch) /\ CommandBatch \in Nat \ {0}
        /\ sync' = [c \in Callers |-> IF Aborted(c) THEN "sys" ELSE sync[c]]
        /\ UNCHANGED <<stop_closed, wait_accepting, wait_generation, compVars,
                       lifeVars, pc, generation, seen, batch, control, round>>
    BY <1>3 DEF OwnerAbort, OwnerGoto, tr_command_queue_pop_batch
  <2>2. /\ \A i \in DOMAIN items' : \E j \in DOMAIN items : items'[i] = items[j]
        /\ \A j \in DOMAIN items :
             \/ \E i \in DOMAIN items' : items'[i] = items[j]
             \/ \E i \in DOMAIN popped : popped[i] = items[j]
        /\ Len(popped) # CommandBatch => items' = <<>> /\ stop_command' = <<>>
        /\ stop_command' = <<>> \/ stop_command' = stop_command
        /\ items = <<>> => items' = <<>>
    BY <2>1, RingPop
  <2>3. popped = <<>> => items' = <<>> /\ stop_command' = <<>>
    BY <2>2
  <2>4. /\ batch = <<>> /\ control \notin {"publish", "close", "force"}
        /\ ~wait_accepting /\ ~accepting /\ ~c_accepting
    BY <2>1 DEF RoundInv, OwnerState, StopState, Closed
  <2>5. Rounds'
    <3>1. ASSUME NEW i \in DOMAIN items' PROVE items'[i].round = round
      <4>1. PICK j \in DOMAIN items : items'[i] = items[j]
        BY <2>2, Zenon
      <4> QED BY <4>1 DEF RoundInv, Rounds
    <3> QED BY <2>1, <3>1 DEF RoundInv, Rounds, Admits, CompletionAdmits
  <2>6. Awaited'
    <3> SUFFICES ASSUME NEW c \in Callers, pc'[c] \in {"signal", "sync_wait"},
                        sync'[c] = "pending"
                 PROVE  RefersTo(items', c)
      BY Zenon DEF Awaited
    <3>1. sync[c] = "pending" /\ ~Aborted(c)
      BY <2>1
    <3>2. ~RefersTo(batch, c)
      <4>1. batch = <<>>
        BY <2>4, Zenon
      <4>2. DOMAIN batch = {}
        BY <4>1
      <4> QED BY <4>2, Zenon DEF RefersTo
    <3>3. RefersTo(items, c)
      BY <2>1, <3>1, <3>2 DEF RoundInv, Awaited
    <3> QED BY <2>2, <3>1, <3>3, Zenon DEF RefersTo, References, Aborted
  <2> HIDE DEF popped
  <2>7. ~HasStop(items')
    BY <2>2, Zenon DEF RoundInv, StopState, HasStop
  <2>8. StopState'
    BY <2>1, <2>2, <2>4, <2>7 DEF RoundInv, StopState, StopPending
  <2>9. OwnerState'
    BY <2>1, <2>3, <2>4 DEF RoundInv, OwnerState, Closed, Ended
  <2> QED BY <2>5, <2>6, <2>8, <2>9 DEF RoundInv
<1> QED BY <1>1, <1>2, <1>3

\* The drains before the thread ends empty the completion queue, which admits
\* nobody any more.
LEMMA RoundOwnerExit ==
  ASSUME TypeOK, LockLife, RoundInv, OwnerDrain \/ OwnerCleanup
  PROVE  RoundInv'
<1>1. /\ UNCHANGED <<cqVars, c_accepting, c_generation, lifeVars, threadVars,
                     batch, control, round>>
      /\ owner \in Ended \ {"none"} /\ owner' \in Ended \ {"none"}
      /\ owner' # "drain" => c_items' = <<>>
      /\ \A i \in DOMAIN c_items' : \E j \in DOMAIN c_items : c_items'[i] = c_items[j]
  <2>1. CASE OwnerDrain
    <3>1. /\ \A i \in DOMAIN c_items' :
               \E j \in DOMAIN c_items : c_items'[i] = c_items[j]
          /\ ~CompletionHasMore(CompletionBatch) => c_items' = <<>>
      BY <2>1, CompletionRingPop DEF OwnerDrain
    <3>2. CompletionHasMore(CompletionBatch) => c_items # <<>>
      <4>1. Len(<<>>) = 0 /\ CompletionBatch \in Nat
        OBVIOUS
      <4> QED BY <4>1 DEF CompletionHasMore, CompletionPopCount
    <3>3. /\ owner \in {"drain", "drain_again"}
          /\ owner' = IF CompletionHasMore(CompletionBatch) THEN owner
                      ELSE IF owner = "drain" THEN "cleanup" ELSE "exited"
          /\ UNCHANGED <<cqVars, c_accepting, c_generation, lifeVars,
                         threadVars, batch, control, round>>
      BY <2>1 DEF OwnerDrain, OwnerGoto, tr_completion_queue_pop_batch
    <3>4. owner = "drain_again" => c_items = <<>>
      BY DEF RoundInv, OwnerState, Ended
    <3> QED BY <3>1, <3>2, <3>3, <3>4 DEF Ended
  <2>2. CASE OwnerCleanup
    <3>1. /\ owner = "cleanup" /\ owner' \in {"drain_again", "exited"}
          /\ UNCHANGED <<cqVars, compVars, lifeVars, threadVars, batch,
                         control, round>>
      BY <2>2 DEF OwnerCleanup, OwnerGoto
    <3> QED BY <3>1, Zenon DEF RoundInv, OwnerState, Ended
  <2> QED BY <2>1, <2>2
<1>2. Rounds'
  BY <1>1, Zenon DEF RoundInv, Rounds, Admits, CompletionAdmits
<1>3. Awaited'
  BY <1>1, AwaitedFrame, Zenon DEF RoundInv
<1>4. StopState'
  BY <1>1 DEF RoundInv, StopState, StopPending, Closed, Ended
<1>5. OwnerState'
  BY <1>1 DEF RoundInv, OwnerState, Closed, Ended
<1> QED BY <1>2, <1>3, <1>4, <1>5 DEF RoundInv

\* What belongs to a round ends with it, for every number of threads, every
\* queue capacity, every batch size and any number of restarts: nothing
\* accepted is left to an owner thread that has ended, no caller waits for
\* it, and no command, completion or STOP of one round reaches another.
THEOREM RoundsIsolated == Spec => []RoundIsolation
<1>1. Init => RoundInv
  <2> SUFFICES ASSUME Init PROVE RoundInv
    OBVIOUS
  <2>1. /\ items = <<>> /\ stop_command = <<>> /\ batch = <<>> /\ c_items = <<>>
        /\ ~stop_closed /\ ~wait_accepting /\ ~c_accepting /\ ~started
        /\ ~accepting /\ ~stopping /\ control = "idle" /\ owner = "none"
        /\ wait_generation = 0 /\ c_generation = 0
        /\ \A t \in Threads : pc[t] = "idle" /\ generation[t] = 0
    BY DEF Init, CommandQueueInit, CompletionQueueInit
  <2>2. DOMAIN items = {} /\ DOMAIN batch = {} /\ DOMAIN c_items = {}
    BY <2>1
  <2>3. StopState
    BY <2>1, <2>2 DEF StopState, StopPending, HasStop
  <2>4. OwnerState
    BY <2>1 DEF OwnerState
  <2>5. Rounds
    BY <2>1, <2>2, Distinct DEF Rounds, Admits, CompletionAdmits
  <2>6. Awaited
    BY <2>1, Distinct DEF Awaited
  <2> QED BY <2>3, <2>4, <2>5, <2>6 DEF RoundInv
<1>2. TypeOK /\ LockLife /\ RoundInv /\ [Next]_vars => RoundInv'
  <2> SUFFICES ASSUME TypeOK, LockLife, RoundInv, [Next]_vars PROVE RoundInv'
    OBVIOUS
  <2>1. CASE UNCHANGED vars
    BY <2>1, RoundFrame, RoundsFrame, AwaitedFrame, Zenon DEF vars, RoundInv
  <2>2. CASE OwnerNext
    BY <2>2, RoundOwnerTurn, RoundOwnerPop, RoundOwnerDispatch, RoundOwnerNested,
       RoundOwnerFatal, RoundOwnerExit, Zenon DEF OwnerNext, OwnerStep
  <2> QED BY <2>1, <2>2, RoundCaller, RoundSender, RoundWorker,
             RoundController, Zenon DEF Next, Terminated
<1>3. RoundInv => RoundIsolation
  <2> SUFFICES ASSUME RoundInv PROVE RoundIsolation
    OBVIOUS
  <2>1. owner \in {"exited", "none"} =>
          /\ items = <<>> /\ stop_command = <<>> /\ batch = <<>>
          /\ c_items = <<>>
    BY DEF RoundInv, OwnerState, Ended
  <2>2. NothingLeftBehind
    <3>1. items = <<>> /\ batch = <<>> =>
            \A c \in Callers : ~RefersTo(items, c) /\ ~RefersTo(batch, c)
      BY DEF RefersTo
    <3> QED BY <2>1, <3>1, Zenon DEF NothingLeftBehind, RoundInv, Awaited
  <2> QED BY <2>2 DEF RoundIsolation, RoundInv, Rounds, StopState, OwnerState,
                      StopPending
<1> QED BY <1>1, <1>2, <1>3, TypeCorrect, LockLifeInvariant, PTL DEF Spec
=============================================================================
