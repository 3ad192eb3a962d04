------------------------- MODULE ReactorTypeProofs --------------------------
(***************************************************************************)
(* Type correctness of ReactorLifecycle for every number of threads, every *)
(* queue capacity, every batch size and every number of rounds, and the    *)
(* lemmas on the queue operators that the other proof modules use.         *)
(***************************************************************************)
EXTENDS ReactorLifecycle, SequenceTheorems, TLAPS

USE CapacityAssumption, SequenceLimitAssumption, CompletionCapacityAssumption,
    BatchAssumption, BoundAssumption

-----------------------------------------------------------------------------
(* What the queue operators do to the contents of a queue.                 *)

\* Sequence numbers stay naturals when they wrap past 0.
LEMMA NextSequenceType ==
  ASSUME NEW s \in Nat
  PROVE  NextSequence(s) \in Nat
BY DEF NextSequence

\* An accepted command goes to the tail of a ring that has room, with a fresh
\* sequence number and otherwise unchanged.
LEMMA EnqueueLocked ==
  ASSUME CommandQueueType, NEW command \in Commands, ~Full,
         tr_command_queue_enqueue_locked(command)
  PROVE  /\ items' \in Seq(Commands) /\ Len(items') = Len(items) + 1
         /\ Len(items') <= Capacity
         /\ \A i \in 1 .. Len(items) : items'[i] = items[i]
         /\ items'[Len(items) + 1] =
              [command EXCEPT !.sequence = next_sequence']
         /\ next_sequence' \in Nat /\ wake_pending' \in BOOLEAN
<1> DEFINE queued == [command EXCEPT !.sequence = next_sequence']
<1>1. next_sequence' \in Nat
  BY NextSequenceType DEF CommandQueueType, tr_command_queue_enqueue_locked
<1>2. queued \in Commands
  BY <1>1 DEF Commands
<1>3. items' = Append(items, queued)
  BY DEF tr_command_queue_enqueue_locked
<1> HIDE DEF queued
<1>4. /\ items' \in Seq(Commands) /\ Len(items') = Len(items) + 1
      /\ \A i \in 1 .. Len(items) : items'[i] = items[i]
      /\ items'[Len(items) + 1] = queued
  BY <1>2, <1>3, AppendProperties DEF CommandQueueType
<1>5. Len(items') <= Capacity
  BY <1>4, LenProperties DEF CommandQueueType, Full
<1> QED
  BY <1>1, <1>4, <1>5 DEF queued, tr_command_queue_enqueue_locked

\* A batch is a prefix of the ring, followed by STOP when it was taken; what
\* stays in the ring is the rest, in order.
LEMMA PopBatch ==
  ASSUME CommandQueueType, NEW max \in Nat, tr_command_queue_pop_batch(max)
  PROVE  /\ PopCount(max) \in 0 .. Len(items)
         /\ items' \in Seq(Commands)
         /\ Len(items') = Len(items) - PopCount(max)
         /\ \A i \in 1 .. Len(items') : items'[i] = items[i + PopCount(max)]
         /\ Popped(max) \in Seq(Commands)
         /\ Len(Popped(max)) \in PopCount(max) .. PopCount(max) + Len(stop_command)
         /\ \A i \in 1 .. PopCount(max) : Popped(max)[i] = items[i]
         /\ \A i \in PopCount(max) + 1 .. Len(Popped(max)) :
              Popped(max)[i] = stop_command[i - PopCount(max)]
         /\ ~TakesStop(max) => Len(Popped(max)) = PopCount(max)
         /\ stop_command' \in Seq(Commands) /\ CommandQueueType'
<1> DEFINE k == PopCount(max)
           front == SubSeq(items, 1, k)
           stop == IF TakesStop(max) THEN stop_command ELSE <<>>
<1>1. Len(items) \in Nat /\ \A i \in 1 .. Len(items) : items[i] \in Commands
  BY LenProperties, ElementOfSeq DEF CommandQueueType
<1>2. k \in 0 .. Len(items)
  BY <1>1 DEF PopCount
<1>3. items' = SubSeq(items, k + 1, Len(items))
  BY DEF tr_command_queue_pop_batch, Remaining
<1> HIDE DEF k
<1>4. /\ items' \in Seq(Commands) /\ Len(items') = Len(items) - k
      /\ \A i \in 1 .. Len(items') : items'[i] = items[i + k]
  <2>1. k + 1 \in Int /\ Len(items) \in Int
    BY <1>1, <1>2
  <2>2. \A i \in k + 1 .. Len(items) : items[i] \in Commands
    BY <1>1, <1>2
  <2>3. /\ items' \in Seq(Commands)
        /\ Len(items') = IF k + 1 <= Len(items) THEN Len(items) - (k+1) + 1
                                                ELSE 0
        /\ \A i \in 1 .. Len(items) - (k + 1) + 1 :
             items'[i] = items[(k + 1) + i - 1]
    BY <1>3, <2>1, <2>2, SubSeqProperties
  <2> QED BY <2>3, <1>1, <1>2
<1>5. /\ front \in Seq(Commands) /\ Len(front) = k
      /\ \A i \in 1 .. k : front[i] = items[i]
  <2>1. \A i \in 1 .. k : items[i] \in Commands
    BY <1>1, <1>2
  <2>2. k \in Int
    BY <1>2
  <2>3. /\ front \in Seq(Commands)
        /\ Len(front) = IF 1 <= k THEN k - 1 + 1 ELSE 0
        /\ \A i \in 1 .. k - 1 + 1 : front[i] = items[1 + i - 1]
    BY <2>1, <2>2, SubSeqProperties
  <2> QED BY <2>3, <1>1, <1>2
<1>6. /\ stop \in Seq(Commands) /\ Len(stop) \in 0 .. Len(stop_command)
      /\ \A i \in 1 .. Len(stop) : stop[i] = stop_command[i]
  BY EmptySeq, LenProperties DEF CommandQueueType
<1>7. Popped(max) = front \o stop
  BY DEF Popped, k
<1>12. ~TakesStop(max) => Len(stop) = 0
  BY EmptySeq
<1> HIDE DEF front, stop
<1>8. /\ Popped(max) \in Seq(Commands) /\ Len(Popped(max)) = k + Len(stop)
      /\ \A i \in 1 .. k + Len(stop) :
           Popped(max)[i] = IF i <= k THEN front[i] ELSE stop[i - k]
  BY <1>5, <1>6, <1>7, ConcatProperties
<1>9. stop_command' \in Seq(Commands)
  BY EmptySeq DEF tr_command_queue_pop_batch, CommandQueueType
<1>10. CommandQueueType'
  BY <1>1, <1>2, <1>4, <1>9
     DEF tr_command_queue_pop_batch, CommandQueueType
<1>11. /\ Len(Popped(max)) \in k .. k + Len(stop_command)
       /\ \A i \in 1 .. k : Popped(max)[i] = items[i]
       /\ \A i \in k + 1 .. Len(Popped(max)) :
              Popped(max)[i] = stop_command[i - k]
  <2>1. k \in Nat /\ Len(stop) \in Nat /\ Len(stop_command) \in Nat
    BY <1>1, <1>2, <1>6, LenProperties DEF CommandQueueType
  <2>2. Len(Popped(max)) \in k .. k + Len(stop_command)
    BY <2>1, <1>6, <1>8
  <2>3. \A i \in 1 .. k : Popped(max)[i] = items[i]
    BY <2>1, <1>5, <1>8
  <2>4. \A i \in k + 1 .. Len(Popped(max)) : Popped(max)[i] = stop_command[i - k]
    <3> SUFFICES ASSUME NEW i \in k + 1 .. k + Len(stop)
                 PROVE  Popped(max)[i] = stop_command[i - k]
      BY <1>8
    <3>1. i \in 1 .. k + Len(stop) /\ ~(i <= k) /\ i - k \in 1 .. Len(stop)
      BY <2>1
    <3> QED BY <3>1, <1>6, <1>8
  <2> QED BY <2>2, <2>3, <2>4
<1>13. ~TakesStop(max) => Len(Popped(max)) = k
  BY <1>2, <1>8, <1>12
<1> QED BY <1>2, <1>4, <1>8, <1>9, <1>10, <1>11, <1>13 DEF k

\* The completion queue's batch leaves the tail of its ring.
LEMMA CompletionPopBatch ==
  ASSUME CompletionQueueType, NEW max \in Nat,
         tr_completion_queue_pop_batch(max)
  PROVE  /\ CompletionQueueType'
         /\ CompletionPopCount(max) \in 0 .. max
         /\ CompletionHasMore(max) \in BOOLEAN
<1> DEFINE k == CompletionPopCount(max)
<1>1. /\ Len(c_items) \in Nat
      /\ \A i \in 1 .. Len(c_items) : c_items[i] \in Completions
  BY LenProperties, ElementOfSeq DEF CompletionQueueType
<1>2. k \in 0 .. Len(c_items) /\ k <= max
  BY <1>1 DEF CompletionPopCount
<1>3. c_items' = SubSeq(c_items, k + 1, Len(c_items))
  BY DEF tr_completion_queue_pop_batch
<1>4. CompletionHasMore(max) \in BOOLEAN
  BY DEF CompletionHasMore
<1> HIDE DEF k
<1>5. c_items' \in Seq(Completions) /\ Len(c_items') <= Len(c_items)
  <2>1. \A i \in k + 1 .. Len(c_items) : c_items[i] \in Completions
    BY <1>1, <1>2
  <2>2. /\ c_items' \in Seq(Completions)
        /\ Len(c_items') = IF k + 1 <= Len(c_items)
                             THEN Len(c_items) - (k + 1) + 1 ELSE 0
    BY <1>1, <1>2, <1>3, <2>1, SubSeqProperties
  <2> QED BY <2>2, <1>1, <1>2
<1>6. Len(c_items') <= CompletionCapacity
  BY <1>1, <1>5, LenProperties DEF CompletionQueueType
<1>7. CompletionQueueType'
  BY <1>4, <1>5, <1>6 DEF CompletionQueueType, tr_completion_queue_pop_batch
<1> QED BY <1>2, <1>4, <1>7 DEF k

\* Closing either queue's round only advances its generation.
LEMMA WaitCloseType ==
  ASSUME CommandQueueType, tr_command_queue_wait_close
  PROVE  CommandQueueType'
<1>1. wait_generation' \in Nat
  BY DEF CommandQueueType, tr_command_queue_wait_close
<1> QED BY <1>1, Zenon DEF CommandQueueType, tr_command_queue_wait_close

\* Closing the completion round keeps the types of its queue.
LEMMA CompletionCloseType ==
  ASSUME CompletionQueueType, tr_completion_queue_close
  PROVE  CompletionQueueType'
<1>1. c_generation' \in Nat
  BY DEF CompletionQueueType, tr_completion_queue_close
<1> QED BY <1>1, Zenon DEF CompletionQueueType, tr_completion_queue_close

-----------------------------------------------------------------------------
(* Type correctness, one lemma per group of actions.                       *)

USE DEF cqVars, compVars, lifeVars, threadVars, ownerVars

\* A step keeps the types of every part of the state that it leaves alone.
LEMMA TypeFrame ==
  /\ CommandQueueType /\ UNCHANGED cqVars => CommandQueueType'
  /\ CompletionQueueType /\ UNCHANGED compVars => CompletionQueueType'
  /\ LifeType /\ UNCHANGED <<lifeVars, control, round>> => LifeType'
  /\ ThreadType /\ UNCHANGED threadVars => ThreadType'
  /\ OwnerType /\ UNCHANGED ownerVars => OwnerType'
<1>1. CommandQueueType /\ UNCHANGED cqVars => CommandQueueType'
  BY Zenon DEF CommandQueueType
<1>2. CompletionQueueType /\ UNCHANGED compVars => CompletionQueueType'
  BY Zenon DEF CompletionQueueType
<1>3. LifeType /\ UNCHANGED <<lifeVars, control, round>> => LifeType'
  BY Zenon DEF LifeType
<1>4. ThreadType /\ UNCHANGED threadVars => ThreadType'
  BY Zenon DEF ThreadType
<1>5. OwnerType /\ UNCHANGED ownerVars => OwnerType'
  BY Zenon DEF OwnerType
<1> QED BY <1>1, <1>2, <1>3, <1>4, <1>5, Zenon

\* The commands the model submits are well formed.
LEMMA CommandType ==
  ASSUME NEW type \in {"call", "send", "stop"},
         NEW t \in Threads \cup {Controller, Owner},
         NEW n \in Nat, NEW r \in Nat
  PROVE  Command(type, t, n, r) \in Commands
BY DEF Command, Commands

\* A caller's step preserves the types.
LEMMA CallerType ==
  ASSUME TypeOK, NEW c \in Callers, CallerNext(c)
  PROVE  TypeOK'
<1>1. CASE CallAdmit(c)
  <2>1. tr_command_queue_wait_generation \in Nat
    BY DEF tr_command_queue_wait_generation, TypeOK, CommandQueueType
  <2>2. /\ generation' \in [Threads -> Nat] /\ seen' \in [Threads -> Nat]
        /\ calls' \in [Threads -> Nat]
    BY <1>1, <2>1 DEF CallAdmit, Begin, TypeOK, ThreadType, LifeType, Threads
  <2>3. ThreadType'
    BY <1>1, <2>2 DEF CallAdmit, Goto, TypeOK, ThreadType, Threads
  <2> QED BY <1>1, <2>3 DEF TypeOK, CommandQueueType, CompletionQueueType,
                            LifeType, OwnerType, CallAdmit
<1>2. CASE CallStopped(c)
  <2>1. ThreadType'
    BY <1>2, SMTT(30) DEF CallStopped, Begin, Goto, Threads, TypeOK, ThreadType
  <2>2. LifeType'
    BY <1>2, Zenon DEF CallStopped, Threads, TypeOK, LifeType
  <2> QED BY <1>2, <2>1, <2>2, TypeFrame, Zenon DEF CallStopped, TypeOK
<1>3. CASE CallStoppedReturn(c)
  BY <1>3
     DEF TypeOK, CommandQueueType, CompletionQueueType, LifeType, ThreadType, OwnerType,
         CallStoppedReturn, Goto, Threads
<1>4. CASE CallSleep(c)
  <2>1. CommandQueueType'
    BY <1>4, SMTT(30) DEF CallSleep, PushWaitSleep, TypeOK, CommandQueueType
  <2> QED BY <1>4, <2>1, TypeFrame, Zenon DEF CallSleep, TypeOK
<1>5. CASE CallRefused(c)
  <2>1. ThreadType'
    BY <1>5, SMTT(30) DEF CallRefused, Goto, Threads, TypeOK, ThreadType
  <2> QED BY <1>5, <2>1, TypeFrame, Zenon DEF CallRefused, TypeOK
<1>6. CASE CallEnqueue(c)
  <2>1. ~Full /\ tr_command_queue_enqueue_locked(Command("call", c, calls[c], seen[c]))
    BY <1>6 DEF CallEnqueue, PushWaitEnqueue
  <2>2. Command("call", c, calls[c], seen[c]) \in Commands
    BY CommandType DEF TypeOK, ThreadType, Threads
  <2>3. CommandQueueType'
    BY <1>6, <2>1, <2>2, EnqueueLocked, Zenon
       DEF TypeOK, CommandQueueType, CallEnqueue, PushWaitEnqueue
  <2> QED BY <1>6, <2>3 DEF TypeOK, CompletionQueueType, LifeType, ThreadType,
                            OwnerType, CallEnqueue, Goto, Threads
<1>7. CASE CallSignal(c)
  BY <1>7
     DEF TypeOK, CommandQueueType, CompletionQueueType, LifeType, ThreadType, OwnerType,
         CallSignal, Goto, Threads
<1>8. CASE CallReturn(c)
  BY <1>8
     DEF TypeOK, CommandQueueType, CompletionQueueType, LifeType, ThreadType, OwnerType,
         CallReturn, Goto, Threads
<1>9. CASE CallSpuriousWake(c)
  BY <1>9
     DEF TypeOK, CommandQueueType, CompletionQueueType, LifeType, ThreadType, OwnerType,
         CallSpuriousWake
<1> QED BY <1>1, <1>2, <1>3, <1>4, <1>5, <1>6, <1>7, <1>8, <1>9 DEF CallerNext

\* A sender's step preserves the types.
LEMMA SenderType ==
  ASSUME TypeOK, NEW s \in Senders, SenderNext(s)
  PROVE  TypeOK'
<1>1. CASE SendRefused(s)
  <2>1. ThreadType'
    BY <1>1, SMTT(30) DEF SendRefused, Begin, Threads, TypeOK, ThreadType
  <2> QED BY <1>1, <2>1, TypeFrame, Zenon DEF SendRefused, TypeOK
<1>2. CASE SendPush(s)
  <2>1. /\ calls' \in [Threads -> Nat] /\ seen' \in [Threads -> Nat]
        /\ calls'[s] \in Nat
    BY <1>2 DEF SendPush, Begin, TypeOK, ThreadType, LifeType, Threads
  <2>2. /\ ~Full
        /\ tr_command_queue_enqueue_locked(Command("send", s, calls'[s], round))
    BY <1>2 DEF SendPush, tr_command_queue_push, PushStatus
  <2>3. Command("send", s, calls'[s], round) \in Commands
    BY <2>1, CommandType DEF TypeOK, LifeType, Threads
  <2>4. CommandQueueType'
    BY <1>2, <2>2, <2>3, EnqueueLocked, Zenon
       DEF TypeOK, CommandQueueType, SendPush, tr_command_queue_push
  <2> QED BY <1>2, <2>1, <2>4, ZenonT(30) DEF TypeOK, CompletionQueueType, LifeType,
                            ThreadType, OwnerType, SendPush, Goto, Threads
<1>3. CASE SendSignal(s)
  BY <1>3
     DEF TypeOK, CommandQueueType, CompletionQueueType, LifeType, ThreadType, OwnerType,
         SendSignal, Goto, Threads
<1> QED BY <1>1, <1>2, <1>3 DEF SenderNext

\* A worker's step preserves the types.
LEMMA WorkerType ==
  ASSUME TypeOK, NEW w \in Workers, WorkerNext(w)
  PROVE  TypeOK'
<1>1. CASE CompleteSample(w)
  <2>1. tr_completion_queue_admission_generation \in Nat
    BY DEF tr_completion_queue_admission_generation, TypeOK, CompletionQueueType
  <2>2. /\ generation' \in [Threads -> Nat] /\ seen' \in [Threads -> Nat]
        /\ calls' \in [Threads -> Nat]
    BY <1>1, <2>1 DEF CompleteSample, Begin, TypeOK, ThreadType, LifeType, Threads
  <2>3. ThreadType'
    BY <1>1, <2>2 DEF CompleteSample, Goto, TypeOK, ThreadType, Threads
  <2> QED BY <1>1, <2>3 DEF TypeOK, CommandQueueType, CompletionQueueType,
                            LifeType, OwnerType, CompleteSample
<1>2. CASE CompleteGate(w)
  BY <1>2
     DEF TypeOK, CommandQueueType, CompletionQueueType, LifeType, ThreadType, OwnerType,
         CompleteGate, Goto, Threads
<1>3. CASE CompleteSleep(w)
  <2>1. CompletionQueueType'
    BY <1>3, SMTT(30)
       DEF CompleteSleep, CompletionSleep, TypeOK, CompletionQueueType
  <2> QED BY <1>3, <2>1, TypeFrame, Zenon DEF CompleteSleep, TypeOK
<1>4. CASE CompleteRefused(w)
  BY <1>4
     DEF TypeOK, CommandQueueType, CompletionQueueType, LifeType, ThreadType, OwnerType,
         CompleteRefused, Goto, Threads
<1>5. CASE CompleteEnqueue(w)
  <2> DEFINE completion == [from |-> w, round |-> seen[w]]
  <2>1. completion \in Completions
    BY DEF Completions, TypeOK, ThreadType, Threads
  <2>2. c_items' = Append(c_items, completion) /\ ~CompletionFull
    BY <1>5 DEF CompleteEnqueue, CompletionEnqueue
  <2> HIDE DEF completion
  <2>3. c_items' \in Seq(Completions) /\ Len(c_items') = Len(c_items) + 1
    BY <2>1, <2>2, AppendProperties DEF TypeOK, CompletionQueueType
  <2>4. Len(c_items') <= CompletionCapacity
    <3>1. Len(c_items) \in Nat /\ Len(c_items) <= CompletionCapacity
      BY LenProperties DEF TypeOK, CompletionQueueType
    <3> QED BY <2>2, <2>3, <3>1 DEF CompletionFull
  <2>5. CompletionQueueType'
    BY <1>5, <2>3, <2>4
       DEF TypeOK, CompletionQueueType, CompleteEnqueue, CompletionEnqueue
  <2> QED BY <1>5, <2>5 DEF TypeOK, CommandQueueType, LifeType, ThreadType,
                            OwnerType, CompleteEnqueue, Goto, Threads
<1>6. CASE CompleteSignal(w)
  BY <1>6
     DEF TypeOK, CommandQueueType, CompletionQueueType, LifeType, ThreadType, OwnerType,
         CompleteSignal, Goto, Threads
<1>7. CASE CompleteSpuriousWake(w)
  BY <1>7
     DEF TypeOK, CommandQueueType, CompletionQueueType, LifeType, ThreadType, OwnerType,
         CompleteSpuriousWake
<1> QED BY <1>1, <1>2, <1>3, <1>4, <1>5, <1>6, <1>7 DEF WorkerNext

\* start() and stop() preserve the types.
LEMMA ControllerType ==
  ASSUME TypeOK, ControllerNext
  PROVE  TypeOK'
<1>1. CASE Start
  <2>1. CompletionQueueType'
    BY <1>1 DEF Start, TypeOK, CompletionQueueType, tr_completion_queue_open
  <2>2. LifeType'
    <3>1. round' \in Nat
      BY <1>1 DEF Start, TypeOK, LifeType
    <3> QED BY <1>1, <3>1, Zenon DEF Start, TypeOK, LifeType, ControlStates
  <2>3. OwnerType'
    BY <1>1 DEF Start, TypeOK, OwnerType, OwnerStates
  <2>4. CommandQueueType'
    BY <1>1 DEF Start, TypeOK, CommandQueueType
  <2>5. ThreadType'
    BY <1>1 DEF Start, TypeOK, ThreadType
  <2> QED BY <2>1, <2>2, <2>3, <2>4, <2>5 DEF TypeOK
<1>2. CASE StartPublish
  <2>1. CommandQueueType'
    <3>1. wait_generation' \in Nat
      BY <1>2 DEF StartPublish, TypeOK, CommandQueueType,
                  tr_command_queue_wait_open
    <3> QED BY <1>2, <3>1, Zenon DEF StartPublish, TypeOK, CommandQueueType,
                  tr_command_queue_wait_open
  <2>2. LifeType'
    BY <1>2 DEF StartPublish, TypeOK, LifeType, ControlStates
  <2>3. CompletionQueueType'
    BY <1>2 DEF StartPublish, TypeOK, CompletionQueueType
  <2>4. ThreadType'
    BY <1>2 DEF StartPublish, TypeOK, ThreadType
  <2>5. OwnerType'
    BY <1>2 DEF StartPublish, TypeOK, OwnerType
  <2> QED BY <2>1, <2>2, <2>3, <2>4, <2>5 DEF TypeOK
<1>3. CASE StopGate
  <2>1. LifeType'
    BY <1>3, Zenon DEF StopGate, TypeOK, LifeType, ControlStates
  <2>2. CommandQueueType'
    BY <1>3 DEF StopGate, TypeOK, CommandQueueType
  <2>3. CompletionQueueType'
    BY <1>3 DEF StopGate, TypeOK, CompletionQueueType
  <2>4. ThreadType'
    BY <1>3 DEF StopGate, TypeOK, ThreadType
  <2>5. OwnerType'
    BY <1>3 DEF StopGate, TypeOK, OwnerType
  <2> QED BY <2>1, <2>2, <2>3, <2>4, <2>5 DEF TypeOK
<1>4. CASE StopClose
  <2>1. CommandQueueType'
    BY <1>4, WaitCloseType DEF StopClose, TypeOK
  <2>2. CompletionQueueType'
    BY <1>4, CompletionCloseType DEF StopClose, TypeOK
  <2>3. LifeType'
    BY <1>4 DEF StopClose, TypeOK, LifeType, ControlStates
  <2>4. ThreadType'
    BY <1>4 DEF StopClose, TypeOK, ThreadType
  <2>5. OwnerType'
    BY <1>4 DEF StopClose, TypeOK, OwnerType
  <2> QED BY <2>1, <2>2, <2>3, <2>4, <2>5 DEF TypeOK
<1>5. CASE StopForce
  <2> DEFINE stop == [Command("stop", Controller, 0, round) EXCEPT
                      !.sequence = NextSequence(next_sequence)]
  <2>1. stop \in Commands
    <3>1. Command("stop", Controller, 0, round) \in Commands
      BY CommandType, Zenon DEF TypeOK, LifeType
    <3>2. NextSequence(next_sequence) \in Nat
      BY NextSequenceType, Zenon DEF TypeOK, CommandQueueType
    <3> QED BY <3>1, <3>2 DEF Commands
  <2>2. <<stop>> \in Seq(Commands)
    BY <2>1
  <2>3. NextSequence(next_sequence) \in Nat
    BY NextSequenceType, ZenonT(30) DEF TypeOK, CommandQueueType
  <2>4. CASE stop_closed
    BY <1>5, <2>4
       DEF TypeOK, CommandQueueType, CompletionQueueType, LifeType, ThreadType,
           OwnerType, StopForce, ControlStates
  <2>5. CASE ~stop_closed
    <3>1. stop_command' = <<stop>>
      BY <1>5, <2>5 DEF StopForce, tr_command_queue_push_wait_force
    <3> HIDE DEF stop
    <3>2. CommandQueueType'
      BY <1>5, <2>2, <2>3, <2>5, <3>1, Zenon
         DEF TypeOK, CommandQueueType, StopForce, tr_command_queue_push_wait_force
    <3> QED BY <1>5, <2>5, <3>2 DEF TypeOK, CompletionQueueType, LifeType,
                            ThreadType, OwnerType, StopForce, ControlStates
  <2> QED BY <2>4, <2>5
<1>6. CASE StopSignal
  BY <1>6
     DEF TypeOK, CommandQueueType, CompletionQueueType, LifeType, ThreadType, OwnerType,
         StopSignal, ControlStates
<1>7. CASE StopSubmitted
  BY <1>7
     DEF TypeOK, CommandQueueType, CompletionQueueType, LifeType, ThreadType, OwnerType,
         StopSubmitted, ControlStates
<1>8. CASE Join
  BY <1>8
     DEF TypeOK, CommandQueueType, CompletionQueueType, LifeType, ThreadType, OwnerType,
         Join, ControlStates, OwnerStates
<1>9. CASE JoinFails
  BY <1>9
     DEF TypeOK, CommandQueueType, CompletionQueueType, LifeType, ThreadType, OwnerType,
         JoinFails, ControlStates
<1>10. CASE StopDone
  <2>1. LifeType'
    BY <1>10, Zenon DEF StopDone, TypeOK, LifeType, ControlStates
  <2>2. CommandQueueType'
    BY <1>10 DEF StopDone, TypeOK, CommandQueueType
  <2>3. CompletionQueueType'
    BY <1>10 DEF StopDone, TypeOK, CompletionQueueType
  <2>4. ThreadType'
    BY <1>10 DEF StopDone, TypeOK, ThreadType
  <2>5. OwnerType'
    BY <1>10 DEF StopDone, TypeOK, OwnerType
  <2> QED BY <2>1, <2>2, <2>3, <2>4, <2>5, ZenonT(30) DEF TypeOK
<1> QED BY <1>1, <1>2, <1>3, <1>4, <1>5, <1>6, <1>7, <1>8, <1>9, <1>10 DEF ControllerNext

\* A step of the owner thread preserves the types.
LEMMA OwnerTypeStep ==
  ASSUME TypeOK, OwnerNext
  PROVE  TypeOK'
<1>1. CASE OwnerBoot
  BY <1>1
     DEF TypeOK, CommandQueueType, CompletionQueueType, LifeType, ThreadType, OwnerType,
         OwnerBoot, OwnerGoto, OwnerStates
<1>2. CASE OwnerPopCommands
  <2>1. CommandQueueType' /\ Popped(CommandBatch) \in Seq(Commands)
    BY <1>2, PopBatch, Zenon DEF OwnerPopCommands, TypeOK
  <2>2. OwnerType'
    BY <1>2, <2>1, Zenon
       DEF OwnerPopCommands, OwnerGoto, OwnerStates, TypeOK, OwnerType
  <2> QED BY <1>2, <2>1, <2>2, TypeFrame, Zenon DEF OwnerPopCommands, TypeOK
<1>3. CASE OwnerDispatch
  <2>1. Tail(batch) \in Seq(Commands)
    BY <1>3, HeadTailProperties DEF OwnerDispatch, TypeOK, OwnerType
  <2>2. sync' \in [Callers -> {"none", "pending", "ok", "sys"}]
    BY <1>3, Zenon DEF OwnerDispatch, SyncComplete, TypeOK, ThreadType
  <2> QED
    <3>1. LifeType'
      BY <1>3, Zenon DEF OwnerDispatch, TypeOK, LifeType
    <3>2. ThreadType'
      BY <1>3, <2>2, Zenon DEF OwnerDispatch, TypeOK, ThreadType
    <3>3. OwnerType'
      BY <1>3, <2>1, Zenon DEF OwnerDispatch, TypeOK, OwnerType
    <3> QED BY <1>3, <3>1, <3>2, <3>3, TypeFrame, Zenon DEF OwnerDispatch, TypeOK
<1>4. CASE OwnerCallbackSends
  BY <1>4, SMTT(30)
     DEF TypeOK, CommandQueueType, CompletionQueueType, LifeType, ThreadType, OwnerType,
         OwnerCallbackSends, OwnerGoto, OwnerStates
<1>5. CASE OwnerNestedPush
  <2>1. CommandQueueType'
    <3>1. CASE started /\ accepting /\ PushStatus = "ok"
      <4>1. ~Full /\ tr_command_queue_enqueue_locked(
                        Command("send", Owner, nested, round))
        BY <1>5, <3>1 DEF OwnerNestedPush, tr_command_queue_push, PushStatus
      <4>2. Command("send", Owner, nested, round) \in Commands
        BY CommandType, ZenonT(30) DEF TypeOK, LifeType, OwnerType
      <4> QED
        BY <1>5, <3>1, <4>1, <4>2, EnqueueLocked, Zenon
           DEF TypeOK, CommandQueueType, OwnerNestedPush, tr_command_queue_push
    <3>2. CASE ~(started /\ accepting /\ PushStatus = "ok")
      BY <1>5, <3>2 DEF OwnerNestedPush, TypeOK, CommandQueueType
    <3> QED BY <3>1, <3>2
  <2>2. wake_fd' \in BOOLEAN
    BY <1>5, ZenonT(30) DEF OwnerNestedPush, TypeOK, LifeType, NeedWake, CommandQueueType
  <2> QED
    BY <1>5, <2>1, <2>2
       DEF TypeOK, CompletionQueueType, LifeType, ThreadType, OwnerType,
           OwnerStates, OwnerNestedPush, OwnerGoto
<1>6. CASE OwnerDispatched
  BY <1>6, SMTT(30)
     DEF TypeOK, CommandQueueType, CompletionQueueType, LifeType, ThreadType, OwnerType,
         OwnerDispatched, OwnerGoto, OwnerStates
<1>7. CASE OwnerCompletions
  <2>1. CompletionBatch \in Nat /\ tr_completion_queue_pop_batch(CompletionBatch)
    BY <1>7 DEF OwnerCompletions, TypeOK, OwnerType
  <2>2. /\ CompletionQueueType' /\ CompletionPopCount(CompletionBatch) \in 0 .. CompletionBatch
        /\ CompletionHasMore(CompletionBatch) \in BOOLEAN
    BY <2>1, CompletionPopBatch DEF TypeOK
  <2> QED
    BY <1>7, <2>1, <2>2, SMTT(30)
       DEF TypeOK, CommandQueueType, LifeType, ThreadType, OwnerType,
           OwnerStates, OwnerCompletions, OwnerGoto
<1>8. CASE OwnerPoll
  BY <1>8, SMTT(30)
     DEF TypeOK, CommandQueueType, CompletionQueueType, LifeType, ThreadType, OwnerType,
         OwnerPoll, OwnerGoto, OwnerStates
<1>9. CASE OwnerPollInterrupted
  BY <1>9
     DEF TypeOK, CommandQueueType, CompletionQueueType, LifeType, ThreadType, OwnerType,
         OwnerPollInterrupted, OwnerGoto, OwnerStates
<1>10. CASE OwnerDrainWake
  <2>1. OwnerType'
    BY <1>10 DEF OwnerDrainWake, TypeOK, OwnerType, OwnerStates, OwnerGoto
  <2>2. CommandQueueType'
    BY <1>10 DEF OwnerDrainWake, TypeOK, CommandQueueType
  <2>3. CompletionQueueType'
    BY <1>10 DEF OwnerDrainWake, TypeOK, CompletionQueueType
  <2>4. LifeType'
    BY <1>10, Zenon DEF OwnerDrainWake, TypeOK, LifeType
  <2>5. ThreadType'
    BY <1>10, ZenonT(30) DEF OwnerDrainWake, TypeOK, ThreadType
  <2> QED BY <2>1, <2>2, <2>3, <2>4, <2>5 DEF TypeOK
<1>11. CASE OwnerWokenCompletions
  <2>1. completions_left \in Nat /\ tr_completion_queue_pop_batch(completions_left)
    BY <1>11 DEF OwnerWokenCompletions, TypeOK, OwnerType
  <2>2. /\ CompletionQueueType' /\ CompletionPopCount(completions_left) \in 0 .. completions_left
        /\ CompletionHasMore(completions_left) \in BOOLEAN
    BY <2>1, CompletionPopBatch, ZenonT(30) DEF TypeOK
  <2> QED
    BY <1>11, <2>1, <2>2
       DEF TypeOK, CommandQueueType, LifeType, ThreadType, OwnerType,
           OwnerStates, OwnerWokenCompletions, OwnerGoto
<1>12. CASE OwnerPollFails
  BY <1>12
     DEF TypeOK, CommandQueueType, CompletionQueueType, LifeType, ThreadType, OwnerType,
         OwnerPollFails, OwnerGoto, OwnerStates
<1>13. CASE OwnerBeginFatal
  <2>1. LifeType'
    BY <1>13, Zenon DEF OwnerBeginFatal, TypeOK, LifeType
  <2>2. OwnerType'
    BY <1>13, Zenon DEF OwnerBeginFatal, OwnerGoto, OwnerStates, TypeOK, OwnerType
  <2> QED BY <1>13, <2>1, <2>2, TypeFrame, Zenon DEF OwnerBeginFatal, TypeOK
<1>14. CASE OwnerFatalClose
  <2>1. CommandQueueType'
    BY <1>14, WaitCloseType DEF OwnerFatalClose, TypeOK
  <2>2. CompletionQueueType'
    BY <1>14, CompletionCloseType DEF OwnerFatalClose, TypeOK
  <2>3. OwnerType'
    BY <1>14 DEF OwnerFatalClose, TypeOK, OwnerType, OwnerStates, OwnerGoto
  <2>4. LifeType'
    BY <1>14 DEF OwnerFatalClose, TypeOK, LifeType
  <2>5. ThreadType'
    BY <1>14 DEF OwnerFatalClose, TypeOK, ThreadType
  <2> QED BY <2>1, <2>2, <2>3, <2>4, <2>5 DEF TypeOK
<1>15. CASE OwnerAbort
  <2>1. CommandQueueType'
    BY <1>15, PopBatch, ZenonT(30) DEF OwnerAbort, TypeOK
  <2> QED
    BY <1>15, <2>1
       DEF TypeOK, CompletionQueueType, LifeType, ThreadType, OwnerType,
           OwnerStates, OwnerAbort, OwnerGoto
<1>16. CASE OwnerDrain
  <2>1. CompletionBatch \in Nat /\ tr_completion_queue_pop_batch(CompletionBatch)
    BY <1>16, ZenonT(30) DEF OwnerDrain, TypeOK, OwnerType
  <2>2. /\ CompletionQueueType' /\ CompletionPopCount(CompletionBatch) \in 0 .. CompletionBatch
        /\ CompletionHasMore(CompletionBatch) \in BOOLEAN
    BY <2>1, CompletionPopBatch, ZenonT(30) DEF TypeOK
  <2> QED
    BY <1>16, <2>1, <2>2
       DEF TypeOK, CommandQueueType, LifeType, ThreadType, OwnerType,
           OwnerStates, OwnerDrain, OwnerGoto
<1>17. CASE OwnerCleanup
  BY <1>17
     DEF TypeOK, CommandQueueType, CompletionQueueType, LifeType, ThreadType, OwnerType,
         OwnerCleanup, OwnerGoto, OwnerStates
<1> QED BY <1>1, <1>2, <1>3, <1>4, <1>5, <1>6, <1>7, <1>8, <1>9,
           <1>10, <1>11, <1>12, <1>13, <1>14, <1>15, <1>16, <1>17, ZenonT(30) DEF OwnerNext, OwnerStep

\* The reactor's variables keep their types and both rings their capacity,
\* whatever the threads, batch sizes and bounds.
THEOREM TypeCorrect == Spec => []TypeOK
<1>1. Init => TypeOK
  <2> SUFFICES ASSUME Init PROVE TypeOK
    OBVIOUS
  <2>1. CommandQueueType
    <3>1. <<>> \in Seq(Commands) /\ Len(<<>>) <= Capacity
      BY EmptySeq
    <3> QED BY <3>1, Zenon DEF Init, CommandQueueInit, CommandQueueType
  <2>2. CompletionQueueType
    <3>1. <<>> \in Seq(Completions) /\ Len(<<>>) <= CompletionCapacity
      BY EmptySeq
    <3> QED BY <3>1, Zenon DEF Init, CompletionQueueInit, CompletionQueueType
  <2>3. LifeType
    BY Zenon DEF Init, LifeType, ControlStates
  <2>4. ThreadType
    BY DEF Init, ThreadType
  <2>5. OwnerType
    <3>1. <<>> \in Seq(Commands) /\ 0 \in 0 .. CompletionBatch
      BY EmptySeq
    <3> QED BY <3>1, Zenon DEF Init, OwnerType, OwnerStates
  <2> QED BY <2>1, <2>2, <2>3, <2>4, <2>5 DEF TypeOK
<1>2. TypeOK /\ [Next]_vars => TypeOK'
  <2> SUFFICES ASSUME TypeOK, [Next]_vars PROVE TypeOK'
    OBVIOUS
  <2>1. CASE \E c \in Callers : CallerNext(c)
    BY <2>1, CallerType
  <2>2. CASE \E s \in Senders : SenderNext(s)
    BY <2>2, SenderType
  <2>3. CASE \E w \in Workers : WorkerNext(w)
    BY <2>3, WorkerType, ZenonT(30)
  <2>4. CASE ControllerNext
    BY <2>4, ControllerType
  <2>5. CASE OwnerNext
    BY <2>5, OwnerTypeStep, ZenonT(30)
  <2>6. CASE UNCHANGED vars
    BY <2>6, TypeFrame, Zenon DEF vars, TypeOK
  <2> QED BY <2>1, <2>2, <2>3, <2>4, <2>5, <2>6, Zenon DEF Next, Terminated
<1> QED BY <1>1, <1>2, PTL DEF Spec
=============================================================================
