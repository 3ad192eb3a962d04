------------------------- MODULE ReactorSyncProofs --------------------------
(***************************************************************************)
(* No command outlives the stack frame its completion object lives in.     *)
(***************************************************************************)
EXTENDS ReactorTypeProofs

USE CapacityAssumption, SequenceLimitAssumption, CompletionCapacityAssumption,
    BatchAssumption, BoundAssumption

USE DEF cqVars, compVars, lifeVars, threadVars, ownerVars

Unreferenced(c) ==
  /\ \A i \in DOMAIN items : ~References(items[i], c)
  /\ \A i \in DOMAIN batch : ~References(batch[i], c)

\* A caller that is not waiting for a result has no command in flight.
LEMMA NotOutstanding ==
  ASSUME SyncInv, NEW c \in Callers,
         pc[c] \notin {"signal", "sync_wait"} \/ sync[c] # "pending"
  PROVE  Unreferenced(c)
BY ZenonT(30) DEF SyncInv, NoDanglingSync, Outstanding, Unreferenced

\* A step that leaves the queues alone preserves the invariant when it leaves
\* alone every caller that has a command in flight.
LEMMA SyncFrame ==
  ASSUME SyncInv, UNCHANGED <<items, batch, stop_command>>,
         \A c \in Callers :
           \/ pc'[c] = pc[c] /\ sync'[c] = sync[c] /\ calls'[c] = calls[c]
           \/ /\ Unreferenced(c)
              /\ pc'[c] = "push_wait" => sync'[c] = "pending"
           \/ /\ pc'[c] \in {"signal", "sync_wait"}
              /\ pc[c] \in {"signal", "sync_wait"}
              /\ sync'[c] = sync[c] /\ calls'[c] = calls[c]
  PROVE  SyncInv'
<1>1. NoDanglingSync'
  <2> SUFFICES ASSUME NEW c \in Callers
               PROVE /\ \A i \in DOMAIN items :
                          References(items[i], c) => Outstanding(c, items[i].n)'
                     /\ \A i \in DOMAIN batch :
                          References(batch[i], c) => Outstanding(c, batch[i].n)'
    BY ZenonT(30) DEF NoDanglingSync, References
  <2> QED BY ZenonT(30) DEF SyncInv, NoDanglingSync, Outstanding, Unreferenced
<1>2. OneCommandPerCall'
  BY ZenonT(30) DEF SyncInv, OneCommandPerCall
<1>3. \A c \in Callers : pc'[c] = "push_wait" => sync'[c] = "pending"
  BY ZenonT(30) DEF SyncInv
<1>4. \A i \in DOMAIN stop_command' : stop_command'[i].type = "stop"
  BY DEF SyncInv
<1> QED BY <1>1, <1>2, <1>3, <1>4 DEF SyncInv

\* Appending a command to the ring preserves it when the command references
\* nobody, or the one caller that waits for it and had nothing in flight.
LEMMA SyncEnqueue ==
  ASSUME TypeOK, SyncInv, NEW command \in Commands, ~Full,
         tr_command_queue_enqueue_locked(command),
         UNCHANGED <<batch, stop_command, sync>>,
         \A c \in Callers : calls'[c] = calls[c],
         \A c \in Callers :
           \/ ~References(command, c) /\ pc'[c] = pc[c]
           \/ Unreferenced(c) /\ sync[c] = "pending" /\ command.n = calls[c]
              /\ pc'[c] \in {"signal", "sync_wait"}
  PROVE  SyncInv'
<1> DEFINE n == Len(items)
<1>1. /\ DOMAIN items = 1 .. n /\ n \in Nat
      /\ DOMAIN items' = 1 .. n + 1
      /\ \A i \in 1 .. n : items'[i] = items[i]
      /\ items'[n + 1] = [command EXCEPT !.sequence = next_sequence']
  <2>1. /\ items' \in Seq(Commands) /\ Len(items') = n + 1
        /\ \A i \in 1 .. n : items'[i] = items[i]
        /\ items'[n + 1] = [command EXCEPT !.sequence = next_sequence']
    BY EnqueueLocked, ZenonT(30) DEF TypeOK
  <2>2. items \in Seq(Commands)
    BY DEF TypeOK, CommandQueueType
  <2> QED BY <2>1, <2>2, LenProperties
<1> HIDE DEF n
<1>2. /\ \A c : References(items'[n + 1], c) <=> References(command, c)
      /\ items'[n + 1].n = command.n
  BY <1>1 DEF References, Commands
<1>3. \A i \in 1 .. n + 1 : i \in 1 .. n \/ i = n + 1
  BY <1>1
<1>4. NoDanglingSync'
  <2> DEFINE Waiting(c, m) == /\ pc'[c] \in {"signal", "sync_wait"}
                              /\ sync[c] = "pending" /\ calls[c] = m
  <2>1. ASSUME NEW c \in Callers, NEW i \in 1 .. n, References(items[i], c)
        PROVE  Waiting(c, items[i].n)
    <3>1. Outstanding(c, items[i].n) /\ ~Unreferenced(c)
      BY <1>1, <2>1 DEF SyncInv, NoDanglingSync, Unreferenced
    <3> QED BY <3>1, Zenon DEF Outstanding
  <2>2. ASSUME NEW c \in Callers, References(command, c)
        PROVE  Waiting(c, command.n)
    BY <2>2
  <2>3. ASSUME NEW c \in Callers, NEW i \in DOMAIN batch, References(batch[i], c)
        PROVE  Waiting(c, batch[i].n)
    <3>1. Outstanding(c, batch[i].n) /\ ~Unreferenced(c)
      BY <2>3, ZenonT(30) DEF SyncInv, NoDanglingSync, Unreferenced
    <3> QED BY <3>1 DEF Outstanding
  <2>4. ASSUME NEW c \in Callers, NEW i \in 1 .. n + 1, References(items'[i], c)
        PROVE  Waiting(c, items'[i].n)
    <3> HIDE DEF Waiting
    <3>1. CASE i \in 1 .. n
      BY <1>1, <2>1, <2>4, <3>1, ZenonT(30)
    <3>2. CASE i = n + 1
      BY <1>2, <2>2, <2>4, <3>2, ZenonT(30)
    <3> QED BY <1>3, <3>1, <3>2, Zenon
  <2> QED BY <1>1, <2>3, <2>4 DEF NoDanglingSync, Outstanding, References
<1>5. OneCommandPerCall'
  <2> SUFFICES ASSUME NEW c \in Callers
               PROVE /\ \A i, j \in 1 .. n + 1 :
                          References(items'[i], c) /\ References(items'[j], c) => i = j
                     /\ \A i, j \in DOMAIN batch :
                          References(batch[i], c) /\ References(batch[j], c) => i = j
                     /\ \A i \in 1 .. n + 1, j \in DOMAIN batch :
                          ~(References(items'[i], c) /\ References(batch[j], c))
    BY <1>1 DEF OneCommandPerCall, AtMostOne
  <2>1. \A i \in 1 .. n : References(items'[i], c) => ~References(command, c)
    BY <1>1 DEF Unreferenced
  <2>2. \A i \in DOMAIN batch : References(batch[i], c) => ~References(command, c)
    BY ZenonT(30) DEF Unreferenced
  <2>3. AtMostOne(items, batch, c)
    BY ZenonT(30) DEF SyncInv, OneCommandPerCall
  <2>4. ASSUME NEW i \in 1 .. n + 1, NEW j \in 1 .. n + 1,
               References(items'[i], c), References(items'[j], c)
        PROVE  i = j
    <3>1. CASE i \in 1 .. n /\ j \in 1 .. n
      <4>1. /\ i \in DOMAIN items /\ References(items[i], c)
            /\ j \in DOMAIN items /\ References(items[j], c)
        BY <1>1, <2>4, <3>1, ZenonT(30)
      <4> QED BY <2>3, <4>1, Zenon DEF AtMostOne
    <3>2. CASE i = n + 1 \/ j = n + 1
      <4>1. References(command, c)
        BY <1>2, <2>4, <3>2, ZenonT(30)
      <4>2. i \notin 1 .. n /\ j \notin 1 .. n
        BY <2>1, <2>4, <4>1, ZenonT(30)
      <4> QED BY <1>3, <4>2
    <3> QED BY <1>3, <3>1, <3>2
  <2>5. ASSUME NEW i \in 1 .. n + 1, NEW j \in DOMAIN batch,
               References(items'[i], c), References(batch[j], c)
        PROVE  FALSE
    <3>1. i # n + 1
      BY <1>2, <2>2, <2>5, ZenonT(30)
    <3>2. i \in DOMAIN items /\ References(items[i], c)
      BY <1>1, <1>3, <2>5, <3>1
    <3> QED BY <2>3, <2>5, <3>2, ZenonT(30) DEF AtMostOne
  <2> QED BY <2>3, <2>4, <2>5, Zenon DEF AtMostOne
<1>6. \A c \in Callers : pc'[c] = "push_wait" => sync'[c] = "pending"
  BY ZenonT(30) DEF SyncInv
<1>7. \A i \in DOMAIN stop_command' : stop_command'[i].type = "stop"
  BY ZenonT(30) DEF SyncInv
<1> QED BY <1>4, <1>5, <1>6, <1>7, Zenon DEF SyncInv

\* Popping a batch moves commands and creates none, so it preserves the
\* invariant when the popped commands become the owner's batch.
LEMMA SyncPop ==
  ASSUME TypeOK, SyncInv, NEW max \in Nat, tr_command_queue_pop_batch(max),
         batch' = Popped(max), UNCHANGED <<pc, sync, calls>>
  PROVE  SyncInv'
<1> DEFINE k == PopCount(max)
<1>1. /\ DOMAIN items = 1 .. Len(items) /\ Len(items) \in Nat
      /\ k \in 0 .. Len(items)
      /\ DOMAIN items' = 1 .. Len(items) - k
      /\ \A i \in 1 .. Len(items) - k : items'[i] = items[i + k]
      /\ DOMAIN batch' = 1 .. Len(batch') /\ Len(batch') \in Nat
      /\ \A i \in 1 .. k : batch'[i] = items[i]
      /\ \A i \in k + 1 .. Len(batch') : batch'[i] = stop_command[i - k]
      /\ Len(batch') <= k + Len(stop_command)
  <2>1. items \in Seq(Commands) /\ CommandQueueType
    BY DEF TypeOK, CommandQueueType
  <2>2. Len(items) \in Nat /\ DOMAIN items = 1 .. Len(items)
    BY <2>1, LenProperties
  <2>3. DOMAIN items' = 1 .. Len(items')
    BY <2>1, PopBatch, LenProperties
  <2>4. DOMAIN batch' = 1 .. Len(batch') /\ Len(batch') \in Nat
    BY <2>1, PopBatch, LenProperties
  <2>5. Len(stop_command) \in Nat
    BY LenProperties, ZenonT(30) DEF TypeOK, CommandQueueType
  <2>6. Len(batch') <= k + Len(stop_command)
    BY <2>1, <2>2, <2>5, PopBatch, SMTT(30)
  <2>7. /\ k \in 0 .. Len(items) /\ Len(items') = Len(items) - k
        /\ \A i \in 1 .. Len(items') : items'[i] = items[i + k]
        /\ \A i \in 1 .. k : Popped(max)[i] = items[i]
        /\ \A i \in k + 1 .. Len(Popped(max)) :
             Popped(max)[i] = stop_command[i - k]
    BY <2>1, PopBatch
  <2> HIDE DEF k
  <2>8. /\ DOMAIN items' = 1 .. Len(items) - k
        /\ \A i \in 1 .. Len(items) - k : items'[i] = items[i + k]
    BY <2>3, <2>7, ZenonT(30)
  <2>9. /\ \A i \in 1 .. k : batch'[i] = items[i]
        /\ \A i \in k + 1 .. Len(batch') : batch'[i] = stop_command[i - k]
    BY <2>7, ZenonT(30)
  <2> QED BY <2>2, <2>4, <2>6, <2>7, <2>8, <2>9
<1> HIDE DEF k
<1>2. \A i \in k + 1 .. Len(batch') : batch'[i].type = "stop"
  <2>1. DOMAIN stop_command = 1 .. Len(stop_command) /\ Len(stop_command) \in Nat
    BY LenProperties DEF TypeOK, CommandQueueType
  <2>2. ASSUME NEW i \in k + 1 .. Len(batch')
        PROVE  batch'[i] = stop_command[i - k] /\ i - k \in DOMAIN stop_command
    BY <1>1, <2>1
  <2> QED BY <2>2 DEF SyncInv
<1>3. \A c, i : i \in DOMAIN batch' /\ References(batch'[i], c) =>
               i \in 1 .. k /\ batch'[i] = items[i]
  BY <1>1, <1>2, SMTT(30) DEF References
<1>4. NoDanglingSync'
  <2>1. ASSUME NEW c \in Callers, NEW i \in DOMAIN items', References(items'[i], c)
        PROVE  Outstanding(c, items'[i].n)
    <3>1. items'[i] = items[i + k]
      BY <1>1, ZenonT(30)
    <3>2. i + k \in DOMAIN items
      BY <1>1, SMTT(30)
    <3> QED BY <2>1, <3>1, <3>2, ZenonT(30) DEF SyncInv, NoDanglingSync
  <2>2. ASSUME NEW c \in Callers, NEW i \in DOMAIN batch', References(batch'[i], c)
        PROVE  Outstanding(c, batch'[i].n)
    <3>1. i \in DOMAIN items /\ batch'[i] = items[i]
      BY <1>1, <1>3, <2>2, SMTT(30)
    <3> QED BY <2>2, <3>1 DEF SyncInv, NoDanglingSync
  <2> QED BY <2>1, <2>2, ZenonT(30) DEF NoDanglingSync, Outstanding, References
<1>5. OneCommandPerCall'
  <2> SUFFICES ASSUME NEW c \in Callers
               PROVE /\ \A i, j \in DOMAIN items' :
                          References(items'[i], c) /\ References(items'[j], c) => i = j
                     /\ \A i, j \in DOMAIN batch' :
                          References(batch'[i], c) /\ References(batch'[j], c) => i = j
                     /\ \A i \in DOMAIN items', j \in DOMAIN batch' :
                          ~(References(items'[i], c) /\ References(batch'[j], c))
    BY ZenonT(30) DEF OneCommandPerCall, AtMostOne
  <2>1. \A i, j \in DOMAIN items :
          References(items[i], c) /\ References(items[j], c) => i = j
    BY DEF SyncInv, OneCommandPerCall, AtMostOne
  <2>2. ASSUME NEW i \in DOMAIN items', NEW j \in DOMAIN items',
               References(items'[i], c), References(items'[j], c)
        PROVE  i = j
    <3>1. i + k \in DOMAIN items /\ j + k \in DOMAIN items
      BY <1>1, SMTT(30)
    <3>2. i + k = j + k
      BY <1>1, <2>1, <2>2, <3>1, ZenonT(30)
    <3> QED BY <1>1, <3>2, SMTT(30)
  <2>3. ASSUME NEW i \in DOMAIN batch', NEW j \in DOMAIN batch',
               References(batch'[i], c), References(batch'[j], c)
        PROVE  i = j
    <3>1. /\ i \in DOMAIN items /\ batch'[i] = items[i]
          /\ j \in DOMAIN items /\ batch'[j] = items[j]
      BY <1>1, <1>3, <2>3, SMTT(30)
    <3>2. References(items[i], c) /\ References(items[j], c)
      BY <2>3, <3>1
    <3> QED BY <2>1, <3>1, <3>2, ZenonT(30)
  <2>4. ASSUME NEW i \in DOMAIN items', NEW j \in DOMAIN batch',
               References(items'[i], c), References(batch'[j], c)
        PROVE  FALSE
    <3>1. j \in 1 .. k /\ j \in DOMAIN items /\ batch'[j] = items[j]
      <4>1. j \in 1 .. k /\ batch'[j] = items[j]
        BY <1>3, <2>4, ZenonT(30)
      <4>2. j \in DOMAIN items
        BY <1>1, <4>1, SMTT(30)
      <4> QED BY <4>1, <4>2, Zenon
    <3>2. i + k \in DOMAIN items /\ items'[i] = items[i + k] /\ i + k # j
      <4>1. /\ i \in 1 .. Len(items) - k /\ k \in Nat /\ Len(items) \in Nat
            /\ items'[i] = items[i + k] /\ DOMAIN items = 1 .. Len(items)
        BY <1>1, SMTT(30)
      <4>2. j \in 1 .. k
        BY <3>1, Zenon
      <4> QED BY <4>1, <4>2, SMTT(30)
    <3> QED BY <2>1, <2>4, <3>1, <3>2, ZenonT(30)
  <2> QED BY <2>2, <2>3, <2>4, ZenonT(30)
<1>6. \A i \in DOMAIN stop_command' : stop_command'[i].type = "stop"
  <2>1. stop_command' = stop_command \/ stop_command' = <<>>
    BY Zenon DEF tr_command_queue_pop_batch
  <2>2. DOMAIN <<>> = {}
    OBVIOUS
  <2>3. CASE stop_command' = stop_command
    BY <2>3, Zenon DEF SyncInv
  <2>4. CASE stop_command' = <<>>
    BY <2>2, <2>4, Zenon
  <2> QED BY <2>1, <2>3, <2>4, Zenon
<1> QED BY <1>4, <1>5, <1>6, ZenonT(30) DEF SyncInv

\* Completing the oldest command of the batch: uniqueness leaves no other
\* command that points at the completed object.
LEMMA SyncDispatch ==
  ASSUME TypeOK, SyncInv, OwnerDispatch
  PROVE  SyncInv'
<1> DEFINE done == Head(batch)
<1>1. /\ batch # <<>> /\ batch' = Tail(batch)
      /\ UNCHANGED <<items, stop_command, pc, calls>>
      /\ sync' = IF done.type = "call" THEN [sync EXCEPT ![done.from] = "ok"]
                 ELSE sync
  BY ZenonT(30) DEF OwnerDispatch, SyncComplete
<1>2. /\ done = batch[1] /\ 1 \in DOMAIN batch
      /\ \A i \in DOMAIN batch' : /\ i + 1 \in DOMAIN batch /\ i + 1 # 1
                                  /\ batch'[i] = batch[i + 1] /\ i \in Nat
  <2>1. batch \in Seq(Commands)
    BY DEF TypeOK, OwnerType
  <2>2. /\ Len(batch) \in Nat \ {0} /\ DOMAIN batch = 1 .. Len(batch)
    BY <1>1, <2>1, EmptySeq, LenProperties
  <2>3. /\ Tail(batch) \in Seq(Commands) /\ Len(Tail(batch)) = Len(batch) - 1
        /\ \A i \in 1 .. Len(Tail(batch)) : Tail(batch)[i] = batch[i + 1]
    BY <1>1, <2>1, HeadTailProperties
  <2>4. DOMAIN Tail(batch) = 1 .. Len(Tail(batch))
    BY <2>3, LenProperties
  <2> QED BY <1>1, <2>2, <2>3, <2>4
<1> HIDE DEF done
<1>3. \A c \in Callers : sync'[c] = sync[c] \/ References(done, c)
  BY <1>1, ZenonT(30) DEF References, TypeOK, ThreadType
<1>4. ASSUME NEW c \in Callers, References(done, c)
      PROVE  /\ \A i \in DOMAIN batch' : ~References(batch'[i], c)
             /\ \A i \in DOMAIN items : ~References(items[i], c)
             /\ pc[c] # "push_wait"
  <2>1. /\ \A i, j \in DOMAIN batch :
             References(batch[i], c) /\ References(batch[j], c) => i = j
        /\ \A i \in DOMAIN items, j \in DOMAIN batch :
             ~(References(items[i], c) /\ References(batch[j], c))
    BY ZenonT(30) DEF SyncInv, OneCommandPerCall, AtMostOne
  <2>2. Outstanding(c, done.n)
    BY <1>2, <1>4, ZenonT(30) DEF SyncInv, NoDanglingSync
  <2> QED BY <1>2, <1>4, <2>1, <2>2 DEF Outstanding
<1>5. NoDanglingSync'
  <2>1. ASSUME NEW c \in Callers, NEW i \in DOMAIN items, References(items[i], c)
        PROVE  Outstanding(c, items[i].n) /\ sync'[c] = sync[c]
    BY <1>3, <1>4, <2>1, ZenonT(30) DEF SyncInv, NoDanglingSync
  <2>2. ASSUME NEW c \in Callers, NEW i \in DOMAIN batch', References(batch'[i], c)
        PROVE  Outstanding(c, batch'[i].n) /\ sync'[c] = sync[c]
    BY <1>2, <1>3, <1>4, <2>2, ZenonT(30) DEF SyncInv, NoDanglingSync
  <2> QED BY <1>1, <2>1, <2>2 DEF NoDanglingSync, Outstanding, References
<1>6. OneCommandPerCall'
  <2> SUFFICES ASSUME NEW c \in Callers
               PROVE /\ \A i, j \in DOMAIN items :
                          References(items[i], c) /\ References(items[j], c) => i = j
                     /\ \A i, j \in DOMAIN batch' :
                          References(batch'[i], c) /\ References(batch'[j], c) => i = j
                     /\ \A i \in DOMAIN items, j \in DOMAIN batch' :
                          ~(References(items[i], c) /\ References(batch'[j], c))
    BY <1>1, ZenonT(30) DEF OneCommandPerCall, AtMostOne
  <2>1. ASSUME NEW i \in DOMAIN batch', NEW j \in DOMAIN batch',
               References(batch'[i], c), References(batch'[j], c)
        PROVE  i = j
    <3>1. \A a, b \in DOMAIN batch :
            References(batch[a], c) /\ References(batch[b], c) => a = b
      BY ZenonT(30) DEF SyncInv, OneCommandPerCall, AtMostOne
    <3>2. /\ i + 1 \in DOMAIN batch /\ References(batch[i + 1], c)
          /\ j + 1 \in DOMAIN batch /\ References(batch[j + 1], c)
      BY <1>2, <2>1
    <3>3. i + 1 = j + 1
      BY <3>1, <3>2, ZenonT(30)
    <3> QED BY <1>2, <3>3
  <2> QED BY <1>2, <2>1, Zenon DEF SyncInv, OneCommandPerCall, AtMostOne
<1>7. \A c \in Callers : pc'[c] = "push_wait" => sync'[c] = "pending"
  BY <1>1, <1>3, <1>4 DEF SyncInv
<1> QED BY <1>1, <1>5, <1>6, <1>7, ZenonT(30) DEF SyncInv

\* Aborting a batch of the ring after a fatal exit.
LEMMA SyncAbort ==
  ASSUME TypeOK, SyncInv, OwnerAbort
  PROVE  SyncInv'
<1> DEFINE max == CommandBatch
           k == PopCount(max)
<1>1. /\ UNCHANGED <<pc, calls, batch>> /\ tr_command_queue_pop_batch(max)
      /\ sync' = [c \in Callers |-> IF Aborted(c) THEN "sys" ELSE sync[c]]
  BY DEF OwnerAbort
<1>2. /\ DOMAIN items = 1 .. Len(items) /\ Len(items) \in Nat
      /\ k \in 0 .. Len(items)
      /\ DOMAIN items' = 1 .. Len(items) - k
      /\ \A i \in 1 .. Len(items) - k : items'[i] = items[i + k]
  <2>1. items \in Seq(Commands) /\ CommandQueueType
    BY DEF TypeOK, CommandQueueType
  <2>2. Len(items) \in Nat /\ DOMAIN items = 1 .. Len(items)
    BY <2>1, LenProperties, ZenonT(30)
  <2>3. /\ items' \in Seq(Commands) /\ k \in 0 .. Len(items)
        /\ Len(items') = Len(items) - k
        /\ \A i \in 1 .. Len(items') : items'[i] = items[i + k]
    BY <1>1, <2>1, PopBatch
  <2>4. DOMAIN items' = 1 .. Len(items')
    BY <2>3, LenProperties, ZenonT(30)
  <2> HIDE DEF k
  <2> QED BY <2>2, <2>3, <2>4
<1>3. ASSUME NEW c \in Callers, Aborted(c)
      PROVE  \E i \in 1 .. k : References(items[i], c)
  <2>1. PICK i \in DOMAIN Popped(max) : References(Popped(max)[i], c)
    BY <1>3 DEF Aborted, References
  <2>2. /\ Popped(max) \in Seq(Commands)
        /\ \A j \in 1 .. k : Popped(max)[j] = items[j]
        /\ \A j \in k + 1 .. Len(Popped(max)) :
             Popped(max)[j] = stop_command[j - k]
        /\ Len(Popped(max)) \in k .. k + Len(stop_command)
    BY <1>1, PopBatch, ZenonT(30) DEF TypeOK
  <2>3. DOMAIN Popped(max) = 1 .. Len(Popped(max)) /\ Len(Popped(max)) \in Nat
    BY <2>2, LenProperties, ZenonT(30)
  <2>4. DOMAIN stop_command = 1 .. Len(stop_command) /\ Len(stop_command) \in Nat
    BY LenProperties, ZenonT(30) DEF TypeOK, CommandQueueType
  <2> HIDE DEF k
  <2>5. CASE i \in k + 1 .. Len(Popped(max))
    <3>1. i - k \in DOMAIN stop_command
      BY <1>2, <2>2, <2>4, <2>5, SMTT(30)
    <3> QED BY <2>1, <2>2, <2>5, <3>1, ZenonT(30) DEF References, SyncInv
  <2>6. CASE i \in 1 .. k
    BY <2>1, <2>2, <2>6, ZenonT(30)
  <2> QED BY <1>2, <2>3, <2>5, <2>6, SMTT(30)
<1> HIDE DEF k, max
<1>4. ASSUME NEW c \in Callers, Aborted(c)
      PROVE  /\ \A i \in DOMAIN items' : ~References(items'[i], c)
             /\ \A i \in DOMAIN batch : ~References(batch[i], c)
             /\ pc[c] # "push_wait"
  <2>1. PICK i \in 1 .. k : References(items[i], c)
    BY <1>3, <1>4
  <2>2. i \in DOMAIN items
    BY <1>2, SMTT(30)
  <2>3. ASSUME NEW j \in DOMAIN items', References(items'[j], c) PROVE FALSE
    <3>1. j + k \in DOMAIN items /\ items'[j] = items[j + k] /\ j + k # i
      BY <1>2
    <3> QED BY <2>1, <2>2, <2>3, <3>1, ZenonT(30) DEF SyncInv, OneCommandPerCall, AtMostOne
  <2>4. \A j \in DOMAIN batch : ~References(batch[j], c)
    BY <2>1, <2>2, ZenonT(30) DEF SyncInv, OneCommandPerCall, AtMostOne
  <2>5. Outstanding(c, items[i].n)
    BY <2>1, <2>2 DEF SyncInv, NoDanglingSync
  <2> QED BY <2>3, <2>4, <2>5 DEF Outstanding
<1>5. \A i \in DOMAIN items' : i + k \in DOMAIN items /\ items'[i] = items[i + k]
                              /\ i \in Nat
  BY <1>2
<1>6. NoDanglingSync'
  <2>1. ASSUME NEW c \in Callers, NEW i \in DOMAIN items', References(items'[i], c)
        PROVE  Outstanding(c, items'[i].n) /\ sync'[c] = sync[c]
    BY <1>1, <1>4, <1>5, <2>1, ZenonT(30) DEF SyncInv, NoDanglingSync
  <2>2. ASSUME NEW c \in Callers, NEW i \in DOMAIN batch, References(batch[i], c)
        PROVE  Outstanding(c, batch[i].n) /\ sync'[c] = sync[c]
    BY <1>1, <1>4, <2>2, ZenonT(30) DEF SyncInv, NoDanglingSync
  <2> QED BY <1>1, <2>1, <2>2, ZenonT(30) DEF NoDanglingSync, Outstanding, References
<1>7. OneCommandPerCall'
  <2> SUFFICES ASSUME NEW c \in Callers
               PROVE /\ \A i, j \in DOMAIN items' :
                          References(items'[i], c) /\ References(items'[j], c) => i = j
                     /\ \A i, j \in DOMAIN batch :
                          References(batch[i], c) /\ References(batch[j], c) => i = j
                     /\ \A i \in DOMAIN items', j \in DOMAIN batch :
                          ~(References(items'[i], c) /\ References(batch[j], c))
    BY <1>1, Zenon DEF OneCommandPerCall, AtMostOne
  <2>1. ASSUME NEW i \in DOMAIN items', NEW j \in DOMAIN items',
               References(items'[i], c), References(items'[j], c)
        PROVE  i = j
    <3>1. \A a, b \in DOMAIN items :
            References(items[a], c) /\ References(items[b], c) => a = b
      BY ZenonT(30) DEF SyncInv, OneCommandPerCall, AtMostOne
    <3>2. /\ i + k \in DOMAIN items /\ References(items[i + k], c)
          /\ j + k \in DOMAIN items /\ References(items[j + k], c)
      BY <1>5, <2>1
    <3>3. i + k = j + k
      BY <3>1, <3>2
    <3> QED BY <1>2, <1>5, <3>3, SMTT(30)
  <2> QED BY <1>5, <2>1, ZenonT(30) DEF SyncInv, OneCommandPerCall, AtMostOne
<1>8. \A c \in Callers : pc'[c] = "push_wait" => sync'[c] = "pending"
  BY <1>1, <1>4, ZenonT(30) DEF SyncInv
<1>9. \A i \in DOMAIN stop_command' : stop_command'[i].type = "stop"
  <2>1. stop_command' = stop_command \/ stop_command' = <<>>
    BY <1>1, Zenon DEF tr_command_queue_pop_batch
  <2>2. DOMAIN <<>> = {}
    OBVIOUS
  <2>3. CASE stop_command' = stop_command
    BY <2>3, Zenon DEF SyncInv
  <2>4. CASE stop_command' = <<>>
    BY <2>2, <2>4, Zenon
  <2> QED BY <2>1, <2>3, <2>4
<1> QED BY <1>6, <1>7, <1>8, <1>9, ZenonT(30) DEF SyncInv

\* A caller's own steps.
LEMMA SyncCaller ==
  ASSUME TypeOK, SyncInv, NEW c \in Callers, CallerNext(c)
  PROVE  SyncInv'
<1> USE DEF TypeOK, ThreadType, Threads
<1>1. CASE CallAdmit(c)
  <2>1. Unreferenced(c)
    BY <1>1, NotOutstanding, ZenonT(30) DEF CallAdmit, Begin
  <2>2. \A d \in Callers : d # c => pc'[d] = pc[d] /\ sync'[d] = sync[d]
                                  /\ calls'[d] = calls[d]
    BY <1>1, ZenonT(30) DEF CallAdmit, Begin, Goto
  <2>3. pc'[c] = "push_wait" => sync'[c] = "pending"
    BY <1>1 DEF CallAdmit, Begin, Goto
  <2> QED BY <1>1, <2>1, <2>2, <2>3, SyncFrame, ZenonT(30) DEF CallAdmit
<1>2. CASE CallStopped(c) \/ CallStoppedReturn(c)
  <2>1. Unreferenced(c)
    BY <1>2, NotOutstanding, ZenonT(30) DEF CallStopped, CallStoppedReturn, Begin
  <2>2. /\ pc'[c] # "push_wait" /\ sync' = sync
        /\ \A d \in Callers : d # c => pc'[d] = pc[d] /\ calls'[d] = calls[d]
    BY <1>2, ZenonT(30) DEF CallStopped, CallStoppedReturn, Begin, Goto
  <2> QED BY <1>2, <2>1, <2>2, SyncFrame, ZenonT(30) DEF CallStopped, CallStoppedReturn
<1>3. CASE CallSleep(c) \/ CallSpuriousWake(c)
  BY <1>3, SyncFrame, ZenonT(30) DEF CallSleep, CallSpuriousWake, PushWaitSleep
<1>4. CASE CallRefused(c) \/ CallReturn(c)
  <2>1. Unreferenced(c)
    BY <1>4, NotOutstanding, ZenonT(30) DEF CallRefused, CallReturn
  <2>2. /\ pc'[c] # "push_wait" /\ calls' = calls
        /\ \A d \in Callers : d # c => pc'[d] = pc[d] /\ sync'[d] = sync[d]
    BY <1>4, ZenonT(30) DEF CallRefused, CallReturn, Goto
  <2> QED BY <1>4, <2>1, <2>2, SyncFrame, ZenonT(30) DEF CallRefused, CallReturn
<1>5. CASE CallEnqueue(c)
  <2> DEFINE command == Command("call", c, calls[c], seen[c])
  <2>1. ~Full /\ tr_command_queue_enqueue_locked(command)
    BY <1>5, ZenonT(30) DEF CallEnqueue, PushWaitEnqueue
  <2>2. command \in Commands /\ command.n = calls[c]
    BY CommandType, ZenonT(30) DEF Command
  <2>3. \A d \in Callers : References(command, d) => d = c
    BY DEF Command, References
  <2> HIDE DEF command
  <2>4. Unreferenced(c) /\ sync[c] = "pending"
    BY <1>5, NotOutstanding, ZenonT(30) DEF CallEnqueue, SyncInv
  <2>5. /\ pc'[c] \in {"signal", "sync_wait"}
        /\ \A d \in Callers : d # c => pc'[d] = pc[d]
    BY <1>5, ZenonT(30) DEF CallEnqueue, Goto
  <2>6. UNCHANGED <<batch, stop_command, sync, calls>>
    BY <1>5 DEF CallEnqueue, PushWaitEnqueue
  <2> QED BY <2>1, <2>2, <2>3, <2>4, <2>5, <2>6, SyncEnqueue, ZenonT(30)
<1>6. CASE CallSignal(c)
  <2>1. \A d \in Callers : \/ pc'[d] = pc[d]
                           \/ pc[d] = "signal" /\ pc'[d] = "sync_wait"
    BY <1>6 DEF CallSignal, Goto
  <2> QED BY <1>6, <2>1, SyncFrame, ZenonT(30) DEF CallSignal
<1> QED BY <1>1, <1>2, <1>3, <1>4, <1>5, <1>6 DEF CallerNext

\* Steps of the other threads: senders and the owner's callbacks append
\* commands that point at nobody, the owner pops, completes or aborts, and
\* every other step leaves the commands and the callers alone.
LEMMA SyncOthers ==
  ASSUME TypeOK, SyncInv,
         \/ \E s \in Senders : SenderNext(s)
         \/ \E w \in Workers : WorkerNext(w)
         \/ ControllerNext \/ OwnerNext \/ UNCHANGED vars
  PROVE  SyncInv'
<1>1. ASSUME NEW s \in Senders, SenderNext(s) PROVE SyncInv'
  <2>1. s \notin Callers /\ s \in Threads
    BY ThreadsAssumption DEF Threads
  <2>2. CASE SendRefused(s) \/ SendSignal(s)
    <3>1. \A c \in Callers : pc'[c] = pc[c] /\ calls'[c] = calls[c]
      BY <2>1, <2>2, ZenonT(30) DEF SendRefused, SendSignal, Begin, Goto, TypeOK,
                        ThreadType, Threads
    <3> QED BY <2>2, <3>1, SyncFrame, ZenonT(30) DEF SendRefused, SendSignal
  <2>3. CASE SendPush(s)
    <3> DEFINE command == Command("send", s, calls'[s], round)
    <3>1. ~Full /\ tr_command_queue_enqueue_locked(command)
      BY <2>3 DEF SendPush, tr_command_queue_push, PushStatus
    <3>2. command \in Commands
      <4>1. calls'[s] \in Nat
        BY <2>1, <2>3, SMTT(30) DEF SendPush, Begin, TypeOK, ThreadType
      <4> QED BY <2>1, <4>1, CommandType, ZenonT(30) DEF TypeOK, LifeType
    <3>3. \A c \in Callers : ~References(command, c)
      BY ZenonT(30) DEF Command, References
    <3> HIDE DEF command
    <3>4. \A c \in Callers : pc'[c] = pc[c] /\ calls'[c] = calls[c]
      BY <2>1, <2>3, ZenonT(30) DEF SendPush, Begin, Goto, TypeOK, ThreadType, Threads
    <3>5. UNCHANGED <<batch, stop_command, sync>>
      BY <2>3 DEF SendPush, tr_command_queue_push
    <3> QED BY <3>1, <3>2, <3>3, <3>4, <3>5, SyncEnqueue, ZenonT(30)
  <2> QED BY <1>1, <2>2, <2>3 DEF SenderNext
<1>2. ASSUME NEW w \in Workers, WorkerNext(w) PROVE SyncInv'
  <2>1. w \notin Callers
    BY ThreadsAssumption
  <2>2. \A c \in Callers : pc'[c] = pc[c] /\ calls'[c] = calls[c]
    BY <1>2, <2>1, ZenonT(30) DEF WorkerNext, CompleteSample, CompleteGate, CompleteSleep,
       CompleteRefused, CompleteEnqueue, CompleteSignal, CompleteSpuriousWake,
       Begin, Goto, TypeOK, ThreadType, Threads
  <2>3. UNCHANGED <<items, batch, stop_command, sync>>
    BY <1>2, ZenonT(30) DEF WorkerNext, CompleteSample, CompleteGate, CompleteSleep,
       CompleteRefused, CompleteEnqueue, CompleteSignal, CompleteSpuriousWake
  <2> QED BY <2>2, <2>3, SyncFrame, ZenonT(30)
<1>3. CASE StopForce
  <2>1. UNCHANGED <<items, batch, pc, sync, calls>>
    BY <1>3 DEF StopForce, tr_command_queue_push_wait_force
  <2>2. \A i \in DOMAIN stop_command' : stop_command'[i].type = "stop"
    <3>1. CASE stop_closed
      BY <1>3, <3>1, Zenon DEF StopForce, SyncInv
    <3>2. CASE ~stop_closed
      <4>1. stop_command' = <<[Command("stop", Controller, 0, round) EXCEPT
                                 !.sequence = next_sequence']>>
        BY <1>3, <3>2, ZenonT(30) DEF StopForce, tr_command_queue_push_wait_force
      <4> QED BY <4>1 DEF Command
    <3> QED BY <3>1, <3>2
  <2>3. NoDanglingSync'
    BY <2>1, ZenonT(30) DEF SyncInv, NoDanglingSync, Outstanding, References
  <2>4. OneCommandPerCall'
    BY <2>1, ZenonT(30) DEF SyncInv, OneCommandPerCall
  <2>5. \A c \in Callers : pc'[c] = "push_wait" => sync'[c] = "pending"
    BY <2>1, ZenonT(30) DEF SyncInv
  <2> QED BY <2>2, <2>3, <2>4, <2>5, Zenon DEF SyncInv
<1>4. CASE ControllerNext /\ ~StopForce
  <2>1. UNCHANGED <<items, batch, stop_command, pc, sync, calls>>
    BY <1>4, ZenonT(30) DEF ControllerNext, Start, StartPublish, StopGate, StopClose,
       StopSignal, StopSubmitted, Join, JoinFails, StopDone,
       tr_command_queue_wait_open, tr_command_queue_wait_close
  <2> QED BY <2>1, SyncFrame, ZenonT(30)
<1>5. CASE OwnerPopCommands
  BY <1>5, SyncPop DEF OwnerPopCommands
<1>6. CASE OwnerNestedPush
  <2>1. CASE started /\ accepting /\ PushStatus = "ok"
    <3> DEFINE command == Command("send", Owner, nested, round)
    <3>1. ~Full /\ tr_command_queue_enqueue_locked(command)
      BY <1>6, <2>1 DEF OwnerNestedPush, tr_command_queue_push, PushStatus
    <3>2. command \in Commands
      BY CommandType, ZenonT(30) DEF TypeOK, LifeType, OwnerType
    <3>3. \A c \in Callers : ~References(command, c)
      BY ZenonT(30) DEF Command, References
    <3> HIDE DEF command
    <3>4. UNCHANGED <<batch, stop_command, sync, pc, calls>>
      BY <1>6, <2>1 DEF OwnerNestedPush, tr_command_queue_push
    <3> QED BY <3>1, <3>2, <3>3, <3>4, SyncEnqueue, ZenonT(30)
  <2>2. CASE ~(started /\ accepting /\ PushStatus = "ok")
    BY <1>6, <2>2, SyncFrame, ZenonT(30) DEF OwnerNestedPush
  <2> QED BY <2>1, <2>2
<1>7. CASE OwnerNext /\ ~OwnerPopCommands /\ ~OwnerNestedPush
             /\ ~OwnerDispatch /\ ~OwnerAbort
  <2>1. UNCHANGED <<items, batch, stop_command, pc, sync, calls>>
    BY <1>7, ZenonT(30) DEF OwnerNext, OwnerStep, OwnerBoot, OwnerCallbackSends,
       OwnerDispatched, OwnerCompletions, OwnerPoll, OwnerPollInterrupted,
       OwnerDrainWake, OwnerWokenCompletions, OwnerPollFails, OwnerBeginFatal,
       OwnerFatalClose, OwnerDrain, OwnerCleanup, tr_command_queue_wait_close
  <2> QED BY <2>1, SyncFrame, ZenonT(30)
<1>8. CASE UNCHANGED vars
  BY <1>8, SyncFrame, Zenon DEF vars
<1> QED BY <1>1, <1>2, <1>3, <1>4, <1>5, <1>6, <1>7, <1>8, SyncDispatch, SyncAbort, ZenonT(30)

\* A command in the ring or in the owner's batch never points at a stack frame
\* that is gone, and no request is completed twice: for every number of
\* callers and rounds, through stop, restart and fatal exit.
THEOREM SyncSafe == Spec => []NoDanglingSync
<1>1. Init => SyncInv
  <2> SUFFICES ASSUME Init PROVE SyncInv
    BY ZenonT(30)
  <2>1. DOMAIN items = {} /\ DOMAIN batch = {} /\ DOMAIN stop_command = {}
    BY DEF Init, CommandQueueInit
  <2>2. \A c \in Callers : pc[c] # "push_wait"
    BY ZenonT(30) DEF Init, Threads
  <2>3. OneCommandPerCall
    BY <2>1, ZenonT(30) DEF OneCommandPerCall, AtMostOne
  <2> QED BY <2>1, <2>2, <2>3, ZenonT(30) DEF SyncInv, NoDanglingSync
<1>2. TypeOK /\ SyncInv /\ [Next]_vars => SyncInv'
  BY SyncCaller, SyncOthers DEF Next, Terminated
<1>3. SyncInv => NoDanglingSync
  BY DEF SyncInv
<1> QED BY <1>1, <1>2, <1>3, TypeCorrect, PTL DEF Spec
=============================================================================
