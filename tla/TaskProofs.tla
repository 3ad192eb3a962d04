----------------------------- MODULE TaskProofs -----------------------------
(***************************************************************************)
(* The task executor delivers every accepted task exactly once and keeps   *)
(* the contract of its header, for every number of workers, tasks and      *)
(* slots and every generation limit; so does the executor of a message     *)
(* service.                                                                *)
(***************************************************************************)
EXTENDS MessageService, Integers, FiniteSetTheorems, SequenceTheorems, TLAPS

USE ExecutorAssumption

USE DEF execVars, threadVars, historyVars

(* The inductive invariant.  Accounts: the lists hold exactly the slots of *)
(* their states.  Crew: a worker at work has a running slot of its own.    *)
(* Stages: what a slot and the histories of its task say fits the slot's   *)
(* state; a handle never names a task other than its own.                  *)

Accounts ==
  /\ Lists(free, "FREE") /\ Lists(pending, "QUEUED") /\ Lists(complete, "COMPLETED")
  /\ outstanding = Cardinality({i \in Slots : slot[i].state # "FREE"})

Crew ==
  /\ \A w \in Workers :
       /\ worker[w].pc = "work" =>
            worker[w].slot \in Slots /\ slot[worker[w].slot].state = "RUNNING"
       /\ worker[w].pc # "work" => worker[w].slot = 0
       /\ \A v \in Workers \ {w} :
            worker[v].slot # 0 => worker[v].slot # worker[w].slot
  /\ \A i \in Slots : slot[i].state = "RUNNING" =>
       \E w \in Workers : worker[w].pc = "work" /\ worker[w].slot = i
  /\ workers_alive = Cardinality({w \in Workers : worker[w].pc \in {"loop", "work"}})
  /\ state \in {"NEW", "JOINED", "DESTROYED"} =>
       \A w \in Workers : worker[w].pc \in {"none", "exited"}

SlotStage(i) ==
  /\ slot[i].state = "FREE" => slot[i].task = NoTask
  /\ slot[i].state # "FREE" =>
       /\ slot[i].task \in Tasks
       /\ handle[slot[i].task] = [slot |-> i, generation |-> slot[i].generation]
       /\ ran[slot[i].task] = IF slot[i].state = "QUEUED" THEN 0 ELSE 1
       /\ delivered[slot[i].task] = IF slot[i].state = "DELIVERING" THEN 1 ELSE 0
  /\ slot[i].state \in {"QUEUED", "RUNNING"} =>
       (slot[i].cancel <=> slot[i].task \in cancel_ok)
  /\ slot[i].state = "COMPLETED" =>
       (slot[i].cancelled <=> slot[i].task \in cancel_ok)

TaskStage(t) ==
  /\ handle[t] # NoHandle =>
       /\ handle[t].slot \in Slots
       /\ handle[t].generation <= slot[handle[t].slot].generation
       /\ /\ handle[t].generation = slot[handle[t].slot].generation
          /\ slot[handle[t].slot].state # "FREE"
          => slot[handle[t].slot].task = t
  /\ (\A i \in Slots : slot[i].task # t) =>
       /\ ran[t] = delivered[t]
       /\ delivered[t] = IF handle[t] = NoHandle THEN 0 ELSE 1
  /\ delivered[t] # 0 => (reported[t] <=> t \in cancel_ok)
  /\ handle[t] = NoHandle => t \notin cancel_ok

Stages ==
  /\ \A i \in Slots : SlotStage(i)
  /\ \A t \in Tasks : TaskStage(t)
  /\ state = "DESTROYED" => outstanding = 0

TaskInv == TypeOK /\ Accounts /\ Crew /\ Stages

-----------------------------------------------------------------------------
(* Lists without repetition.                                               *)

Elems(s) == {s[i] : i \in DOMAIN s}
NoRepeat(s) == \A i, j \in DOMAIN s : i # j => s[i] # s[j]

\* Appending an element that is not listed adds it to the list.
LEMMA AppendList ==
  ASSUME NEW S, NEW s \in Seq(S), NEW x \in S, NoRepeat(s), x \notin Elems(s)
  PROVE  /\ Append(s, x) \in Seq(S) /\ NoRepeat(Append(s, x))
         /\ Elems(Append(s, x)) = Elems(s) \cup {x}
<1> DEFINE n == Len(s)
           a == Append(s, x)
<1>1. n \in Nat /\ DOMAIN s = 1 .. n
  BY LenProperties
<1>2. /\ a \in Seq(S) /\ Len(a) = n + 1
      /\ \A i \in 1 .. n : a[i] = s[i]
      /\ a[n + 1] = x
  BY AppendProperties
<1>3. DOMAIN a = 1 .. n + 1
  BY <1>2, LenProperties
<1> HIDE DEF n, a
<1>4. /\ \A i \in 1 .. n + 1 : i \in 1 .. n \/ i = n + 1
      /\ \A i \in 1 .. n : i \in 1 .. n + 1 /\ i # n + 1
      /\ n + 1 \in 1 .. n + 1
  BY <1>1
<1>5. \A i \in 1 .. n : a[i] # x
  BY <1>1, <1>2, Zenon DEF Elems
<1>6. NoRepeat(a)
  <2> SUFFICES ASSUME NEW i \in 1 .. n + 1, NEW j \in 1 .. n + 1, i # j
               PROVE  a[i] # a[j]
    BY <1>3, Zenon DEF NoRepeat
  <2>1. CASE i \in 1 .. n /\ j \in 1 .. n
    BY <1>1, <1>2, <2>1, Zenon DEF NoRepeat
  <2>2. CASE i = n + 1 \/ j = n + 1
    BY <1>2, <1>4, <1>5, <2>2
  <2> QED BY <1>4, <2>1, <2>2
<1>7. Elems(a) = Elems(s) \cup {x}
  BY <1>1, <1>2, <1>3, <1>4 DEF Elems
<1> QED BY <1>2, <1>6, <1>7 DEF a

\* Removing the head takes it, and nothing else, off the list.
LEMMA TailList ==
  ASSUME NEW S, NEW s \in Seq(S), s # <<>>, NoRepeat(s)
  PROVE  /\ Head(s) \in Elems(s) /\ Head(s) \in S
         /\ Tail(s) \in Seq(S) /\ NoRepeat(Tail(s))
         /\ Elems(Tail(s)) = Elems(s) \ {Head(s)}
<1> DEFINE n == Len(s)
           r == Tail(s)
<1>1. n \in Nat /\ n # 0 /\ DOMAIN s = 1 .. n
  BY EmptySeq, LenProperties
<1>2. /\ Head(s) = s[1] /\ r \in Seq(S) /\ Len(r) = n - 1
      /\ \A i \in 1 .. Len(r) : r[i] = s[i + 1]
  BY <1>1, HeadTailProperties
<1>3. DOMAIN r = 1 .. n - 1 /\ \A i \in 1 .. n - 1 : r[i] = s[i + 1]
  BY <1>2, LenProperties
<1> HIDE DEF n, r
<1>4. /\ 1 \in 1 .. n
      /\ \A i \in 1 .. n - 1 : i + 1 \in 1 .. n /\ i + 1 # 1
      /\ \A i, j \in 1 .. n - 1 : i # j => i + 1 # j + 1
      /\ \A j \in 1 .. n : j # 1 => j - 1 \in 1 .. n - 1 /\ (j - 1) + 1 = j
  BY <1>1
<1>5. s[1] \in S
  BY <1>1, <1>4, ElementOfSeq DEF n
<1>6. NoRepeat(r)
  <2> SUFFICES ASSUME NEW i \in 1 .. n - 1, NEW j \in 1 .. n - 1, i # j
               PROVE  s[i + 1] # s[j + 1]
    BY <1>3, Zenon DEF NoRepeat
  <2> QED BY <1>1, <1>4, Zenon DEF NoRepeat
<1>7. \A i \in 1 .. n - 1 : r[i] = s[i + 1] /\ r[i] # s[1]
  <2> SUFFICES ASSUME NEW i \in 1 .. n - 1
               PROVE  r[i] = s[i + 1] /\ r[i] # s[1]
    OBVIOUS
  <2>1. i + 1 \in DOMAIN s /\ 1 \in DOMAIN s /\ i + 1 # 1
    BY <1>1, <1>4, Zenon
  <2> QED BY <1>3, <2>1, Zenon DEF NoRepeat
<1>8. ASSUME NEW j \in 1 .. n, s[j] # s[1]
      PROVE  \E i \in 1 .. n - 1 : r[i] = s[j]
  <2>1. j - 1 \in 1 .. n - 1 /\ (j - 1) + 1 = j
    BY <1>4, <1>8
  <2>2. r[j - 1] = s[(j - 1) + 1]
    BY <1>7, <2>1, Zenon
  <2> QED BY <2>1, <2>2
<1>9. Elems(r) = Elems(s) \ {s[1]}
  <2>1. ASSUME NEW x \in Elems(r) PROVE x \in Elems(s) /\ x # s[1]
    <3>1. PICK i \in 1 .. n - 1 : x = r[i]
      BY <1>3, <2>1, Zenon DEF Elems
    <3>2. r[i] = s[i + 1] /\ r[i] # s[1] /\ i + 1 \in DOMAIN s
      BY <1>1, <1>4, <1>7, Zenon
    <3>3. s[i + 1] \in Elems(s)
      BY <3>2, Zenon DEF Elems
    <3> QED BY <3>1, <3>2, <3>3, Zenon
  <2>2. ASSUME NEW x \in Elems(s), x # s[1] PROVE x \in Elems(r)
    <3>1. PICK j \in 1 .. n : x = s[j]
      BY <1>1, Zenon DEF Elems
    <3>2. PICK i \in 1 .. n - 1 : r[i] = s[j]
      BY <1>8, <2>2, <3>1, Zenon
    <3> QED BY <1>3, <3>1, <3>2, Zenon DEF Elems
  <2> QED BY <2>1, <2>2
<1>10. s[1] \in Elems(s)
  BY <1>1, <1>4, Zenon DEF Elems
<1> QED BY <1>2, <1>5, <1>6, <1>9, <1>10 DEF r

\* Putting an element that is not listed in front adds it to the list.
LEMMA ConsList ==
  ASSUME NEW S, NEW s \in Seq(S), NEW x \in S, NoRepeat(s), x \notin Elems(s)
  PROVE  /\ <<x>> \o s \in Seq(S) /\ NoRepeat(<<x>> \o s)
         /\ Elems(<<x>> \o s) = Elems(s) \cup {x}
<1> DEFINE n == Len(s)
           a == <<x>> \o s
<1>1. n \in Nat /\ DOMAIN s = 1 .. n
  BY LenProperties
<1>2. <<x>> \in Seq(S) /\ Len(<<x>>) = 1 /\ <<x>>[1] = x
  OBVIOUS
<1>3. /\ a \in Seq(S) /\ Len(a) = 1 + n
      /\ \A i \in 1 .. 1 + n : a[i] = IF i <= 1 THEN <<x>>[i] ELSE s[i - 1]
  BY <1>2, ConcatProperties
<1>4. DOMAIN a = 1 .. n + 1
  BY <1>1, <1>3, LenProperties
<1> HIDE DEF n
<1>5. /\ a[1] = x
      /\ \A i \in 1 .. n : a[i + 1] = s[i]
  BY <1>1, <1>2, <1>3
<1> HIDE DEF a
<1>6. /\ \A i \in 1 .. n + 1 : i = 1 \/ (i - 1 \in 1 .. n /\ (i - 1) + 1 = i)
      /\ \A i \in 1 .. n : i + 1 \in 1 .. n + 1 /\ i + 1 # 1
      /\ 1 \in 1 .. n + 1
      /\ \A i, j \in 1 .. n + 1 : i # j => i - 1 # j - 1
  BY <1>1
<1>7. \A i \in 1 .. n + 1 : i = 1 \/ (i - 1 \in 1 .. n /\ a[i] = s[i - 1])
  <2> SUFFICES ASSUME NEW i \in 1 .. n + 1, i # 1
               PROVE  i - 1 \in 1 .. n /\ a[i] = s[i - 1]
    OBVIOUS
  <2>1. i - 1 \in 1 .. n /\ (i - 1) + 1 = i
    BY <1>6
  <2>2. a[(i - 1) + 1] = s[i - 1]
    BY <1>5, <2>1, Zenon
  <2> QED BY <2>1, <2>2
<1>8. NoRepeat(a)
  <2> SUFFICES ASSUME NEW i \in 1 .. n + 1, NEW j \in 1 .. n + 1, i # j
               PROVE  a[i] # a[j]
    BY <1>4, Zenon DEF NoRepeat
  <2>1. \A k \in 1 .. n : s[k] # x
    BY <1>1, Zenon DEF Elems
  <2>2. CASE i # 1 /\ j # 1
    <3>1. /\ i - 1 \in DOMAIN s /\ j - 1 \in DOMAIN s /\ i - 1 # j - 1
          /\ a[i] = s[i - 1] /\ a[j] = s[j - 1]
      BY <1>1, <1>6, <1>7, <2>2, Zenon
    <3> QED BY <3>1, Zenon DEF NoRepeat
  <2>3. CASE i = 1
    BY <1>5, <1>7, <2>1, <2>3, Zenon
  <2>4. CASE j = 1
    BY <1>5, <1>7, <2>1, <2>4, Zenon
  <2> QED BY <2>2, <2>3, <2>4
<1>9. Elems(a) = Elems(s) \cup {x}
  <2>1. ASSUME NEW y \in Elems(a) PROVE y \in Elems(s) \/ y = x
    <3>1. PICK i \in 1 .. n + 1 : y = a[i]
      BY <1>4, <2>1, Zenon DEF Elems
    <3>2. a[i] = x \/ (i - 1 \in DOMAIN s /\ a[i] = s[i - 1])
      BY <1>1, <1>5, <1>7, Zenon
    <3> QED BY <3>1, <3>2, Zenon DEF Elems
  <2>2. ASSUME NEW y \in Elems(s) PROVE y \in Elems(a)
    <3>1. PICK i \in 1 .. n : y = s[i]
      BY <1>1, Zenon DEF Elems
    <3>2. a[i + 1] = y /\ i + 1 \in DOMAIN a
      BY <1>4, <1>5, <1>6, <3>1, Zenon
    <3> QED BY <3>2, Zenon DEF Elems
  <2>3. x \in Elems(a)
    BY <1>4, <1>5, <1>6, Zenon DEF Elems
  <2> QED BY <2>1, <2>2, <2>3
<1> QED BY <1>3, <1>8, <1>9 DEF a

-----------------------------------------------------------------------------
(* Slots and their states.                                                 *)

In(s) == {i \in Slots : slot[i].state = s}
Busy == {i \in Slots : slot[i].state # "FREE"}
Alive == {w \in Workers : worker[w].pc \in {"loop", "work"}}

SlotRecords == [state : SlotStates, generation : 0 .. MaxTaskGeneration,
                task : Tasks \cup {NoTask}, cancel : BOOLEAN, cancelled : BOOLEAN]

\* A list lists a state when it repeats nothing and its elements are the slots
\* in that state.
LEMMA ListsMeans ==
  /\ \A s : Lists(free, s) <=> NoRepeat(free) /\ Elems(free) = In(s)
  /\ \A s : Lists(pending, s) <=> NoRepeat(pending) /\ Elems(pending) = In(s)
  /\ \A s : Lists(complete, s) <=> NoRepeat(complete) /\ Elems(complete) = In(s)
BY Zenon DEF Lists, NoRepeat, Elems, In

\* The same of the next state.
LEMMA ListsMeansNext ==
  /\ \A s : Lists(free, s)' <=> NoRepeat(free') /\ Elems(free') = In(s)'
  /\ \A s : Lists(pending, s)' <=> NoRepeat(pending') /\ Elems(pending') = In(s)'
  /\ \A s : Lists(complete, s)' <=> NoRepeat(complete') /\ Elems(complete') = In(s)'
BY Zenon DEF Lists, NoRepeat, Elems, In

\* The slots are finitely many, and so are the busy ones and the threads.
LEMMA SlotsFinite ==
  /\ IsFiniteSet(Slots) /\ IsFiniteSet(Busy) /\ IsFiniteSet(Alive)
  /\ Cardinality(Busy) \in Nat /\ Cardinality(Alive) \in Nat
<1>1. IsFiniteSet(Slots)
  BY FS_Interval DEF Slots
<1>2. Busy \subseteq Slots /\ Alive \subseteq Workers
  BY DEF Busy, Alive
<1>3. IsFiniteSet(Busy) /\ IsFiniteSet(Alive)
  BY <1>1, <1>2, FS_Subset
<1> QED BY <1>1, <1>3, FS_CardinalityType

\* A slot that changes its state leaves one set of slots for another.
LEMMA SlotMove ==
  ASSUME NEW i \in Slots, NEW from, NEW to, from # to,
         slot[i].state = from, slot'[i].state = to,
         \A j \in Slots : j # i => slot'[j].state = slot[j].state
  PROVE  /\ In(to)' = In(to) \cup {i} /\ i \notin In(to)
         /\ In(from)' = In(from) \ {i} /\ i \in In(from)
         /\ \A s : s # from /\ s # to => In(s)' = In(s)
<1>1. \A j \in Slots : slot'[j].state = IF j = i THEN to ELSE slot[j].state
  BY Zenon
<1>2. In(to)' = In(to) \cup {i} /\ i \notin In(to)
  BY <1>1 DEF In
<1>3. In(from)' = In(from) \ {i} /\ i \in In(from)
  BY <1>1 DEF In
<1>4. ASSUME NEW s, s # from, s # to PROVE In(s)' = In(s)
  BY <1>1, <1>4 DEF In
<1> QED BY <1>2, <1>3, <1>4, Zenon

\* A step that changes no slot's state and no list keeps the accounts.
LEMMA AccountsFrame ==
  ASSUME Accounts, UNCHANGED <<free, pending, complete, outstanding>>,
         \A j \in Slots : slot'[j].state = slot[j].state
  PROVE  Accounts'
<1>1. \A s : In(s)' = In(s)
  BY DEF In
<1>2. Busy' = Busy
  BY DEF Busy
<1>3. /\ NoRepeat(free') /\ Elems(free') = In("FREE")'
      /\ NoRepeat(pending') /\ Elems(pending') = In("QUEUED")'
      /\ NoRepeat(complete') /\ Elems(complete') = In("COMPLETED")'
      /\ outstanding' = Cardinality(Busy')
  BY <1>1, <1>2, ListsMeans, Zenon DEF Accounts, Busy
<1> QED BY <1>3, ListsMeansNext, Zenon DEF Accounts, Busy

\* A step that moves no worker and starts or ends no work keeps the crew.
LEMMA CrewFrame ==
  ASSUME Crew, UNCHANGED <<worker, workers_alive>>,
         \A j \in Slots : slot'[j].state = "RUNNING" <=> slot[j].state = "RUNNING",
         state' = state \/ state' \notin {"NEW", "JOINED", "DESTROYED"}
           \/ state \in {"NEW", "JOINED", "DESTROYED"}
  PROVE  Crew'
<1>1. \A w \in Workers :
        /\ worker'[w].pc = "work" =>
             worker'[w].slot \in Slots /\ slot'[worker'[w].slot].state = "RUNNING"
        /\ worker'[w].pc # "work" => worker'[w].slot = 0
        /\ \A v \in Workers \ {w} :
             worker'[v].slot # 0 => worker'[v].slot # worker'[w].slot
  BY Zenon DEF Crew
<1>2. \A i \in Slots : slot'[i].state = "RUNNING" =>
        \E w \in Workers : worker'[w].pc = "work" /\ worker'[w].slot = i
  BY Zenon DEF Crew
<1>3. workers_alive' = Cardinality({w \in Workers : worker'[w].pc \in {"loop", "work"}})
  BY DEF Crew
<1>4. state' \in {"NEW", "JOINED", "DESTROYED"} =>
        \A w \in Workers : worker'[w].pc \in {"none", "exited"}
  BY DEF Crew
<1> QED BY <1>1, <1>2, <1>3, <1>4, Zenon DEF Crew

\* A step that leaves the slots and the histories alone keeps the stages.
LEMMA StagesFrame ==
  ASSUME Stages,
         UNCHANGED <<slot, handle, ran, delivered, reported, cancel_ok>>,
         state' = "DESTROYED" => outstanding' = 0
  PROVE  Stages'
<1>1. \A i \in Slots : SlotStage(i)'
  BY DEF Stages, SlotStage
<1>2. \A t \in Tasks : TaskStage(t)'
  BY DEF Stages, TaskStage
<1> QED BY <1>1, <1>2 DEF Stages

\* The task of a busy slot is in no other slot.
LEMMA OneSlotPerTask ==
  ASSUME Stages, NEW i \in Slots, NEW j \in Slots,
         slot[i].state # "FREE", slot[i].task = slot[j].task
  PROVE  i = j
<1>1. slot[i].task \in Tasks /\ slot[i].task # NoTask
  BY Zenon DEF Stages, SlotStage
<1>2. slot[j].state # "FREE"
  BY <1>1, Zenon DEF Stages, SlotStage
<1>3. /\ handle[slot[i].task] = [slot |-> i, generation |-> slot[i].generation]
      /\ handle[slot[i].task] = [slot |-> j, generation |-> slot[j].generation]
  BY <1>2, Zenon DEF Stages, SlotStage
<1> QED BY <1>3

\* The task of a busy slot has that slot's handle, so it was submitted.
LEMMA BusyHandle ==
  ASSUME Stages, NEW i \in Slots, slot[i].state # "FREE"
  PROVE  slot[i].task \in Tasks /\ handle[slot[i].task] # NoHandle
<1>1. /\ slot[i].task \in Tasks
      /\ handle[slot[i].task] = [slot |-> i, generation |-> slot[i].generation]
  BY Zenon DEF Stages, SlotStage
<1>2. handle[slot[i].task].slot = i /\ NoHandle.slot = 0 /\ i # 0
  BY <1>1 DEF NoHandle, Slots
<1> QED BY <1>1, <1>2

\* A slot keeps its stage when neither it nor what is said of its task changes.
LEMMA SlotStageFrame ==
  ASSUME NEW i \in Slots, SlotStage(i), slot'[i] = slot[i],
         slot[i].task \in Tasks =>
           /\ handle'[slot[i].task] = handle[slot[i].task]
           /\ ran'[slot[i].task] = ran[slot[i].task]
           /\ delivered'[slot[i].task] = delivered[slot[i].task]
           /\ slot[i].task \in cancel_ok' <=> slot[i].task \in cancel_ok
  PROVE  SlotStage(i)'
<1>1. CASE slot[i].state = "FREE"
  BY <1>1 DEF SlotStage
<1>2. CASE slot[i].state # "FREE"
  <2>1. slot[i].task \in Tasks
    BY <1>2 DEF SlotStage
  <2>2. /\ slot'[i].task \in Tasks
        /\ handle'[slot'[i].task] = [slot |-> i, generation |-> slot'[i].generation]
        /\ ran'[slot'[i].task] = IF slot'[i].state = "QUEUED" THEN 0 ELSE 1
        /\ delivered'[slot'[i].task] = IF slot'[i].state = "DELIVERING" THEN 1 ELSE 0
    BY <1>2, <2>1 DEF SlotStage
  <2>3. /\ slot'[i].state \in {"QUEUED", "RUNNING"} =>
             (slot'[i].cancel <=> slot'[i].task \in cancel_ok')
        /\ slot'[i].state = "COMPLETED" =>
             (slot'[i].cancelled <=> slot'[i].task \in cancel_ok')
    BY <2>1, Zenon DEF SlotStage
  <2> QED BY <1>2, <2>2, <2>3, Zenon DEF SlotStage
<1> QED BY <1>1, <1>2

-----------------------------------------------------------------------------
(* The initial state, and the steps.                                       *)

\* Every slot is free, every worker is still to be created.
LEMMA TaskInit ==
  ASSUME Init
  PROVE  TaskInv
<1>1. TypeOK
  <2>1. FreeSlot \in SlotRecords
    BY DEF FreeSlot, SlotRecords, SlotStates
  <2>2. free \in Seq(Slots)
    BY DEF Init, Slots
  <2>3. <<>> \in Seq(Slots)
    BY EmptySeq
  <2>4. NoHandle \in [slot : Slots \cup {0}, generation : 0 .. MaxTaskGeneration]
    BY DEF NoHandle
  <2>5. [pc |-> "none", slot |-> 0] \in
          [pc : {"none", "loop", "work", "exited"}, slot : Slots \cup {0}]
    OBVIOUS
  <2> HIDE DEF FreeSlot, NoHandle
  <2> QED BY <2>1, <2>2, <2>3, <2>4, <2>5 DEF Init, TypeOK, SlotRecords
<1>2. Accounts
  <2>1. \A i \in Slots : slot[i].state = "FREE"
    BY DEF Init, FreeSlot
  <2>2. In("FREE") = Slots /\ In("QUEUED") = {} /\ In("COMPLETED") = {} /\ Busy = {}
    BY <2>1 DEF In, Busy
  <2>3. NoRepeat(free) /\ Elems(free) = Slots
    BY DEF Init, NoRepeat, Elems, Slots
  <2>4. NoRepeat(<<>>) /\ Elems(<<>>) = {}
    BY DEF NoRepeat, Elems
  <2>5. outstanding = Cardinality(Busy)
    BY <2>2, FS_EmptySet DEF Init
  <2> QED BY <2>2, <2>3, <2>4, <2>5, ListsMeans, Zenon DEF Accounts, Busy, Init
<1>3. Crew
  <2>1. \A w \in Workers : worker[w].pc = "none" /\ worker[w].slot = 0
    BY DEF Init
  <2>2. Alive = {}
    BY <2>1 DEF Alive
  <2>3. workers_alive = Cardinality(Alive)
    BY <2>2, FS_EmptySet DEF Init
  <2>4. \A i \in Slots : slot[i].state # "RUNNING"
    BY DEF Init, FreeSlot
  <2> QED BY <2>1, <2>3, <2>4 DEF Crew, Alive
<1>4. Stages
  BY DEF Init, Stages, SlotStage, TaskStage, FreeSlot, NoHandle
<1> QED BY <1>1, <1>2, <1>3, <1>4 DEF TaskInv

\* What TypeOK says of one slot, and of a slot that is written.
LEMMA SlotTypes ==
  ASSUME TypeOK
  PROVE  /\ \A i \in Slots : /\ slot[i] \in SlotRecords
                             /\ slot[i].generation \in Nat
         /\ DOMAIN slot = Slots
         /\ \A s : s \in [Slots -> SlotRecords] <=>
              s \in [Slots -> [state : SlotStates, generation : 0 .. MaxTaskGeneration,
                         task : Tasks \cup {NoTask}, cancel : BOOLEAN,
                         cancelled : BOOLEAN]]
<1>1. \A i \in Slots : slot[i] \in SlotRecords /\ DOMAIN slot = Slots
  BY DEF TypeOK, SlotRecords
<1>2. \A i \in Slots : slot[i].generation \in Nat
  BY <1>1 DEF SlotRecords
<1>3. Slots # {}
  BY DEF Slots
<1> QED BY <1>1, <1>2, <1>3 DEF SlotRecords

\* submit takes a free slot with a fresh generation for a task nobody knows.
LEMMA SubmitStep ==
  ASSUME TaskInv, NEW t \in Tasks, tr_task_executor_submit(t)
  PROVE  TaskInv'
<1> DEFINE i == Head(free)
           g == slot[i].generation + 1
           new == [state |-> "QUEUED", generation |-> g, task |-> t,
                   cancel |-> FALSE, cancelled |-> slot[i].cancelled]
           h == [slot |-> i, generation |-> g]
<1>1. /\ TypeOK /\ Accounts /\ Crew /\ Stages
      /\ free \in Seq(Slots) /\ pending \in Seq(Slots)
      /\ NoRepeat(free) /\ Elems(free) = In("FREE")
      /\ NoRepeat(pending) /\ Elems(pending) = In("QUEUED")
      /\ NoRepeat(complete) /\ Elems(complete) = In("COMPLETED")
      /\ outstanding = Cardinality(Busy)
  BY ListsMeans, Zenon DEF TaskInv, Accounts, Busy, TypeOK
<1>2. /\ state = "OPEN" /\ handle[t] = NoHandle /\ free # <<>>
      /\ g <= MaxTaskGeneration
      /\ slot' = [slot EXCEPT ![i] = new]
      /\ free' = Tail(free) /\ pending' = Append(pending, i)
      /\ handle' = [handle EXCEPT ![t] = h]
      /\ outstanding' = outstanding + 1 /\ sleeping' \subseteq sleeping
      /\ UNCHANGED <<state, complete, workers_alive, worker, owner, left, ran,
                     delivered, reported, cancel_ok>>
  BY DEF tr_task_executor_submit
<1>3. /\ i \in Slots /\ slot[i].state = "FREE" /\ free' \in Seq(Slots)
      /\ NoRepeat(free') /\ Elems(free') = In("FREE") \ {i}
  <2>1. /\ i \in Elems(free) /\ i \in Slots /\ free' \in Seq(Slots)
        /\ NoRepeat(free') /\ Elems(free') = Elems(free) \ {i}
    BY <1>1, <1>2, TailList
  <2> QED BY <1>1, <2>1 DEF In
<1>4. /\ slot[i] \in SlotRecords /\ slot[i].generation \in Nat
      /\ DOMAIN slot = Slots /\ \A j \in Slots : slot[j] \in SlotRecords
  BY <1>1, <1>3, SlotTypes, Zenon
<1>5. g \in 0 .. MaxTaskGeneration /\ g > slot[i].generation
  BY <1>2, <1>4
<1> HIDE DEF g
<1>6. new \in SlotRecords
  BY <1>4, <1>5 DEF SlotRecords, SlotStates
<1>7. /\ h \in [slot : Slots \cup {0}, generation : 0 .. MaxTaskGeneration]
      /\ h # NoHandle /\ h.slot = i /\ h.generation = g
  BY <1>3, <1>5 DEF NoHandle, Slots
<1>8. /\ slot'[i].state = "QUEUED" /\ slot'[i].generation = g
      /\ slot'[i].task = t /\ slot'[i].cancel = FALSE
      /\ \A j \in Slots : j # i => slot'[j] = slot[j]
  BY <1>2, <1>3, <1>4
<1>9. slot' \in [Slots -> SlotRecords]
  BY <1>2, <1>3, <1>4, <1>6
<1> HIDE DEF new, h
<1>10. handle'[t] = h /\ \A u \in Tasks : u # t => handle'[u] = handle[u]
  BY <1>1, <1>2 DEF TypeOK
<1> HIDE DEF i
<1>11. /\ In("QUEUED")' = In("QUEUED") \cup {i} /\ i \notin In("QUEUED")
       /\ In("FREE")' = In("FREE") \ {i}
       /\ In("COMPLETED")' = In("COMPLETED")
  <2>1. /\ i \in Slots /\ slot[i].state = "FREE" /\ slot'[i].state = "QUEUED"
        /\ \A j \in Slots : j # i => slot'[j].state = slot[j].state
    BY <1>3, <1>8, Zenon
  <2>2. /\ In("QUEUED")' = In("QUEUED") \cup {i} /\ i \notin In("QUEUED")
        /\ In("FREE")' = In("FREE") \ {i}
        /\ \A s : s # "FREE" /\ s # "QUEUED" => In(s)' = In(s)
    BY <2>1, SlotMove
  <2> QED BY <2>2
<1>12. /\ pending' \in Seq(Slots) /\ NoRepeat(pending')
       /\ Elems(pending') = In("QUEUED")'
  <2>1. /\ pending \in Seq(Slots) /\ NoRepeat(pending)
        /\ i \in Slots /\ i \notin Elems(pending)
    BY <1>1, <1>3, <1>11
  <2>2. /\ Append(pending, i) \in Seq(Slots) /\ NoRepeat(Append(pending, i))
        /\ Elems(Append(pending, i)) = Elems(pending) \cup {i}
    BY <2>1, AppendList
  <2> QED BY <1>1, <1>2, <1>11, <2>2, Zenon
<1>13. outstanding' = Cardinality(Busy')
  <2>1. Busy' = Busy \cup {i} /\ i \notin Busy
    BY <1>3, <1>8 DEF Busy
  <2>2. Cardinality(Busy \cup {i}) = Cardinality(Busy) + 1
    BY <2>1, SlotsFinite, FS_AddElement
  <2> QED BY <1>1, <1>2, <2>1, <2>2
<1>14. TypeOK'
  <2>1. handle' \in [Tasks -> [slot : Slots \cup {0}, generation : 0 .. MaxTaskGeneration]]
    BY <1>1, <1>2, <1>7 DEF TypeOK
  <2>2. outstanding' \in Nat
    BY <1>1, <1>2 DEF TypeOK
  <2>3. sleeping' \subseteq Workers
    BY <1>1, <1>2 DEF TypeOK
  <2> QED BY <1>1, <1>2, <1>3, <1>9, <1>12, <2>1, <2>2, <2>3, Zenon DEF TypeOK, SlotRecords
<1>15. Accounts'
  <2>1. /\ Lists(free, "FREE")' /\ Lists(pending, "QUEUED")'
        /\ Lists(complete, "COMPLETED")'
    BY <1>1, <1>2, <1>3, <1>11, <1>12, ListsMeansNext
  <2> QED BY <1>13, <2>1, Zenon DEF Accounts, Busy
<1>16. Crew'
  <2>1. \A j \in Slots : slot'[j].state = "RUNNING" <=> slot[j].state = "RUNNING"
    BY <1>3, <1>8
  <2> QED BY <1>1, <1>2, <2>1, CrewFrame, Zenon
<1>17. \A j \in Slots : slot[j].task # t
  <2> SUFFICES ASSUME NEW j \in Slots, slot[j].task = t
               PROVE  FALSE
    OBVIOUS
  <2>1. slot[j].state # "FREE"
    BY <1>1 DEF Stages, SlotStage
  <2> QED BY <1>1, <1>2, <2>1, BusyHandle
<1>18. ran[t] = 0 /\ delivered[t] = 0 /\ t \notin cancel_ok
  BY <1>1, <1>2, <1>17 DEF Stages, TaskStage
<1>19. ASSUME NEW j \in Slots PROVE SlotStage(j)'
  <2>1. CASE j = i
    BY <1>2, <1>7, <1>8, <1>10, <1>18, <2>1 DEF SlotStage, h
  <2>2. CASE j # i
    <3>1. SlotStage(j) /\ slot'[j] = slot[j] /\ slot[j].task # t
      BY <1>1, <1>8, <1>17, <2>2 DEF Stages
    <3> QED BY <1>2, <1>10, <3>1, SlotStageFrame, Zenon
  <2> QED BY <2>1, <2>2
<1>20. ASSUME NEW u \in Tasks PROVE TaskStage(u)'
  <2>1. CASE u = t
    BY <1>2, <1>3, <1>5, <1>7, <1>8, <1>10, <1>18, <2>1 DEF TaskStage
  <2>2. CASE u # t
    <3>1. TaskStage(u) /\ handle'[u] = handle[u] /\ slot[i].task = NoTask
      BY <1>1, <1>3, <1>10, <2>2 DEF Stages, SlotStage
    <3>2. (\A j \in Slots : slot'[j].task # u) => \A j \in Slots : slot[j].task # u
      BY <1>8, <3>1
    <3>3. handle[u].generation \in Nat
      BY <1>1 DEF TypeOK
    <3>4. ASSUME handle[u] # NoHandle
          PROVE  /\ handle[u].slot \in Slots
                 /\ handle[u].generation <= slot'[handle[u].slot].generation
                 /\ /\ handle[u].generation = slot'[handle[u].slot].generation
                    /\ slot'[handle[u].slot].state # "FREE"
                    => slot'[handle[u].slot].task = u
      <4>1. CASE handle[u].slot = i
        BY <1>3, <1>4, <1>5, <1>8, <3>1, <3>3, <3>4, <4>1 DEF TaskStage
      <4>2. CASE handle[u].slot # i
        BY <1>8, <3>1, <3>4, <4>2 DEF TaskStage
      <4> QED BY <4>1, <4>2
    <3> QED BY <1>2, <3>1, <3>2, <3>4 DEF TaskStage, NoHandle
  <2> QED BY <2>1, <2>2
<1>21. Stages'
  BY <1>2, <1>19, <1>20 DEF Stages
<1> QED BY <1>14, <1>15, <1>16, <1>21 DEF TaskInv

\* cancel reaches the task of its handle or nobody: a stale handle names a
\* slot of another generation or no active one.
LEMMA CancelStep ==
  ASSUME TaskInv, NEW t \in Tasks, tr_task_executor_cancel(t)
  PROVE  TaskInv'
<1> DEFINE i == handle[t].slot
<1>1. TypeOK /\ Accounts /\ Crew /\ Stages
  BY DEF TaskInv
<1>2. /\ handle[t] # NoHandle /\ i \in Active
      /\ slot[i].generation = handle[t].generation
      /\ slot' = [slot EXCEPT ![i].cancel = TRUE]
      /\ cancel_ok' = cancel_ok \cup {t} /\ state # "DESTROYED"
      /\ UNCHANGED <<execVars, threadVars, handle, ran, delivered, reported>>
  BY Zenon DEF tr_task_executor_cancel
<1>3. i \in Slots /\ slot[i].state \in {"QUEUED", "RUNNING"}
  BY <1>2 DEF Active
<1> HIDE DEF i
<1>4. \A j \in Slots : slot[j] \in SlotRecords /\ DOMAIN slot = Slots
  BY <1>1, SlotTypes, Zenon
<1>5. slot' \in [Slots -> SlotRecords]
  <2>1. [slot[i] EXCEPT !.cancel = TRUE] \in SlotRecords
    BY <1>3, <1>4, Zenon DEF SlotRecords
  <2> QED BY <1>2, <1>3, <1>4, <2>1
<1>6. /\ slot'[i].state = slot[i].state /\ slot'[i].task = slot[i].task
      /\ slot'[i].generation = slot[i].generation /\ slot'[i].cancel = TRUE
      /\ slot'[i].cancelled = slot[i].cancelled
      /\ \A j \in Slots : j # i => slot'[j] = slot[j]
  BY <1>2, <1>3, <1>4 DEF SlotRecords
<1>7. TypeOK'
  BY <1>1, <1>2, <1>5, Zenon DEF TypeOK, SlotRecords
<1>8. \A j \in Slots : slot'[j].state = slot[j].state /\ slot'[j].task = slot[j].task
                       /\ slot'[j].generation = slot[j].generation
                       /\ slot'[j].cancelled = slot[j].cancelled
  BY <1>6, Zenon
<1>9. Accounts'
  BY <1>1, <1>2, <1>8, AccountsFrame, Zenon
<1>10. Crew'
  BY <1>1, <1>2, <1>8, CrewFrame, Zenon
<1>11. slot[i].task = t
  BY <1>1, <1>2, <1>3 DEF Stages, TaskStage, i
<1>12. \A j \in Slots : j # i => slot[j].task # t
  BY <1>1, <1>3, <1>11, OneSlotPerTask
<1>13. ASSUME NEW j \in Slots PROVE SlotStage(j)'
  <2>1. SlotStage(j)
    BY <1>1 DEF Stages
  <2>2. CASE j = i
    BY <1>2, <1>3, <1>6, <1>11, <2>1, <2>2 DEF SlotStage
  <2>3. CASE j # i
    <3>1. slot'[j] = slot[j] /\ (slot[j].task \in cancel_ok' <=> slot[j].task \in cancel_ok)
      BY <1>2, <1>6, <1>12, <2>3
    <3> QED BY <1>2, <2>1, <3>1, Zenon DEF SlotStage
  <2> QED BY <2>2, <2>3
<1>14. delivered[t] = 0
  BY <1>1, <1>3, <1>11 DEF Stages, SlotStage
<1>15. ASSUME NEW u \in Tasks PROVE TaskStage(u)'
  <2>1. TaskStage(u) /\ (u # t => (u \in cancel_ok' <=> u \in cancel_ok))
    BY <1>1, <1>2 DEF Stages
  <2>2. handle[u] # NoHandle => handle[u].slot \in Slots
    BY <2>1 DEF TaskStage
  <2> QED BY <1>2, <1>8, <1>14, <2>1, <2>2 DEF TaskStage
<1>16. Stages'
  BY <1>2, <1>13, <1>15 DEF Stages
<1> QED BY <1>7, <1>9, <1>10, <1>16 DEF TaskInv

\* stop(CANCEL) cancels exactly the tasks that have no result yet.
LEMMA StopStep ==
  ASSUME TaskInv, NEW mode, tr_task_executor_stop(mode)
  PROVE  TaskInv'
<1>1. TypeOK /\ Accounts /\ Crew /\ Stages
  BY DEF TaskInv
<1>2. /\ state # "DESTROYED"
      /\ state' = IF state = "JOINED" THEN state ELSE "STOPPING"
      /\ sleeping' = {}
      /\ UNCHANGED <<free, pending, complete, outstanding, workers_alive, worker,
                     owner, left, handle, ran, delivered, reported>>
  BY DEF tr_task_executor_stop
<1>3. CASE mode # "CANCEL"
  <2>1. UNCHANGED <<slot, cancel_ok>>
    BY <1>3 DEF tr_task_executor_stop
  <2>2. TypeOK'
    BY <1>1, <1>2, <2>1 DEF TypeOK
  <2>3. Accounts'
    BY <1>1, <1>2, <2>1, AccountsFrame, Zenon
  <2>4. Crew'
    BY <1>1, <1>2, <2>1, CrewFrame
  <2>5. Stages'
    BY <1>1, <1>2, <2>1, StagesFrame
  <2> QED BY <2>2, <2>3, <2>4, <2>5 DEF TaskInv
<1>4. CASE mode = "CANCEL"
  <2> DEFINE T == {slot[i].task : i \in Active}
  <2>1. /\ slot' = [i \in Slots |-> IF i \in Active
                                    THEN [slot[i] EXCEPT !.cancel = TRUE]
                                    ELSE slot[i]]
        /\ cancel_ok' = cancel_ok \cup T
    BY <1>4 DEF tr_task_executor_stop
  <2>2. \A j \in Slots : slot[j] \in SlotRecords
    BY <1>1, SlotTypes, Zenon
  <2>3. \A j \in Slots : [slot[j] EXCEPT !.cancel = TRUE] \in SlotRecords
    BY <2>2, Zenon DEF SlotRecords
  <2>4. slot' \in [Slots -> SlotRecords]
    BY <2>1, <2>2, <2>3
  <2>5. \A j \in Slots : /\ slot'[j].state = slot[j].state
                         /\ slot'[j].task = slot[j].task
                         /\ slot'[j].generation = slot[j].generation
                         /\ slot'[j].cancelled = slot[j].cancelled
                         /\ j \in Active => slot'[j].cancel = TRUE
    BY <2>1, <2>2 DEF SlotRecords
  <2>6. T \subseteq Tasks
    BY <1>1 DEF Active, Stages, SlotStage
  <2>7. TypeOK'
    BY <1>1, <1>2, <2>1, <2>4, <2>6 DEF TypeOK, SlotRecords
  <2>8. Accounts'
    BY <1>1, <1>2, <2>5, AccountsFrame, Zenon
  <2>9. Crew'
    BY <1>1, <1>2, <2>5, CrewFrame
  <2>10. ASSUME NEW j \in Slots PROVE SlotStage(j)'
    <3>1. SlotStage(j)
      BY <1>1 DEF Stages
    <3>2. j \in Active => slot[j].task \in T
      BY Zenon
    <3>3. slot[j].state = "COMPLETED" => slot[j].task \notin T
      BY <1>1, OneSlotPerTask DEF Active
    <3>4. slot[j].state \in {"QUEUED", "RUNNING"} => j \in Active
      BY DEF Active
    <3> HIDE DEF T
    <3> QED BY <1>2, <2>1, <2>5, <3>1, <3>2, <3>3, <3>4 DEF SlotStage
  <2>11. \A u \in T : delivered[u] = 0 /\ handle[u] # NoHandle
    <3> SUFFICES ASSUME NEW j \in Active
                 PROVE  delivered[slot[j].task] = 0 /\ handle[slot[j].task] # NoHandle
      BY Zenon
    <3>1. j \in Slots /\ slot[j].state \in {"QUEUED", "RUNNING"}
      BY DEF Active
    <3> QED BY <1>1, <3>1, BusyHandle DEF Stages, SlotStage
  <2> HIDE DEF T
  <2>12. ASSUME NEW u \in Tasks PROVE TaskStage(u)'
    <3>1. TaskStage(u) /\ (handle[u] # NoHandle => handle[u].slot \in Slots)
      BY <1>1 DEF Stages, TaskStage
    <3>2. (u \in cancel_ok' <=> u \in cancel_ok) \/ u \in T
      BY <2>1
    <3> QED BY <1>2, <2>5, <2>11, <3>1, <3>2 DEF TaskStage
  <2>13. Stages'
    BY <1>2, <2>10, <2>12 DEF Stages
  <2> QED BY <2>7, <2>8, <2>9, <2>13 DEF TaskInv
<1> QED BY <1>3, <1>4

\* A worker takes the oldest queued slot; nobody else works on it.
LEMMA TakeStep ==
  ASSUME TaskInv, NEW w \in Workers, WorkerTake(w)
  PROVE  TaskInv'
<1> DEFINE i == Head(pending)
           t == slot[i].task
<1>1. /\ TypeOK /\ Accounts /\ Crew /\ Stages /\ pending \in Seq(Slots)
      /\ NoRepeat(free) /\ Elems(free) = In("FREE")
      /\ NoRepeat(pending) /\ Elems(pending) = In("QUEUED")
      /\ NoRepeat(complete) /\ Elems(complete) = In("COMPLETED")
      /\ outstanding = Cardinality(Busy)
  BY ListsMeans, Zenon DEF TaskInv, Accounts, Busy, TypeOK
<1>2. /\ worker[w].pc = "loop" /\ pending # <<>>
      /\ slot' = [slot EXCEPT ![i].state = "RUNNING"]
      /\ worker' = [worker EXCEPT ![w] = [pc |-> "work", slot |-> i]]
      /\ ran' = [ran EXCEPT ![t] = @ + 1]
      /\ pending' = Tail(pending)
      /\ UNCHANGED <<state, free, complete, outstanding, workers_alive,
                     sleeping, owner, left, handle, delivered, reported,
                     cancel_ok>>
  BY DEF WorkerTake
<1>3. /\ i \in Slots /\ slot[i].state = "QUEUED" /\ pending' \in Seq(Slots)
      /\ NoRepeat(pending') /\ Elems(pending') = In("QUEUED") \ {i}
  <2>1. /\ i \in Elems(pending) /\ i \in Slots /\ pending' \in Seq(Slots)
        /\ NoRepeat(pending') /\ Elems(pending') = Elems(pending) \ {i}
    BY <1>1, <1>2, TailList
  <2> QED BY <1>1, <2>1 DEF In
<1>4. t \in Tasks /\ ran[t] = 0 /\ delivered[t] = 0
  BY <1>1, <1>3 DEF Stages, SlotStage
<1> HIDE DEF i, t
<1>5. \A j \in Slots : slot[j] \in SlotRecords /\ DOMAIN slot = Slots
  BY <1>1, SlotTypes, Zenon
<1>6. slot' \in [Slots -> SlotRecords]
  <2>1. "RUNNING" \in SlotStates
    BY DEF SlotStates
  <2>2. [slot[i] EXCEPT !.state = "RUNNING"] \in SlotRecords
    BY <1>3, <1>5, <2>1, Zenon DEF SlotRecords
  <2> QED BY <1>2, <1>3, <1>5, <2>2
<1>7. /\ slot'[i].state = "RUNNING" /\ slot'[i].task = t
      /\ slot'[i].generation = slot[i].generation
      /\ slot'[i].cancel = slot[i].cancel
      /\ \A j \in Slots : j # i => slot'[j] = slot[j]
  BY <1>2, <1>3, <1>5 DEF SlotRecords, t
<1>8. /\ worker'[w] = [pc |-> "work", slot |-> i]
      /\ \A v \in Workers : v # w => worker'[v] = worker[v]
      /\ worker' \in [Workers -> [pc : {"none", "loop", "work", "exited"},
                                  slot : Slots \cup {0}]]
  BY <1>1, <1>2, <1>3 DEF TypeOK
<1>9. /\ ran'[t] = 1 /\ \A u \in Tasks : u # t => ran'[u] = ran[u]
      /\ ran' \in [Tasks -> Nat]
  BY <1>1, <1>2, <1>4 DEF TypeOK
<1>10. /\ In("RUNNING")' = In("RUNNING") \cup {i}
       /\ In("QUEUED")' = In("QUEUED") \ {i}
       /\ In("FREE")' = In("FREE") /\ In("COMPLETED")' = In("COMPLETED")
  BY <1>3, <1>7, SlotMove
<1>11. TypeOK'
  BY <1>1, <1>2, <1>3, <1>6, <1>8, <1>9, Zenon DEF TypeOK, SlotRecords
<1>12. Accounts'
  <2>1. Busy' = Busy
    BY <1>3, <1>7 DEF Busy
  <2>2. outstanding' = Cardinality(Busy')
    BY <1>1, <1>2, <2>1
  <2>3. /\ Lists(free, "FREE")' /\ Lists(pending, "QUEUED")'
        /\ Lists(complete, "COMPLETED")'
    BY <1>1, <1>2, <1>3, <1>10, ListsMeansNext
  <2> QED BY <2>2, <2>3, Zenon DEF Accounts, Busy
<1>13. Crew'
  <2>1. \A v \in Workers : worker[v].slot # i
    BY <1>1, <1>3 DEF Crew, Slots
  <2>2. \A v \in Workers :
          /\ worker'[v].pc = "work" =>
               worker'[v].slot \in Slots /\ slot'[worker'[v].slot].state = "RUNNING"
          /\ worker'[v].pc # "work" => worker'[v].slot = 0
    <3>1. ASSUME NEW v \in Workers, v # w
          PROVE  /\ worker'[v].pc = "work" =>
                      worker'[v].slot \in Slots /\ slot'[worker'[v].slot].state = "RUNNING"
                 /\ worker'[v].pc # "work" => worker'[v].slot = 0
      <4>1. worker'[v] = worker[v]
        BY <1>8, <3>1, Zenon
      <4>2. /\ worker[v].pc = "work" =>
                 worker[v].slot \in Slots /\ slot[worker[v].slot].state = "RUNNING"
            /\ worker[v].pc # "work" => worker[v].slot = 0
        BY <1>1, Zenon DEF Crew
      <4>3. worker[v].slot # i /\ \A j \in Slots : j # i => slot'[j] = slot[j]
        BY <1>7, <2>1, Zenon
      <4> QED BY <4>1, <4>2, <4>3, Zenon
    <3>2. worker'[w].pc = "work" /\ worker'[w].slot = i
      BY <1>8
    <3> QED BY <1>3, <1>7, <3>1, <3>2, Zenon
  <2>3. \A v \in Workers : \A x \in Workers \ {v} :
          worker'[x].slot # 0 => worker'[x].slot # worker'[v].slot
    BY <1>1, <1>3, <1>8, <2>1 DEF Crew
  <2>4. ASSUME NEW j \in Slots, slot'[j].state = "RUNNING"
        PROVE  \E v \in Workers : worker'[v].pc = "work" /\ worker'[v].slot = j
    <3>1. CASE j = i
      BY <1>8, <3>1
    <3>2. CASE j # i
      <4>1. PICK v \in Workers : worker[v].pc = "work" /\ worker[v].slot = j
        BY <1>1, <1>7, <2>4, <3>2 DEF Crew
      <4>2. v # w
        BY <1>2, <4>1
      <4> QED BY <1>8, <4>1, <4>2
    <3> QED BY <3>1, <3>2
  <2>5. Alive' = Alive
    BY <1>2, <1>8 DEF Alive
  <2>6. state \notin {"NEW", "JOINED", "DESTROYED"}
    BY <1>1, <1>2 DEF Crew
  <2>7. workers_alive' = Cardinality(Alive')
    BY <1>1, <1>2, <2>5 DEF Crew, Alive
  <2> QED BY <1>2, <2>2, <2>3, <2>4, <2>6, <2>7 DEF Crew, Alive
<1>14. \A j \in Slots : j # i => slot[j].task # t
  BY <1>1, <1>3, OneSlotPerTask DEF t
<1>15. ASSUME NEW j \in Slots PROVE SlotStage(j)'
  <2>1. SlotStage(j)
    BY <1>1 DEF Stages
  <2>2. CASE j = i
    BY <1>2, <1>3, <1>4, <1>7, <1>9, <2>1, <2>2 DEF SlotStage, t
  <2>3. CASE j # i
    <3>1. slot'[j] = slot[j]
      BY <1>7, <2>3
    <3>2. slot[j].task \in Tasks => ran'[slot[j].task] = ran[slot[j].task]
      BY <1>9, <1>14, <2>3
    <3> QED BY <1>2, <2>1, <3>1, <3>2, SlotStageFrame, Zenon
  <2> QED BY <2>2, <2>3
<1>16. ASSUME NEW u \in Tasks PROVE TaskStage(u)'
  <2>1. TaskStage(u)
    BY <1>1 DEF Stages
  <2>2. \A j \in Slots : /\ slot'[j].task = slot[j].task
                         /\ slot'[j].generation = slot[j].generation
                         /\ slot'[j].state = "FREE" <=> slot[j].state = "FREE"
    BY <1>3, <1>7 DEF t
  <2>3. handle[u] # NoHandle => handle[u].slot \in Slots
    BY <2>1 DEF TaskStage
  <2>4. (\A j \in Slots : slot[j].task # u) => ran'[u] = ran[u]
    BY <1>3, <1>9 DEF t
  <2> QED BY <1>2, <2>1, <2>2, <2>3, <2>4 DEF TaskStage
<1>17. Stages'
  BY <1>1, <1>2, <1>15, <1>16 DEF Stages
<1> QED BY <1>11, <1>12, <1>13, <1>17 DEF TaskInv

\* A worker commits its result, with the cancellation that came in time.
LEMMA CommitStep ==
  ASSUME TaskInv, NEW w \in Workers, WorkerCommit(w)
  PROVE  TaskInv'
<1> DEFINE i == worker[w].slot
           t == slot[i].task
<1>1. /\ TypeOK /\ Accounts /\ Crew /\ Stages /\ complete \in Seq(Slots)
      /\ NoRepeat(free) /\ Elems(free) = In("FREE")
      /\ NoRepeat(pending) /\ Elems(pending) = In("QUEUED")
      /\ NoRepeat(complete) /\ Elems(complete) = In("COMPLETED")
      /\ outstanding = Cardinality(Busy)
  BY ListsMeans, Zenon DEF TaskInv, Accounts, Busy, TypeOK
<1>2. /\ worker[w].pc = "work"
      /\ slot' = [slot EXCEPT ![i].state = "COMPLETED",
                              ![i].cancelled = slot[i].cancel]
      /\ complete' = Append(complete, i)
      /\ worker' = [worker EXCEPT ![w] = [pc |-> "loop", slot |-> 0]]
      /\ UNCHANGED <<state, free, pending, outstanding, workers_alive,
                     sleeping, owner, left, historyVars>>
  BY DEF WorkerCommit
<1>3. i \in Slots /\ slot[i].state = "RUNNING" /\ i # 0
  BY <1>1, <1>2 DEF Crew, Slots
<1>4. \A v \in Workers : v # w => worker[v].slot # i
  BY <1>1, <1>3 DEF Crew
<1> HIDE DEF i, t
<1>5. \A j \in Slots : slot[j] \in SlotRecords /\ DOMAIN slot = Slots
  BY <1>1, SlotTypes, Zenon
<1>6. slot' \in [Slots -> SlotRecords]
  <2>1. "COMPLETED" \in SlotStates /\ slot[i].cancel \in BOOLEAN
    BY <1>3, <1>5, Zenon DEF SlotStates, SlotRecords
  <2>2. [slot[i] EXCEPT !.state = "COMPLETED", !.cancelled = slot[i].cancel]
          \in SlotRecords
    BY <1>3, <1>5, <2>1, Zenon DEF SlotRecords
  <2>3. slot' = [slot EXCEPT ![i] = [slot[i] EXCEPT !.state = "COMPLETED",
                                               !.cancelled = slot[i].cancel]]
    BY <1>2, <1>3, <1>5
  <2> QED BY <1>3, <1>5, <2>2, <2>3
<1>7. /\ slot'[i].state = "COMPLETED" /\ slot'[i].task = t
      /\ slot'[i].generation = slot[i].generation
      /\ slot'[i].cancelled = slot[i].cancel
      /\ \A j \in Slots : j # i => slot'[j] = slot[j]
  BY <1>2, <1>3, <1>5 DEF SlotRecords, t
<1>8. /\ worker'[w] = [pc |-> "loop", slot |-> 0]
      /\ \A v \in Workers : v # w => worker'[v] = worker[v]
      /\ worker' \in [Workers -> [pc : {"none", "loop", "work", "exited"},
                                  slot : Slots \cup {0}]]
  BY <1>1, <1>2 DEF TypeOK
<1>9. /\ In("COMPLETED")' = In("COMPLETED") \cup {i} /\ i \notin In("COMPLETED")
      /\ In("FREE")' = In("FREE") /\ In("QUEUED")' = In("QUEUED")
  BY <1>3, <1>7, SlotMove
<1>10. /\ complete' \in Seq(Slots) /\ NoRepeat(complete')
       /\ Elems(complete') = In("COMPLETED")'
  <2>1. /\ complete \in Seq(Slots) /\ NoRepeat(complete)
        /\ i \in Slots /\ i \notin Elems(complete)
    BY <1>1, <1>3, <1>9
  <2>2. /\ Append(complete, i) \in Seq(Slots) /\ NoRepeat(Append(complete, i))
        /\ Elems(Append(complete, i)) = Elems(complete) \cup {i}
    BY <2>1, AppendList
  <2> QED BY <1>1, <1>2, <1>9, <2>2, Zenon
<1>11. TypeOK'
  BY <1>1, <1>2, <1>6, <1>8, <1>10, Zenon DEF TypeOK, SlotRecords
<1>12. Accounts'
  <2>1. Busy' = Busy
    BY <1>3, <1>7 DEF Busy
  <2>2. outstanding' = Cardinality(Busy')
    BY <1>1, <1>2, <2>1
  <2>3. /\ Lists(free, "FREE")' /\ Lists(pending, "QUEUED")'
        /\ Lists(complete, "COMPLETED")'
    BY <1>1, <1>2, <1>9, <1>10, ListsMeansNext
  <2> QED BY <2>2, <2>3, Zenon DEF Accounts, Busy
<1>13. Crew'
  <2>1. \A v \in Workers :
          /\ worker'[v].pc = "work" =>
               worker'[v].slot \in Slots /\ slot'[worker'[v].slot].state = "RUNNING"
          /\ worker'[v].pc # "work" => worker'[v].slot = 0
    <3>1. ASSUME NEW v \in Workers, v # w
          PROVE  /\ worker'[v].pc = "work" =>
                      worker'[v].slot \in Slots /\ slot'[worker'[v].slot].state = "RUNNING"
                 /\ worker'[v].pc # "work" => worker'[v].slot = 0
      <4>1. worker'[v] = worker[v]
        BY <1>8, <3>1, Zenon
      <4>2. /\ worker[v].pc = "work" =>
                 worker[v].slot \in Slots /\ slot[worker[v].slot].state = "RUNNING"
            /\ worker[v].pc # "work" => worker[v].slot = 0
        BY <1>1, Zenon DEF Crew
      <4>3. worker[v].pc = "work" => worker[v].slot # i
        BY <1>1, <1>4, <3>1, <4>2 DEF Crew, Slots
      <4>4. \A j \in Slots : j # i => slot'[j] = slot[j]
        BY <1>7, Zenon
      <4> QED BY <4>1, <4>2, <4>3, <4>4, Zenon
    <3>2. worker'[w].pc = "loop" /\ worker'[w].slot = 0
      BY <1>8
    <3> QED BY <3>1, <3>2
  <2>2. \A v \in Workers : \A x \in Workers \ {v} :
          worker'[x].slot # 0 => worker'[x].slot # worker'[v].slot
    <3>1. worker'[w].slot = 0
      BY <1>8
    <3>2. \A v \in Workers : \A x \in Workers \ {v} :
            worker[x].slot # 0 => worker[x].slot # worker[v].slot
      BY <1>1, Zenon DEF Crew
    <3> QED BY <1>8, <3>1, <3>2
  <2>3. ASSUME NEW j \in Slots, slot'[j].state = "RUNNING"
        PROVE  \E v \in Workers : worker'[v].pc = "work" /\ worker'[v].slot = j
    <3>1. j # i
      BY <1>7, <2>3
    <3>2. PICK v \in Workers : worker[v].pc = "work" /\ worker[v].slot = j
      BY <1>1, <1>7, <2>3, <3>1 DEF Crew
    <3>3. v # w
      BY <3>1, <3>2 DEF i
    <3> QED BY <1>8, <3>2, <3>3
  <2>4. Alive' = Alive
    BY <1>2, <1>8 DEF Alive
  <2>5. state \notin {"NEW", "JOINED", "DESTROYED"}
    BY <1>1, <1>2 DEF Crew
  <2>6. workers_alive' = Cardinality(Alive')
    BY <1>1, <1>2, <2>4 DEF Crew, Alive
  <2> QED BY <1>2, <2>1, <2>2, <2>3, <2>5, <2>6 DEF Crew, Alive
<1>14. ASSUME NEW j \in Slots PROVE SlotStage(j)'
  <2>1. SlotStage(j)
    BY <1>1 DEF Stages
  <2>2. CASE j = i
    <3>1. /\ slot'[i].task \in Tasks
          /\ handle'[slot'[i].task] = [slot |-> i, generation |-> slot'[i].generation]
          /\ ran'[slot'[i].task] = 1 /\ delivered'[slot'[i].task] = 0
      BY <1>2, <1>3, <1>7, <2>1, <2>2 DEF SlotStage, t
    <3>2. slot'[i].cancelled <=> slot'[i].task \in cancel_ok'
      <4>1. slot[i].cancel <=> t \in cancel_ok
        BY <1>3, <2>1, <2>2, Zenon DEF SlotStage, t
      <4>2. cancel_ok' = cancel_ok
        BY <1>2
      <4> QED BY <1>7, <4>1, <4>2, Zenon
    <3> QED BY <1>7, <2>2, <3>1, <3>2 DEF SlotStage
  <2>3. CASE j # i
    <3>1. slot'[j] = slot[j]
      BY <1>7, <2>3
    <3> QED BY <1>2, <2>1, <3>1, SlotStageFrame, Zenon
  <2> QED BY <2>2, <2>3
<1>15. ASSUME NEW u \in Tasks PROVE TaskStage(u)'
  <2>1. TaskStage(u)
    BY <1>1 DEF Stages
  <2>2. \A j \in Slots : /\ slot'[j].task = slot[j].task
                         /\ slot'[j].generation = slot[j].generation
                         /\ slot'[j].state = "FREE" <=> slot[j].state = "FREE"
    BY <1>3, <1>7 DEF t
  <2>3. handle[u] # NoHandle => handle[u].slot \in Slots
    BY <2>1 DEF TaskStage
  <2> QED BY <1>2, <2>1, <2>2, <2>3 DEF TaskStage
<1>16. Stages'
  BY <1>1, <1>2, <1>14, <1>15 DEF Stages
<1> QED BY <1>11, <1>12, <1>13, <1>16 DEF TaskInv

\* A worker leaves a stopping executor, start creates workers, and the steps
\* that only wait, wake or begin something change no slot.
LEMMA CrewStep ==
  ASSUME TaskInv,
         \/ \E w \in Workers : WorkerWait(w) \/ SpuriousWakeup(w) \/ WorkerExit(w)
         \/ tr_task_executor_start
         \/ \E limit \in Limits : tr_task_executor_dispatch(limit)
         \/ tr_task_executor_join \/ JoinReturn \/ tr_task_executor_destroy
  PROVE  TaskInv'
<1>1. TypeOK /\ Accounts /\ Crew /\ Stages
  BY DEF TaskInv
<1>2. /\ UNCHANGED <<slot, free, pending, complete, outstanding, historyVars>>
      /\ state' = "DESTROYED" => outstanding' = 0
  BY <1>1, ZenonT(30)
     DEF WorkerWait, SpuriousWakeup, WorkerExit, tr_task_executor_start,
         tr_task_executor_dispatch, tr_task_executor_join, JoinReturn,
         tr_task_executor_destroy, Stages
<1>3. Accounts'
  BY <1>1, <1>2, AccountsFrame, Zenon
<1>4. Stages'
  BY <1>1, <1>2, StagesFrame, Zenon
<1>5. ASSUME NEW w \in Workers, WorkerExit(w)
      PROVE  TypeOK' /\ Crew'
  <2>1. /\ worker[w].pc = "loop" /\ state = "STOPPING"
        /\ workers_alive' = workers_alive - 1
        /\ worker' = [worker EXCEPT ![w].pc = "exited"]
        /\ UNCHANGED <<state, sleeping, owner, left>>
    BY <1>5 DEF WorkerExit
  <2>2. /\ worker'[w].pc = "exited" /\ worker'[w].slot = worker[w].slot
        /\ \A v \in Workers : v # w => worker'[v] = worker[v]
        /\ worker' \in [Workers -> [pc : {"none", "loop", "work", "exited"},
                                    slot : Slots \cup {0}]]
    <3> DEFINE Rec == [pc : {"none", "loop", "work", "exited"}, slot : Slots \cup {0}]
    <3>1. worker \in [Workers -> Rec]
      BY <1>1 DEF TypeOK
    <3>2. [worker[w] EXCEPT !.pc = "exited"] \in Rec
      BY <3>1, Zenon
    <3>3. worker' = [worker EXCEPT ![w] = [worker[w] EXCEPT !.pc = "exited"]]
      BY <2>1, <3>1
    <3>4. worker[w] \in Rec
      BY <3>1
    <3>5. /\ [worker[w] EXCEPT !.pc = "exited"].pc = "exited"
          /\ [worker[w] EXCEPT !.pc = "exited"].slot = worker[w].slot
      BY <3>4
    <3> HIDE DEF Rec
    <3>6. /\ worker'[w] = [worker[w] EXCEPT !.pc = "exited"]
          /\ \A v \in Workers : v # w => worker'[v] = worker[v]
          /\ worker' \in [Workers -> Rec]
      BY <3>1, <3>2, <3>3
    <3> QED BY <3>5, <3>6 DEF Rec
  <2>3. Alive' = Alive \ {w} /\ w \in Alive
    BY <2>1, <2>2 DEF Alive
  <2>4. /\ Cardinality(Alive \ {w}) = Cardinality(Alive) - 1
        /\ Cardinality(Alive \ {w}) \in Nat
    BY <2>3, SlotsFinite, FS_RemoveElement, FS_CardinalityType
  <2>5. workers_alive' = Cardinality(Alive') /\ workers_alive' \in Nat
    BY <1>1, <2>1, <2>3, <2>4 DEF Crew, Alive
  <2>6. TypeOK'
    BY <1>1, <1>2, <2>1, <2>2, <2>5, Zenon DEF TypeOK
  <2>7. \A v \in Workers :
          /\ worker'[v].pc = "work" =>
               worker'[v].slot \in Slots /\ slot'[worker'[v].slot].state = "RUNNING"
          /\ worker'[v].pc # "work" => worker'[v].slot = 0
          /\ \A x \in Workers \ {v} :
               worker'[x].slot # 0 => worker'[x].slot # worker'[v].slot
    BY <1>1, <1>2, <2>1, <2>2 DEF Crew
  <2>8. \A j \in Slots : slot'[j].state = "RUNNING" =>
          \E v \in Workers : worker'[v].pc = "work" /\ worker'[v].slot = j
    <3> SUFFICES ASSUME NEW j \in Slots, slot[j].state = "RUNNING"
                 PROVE  \E v \in Workers : worker'[v].pc = "work" /\ worker'[v].slot = j
      BY <1>2
    <3>1. PICK v \in Workers : worker[v].pc = "work" /\ worker[v].slot = j
      BY <1>1 DEF Crew
    <3>2. v # w
      BY <2>1, <3>1
    <3> QED BY <2>2, <3>1, <3>2
  <2>9. Crew'
    BY <2>1, <2>5, <2>7, <2>8 DEF Crew, Alive
  <2> QED BY <2>6, <2>9
<1>6. ASSUME tr_task_executor_start
      PROVE  TypeOK' /\ Crew'
  <2>1. PICK W \in SUBSET Workers :
          /\ worker' = [w \in Workers |->
                          [pc |-> IF w \in W THEN "loop" ELSE "none", slot |-> 0]]
          /\ workers_alive' = Cardinality(W)
          /\ state' = IF W = Workers THEN "OPEN" ELSE "STOPPING"
    BY <1>6, Zenon DEF tr_task_executor_start
  <2>2. state = "NEW" /\ UNCHANGED <<sleeping, owner, left>>
    BY <1>6 DEF tr_task_executor_start
  <2>3. \A w \in Workers : /\ worker'[w].pc = IF w \in W THEN "loop" ELSE "none"
                           /\ worker'[w].slot = 0
    BY <2>1
  <2>4. Alive' = W
    BY <2>3 DEF Alive
  <2>5. Cardinality(W) \in Nat
    BY FS_Subset, FS_CardinalityType
  <2>6. TypeOK'
    BY <1>1, <1>2, <2>1, <2>2, <2>5 DEF TypeOK
  <2>7. \A j \in Slots : slot[j].state # "RUNNING"
    BY <1>1, <2>2 DEF Crew
  <2>8. Crew'
    BY <1>2, <2>1, <2>3, <2>4, <2>7 DEF Crew, Alive
  <2> QED BY <2>6, <2>8
<1>7. ASSUME \/ \E w \in Workers : WorkerWait(w) \/ SpuriousWakeup(w)
             \/ \E limit \in Limits : tr_task_executor_dispatch(limit)
             \/ tr_task_executor_join \/ JoinReturn \/ tr_task_executor_destroy
      PROVE  TypeOK' /\ Crew'
  <2>1. UNCHANGED <<worker, workers_alive>>
    BY <1>7, Zenon
       DEF WorkerWait, SpuriousWakeup, tr_task_executor_dispatch,
           tr_task_executor_join, JoinReturn, tr_task_executor_destroy
  <2>2. /\ sleeping' \subseteq Workers /\ left' \in Nat
        /\ owner' \in {"idle", "dispatch", "deliver", "join"}
    BY <1>1, <1>7
       DEF WorkerWait, SpuriousWakeup, tr_task_executor_dispatch,
           tr_task_executor_join, JoinReturn, tr_task_executor_destroy, TypeOK
  <2>3. \/ state' = state
        \/ /\ state' = "JOINED"
           /\ \A w \in Workers : worker[w].pc \in {"none", "exited"}
        \/ state' = "DESTROYED" /\ state \in {"NEW", "JOINED"}
    BY <1>7
       DEF WorkerWait, SpuriousWakeup, tr_task_executor_dispatch,
           tr_task_executor_join, JoinReturn, tr_task_executor_destroy
  <2>4. TypeOK'
    BY <1>1, <1>2, <2>1, <2>2, <2>3 DEF TypeOK
  <2>5. Crew'
    BY <1>1, <1>2, <2>1, <2>3 DEF Crew
  <2> QED BY <2>4, <2>5
<1> QED BY <1>3, <1>4, <1>5, <1>6, <1>7, Zenon DEF TaskInv

\* dispatch hands a completed task to done() once, with its cancellation.
LEMMA DeliverStep ==
  ASSUME TaskInv, DispatchOne
  PROVE  TaskInv'
<1> DEFINE i == Head(complete)
           t == slot[i].task
<1>1. /\ TypeOK /\ Accounts /\ Crew /\ Stages /\ complete \in Seq(Slots)
      /\ NoRepeat(free) /\ Elems(free) = In("FREE")
      /\ NoRepeat(pending) /\ Elems(pending) = In("QUEUED")
      /\ NoRepeat(complete) /\ Elems(complete) = In("COMPLETED")
      /\ outstanding = Cardinality(Busy)
  BY ListsMeans, Zenon DEF TaskInv, Accounts, Busy, TypeOK
<1>2. /\ owner = "dispatch"
      /\ UNCHANGED <<state, free, pending, outstanding, workers_alive, worker,
                     sleeping, handle, ran, cancel_ok>>
  BY DEF DispatchOne
<1>3. CASE ~(left # 0 /\ complete # <<>>)
  <2>1. /\ owner' = "idle" /\ left' = 0
        /\ UNCHANGED <<slot, complete, delivered, reported>>
    BY <1>3 DEF DispatchOne
  <2>2. TypeOK'
    BY <1>1, <1>2, <2>1 DEF TypeOK
  <2>3. Accounts'
    BY <1>1, <1>2, <2>1, AccountsFrame, Zenon
  <2>4. Crew'
    BY <1>1, <1>2, <2>1, CrewFrame, Zenon
  <2>5. Stages'
    BY <1>1, <1>2, <2>1, StagesFrame, Zenon DEF Stages
  <2> QED BY <2>2, <2>3, <2>4, <2>5 DEF TaskInv
<1>4. CASE left # 0 /\ complete # <<>>
  <2>1. /\ slot' = [slot EXCEPT ![i].state = "DELIVERING"]
        /\ complete' = Tail(complete)
        /\ delivered' = [delivered EXCEPT ![t] = @ + 1]
        /\ reported' = [reported EXCEPT ![t] = slot[i].cancelled]
        /\ owner' = "deliver" /\ left' = left - 1
    BY <1>4 DEF DispatchOne
  <2>2. /\ i \in Slots /\ slot[i].state = "COMPLETED" /\ complete' \in Seq(Slots)
        /\ NoRepeat(complete') /\ Elems(complete') = In("COMPLETED") \ {i}
    <3>1. /\ i \in Elems(complete) /\ i \in Slots /\ complete' \in Seq(Slots)
          /\ NoRepeat(complete') /\ Elems(complete') = Elems(complete) \ {i}
      BY <1>1, <1>4, <2>1, TailList
    <3> QED BY <1>1, <3>1 DEF In
  <2>3. t \in Tasks /\ ran[t] = 1 /\ delivered[t] = 0
    BY <1>1, <2>2 DEF Stages, SlotStage
  <2> HIDE DEF i, t
  <2>4. \A j \in Slots : slot[j] \in SlotRecords /\ DOMAIN slot = Slots
    BY <1>1, SlotTypes, Zenon
  <2>5. slot' \in [Slots -> SlotRecords]
    <3>1. "DELIVERING" \in SlotStates
      BY DEF SlotStates
    <3>2. [slot[i] EXCEPT !.state = "DELIVERING"] \in SlotRecords
      BY <2>2, <2>4, <3>1, Zenon DEF SlotRecords
    <3> QED BY <2>1, <2>2, <2>4, <3>2
  <2>6. /\ slot'[i].state = "DELIVERING" /\ slot'[i].task = t
        /\ slot'[i].generation = slot[i].generation
        /\ \A j \in Slots : j # i => slot'[j] = slot[j]
    BY <2>1, <2>2, <2>4 DEF SlotRecords, t
  <2>7. /\ delivered'[t] = 1 /\ \A u \in Tasks : u # t => delivered'[u] = delivered[u]
        /\ delivered' \in [Tasks -> Nat]
    BY <1>1, <2>1, <2>3 DEF TypeOK
  <2>8. slot[i].cancelled \in BOOLEAN
    BY <2>2, <2>4, Zenon DEF SlotRecords
  <2>9. /\ reported'[t] = slot[i].cancelled
        /\ \A u \in Tasks : u # t => reported'[u] = reported[u]
        /\ reported' \in [Tasks -> BOOLEAN]
    BY <1>1, <2>1, <2>3, <2>8, Zenon DEF TypeOK
  <2>10. /\ In("COMPLETED")' = In("COMPLETED") \ {i}
         /\ In("FREE")' = In("FREE") /\ In("QUEUED")' = In("QUEUED")
    BY <2>2, <2>6, SlotMove
  <2>11. left' \in Nat
    BY <1>1, <1>4, <2>1 DEF TypeOK
  <2>12. TypeOK'
    BY <1>1, <1>2, <2>1, <2>2, <2>5, <2>7, <2>9, <2>11, Zenon DEF TypeOK, SlotRecords
  <2>13. Accounts'
    <3>1. Busy' = Busy
      BY <2>2, <2>6 DEF Busy
    <3>2. outstanding' = Cardinality(Busy')
      BY <1>1, <1>2, <3>1
    <3>3. /\ Lists(free, "FREE")' /\ Lists(pending, "QUEUED")'
          /\ Lists(complete, "COMPLETED")'
      BY <1>1, <1>2, <2>2, <2>10, ListsMeansNext
    <3> QED BY <3>2, <3>3, Zenon DEF Accounts, Busy
  <2>14. Crew'
    <3>1. \A j \in Slots : slot'[j].state = "RUNNING" <=> slot[j].state = "RUNNING"
      BY <2>2, <2>6
    <3> QED BY <1>1, <1>2, <3>1, CrewFrame, Zenon
  <2>15. \A j \in Slots : j # i => slot[j].task # t
    BY <1>1, <2>2, OneSlotPerTask DEF t
  <2>16. ASSUME NEW j \in Slots PROVE SlotStage(j)'
    <3>1. SlotStage(j)
      BY <1>1 DEF Stages
    <3>2. CASE j = i
      BY <1>2, <2>2, <2>3, <2>6, <2>7, <3>1, <3>2 DEF SlotStage, t
    <3>3. CASE j # i
      <4>1. slot'[j] = slot[j]
        BY <2>6, <3>3
      <4>2. slot[j].state # "FREE" =>
              delivered'[slot[j].task] = delivered[slot[j].task]
        BY <2>7, <2>15, <3>1, <3>3 DEF SlotStage
      <4> QED BY <1>2, <3>1, <4>1, <4>2, Zenon DEF SlotStage
    <3> QED BY <3>2, <3>3
  <2>17. slot[i].cancelled <=> t \in cancel_ok
    BY <1>1, <2>2 DEF Stages, SlotStage, t
  <2>18. handle[t] # NoHandle
    BY <1>1, <2>2, BusyHandle DEF t
  <2>19. ASSUME NEW u \in Tasks PROVE TaskStage(u)'
    <3>1. TaskStage(u)
      BY <1>1 DEF Stages
    <3>2. \A j \in Slots : /\ slot'[j].task = slot[j].task
                           /\ slot'[j].generation = slot[j].generation
                           /\ slot'[j].state = "FREE" <=> slot[j].state = "FREE"
      BY <2>2, <2>6 DEF t
    <3>3. handle[u] # NoHandle => handle[u].slot \in Slots
      BY <3>1 DEF TaskStage
    <3>4. u = t => \E j \in Slots : slot[j].task = u
      BY <2>2 DEF t
    <3>5. CASE u = t
      BY <1>2, <2>7, <2>9, <2>17, <2>18, <3>1, <3>2, <3>3, <3>4, <3>5 DEF TaskStage
    <3>6. CASE u # t
      BY <1>2, <2>7, <2>9, <3>1, <3>2, <3>3, <3>6 DEF TaskStage
    <3> QED BY <3>5, <3>6
  <2>20. Stages'
    BY <1>1, <1>2, <2>16, <2>19 DEF Stages
  <2> QED BY <2>12, <2>13, <2>14, <2>20 DEF TaskInv
<1> QED BY <1>3, <1>4

\* done() has returned: the slot is free for another task.
LEMMA ReturnStep ==
  ASSUME TaskInv, DispatchReturn
  PROVE  TaskInv'
<1>1. /\ TypeOK /\ Accounts /\ Crew /\ Stages /\ free \in Seq(Slots)
      /\ NoRepeat(free) /\ Elems(free) = In("FREE")
      /\ NoRepeat(pending) /\ Elems(pending) = In("QUEUED")
      /\ NoRepeat(complete) /\ Elems(complete) = In("COMPLETED")
      /\ outstanding = Cardinality(Busy)
  BY ListsMeans, Zenon DEF TaskInv, Accounts, Busy, TypeOK
<1>2. PICK i \in Slots :
        /\ slot[i].state = "DELIVERING"
        /\ slot' = [slot EXCEPT ![i].state = "FREE", ![i].task = NoTask]
        /\ free' = <<i>> \o free
  BY Zenon DEF DispatchReturn
<1>3. /\ outstanding' = outstanding - 1 /\ owner' = "dispatch"
      /\ UNCHANGED <<state, pending, complete, workers_alive, worker, sleeping,
                     left, historyVars>>
  BY DEF DispatchReturn
<1> DEFINE t == slot[i].task
<1>4. \A j \in Slots : slot[j] \in SlotRecords /\ DOMAIN slot = Slots
  BY <1>1, SlotTypes, Zenon
<1>5. slot' \in [Slots -> SlotRecords]
  <2>1. "FREE" \in SlotStates /\ NoTask \in Tasks \cup {NoTask}
    BY Zenon DEF SlotStates
  <2>2. [slot[i] EXCEPT !.state = "FREE", !.task = NoTask] \in SlotRecords
    BY <1>4, <2>1, Zenon DEF SlotRecords
  <2>3. slot' = [slot EXCEPT ![i] = [slot[i] EXCEPT !.state = "FREE", !.task = NoTask]]
    BY <1>2, <1>4
  <2> QED BY <1>4, <2>2, <2>3
<1>6. /\ slot'[i].state = "FREE" /\ slot'[i].task = NoTask
      /\ slot'[i].generation = slot[i].generation
      /\ \A j \in Slots : j # i => slot'[j] = slot[j]
  BY <1>2, <1>4 DEF SlotRecords
<1>7. /\ t \in Tasks /\ ran[t] = 1 /\ delivered[t] = 1 /\ t # NoTask
      /\ handle[t] = [slot |-> i, generation |-> slot[i].generation]
  BY <1>1, <1>2 DEF Stages, SlotStage
<1>8. handle[t] # NoHandle
  BY <1>7 DEF NoHandle, Slots
<1> HIDE DEF t
<1>9. /\ In("FREE")' = In("FREE") \cup {i} /\ i \notin In("FREE")
      /\ In("QUEUED")' = In("QUEUED") /\ In("COMPLETED")' = In("COMPLETED")
  <2>1. /\ slot[i].state = "DELIVERING" /\ slot'[i].state = "FREE"
        /\ \A j \in Slots : j # i => slot'[j].state = slot[j].state
    BY <1>2, <1>6
  <2>2. /\ In("FREE")' = In("FREE") \cup {i} /\ i \notin In("FREE")
        /\ \A s : s # "DELIVERING" /\ s # "FREE" => In(s)' = In(s)
    BY <2>1, SlotMove
  <2> QED BY <2>2
<1>10. /\ free' \in Seq(Slots) /\ NoRepeat(free') /\ Elems(free') = In("FREE")'
  <2>1. free \in Seq(Slots) /\ NoRepeat(free) /\ i \in Slots /\ i \notin Elems(free)
    BY <1>1, <1>9
  <2>2. /\ <<i>> \o free \in Seq(Slots) /\ NoRepeat(<<i>> \o free)
        /\ Elems(<<i>> \o free) = Elems(free) \cup {i}
    BY <2>1, ConsList
  <2> QED BY <1>1, <1>2, <1>9, <2>2, Zenon
<1>11. outstanding' = Cardinality(Busy') /\ outstanding' \in Nat /\ outstanding # 0
  <2>1. Busy' = Busy \ {i} /\ i \in Busy
    BY <1>2, <1>6 DEF Busy
  <2>2. /\ Cardinality(Busy \ {i}) = Cardinality(Busy) - 1
        /\ Cardinality(Busy \ {i}) \in Nat
    BY <2>1, SlotsFinite, FS_RemoveElement, FS_CardinalityType
  <2> QED BY <1>1, <1>3, <2>1, <2>2
<1>12. TypeOK'
  BY <1>1, <1>3, <1>5, <1>10, <1>11, Zenon DEF TypeOK, SlotRecords
<1>13. Accounts'
  <2>1. /\ Lists(free, "FREE")' /\ Lists(pending, "QUEUED")'
        /\ Lists(complete, "COMPLETED")'
    BY <1>1, <1>3, <1>9, <1>10, ListsMeansNext
  <2> QED BY <1>11, <2>1, Zenon DEF Accounts, Busy
<1>14. Crew'
  <2>1. \A j \in Slots : slot'[j].state = "RUNNING" <=> slot[j].state = "RUNNING"
    BY <1>2, <1>6
  <2> QED BY <1>1, <1>3, <2>1, CrewFrame, Zenon
<1>15. ASSUME NEW j \in Slots PROVE SlotStage(j)'
  <2>1. SlotStage(j)
    BY <1>1 DEF Stages
  <2>2. CASE j = i
    BY <1>6, <2>2 DEF SlotStage
  <2>3. CASE j # i
    <3>1. slot'[j] = slot[j]
      BY <1>6, <2>3
    <3> QED BY <1>3, <2>1, <3>1, SlotStageFrame, Zenon
  <2> QED BY <2>2, <2>3
<1>16. ASSUME NEW u \in Tasks PROVE TaskStage(u)'
  <2>1. TaskStage(u) /\ (handle[u] # NoHandle => handle[u].slot \in Slots)
    BY <1>1 DEF Stages, TaskStage
  <2>2. CASE u = t
    <3>1. /\ handle'[t] = handle[t] /\ ran'[t] = ran[t] /\ delivered'[t] = delivered[t]
          /\ reported'[t] = reported[t] /\ (t \in cancel_ok' <=> t \in cancel_ok)
      BY <1>3, Zenon
    <3>2. /\ i \in Slots /\ handle[t].slot = i
          /\ handle[t].generation = slot[i].generation
      BY <1>2, <1>7
    <3>3. /\ slot'[i].state = "FREE" /\ slot'[i].generation = slot[i].generation
          /\ handle[t].generation <= slot[i].generation
      BY <1>6, <2>1, <2>2, <3>2, <1>8, Zenon DEF TaskStage
    <3>4. delivered[t] # 0 => (reported[t] <=> t \in cancel_ok)
      BY <2>1, <2>2, Zenon DEF TaskStage
    <3> QED BY <1>7, <1>8, <2>2, <3>1, <3>2, <3>3, <3>4 DEF TaskStage
  <2>3. CASE u # t
    <3>1. (\A j \in Slots : slot'[j].task # u) => \A j \in Slots : slot[j].task # u
      BY <1>6, <2>3 DEF t
    <3> QED BY <1>3, <1>6, <2>1, <3>1 DEF TaskStage
  <2> QED BY <2>2, <2>3
<1>17. Stages'
  BY <1>1, <1>3, <1>11, <1>15, <1>16 DEF Stages
<1> QED BY <1>12, <1>13, <1>14, <1>17 DEF TaskInv

\* The invariant is inductive.
LEMMA TaskNext ==
  ASSUME TaskInv, [Next \/ Terminated]_vars
  PROVE  TaskInv'
<1>1. CASE UNCHANGED vars
  <2>1. TypeOK /\ Accounts /\ Crew /\ Stages
    BY DEF TaskInv
  <2>2. TypeOK'
    BY <1>1, <2>1 DEF TypeOK, vars
  <2>3. Accounts'
    BY <1>1, <2>1, AccountsFrame, Zenon DEF vars
  <2>4. Crew'
    BY <1>1, <2>1, CrewFrame, Zenon DEF vars
  <2>5. Stages'
    BY <1>1, <2>1, StagesFrame, Zenon DEF Stages, vars
  <2> QED BY <2>2, <2>3, <2>4, <2>5 DEF TaskInv
<1>2. CASE AnyThread
  BY <1>2, SubmitStep, CancelStep, StopStep, Zenon DEF AnyThread
<1>3. CASE \E w \in Workers : WorkerNext(w) \/ SpuriousWakeup(w)
  BY <1>3, TakeStep, CommitStep, CrewStep, Zenon DEF WorkerNext
<1>4. CASE OwnerNext
  BY <1>4, CrewStep, DeliverStep, ReturnStep, Zenon DEF OwnerNext, DispatchNext
<1> QED BY <1>1, <1>2, <1>3, <1>4, Zenon DEF Next, Terminated

-----------------------------------------------------------------------------
(* DeliveredExactly.                                                       *)

\* What the histories say follows from the stages of the slots.
LEMMA TaskMeans ==
  ASSUME TaskInv
  PROVE  DeliveredExactly
<1>1. TypeOK /\ Accounts /\ Crew /\ Stages
  BY DEF TaskInv
<1>2. ASSUME NEW i \in Slots, slot[i].state = "RUNNING"
      PROVE  \E w \in Workers : /\ worker[w] = [pc |-> "work", slot |-> i]
                                /\ \A v \in Workers \ {w} : worker[v].slot # i
  <2>1. PICK w \in Workers : worker[w].pc = "work" /\ worker[w].slot = i
    BY <1>1, <1>2, Zenon DEF Crew
  <2>2. worker[w] = [pc |-> "work", slot |-> i]
    <3>1. worker[w] \in [pc : {"none", "loop", "work", "exited"}, slot : Slots \cup {0}]
      BY <1>1 DEF TypeOK
    <3> QED BY <2>1, <3>1
  <2>3. i # 0
    BY DEF Slots
  <2>4. \A v \in Workers \ {w} : worker[v].slot # i
    BY <1>1, <2>1, <2>3, Zenon DEF Crew
  <2> QED BY <2>2, <2>4, Zenon
<1>3. SlotAccounting
  BY <1>1, <1>2, Zenon DEF SlotAccounting, Accounts
<1>4. ASSUME NEW t \in Tasks
      PROVE  /\ delivered[t] <= ran[t] /\ ran[t] <= 1
             /\ delivered[t] # 0 => (reported[t] <=> t \in cancel_ok)
  <2>1. TaskStage(t)
    BY <1>1 DEF Stages
  <2>2. delivered[t] # 0 => (reported[t] <=> t \in cancel_ok)
    BY <2>1, Zenon DEF TaskStage
  <2>3. CASE \E i \in Slots : slot[i].task = t
    <3>1. PICK i \in Slots : slot[i].task = t
      BY <2>3
    <3>2. SlotStage(i) /\ slot[i].task # NoTask
      BY <1>1, <3>1 DEF Stages
    <3> QED BY <2>2, <3>1, <3>2 DEF SlotStage
  <2>4. CASE \A i \in Slots : slot[i].task # t
    BY <2>1, <2>2, <2>4 DEF TaskStage
  <2> QED BY <2>3, <2>4
<1>5. ASSUME state = "DESTROYED", NEW t \in Tasks, handle[t] # NoHandle
      PROVE  delivered[t] = 1
  <2>1. Cardinality(Busy) = 0
    BY <1>1, <1>5 DEF Stages, Accounts, Busy
  <2>2. Busy = {}
    BY <2>1, SlotsFinite, FS_EmptySet
  <2>3. \A i \in Slots : slot[i].task # t
    BY <1>1, <2>2 DEF Busy, Stages, SlotStage
  <2> QED BY <1>1, <1>5, <2>3 DEF Stages, TaskStage
<1>6. state = "DESTROYED" => \A w \in Workers : worker[w].pc \in {"none", "exited"}
  BY <1>1 DEF Crew
<1> QED BY <1>3, <1>4, <1>5, <1>6, Zenon DEF DeliveredExactly

\* The invariant holds in every reachable state of the executor.
THEOREM ExecutorInvariant == Spec => []TaskInv
<1>1. Init => TaskInv
  BY TaskInit
<1>2. TaskInv /\ [Next \/ Terminated]_vars => TaskInv'
  BY TaskNext
<1> QED BY <1>1, <1>2, PTL DEF Spec

\* submit, cancel, stop, the workers and the owner's dispatch, in every
\* interleaving: an accepted task is worked on and delivered at most once, with
\* the cancellation that came in time, and exactly once when destroy succeeds.
THEOREM TasksDelivered == Spec => []DeliveredExactly
<1>1. TaskInv => DeliveredExactly
  BY TaskMeans
<1> QED BY <1>1, ExecutorInvariant, PTL

\* Whatever the message service does, it does to its executor what any caller
\* may do.
LEMMA ServiceStep ==
  ASSUME [ServiceNext \/ ServiceTerminated]_allVars
  PROVE  [Next \/ Terminated]_vars
<1>1. ASSUME Application PROVE [Next]_vars
  <2>1. \A t \in JobTasks : t \in Tasks
    BY ServiceAssumption
  <2>2. CASE tr_message_service_start_on_owner
    BY <2>2, Zenon DEF tr_message_service_start_on_owner, Next, OwnerNext, AnyThread
  <2>3. CASE \E t \in JobTasks : tr_message_service_submit_on_owner(t)
    BY <2>1, <2>3, Zenon DEF tr_message_service_submit_on_owner, Next, AnyThread
  <2>4. CASE \E t \in JobTasks : tr_message_service_cancel(t)
    BY <2>1, <2>4, Zenon DEF tr_message_service_cancel, Next, AnyThread
  <2>5. CASE \E mode \in {"DRAIN", "CANCEL"} : tr_message_service_stop_on_owner(mode)
    BY <2>5, Zenon DEF tr_message_service_stop_on_owner, Next, AnyThread
  <2>6. CASE tr_message_service_close_on_owner
    BY <2>6, Zenon DEF tr_message_service_close_on_owner, CloseFrom, Next, AnyThread
  <2>7. CASE tr_message_service_reap_stopped
    BY <2>7, Zenon DEF tr_message_service_reap_stopped, Next, AnyThread
  <2>8. CASE ReactorStop
    BY <2>8 DEF ReactorStop
  <2> QED BY <1>1, <2>2, <2>3, <2>4, <2>5, <2>6, <2>7, <2>8, Zenon DEF Application
<1>2. ASSUME NEW w \in Workers, ServiceWorker(w) PROVE Next
  BY <1>2, Zenon DEF ServiceWorker, WorkerNext, Next
<1>3. ASSUME PumpNext PROVE [Next]_vars
  <2>1. CASE PumpCheck
    BY <2>1, Zenon DEF PumpCheck, Next, AnyThread
  <2>2. CASE PumpDispatch
    BY <2>2, ServiceAssumption, Zenon DEF PumpDispatch, Next, OwnerNext, DispatchNext
  <2>3. CASE tr_service_done \/ DoneReturn
    BY <2>3, Zenon DEF tr_service_done, DoneReturn, Next, OwnerNext, DispatchNext
  <2>4. CASE ReapClose
    BY <2>4, Zenon DEF ReapClose, CloseFrom, Next, AnyThread
  <2>5. CASE PumpStats \/ ClosePump \/ CloseDetach
    BY <2>5, Zenon DEF PumpStats, ClosePump, CloseDetach
  <2>6. CASE CloseJoin \/ CloseJoined \/ CloseDestroy
    BY <2>6, Zenon DEF CloseJoin, CloseJoined, CloseDestroy, Next, OwnerNext
  <2> QED BY <1>3, <2>1, <2>2, <2>3, <2>4, <2>5, <2>6, Zenon DEF PumpNext
<1>4. ASSUME ServiceNext PROVE [Next]_vars
  <2>1. CASE plan = "alone" /\ (AnyThread \/ OwnerNext)
    BY <2>1, Zenon DEF Next
  <2>2. CASE \E w \in Workers : AloneWorker(w) \/ SpuriousWakeup(w)
    BY <2>2, Zenon DEF AloneWorker, Next
  <2>3. CASE tr_service_event \/ tr_service_watchdog
    BY <2>3, Zenon DEF tr_service_event, tr_service_watchdog
  <2> QED BY <1>1, <1>2, <1>3, <1>4, <2>1, <2>2, <2>3, Zenon DEF ServiceNext
<1> QED BY <1>4, Zenon DEF ServiceTerminated, allVars

\* A message service is a use of its executor.
LEMMA ServiceUses == ServiceSpec => Spec
<1>1. ServiceInit => Init
  BY DEF ServiceInit
<1>2. [ServiceNext \/ ServiceTerminated]_allVars => [Next \/ Terminated]_vars
  BY ServiceStep
<1> QED BY <1>1, <1>2, PTL DEF ServiceSpec, Spec

\* The executor of a message service keeps its promise too: pumps, watchdog,
\* close and reap_stopped add no way to lose or to repeat a delivery.
THEOREM ServiceDelivers == ServiceSpec => []DeliveredExactly
BY ServiceUses, TasksDelivered, PTL

-----------------------------------------------------------------------------
(* The contract of the header.                                             *)

StatusIn(s) ==
  CASE s = "COMPLETED" -> "worked" [] s = "DELIVERING" -> "delivered" [] OTHER -> "accepted"

(* What the refinement mapping says of a task: the state of its slot while *)
(* it has one, and the history of cancellations.                           *)
View ==
  /\ \A i \in Slots : slot[i].state # "FREE" =>
       StatusOf(slot[i].task) = StatusIn(slot[i].state)
  /\ \A t \in Tasks : (\A i \in Slots : slot[i].task # t) =>
       StatusOf(t) = IF handle[t] = NoHandle THEN "none" ELSE "delivered"
  /\ \A t \in Tasks : CancelledOf(t) = (t \in cancel_ok)

\* The mapping follows from the stages of the slots.
LEMMA TaskView == TaskInv => View
<1> SUFFICES ASSUME TaskInv
             PROVE  View
  OBVIOUS
<1>1. TypeOK /\ Stages
  BY DEF TaskInv
<1>2. ASSUME NEW i \in Slots, slot[i].state # "FREE"
      PROVE  /\ \A s : SlotOf(slot[i].task, {s}) = IF s = slot[i].state THEN {i} ELSE {}
             /\ StatusOf(slot[i].task) = StatusIn(slot[i].state)
  <2> DEFINE t == slot[i].task
  <2>1. /\ t \in Tasks /\ handle[t] # NoHandle
        /\ delivered[t] = IF slot[i].state = "DELIVERING" THEN 1 ELSE 0
    <3>1. SlotStage(i)
      BY <1>1 DEF Stages
    <3>2. t \in Tasks /\ handle[t] # NoHandle
      BY <1>1, <1>2, BusyHandle
    <3> QED BY <1>2, <3>1, <3>2 DEF SlotStage
  <2>2. \A j \in Slots : slot[j].task = t => j = i
    BY <1>1, <1>2, OneSlotPerTask
  <2>3. \A s : SlotOf(t, {s}) = IF s = slot[i].state THEN {i} ELSE {}
    BY <2>2 DEF SlotOf
  <2> HIDE DEF t
  <2>4. StatusOf(t) = StatusIn(slot[i].state)
    BY <2>1, <2>3 DEF StatusOf, StatusIn
  <2> QED BY <2>3, <2>4, Zenon DEF t
<1>3. ASSUME NEW t \in Tasks, \A i \in Slots : slot[i].task # t
      PROVE  /\ \A S : SlotOf(t, S) = {}
             /\ StatusOf(t) = IF handle[t] = NoHandle THEN "none" ELSE "delivered"
  <2>1. \A S : SlotOf(t, S) = {}
    BY <1>3 DEF SlotOf
  <2>2. delivered[t] = IF handle[t] = NoHandle THEN 0 ELSE 1
    BY <1>1, <1>3 DEF Stages, TaskStage
  <2> QED BY <2>1, <2>2 DEF StatusOf
<1>4. ASSUME NEW t \in Tasks
      PROVE  CancelledOf(t) <=> t \in cancel_ok
  <2>1. TaskStage(t)
    BY <1>1 DEF Stages
  <2>2. CASE \A i \in Slots : slot[i].task # t
    <3>1. SlotOf(t, {"QUEUED", "RUNNING"}) = {} /\ SlotOf(t, {"COMPLETED"}) = {}
      BY <1>3, <2>2
    <3>2. delivered[t] # 0 \/ handle[t] = NoHandle
      BY <2>1, <2>2 DEF TaskStage
    <3>3. (delivered[t] # 0 /\ reported[t]) <=> t \in cancel_ok
      <4>1. delivered[t] = 0 => handle[t] = NoHandle
        BY <3>2
      <4> QED BY <2>1, <4>1, Zenon DEF TaskStage
    <3> QED BY <3>1, <3>3, Zenon DEF CancelledOf
  <2>3. CASE \E i \in Slots : slot[i].task = t
    <3>1. PICK i \in Slots : slot[i].task = t
      BY <2>3
    <3>2. SlotStage(i) /\ slot[i].state # "FREE"
      BY <1>1, <3>1 DEF Stages, SlotStage
    <3>3. \A j \in Slots : slot[j].task = t => j = i
      BY <1>1, <3>1, <3>2, OneSlotPerTask
    <3>4. \A S : SlotOf(t, S) = IF slot[i].state \in S THEN {i} ELSE {}
      BY <3>1, <3>3 DEF SlotOf
    <3>5. delivered[t] = IF slot[i].state = "DELIVERING" THEN 1 ELSE 0
      BY <3>1, <3>2 DEF SlotStage
    <3>6. slot[i].state \in {"QUEUED", "RUNNING", "COMPLETED", "DELIVERING"}
      BY <1>1, <3>2 DEF TypeOK, SlotStates
    <3>7. CASE slot[i].state = "DELIVERING"
      <4>1. /\ SlotOf(t, {"QUEUED", "RUNNING"}) = {} /\ SlotOf(t, {"COMPLETED"}) = {}
            /\ delivered[t] # 0
        BY <3>4, <3>5, <3>7
      <4> QED BY <2>1, <4>1, Zenon DEF CancelledOf, TaskStage
    <3>8. CASE slot[i].state \in {"QUEUED", "RUNNING"}
      <4>1. /\ \A j : j \in SlotOf(t, {"QUEUED", "RUNNING"}) <=> j = i
            /\ SlotOf(t, {"COMPLETED"}) = {} /\ delivered[t] = 0
        BY <3>4, <3>5, <3>8
      <4>2. slot[i].cancel <=> t \in cancel_ok
        BY <3>1, <3>2, <3>8, Zenon DEF SlotStage
      <4> QED BY <4>1, <4>2, Zenon DEF CancelledOf
    <3>9. CASE slot[i].state = "COMPLETED"
      <4>1. /\ \A j : j \in SlotOf(t, {"COMPLETED"}) <=> j = i
            /\ SlotOf(t, {"QUEUED", "RUNNING"}) = {} /\ delivered[t] = 0
        BY <3>4, <3>5, <3>9
      <4>2. slot[i].cancelled <=> t \in cancel_ok
        BY <3>1, <3>2, <3>9, Zenon DEF SlotStage
      <4> QED BY <4>1, <4>2, Zenon DEF CancelledOf
    <3> QED BY <3>6, <3>7, <3>8, <3>9
  <2> QED BY <2>2, <2>3
<1>5. \A t \in Tasks : CancelledOf(t) = (t \in cancel_ok)
  <2> SUFFICES ASSUME NEW t \in Tasks
               PROVE  CancelledOf(t) = (t \in cancel_ok)
    OBVIOUS
  <2>1. CancelledOf(t) \in BOOLEAN
    BY Zenon DEF CancelledOf
  <2>2. CancelledOf(t) <=> t \in cancel_ok
    BY <1>4
  <2> QED BY <2>1, <2>2
<1> QED BY <1>2, <1>3, <1>5, Zenon DEF View

\* The same of the next state.
LEMMA TaskViewNext == TaskInv' => View'
BY TaskView, PTL

StatusMap == [t \in Tasks |-> StatusOf(t)]
CancelledMap == [t \in Tasks |-> CancelledOf(t)]

\* Who is cancelled, as the mapping sees it.
LEMMA CancelledSame ==
  ASSUME View, View'
  PROVE  /\ CancelledMap = [t \in Tasks |-> t \in cancel_ok]
         /\ CancelledMap' = [t \in Tasks |-> t \in cancel_ok']
<1>1. \A t \in Tasks : CancelledOf(t) = (t \in cancel_ok)
  BY Zenon DEF View
<1>2. \A t \in Tasks : CancelledOf(t)' = (t \in cancel_ok')
  BY Zenon DEF View
<1> QED BY <1>1, <1>2, Zenon DEF CancelledMap

\* A task whose handle, delivery and result stay as they are keeps its status.
LEMMA StatusFrame ==
  ASSUME NEW t \in Tasks, handle'[t] = handle[t], delivered'[t] = delivered[t],
         \A i \in Slots : slot'[i].task = t /\ slot'[i].state = "COMPLETED"
                      <=> slot[i].task = t /\ slot[i].state = "COMPLETED"
  PROVE  StatusOf(t)' = StatusOf(t)
<1>1. SlotOf(t, {"COMPLETED"})' = SlotOf(t, {"COMPLETED"})
  BY DEF SlotOf
<1> QED BY <1>1 DEF StatusOf

\* One task moves on, the others stay, and nobody is cancelled: a step of the
\* contract.
LEMMA MoveSimulates ==
  ASSUME View, View', UNCHANGED cancel_ok, NEW t \in Tasks, NEW to,
         StatusOf(t)' = to,
         \A u \in Tasks : u # t => StatusOf(u)' = StatusOf(u)
  PROVE  /\ StatusMap' = [StatusMap EXCEPT ![t] = to]
         /\ CancelledMap' = CancelledMap /\ StatusMap[t] = StatusOf(t)
<1>1. CancelledMap' = CancelledMap
  BY CancelledSame, Zenon
<1>2. StatusMap' = [u \in Tasks |-> IF u = t THEN to ELSE StatusOf(u)]
  BY DEF StatusMap
<1>3. StatusMap = [u \in Tasks |-> StatusOf(u)]
  BY DEF StatusMap
<1> QED BY <1>1, <1>2, <1>3

\* Nobody moves on: the contract sees no step.
LEMMA StutterSimulates ==
  ASSUME View, View', UNCHANGED cancel_ok,
         \A u \in Tasks : StatusOf(u)' = StatusOf(u)
  PROVE  UNCHANGED <<StatusMap, CancelledMap>>
<1>1. CancelledMap' = CancelledMap
  BY CancelledSame, Zenon
<1> QED BY <1>1 DEF StatusMap

\* A set of tasks without a result is cancelled: one step of the contract.
LEMMA CancelSimulates ==
  ASSUME View, View', NEW T \in SUBSET Tasks, cancel_ok' = cancel_ok \cup T,
         \A u \in T : StatusOf(u) = "accepted",
         \A u \in Tasks : StatusOf(u)' = StatusOf(u)
  PROVE  Contract!Cancel(T)
<1>1. /\ CancelledMap = [t \in Tasks |-> t \in cancel_ok]
      /\ CancelledMap' = [t \in Tasks |-> t \in cancel_ok']
  BY CancelledSame
<1>2. CancelledMap' = [t \in Tasks |-> t \in T \/ CancelledMap[t]]
  <2>1. \A t \in Tasks : CancelledMap[t] <=> t \in cancel_ok
    BY <1>1, Zenon
  <2>2. \A t \in Tasks : (t \in cancel_ok') = (t \in T \/ CancelledMap[t])
    BY <2>1
  <2> QED BY <1>1, <2>2, Zenon
<1>3. StatusMap' = StatusMap /\ \A t \in T : StatusMap[t] = "accepted"
  BY DEF StatusMap
<1> QED BY <1>2, <1>3 DEF Contract!Cancel, StatusMap, CancelledMap

\* Every step of the executor is a step of the contract, or none at all.
LEMMA ContractStep ==
  ASSUME TaskInv, TaskInv', [Next \/ Terminated]_vars
  PROVE  [Contract!Next]_(Contract!contractVars)
<1>1. TypeOK /\ Accounts /\ Crew /\ Stages /\ View /\ View'
  BY TaskView, TaskViewNext, Zenon DEF TaskInv
<1>2. /\ DOMAIN slot = Slots /\ \A i \in Slots : slot[i] \in SlotRecords
      /\ DOMAIN handle = Tasks /\ DOMAIN delivered = Tasks
  BY <1>1, SlotTypes DEF TypeOK
<1> DEFINE Stutter == UNCHANGED <<StatusMap, CancelledMap>>
           Moves(t, from, to) == /\ StatusMap[t] = from
                                 /\ StatusMap' = [StatusMap EXCEPT ![t] = to]
                                 /\ CancelledMap' = CancelledMap
<1>3. ASSUME NEW t \in Tasks, tr_task_executor_submit(t)
      PROVE  Moves(t, "none", "accepted")
  <2> DEFINE i == Head(free)
  <2>1. /\ handle[t] = NoHandle /\ i \in Slots /\ slot[i].state = "FREE"
        /\ slot[i].task = NoTask
    <3>1. Lists(free, "FREE") /\ free # <<>> /\ handle[t] = NoHandle /\ free \in Seq(Slots)
      BY <1>1, <1>3, Zenon DEF tr_task_executor_submit, Accounts, TypeOK
    <3>2. NoRepeat(free) /\ Elems(free) = In("FREE")
      BY <3>1, ListsMeans, Zenon
    <3>3. i \in In("FREE")
      BY <3>1, <3>2, TailList
    <3>4. i \in Slots /\ slot[i].state = "FREE"
      BY <3>3 DEF In
    <3> QED BY <1>1, <3>1, <3>4, Zenon DEF Stages, SlotStage
  <2>2. /\ slot'[i].state = "QUEUED" /\ slot'[i].task = t
        /\ \A j \in Slots : j # i => slot'[j] = slot[j]
        /\ \A u \in Tasks : u # t => handle'[u] = handle[u]
        /\ UNCHANGED <<delivered, cancel_ok>>
    BY <1>2, <1>3, <2>1 DEF tr_task_executor_submit
  <2> HIDE DEF i
  <2>3. \A j \in Slots : slot[j].task # t
    <3> SUFFICES ASSUME NEW j \in Slots, slot[j].task = t
                 PROVE  FALSE
      OBVIOUS
    <3>1. SlotStage(j) /\ slot[j].task # NoTask
      BY <1>1 DEF Stages
    <3>2. slot[j].state # "FREE"
      BY <3>1, Zenon DEF SlotStage
    <3> QED BY <1>1, <2>1, <3>2, BusyHandle
  <2>4. StatusOf(t) = "none"
    BY <1>1, <2>1, <2>3 DEF View
  <2>5. StatusOf(t)' = "accepted"
    BY <1>1, <2>1, <2>2 DEF View, StatusIn
  <2>6. \A u \in Tasks : u # t => StatusOf(u)' = StatusOf(u)
    BY <2>1, <2>2, StatusFrame
  <2> QED BY <1>1, <2>2, <2>4, <2>5, <2>6, MoveSimulates
<1>4. ASSUME NEW t \in Tasks, tr_task_executor_cancel(t)
      PROVE  Contract!Cancel({t})
  <2> DEFINE i == handle[t].slot
  <2>1. /\ handle[t] # NoHandle /\ i \in Slots
        /\ slot[i].generation = handle[t].generation
        /\ slot[i].state \in {"QUEUED", "RUNNING"}
        /\ cancel_ok' = cancel_ok \cup {t} /\ UNCHANGED <<handle, delivered>>
        /\ slot' = [slot EXCEPT ![i].cancel = TRUE]
    BY <1>4 DEF tr_task_executor_cancel, Active
  <2>2. slot[i].task = t
    BY <1>1, <2>1 DEF Stages, TaskStage
  <2> HIDE DEF i
  <2>3. \A j \in Slots : slot'[j].state = slot[j].state /\ slot'[j].task = slot[j].task
    BY <1>2, <2>1 DEF SlotRecords
  <2>4. \A u \in Tasks : StatusOf(u)' = StatusOf(u)
    BY <2>1, <2>3, StatusFrame
  <2>5. StatusOf(t) = "accepted"
    BY <1>1, <2>1, <2>2 DEF View, StatusIn
  <2> QED BY <1>1, <2>1, <2>4, <2>5, CancelSimulates
<1>5. ASSUME NEW mode, tr_task_executor_stop(mode)
      PROVE  Stutter \/ \E T \in SUBSET Tasks : Contract!Cancel(T)
  <2> DEFINE T == {slot[i].task : i \in Active}
  <2>1. UNCHANGED <<handle, delivered>>
    BY <1>5 DEF tr_task_executor_stop
  <2>2. CASE mode # "CANCEL"
    <3>1. UNCHANGED <<slot, cancel_ok>>
      BY <1>5, <2>2 DEF tr_task_executor_stop
    <3>2. \A u \in Tasks : StatusOf(u)' = StatusOf(u)
      BY <2>1, <3>1, StatusFrame
    <3> QED BY <1>1, <3>1, <3>2, StutterSimulates
  <2>3. CASE mode = "CANCEL"
    <3>1. /\ slot' = [i \in Slots |-> IF i \in Active
                                        THEN [slot[i] EXCEPT !.cancel = TRUE]
                                        ELSE slot[i]]
          /\ cancel_ok' = cancel_ok \cup T
      BY <1>5, <2>3 DEF tr_task_executor_stop
    <3>2. \A j \in Slots : slot'[j].state = slot[j].state /\ slot'[j].task = slot[j].task
      BY <1>2, <3>1 DEF SlotRecords
    <3>3. \A u \in Tasks : StatusOf(u)' = StatusOf(u)
      BY <2>1, <3>2, StatusFrame
    <3>4. \A i \in Active : slot[i].task \in Tasks /\ StatusOf(slot[i].task) = "accepted"
      BY <1>1, BusyHandle DEF Active, View, StatusIn
    <3>5. T \in SUBSET Tasks /\ \A u \in T : StatusOf(u) = "accepted"
      BY <3>4
    <3> HIDE DEF T
    <3>6. Contract!Cancel(T)
      BY <1>1, <3>1, <3>3, <3>5, CancelSimulates
    <3> QED BY <3>5, <3>6
  <2> QED BY <2>2, <2>3
<1>6. ASSUME NEW w \in Workers, WorkerTake(w)
      PROVE  Stutter
  <2>1. /\ pending # <<>> /\ slot' = [slot EXCEPT ![Head(pending)].state = "RUNNING"]
        /\ UNCHANGED <<handle, delivered, cancel_ok>>
    BY <1>6 DEF WorkerTake
  <2>2. Head(pending) \in Slots /\ slot[Head(pending)].state = "QUEUED"
    <3>1. Lists(pending, "QUEUED") /\ pending \in Seq(Slots)
      BY <1>1, Zenon DEF Accounts, TypeOK
    <3>2. NoRepeat(pending) /\ Elems(pending) = In("QUEUED")
      BY <3>1, ListsMeans, Zenon
    <3>3. Head(pending) \in In("QUEUED")
      BY <2>1, <3>1, <3>2, TailList
    <3> QED BY <3>3 DEF In
  <2>3. \A j \in Slots : /\ slot'[j].task = slot[j].task
                         /\ slot'[j].state = "COMPLETED" <=> slot[j].state = "COMPLETED"
    BY <1>2, <2>1, <2>2 DEF SlotRecords
  <2>4. \A u \in Tasks : StatusOf(u)' = StatusOf(u)
    BY <2>1, <2>3, StatusFrame
  <2> QED BY <1>1, <2>1, <2>4, StutterSimulates
<1>7. ASSUME NEW w \in Workers, WorkerCommit(w)
      PROVE  \E t \in Tasks : Moves(t, "accepted", "worked")
  <2> DEFINE i == worker[w].slot
  <2>1. i \in Slots /\ slot[i].state = "RUNNING"
    BY <1>1, <1>7 DEF WorkerCommit, Crew
  <2>2. /\ slot' = [slot EXCEPT ![i].state = "COMPLETED",
                                ![i].cancelled = slot[i].cancel]
        /\ UNCHANGED <<handle, delivered, cancel_ok>>
    BY <1>7 DEF WorkerCommit
  <2>3. PICK k \in Slots : k = i
    BY <2>1
  <2>4. PICK t \in Tasks : t = slot[k].task
    BY <1>1, <2>1, <2>3, BusyHandle
  <2> HIDE DEF i
  <2>5. /\ slot'[k].task = t /\ slot'[k].state = "COMPLETED"
        /\ \A j \in Slots : j # k => slot'[j] = slot[j]
    BY <1>2, <2>1, <2>2, <2>3, <2>4 DEF SlotRecords
  <2>6. StatusOf(t) = "accepted"
    BY <1>1, <2>1, <2>3, <2>4 DEF View, StatusIn
  <2>7. StatusOf(t)' = "worked"
    BY <1>1, <2>5 DEF View, StatusIn
  <2>8. \A u \in Tasks : u # t => StatusOf(u)' = StatusOf(u)
    <3> SUFFICES ASSUME NEW u \in Tasks, u # t
                 PROVE  StatusOf(u)' = StatusOf(u)
      OBVIOUS
    <3>1. \A j \in Slots : slot'[j].task = u /\ slot'[j].state = "COMPLETED"
                         <=> slot[j].task = u /\ slot[j].state = "COMPLETED"
      BY <2>4, <2>5, Zenon
    <3>2. handle'[u] = handle[u] /\ delivered'[u] = delivered[u]
      BY <2>2, Zenon
    <3> QED BY <3>1, <3>2, StatusFrame, Zenon
  <2>9. Moves(t, "accepted", "worked")
    BY <1>1, <2>2, <2>6, <2>7, <2>8, MoveSimulates
  <2> QED BY <2>9, Zenon
<1>8. ASSUME DispatchOne
      PROVE  Stutter \/ \E t \in Tasks : Moves(t, "worked", "delivered")
  <2> DEFINE i == Head(complete)
  <2>1. UNCHANGED <<handle, cancel_ok>>
    BY <1>8 DEF DispatchOne
  <2>2. CASE ~(left # 0 /\ complete # <<>>)
    <3>1. UNCHANGED <<slot, delivered>>
      BY <1>8, <2>2 DEF DispatchOne
    <3>2. \A u \in Tasks : StatusOf(u)' = StatusOf(u)
      BY <2>1, <3>1, StatusFrame
    <3> QED BY <1>1, <2>1, <3>2, StutterSimulates
  <2>3. CASE left # 0 /\ complete # <<>>
    <3>1. /\ slot' = [slot EXCEPT ![i].state = "DELIVERING"]
          /\ delivered' = [delivered EXCEPT ![slot[i].task] = @ + 1]
      BY <1>8, <2>3 DEF DispatchOne
    <3>2. i \in Slots /\ slot[i].state = "COMPLETED"
      <4>1. Lists(complete, "COMPLETED") /\ complete \in Seq(Slots)
        BY <1>1, Zenon DEF Accounts, TypeOK
      <4>2. NoRepeat(complete) /\ Elems(complete) = In("COMPLETED")
        BY <4>1, ListsMeans, Zenon
      <4>3. i \in In("COMPLETED")
        BY <2>3, <4>1, <4>2, TailList
      <4> QED BY <4>3 DEF In
    <3>3. PICK k \in Slots : k = i
      BY <3>2
    <3>4. PICK t \in Tasks : t = slot[k].task
      BY <1>1, <3>2, <3>3, BusyHandle
    <3> HIDE DEF i
    <3>5. /\ slot'[k].task = t /\ slot'[k].state = "DELIVERING"
          /\ \A j \in Slots : j # k => slot'[j] = slot[j]
          /\ \A u \in Tasks : u # t => delivered'[u] = delivered[u]
      BY <1>2, <3>1, <3>2, <3>3, <3>4 DEF SlotRecords
    <3>6. StatusOf(t) = "worked"
      BY <1>1, <3>2, <3>3, <3>4 DEF View, StatusIn
    <3>7. StatusOf(t)' = "delivered"
      BY <1>1, <3>5 DEF View, StatusIn
    <3>8. \A u \in Tasks : u # t => StatusOf(u)' = StatusOf(u)
      BY <2>1, <3>4, <3>5, StatusFrame
    <3>9. Moves(t, "worked", "delivered")
      BY <1>1, <2>1, <3>6, <3>7, <3>8, MoveSimulates
    <3> QED BY <3>9, Zenon
  <2> QED BY <2>2, <2>3
<1>9. ASSUME DispatchReturn
      PROVE  Stutter
  <2>1. PICK i \in Slots :
          /\ slot[i].state = "DELIVERING"
          /\ slot' = [slot EXCEPT ![i].state = "FREE", ![i].task = NoTask]
    BY <1>9, Zenon DEF DispatchReturn
  <2>2. UNCHANGED <<handle, delivered, cancel_ok>>
    BY <1>9 DEF DispatchReturn
  <2>3. /\ slot'[i].state = "FREE"
        /\ \A j \in Slots : j # i => slot'[j] = slot[j]
    BY <1>2, <2>1 DEF SlotRecords
  <2>4. \A u \in Tasks : StatusOf(u)' = StatusOf(u)
    <3> SUFFICES ASSUME NEW u \in Tasks
                 PROVE  StatusOf(u)' = StatusOf(u)
      OBVIOUS
    <3>1. \A j \in Slots : slot'[j].task = u /\ slot'[j].state = "COMPLETED"
                         <=> slot[j].task = u /\ slot[j].state = "COMPLETED"
      <4>1. slot[i].state # "COMPLETED" /\ slot'[i].state # "COMPLETED"
        BY <2>1, <2>3
      <4> QED BY <2>3, <4>1, Zenon
    <3> QED BY <2>2, <3>1, StatusFrame
  <2> QED BY <1>1, <2>2, <2>4, StutterSimulates
<1>10. ASSUME \/ \E w \in Workers : WorkerWait(w) \/ SpuriousWakeup(w) \/ WorkerExit(w)
              \/ tr_task_executor_start
              \/ \E limit \in Limits : tr_task_executor_dispatch(limit)
              \/ tr_task_executor_join \/ JoinReturn \/ tr_task_executor_destroy
              \/ UNCHANGED vars
       PROVE  Stutter
  <2>1. UNCHANGED <<slot, handle, delivered, cancel_ok>>
    BY <1>10, ZenonT(30)
       DEF WorkerWait, SpuriousWakeup, WorkerExit, tr_task_executor_start,
           tr_task_executor_dispatch, tr_task_executor_join, JoinReturn,
           tr_task_executor_destroy, vars
  <2>2. \A u \in Tasks : StatusOf(u)' = StatusOf(u)
    BY <2>1, StatusFrame
  <2> QED BY <1>1, <2>1, <2>2, StutterSimulates
<1>11. ASSUME NEW t \in Tasks
       PROVE  /\ Moves(t, "none", "accepted") <=> Contract!Submit(t)
              /\ Moves(t, "accepted", "worked") <=> Contract!Work(t)
              /\ Moves(t, "worked", "delivered") <=> Contract!Deliver(t)
  BY Zenon DEF Contract!Submit, Contract!Work, Contract!Deliver, Contract!Move,
     StatusMap, CancelledMap
<1>12. Stutter => UNCHANGED Contract!contractVars
  BY Zenon DEF Contract!contractVars, StatusMap, CancelledMap
<1> HIDE DEF Stutter, Moves
<1>13. ASSUME Contract!Next PROVE [Contract!Next]_(Contract!contractVars)
  BY <1>13
<1>14. CASE AnyThread
  <2>1. \A t \in Tasks : {t} \in SUBSET Tasks
    OBVIOUS
  <2> QED BY <1>3, <1>4, <1>5, <1>11, <1>12, <1>13, <1>14, <2>1, Zenon
             DEF AnyThread, Contract!Next
<1>15. CASE \E w \in Workers : WorkerNext(w) \/ SpuriousWakeup(w)
  BY <1>6, <1>7, <1>10, <1>11, <1>12, <1>13, <1>15, Zenon DEF WorkerNext, Contract!Next
<1>16. CASE OwnerNext
  BY <1>8, <1>9, <1>10, <1>11, <1>12, <1>13, <1>16, Zenon
     DEF OwnerNext, DispatchNext, Contract!Next
<1>17. CASE UNCHANGED vars
  BY <1>10, <1>12, <1>17, Zenon
<1> QED BY <1>14, <1>15, <1>16, <1>17, Zenon DEF Next, Terminated

\* submit, work, delivery and cancellation of the executor are those of its
\* header, for every number of slots, workers and tasks.
THEOREM ExecutorContract == Spec => ImplementsContract
<1>1. Init => Contract!Init
  <2> SUFFICES ASSUME Init
               PROVE  Contract!Init
    OBVIOUS
  <2>1. View
    BY TaskInit, TaskView
  <2>2. \A t \in Tasks : /\ \A i \in Slots : slot[i].task # t
                         /\ handle[t] = NoHandle /\ t \notin cancel_ok
    BY DEF Init, FreeSlot
  <2>3. \A t \in Tasks : StatusOf(t) = "none"
    BY <2>1, <2>2, Zenon DEF View
  <2>4. \A t \in Tasks : CancelledOf(t) = FALSE
    <3>1. \A t \in Tasks : (t \in cancel_ok) = FALSE
      BY <2>2
    <3> QED BY <2>1, <3>1, Zenon DEF View
  <2> QED BY <2>3, <2>4, Zenon DEF Contract!Init
<1>2. TaskInv /\ TaskInv' /\ [Next \/ Terminated]_vars
        => [Contract!Next]_(Contract!contractVars)
  BY ContractStep
<1> QED BY <1>1, <1>2, ExecutorInvariant, PTL
           DEF Spec, ImplementsContract, Contract!Spec

\* The executor of a message service keeps the contract as well.
THEOREM ServiceContract == ServiceSpec => ImplementsContract
BY ServiceUses, ExecutorContract, PTL
=============================================================================
