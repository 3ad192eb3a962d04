----------------------------- MODULE TimerQueue -----------------------------
(***************************************************************************)
(* The timer queue of a reactor (src/src/execution/timer_queue.c): slots   *)
(* with generations, a binary heap of the armed slots ordered by deadline  *)
(* and slot, and run_due, which calls back outside the queue.              *)
(*                                                                         *)
(* Everything runs on the owner thread.  The interleaving is re-entrance:  *)
(* while a callback runs it may register, arm and unregister timers, its   *)
(* own included.  Positions count from 1; position 0 is HEAP_NONE.         *)
(***************************************************************************)
EXTENDS Naturals, Sequences

CONSTANTS TimerCapacity,
          MaxTime,         \* deadlines and clock readings are 1 .. MaxTime
          VersionLimit,    \* first value a version cannot hold (2^64)
          GenerationLimit, \* first value a generation cannot hold (2^32)
          MaxNested        \* bound: timer operations of one callback

TimerSlots == 1 .. TimerCapacity
Times == 1 .. MaxTime

ASSUME TimerAssumption ==
  /\ TimerCapacity \in Nat \ {0} /\ MaxTime \in Nat \ {0}
  /\ MaxNested \in Nat /\ VersionLimit \in Nat /\ GenerationLimit \in Nat
  \* one callback takes neither counter once around
  /\ VersionLimit > MaxNested + 1 /\ GenerationLimit > MaxNested + 1

VARIABLES entry,     \* per slot: used, generation, version, deadline, heap_pos
          heap,      \* armed slots in heap order
          free,      \* the free list, a stack
          now,       \* clock reading of the current or last run_due
          call,      \* the callback being run: slot, generation, version
          nested     \* timer operations made by it

vars == <<entry, heap, free, now, call, nested>>

NoCall == [slot |-> 0, generation |-> 0, version |-> 0]

tr_timer_queue_init ==
  /\ entry = [i \in TimerSlots |-> [used |-> FALSE, generation |-> 0,
                version |-> 0, deadline |-> 0, heap_pos |-> 0]]
  /\ heap = <<>> /\ free = [i \in 1 .. TimerCapacity |-> i]
  /\ now = 0 /\ call = NoCall /\ nested = 0

-----------------------------------------------------------------------------
(* The heap: e is the entries, h the heap array                            *)

tr_timer_before(e, i, j) ==
  IF e[i].deadline # e[j].deadline THEN e[i].deadline < e[j].deadline ELSE i < j

Heap(e, h) == [entry |-> e, heap |-> h]

tr_timer_heap_swap(q, a, b) ==
  LET h == [q.heap EXCEPT ![a] = q.heap[b], ![b] = q.heap[a]]
  IN  Heap([q.entry EXCEPT ![h[a]].heap_pos = a, ![h[b]].heap_pos = b], h)

RECURSIVE tr_timer_heap_up(_, _)
tr_timer_heap_up(q, pos) ==
  LET parent == pos \div 2
  IN  IF pos = 1 \/ ~tr_timer_before(q.entry, q.heap[pos], q.heap[parent])
        THEN q
        ELSE tr_timer_heap_up(tr_timer_heap_swap(q, pos, parent), parent)

\* The least of a position and its children.
Best(q, pos) ==
  LET better(a, b) == IF a <= Len(q.heap)
                           /\ tr_timer_before(q.entry, q.heap[a], q.heap[b])
                        THEN a ELSE b
  IN  better(2 * pos + 1, better(2 * pos, pos))

RECURSIVE tr_timer_heap_down(_, _)
tr_timer_heap_down(q, pos) ==
  LET best == Best(q, pos)
  IN  IF best = pos THEN q
        ELSE tr_timer_heap_down(tr_timer_heap_swap(q, pos, best), best)

\* The last slot fills the hole and moves up or down from there.
RemoveWithoutHeapUp(e, h, pos) ==
  LET last == h[Len(h)]
      short == SubSeq(h, 1, Len(h) - 1)
      gone == [e EXCEPT ![h[pos]].heap_pos = 0]
  IN  IF pos = Len(h) THEN Heap(gone, short)
      ELSE tr_timer_heap_down(Heap([gone EXCEPT ![last].heap_pos = pos],
                                   [short EXCEPT ![pos] = last]), pos)

tr_timer_heap_remove(e, h, pos) ==
  LET last == h[Len(h)]
      short == SubSeq(h, 1, Len(h) - 1)
      gone == [e EXCEPT ![h[pos]].heap_pos = 0]
      filled == Heap([gone EXCEPT ![last].heap_pos = pos],
                     [short EXCEPT ![pos] = last])
      up == tr_timer_heap_up(filled, pos)
  IN  IF pos = Len(h) THEN Heap(gone, short)
      ELSE tr_timer_heap_down(up, up.entry[last].heap_pos)

Becomes(q) == entry' = q.entry /\ heap' = q.heap

-----------------------------------------------------------------------------
(* Operations, from the owner's code or from inside a callback.  A token   *)
(* that is not valid any more is refused without effect.                   *)

InCallback == call # NoCall
Nested == IF InCallback THEN nested < MaxNested /\ nested' = nested + 1
          ELSE UNCHANGED nested

\* Counters of limited width that never take the value 0 again.
Skip0(n, limit) == IF n = limit THEN 1 ELSE n

tr_timer_queue_register ==
  /\ free # <<>> /\ Nested
  /\ entry' = [entry EXCEPT ![Head(free)] = [used |-> TRUE,
       generation |-> Skip0(@.generation + 1, GenerationLimit), version |-> 1,
       deadline |-> 0, heap_pos |-> 0]]
  /\ free' = Tail(free)
  /\ UNCHANGED <<heap, now, call>>


\* The effect of arm(i, d) on the entries and the heap.
Armed(e, h, i, d) ==
  LET old == e[i].deadline
      armed == [e EXCEPT ![i].deadline = d, ![i].version = Skip0(@ + 1, VersionLimit)]
      pos == e[i].heap_pos
  IN  CASE d = 0 /\ pos = 0 -> Heap(armed, h)
        [] d = 0 /\ pos # 0 -> tr_timer_heap_remove(armed, h, pos)
        [] d # 0 /\ pos = 0 ->
             tr_timer_heap_up(Heap([armed EXCEPT ![i].heap_pos = Len(h) + 1],
                                   Append(h, i)), Len(h) + 1)
        [] d # 0 /\ pos # 0 /\ d < old -> tr_timer_heap_up(Heap(armed, h), pos)
        [] d # 0 /\ pos # 0 /\ d > old -> tr_timer_heap_down(Heap(armed, h), pos)
        [] OTHER -> Heap(armed, h)

tr_timer_queue_arm(i, d) ==
  /\ entry[i].used /\ Nested
  /\ Becomes(Armed(entry, heap, i, d))
  /\ UNCHANGED <<free, now, call>>

tr_timer_queue_unregister(i) ==
  /\ entry[i].used /\ Nested
  /\ LET pos == entry[i].heap_pos
         q == IF pos = 0 THEN Heap(entry, heap)
              ELSE tr_timer_heap_remove(entry, heap, pos)
     IN  Becomes(Heap([q.entry EXCEPT ![i].deadline = 0, ![i].used = FALSE,
                                      ![i].version = (@ + 1) % VersionLimit],
                      q.heap))
  /\ free' = <<i>> \o free
  /\ UNCHANGED <<now, call>>

tr_timer_queue_next_deadline == IF heap = <<>> THEN 0 ELSE entry[heap[1]].deadline

\* run_due: one iteration, up to the call of the callback.  The clock is read
\* once per run_due and never goes back.
RunDue ==
  /\ ~InCallback /\ heap # <<>>
  /\ \E t \in Times : t >= now /\ now' = t
  /\ LET i == heap[1]
         q == tr_timer_heap_remove(entry, heap, 1)
     IN  /\ entry[i].deadline <= now'
         /\ call' = [slot |-> i, generation |-> entry[i].generation,
                     version |-> entry[i].version]
         /\ Becomes(Heap([q.entry EXCEPT ![i].deadline = 0], q.heap))
  /\ nested' = 0
  /\ UNCHANGED free

\* ... and from its return, with the deadline it asks for.
ReturnIgnoresVersion(d) ==
  /\ InCallback
  /\ IF /\ entry[call.slot].used
        /\ entry[call.slot].generation = call.generation /\ d # 0
       THEN Becomes(Armed(entry, heap, call.slot, d))
       ELSE UNCHANGED <<entry, heap>>
  /\ call' = NoCall /\ nested' = 0
  /\ UNCHANGED <<free, now>>

CallbackReturn(d) ==
  /\ InCallback
  /\ IF /\ entry[call.slot].used
        /\ entry[call.slot].generation = call.generation
        /\ entry[call.slot].version = call.version /\ d # 0
       THEN Becomes(Armed(entry, heap, call.slot, d))
       ELSE UNCHANGED <<entry, heap>>
  /\ call' = NoCall /\ nested' = 0
  /\ UNCHANGED <<free, now>>

Init == tr_timer_queue_init

Next ==
  \/ tr_timer_queue_register
  \/ \E i \in TimerSlots, d \in Times \cup {0} : tr_timer_queue_arm(i, d)
  \/ \E i \in TimerSlots : tr_timer_queue_unregister(i)
  \/ RunDue
  \/ \E d \in Times \cup {0} : CallbackReturn(d)

Spec == Init /\ [][Next]_vars

-----------------------------------------------------------------------------
(* Properties                                                              *)

\* The heap array and the back pointers agree: the heap holds exactly the
\* registered slots with a deadline, once each, every entry knows its
\* position, and the free list holds exactly the unused slots.
HeapIndex ==
  /\ \A p \in DOMAIN heap : entry[heap[p]].heap_pos = p
  /\ \A i \in TimerSlots :
       /\ entry[i].heap_pos # 0 => heap[entry[i].heap_pos] = i
       /\ (entry[i].heap_pos # 0) <=> (entry[i].used /\ entry[i].deadline # 0)
  /\ {free[k] : k \in DOMAIN free} = {i \in TimerSlots : ~entry[i].used}
  /\ \A j, k \in DOMAIN free : j # k => free[j] # free[k]

\* next_deadline, from which the reactor computes its epoll timeout, is the
\* least deadline of all armed timers: the reactor never oversleeps.
EarliestAtRoot ==
  \A i \in TimerSlots : entry[i].deadline # 0 =>
    tr_timer_queue_next_deadline \in 1 .. entry[i].deadline

\* The two together: what every operation of timer_queue.c relies on and
\* re-establishes, removals from the middle of the heap included.
HeapSound == HeapIndex /\ EarliestAtRoot

\* The running callback has armed or unregistered its own timer.
Decided ==
  /\ InCallback
  /\ \/ ~entry[call.slot].used
     \/ entry[call.slot].generation # call.generation
     \/ entry[call.slot].version # call.version

Contract == INSTANCE TimerContract WITH
  registered <- {i \in TimerSlots : entry[i].used},
  deadline <- [i \in TimerSlots |-> entry[i].deadline],
  calling <- call.slot,
  decided <- Decided

\* The heap with versions and generations implements the contract, whatever
\* the callback does to its own timer and to others before it returns.
ImplementsContract == Contract!Spec
=============================================================================
