--------------------------- MODULE CommandQueue ---------------------------
(***************************************************************************)
(* The bounded command queue of a reactor                                  *)
(* (src/src/execution/command_queue.{h,c}): a ring of accepted commands,   *)
(* one fixed slot reserved for STOP, an admission generation for producers *)
(* that wait for capacity, and a wake_pending bit that decides which       *)
(* producer writes the reactor's eventfd.                                  *)
(*                                                                         *)
(* Every operator below is the body of one critical section of queue->lock *)
(* and therefore one atomic step; the modules that extend this one supply  *)
(* the threads.  A caller sleeping on the condition variable not_full is a *)
(* member of the set not_full; a broadcast empties the set and each thread *)
(* re-evaluates its loop condition in a later step of its own.             *)
(***************************************************************************)
EXTENDS Naturals, Sequences, FiniteSets

CONSTANTS Capacity,       \* command_capacity: slots of the ring
          SequenceLimit   \* first value next_sequence cannot hold (2^64)

ASSUME CapacityAssumption == Capacity \in Nat \ {0}
ASSUME SequenceLimitAssumption == SequenceLimit \in Nat /\ SequenceLimit > 1

VARIABLES items,            \* the ring, oldest command first
          stop_command,     \* <<STOP>> while stop_pending, <<>> otherwise
          stop_closed,      \* STOP was submitted in this round
          wait_accepting,   \* push_wait() may enqueue
          wait_generation,  \* admission generation of push_wait()
          next_sequence,    \* sequence number of the last accepted command
          wake_pending,     \* some producer already owns the wakeup
          not_full          \* threads asleep in pthread_cond_wait

cqVars == <<items, stop_command, stop_closed, wait_accepting,
            wait_generation, next_sequence, wake_pending, not_full>>

CommandQueueInit ==
  /\ items = <<>> /\ stop_command = <<>> /\ stop_closed = FALSE
  /\ wait_accepting = FALSE /\ wait_generation = 0
  /\ next_sequence = 0 /\ wake_pending = FALSE /\ not_full = {}

(***************************************************************************)
(* Sequence numbers are 64-bit and skip 0 when they wrap.  after_eq(o, t): *)
(* has observation o reached target t?  The comparison is modular: o is at *)
(* or after t when the distance from t to o is less than half the range.   *)
(***************************************************************************)
NextSequence(s) == IF s + 1 = SequenceLimit THEN 1 ELSE s + 1

tr_command_sequence_after_eq(observed, target) ==
  \/ target = 0
  \/ ((observed + SequenceLimit) - target) % SequenceLimit < SequenceLimit \div 2

StopPending == stop_command # <<>>
Full == Len(items) = Capacity

\* enqueue_locked: append with the next sequence number.  The producer that
\* finds wake_pending clear sets it and must write the eventfd (NeedWake).
NeedWake == ~wake_pending

tr_command_queue_enqueue_locked(command) ==
  /\ next_sequence' = NextSequence(next_sequence)
  /\ items' = Append(items, [command EXCEPT !.sequence = next_sequence'])
  /\ wake_pending' = TRUE

\* push: immediate admission.  PushStatus is its return code; only OK changes
\* the queue.
PushStatus == IF stop_closed THEN "closed" ELSE IF Full THEN "again" ELSE "ok"

tr_command_queue_push(command) ==
  /\ PushStatus = "ok"
  /\ tr_command_queue_enqueue_locked(command)
  /\ UNCHANGED <<stop_command, stop_closed, wait_accepting, wait_generation,
                 not_full>>

tr_command_queue_wait_open ==
  /\ IF StopPending
       THEN UNCHANGED <<stop_closed, wait_generation, wait_accepting>>
       ELSE /\ stop_closed' = FALSE
            /\ wait_generation' = wait_generation + 1
            /\ wait_accepting' = TRUE
  /\ UNCHANGED <<items, stop_command, next_sequence, wake_pending, not_full>>

tr_command_queue_wait_close ==
  /\ wait_generation' = wait_generation + 1
  /\ wait_accepting' = FALSE
  /\ not_full' = {}
  /\ UNCHANGED <<items, stop_command, stop_closed, next_sequence, wake_pending>>

tr_command_queue_wait_generation ==
  IF wait_accepting THEN wait_generation ELSE 0

\* push_wait, one evaluation of its loop by thread t with the generation it
\* sampled: sleep while the round is open and the ring full, refuse when the
\* round has closed, otherwise enqueue.
AdmitsAnyRound(generation) == wait_accepting

Admits(generation) == wait_accepting /\ wait_generation = generation

PushWaitSleep(t, generation) ==
  /\ Admits(generation) /\ Full
  /\ not_full' = not_full \cup {t}
  /\ UNCHANGED <<items, stop_command, stop_closed, wait_accepting,
                 wait_generation, next_sequence, wake_pending>>

PushWaitClosed(generation) == ~Admits(generation)

PushWaitEnqueue(command, generation) ==
  /\ Admits(generation) /\ ~Full
  /\ tr_command_queue_enqueue_locked(command)
  /\ UNCHANGED <<stop_command, stop_closed, wait_accepting, wait_generation,
                 not_full>>

\* push_wait_force: STOP goes to its fixed slot, never to the ring, and closes
\* the round.  Refused (ERR_STATE) when the round already has its STOP.
tr_command_queue_push_wait_force(command) ==
  /\ ~stop_closed
  /\ next_sequence' = NextSequence(next_sequence)
  /\ stop_command' = <<[command EXCEPT !.sequence = next_sequence']>>
  /\ stop_closed' = TRUE
  /\ wait_accepting' = FALSE
  /\ not_full' = {}
  /\ wake_pending' = TRUE
  /\ UNCHANGED <<items, wait_generation>>

tr_command_queue_is_empty == items = <<>> /\ ~StopPending

\* pop_batch: up to max ring commands in order, then STOP when the ring is
\* empty and the batch has room.  Popped(max) is the batch.
PopCount(max) == IF Len(items) < max THEN Len(items) ELSE max

Remaining(max) == SubSeq(items, PopCount(max) + 1, Len(items))

TakesStop(max) == Len(items) < max /\ StopPending

Popped(max) ==
  SubSeq(items, 1, PopCount(max))
    \o (IF TakesStop(max) THEN stop_command ELSE <<>>)

tr_command_queue_pop_batch(max) ==
  /\ items' = Remaining(max)
  /\ stop_command' = IF TakesStop(max) THEN <<>> ELSE stop_command
  /\ wake_pending' = (wake_pending /\ ~(items' = <<>> /\ stop_command' = <<>>))
  /\ not_full' = IF Popped(max) # <<>> THEN {} ELSE not_full
  /\ UNCHANGED <<stop_closed, wait_accepting, wait_generation, next_sequence>>
=============================================================================
