-------------------------- MODULE CompletionQueue --------------------------
(***************************************************************************)
(* The bounded completion queue of a reactor                               *)
(* (src/src/execution/completion_queue.c): worker threads hand finished    *)
(* work to the owner through it.  It has its own lock, its own admission   *)
(* generation and its own wake_pending bit, so that a worker never takes   *)
(* the reactor's control lock.  As in CommandQueue, one operator is one    *)
(* critical section and c_not_full is the set of sleeping workers.         *)
(***************************************************************************)
EXTENDS Naturals, Sequences

CONSTANT CompletionCapacity

ASSUME CompletionCapacityAssumption == CompletionCapacity \in Nat \ {0}

VARIABLES c_items,         \* the ring, oldest completion first
          c_accepting,     \* producers are admitted
          c_generation,    \* admission_generation
          c_wake_pending,  \* some producer already owns the wakeup
          c_not_full       \* workers asleep in pthread_cond_wait

compVars == <<c_items, c_accepting, c_generation, c_wake_pending, c_not_full>>

CompletionQueueInit ==
  /\ c_items = <<>> /\ c_accepting = FALSE /\ c_generation = 0
  /\ c_wake_pending = FALSE /\ c_not_full = {}

CompletionFull == Len(c_items) = CompletionCapacity

tr_completion_queue_open ==
  /\ c_generation' = c_generation + 1
  /\ c_accepting' = TRUE
  /\ UNCHANGED <<c_items, c_wake_pending, c_not_full>>

tr_completion_queue_close ==
  /\ c_generation' = c_generation + 1
  /\ c_accepting' = FALSE
  /\ c_not_full' = {}
  /\ UNCHANGED <<c_items, c_wake_pending>>

tr_completion_queue_admission_generation ==
  IF c_accepting THEN c_generation ELSE 0

\* push_wait, one evaluation of its loop by worker w.
CompletionAdmits(generation) == c_accepting /\ c_generation = generation

CompletionNeedWake == ~c_wake_pending

CompletionSleep(w, generation) ==
  /\ CompletionAdmits(generation) /\ CompletionFull
  /\ c_not_full' = c_not_full \cup {w}
  /\ UNCHANGED <<c_items, c_accepting, c_generation, c_wake_pending>>

CompletionEnqueue(completion, generation) ==
  /\ CompletionAdmits(generation) /\ ~CompletionFull
  /\ c_items' = Append(c_items, completion)
  /\ c_wake_pending' = TRUE
  /\ UNCHANGED <<c_accepting, c_generation, c_not_full>>

\* pop_batch: wake_pending is cleared only when nothing is left (has_more).
CompletionPopCount(max) == IF Len(c_items) < max THEN Len(c_items) ELSE max

CompletionHasMore(max) == Len(c_items) > CompletionPopCount(max)

tr_completion_queue_pop_batch(max) ==
  /\ c_items' = SubSeq(c_items, CompletionPopCount(max) + 1, Len(c_items))
  /\ c_wake_pending' = (c_wake_pending /\ CompletionHasMore(max))
  /\ c_not_full' = IF CompletionPopCount(max) # 0 THEN {} ELSE c_not_full
  /\ UNCHANGED <<c_accepting, c_generation>>
=============================================================================
