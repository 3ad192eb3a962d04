---------------------------- MODULE MCExecution -----------------------------
(* Small instances of two data structures of the execution layer for TLC,     *)
(* one per plan: the timer queue and the buffer pools with their budgets.     *)
(* The constants are in the .cfg file.                                        *)
EXTENDS TimerQueue, BufferPool, TLC

VARIABLE plan

\* Versions and generations of timers are only ever compared with the ones that
\* the running callback started with, and MaxNested operations cannot bring
\* them round to these again, so the view keeps the outcome of the comparisons
\* only.
ASSUME NoWrapInCallback ==
  MaxNested + 1 < VersionLimit /\ MaxNested + 1 < GenerationLimit

Shape(e) == <<e.used, e.deadline, e.heap_pos>>

Same == InCallback => /\ entry[call.slot].version = call.version
                      /\ entry[call.slot].generation = call.generation

SameGeneration == InCallback => entry[call.slot].generation = call.generation

MCView == IF plan = "timers"
            THEN <<[i \in TimerSlots |-> Shape(entry[i])], heap, free, now,
                   call.slot, nested, Same, SameGeneration>>
            ELSE bufferVars

\* Threads are interchangeable.
MCSymmetry == Permutations(Threads)

MCInit == plan \in {"timers", "pools"} /\ Init /\ PoolInit

MCNext ==
  \/ plan = "timers" /\ Next /\ UNCHANGED <<plan, bufferVars>>
  \/ plan = "pools" /\ PoolNext /\ UNCHANGED <<plan, vars>>
  \/ plan = "pools" /\ PoolsDestroyed /\ UNCHANGED <<plan, vars>>

MCSpec == MCInit /\ [][MCNext]_<<plan, vars, bufferVars>>
=============================================================================
