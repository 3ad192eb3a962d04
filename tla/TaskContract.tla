---------------------------- MODULE TaskContract ----------------------------
(***************************************************************************)
(* What a task executor promises (src/src/execution/task_executor.h): an   *)
(* accepted task is worked on once and its done callback runs once, after  *)
(* the work; a cancellation accepted before the result is committed is     *)
(* reported by that callback, and nothing else is.                         *)
(***************************************************************************)
CONSTANT Tasks

VARIABLES status,     \* "none" | "accepted" | "worked" | "delivered"
          cancelled   \* the task was cancelled before its result was committed

contractVars == <<status, cancelled>>

Init ==
  /\ status = [t \in Tasks |-> "none"]
  /\ cancelled = [t \in Tasks |-> FALSE]

Move(t, from, to) ==
  /\ status[t] = from
  /\ status' = [status EXCEPT ![t] = to]
  /\ UNCHANGED cancelled

Submit(t) == Move(t, "none", "accepted")
Work(t) == Move(t, "accepted", "worked")
Deliver(t) == Move(t, "worked", "delivered")

\* A single task, or every task without a result when the executor stops.
Cancel(T) ==
  /\ \A t \in T : status[t] = "accepted"
  /\ cancelled' = [t \in Tasks |-> t \in T \/ cancelled[t]]
  /\ UNCHANGED status

Next ==
  \/ \E t \in Tasks : Submit(t) \/ Work(t) \/ Deliver(t)
  \/ \E T \in SUBSET Tasks : Cancel(T)

Spec == Init /\ [][Next]_contractVars
=============================================================================
