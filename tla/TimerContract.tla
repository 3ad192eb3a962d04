--------------------------- MODULE TimerContract ---------------------------
(***************************************************************************)
(* What the timer queue promises its reactor: a timer has at most one      *)
(* deadline; the due timer with the earliest deadline fires first, ties by *)
(* slot; a fired timer is disarmed while its callback runs; and the value  *)
(* the callback returns re-arms the timer unless the callback itself armed *)
(* or unregistered it.                                                     *)
(***************************************************************************)
EXTENDS Naturals

CONSTANTS TimerSlots, Times

VARIABLES registered,  \* slots in use
          deadline,    \* deadline of each slot, 0 when disarmed
          calling,     \* the slot whose callback runs, or 0
          decided      \* that callback armed or unregistered its own timer

contractVars == <<registered, deadline, calling, decided>>

Init ==
  /\ registered = {} /\ calling = 0 /\ decided = FALSE
  /\ deadline = [i \in TimerSlots |-> 0]

Decides(i) == decided' = (decided \/ calling = i) /\ UNCHANGED calling

Register(i) ==
  /\ i \notin registered /\ registered' = registered \cup {i}
  /\ UNCHANGED <<deadline, calling, decided>>

Unregister(i) ==
  /\ i \in registered /\ registered' = registered \ {i}
  /\ deadline' = [deadline EXCEPT ![i] = 0]
  /\ Decides(i)

Arm(i, d) ==
  /\ i \in registered
  /\ deadline' = [deadline EXCEPT ![i] = d]
  /\ Decides(i)
  /\ UNCHANGED registered

Earlier(i, j) ==
  deadline[i] < deadline[j] \/ (deadline[i] = deadline[j] /\ i <= j)

Fire(i) ==
  /\ calling = 0 /\ deadline[i] # 0
  /\ \A j \in TimerSlots : deadline[j] # 0 => Earlier(i, j)
  /\ deadline' = [deadline EXCEPT ![i] = 0]
  /\ calling' = i /\ decided' = FALSE
  /\ UNCHANGED registered

Return(d) ==
  /\ calling # 0
  /\ deadline' = IF decided THEN deadline ELSE [deadline EXCEPT ![calling] = d]
  /\ calling' = 0 /\ decided' = FALSE
  /\ UNCHANGED registered

Next ==
  \/ \E i \in TimerSlots : Register(i) \/ Unregister(i) \/ Fire(i)
  \/ \E i \in TimerSlots, d \in Times \cup {0} : Arm(i, d)
  \/ \E d \in Times \cup {0} : Return(d)

Spec == Init /\ [][Next]_contractVars
=============================================================================
