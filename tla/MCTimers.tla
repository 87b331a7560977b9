----------------------------- MODULE MCTimers -------------------------------
(* Slots a at 2 and 3, b at 3.                                             *)
EXTENDS Timers

MCSlots == [k \in Crons |-> CASE k = "a" -> {2, 3} [] k = "b" -> {3} [] OTHER -> {}]
=============================================================================
