---- MODULE MCTimerPool ----
(* TimerPool for TLC: two slots of the table's 64, so that the table fills. *)
EXTENDS TimerPool

CONSTANTS c1, c2
MCSlots == 0 .. 1
MCClients == {c1, c2}
====
