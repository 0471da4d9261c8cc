---- MODULE MCTimerPacing ----
(* TimerPacing for TLC: seconds of 4 ns, so that every carry happens early. *)
EXTENDS TimerPacing
MCPeriods == {1, 2, 3}
MCStarts == {0, 3}
====
