----------------------------- MODULE TimerService -----------------------------
(***************************************************************************)
(* What the timer pool promises whoever uses one of its timers: a timer    *)
(* calls back only between its start and its stop, one call at a time, a   *)
(* stop waits for a call in progress, and an identifier is never reused.   *)
(***************************************************************************)
CONSTANT Ids      \* the identifiers of timers

VARIABLE status   \* what the timer with each identifier is doing

Init == status = [i \in Ids |-> "unused"]

Move(i, from, to) == status[i] = from /\ status' = [status EXCEPT ![i] = to]

Start(i) == Move(i, "unused", "idle")
Begin(i) == Move(i, "idle", "firing")
End(i)   == Move(i, "firing", "idle")
Stop(i)  == Move(i, "idle", "dead")

Next == \E i \in Ids : Start(i) \/ Begin(i) \/ End(i) \/ Stop(i)

Spec == Init /\ [][Next]_status
===============================================================================
