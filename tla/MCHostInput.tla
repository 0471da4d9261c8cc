---- MODULE MCHostInput ----
(* HostInput for TLC: one key, Escape, and one mouse button. *)
EXTENDS HostInput
====
