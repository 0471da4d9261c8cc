---- MODULE MCNetPlay ----
(* NetPlay for TLC: two joiners, one of whom can take the number of the other. *)
EXTENDS NetPlay
CONSTANTS a, b
====
