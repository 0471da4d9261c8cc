------------------------------- MODULE MCBootRun -------------------------------
(***************************************************************************)
(* The launches by a human and to the stages 4 and 5; a first, a middle    *)
(* and a last tick, armed over the setup and over one another; times that  *)
(* differ, so that the grants are told apart.                              *)
(***************************************************************************)
EXTENDS BootRun

MCStages == {0, 4, 5}
================================================================================
