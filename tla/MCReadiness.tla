---------------------------- MODULE MCReadiness ----------------------------
(***************************************************************************)
(* Readiness for TLC: two services, every state they may be in when `up`   *)
(* returns, every choice of wait_for, and a startup timeout of three polls.*)
(***************************************************************************)
EXTENDS Readiness
=============================================================================
