-------------------------- MODULE MCRecoveryDrill --------------------------
(***************************************************************************)
(* RecoveryDrill for TLC: two checks, one of them optional.                *)
(***************************************************************************)
EXTENDS RecoveryDrill
=============================================================================
