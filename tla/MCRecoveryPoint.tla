-------------------------- MODULE MCRecoveryPoint --------------------------
(***************************************************************************)
(* RecoveryPoint for TLC: two archives; or a directory with a file, and a  *)
(* subdirectory with a file and a link, of which anything may be missing.  *)
(* The store changes up to two times while the drill runs.                 *)
(***************************************************************************)
EXTENDS RecoveryPoint

CONSTANTS a, b, sub, link

Tree ==
  [e \in Entries |-> IF e \in {b, link} THEN sub ELSE Top]
=============================================================================
