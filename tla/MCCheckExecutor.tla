-------------------------- MODULE MCCheckExecutor --------------------------
(***************************************************************************)
(* CheckExecutor for TLC: every list of two checks, each of any kind,      *)
(* disabled or with up to three attempts; an attempt and a delay take one  *)
(* tick.                                                                   *)
(***************************************************************************)
EXTENDS CheckExecutor
=============================================================================
