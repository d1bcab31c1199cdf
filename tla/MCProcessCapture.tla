-------------------------- MODULE MCProcessCapture --------------------------
(* Small instances of ProcessCapture for TLC. *)
EXTENDS ProcessCapture

MCDescendants == {"d1"}
=============================================================================
