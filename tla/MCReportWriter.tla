--------------------------- MODULE MCReportWriter ---------------------------
(***************************************************************************)
(* ReportWriter for TLC: two drills of one project that have begun in the  *)
(* same second, with two formats of two blocks.                            *)
(***************************************************************************)
EXTENDS ReportWriter

MCStartedAt == [r \in Runs |-> "second"]
MCProject == [r \in Runs |-> "project"]
MCShortId == [r \in Runs |-> r]
=============================================================================
