-------------------------- MODULE ReportDirectory --------------------------
(***************************************************************************)
(* What the report directory promises to whoever looks into it (a textfile *)
(* collector, an artefact step, `report` and `diff`): there are whole      *)
(* reports in it and nothing else by their names, the formats of a drill   *)
(* appear in the order they were asked for, and a drill that says it has   *)
(* written its report has written all of it.  A power failure may take     *)
(* back what came last.  ReportWriter implements it.                       *)
(***************************************************************************)
EXTENDS Integers

CONSTANTS
  Runs,  \* drills that write into the directory
  F      \* number of formats of a report

VARIABLES
  reports,   \* <<drill, format>> of every report a reader finds
  finished,  \* drills that have said that their report is written
  power

InOrder(R) ==
  \A r \in Runs : \A i \in 2..F : <<r, i>> \in R => <<r, i - 1>> \in R

Init ==
  /\ reports = {}
  /\ finished = {}
  /\ power = TRUE

Publish(r, i) ==
  /\ power
  /\ reports' = reports \cup {<<r, i>>}
  /\ InOrder(reports')
  /\ UNCHANGED <<finished, power>>

Finish(r) ==
  /\ power
  /\ \A i \in 1..F : <<r, i>> \in reports
  /\ finished' = finished \cup {r}
  /\ UNCHANGED <<reports, power>>

PowerFails ==
  /\ power
  /\ power' = FALSE
  /\ reports' \subseteq reports
  /\ InOrder(reports')
  /\ UNCHANGED finished

Next ==
  \/ \E r \in Runs : Finish(r) \/ \E i \in 1..F : Publish(r, i)
  \/ PowerFails

Spec == Init /\ [][Next]_<<reports, finished, power>>
=============================================================================
