---------------------------- MODULE DrillHistory ----------------------------
(***************************************************************************)
(* Drill after drill, and `restoreproof diff` between their reports        *)
(* (cli/src/commands/diff.rs, report/src/diff.rs): what assemble()         *)
(* (runner/src/runner.rs) makes of a drill that ran to its end, failed or  *)
(* was stopped by its budget, and what compare() makes of two such         *)
(* reports, the older one a known-good report that the operator keeps and  *)
(* replaces while diff finds no regression (docs/operations.md).           *)
(*                                                                         *)
(* Times are those since the drill started.  The clocks agree, and an      *)
(* optional value is a set of at most one.  The scenario may be edited     *)
(* between two drills.                                                     *)
(***************************************************************************)
EXTENDS Verdict, Sequences, FiniteSets, FiniteSetsExt

CONSTANTS
  Scenarios,  \* records [listed, required, rtoTarget, rpoTarget]; listed is
              \* the sequence of the identifiers of the checks
  Ages,       \* how old a backup may be, in optional values; negative if its
              \* clock is ahead
  MaxStep     \* bound on the time one step of a drill takes

ASSUME MaxStepAssumption == MaxStep \in Nat
\* What Scenario promises: the required checks are among those that are listed,
\* and no identifier is listed twice.
ASSUME ScenarioAssumption ==
  \A s \in Scenarios :
    /\ s.listed \in Seq(Nat)
    /\ \A i, j \in 1..Len(s.listed) : s.listed[i] = s.listed[j] => i = j
    /\ s.required \subseteq {s.listed[i] : i \in 1..Len(s.listed)}
    /\ s.rtoTarget \subseteq Nat /\ \A t, u \in s.rtoTarget : t = u

VARIABLES
  scenario,   \* the configuration of the current drill
  pc,         \* where the drill, or the operator, is
  clock,      \* time since the drill started
  age,        \* BackupMetadata.created_at, as an age
  outcomes,   \* Progress.checks: a sequence of CheckOutcome
  result,     \* the Result of the drill
  proven,     \* history: when every required check had passed
  report,     \* the report of this drill
  exitCode,   \* ... and its exit code
  knownGood,  \* the report the operator keeps
  gate,       \* the exit code of diff
  passing,    \* history: checks that passed in a known-good report, and were
              \* part of every known-good report since
  met,        \* history: the same of objectives, while they were not UNKNOWN
  floor       \* history: the best rank of a known-good report

drill == <<scenario, clock, age, outcomes, result, proven>>
kept == <<knownGood, passing, met, floor>>
vars == <<drill, pc, report, exitCode, gate, kept>>

Objectives == {"rto", "rpo"}
NoReport == [status |-> "none"]

IsReport(r) ==
  r.status \in RunStatus /\ \A o \in Objectives : r[o] \in {"PASS", "FAIL", "UNKNOWN"}

Outcomes == [id : Nat, status : CheckStatus, started_at : Nat, duration : Nat]

TypeOK ==
  /\ scenario \in Scenarios
  /\ pc \in {"idle", "recover", "check", "assemble", "reported", "compared"}
  /\ clock \in Nat
  /\ age \in Ages \cup {{}}
  /\ outcomes \in Seq(Outcomes)
  /\ result \in {"none", "ok", "dry"} \cup Failure
  /\ proven \subseteq Nat
  /\ report # NoReport => IsReport(report)
  /\ knownGood # NoReport => IsReport(knownGood)
  /\ exitCode \in -1..6
  /\ gate \in -1..1
  /\ met \subseteq Objectives
  /\ floor \in 0..4

Init ==
  /\ scenario \in Scenarios
  /\ pc = "idle"
  /\ clock = 0 /\ age = {} /\ outcomes = <<>> /\ result = "none" /\ proven = {}
  /\ report = NoReport /\ exitCode = -1
  /\ knownGood = NoReport /\ gate = -1
  /\ passing = {} /\ met = {} /\ floor = 0

-----------------------------------------------------------------------------
(* The drill, as far as the report tells of it.                            *)

Over == {"idle", "reported", "compared"}

StartDrill ==
  /\ pc \in Over /\ pc' = "recover"
  /\ scenario' \in Scenarios
  /\ clock' = 0 /\ age' = {} /\ outcomes' = <<>> /\ result' = "none" /\ proven' = {}
  /\ report' = NoReport /\ exitCode' = -1 /\ gate' = -1
  /\ UNCHANGED kept

\* --dry-run: nothing is inspected or run.
DryRun ==
  /\ pc = "recover" /\ pc' = "assemble"
  /\ result' = "dry"
  /\ UNCHANGED <<scenario, clock, age, outcomes, proven, report, exitCode, gate, kept>>

\* Inspect, restore, start, wait.
Recover ==
  /\ pc = "recover" /\ pc' = "check"
  /\ age' \in Ages
  /\ clock' \in clock..clock + MaxStep
  /\ UNCHANGED <<scenario, outcomes, result, proven, report, exitCode, gate, kept>>

\* An error before the checks, with or without the backup inspected.
RecoverFails ==
  /\ pc = "recover" /\ pc' = "assemble"
  /\ age' \in Ages \cup {{}}
  /\ result' \in Failure
  /\ UNCHANGED <<scenario, clock, outcomes, proven, report, exitCode, gate, kept>>

RequiredPassed(done) ==
  \A c \in scenario.required :
    \E i \in 1..Len(done) : done[i].id = c /\ done[i].status = "PASSED"

RunCheck ==
  /\ pc = "check" /\ Len(outcomes) < Len(scenario.listed)
  /\ \E s \in CheckStatus, d \in 0..MaxStep :
       /\ clock' = clock + d
       /\ outcomes' = Append(outcomes, [id |-> scenario.listed[Len(outcomes) + 1],
                                        status |-> s, started_at |-> clock, duration |-> d])
  /\ proven' = IF proven = {} /\ RequiredPassed(outcomes') THEN {clock'} ELSE proven
  /\ UNCHANGED <<scenario, pc, age, result, report, exitCode, gate, kept>>

\* The teardown cannot fail a drill any more.
ChecksDone ==
  /\ pc = "check" /\ Len(outcomes) = Len(scenario.listed)
  /\ pc' = "assemble" /\ result' = "ok"
  /\ UNCHANGED <<scenario, clock, age, outcomes, proven, report, exitCode, gate, kept>>

\* The total budget expires between two checks, in one, or after the last.
Expire ==
  /\ pc = "check"
  /\ pc' = "assemble" /\ result' = "budget"
  /\ UNCHANGED <<scenario, clock, age, outcomes, proven, report, exitCode, gate, kept>>

-----------------------------------------------------------------------------
(* assemble() and the metrics.                                             *)

Required(o) == o.id \in scenario.required
Entries(done) == {done[i] : i \in 1..Len(done)}

\* Mutant of ReadyTimestamp: whether the required checks passed is not asked.
ReadyTimestampOfAll(done) ==
  LET required == {o \in Entries(done) : Required(o)}
  IN IF required = {} THEN {} ELSE {Max({o.started_at + o.duration : o \in required})}

\* When the last required check passed, of those that were run.
ReadyTimestamp(done) ==
  LET required == {o \in Entries(done) : Required(o)}
  IN IF required = {} \/ \E o \in required : o.status # "PASSED" THEN {}
     ELSE {Max({o.started_at + o.duration : o \in required})}

\* RtoMetric::evaluate
Rto(measured, target) ==
  IF measured = {} \/ target = {} THEN "UNKNOWN"
  ELSE IF \A m \in measured, t \in target : m <= t THEN "PASS" ELSE "FAIL"

\* RpoMetric::evaluate, which takes a negative age for 0.
Rpo(estimated, target) ==
  IF estimated = {} \/ target = {} THEN "UNKNOWN"
  ELSE IF \A e \in estimated, t \in target : (IF e < 0 THEN 0 ELSE e) <= t
       THEN "PASS" ELSE "FAIL"

Statuses(done) == [c \in {o.id : o \in Entries(done)} |->
                     (CHOOSE o \in Entries(done) : o.id = c).status]

RunStatusOf(done) ==
  IF result = "dry" THEN "SKIPPED"
  ELSE IF done = <<>> THEN "ERROR"
  ELSE Aggregate(DOMAIN Statuses(done), scenario.required, Statuses(done))

Assemble ==
  /\ pc = "assemble" /\ pc' = "reported"
  /\ report' = [status |-> RunStatusOf(outcomes),
                checks |-> Statuses(outcomes),
                rto |-> Rto(ReadyTimestamp(outcomes), scenario.rtoTarget),
                rpo |-> Rpo(age, scenario.rpoTarget)]
  /\ exitCode' = IF result \in {"ok", "dry"} THEN StatusExitCode(report'.status)
                 ELSE FailureExitCode(result)
  /\ UNCHANGED <<drill, gate, kept>>

-----------------------------------------------------------------------------
(* compare() and the gate.                                                 *)

\* rank(): the higher the better.
Rank == [PASSED |-> 4, PARTIAL |-> 3, SKIPPED |-> 2, FAILED |-> 1, ERROR |-> 0]

Change(before, after, c) ==
  CASE c \notin DOMAIN before.checks -> "Added"
    [] c \notin DOMAIN after.checks -> "Removed"
    [] OTHER ->
         LET b == before.checks[c] a == after.checks[c]
         IN IF a = b THEN "Unchanged"
            ELSE IF a = "PASSED" THEN "Fixed"
            ELSE IF b = "PASSED" THEN "Regressed"
            ELSE "StillFailing"

Compared(before, after) == DOMAIN before.checks \cup DOMAIN after.checks

\* Mutant of RegressedCheck: any change of a check.
RegressedCheckOrFixed(before, after) ==
  \E c \in Compared(before, after) : Change(before, after, c) \notin {"Added", "Unchanged"}

RegressedCheck(before, after) ==
  \E c \in Compared(before, after) : Change(before, after, c) = "Regressed"
RegressedObjective(before, after) ==
  \E o \in Objectives : before[o] = "PASS" /\ after[o] = "FAIL"

\* Mutant of Regressed: the status sums up the checks.
RegressedStatus(before, after) ==
  \/ Rank[after.status] < Rank[before.status]
  \/ RegressedObjective(before, after)

\* Mutant of Regressed: only what both reports have is compared.
RegressedParts(before, after) ==
  RegressedCheck(before, after) \/ RegressedObjective(before, after)

Regressed(before, after) ==
  \/ Rank[after.status] < Rank[before.status]
  \/ RegressedCheck(before, after)
  \/ RegressedObjective(before, after)

Diff ==
  /\ pc = "reported" /\ knownGood # NoReport
  /\ pc' = "compared"
  /\ gate' = IF Regressed(knownGood, report) THEN 1 ELSE 0
  /\ UNCHANGED <<drill, report, exitCode, kept>>

Passed(r) == {c \in DOMAIN r.checks : r.checks[c] = "PASSED"}

\* The first known-good report is any; another one is kept only if diff has
\* found no regression.
Promote ==
  /\ \/ pc = "reported" /\ knownGood = NoReport
     \/ pc = "compared" /\ gate = 0
  /\ pc' = "idle"
  /\ knownGood' = report
  /\ passing' = (passing \cap DOMAIN report.checks) \cup Passed(report)
  /\ met' = {o \in Objectives : report[o] = "PASS" \/ (o \in met /\ report[o] # "UNKNOWN")}
  /\ floor' = Max({floor, Rank[report.status]})
  /\ UNCHANGED <<drill, report, exitCode, gate>>

Next ==
  \/ StartDrill \/ DryRun \/ Recover \/ RecoverFails \/ RunCheck \/ ChecksDone \/ Expire
  \/ Assemble \/ Diff \/ Promote

Spec == Init /\ [][Next]_vars

-----------------------------------------------------------------------------
(* Properties.                                                             *)

Reported == pc \in {"reported", "compared"}

\* A series of reports that diff lets through one by one does not get worse in
\* small steps: whatever passed in a known-good report, and was reported in
\* all since, passes in the latest; no objective that was met and always
\* measured is missed; the status is the best there was (diff.rs:8-16).
KnownGoodHolds ==
  knownGood # NoReport =>
    /\ passing \subseteq Passed(knownGood)
    /\ \A o \in met : knownGood[o] = "PASS"
    /\ floor = Rank[knownGood.status]

\* diff "works as a CI gate on its own" (README.md:183): against a report that
\* proves a recovery, exit code 0 of diff means exit code 0 of the drill, whatever
\* was edited in between, if the drill was not cut short and is not a dry run.
GateSeesAFailedDrill ==
  (pc = "compared" /\ gate = 0 /\ result = "ok" /\ knownGood.status \in {"PASSED", "PARTIAL"})
    => exitCode = 0

\* Of two reports of the same checks, with the same ones required, diff raises an
\* alarm for a check that does not pass and has changed, for an objective that
\* is missed, and in one case for an improvement: rank() has ERROR below FAILED,
\* and aggregate() lets a failed check hide one without an answer, so that
\* repairing it moves the status from FAILED to ERROR.
AlarmHasACause ==
  LET before == knownGood.checks
      after == report.checks
      required == scenario.required
      Same == /\ DOMAIN before = DOMAIN after /\ DOMAIN after # {}
              /\ knownGood.status = Aggregate(DOMAIN before, required, before)
  IN (pc = "compared" /\ gate = 1 /\ Same) =>
       \/ \E c \in DOMAIN after : after[c] # "PASSED" /\ after[c] # before[c]
       \/ \E o \in Objectives : knownGood[o] = "PASS" /\ report[o] = "FAIL"
       \/ /\ knownGood.status = "FAILED" /\ report.status = "ERROR"
          /\ \E c, d \in DOMAIN after \cap required :
               /\ before[c] = "FAILED" /\ after[c] = "PASSED"
               /\ before[d] \in {"ERROR", "SKIPPED"} /\ after[d] = before[d]

\* "Measured RTO - wall-clock duration between the start of the recovery
\* procedure and the moment every required check passed" (metrics.rs): if the
\* drill ran to its end, the RTO is met if and only if that moment came in time.
RtoIsEarned ==
  (Reported /\ result = "ok" /\ scenario.required # {} /\ scenario.rtoTarget # {}) =>
    (report.rto = "PASS" <=> \E t \in proven, limit \in scenario.rtoTarget : t <= limit)
=============================================================================
