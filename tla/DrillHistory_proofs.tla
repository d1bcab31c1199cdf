------------------------ MODULE DrillHistory_proofs ------------------------
(***************************************************************************)
(* Proofs about DrillHistory, for any scenarios and any number of drills.  *)
(***************************************************************************)
EXTENDS DrillHistory, TLAPS

\* What a report and the two exit codes go back to.
ReportInv ==
  /\ Reported => report # NoReport
  /\ pc = "compared" =>
       knownGood # NoReport /\ gate = (IF Regressed(knownGood, report) THEN 1 ELSE 0)
  /\ (Reported /\ result = "ok") =>
       /\ exitCode = StatusExitCode(report.status)
       /\ report.rto = Rto(ReadyTimestamp(outcomes), scenario.rtoTarget)

KeptInv ==
  /\ knownGood = NoReport => passing = {} /\ met = {} /\ floor = 0
  /\ KnownGoodHolds

EndOf(done, i) == done[i].started_at + done[i].duration

\* The outcomes are those of the first checks that are listed, one after the other.
RunInv ==
  /\ Len(outcomes) <= Len(scenario.listed)
  /\ \A i \in 1..Len(outcomes) : outcomes[i].id = scenario.listed[i]
  /\ \A i \in 1..Len(outcomes) : EndOf(outcomes, i) <= clock
  /\ \A i, j \in 1..Len(outcomes) : i <= j => EndOf(outcomes, i) <= EndOf(outcomes, j)
  /\ pc = "recover" => outcomes = <<>> /\ proven = {}
  /\ result = "ok" => Len(outcomes) = Len(scenario.listed)

LastRequired(done, k) ==
  /\ done[k].id \in scenario.required
  /\ \A i \in 1..Len(done) : done[i].id \in scenario.required => i <= k

\* The moment every required check had passed is when the last of them ended.
ProvenInv ==
  scenario.required # {} =>
    /\ RequiredPassed(outcomes) => proven # {}
    /\ proven # {} => RequiredPassed(outcomes)
    /\ \A t \in proven :
         \E k \in 1..Len(outcomes) : LastRequired(outcomes, k) /\ t = EndOf(outcomes, k)

IInv == TypeOK /\ ReportInv /\ KeptInv /\ RunInv /\ ProvenInv

-----------------------------------------------------------------------------
(* The operators.                                                          *)

LEMMA MaxIs ==
  ASSUME NEW S \in SUBSET Int, NEW x \in S, \A y \in S : y <= x
  PROVE  Max(S) = x
<1>1. \E z \in S : \A y \in S : z >= y
  OBVIOUS
<1>2. Max(S) \in S /\ \A y \in S : Max(S) >= y
  BY <1>1 DEF Max
<1>3. Max(S) \in Int /\ x \in Int /\ Max(S) <= x /\ x <= Max(S)
  BY <1>2
<1> QED
  BY <1>3

LEMMA EndType ==
  ASSUME NEW done \in Seq(Outcomes), NEW i \in 1..Len(done)
  PROVE  EndOf(done, i) \in Nat
<1>1. done[i] \in Outcomes
  OBVIOUS
<1>2. done[i].started_at \in Nat /\ done[i].duration \in Nat
  BY <1>1 DEF Outcomes
<1> QED
  BY <1>2 DEF EndOf

LEMMA StatusType == ASSUME NEW done PROVE RunStatusOf(done) \in RunStatus
BY DEF RunStatusOf, Aggregate, RunStatus

LEMMA OutcomeType ==
  ASSUME NEW a, NEW b
  PROVE  Rto(a, b) \in {"PASS", "FAIL", "UNKNOWN"} /\ Rpo(a, b) \in {"PASS", "FAIL", "UNKNOWN"}
BY DEF Rto, Rpo

LEMMA RankType == \A s \in RunStatus : Rank[s] \in 0..4
BY DEF Rank, RunStatus

\* A report that diff lets through has lost nothing it can be compared in.
LEMMA NothingLost ==
  ASSUME NEW before, NEW after, IsReport(before), IsReport(after), ~Regressed(before, after)
  PROVE  /\ Passed(before) \cap DOMAIN after.checks \subseteq Passed(after)
         /\ \A o \in Objectives : before[o] = "PASS" => after[o] \in {"PASS", "UNKNOWN"}
         /\ Rank[after.status] >= Rank[before.status]
<1>1. ~RegressedCheck(before, after) /\ ~RegressedObjective(before, after)
      /\ ~(Rank[after.status] < Rank[before.status])
  BY DEF Regressed
<1>2. ASSUME NEW c \in Passed(before) \cap DOMAIN after.checks, after.checks[c] # "PASSED"
      PROVE  FALSE
  <2>1. c \in DOMAIN before.checks /\ before.checks[c] = "PASSED"
    BY <1>2 DEF Passed
  <2>2. Change(before, after, c) = "Regressed"
    BY <1>2, <2>1 DEF Change
  <2> QED
    BY <1>1, <2>1, <2>2 DEF RegressedCheck, Compared
<1>3. Passed(before) \cap DOMAIN after.checks \subseteq Passed(after)
  BY <1>2 DEF Passed
<1>4. \A o \in Objectives : before[o] = "PASS" => after[o] \in {"PASS", "UNKNOWN"}
  BY <1>1 DEF RegressedObjective, IsReport
<1>5. Rank[after.status] >= Rank[before.status]
  BY <1>1, RankType DEF IsReport
<1> QED
  BY <1>3, <1>4, <1>5

-----------------------------------------------------------------------------
LEMMA InitIInv == Init => IInv
<1> SUFFICES ASSUME Init PROVE IInv
  OBVIOUS
<1>1. TypeOK
  BY DEF Init, TypeOK
<1>2. ReportInv /\ KeptInv
  BY DEF Init, ReportInv, KeptInv, KnownGoodHolds, Reported
<1>3. RunInv
  <2>1. scenario \in Scenarios /\ outcomes = <<>> /\ Len(scenario.listed) \in Nat
    BY ScenarioAssumption DEF Init
  <2> QED
    BY <2>1 DEF Init, RunInv
<1>4. ProvenInv
  <2>1. outcomes = <<>> /\ proven = {}
    BY DEF Init
  <2> QED
    BY <2>1 DEF ProvenInv, RequiredPassed
<1> QED
  BY <1>1, <1>2, <1>3, <1>4 DEF IInv

-----------------------------------------------------------------------------
(* The steps.                                                              *)

LEMMA StartKeeps == ASSUME IInv, StartDrill PROVE IInv'
<1>1. TypeOK'
  BY DEF StartDrill, kept, IInv, TypeOK, IsReport
<1>2. ReportInv' /\ KeptInv'
  BY DEF StartDrill, kept, IInv, ReportInv, KeptInv, KnownGoodHolds, Reported, Passed
<1>3. outcomes' = <<>> /\ proven' = {} /\ scenario' \in Scenarios /\ pc' = "recover"
      /\ result' = "none"
  BY DEF StartDrill
<1>4. RunInv'
  <2>1. Len(scenario'.listed) \in Nat
    BY <1>3, ScenarioAssumption
  <2> QED
    BY <1>3, <2>1 DEF RunInv
<1>5. ProvenInv'
  BY <1>3 DEF ProvenInv, RequiredPassed
<1> QED
  BY <1>1, <1>2, <1>4, <1>5 DEF IInv

\* A drill moves on, and no outcome comes with it.
LEMMA DrillKeeps ==
  ASSUME IInv, DryRun \/ Recover \/ RecoverFails \/ ChecksDone \/ Expire
  PROVE  IInv'
<1>1. TypeOK'
  <2>1. clock' \in Nat
    BY MaxStepAssumption DEF DryRun, Recover, RecoverFails, ChecksDone, Expire, IInv, TypeOK
  <2>2. /\ UNCHANGED <<scenario, outcomes, proven, report, exitCode, gate, knownGood, met, floor>>
        /\ age' \in Ages \cup {{}}
        /\ result' \in {"none", "ok", "dry"} \cup Failure
        /\ pc' \in {"check", "assemble"}
    BY DEF DryRun, Recover, RecoverFails, ChecksDone, Expire, kept, IInv, TypeOK, Failure
  <2> QED
    BY <2>1, <2>2 DEF IInv, TypeOK, IsReport
<1>2. ReportInv' /\ KeptInv'
  BY DEF DryRun, Recover, RecoverFails, ChecksDone, Expire, kept, IInv, ReportInv, KeptInv,
         KnownGoodHolds, Reported, Passed
<1>3. UNCHANGED <<scenario, outcomes, proven>>
  BY DEF DryRun, Recover, RecoverFails, ChecksDone, Expire
<1>4. RunInv'
  <2>1. clock <= clock' /\ clock \in Nat /\ clock' \in Nat
    BY MaxStepAssumption DEF DryRun, Recover, RecoverFails, ChecksDone, Expire, IInv, TypeOK
  <2>2. \A i \in 1..Len(outcomes) : EndOf(outcomes, i) \in Nat
    BY EndType DEF IInv, TypeOK
  <2>3. \A i \in 1..Len(outcomes) : EndOf(outcomes, i) <= clock'
    BY <2>1, <2>2 DEF IInv, RunInv
  <2>4. pc' # "recover" /\ (result' = "ok" => Len(outcomes) = Len(scenario.listed))
    BY DEF DryRun, Recover, RecoverFails, ChecksDone, Expire, Failure, IInv, RunInv
  <2> QED
    BY <1>3, <2>3, <2>4 DEF IInv, RunInv, EndOf
<1>5. ProvenInv'
  BY <1>3 DEF IInv, ProvenInv, RequiredPassed, LastRequired, EndOf
<1> QED
  BY <1>1, <1>2, <1>4, <1>5 DEF IInv

\* One more outcome: it is the last one, ends now, and is of another check.
LEMMA RunCheckKeeps == ASSUME IInv, RunCheck PROVE IInv'
<1> DEFINE n == Len(outcomes) + 1
<1>1. PICK s \in CheckStatus, d \in 0..MaxStep :
        /\ clock' = clock + d
        /\ outcomes' = Append(outcomes, [id |-> scenario.listed[n], status |-> s,
                                         started_at |-> clock, duration |-> d])
  BY DEF RunCheck
<1>2. /\ pc = "check" /\ Len(outcomes) < Len(scenario.listed)
      /\ proven' = (IF proven = {} /\ RequiredPassed(outcomes') THEN {clock'} ELSE proven)
      /\ UNCHANGED <<scenario, pc, age, result, report, exitCode, gate, knownGood, passing, met, floor>>
  BY DEF RunCheck, kept
<1>3. /\ scenario.listed \in Seq(Nat) /\ Len(scenario.listed) \in Nat
      /\ \A i, j \in 1..Len(scenario.listed) : scenario.listed[i] = scenario.listed[j] => i = j
      /\ outcomes \in Seq(Outcomes) /\ Len(outcomes) \in Nat
      /\ clock \in Nat /\ d \in Nat
  <2>1. scenario \in Scenarios /\ clock \in Nat /\ outcomes \in Seq(Outcomes)
    BY DEF IInv, TypeOK
  <2>2. d \in Nat
    BY MaxStepAssumption
  <2> QED
    BY <2>1, <2>2, ScenarioAssumption
<1>0. /\ n \in 1..n /\ n \in 1..Len(scenario.listed) /\ n \in Nat
      /\ \A i \in 1..n : i \in 1..Len(outcomes) \/ i = n
      /\ \A i \in 1..Len(outcomes) : i \in 1..n /\ i \in 1..Len(scenario.listed) /\ i # n
  BY <1>2, <1>3
<1>4. scenario.listed[n] \in Nat
  BY <1>2, <1>3
<1>5. /\ outcomes' \in Seq(Outcomes) /\ Len(outcomes') = n
      /\ \A i \in 1..Len(outcomes) : outcomes'[i] = outcomes[i]
      /\ outcomes'[n] = [id |-> scenario.listed[n], status |-> s, started_at |-> clock, duration |-> d]
  BY <1>1, <1>3, <1>4 DEF Outcomes
<1>6. /\ \A i \in 1..Len(outcomes) : EndOf(outcomes', i) = EndOf(outcomes, i)
      /\ EndOf(outcomes', n) = clock' /\ clock' \in Nat /\ clock <= clock'
      /\ \A i \in 1..Len(outcomes) : EndOf(outcomes, i) \in Nat
  <2>1. \A i \in 1..Len(outcomes) : EndOf(outcomes, i) \in Nat
    BY <1>3, EndType
  <2>2. EndOf(outcomes', n) = clock + d
    BY <1>5 DEF EndOf
  <2>3. \A i \in 1..Len(outcomes) : EndOf(outcomes', i) = EndOf(outcomes, i)
    BY <1>5 DEF EndOf
  <2> QED
    BY <1>1, <1>3, <2>1, <2>2, <2>3
<1>7. TypeOK'
  <2>1. proven' \subseteq Nat
    BY <1>2, <1>6 DEF IInv, TypeOK
  <2> QED
    BY <1>2, <1>5, <1>6, <2>1 DEF IInv, TypeOK, IsReport
<1>8. ReportInv' /\ KeptInv'
  BY <1>2 DEF IInv, ReportInv, KeptInv, KnownGoodHolds, Reported, Passed
<1>9. \A i \in 1..n : outcomes'[i].id = scenario.listed[i]
  BY <1>3, <1>5 DEF IInv, RunInv
<1>10. RunInv'
  <2>1. \A i \in 1..n : EndOf(outcomes', i) <= clock'
    <3>1. \A i \in 1..Len(outcomes) : EndOf(outcomes', i) <= clock'
      <4>1. \A i \in 1..Len(outcomes) : EndOf(outcomes, i) <= clock
        BY DEF IInv, RunInv
      <4> QED
        BY <1>3, <1>6, <4>1
    <3> QED
      BY <1>0, <1>6, <3>1
  <2>2. \A i, j \in 1..n : i <= j => EndOf(outcomes', i) <= EndOf(outcomes', j)
    <3> SUFFICES ASSUME NEW i \in 1..n, NEW j \in 1..n, i <= j
                 PROVE  EndOf(outcomes', i) <= EndOf(outcomes', j)
      OBVIOUS
    <3>1. CASE j = n
      BY <1>6, <2>1, <3>1
    <3>2. CASE j # n
      <4>1. i \in 1..Len(outcomes) /\ j \in 1..Len(outcomes)
        BY <1>3, <1>0, <3>2
      <4>2. EndOf(outcomes, i) <= EndOf(outcomes, j)
        BY <4>1 DEF IInv, RunInv
      <4> QED
        BY <1>6, <4>1, <4>2
    <3> QED
      BY <3>1, <3>2
  <2>3. n <= Len(scenario.listed) /\ result # "ok"
    BY <1>2, <1>3 DEF IInv, RunInv
  <2> QED
    BY <1>2, <1>5, <1>9, <2>1, <2>2, <2>3 DEF RunInv
<1>11. ProvenInv'
  <2> SUFFICES ASSUME scenario.required # {}
               PROVE  /\ RequiredPassed(outcomes)' => proven' # {}
                      /\ proven' # {} => RequiredPassed(outcomes)'
                      /\ \A t \in proven' : \E k \in 1..n :
                           LastRequired(outcomes', k) /\ t = EndOf(outcomes', k)
    BY <1>2, <1>5 DEF ProvenInv, LastRequired
  <2>1. RequiredPassed(outcomes)' <=> RequiredPassed(outcomes')
    BY <1>2 DEF RequiredPassed
  <2>2. CASE proven # {}
    <3>1. RequiredPassed(outcomes) /\ proven' = proven
      BY <1>2, <2>2 DEF IInv, ProvenInv
    <3>2. RequiredPassed(outcomes')
      <4>1. ASSUME NEW c \in scenario.required
            PROVE  \E i \in 1..n : outcomes'[i].id = c /\ outcomes'[i].status = "PASSED"
        <5>1. PICK i \in 1..Len(outcomes) : outcomes[i].id = c /\ outcomes[i].status = "PASSED"
          BY <3>1 DEF RequiredPassed
        <5> QED
          BY <1>0, <1>5, <5>1
      <4> QED
        BY <1>5, <4>1 DEF RequiredPassed
    <3>3. scenario.listed[n] \notin scenario.required
      <4> SUFFICES ASSUME scenario.listed[n] \in scenario.required PROVE FALSE
        OBVIOUS
      <4>1. PICK i \in 1..Len(outcomes) : outcomes[i].id = scenario.listed[n]
        BY <3>1 DEF RequiredPassed
      <4>2. scenario.listed[i] = scenario.listed[n]
        BY <4>1 DEF IInv, RunInv
      <4> QED
        BY <1>0, <1>3, <4>2
    <3>4. ASSUME NEW t \in proven
          PROVE  \E k \in 1..n : LastRequired(outcomes', k) /\ t = EndOf(outcomes', k)
      <4>1. PICK k \in 1..Len(outcomes) : LastRequired(outcomes, k) /\ t = EndOf(outcomes, k)
        BY <3>4 DEF IInv, ProvenInv
      <4>2. k \in 1..n /\ t = EndOf(outcomes', k)
        BY <1>0, <1>6, <4>1
      <4>3. LastRequired(outcomes', k)
        <5>1. \A i \in 1..n : outcomes'[i].id \in scenario.required => i \in 1..Len(outcomes)
          BY <1>0, <1>9, <3>3
        <5> QED
          BY <1>3, <1>5, <4>1, <5>1 DEF LastRequired
      <4> QED
        BY <4>2, <4>3
    <3> QED
      BY <2>1, <2>2, <3>1, <3>2, <3>4
  <2>3. CASE proven = {} /\ RequiredPassed(outcomes')
    <3>1. proven' = {clock'}
      BY <1>2, <2>3
    <3>2. ~RequiredPassed(outcomes)
      BY <2>3 DEF IInv, ProvenInv
    <3>3. outcomes'[n].id \in scenario.required
      <4>1. PICK c \in scenario.required :
              ~(\E i \in 1..Len(outcomes) : outcomes[i].id = c /\ outcomes[i].status = "PASSED")
        BY <3>2 DEF RequiredPassed
      <4>2. PICK i \in 1..n : outcomes'[i].id = c /\ outcomes'[i].status = "PASSED"
        BY <1>5, <2>3 DEF RequiredPassed
      <4>3. i = n
        <5>1. CASE i \in 1..Len(outcomes)
          BY <1>5, <4>1, <4>2, <5>1
        <5> QED
          BY <1>0, <5>1
      <4> QED
        BY <4>2, <4>3
    <3>4. LastRequired(outcomes', n) /\ n \in 1..n
      BY <1>3, <1>5, <3>3 DEF LastRequired
    <3> QED
      BY <1>6, <2>1, <2>3, <3>1, <3>4
  <2>4. CASE proven = {} /\ ~RequiredPassed(outcomes')
    BY <1>2, <2>1, <2>4
  <2> QED
    BY <2>2, <2>3, <2>4
<1> QED
  BY <1>7, <1>8, <1>10, <1>11 DEF IInv

LEMMA AssembleKeeps == ASSUME IInv, Assemble PROVE IInv'
<1>1. /\ pc = "assemble" /\ pc' = "reported"
      /\ report' = [status |-> RunStatusOf(outcomes), checks |-> Statuses(outcomes),
                    rto |-> Rto(ReadyTimestamp(outcomes), scenario.rtoTarget),
                    rpo |-> Rpo(age, scenario.rpoTarget)]
      /\ exitCode' = (IF result \in {"ok", "dry"} THEN StatusExitCode(report'.status)
                      ELSE FailureExitCode(result))
      /\ UNCHANGED <<scenario, clock, age, outcomes, result, proven, gate,
                     knownGood, passing, met, floor>>
  BY DEF Assemble, drill, kept
<1>2. IsReport(report') /\ report' # NoReport
  <2>1. report'.status \in RunStatus
    BY <1>1, StatusType
  <2>2. report'["rto"] \in {"PASS", "FAIL", "UNKNOWN"} /\ report'["rpo"] \in {"PASS", "FAIL", "UNKNOWN"}
    BY <1>1, OutcomeType
  <2> QED
    BY <2>1, <2>2 DEF IsReport, Objectives, NoReport, RunStatus
<1>3. TypeOK'
  <2>1. exitCode' \in -1..6
    BY <1>1 DEF StatusExitCode, FailureExitCode
  <2>2. IsReport(knownGood)' <=> IsReport(knownGood)
    BY <1>1 DEF IsReport
  <2>3. IsReport(report)'
    BY <1>2 DEF IsReport
  <2> QED
    BY <1>1, <2>1, <2>2, <2>3 DEF IInv, TypeOK
<1>4. ReportInv'
  <2>1. ReadyTimestamp(outcomes)' = ReadyTimestamp(outcomes)
    BY <1>1 DEF ReadyTimestamp, Entries, Required
  <2>2. report'.rto = Rto(ReadyTimestamp(outcomes), scenario.rtoTarget)
    BY <1>1
  <2> QED
    BY <1>1, <1>2, <2>1, <2>2 DEF ReportInv, Reported
<1>5. KeptInv' /\ RunInv' /\ ProvenInv'
  BY <1>1 DEF IInv, KeptInv, KnownGoodHolds, Passed, RunInv, ProvenInv, RequiredPassed,
              LastRequired, EndOf
<1> QED
  BY <1>3, <1>4, <1>5 DEF IInv

\* The comparison and the operator leave the drill and its report alone.
LEMMA QuietKeeps ==
  ASSUME IInv, UNCHANGED <<drill, report, exitCode>>, pc' # "recover", gate' \in -1..1
  PROVE  /\ RunInv' /\ ProvenInv'
         /\ (pc' \in {"idle", "compared"} /\ met' \subseteq Objectives /\ floor' \in 0..4
              /\ (knownGood' = knownGood \/ knownGood' = report)) => TypeOK'
<1>1. RunInv' /\ ProvenInv'
  BY DEF drill, IInv, RunInv, ProvenInv, RequiredPassed, LastRequired, EndOf
<1>2. ASSUME pc' \in {"idle", "compared"}, met' \subseteq Objectives, floor' \in 0..4,
             knownGood' = knownGood \/ knownGood' = report
      PROVE  TypeOK'
  <2>1. /\ report' # NoReport => IsReport(report')
        /\ knownGood' # NoReport => IsReport(knownGood')
    BY <1>2 DEF IInv, TypeOK
  <2> QED
    BY <1>2, <2>1 DEF drill, IInv, TypeOK, IsReport
<1> QED
  BY <1>1, <1>2

LEMMA DiffKeeps == ASSUME IInv, Diff PROVE IInv'
<1>1. /\ pc = "reported" /\ pc' = "compared" /\ knownGood # NoReport
      /\ gate' = (IF Regressed(knownGood, report) THEN 1 ELSE 0)
      /\ UNCHANGED <<drill, report, exitCode, knownGood, passing, met, floor>>
  BY DEF Diff, kept
<1>2. TypeOK' /\ RunInv' /\ ProvenInv'
  BY <1>1, QuietKeeps DEF IInv, TypeOK
<1>3. ReportInv'
  <2>1. ReadyTimestamp(outcomes)' = ReadyTimestamp(outcomes)
    BY <1>1 DEF drill, ReadyTimestamp, Entries, Required
  <2> QED
    BY <1>1, <2>1 DEF drill, IInv, ReportInv, Reported
<1>4. KeptInv'
  BY <1>1 DEF IInv, KeptInv, KnownGoodHolds, Passed
<1> QED
  BY <1>2, <1>3, <1>4 DEF IInv

\* A known-good report gives way to one that has lost nothing.
LEMMA PromoteKeeps == ASSUME IInv, Promote PROVE IInv'
<1>1. /\ pc' = "idle" /\ knownGood' = report
      /\ passing' = (passing \cap DOMAIN report.checks) \cup Passed(report)
      /\ met' = {o \in Objectives : report[o] = "PASS" \/ (o \in met /\ report[o] # "UNKNOWN")}
      /\ floor' = Max({floor, Rank[report.status]})
      /\ UNCHANGED <<drill, report, exitCode, gate>>
  BY DEF Promote
<1>2. IsReport(report) /\ report # NoReport /\ Rank[report.status] \in 0..4 /\ floor \in 0..4
  BY RankType DEF Promote, IInv, TypeOK, ReportInv, Reported, IsReport
<1>3. /\ passing' \subseteq Passed(report)
      /\ \A o \in met' : report[o] = "PASS"
      /\ floor' = Rank[report.status]
  <2>1. CASE knownGood = NoReport
    <3>1. passing = {} /\ met = {} /\ floor = 0
      BY <2>1 DEF IInv, KeptInv
    <3>2. Max({floor, Rank[report.status]}) = Rank[report.status]
      <4>1. {floor, Rank[report.status]} \in SUBSET Int
        BY <1>2
      <4>2. \A y \in {floor, Rank[report.status]} : y <= Rank[report.status]
        BY <1>2, <3>1
      <4> QED
        BY <4>1, <4>2, MaxIs
    <3> QED
      BY <1>1, <3>1, <3>2
  <2>2. CASE knownGood # NoReport
    <3>1. pc = "compared" /\ gate = 0
      BY <2>2 DEF Promote
    <3>2. ~Regressed(knownGood, report) /\ IsReport(knownGood)
      BY <2>2, <3>1 DEF IInv, ReportInv, TypeOK
    <3>3. /\ Passed(knownGood) \cap DOMAIN report.checks \subseteq Passed(report)
          /\ \A o \in Objectives : knownGood[o] = "PASS" => report[o] \in {"PASS", "UNKNOWN"}
          /\ Rank[report.status] >= Rank[knownGood.status]
      BY <1>2, <3>2, NothingLost
    <3>4. /\ passing \subseteq Passed(knownGood)
          /\ \A o \in met : knownGood[o] = "PASS"
          /\ floor = Rank[knownGood.status]
      BY <2>2 DEF IInv, KeptInv, KnownGoodHolds
    <3>5. Max({floor, Rank[report.status]}) = Rank[report.status]
      <4>1. {floor, Rank[report.status]} \in SUBSET Int
        BY <1>2
      <4>2. \A y \in {floor, Rank[report.status]} : y <= Rank[report.status]
        BY <1>2, <3>3, <3>4
      <4> QED
        BY <4>1, <4>2, MaxIs
    <3> QED
      BY <1>1, <3>3, <3>4, <3>5
  <2> QED
    BY <2>1, <2>2
<1>4. KeptInv'
  <2>1. Passed(report)' = Passed(report)
    BY <1>1 DEF Passed
  <2> QED
    BY <1>1, <1>2, <1>3 DEF KeptInv, KnownGoodHolds, Passed
<1>5. TypeOK' /\ RunInv' /\ ProvenInv'
  BY <1>1, <1>2, <1>3, QuietKeeps DEF IInv, TypeOK
<1>6. ReportInv'
  BY <1>1 DEF ReportInv, Reported
<1> QED
  BY <1>4, <1>5, <1>6 DEF IInv

LEMMA Inductive == Spec => []IInv
<1>1. IInv /\ UNCHANGED vars => IInv'
  <2> SUFFICES ASSUME IInv, UNCHANGED vars PROVE IInv'
    OBVIOUS
  <2>1. RunInv' /\ ProvenInv' /\ KeptInv'
    BY DEF vars, drill, kept, IInv, RunInv, ProvenInv, RequiredPassed, LastRequired, EndOf,
           KeptInv, KnownGoodHolds, Passed
  <2>3. ReportInv'
    <3>1. ReadyTimestamp(outcomes)' = ReadyTimestamp(outcomes)
      BY DEF vars, drill, ReadyTimestamp, Entries, Required
    <3> QED
      BY <3>1 DEF vars, drill, kept, IInv, ReportInv, Reported
  <2>2. TypeOK'
    BY DEF vars, drill, kept, IInv, TypeOK, IsReport
  <2> QED
    BY <2>1, <2>2, <2>3 DEF IInv
<1>2. IInv /\ [Next]_vars => IInv'
  BY <1>1, StartKeeps, DrillKeeps, RunCheckKeeps, AssembleKeeps, DiffKeeps, PromoteKeeps DEF Next
<1> QED
  BY <1>2, InitIInv, PTL DEF Spec

-----------------------------------------------------------------------------
\* Every variable keeps to its type, whatever drills follow each other.
THEOREM TypeCorrect == Spec => []TypeOK
<1>1. IInv => TypeOK
  BY DEF IInv
<1> QED
  BY <1>1, Inductive, PTL

\* However many reports diff lets through one by one, nothing that they can be
\* compared in is lost along the way.
THEOREM NothingLostInSmallSteps == Spec => []KnownGoodHolds
<1>1. IInv => KnownGoodHolds
  BY DEF IInv, KeptInv
<1> QED
  BY <1>1, Inductive, PTL

\* A gate that says 0 over a drill that ran to its end, against a known-good
\* report that proves a recovery: the drill said 0 too.
THEOREM GateCorrect == Spec => []GateSeesAFailedDrill
<1>1. IInv => GateSeesAFailedDrill
  <2> SUFFICES ASSUME IInv, pc = "compared", gate = 0, result = "ok",
                      knownGood.status \in {"PASSED", "PARTIAL"}
               PROVE  exitCode = 0
    BY DEF GateSeesAFailedDrill
  <2>1. /\ ~Regressed(knownGood, report) /\ IsReport(knownGood) /\ IsReport(report)
        /\ exitCode = StatusExitCode(report.status)
    BY DEF IInv, ReportInv, TypeOK, Reported
  <2>2. ~(Rank[report.status] < Rank[knownGood.status])
    BY <2>1 DEF Regressed
  <2>3. report.status \in {"PASSED", "PARTIAL"}
    BY <2>1, <2>2 DEF Rank, IsReport, RunStatus
  <2> QED
    BY <2>1, <2>3 DEF StatusExitCode
<1> QED
  BY <1>1, Inductive, PTL

\* The RTO in the report is met exactly when the last required check passed in time.
THEOREM RtoCorrect == Spec => []RtoIsEarned
<1>1. IInv => RtoIsEarned
  <2> SUFFICES ASSUME IInv, Reported, result = "ok", scenario.required # {},
                      scenario.rtoTarget # {}
               PROVE  report.rto = "PASS"
                        <=> \E t \in proven, limit \in scenario.rtoTarget : t <= limit
    BY DEF RtoIsEarned
  <2>1. /\ report.rto = Rto(ReadyTimestamp(outcomes), scenario.rtoTarget)
        /\ Len(outcomes) = Len(scenario.listed)
    BY DEF IInv, ReportInv, RunInv
  <2>2. /\ scenario.required \subseteq {scenario.listed[i] : i \in 1..Len(scenario.listed)}
        /\ \A i, j \in 1..Len(scenario.listed) : scenario.listed[i] = scenario.listed[j] => i = j
        /\ \A t, u \in scenario.rtoTarget : t = u
    BY ScenarioAssumption DEF IInv, TypeOK
  <2>3. \A i \in 1..Len(outcomes) : outcomes[i].id = scenario.listed[i]
    BY DEF IInv, RunInv
  <2> DEFINE required == {o \in Entries(outcomes) : Required(o)}
             ends == {o.started_at + o.duration : o \in required}
  <2>4. required # {}
    <3>1. PICK c \in scenario.required : TRUE
      OBVIOUS
    <3>2. PICK i \in 1..Len(outcomes) : scenario.listed[i] = c
      BY <2>1, <2>2
    <3> QED
      BY <2>3, <3>2 DEF Entries, Required
  <2>5. RequiredPassed(outcomes) <=> \A o \in required : o.status = "PASSED"
    <3>1. ASSUME RequiredPassed(outcomes), NEW o \in required PROVE o.status = "PASSED"
      <4>1. PICK i \in 1..Len(outcomes) : o = outcomes[i] /\ o.id \in scenario.required
        BY DEF Entries, Required
      <4>2. PICK j \in 1..Len(outcomes) : outcomes[j].id = o.id /\ outcomes[j].status = "PASSED"
        BY <3>1, <4>1 DEF RequiredPassed
      <4>3. i = j
        BY <2>1, <2>2, <2>3, <4>1, <4>2
      <4> QED
        BY <4>1, <4>2, <4>3
    <3>2. ASSUME \A o \in required : o.status = "PASSED", NEW c \in scenario.required
          PROVE  \E i \in 1..Len(outcomes) : outcomes[i].id = c /\ outcomes[i].status = "PASSED"
      <4>1. PICK i \in 1..Len(outcomes) : outcomes[i].id = c
        BY <2>1, <2>2, <2>3
      <4>2. outcomes[i] \in required
        BY <4>1 DEF Entries, Required
      <4> QED
        BY <3>2, <4>1, <4>2
    <3> QED
      BY <3>1, <3>2 DEF RequiredPassed
  <2>6. CASE ~RequiredPassed(outcomes)
    <3>1. proven = {}
      BY <2>6 DEF IInv, ProvenInv
    <3>2. ReadyTimestamp(outcomes) = {}
      BY <2>5, <2>6 DEF ReadyTimestamp
    <3> QED
      BY <2>1, <3>1, <3>2 DEF Rto
  <2>7. CASE RequiredPassed(outcomes)
    <3>1. PICK t \in proven : TRUE
      BY <2>7 DEF IInv, ProvenInv
    <3>2. \A u \in proven : \E k \in 1..Len(outcomes) :
            LastRequired(outcomes, k) /\ u = EndOf(outcomes, k)
      BY DEF IInv, ProvenInv
    <3>3. \A u \in proven : Max(ends) = u
      <4> SUFFICES ASSUME NEW u \in proven PROVE Max(ends) = u
        OBVIOUS
      <4>1. PICK k \in 1..Len(outcomes) : LastRequired(outcomes, k) /\ u = EndOf(outcomes, k)
        BY <3>2
      <4>2. u \in ends
        <5>1. outcomes[k] \in required
          BY <4>1 DEF LastRequired, Entries, Required
        <5> QED
          BY <4>1, <5>1 DEF EndOf
      <4>3. ASSUME NEW y \in ends PROVE y <= u /\ y \in Int
        <5>1. PICK o \in required : y = o.started_at + o.duration
          BY <4>3
        <5>2. PICK i \in 1..Len(outcomes) : o = outcomes[i] /\ o.id \in scenario.required
          BY DEF Entries, Required
        <5>3. i <= k /\ y = EndOf(outcomes, i)
          BY <4>1, <5>1, <5>2 DEF LastRequired, EndOf
        <5>4. EndOf(outcomes, i) <= EndOf(outcomes, k)
          BY <5>3 DEF IInv, RunInv
        <5>5. EndOf(outcomes, i) \in Nat
          BY EndType DEF IInv, TypeOK
        <5> QED
          BY <4>1, <5>3, <5>4, <5>5
      <4>4. ends \in SUBSET Int
        BY <4>3
      <4> HIDE DEF ends
      <4> QED
        BY <4>2, <4>3, <4>4, MaxIs
    <3>4. ReadyTimestamp(outcomes) = {Max(ends)}
      BY <2>4, <2>5, <2>7 DEF ReadyTimestamp
    <3>5. proven = {t} /\ ReadyTimestamp(outcomes) = {t}
      BY <3>1, <3>3, <3>4
    <3>6. PICK limit \in scenario.rtoTarget : scenario.rtoTarget = {limit}
      BY <2>2
    <3> QED
      BY <2>1, <3>5, <3>6 DEF Rto
  <2> QED
    BY <2>6, <2>7
<1> QED
  BY <1>1, Inductive, PTL

-----------------------------------------------------------------------------
(* The alarms of diff.                                                     *)

\* The rules of aggregate() one by one.
LEMMA AggregateRules ==
  ASSUME NEW ran, NEW required, NEW s, ran # {}
  PROVE  LET a == Aggregate(ran, required, s)
             failed == \E c \in ran \cap required : s[c] = "FAILED"
             open == \E c \in ran \cap required : s[c] \in {"ERROR", "SKIPPED"}
             optional == \E c \in ran \ required : s[c] # "PASSED"
         IN /\ a = "FAILED" <=> failed
            /\ a = "ERROR" <=> open /\ ~failed
            /\ a = "PARTIAL" <=> optional /\ ~failed /\ ~open
            /\ a = "PASSED" <=> ~optional /\ ~failed /\ ~open
            /\ a \in {"FAILED", "ERROR", "PARTIAL", "PASSED"}
BY DEF Aggregate

\* If checks only change to PASSED, the drill's exit code gets no worse, and the
\* status falls in the one case in which a failed check was hiding another.
LEMMA OnlyFixed ==
  ASSUME NEW ran, NEW required, NEW s, NEW t, ran # {},
         \A c \in ran : t[c] = "PASSED" \/ t[c] = s[c]
  PROVE  LET old == Aggregate(ran, required, s)
             new == Aggregate(ran, required, t)
         IN /\ StatusExitCode(new) <= StatusExitCode(old)
            /\ Rank[new] < Rank[old] =>
                 /\ old = "FAILED" /\ new = "ERROR"
                 /\ \E c, d \in ran \cap required :
                      /\ s[c] = "FAILED" /\ t[c] = "PASSED"
                      /\ s[d] \in {"ERROR", "SKIPPED"} /\ t[d] = s[d]
<1> DEFINE old == Aggregate(ran, required, s)
           new == Aggregate(ran, required, t)
<1>1. /\ old \in {"FAILED", "ERROR", "PARTIAL", "PASSED"}
      /\ new \in {"FAILED", "ERROR", "PARTIAL", "PASSED"}
  BY AggregateRules
<1>2. old = "PASSED" => new = "PASSED"
  BY AggregateRules
<1>3. old = "PARTIAL" => new \in {"PARTIAL", "PASSED"}
  BY AggregateRules
<1>4. old = "FAILED" /\ new = "ERROR" =>
        \E c, d \in ran \cap required :
          /\ s[c] = "FAILED" /\ t[c] = "PASSED"
          /\ s[d] \in {"ERROR", "SKIPPED"} /\ t[d] = s[d]
  <2> SUFFICES ASSUME old = "FAILED", new = "ERROR"
               PROVE  \E c, d \in ran \cap required :
                        /\ s[c] = "FAILED" /\ t[c] = "PASSED"
                        /\ s[d] \in {"ERROR", "SKIPPED"} /\ t[d] = s[d]
    OBVIOUS
  <2>1. PICK c \in ran \cap required : s[c] = "FAILED"
    BY AggregateRules
  <2>2. PICK d \in ran \cap required : t[d] \in {"ERROR", "SKIPPED"}
    BY AggregateRules
  <2>3. t[c] # "FAILED"
    BY AggregateRules
  <2> QED
    BY <2>1, <2>2, <2>3
<1> HIDE DEF old, new
<1>5. StatusExitCode(new) <= StatusExitCode(old)
  BY <1>1, <1>2, <1>3 DEF StatusExitCode
<1>6. Rank[new] < Rank[old] => old = "FAILED" /\ new = "ERROR"
  BY <1>1, <1>2, <1>3 DEF Rank
<1> QED
  BY <1>4, <1>5, <1>6 DEF old, new

\* A report is that of the outcomes, as long as nothing has replaced it.
AssembledInv ==
  /\ pc \in {"recover", "check"} => result = "none"
  /\ result = "dry" => outcomes = <<>>
  /\ Reported => /\ report.status = RunStatusOf(outcomes)
                 /\ report.checks = Statuses(outcomes)

LEMMA Assembled == Spec => []AssembledInv
<1>1. Init => AssembledInv
  BY DEF Init, AssembledInv, Reported
<1>2. IInv /\ AssembledInv /\ [Next]_vars => AssembledInv'
  <2> SUFFICES ASSUME IInv, AssembledInv, [Next]_vars
               PROVE  AssembledInv'
    OBVIOUS
  <2> USE DEF AssembledInv, Reported
  <2>1. CASE StartDrill \/ DryRun \/ Recover \/ RecoverFails
    BY <2>1 DEF StartDrill, DryRun, Recover, RecoverFails, IInv, RunInv, Failure
  <2>2. CASE RunCheck \/ ChecksDone \/ Expire
    <3>1. pc = "check" /\ result = "none"
      BY <2>2 DEF RunCheck, ChecksDone, Expire
    <3>2. pc' \in {"check", "assemble"} /\ result' # "dry" /\ (pc' = "check" => result' = "none")
      BY <2>2, <3>1 DEF RunCheck, ChecksDone, Expire
    <3> QED
      BY <3>2
  <2>3. CASE Assemble
    <3>1. UNCHANGED <<scenario, outcomes, result>> /\ pc' = "reported"
      BY <2>3 DEF Assemble, drill
    <3>2. report'.status = RunStatusOf(outcomes) /\ report'.checks = Statuses(outcomes)
      BY <2>3 DEF Assemble
    <3>3. RunStatusOf(outcomes)' = RunStatusOf(outcomes) /\ Statuses(outcomes)' = Statuses(outcomes)
      BY <3>1 DEF RunStatusOf, Statuses, Entries
    <3> QED
      BY <3>1, <3>2, <3>3
  <2>4. CASE /\ UNCHANGED <<scenario, outcomes, result, report>>
             /\ (Reported' => Reported) /\ (pc' = pc \/ pc' \in {"idle", "compared"})
    <3>1. RunStatusOf(outcomes)' = RunStatusOf(outcomes) /\ Statuses(outcomes)' = Statuses(outcomes)
      BY <2>4 DEF RunStatusOf, Statuses, Entries
    <3> QED
      BY <2>4, <3>1
  <2>5. CASE Diff \/ Promote \/ UNCHANGED vars
    BY <2>4, <2>5 DEF Diff, Promote, vars, drill, kept
  <2> QED
    BY <2>1, <2>2, <2>3, <2>5 DEF Next
<1> QED
  BY <1>1, <1>2, Inductive, PTL DEF Spec

\* Every alarm of diff about the same checks has a cause, but for the one that
\* repairing a failed check raises next to a check without an answer
\* (diff.rs:121-130 against aggregate() in status.rs).
THEOREM AlarmCorrect == Spec => []AlarmHasACause
<1>1. IInv /\ AssembledInv => AlarmHasACause
  <2> DEFINE before == knownGood.checks
             after == report.checks
             required == scenario.required
             missed == \E o \in Objectives : knownGood[o] = "PASS" /\ report[o] = "FAIL"
             unhidden == /\ knownGood.status = "FAILED" /\ report.status = "ERROR"
                         /\ \E c, d \in DOMAIN after \cap required :
                              /\ before[c] = "FAILED" /\ after[c] = "PASSED"
                              /\ before[d] \in {"ERROR", "SKIPPED"} /\ after[d] = before[d]
  <2> SUFFICES ASSUME IInv, AssembledInv, pc = "compared", gate = 1,
                      DOMAIN before = DOMAIN after, DOMAIN after # {},
                      knownGood.status = Aggregate(DOMAIN before, required, before),
                      \A c \in DOMAIN after : after[c] = "PASSED" \/ after[c] = before[c],
                      ~missed
               PROVE  unhidden
    BY DEF AlarmHasACause
  <2>1. Regressed(knownGood, report)
    BY DEF IInv, ReportInv
  <2>2. ~RegressedObjective(knownGood, report)
    BY DEF RegressedObjective
  <2>3. ~RegressedCheck(knownGood, report)
    BY DEF RegressedCheck, Compared, Change
  <2>4. Rank[report.status] < Rank[knownGood.status]
    BY <2>1, <2>2, <2>3 DEF Regressed
  <2>5. report.status = Aggregate(DOMAIN after, required, after)
    <3>1. report.status = RunStatusOf(outcomes) /\ after = Statuses(outcomes)
      BY DEF AssembledInv, Reported
    <3>2. outcomes # <<>>
      BY <3>1 DEF Statuses, Entries
    <3> QED
      BY <3>1, <3>2 DEF RunStatusOf, AssembledInv
  <2> HIDE DEF before, after, required
  <2> QED
    BY <2>4, <2>5, OnlyFixed
<1> QED
  BY <1>1, Inductive, Assembled, PTL
=============================================================================
