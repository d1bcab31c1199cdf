------------------------------ MODULE Scenario ------------------------------
(***************************************************************************)
(* Scenario::from_text() (config/src/scenario.rs), `restoreproof validate` *)
(* and the operator who repairs what a refusal names and tries again.      *)
(*                                                                         *)
(* The configuration is a function from its parts (the configuration file, *)
(* the Compose file, its services, the checks file, the checks, the backup *)
(* section) to a sequence of records.  An issue names part, position and   *)
(* field of what is wrong, which its message says; the `field` it is filed *)
(* under is coarser (all of the audit under recovery.compose_file, a path  *)
(* that take() finds unsafe under `configuration`).  Warnings are left out:*)
(* they change nothing but `--strict`.                                     *)
(***************************************************************************)
EXTENDS CheckRules

CONSTANTS
  Documents,    \* the configurations to begin with
  Sound,        \* per kind of backup, a configuration without a fault
  MaxTimeout,   \* MAX_TIMEOUT, 24 hours
  MaxRounds     \* bound on the attempts of the operator

ASSUME LimitsAssumption == MaxTimeout \in Nat \ {0} /\ MaxRounds \in Nat

VARIABLES
  doc,       \* the configuration as it is on disk
  pc,        \* where from_text() is
  services,  \* compose_audit.services
  issues,    \* the issues collected so far
  resolved,  \* the required values that could be resolved
  outcome,   \* what from_text() has returned
  rounds     \* how many times it has been called

vars == <<doc, pc, services, issues, resolved, outcome, rounds>>

Parts == {"config", "compose", "services", "checks_file", "checks", "backup"}

Required == {"compose_file", "checks_file", "report_dir", "backup"}

\* The fields a rule looks at, by the struct of model.rs they are written in.
RecoveryFields ==
  {"compose_file", "project_name", "startup_timeout", "total_timeout",
   "network_isolated", "wait_for", "environment"}
ReportFields == {"report_directory", "formats"}
SecurityFields ==
  {"allow_command_checks", "allow_external_paths", "allow_external_http_targets",
   "allow_published_ports", "max_command_output_bytes"}
ConfigFields ==
  {"parses", "name", "checks_file", "rpo_reference_file"}
    \cup RecoveryFields \cup ReportFields \cup SecurityFields
BackupFields(kind) ==
  IF kind = "local" THEN {"kind", "path", "metadata_file"}
  ELSE {"kind", "repository", "path", "snapshot", "include_path", "secret_file", "secret_env"}

\* A configuration, as serde has read it: what its parts are made of, which
\* fields a record has, and the numbers and paths among them.
WellFormed(d) ==
  /\ d = [part \in Parts |-> [at \in DOMAIN d[part] |->
            [f \in DOMAIN d[part][at] |-> d[part][at][f]]]]
  /\ \A part \in {"config", "compose", "checks_file", "backup"} : DOMAIN d[part] = {1}
  /\ DOMAIN d["services"] \subseteq Nat \ {0} /\ DOMAIN d["checks"] \subseteq Nat \ {0}
  /\ \A n \in DOMAIN d["checks"] : 1..n \subseteq DOMAIN d["checks"]
  /\ DOMAIN d["config"][1] = ConfigFields
  /\ DOMAIN d["compose"][1] = ComposeFields
  /\ DOMAIN d["checks_file"][1] = DocumentFields
  /\ DOMAIN d["backup"][1] = BackupFields(d["backup"][1].kind)
  /\ \A i \in DOMAIN d["services"] : DOMAIN d["services"][i] = ServiceFields
  /\ \A i \in DOMAIN d["checks"] : CheckShape(d["checks"][i])
  /\ d["checks_file"][1].timeout_seconds \in Nat /\ d["checks_file"][1].attempts \in Nat
  /\ d["config"][1].startup_timeout \in Nat /\ d["config"][1].total_timeout \in Nat
  /\ d["config"][1].allow_external_paths \subseteq RawPaths
  /\ \A f \in {"compose_file", "checks_file", "report_directory"} : d["config"][1][f] \in RawPaths

SoundFor(d) == Sound[d["backup"][1].kind]

ASSUME DocumentsAssumption ==
  \A d \in Documents :
    /\ WellFormed(d) /\ WellFormed(SoundFor(d))
    /\ DOMAIN d["checks"] = DOMAIN SoundFor(d)["checks"]

Issues(part, at, fields) == {<<part, at, f>> : f \in fields}

-----------------------------------------------------------------------------
(* One operator per section of from_text(), over a configuration d.        *)

Raw(d) == d["config"][1]
Allowed(d) == Allowlist(Raw(d).allow_external_paths)

\* RawConfig::from_yaml and PathPolicy::new: one fault, and nothing else is read.
Unusable(d) ==
  IF ~Raw(d).parses THEN Issues("config", 1, {"parses"})
  ELSE IF ~AllowlistUsable(Raw(d).allow_external_paths)
       THEN Issues("config", 1, {"allow_external_paths"})
       ELSE {}

\* validate_timeouts
TimeoutFields(c) ==
  When(c.startup_timeout \notin 1..MaxTimeout, "startup_timeout")
  \cup When(c.total_timeout \notin 1..MaxTimeout, "total_timeout")
  \cup When(c.total_timeout < c.startup_timeout, "total_timeout")

Repeated(seq) == \E i, j \in 1..Len(seq) : i < j /\ seq[i] = seq[j]

GeneralIssues(d) ==
  LET c == Raw(d)
  IN Issues("config", 1,
       When(~IsIdentifier(c.name), "name")
       \cup When(\E n \in c.project_name : ~IsIdentifier(n), "project_name")
       \cup TimeoutFields(c)
       \cup When(\E k \in c.environment : ~IsEnvEntry(k), "environment")
       \cup When(c.formats = <<>> \/ Repeated(c.formats), "formats")
       \cup When(c.max_command_output_bytes = 0, "max_command_output_bytes"))

File(d, raw, confinement) == ResolveExisting(raw, Allowed(d), confinement)

ComposeFile(d) == File(d, Raw(d).compose_file, "project_only")
ComposeAudited(d) ==
  Resolved(ComposeFile(d)) /\ d["compose"][1].readable /\ d["compose"][1].parses

\* The services the audit has found; none if there was no audit.
AuditedServices(d) == IF ComposeAudited(d) THEN ServicesOf(d["compose"][1]) ELSE {}

ServiceIssues(d) ==
  UNION {Issues("services", i, ServiceErrors(d["services"][i], dir, Raw(d), Allowed(d))) :
           dir \in {Front(ComposeFile(d))},
           i \in {n \in DOMAIN d["services"] : d["services"][n].name \in AuditedServices(d)}}

\* Mutant of ComposeIssues: the audit returns where it finds an include.
ComposeIssuesOrInclude(d) ==
  LET c == d["compose"][1]
  IN IF ~Resolved(ComposeFile(d)) THEN Issues("config", 1, {"compose_file"})
     ELSE IF ~c.readable THEN Issues("compose", 1, {"readable"})
     ELSE IF ~c.parses THEN Issues("compose", 1, {"parses"})
     ELSE IF c.include THEN Issues("compose", 1, {"include"})
     ELSE Issues("compose", 1, TopLevelErrors(c, Raw(d).network_isolated))
          \cup ServiceIssues(d)

\* Mutant of ComposeIssues: the audit says nothing about a file without services.
ComposeIssuesServicesOptional(d) ==
  LET c == d["compose"][1]
  IN IF ~Resolved(ComposeFile(d)) THEN Issues("config", 1, {"compose_file"})
     ELSE IF ~c.readable THEN Issues("compose", 1, {"readable"})
     ELSE IF ~c.parses THEN Issues("compose", 1, {"parses"})
     ELSE Issues("compose", 1, TopLevelErrors(c, Raw(d).network_isolated) \ {"has_services"})
          \cup ServiceIssues(d)

ComposeIssues(d) ==
  LET c == d["compose"][1]
  IN IF ~Resolved(ComposeFile(d)) THEN Issues("config", 1, {"compose_file"})
     ELSE IF ~c.readable THEN Issues("compose", 1, {"readable"})
     ELSE IF ~c.parses THEN Issues("compose", 1, {"parses"})
     ELSE Issues("compose", 1, TopLevelErrors(c, Raw(d).network_isolated))
          \cup ServiceIssues(d)

WaitForIssues(d) ==
  Issues("config", 1,
    When(\E s \in Raw(d).wait_for : ~Defined(s, AuditedServices(d)), "wait_for"))

ChecksFile(d) == File(d, Raw(d).checks_file, "project_only")

ChecksIssues(d) ==
  LET c == d["checks_file"][1]
  IN IF ~Resolved(ChecksFile(d)) THEN Issues("config", 1, {"checks_file"})
     ELSE IF ~c.readable THEN Issues("checks_file", 1, {"readable"})
     ELSE IF ~c.parses THEN Issues("checks_file", 1, {"parses"})
     ELSE IF ~c.any THEN Issues("checks_file", 1, {"any"})
     ELSE Issues("checks_file", 1, DefaultIssues(c))
          \cup UNION {Issues("checks", i, CheckIssues(d["checks"], i, Raw(d), AuditedServices(d))) :
                        i \in DOMAIN d["checks"]}

ReportDir(d) ==
  ResolveForCreation(Raw(d).report_directory, Allowed(d), "project_or_allowlisted")

DataRefused(d, raw) == ~Resolved(File(d, raw, "project_or_allowlisted"))

\* Mutant of DirectoryIssues: only what is configured is reported.
DirectoryIssuesOfReference(d) ==
  Issues("config", 1,
    When(\E p \in Raw(d).rpo_reference_file : DataRefused(d, p), "rpo_reference_file"))

DirectoryIssues(d) ==
  Issues("config", 1,
    When(~Resolved(ReportDir(d)), "report_directory")
    \cup When(\E p \in Raw(d).rpo_reference_file : DataRefused(d, p), "rpo_reference_file"))

-----------------------------------------------------------------------------
(* resolve_backup: each `?` returns before the rest is looked at.          *)

LocalFields(d, b) ==
  IF DataRefused(d, b.path) THEN {"path"}
  ELSE When(\E p \in b.metadata_file : DataRefused(d, p), "metadata_file")

\* resolve_repository: a remote one is left to the tool.
RepositoryRefused(d, b) ==
  ~IsToken(b.repository) \/ (b.repository = "local" /\ DataRefused(d, b.path))

\* resolve_secret_source: a file or a variable, not both; neither is a warning.
SecretFields(d, b) ==
  IF b.secret_file # {} /\ b.secret_env # {} THEN {"secret_env"}
  ELSE When(\E p \in b.secret_file : DataRefused(d, p), "secret_file")
       \cup When(\E v \in b.secret_env : ~IsSecretVariable(v), "secret_env")

\* The snapshot of restic and the archive of borg; borg has no include_path.
ToolFields(d, b) ==
  When(~IsToken(b.snapshot), "snapshot")
  \cup When(b.kind = "restic" /\ \E p \in b.include_path : ~IsToken(p), "include_path")
  \cup (IF ~IsToken(b.repository) THEN {"repository"}
        ELSE IF RepositoryRefused(d, b) THEN {"path"}
        ELSE SecretFields(d, b))

BackupIssues(d) ==
  LET b == d["backup"][1]
  IN Issues("backup", 1, IF b.kind = "local" THEN LocalFields(d, b) ELSE ToolFields(d, b))

\* Whether resolve_backup returns a value: a refused secret does not matter here.
BackupResolved(d) ==
  LET b == d["backup"][1]
  IN IF b.kind = "local" THEN LocalFields(d, b) = {} ELSE ~RepositoryRefused(d, b)

\* All that one call of from_text() reports.
Pass(d) ==
  IF Unusable(d) # {} THEN Unusable(d)
  ELSE GeneralIssues(d) \cup ComposeIssues(d) \cup WaitForIssues(d)
       \cup ChecksIssues(d) \cup DirectoryIssues(d) \cup BackupIssues(d)

-----------------------------------------------------------------------------
TypeOK ==
  /\ WellFormed(doc)
  /\ pc \in {"load", "compose", "checks", "backup", "decide", "done"}
  /\ \A i \in issues : i[2] \in DOMAIN doc[i[1]] /\ i[3] \in DOMAIN doc[i[1]][i[2]]
  /\ services \subseteq doc["compose"][1].services
  /\ resolved \subseteq Required
  /\ outcome \in {"none", "scenario", "refused", "unresolved"}
  /\ rounds \in 1..MaxRounds+1

Init ==
  /\ doc \in Documents
  /\ pc = "load"
  /\ services = {} /\ issues = {} /\ resolved = {}
  /\ outcome = "none"
  /\ rounds = 1

Resolves(condition, value) == resolved' = resolved \cup When(condition, value)

LoadConfig ==
  /\ pc = "load"
  /\ \/ /\ Unusable(doc) # {}
        /\ issues' = Unusable(doc)
        /\ pc' = "done" /\ outcome' = "refused"
     \/ /\ Unusable(doc) = {}
        /\ issues' = GeneralIssues(doc)
        /\ pc' = "compose" /\ UNCHANGED outcome
  /\ UNCHANGED <<doc, services, resolved, rounds>>

AuditCompose ==
  /\ pc = "compose" /\ pc' = "checks"
  /\ services' = AuditedServices(doc)
  /\ issues' = issues \cup ComposeIssues(doc) \cup WaitForIssues(doc)
  /\ Resolves(Resolved(ComposeFile(doc)), "compose_file")
  /\ UNCHANGED <<doc, outcome, rounds>>

ValidateChecks ==
  /\ pc = "checks" /\ pc' = "backup"
  /\ issues' = issues \cup ChecksIssues(doc)
  /\ Resolves(Resolved(ChecksFile(doc)), "checks_file")
  /\ UNCHANGED <<doc, services, outcome, rounds>>

ResolveBackup ==
  /\ pc = "backup" /\ pc' = "decide"
  /\ issues' = issues \cup DirectoryIssues(doc) \cup BackupIssues(doc)
  /\ resolved' = resolved \cup When(Resolved(ReportDir(doc)), "report_dir")
                          \cup When(BackupResolved(doc), "backup")
  /\ UNCHANGED <<doc, services, outcome, rounds>>

Decide ==
  /\ pc = "decide" /\ pc' = "done"
  /\ outcome' = IF issues # {} THEN "refused"
                ELSE IF resolved = Required THEN "scenario" ELSE "unresolved"
  /\ UNCHANGED <<doc, services, issues, resolved, rounds>>

\* A check that may not run is disabled, any other field that an issue names
\* gets a value that is right.
Repaired(d, i) ==
  IF i[3] = "enabled" THEN FALSE ELSE SoundFor(d)[i[1]][i[2]][i[3]]

WithRepairs(d, S) ==
  [part \in DOMAIN d |-> [at \in DOMAIN d[part] |-> [f \in DOMAIN d[part][at] |->
     IF <<part, at, f>> \in S THEN Repaired(d, <<part, at, f>>) ELSE d[part][at][f]]]]

\* What the operator writes has no fault of its own, even if no external path is
\* allowed, and none next to what is left of d: the time limits fit into each
\* other, wait_for names services, an id is not that of another check.
RepairsFit(d) ==
  LET c == Raw(d)
      s == Raw(SoundFor(d))
      id(i) == d["checks"][i].id
      soundId(i) == SoundFor(d)["checks"][i].id
  IN /\ GeneralIssues(SoundFor(d)) = {}
     /\ \A raw \in {s.compose_file, s.checks_file} :
          Resolved(ResolveExisting(raw, {}, "project_only"))
     /\ Resolved(ResolveForCreation(s.report_directory, {}, "project_or_allowlisted"))
     /\ \A raw \in s.rpo_reference_file :
          Resolved(ResolveExisting(raw, {}, "project_or_allowlisted"))
     /\ c.startup_timeout \in 1..MaxTimeout => c.startup_timeout <= s.total_timeout
     /\ c.total_timeout \in 1..MaxTimeout => s.startup_timeout <= c.total_timeout
     /\ \A x \in {d, SoundFor(d)} :
          x["compose"][1].services = {} \/ s.wait_for \subseteq x["compose"][1].services
     /\ \A i, j \in DOMAIN d["checks"] : i # j =>
          /\ soundId(i) # soundId(j)
          /\ id(i) = soundId(j) => id(j) = soundId(j)

ASSUME RepairsAssumption == \A d \in Documents : RepairsFit(d)

\* The operator repairs all that the refusal names, and tries again.
Repair ==
  /\ outcome = "refused" /\ rounds <= MaxRounds
  /\ doc' = WithRepairs(doc, issues)
  /\ pc' = "load"
  /\ services' = {} /\ issues' = {} /\ resolved' = {}
  /\ outcome' = "none"
  /\ rounds' = rounds + 1

Terminated ==
  /\ pc = "done" /\ (outcome # "refused" \/ rounds > MaxRounds)
  /\ UNCHANGED vars

FromText == LoadConfig \/ AuditCompose \/ ValidateChecks \/ ResolveBackup \/ Decide

Next == FromText \/ Repair \/ Terminated

Spec == Init /\ [][Next]_vars

-----------------------------------------------------------------------------
(* Properties.                                                             *)

InProject(p) == Under(p, Project)
InArea(p) == InProject(p) \/ \E dir \in Allowed(doc) : Under(p, dir)

EnabledChecks == {doc["checks"][i] : i \in {n \in DOMAIN doc["checks"] : doc["checks"][n].enabled}}

\* What the rest of the program takes for granted of a Scenario holds of every
\* configuration that is accepted, although some rules are skipped when another
\* section is broken and others return early (scenario.rs:1-11): everything is
\* resolved and inside its area, wait_for and the container checks name services
\* that exist, ids are unique, time limits are positive and fit into each other,
\* nothing runs that may not, and the secret has one source.  What is not
\* accepted is refused for a reason: "could not be resolved" is never the answer.
ScenarioIsSound ==
  /\ outcome # "unresolved"
  /\ outcome = "scenario" =>
    /\ resolved = Required /\ services # {}
    /\ InProject(ComposeFile(doc)) /\ InProject(ChecksFile(doc)) /\ InArea(ReportDir(doc))
    /\ Raw(doc).wait_for \subseteq services
    /\ Raw(doc).startup_timeout \in 1..Raw(doc).total_timeout
    /\ Raw(doc).total_timeout <= MaxTimeout
    /\ \A c \in EnabledChecks :
         /\ c.type = "container" => c.service \in services
         /\ Executed(c) => Raw(doc).allow_command_checks
         /\ Effective(c.timeout_seconds, doc["checks_file"][1].timeout_seconds) > 0
         /\ Effective(c.attempts, doc["checks_file"][1].attempts) > 0
    /\ \A i, j \in DOMAIN doc["checks"] : i # j => doc["checks"][i].id # doc["checks"][j].id
    /\ doc["backup"][1].kind # "local" =>
         doc["backup"][1].secret_file = {} \/ doc["backup"][1].secret_env = {}

\* An issue is about the part it names: it would still be reported if what is
\* reported of the other parts were repaired.  A rule that looks at two parts
\* does not accuse one of what the other lacks.
NoFalseAlarm ==
  (outcome = "refused" /\ Unusable(doc) = {}) =>
    \A i \in issues : i \in Pass(WithRepairs(doc, {j \in issues : j[1] # i[1]}))

\* Repairing what is reported, and only that, leads to a scenario: after
\* MaxRounds repairs nothing is left to refuse.
RepairEnds == rounds > MaxRounds => outcome # "refused"

\* What leaves the Compose file unread, what leaves no service in it, and what leaves
\* no checks.
NoCompose ==
  {<<"config", 1, "compose_file">>, <<"compose", 1, "readable">>, <<"compose", 1, "parses">>}
NoServices ==
  NoCompose \cup {<<"compose", 1, "has_services">>, <<"compose", 1, "services">>}
NoChecks ==
  {<<"config", 1, "checks_file">>, <<"checks_file", 1, "readable">>,
   <<"checks_file", 1, "parses">>, <<"checks_file", 1, "any">>}

\* Of one record: the field that is refused, and one that is not looked at then.
LooksNoFurther ==
  {<<"has_services", "names_are_strings">>, <<"has_services", "services">>,
   <<"names_are_strings", "services">>,
   <<"command", "program_path">>, <<"path", "mode">>,
   <<"path", "metadata_file">>, <<"repository", "path">>, <<"secret_env", "secret_file">>}
  \cup {"repository", "path"} \X {"secret_file", "secret_env"}

\* What an issue may hide: what depends on it alone, of its record; the Compose file
\* and its services, or the references to them; the checks file and its checks.  And
\* it may be there again, if the value that replaces it is no better.
MayHide(i, j) ==
  \/ i = j
  \/ i[1] = j[1] /\ i[2] = j[2] /\ <<i[3], j[3]>> \in LooksNoFurther
  \/ i \in NoCompose /\ j[1] = "compose"
  \/ i \in NoServices /\ (j[1] = "services" \/ j[3] \in {"wait_for", "service"})
  \/ i \in NoChecks /\ j[1] \in {"checks_file", "checks"}

\* Whatever else is wrong is reported at once (scenario.rs:14-15): what the
\* next attempt reports was hidden by an issue that may hide it.
HidesOnlyItsOwn ==
  (outcome = "refused" /\ Unusable(doc) = {}) =>
    \A j \in Pass(WithRepairs(doc, issues)) : \E i \in issues : MayHide(i, j)

=============================================================================
