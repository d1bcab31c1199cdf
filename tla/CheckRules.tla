----------------------------- MODULE CheckRules -----------------------------
(***************************************************************************)
(* config/src/checks.rs and the rules of scenario.rs for the checks file:  *)
(* validate_checks, validate_check_kind, validate_script_permissions.      *)
(*                                                                         *)
(* A check is the record of its fields: the common ones and those of its   *)
(* kind.  An optional field is a set of at most one value.  A name, token  *)
(* or URL is the class its guard (argsafe.rs, http_guard.rs) puts it in.   *)
(***************************************************************************)
EXTENDS ComposeAudit

\* The fields a rule looks at, by the struct they are written in; every other
\* field is free text, or unknown and refused by the parser.
CommonFields == {"id", "enabled", "required", "timeout_seconds", "attempts", "type"}
HttpFields ==
  {"url", "expected_status", "headers", "headers_from_env", "body", "method"}
CommandFields == {"command", "program_path", "args", "workdir", "environment"}
SqlFields ==
  {"dsn_env", "query", "expect_row_count", "min_rows", "max_rows",
   "expect_value", "min_value", "max_value"}
FileFields == {"path", "base", "exists", "min_size_bytes", "max_size_bytes", "sha256"}
ContainerFields == {"service", "state", "expected_exit_code"}
ScriptFields == {"path", "mode", "args", "workdir", "environment"}
DocumentFields == {"readable", "parses", "any", "timeout_seconds", "attempts"}

KindFields ==
  [http |-> HttpFields, command |-> CommandFields, sql |-> SqlFields,
   file |-> FileFields, container |-> ContainerFields, script |-> ScriptFields]

\* A check has the common fields and those of its type, and no other.
CheckShape(check) ==
  /\ check.type \in DOMAIN KindFields
  /\ DOMAIN check = CommonFields \cup KindFields[check.type]
  /\ check.timeout_seconds \subseteq Nat /\ check.attempts \subseteq Nat

\* CheckKind::executes_local_program
Executed(check) == check.type \in {"command", "script"}

\* min and max bounds of one value: each is optional, min may not exceed max.
Crossed(min, max) == \E a \in min, b \in max : a > b

ExistingRefused(raw, allowed) ==
  ~Resolved(ResolveExisting(raw, allowed, "project_only"))

-----------------------------------------------------------------------------
(* The guards.                                                             *)

\* argsafe.rs: an identifier of a Compose project, a check or a drill.
IsIdentifier(name) == name # "Not An Identifier"

\* argsafe.rs: a value for an external tool is not empty, too long, an option
\* or made of control characters.
IsToken(value) == value \notin {"", "-option"}

\* argsafe.rs: the name is a variable, and neither one that steers programs nor
\* one the runner injects itself; the value has no NUL byte.
IsEnvEntry(entry) ==
  entry \notin {"not-a-variable", "PATH", "RESTOREPROOF_X", "value with NUL"}

\* An argument of a program: any text without a NUL byte.
IsArgument(text) == text # "text with NUL"

\* http_guard.rs: the name of a variable a secret is read from.
IsSecretVariable(name) == name # "not-a-variable"

\* http_guard.rs: http or https, no credentials, a host, and a loopback one
\* unless the configuration allows others.
IsUrl(url, security) ==
  \/ url = "loopback"
  \/ url = "external" /\ security.allow_external_http_targets

\* http_guard.rs: a credential is not written in the file.
IsLiteralHeader(header) == header = "plain"

\* sql_guard.rs: one statement, which reads.
IsReadOnly(query) == query = "select"

-----------------------------------------------------------------------------
(* One kind each.                                                          *)

HttpIssues(c, security) ==
  When(~IsUrl(c.url, security), "url")
  \cup When(c.expected_status \notin 100..599, "expected_status")
  \cup When(\E h \in c.headers : ~IsLiteralHeader(h), "headers")
  \cup When(\E v \in c.headers_from_env : ~IsSecretVariable(v), "headers_from_env")
  \cup When(c.body /\ c.method # "POST", "body")

CommandIssues(c) ==
  When(c.command = "" \/ ~IsToken(c.command), "command")
  \cup When(c.command # "" /\ \E p \in c.program_path : ExistingRefused(p, {}),
            "program_path")
  \cup When(\E a \in c.args : ~IsArgument(a), "args")
  \cup When(\E d \in c.workdir : ExistingRefused(d, {}), "workdir")
  \cup When(\E k \in c.environment : ~IsEnvEntry(k), "environment")

SqlIssues(c) ==
  When(~IsSecretVariable(c.dsn_env), "dsn_env")
  \cup When(~IsReadOnly(c.query), "query")
  \cup When(Crossed(c.min_rows, c.max_rows), "min_rows")
  \cup When(Crossed(c.min_value, c.max_value), "min_value")
  \cup When(c.expect_row_count \cup c.min_rows \cup c.max_rows
              \cup c.min_value \cup c.max_value = {} /\ c.expect_value = {},
            "expect_row_count")

FileIssues(c) ==
  When(/\ c.base = "restore"
       /\ c.path.absolute \/ HasParentComponent(c.path), "path")
  \cup When(/\ c.base = "project"
            /\ ~Resolved(ResolveForCreation(c.path, {}, "project_only")), "path")
  \cup When(Crossed(c.min_size_bytes, c.max_size_bytes), "min_size_bytes")
  \cup When("not-a-digest" \in c.sha256, "sha256")
  \cup When(/\ ~c.exists
            /\ c.min_size_bytes \cup c.max_size_bytes # {} \/ c.sha256 # {}, "exists")

\* Mutant of Defined: the list of services is compared although it is unknown.
DefinedEvenIfUnknown(service, services) == service \in services

\* A service is looked up in the audited file only if that has any.
Defined(service, services) == services = {} \/ service \in services

ContainerIssues(c, services) ==
  When(~IsToken(c.service) \/ ~Defined(c.service, services), "service")
  \cup When(c.expected_exit_code # {} /\ c.state # "exited", "expected_exit_code")

ScriptIssues(c) ==
  When(ExistingRefused(c.path, {}), "path")
  \cup When(~ExistingRefused(c.path, {}) /\ c.mode \in {"not_a_file", "world_writable"}, "mode")
  \cup When(\E a \in c.args : ~IsArgument(a), "args")
  \cup When(\E d \in c.workdir : ExistingRefused(d, {}), "workdir")
  \cup When(\E k \in c.environment : ~IsEnvEntry(k), "environment")

\* A check that runs a program is not looked at any further where none may run.
KindIssues(c, security, services) ==
  IF Executed(c) /\ ~security.allow_command_checks THEN {"enabled"}
  ELSE IF c.type = "http" THEN HttpIssues(c, security)
  ELSE IF c.type = "command" THEN CommandIssues(c)
  ELSE IF c.type = "sql" THEN SqlIssues(c)
  ELSE IF c.type = "file" THEN FileIssues(c)
  ELSE IF c.type = "container" THEN ContainerIssues(c, services)
  ELSE ScriptIssues(c)

-----------------------------------------------------------------------------
(* All checks of the document, a sequence of records.                      *)

CommonIssues(c) ==
  When(~IsIdentifier(c.id), "id")
  \cup When(0 \in c.timeout_seconds, "timeout_seconds")
  \cup When(0 \in c.attempts, "attempts")

Duplicate(checks, i) == \E j \in 1..i-1 : checks[j].id = checks[i].id

\* Mutant of CheckIssues: a disabled check is validated like the others.
CheckIssuesOfAll(checks, i, security, services) ==
  CommonIssues(checks[i])
  \cup When(Duplicate(checks, i), "id")
  \cup KindIssues(checks[i], security, services)

\* A disabled check is not asked what it checks.
CheckIssues(checks, i, security, services) ==
  CommonIssues(checks[i])
  \cup When(Duplicate(checks, i), "id")
  \cup (IF checks[i].enabled THEN KindIssues(checks[i], security, services) ELSE {})

\* A document without a check is refused before anything else is looked at.
DefaultIssues(checks_file) ==
  When(checks_file.timeout_seconds = 0, "timeout_seconds")
  \cup When(checks_file.attempts = 0, "attempts")

\* CheckSpec::timeout, CheckSpec::retry_policy: what the check loop is given.
Effective(optional, default) == IF optional = {} THEN default ELSE CHOOSE v \in optional : TRUE
=============================================================================
