----------------------------- MODULE CheckKinds -----------------------------
(***************************************************************************)
(* One evaluation of a check of each kind (checks/src): what the executors *)
(* read, in which order, and what they conclude.  The recovered            *)
(* environment goes on living while they read.  CheckExecutor is the loop  *)
(* around it: attempts, time limits, the order of the checks.              *)
(*                                                                         *)
(* The world is the record of what a kind can observe.  An optional value  *)
(* is a set of at most one.  A needle is the place where the expected text *)
(* ends in an output, 0 if it does not occur.                              *)
(***************************************************************************)
EXTENDS Integers

CONSTANTS
  Cases,       \* the checks with their context: records [check, context]
  Worlds,      \* per kind of check, what the environment may look like
  NaN,         \* the float that is no number
  OutputCap,   \* MAX_BODY_BYTES, security.max_command_output_bytes
  MaxChanges   \* bound on the changes of the environment during one evaluation

ASSUME BoundsAssumption == OutputCap \in Nat /\ MaxChanges \in Nat
ASSUME NaNAssumption == NaN \notin Int
ASSUME KindsAssumption ==
  \A c \in Cases : c.check.type \in {"http", "command", "sql", "file", "container", "script"}

\* The types of checks.yaml, as far as they matter, and of what is observed.
ASSUME CheckAssumption ==
  \A c \in {k.check : k \in Cases} :
    /\ c.type = "file" =>
         /\ c.exists \in BOOLEAN /\ c.min_size_bytes \cup c.max_size_bytes \subseteq Nat
         /\ \A a, b \in c.sha256 : a = b
    /\ c.type = "container" => c.state \in {"running", "healthy", "exited"}
    /\ c.type = "sql" =>
         c.expect_row_count \cup c.min_rows \cup c.max_rows \cup c.min_value \cup c.max_value \subseteq Int
    /\ c.type \in {"command", "script"} => c.expected_exit_code # {}

ASSUME WorldAssumption ==
  /\ \A w \in Worlds["file"] : w.size \in Nat /\ w.file \in {"absent", "outside", "directory", "file"}
  /\ \A w \in Worlds["sql"] : w.rows \in Nat /\ w.number \subseteq Int \cup {NaN}
  /\ \A w \in Worlds["http"] : w.redirect \in {"none", "loopback", "elsewhere", "loop"}
  /\ \A k \in {"container", "command", "script"} : \A w \in Worlds[k] : \A a, b \in w.exit_code : a = b

VARIABLES
  case,     \* the check and its context: never changes
  world,    \* the environment as it is now
  pc,       \* what is read next
  verdict,  \* the CheckEvaluation
  final,    \* whether it is a final_answer()
  changes,  \* how often the environment has changed
  seen      \* every world there has been since the evaluation began

vars == <<case, world, pc, verdict, final, changes, seen>>

check == case.check
context == case.context

Steps == {"resolve", "stat", "hash", "observe", "port", "connect",
          "dsn", "login", "query", "send", "body", "prepare", "run", "done"}

TypeOK ==
  /\ case \in Cases
  /\ world \in Worlds[check.type]
  /\ pc \in Steps
  /\ verdict \in {"none", "passed", "failed", "error", "skipped"}
  /\ (pc = "done") <=> (verdict # "none")
  /\ final => verdict = "failed"
  /\ changes \in 0..MaxChanges
  /\ world \in seen /\ seen \subseteq Worlds[check.type]

FirstStep ==
  [http |-> "send", command |-> "prepare", script |-> "prepare", sql |-> "dsn",
   file |-> "resolve", container |-> "observe"]

Init ==
  /\ case \in Cases
  /\ world \in Worlds[check.type]
  /\ pc = FirstStep[check.type]
  /\ verdict = "none" /\ final = FALSE
  /\ changes = 0
  /\ seen = {world}

Conclude(v) ==
  /\ pc' = "done" /\ verdict' = v
  /\ UNCHANGED <<case, world, final, changes, seen>>

ConcludeFinally ==
  /\ pc' = "done" /\ verdict' = "failed" /\ final' = TRUE
  /\ UNCHANGED <<case, world, changes, seen>>

Continue(step) ==
  /\ pc' = step
  /\ UNCHANGED <<case, world, verdict, final, changes, seen>>

PassOrFail(condition) == Conclude(IF condition THEN "passed" ELSE "failed")

-----------------------------------------------------------------------------
(* file.rs                                                                 *)

\* confine(): a path that leads out of the directory counts as missing.
Confined == world.file \in {"file", "directory"}

ResolveFile ==
  /\ pc = "resolve"
  /\ \/ ~Confined /\ PassOrFail(~check.exists)
     \/ Confined /\ ~check.exists /\ Conclude("failed")
     \/ Confined /\ check.exists /\ Continue("stat")

SizeFits ==
  /\ \A min \in check.min_size_bytes : world.size >= min
  /\ \A max \in check.max_size_bytes : world.size <= max

\* Mutant of StatFile: a digest makes the size irrelevant.
StatFileOrHash ==
  /\ pc = "stat"
  /\ \/ world.file = "absent" /\ Conclude("error")
     \/ world.file # "absent" /\ check.sha256 # {} /\ Continue("hash")
     \/ /\ world.file # "absent" /\ check.sha256 = {}
        /\ PassOrFail(world.file # "directory" /\ SizeFits)

\* The resolved path is canonical and not resolved again: it may be gone.
StatFile ==
  /\ pc = "stat"
  /\ \/ world.file = "absent" /\ Conclude("error")
     \/ /\ world.file # "absent"
        /\ world.file = "directory" \/ ~SizeFits
        /\ Conclude("failed")
     \/ /\ world.file \in {"file", "outside"} /\ SizeFits
        /\ IF check.sha256 = {} THEN Conclude("passed") ELSE Continue("hash")

HashFile ==
  /\ pc = "hash"
  /\ \/ (world.file \in {"absent", "directory"} \/ ~world.readable) /\ Conclude("error")
     \/ /\ world.file \in {"file", "outside"} /\ world.readable
        /\ IF world.digest \in check.sha256 THEN Conclude("passed") ELSE ConcludeFinally

-----------------------------------------------------------------------------
(* container.rs                                                            *)

StateFits ==
  \/ check.state = "running" /\ world.state = "running"
  \/ check.state = "healthy" /\ world.state = "running" /\ world.health = {"healthy"}
  \/ check.state = "exited" /\ world.state = "exited"

Observe ==
  /\ pc = "observe"
  /\ \/ ~context.probe /\ Conclude("skipped")
     \/ context.probe /\ world.docker = "unavailable" /\ Conclude("error")
     \/ /\ context.probe /\ world.docker = "answers"
        /\ \/ (~world.listed \/ ~StateFits) /\ Conclude("failed")
           \/ /\ world.listed /\ StateFits
              /\ IF check.expected_exit_code # {} /\ world.exit_code = {} THEN Conclude("error")
                 ELSE IF check.expected_exit_code # {} /\ world.exit_code # check.expected_exit_code
                      THEN Conclude("failed")
                      ELSE IF check.port THEN Continue("port") ELSE Conclude("passed")

PublishedPort ==
  /\ pc = "port"
  /\ \/ world.docker = "unavailable" /\ Conclude("error")
     \/ /\ world.docker = "answers"
        /\ IF world.published THEN Continue("connect") ELSE Conclude("failed")

\* Mutant of Connect: a port that refuses the connection is an ERROR.
ConnectOrError ==
  /\ pc = "connect"
  /\ Conclude(IF world.reachable THEN "passed" ELSE "error")

Connect ==
  /\ pc = "connect"
  /\ PassOrFail(world.reachable)

-----------------------------------------------------------------------------
(* sql.rs                                                                  *)

\* The connection string is a secret; it must lead to loopback.
ReadDsn ==
  /\ pc = "dsn"
  /\ IF \/ context.dsn = {}
        \/ ~context.allow_external_sql_targets /\ context.dsn # {"loopback"}
     THEN Conclude("error") ELSE Continue("login")

\* evaluate(): the complaints about the rows; the value is that of the first, its
\* number what as_number() makes of it: above 2^53 an integer has been rounded to
\* the nearest double, here and in Meets.  NaN is neither below one bound nor above
\* the other.
Complaints ==
  {a \in {"expect_row_count", "min_rows", "max_rows"} :
     \/ a = "expect_row_count" /\ \E n \in check.expect_row_count : world.rows # n
     \/ a = "min_rows" /\ \E n \in check.min_rows : world.rows < n
     \/ a = "max_rows" /\ \E n \in check.max_rows : world.rows > n}
  \cup
  {a \in {"expect_value", "min_value", "max_value"} :
     \/ check[a] # {} /\ world.rows = 0
     \/ a = "expect_value" /\ \E v \in check.expect_value : world.text # v
     \/ a # "expect_value" /\ check[a] # {} /\ world.number = {}
     \/ a = "min_value" /\ \E v \in check.min_value, n \in world.number \ {NaN} : n < v
     \/ a = "max_value" /\ \E v \in check.max_value, n \in world.number \ {NaN} : n > v}

\* PgConnection::connect.  A server that is starting, or has no connection left,
\* says so with a database error, like one that refuses a statement: the retries
\* end, although the next one might succeed.
OpenDatabase ==
  /\ pc = "login"
  /\ \/ world.database = "starting" /\ ConcludeFinally
     \/ world.database = "unreachable" /\ Conclude("failed")
     \/ world.database \in {"answers", "rejects"} /\ Continue("query")

\* One read-only transaction, always rolled back.  A server that is started again
\* under it may still send its reason or just close the connection.
Query ==
  /\ pc = "query"
  /\ \/ world.database \in {"rejects", "starting"} /\ ConcludeFinally
     \/ world.database \in {"unreachable", "starting"} /\ Conclude("failed")
     \/ world.database = "answers" /\ PassOrFail(Complaints = {})

-----------------------------------------------------------------------------
(* http.rs                                                                 *)

\* A redirect is followed if the check wants it and it stays on loopback or may
\* leave; one that is not followed is the answer itself.
Follows ==
  /\ check.follow_redirects
  /\ world.redirect = "loopback" \/ context.allow_external_http_targets
StatusSeen == IF world.redirect = "none" \/ Follows THEN world.status ELSE 302

\* Any other status fails the check; its body is read for the details only.
Send ==
  /\ pc = "send"
  /\ \/ ~context.header_secrets /\ Conclude("error")
     \/ /\ context.header_secrets
        /\ IF /\ world.reachable
              /\ ~(check.follow_redirects /\ world.redirect = "loop")
              /\ StatusSeen = check.expected_status
           THEN Continue("body") ELSE Conclude("failed")

\* Mutant of Contains: the needle may lie behind the cap.
ContainsAnywhere(needle, breaks) == needle # 0

\* What an output of which `breaks` bytes arrive is searched for.
Contains(needle, breaks) == needle \in 1..OutputCap /\ needle <= breaks

ReadBody ==
  /\ pc = "body"
  /\ PassOrFail(check.expect_output => Contains(world.needle, world.breaks))

-----------------------------------------------------------------------------
(* script.rs, command.rs, program.rs                                       *)

Prepare ==
  /\ pc = "prepare"
  /\ \/ /\ check.type = "script"
        /\ world.program \in {"missing", "outside", "world_writable", "not_executable"}
        /\ Conclude("error")
     \/ /\ check.type = "script" => world.program = "fine"
        /\ IF context.allow_command_checks THEN Continue("run") ELSE Conclude("skipped")

RunProgram ==
  /\ pc = "run"
  /\ \/ world.program \in {"missing", "not_executable"} /\ Conclude("error")
     \/ /\ world.program \notin {"missing", "not_executable"}
        /\ PassOrFail(/\ world.exit_code = check.expected_exit_code
                      /\ check.expect_output => Contains(world.needle, world.breaks))

-----------------------------------------------------------------------------
\* Services start, stop and answer, files and programs come and go.
Change ==
  /\ pc # "done" /\ changes < MaxChanges
  /\ \E w \in Worlds[check.type] \ {world} : world' = w /\ seen' = seen \cup {w}
  /\ changes' = changes + 1
  /\ UNCHANGED <<case, pc, verdict, final>>

Terminated == pc = "done" /\ UNCHANGED vars

Evaluate ==
  \/ ResolveFile \/ StatFile \/ HashFile
  \/ Observe \/ PublishedPort \/ Connect
  \/ ReadDsn \/ OpenDatabase \/ Query
  \/ Send \/ ReadBody
  \/ Prepare \/ RunProgram

Next == Evaluate \/ Change \/ Terminated

Spec == Init /\ [][Next]_vars

-----------------------------------------------------------------------------
(* What the documentation of the checks promises, apart from how it is     *)
(* found out: the demands a check makes, and whether a world meets them.   *)

Demands ==
  [file |-> {"exists", "regular", "size", "digest"},
   container |-> {"state", "exit_code", "published", "reachable"},
   sql |-> {"rows", "value"},
   http |-> {"status", "output"},
   command |-> {"exit_code", "output"},
   script |-> {"exit_code", "output"}][check.type]

\* A redirect counts for what it leads to where the check may follow it.
FollowsIn(w) ==
  /\ check.follow_redirects
  /\ context.allow_external_http_targets \/ w.redirect # "elsewhere"

Between(n, min, max) == (\A a \in min : a <= n) /\ (\A b \in max : n <= b)

Meets(demand, w) ==
  /\ demand = "exists" => check.exists = (w.file \in {"file", "directory"})
  /\ demand = "regular" => (check.exists => w.file \in {"file", "outside"})
  /\ demand = "size" =>
       (check.exists => Between(w.size, check.min_size_bytes, check.max_size_bytes))
  /\ demand = "digest" => (check.exists => check.sha256 \subseteq {w.digest})
  /\ demand = "state" =>
       /\ w.listed
       /\ w.state = (IF check.state = "exited" THEN "exited" ELSE "running")
       /\ check.state = "healthy" => w.health = {"healthy"}
  /\ demand = "exit_code" => check.expected_exit_code \subseteq w.exit_code
  /\ demand = "published" => (check.port => w.published)
  /\ demand = "reachable" => (check.port => w.reachable)
  /\ demand = "rows" =>
       /\ check.expect_row_count \subseteq {w.rows}
       /\ Between(w.rows, check.min_rows, check.max_rows)
  /\ demand = "value" =>
       (check.expect_value # {} \/ check.min_value \cup check.max_value # {} =>
          /\ w.rows > 0 /\ check.expect_value \subseteq {w.text}
          /\ check.min_value \cup check.max_value # {} =>
               /\ w.number # {}
               /\ \A n \in w.number : n # NaN /\ Between(n, check.min_value, check.max_value))
  /\ demand = "status" =>
       check.expected_status = (IF w.redirect = "none" \/ FollowsIn(w) THEN w.status ELSE 302)
  /\ demand = "output" =>
       (check.expect_output => w.needle \in 1..OutputCap /\ w.needle <= w.breaks)

\* The one value that the numeric bounds of a query do not catch (sql.rs:245-257).
Ordered == check.type = "sql" => \A w \in seen : NaN \notin w.number

\* A passed check is backed by what the environment showed: every demand was met
\* while the check looked at it, although it looks at one thing after the other
\* and the environment may change in between (the kinds' execute()).
PassedIsBacked ==
  (verdict = "passed" /\ Ordered) => \A d \in Demands : \E w \in seen : Meets(d, w)

\* What RestoreProof itself lacks in a world to reach a verdict.
Skips ==
  \/ check.type = "container" /\ ~context.probe
  \/ check.type \in {"command", "script"} /\ ~context.allow_command_checks

MeansMissing(w) ==
  \/ /\ check.type = "file" /\ check.exists /\ check.sha256 # {} /\ ~w.readable
     /\ \A d \in {"exists", "regular", "size"} : Meets(d, w)
  \/ /\ check.type = "container"
     /\ \/ w.docker = "unavailable"
        \/ Meets("state", w) /\ check.expected_exit_code # {} /\ w.exit_code = {}
  \/ /\ check.type = "sql"
     /\ context.dsn = {} \/ (context.dsn # {"loopback"} /\ ~context.allow_external_sql_targets)
  \/ check.type = "http" /\ ~context.header_secrets
  \/ check.type = "command" /\ w.program \in {"missing", "not_executable"}
  \/ check.type = "script" /\ w.program # "fine"

Answered(w) == check.type = "sql" => w.database = "answers"
Reached(w) ==
  check.type = "http" => w.reachable /\ ~(check.follow_redirects /\ w.redirect = "loop")

\* In an environment that holds still the verdict is the right one: ERROR if
\* and only if the means to find out are missing, PASSED if and only if every
\* demand is met, and FAILED otherwise (CheckEvaluation, executor.rs:13-29).
QuietWorldIsJudgedRight ==
  (pc = "done" /\ changes = 0 /\ Ordered) =>
    LET w == world
        means == ~MeansMissing(w)
    IN verdict = IF Skips /\ (check.type = "script" => means) THEN "skipped"
                 ELSE IF ~means THEN "error"
                 ELSE IF Answered(w) /\ Reached(w) /\ \A d \in Demands : Meets(d, w)
                      THEN "passed" ELSE "failed"

\* Where the environment falls short of what the check demands.
FellShort(w) == ~Answered(w) \/ ~Reached(w) \/ \E d \in Demands : ~Meets(d, w)

\* A file that is another, or not there, when it is looked at again.
Vanished ==
  \E v, w \in seen : v.file \in {"file", "directory"} /\ w.file # v.file

\* Why RestoreProof may not have found out.
CannotTell ==
  \/ \E w \in seen : MeansMissing(w)
  \/ /\ check.type = "file" /\ check.exists
     /\ Vanished \/ (check.sha256 # {} /\ \E w \in seen : ~w.readable)

\* The blame is on the right side, however the environment changes between the
\* looks: FAILED only if it fell short at some moment of the evaluation, ERROR only
\* if RestoreProof lacked the means, or what it looked at was gone when it looked
\* again; a service that is down is never an ERROR (executor.rs:56-58).
BlameIsBacked ==
  /\ verdict = "failed" => \E w \in seen : FellShort(w)
  /\ verdict = "error" => CannotTell
=============================================================================
