--------------------------- MODULE RecoveryDrill ---------------------------
(***************************************************************************)
(* One `restoreproof run` or `restoreproof check` process: the drill       *)
(* future (runner/src/runner.rs), the recovery environment it owns         *)
(* (runner/src/environment.rs), the process-wide registry of live          *)
(* environments (runner/src/cleanup.rs), the task that watches for SIGINT  *)
(* and SIGTERM (cli/src/main.rs), and the `docker compose` children all of *)
(* them start.                                                             *)
(*                                                                         *)
(* The drill is one control flow; pc is the point it has reached.  It can  *)
(* be cancelled by the total budget at an `.await` only, and then the      *)
(* destructors of its locals run: the environment before the workspace.    *)
(* The watcher runs in parallel on another worker of the runtime, and may  *)
(* end the process without running any destructor.  A child outlives the   *)
(* process that started it, unless it was killed.                          *)
(***************************************************************************)
EXTENDS Verdict, FiniteSets

CONSTANTS
  N,        \* number of checks in checks.yaml, run in order 1, 2, ..., N
  Required  \* the checks marked `required: true`

ASSUME NAssumption == N \in Nat \ {0}
ASSUME RequiredAssumption == Required \subseteq 1..N

Checks == 1..N

\* The restore of a local directory is a copy on a blocking thread of the
\* runtime; that of restic or borg is a child process.
Sources == {"local", "tool"}

Options == [mode : {"Full", "ChecksOnly"}, dryRun : BOOLEAN, keep : BOOLEAN,
            noCleanup : BOOLEAN, recoveryCleanup : BOOLEAN, source : Sources]

Downs == {"down", "drop", "watcherDown"}
Children == {"up"} \cup Downs
ChildStates == {"idle", "running", "acted", "ok", "failed", "killed"}

VARIABLES
  opts,        \* the command line and the scenario: never changes
  pc,          \* where the drill is
  result,      \* the Result of the drill future, "none" until it has one
  env,         \* the RecoveryEnvironment value, as its drop guard sees it
  registered,  \* whether the project is in the registry
  watcher,     \* the signal-watching task
  child,       \* the docker children that change containers
  containers,  \* the project in the Docker daemon
  workspace,   \* the working directory of the run
  copier,      \* the copy thread, or the restic or borg child
  hasher,      \* threads of file checks that hash, their attempt abandoned
  next,        \* the check to run next
  status,      \* outcomes pushed into Progress.checks
  cleanedUp,   \* Progress.cleaned_up
  keptEnv,     \* Progress.kept_environment
  warned,      \* a failed teardown is among Progress.warnings
  reported,    \* run.status of the report on disk, "none" without one
  exitCode     \* -1 until it is known

drillVars == <<result, next, status, cleanedUp, keptEnv, warned>>
outputVars == <<reported, exitCode>>
world == <<containers, workspace, copier, hasher>>
vars == <<opts, pc, drillVars, env, registered, watcher, child, world, outputVars>>

\* Mutant of Cleanup: --keep-environment forgotten.
CleanupIgnoresKeep == ~opts.noCleanup /\ opts.recoveryCleanup

\* drill(): cleanup_override.unwrap_or(recovery.cleanup) && !keep_environment.
Cleanup == ~opts.noCleanup /\ opts.recoveryCleanup /\ ~opts.keep

Full == opts.mode = "Full"

\* The checks whose outcome is in Progress.checks.
Ran == 1..(next - 1)

PCs == {"begin", "attach", "docker", "inspect", "restore", "restoreWait",
        "startEnv", "spawnUp", "upWait", "startTeardown", "startSpawnDown",
        "startDownWait", "ready", "check", "teardown", "spawnDown", "downWait",
        "unwind", "dropWait", "dropWorkspace", "report", "emit", "stop",
        "shutdown", "exited"}

TypeOK ==
  /\ opts \in Options
  /\ pc \in PCs
  /\ result \in {"none", "ok"} \cup Failure
  /\ env \in {"none", "attached", "armed", "tornDown"}
  /\ registered \in BOOLEAN
  /\ watcher \in {"waiting", "caught", "taking", "destroying", "aborted", "exited"}
  /\ child \in [Children -> ChildStates]
  /\ containers \in {"none", "up"}
  /\ workspace \in {"absent", "empty", "data"}
  /\ copier \in {"idle", "running", "ok", "failed", "killed"}
  /\ hasher \in {"idle", "running"}
  /\ next \in 1..(N + 1)
  /\ status \in [Checks -> CheckStatus \cup {"none"}]
  /\ cleanedUp \in BOOLEAN
  /\ keptEnv \in BOOLEAN
  /\ warned \in BOOLEAN
  /\ reported \in RunStatus \cup {"none"}
  /\ exitCode \in -1..6 \cup {130, 143}

Init ==
  /\ opts \in Options
  /\ pc = "begin"
  /\ result = "none"
  /\ env = "none"
  /\ registered = FALSE
  /\ watcher = "waiting"
  /\ child = [c \in Children |-> "idle"]
  \* `check` is for a project the operator has started.
  /\ containers = IF opts.mode = "ChecksOnly" THEN "up" ELSE "none"
  /\ workspace = "absent"
  /\ copier = "idle"
  /\ hasher = "idle"
  /\ next = 1
  /\ status = [c \in Checks |-> "none"]
  /\ cleanedUp = FALSE
  /\ keptEnv = FALSE
  /\ warned = FALSE
  /\ reported = "none"
  /\ exitCode = -1

-----------------------------------------------------------------------------
(* Helpers: moving the drill, returning an error, children.                *)

Goto(from, to) == pc = from /\ pc' = to

\* `?` on an error: the drill returns it once its locals are dropped.
Return(from, failures, to) ==
  /\ Goto(from, to)
  /\ result' \in failures

Kill(c) == IF child[c] \in {"running", "acted"} THEN "killed" ELSE child[c]

Spawn(c) == child' = [child EXCEPT ![c] = "running"]

-----------------------------------------------------------------------------
(* The drill: execute() and drill(), up to the environment.                *)

DryRun ==
  /\ opts.dryRun
  /\ Goto("begin", "report")
  /\ result' = "ok"
  /\ UNCHANGED <<opts, env, registered, watcher, child, world, next, status,
                 cleanedUp, keptEnv, warned, outputVars>>

CreateWorkspace ==
  /\ ~opts.dryRun
  /\ Goto("begin", IF Full THEN "docker" ELSE "attach")
  /\ workspace' = "empty"
  /\ UNCHANGED <<opts, drillVars, env, registered, watcher, child, containers,
                 copier, hasher, outputVars>>

\* The root may exist although the restore directory inside could not be
\* created: there is no Workspace value yet, hence nothing to drop.
CreateWorkspaceFails ==
  /\ ~opts.dryRun
  /\ Return("begin", {"io"}, "report")
  /\ workspace' \in {"absent", "empty"}
  /\ UNCHANGED <<opts, env, registered, watcher, child, containers, copier,
                 hasher, next, status, cleanedUp, keptEnv, warned, outputVars>>

\* Checks only: the environment is the operator's.
Attach ==
  /\ Goto("attach", "check")
  /\ env' = "attached"
  /\ UNCHANGED <<opts, drillVars, registered, watcher, child, world, outputVars>>

EnsureDocker ==
  /\ \/ Goto("docker", "inspect") /\ UNCHANGED result
     \/ Return("docker", {"missing"}, "unwind")
  /\ UNCHANGED <<opts, env, registered, watcher, child, world, next, status,
                 cleanedUp, keptEnv, warned, outputVars>>

\* Building the source may fail on its secret; inspecting it may fail or,
\* with a tool, find none installed or exceed its own time limit.
Inspect ==
  /\ \/ Goto("inspect", "restore") /\ UNCHANGED result
     \/ Return("inspect",
               IF opts.source = "tool" THEN {"storage", "missing", "timeout"} ELSE {"storage"},
               "unwind")
  /\ UNCHANGED <<opts, env, registered, watcher, child, world, next, status,
                 cleanedUp, keptEnv, warned, outputVars>>

StartRestore ==
  /\ Goto("restore", "restoreWait")
  /\ copier' = "running"
  /\ UNCHANGED <<opts, drillVars, env, registered, watcher, child, containers,
                 workspace, hasher, outputVars>>

\* A tool may have gone since inspect() found it.
RestoreEnds ==
  /\ \/ copier = "ok" /\ Goto("restoreWait", "startEnv") /\ UNCHANGED result
     \/ /\ copier = "failed"
        /\ Return("restoreWait",
                  IF opts.source = "tool" THEN {"storage", "missing"} ELSE {"storage"},
                  "unwind")
  /\ UNCHANGED <<opts, env, registered, watcher, child, world, next, status,
                 cleanedUp, keptEnv, warned, outputVars>>

\* The time limit of the restic or borg process: the child is killed.
RestoreTimesOut ==
  /\ opts.source = "tool" /\ copier = "running"
  /\ Return("restoreWait", {"timeout"}, "unwind")
  /\ copier' = "killed"
  /\ UNCHANGED <<opts, env, registered, watcher, child, containers, workspace,
                 hasher, next, status, cleanedUp, keptEnv, warned, outputVars>>

-----------------------------------------------------------------------------
(* RecoveryEnvironment::start and teardown.                                *)

\* Mutant of StartEnvironment: registered once `up` has succeeded.
StartEnvironmentUnregistered ==
  /\ Goto("startEnv", "spawnUp")
  /\ env' = "armed"
  /\ UNCHANGED <<opts, drillVars, registered, watcher, child, world, outputVars>>

\* Mutant of StartEnvironment: `started` set once `up` has succeeded.
StartEnvironmentUnarmed ==
  /\ Goto("startEnv", "spawnUp")
  /\ registered' = (registered \/ Cleanup)
  /\ UNCHANGED <<opts, drillVars, env, watcher, child, world, outputVars>>

\* Armed and registered before `up`.
StartEnvironment ==
  /\ Goto("startEnv", "spawnUp")
  /\ env' = "armed"
  /\ registered' = (registered \/ Cleanup)
  /\ UNCHANGED <<opts, drillVars, watcher, child, world, outputVars>>

SpawnUp ==
  /\ \/ Goto("spawnUp", "upWait") /\ Spawn("up") /\ UNCHANGED result
     \/ Return("spawnUp", {"environment"}, "startTeardown") /\ UNCHANGED child
  /\ UNCHANGED <<opts, env, registered, watcher, world, next, status,
                 cleanedUp, keptEnv, warned, outputVars>>

UpEnds ==
  /\ \/ child["up"] = "ok" /\ Goto("upWait", "ready") /\ UNCHANGED result
     \/ child["up"] = "failed" /\ Return("upWait", {"environment"}, "startTeardown")
  /\ UNCHANGED <<opts, env, registered, watcher, child, world, next, status,
                 cleanedUp, keptEnv, warned, outputVars>>

\* Mutant of UpTimesOut: the child is not killed with the future.
UpTimesOutAndGoesOn ==
  /\ child["up"] \in {"running", "acted"}
  /\ Return("upWait", {"timeout"}, "startTeardown")
  /\ UNCHANGED <<opts, env, registered, watcher, child, world, next, status,
                 cleanedUp, keptEnv, warned, outputVars>>

UpTimesOut ==
  /\ child["up"] \in {"running", "acted"}
  /\ Return("upWait", {"timeout"}, "startTeardown")
  /\ child' = [child EXCEPT !["up"] = "killed"]
  /\ UNCHANGED <<opts, env, registered, watcher, world, next, status,
                 cleanedUp, keptEnv, warned, outputVars>>

\* teardown(), up to the await on `docker compose down`: at the end of the
\* drill and after a start that failed.  Marked as torn down and forgotten by
\* the registry first.
Teardown ==
  /\ env = "armed"
  /\ \/ Goto("startTeardown", IF Cleanup THEN "startSpawnDown" ELSE "unwind")
     \/ ~opts.keep /\ Goto("teardown", IF Cleanup THEN "spawnDown" ELSE "unwind")
  /\ env' = "tornDown"
  /\ registered' = FALSE
  /\ UNCHANGED <<opts, drillVars, watcher, child, world, outputVars>>

\* teardown() of an attached environment.
TeardownAttached ==
  /\ env = "attached" /\ ~opts.keep
  /\ Goto("teardown", "unwind")
  /\ UNCHANGED <<opts, drillVars, env, registered, watcher, child, world, outputVars>>

SpawnDown ==
  /\ Goto("startSpawnDown", "startDownWait") \/ Goto("spawnDown", "downWait")
  /\ \/ Spawn("down")
     \/ child' = [child EXCEPT !["down"] = "failed"]
  /\ UNCHANGED <<opts, drillVars, env, registered, watcher, world, outputVars>>

\* compose_down() has a time limit of its own.
DownTimesOut ==
  /\ pc \in {"startDownWait", "downWait"}
  /\ child["down"] \in {"running", "acted"}
  /\ child' = [child EXCEPT !["down"] = "killed"]
  /\ UNCHANGED <<opts, pc, drillVars, env, registered, watcher, world, outputVars>>

\* After a failed start, the outcome of the teardown is dropped.
StartDownEnds ==
  /\ child["down"] \in {"ok", "failed", "killed"}
  /\ Goto("startDownWait", "unwind")
  /\ UNCHANGED <<opts, drillVars, env, registered, watcher, child, world, outputVars>>

\* Mutant of DownEnds: cleaned_up set from the options alone.
DownEndsCleanedUp ==
  /\ child["down"] \in {"ok", "failed", "killed"}
  /\ Goto("downWait", "unwind")
  /\ cleanedUp' = TRUE
  /\ warned' = (child["down"] # "ok")
  /\ UNCHANGED <<opts, result, next, status, keptEnv, env, registered, watcher,
                 child, world, outputVars>>

\* Mutant of DownEnds: the error of the teardown dropped, as after a failed start.
DownEndsQuietly ==
  /\ child["down"] \in {"ok", "failed", "killed"}
  /\ Goto("downWait", "unwind")
  /\ cleanedUp' = (child["down"] = "ok")
  /\ UNCHANGED <<opts, result, next, status, keptEnv, warned, env, registered,
                 watcher, child, world, outputVars>>

DownEnds ==
  /\ child["down"] \in {"ok", "failed", "killed"}
  /\ Goto("downWait", "unwind")
  /\ cleanedUp' = (child["down"] = "ok")
  /\ warned' = (child["down"] # "ok")
  /\ UNCHANGED <<opts, result, next, status, keptEnv, env, registered, watcher,
                 child, world, outputVars>>

\* --keep-environment: reported, never destroyed.  The workspace was created
\* with keep set.
KeepEnvironment ==
  /\ opts.keep
  /\ Goto("teardown", "unwind")
  /\ keptEnv' = TRUE
  /\ UNCHANGED <<opts, result, next, status, cleanedUp, warned, env, registered,
                 watcher, child, world, outputVars>>

-----------------------------------------------------------------------------
(* wait_and_check: an error is held until the teardown is done.            *)

WaitUntilReady ==
  /\ \/ containers = "up" /\ Goto("ready", "check") /\ UNCHANGED result
     \/ Return("ready", {"environment", "timeout"}, "teardown")
  /\ UNCHANGED <<opts, env, registered, watcher, child, world, next, status,
                 cleanedUp, keptEnv, warned, outputVars>>

\* run_check(), all its attempts: see CheckExecutor.  The thread of an attempt
\* that was abandoned goes on.
RunCheck ==
  /\ pc = "check" /\ next <= N
  /\ \E s \in CheckStatus : status' = [status EXCEPT ![next] = s]
  /\ next' = next + 1
  /\ hasher' \in {hasher, "running"}
  /\ UNCHANGED <<opts, pc, result, cleanedUp, keptEnv, warned, env, registered,
                 watcher, child, containers, workspace, copier, outputVars>>

ChecksDone ==
  /\ next > N
  /\ Goto("check", "teardown")
  /\ result' = "ok"
  /\ UNCHANGED <<opts, env, registered, watcher, child, world, next, status,
                 cleanedUp, keptEnv, warned, outputVars>>

-----------------------------------------------------------------------------
(* The total budget, and the destructors of drill()'s locals.              *)

\* Mutant of Awaiting: a restore that blocks the thread of the drill.
AwaitingButRestoring ==
  \/ pc \in {"docker", "upWait", "startDownWait", "ready", "downWait"}
  \/ pc = "inspect" /\ opts.source = "tool"
  \/ pc = "check" /\ next <= N

\* Where the drill future is suspended at an `.await`.
Awaiting ==
  \/ pc \in {"docker", "restoreWait", "upWait", "startDownWait", "ready", "downWait"}
  \/ pc = "inspect" /\ opts.source = "tool"
  \/ pc = "check" /\ next <= N

\* tokio::time::timeout drops the future: the child it is waiting for is
\* killed, a copy or a hash on the blocking pool is not.
Expire ==
  /\ Awaiting
  /\ pc' = "unwind"
  /\ result' = "budget"
  /\ child' = [c \in Children |->
                 IF \/ c = "up" /\ pc = "upWait"
                    \/ c = "down" /\ pc \in {"startDownWait", "downWait"}
                 THEN Kill(c) ELSE child[c]]
  /\ copier' = IF pc = "restoreWait" /\ opts.source = "tool" /\ copier = "running"
               THEN "killed" ELSE copier
  /\ hasher' \in IF pc = "check" THEN {hasher, "running"} ELSE {hasher}
  /\ UNCHANGED <<opts, env, registered, watcher, containers, workspace, next,
                 status, cleanedUp, keptEnv, warned, outputVars>>

\* Mutant of GuardArmed: torn_down is not looked at.
GuardArmedAfterTeardown == env \in {"armed", "tornDown"} /\ Cleanup

GuardArmed == env = "armed" /\ Cleanup

\* Drop for RecoveryEnvironment: `down` on the thread of the drill, with no
\* time limit.  The registry is not told.
DropEnvironment ==
  /\ \/ ~GuardArmed /\ Goto("unwind", "dropWorkspace") /\ UNCHANGED child
     \/ GuardArmed /\ Goto("unwind", "dropWait") /\ Spawn("drop")
     \/ /\ GuardArmed
        /\ Goto("unwind", "dropWorkspace")
        /\ child' = [child EXCEPT !["drop"] = "failed"]
  /\ UNCHANGED <<opts, drillVars, env, registered, watcher, world, outputVars>>

DropReturns ==
  /\ child["drop"] \in {"ok", "failed"}
  /\ Goto("dropWait", "dropWorkspace")
  /\ UNCHANGED <<opts, drillVars, env, registered, watcher, child, world, outputVars>>

\* Drop for Workspace: a removal that fails is only logged.
DropWorkspace ==
  /\ Goto("dropWorkspace", "report")
  /\ workspace' \in IF opts.keep THEN {workspace} ELSE {"absent", workspace}
  /\ UNCHANGED <<opts, drillVars, env, registered, watcher, child, containers,
                 copier, hasher, outputVars>>

-----------------------------------------------------------------------------
(* The report, the exit code, and the end of the process.                  *)

\* assemble(): run.status is computed from the outcomes pushed so far.
DrillStatus ==
  IF opts.dryRun THEN "SKIPPED"
  ELSE IF Ran = {} THEN "ERROR"
  ELSE Aggregate(Ran, Required, status)

\* Mutant of WriteReport: an error of the drill returned before the report.
WriteReportOfSuccess ==
  /\ \/ result = "ok" /\ Goto("report", "emit") /\ reported' = DrillStatus /\ UNCHANGED exitCode
     \/ /\ result # "ok" /\ Goto("report", "stop")
        /\ exitCode' = FailureExitCode(result) /\ UNCHANGED reported
  /\ UNCHANGED <<opts, drillVars, env, registered, watcher, child, world>>

WriteReport ==
  /\ \/ Goto("report", "emit") /\ reported' = DrillStatus /\ UNCHANGED exitCode
     \/ Goto("report", "stop") /\ exitCode' = 6 /\ UNCHANGED reported
  /\ UNCHANGED <<opts, drillVars, env, registered, watcher, child, world>>

\* Mutant of Emit: the exit code of run.status, whatever the Result.
EmitStatus ==
  /\ Goto("emit", "stop")
  /\ exitCode' \in {6, StatusExitCode(reported)}
  /\ UNCHANGED <<opts, drillVars, env, registered, watcher, child, world, reported>>

\* The exit code follows the Result first, run.status only for Ok(()).
Emit ==
  /\ Goto("emit", "stop")
  /\ exitCode' \in {6, IF result = "ok" THEN StatusExitCode(reported)
                                        ELSE FailureExitCode(result)}
  /\ UNCHANGED <<opts, drillVars, env, registered, watcher, child, world, reported>>

\* watcher.abort(): a suspended watcher is never resumed, one that is running
\* goes on to its next await.
Stop ==
  /\ Goto("stop", "shutdown")
  /\ watcher' = IF watcher = "waiting" THEN "aborted" ELSE watcher
  /\ UNCHANGED <<opts, drillVars, env, registered, child, world, outputVars>>

\* A thread of the blocking pool is at work.
ThreadRuns == hasher = "running" \/ (opts.source = "local" /\ copier = "running")

\* Dropping the runtime waits for the blocking pool and drops the watcher,
\* with the child it may be waiting for.
Shutdown ==
  /\ Goto("shutdown", "exited")
  /\ watcher \in {"aborted", "destroying"}
  /\ ~ThreadRuns
  /\ watcher' = "aborted"
  /\ child' = [child EXCEPT !["watcherDown"] = Kill("watcherDown")]
  /\ UNCHANGED <<opts, drillVars, env, registered, world, outputVars>>

-----------------------------------------------------------------------------
(* The watcher.                                                            *)

Signal ==
  /\ watcher = "waiting" /\ pc # "exited"
  /\ watcher' = "caught"
  /\ UNCHANGED <<opts, pc, drillVars, env, registered, child, world, outputVars>>

\* std::process::exit: no destructor runs, and threads die with the process.
Exit ==
  /\ pc' = "exited"
  /\ watcher' = "exited"
  /\ exitCode' \in {130, 143}
  /\ copier' = IF opts.source = "local" /\ copier = "running" THEN "killed" ELSE copier
  /\ hasher' = "idle"
  /\ UNCHANGED <<opts, drillVars, env, containers, workspace, reported>>

\* active() decides whether there is anything to destroy ...
LookAtRegistry ==
  /\ watcher = "caught" /\ pc # "exited"
  /\ \/ /\ ~registered /\ Exit
     \/ /\ registered /\ watcher' = "taking"
        /\ UNCHANGED <<opts, pc, drillVars, env, world, outputVars>>
  /\ UNCHANGED <<registered, child>>

\* ... and take_all() empties the registry, of what is in it by then.
TakeRegistry ==
  /\ watcher = "taking" /\ pc # "exited"
  /\ \/ ~registered /\ Exit /\ UNCHANGED child
     \/ /\ registered
        /\ watcher' = "destroying"
        /\ \/ Spawn("watcherDown")
           \/ child' = [child EXCEPT !["watcherDown"] = "failed"]
        /\ UNCHANGED <<opts, pc, drillVars, env, world, outputVars>>
  /\ registered' = FALSE

\* Mutant of WatcherExits: a `down` without a time limit.
WatcherExitsAfterDown ==
  /\ watcher = "destroying" /\ pc \notin {"shutdown", "exited"}
  /\ child["watcherDown"] \in {"ok", "failed"}
  /\ Exit
  /\ UNCHANGED <<registered, child>>

\* Unless it was aborted, the watcher ends the process when its `down` ends or
\* exceeds its time limit.
WatcherExits ==
  /\ watcher = "destroying" /\ pc \notin {"shutdown", "exited"}
  /\ Exit
  /\ child' = [child EXCEPT !["watcherDown"] = Kill("watcherDown")]
  /\ UNCHANGED registered

-----------------------------------------------------------------------------
(* Outside the drill: the copy, the hash, and docker compose.  `up` may create a   *)
(* container at any time until it exits; `down` removes whatever is there  *)
(* when it asks the daemon.  Either may fail at any point.                 *)

CopyWrites ==
  /\ copier = "running"
  /\ workspace' = "data"
  /\ UNCHANGED <<opts, pc, drillVars, env, registered, watcher, child,
                 containers, copier, hasher, outputVars>>

CopyEnds ==
  /\ copier = "running"
  /\ copier' \in {"ok", "failed"}
  /\ UNCHANGED <<opts, pc, drillVars, env, registered, watcher, child,
                 containers, workspace, hasher, outputVars>>

HashEnds ==
  /\ hasher = "running"
  /\ hasher' = "idle"
  /\ UNCHANGED <<opts, pc, drillVars, env, registered, watcher, child,
                 containers, workspace, copier, outputVars>>

UpCreates ==
  /\ child["up"] \in {"running", "acted"}
  /\ child' = [child EXCEPT !["up"] = "acted"]
  /\ containers' = "up"
  /\ UNCHANGED <<opts, pc, drillVars, env, registered, watcher, workspace,
                 copier, hasher, outputVars>>

DownRemoves(d) ==
  /\ child[d] = "running"
  /\ child' = [child EXCEPT ![d] = "acted"]
  /\ containers' = "none"
  /\ UNCHANGED <<opts, pc, drillVars, env, registered, watcher, workspace,
                 copier, hasher, outputVars>>

ChildExits(c) ==
  /\ \/ child[c] = "acted" /\ child' = [child EXCEPT ![c] = "ok"]
     \/ child[c] \in {"running", "acted"} /\ child' = [child EXCEPT ![c] = "failed"]
  /\ UNCHANGED <<opts, pc, drillVars, env, registered, watcher, world, outputVars>>

Quiet == /\ copier # "running"
         /\ \A c \in Children : child[c] \notin {"running", "acted"}

\* The process is gone and so is every child it left behind.
Terminated == pc = "exited" /\ Quiet /\ UNCHANGED vars

-----------------------------------------------------------------------------

\* A step of the drill that depends on nobody else.
DrillStep ==
  \/ DryRun \/ CreateWorkspace \/ CreateWorkspaceFails \/ Attach
  \/ EnsureDocker \/ Inspect \/ StartRestore \/ RestoreEnds
  \/ StartEnvironment \/ SpawnUp \/ UpEnds
  \/ Teardown \/ TeardownAttached \/ SpawnDown \/ StartDownEnds \/ DownEnds
  \/ KeepEnvironment \/ WaitUntilReady \/ RunCheck \/ ChecksDone
  \/ DropEnvironment \/ DropReturns \/ DropWorkspace
  \/ WriteReport \/ Emit \/ Stop \/ Shutdown

StepTimer == RestoreTimesOut \/ UpTimesOut \/ DownTimesOut

WatcherStep == LookAtRegistry \/ TakeRegistry \/ WatcherExits

ChildStep(c) == \/ c = "up" /\ UpCreates
                \/ c \in Downs /\ DownRemoves(c)
                \/ ChildExits(c)

Next ==
  \/ DrillStep
  \/ StepTimer
  \/ Expire
  \/ Signal
  \/ WatcherStep
  \/ CopyWrites
  \/ CopyEnds
  \/ HashEnds
  \/ \E c \in Children : ChildStep(c)
  \/ Terminated

Spec == Init /\ [][Next]_vars

-----------------------------------------------------------------------------
(* Fairness.  The program's own steps and its timers cannot be put off for *)
(* ever: they are ready futures and tokio timers on a runtime of several   *)
(* workers.  Nothing is asked of docker, restic, borg, the copy and the    *)
(* hash: they may hang.                                                    *)

FairSpec == /\ Spec
            /\ WF_vars(DrillStep) /\ WF_vars(StepTimer) /\ WF_vars(Expire)
            /\ WF_vars(WatcherStep)

-----------------------------------------------------------------------------
(* Safety.                                                                 *)

\* The environment is the drill's own, and nobody asked to have it left.
MustDestroy ==
  opts.mode = "Full" /\ opts.recoveryCleanup /\ ~opts.keep /\ ~opts.noCleanup

\* An environment this process must not destroy is never the target of a
\* `docker compose down`, by the drill, its drop guard or the watcher: the
\* operator's in `check`, and the drill's own under --keep-environment,
\* --no-cleanup or `cleanup: false`.
HandsOff ==
  ~MustDestroy => /\ \A d \in Downs : child[d] = "idle"
                  /\ Full \/ containers = "up"

\* While containers of a drill that cleans up exist, an interruption can still
\* find them, or somebody has begun to destroy them: the project is in the
\* registry, or teardown() has taken it out, or the watcher has.
LiveIsTracked ==
  MustDestroy /\ containers = "up" =>
    registered \/ env = "tornDown" \/ child["watcherDown"] # "idle"

\* recovery.environment_cleaned_up is never TRUE over containers that exist,
\* then or later: no `up` survives to create one again.
CleanedUpMeansGone == cleanedUp => containers = "none"

AfterDrill == {"dropWorkspace", "report", "emit", "stop", "shutdown"}

DrillOver == pc \in AfterDrill \/ (pc = "exited" /\ watcher # "exited")

TeardownDisturbed == child["down"] \in {"failed", "killed"} \/ child["drop"] = "failed"

\* Whatever failed, expired or was cancelled, containers that are to be
\* destroyed are gone before the workspace mounted into them is removed and
\* before the report is written, unless the `down` itself failed or was cut
\* short.
EnvironmentGoesFirst ==
  MustDestroy /\ DrillOver /\ containers = "up" => TeardownDisturbed

\* A drill that exits with 0 over containers it was to destroy says so in the
\* warnings of its report.
NoSilentLeak ==
  exitCode = 0 /\ MustDestroy /\ containers = "up" => warned

\* The blocking `down` of the drop guard is only for an environment that
\* teardown() has not handled: the drill never destroys twice.
DropIsLastResort == child["drop"] # "idle" => child["down"] = "idle" /\ env = "armed"

\* Once the drill or its drop guard has asked docker to destroy the environment,
\* nothing creates a container in it again: an `up` that failed, exceeded its
\* limit or was cancelled is dead by then.
NothingCreatedAfterDown ==
  [][child["down"] # "idle" \/ child["drop"] # "idle" =>
       (containers' = "up" => containers = "up")]_vars

\* Exit code 0 is a proof: every check was run, every required one passed, and
\* the report on disk says so.
SuccessIsProven ==
  exitCode = 0 /\ ~opts.dryRun =>
    /\ result = "ok" /\ next = N + 1
    /\ \A c \in Required : status[c] = "PASSED"
    /\ reported \in {"PASSED", "PARTIAL"}

\* A drill that was not interrupted leaves a report, however it failed: without
\* one, the exit code is that of a report that could not be written.
ReportOnEveryPath ==
  pc = "exited" /\ watcher # "exited" /\ reported = "none" => exitCode = 6

\* The drill, its drop guard and the watcher keep the promise of one lease,
\* whatever the order in which they destroy: the environment is given back once,
\* by teardown() or else by the guard, the watcher only takes what is still held,
\* and nothing is created once it was given back.
Askers == [teardown |-> "down", guard |-> "drop", watcher |-> "watcherDown"]
Lease == INSTANCE EnvironmentLease WITH
  mine <- MustDestroy,
  lease <- IF env = "armed" THEN "held" ELSE IF env = "tornDown" THEN "given" ELSE "none",
  asked <- {who \in DOMAIN Askers : child[Askers[who]] # "idle"}

ImplementsLease == Lease!Spec

-----------------------------------------------------------------------------
(* Liveness.                                                               *)

ThreadHangs == pc = "shutdown" /\ ThreadRuns
DropHangs == pc = "dropWait" /\ child["drop"] \in {"running", "acted"}

\* Whatever docker or a backup tool does, the process ends, by the total budget
\* at the latest.  Two waits have no time limit and go on as long as what they
\* wait for: the `down` of the drop guard, and the threads the runtime waits for
\* when it is dropped.
BudgetBoundsTheProcess ==
  <>(pc = "exited") \/ <>[]DropHangs \/ <>[]ThreadHangs

\* A signal the watcher has taken ends the process even while the drill hangs,
\* unless the drill has come to its own end and waits for a thread.
InterruptionEndsTheProcess ==
  (watcher = "caught") ~> (pc = "exited" \/ ThreadHangs)

-----------------------------------------------------------------------------
(* What the repository says of the program, and what it does not do.       *)

\* The recovery environment started, no command failed, and none exceeded a
\* time limit of its own.
DockerWorks ==
  /\ child["up"] = "ok"
  /\ \A c \in Children : child[c] # "failed"
  /\ child["watcherDown"] # "killed"
  /\ child["down"] = "killed" => result = "budget"

\* "The recovery environment is destroyed on every path except
\* --keep-environment", and "an interrupted drill leaves nothing running"
\* (docs/architecture.md): nothing runs once the drill is over, or the watcher
\* has ended the process and what it had started has ended too.
DestroyedOnEveryPath ==
  /\ DrillOver \/ (watcher = "exited" /\ Quiet)
  /\ MustDestroy /\ DockerWorks
  => containers = "none"

\* "All required checks passed" is what PASSED and PARTIAL say (core/status.rs).
PassedMeansAllRequiredPassed ==
  reported \in {"PASSED", "PARTIAL"} => \A c \in Required : status[c] = "PASSED"

=============================================================================
