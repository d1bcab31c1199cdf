# RestoreProof in TLA+

RestoreProof proves that a backup can be restored: it restores it into a working directory,
starts the application in Docker Compose, runs checks against it, writes a report, and
destroys everything again. This directory models the parts of it that are hard to get right:
**who destroys what, in which order, whatever fails, expires or is interrupted; what the
report and the exit code may claim of the checks and of the backup; that nobody reads half a
report; and what a configuration that is accepted, and a comparison that is content, are worth.**
Source paths are relative to `src/crates/`; crate names drop the prefix `restoreproof-`.

## Inventory

| Component | State | Operations | Hard behaviour | Correct when | Modelled in |
|---|---|---|---|---|---|
| runner: the drill (`runner/src/runner.rs`) | `Progress`, the `Result`, the locals of `drill()` | restore, start, wait, check, tear down, assemble, write | cancellation by the total budget at any `.await`; destructors in reverse order | success is proven, a report on every path, environment before workspace | `RecoveryDrill`; `DrillHistory` (assemble) |
| runner: environment, registry (`environment.rs`, `cleanup.rs`) | `started`, `torn_down`, `cleanup`; a process-wide list of projects | start, attach, teardown, drop guard, register, unregister, take_all | teardown, drop guard and signal watcher all may destroy; `up` may still be creating | live containers are tracked, never destroyed twice, never the operator's | `RecoveryDrill`, `EnvironmentLease` |
| runner: readiness (`environment.rs`, `docker.rs`) | deadline, stable polls | poll `ps`, judge, sleep, fetch logs | services change between and during polls; docker may hang | ready was seen twice; a failure is not a delay; bounded | `Readiness` |
| runner: docker client (`docker.rs`) | none | info, up, ps, port, down, blocking down | one `down` has a time limit, the other has none | no child outlives what awaited it | `RecoveryDrill`, `Readiness` |
| runner: workspace (`workspace.rs`) | a directory, `keep` | create, keep, drop | removed in a destructor; a thread may still write | gone after the containers | `RecoveryDrill` |
| cli: runtime, interruption (`cli/src/main.rs`) | watcher task, exit code | spawn, abort, signal, exit | `process::exit` skips destructors; abort races a caught signal | an interruption ends the process and leaves nothing running | `RecoveryDrill` |
| cli: commands (`cli/src/commands/`, `output.rs`) | none | run, check, validate, diff, `--output`; plan, report, init | output errors; the rest is sequential | exit code follows the Result | `RecoveryDrill`, `Scenario`, `DrillHistory`, `ReportWriter` |
| checks: executor (`checks/src/executor.rs`) | attempts, evaluation | attempt, time limit, retry, delay | an attempt that is dropped leaves a program or thread | an outcome is the last word; bounded; nothing left | `CheckExecutor`, `CheckList` |
| checks: six kinds (`checks/src/*.rs`) | none | http, command, sql, file, container, script | several looks at an environment that goes on changing; which answer is final | a passed check is backed by what was there | `CheckKinds` |
| core: verdict (`core/src/status.rs`, `*/src/error.rs`) | none | aggregate, exit codes | five rules in an order | unprovable is never proven | `Verdict` |
| core: processes (`core/src/process.rs`) | a child, two pipes, two capped buffers | spawn, read, wait, time limit, drop | a full pipe, a descendant that holds one open, output at the cap | no deadlock, a prefix is kept, killed however the call ends | `ProcessCapture` |
| storage (`storage/src/`) | none | inspect, restore | copy on a blocking thread; `latest` resolved twice | the report names what was restored, and its age | `RecoveryPoint`; `RecoveryDrill` (life of the restore) |
| report: writer (`report/src/writer.rs`) | files | prepare, create, write, sync, rename | full disk, kill or power failure between any two of them; two drills at once | a reader never sees half a report | `ReportWriter`, `ReportDirectory` |
| report: diff (`report/src/diff.rs`) | a known-good report the operator keeps | compare, gate | a series of comparisons; edited scenarios | nothing gets worse in small steps | `DrillHistory` |
| core: metrics (`core/src/metrics.rs`) | none | RTO, RPO | clock skew, missing timestamps, which checks count | a pass is earned | `DrillHistory` (RTO), `RecoveryPoint` (RPO) |
| config (`config/src/`) | the issues collected | from_text by sections, audit of the Compose file, rules of the checks, paths | rules skipped because of other faults, early returns | what is accepted is sound; what is refused can be repaired | `Scenario`, `CheckRules`, `ComposeAudit`, `PathPolicy` |
| core: redaction, secrets, the rest of the report document; report: renderers; runner: plan | none | pure functions to text | order of rules | | not modelled |
| testkit, `scripts/` | none | | | | not modelled: not the program |

How they interact: the CLI spawns the **watcher** task and blocks on the **drill** future. The
drill owns a `Workspace` and a `RecoveryEnvironment`, declared in that order and so dropped in
the reverse one. The environment writes the **registry**, which the watcher reads. Both
start `docker compose` **children**, which run in parallel with everything and outlive the
process unless killed. The local restore and the digest of a file check run on **threads** of
the runtime's blocking pool, which cancellation does not reach and which the runtime waits for
when it is dropped. Checks reach the environment through a read-only probe. Reports of several
drills share one **directory**, and `diff` reads two of them. All of it rests on a **scenario**,
which `from_text()` has accepted before anything starts.

## Modules

| Module | What it is |
|---|---|
| `Verdict` | aggregation of check outcomes, exit codes of a status and of an error: operators |
| `RecoveryDrill` | one `run` or `check` process: drill, budget, destructors, registry, watcher, children, threads |
| `EnvironmentLease` | abstract: the environment is taken once, given back once, destroyed by who may, and nothing is created afterwards |
| `CheckList` | abstract: one outcome per check, in order, never changed |
| `CheckExecutor` | the check loop with attempts, time limits, delays and what attempts leave behind |
| `CheckKinds` | one evaluation of a check of each kind, look by look, over an environment that changes |
| `ProcessCapture` | one external program: two pipes, two capped readers, descendants, time limit |
| `Readiness` | `wait_until_ready`, poll by poll, over services that change |
| `RecoveryPoint` | `inspect`, `restore` and the RPO, over a store that goes on changing |
| `ReportDirectory` | abstract: whole reports that appear in order; a power failure takes back the last |
| `ReportWriter` | `write_all`, block by block, several drills, full disk, kill, power failure |
| `DrillHistory` | drill after drill: what `assemble()` reports, and what `diff` lets through |
| `PathPolicy`, `ComposeAudit`, `CheckRules` | paths, the audit of a Compose file, the rules of the checks: operators, each extending the one before |
| `Scenario` | `from_text()` section by section, and the operator who repairs what it names |
| `MC…` | what TLC runs; the `.cfg` files give the constants |
| `…_proofs` | theorems and proofs, one module per component; `BoundedWaits_proofs` has those of `Readiness` and `ProcessCapture` |

Composition. `RecoveryDrill` takes a whole check for one step (`RunCheck`), the whole
readiness wait for one (`WaitUntilReady`) and the whole of `write_all()` for one. These
abstractions are opened up in modules of their own. For the checks the seam is exact:
`CheckExecutor` implements `CheckList` (checked and proved), and `RecoveryDrill` refines the
same `CheckList` (proved), so what the drill assumes of a check is what the executor delivers.
Inside an attempt of `CheckExecutor` stands one evaluation of `CheckKinds`: `PassedIsBacked`,
`BlameIsBacked` and `QuietWorldIsJudgedRight` say what its answers stand for. For readiness there are three results, `ok`, `environment` and `timeout`, and `Readiness`
shows which of them can occur when; that `ok` has seen a container, which is the guard of
`WaitUntilReady`, is proved (`ReadyHasContainersAlways`). `RecoveryDrill` also implements
`EnvironmentLease` (checked and proved): its `env` is the lease, and who has started a `down` is who has asked. `RecoveryDrill` and `CheckExecutor` know of a child only that
it dies with the future that awaits it: `NoChildOutlivesTheCall` of `ProcessCapture`. `ReportWriter`
implements `ReportDirectory` (checked and proved). `DrillHistory` uses the same `Verdict` as
`RecoveryDrill`, and assumes of a list of checks what `Scenario` guarantees of it.

### RecoveryDrill and the code

| Variable | Code |
|---|---|
| `opts` | the flags and `recovery.cleanup`, chosen in `Init`, never changed |
| `pc`, `result` | where `execute()`/`drill()` is; the `Result` of the drill future |
| `env` | `RecoveryEnvironment` as its destructor sees it: `armed` is started and not torn down |
| `registered` | the project is in `cleanup::registry()` |
| `watcher` | the task of `watch_for_interruption` |
| `child` | the compose children that change containers: `up`, the drill's `down`, the drop guard's, the watcher's; `acted` has had its effect and not exited |
| `containers`, `workspace` | the daemon and the file system |
| `copier`, `hasher` | the restore (a thread, or restic or borg) and abandoned digests |
| `next`, `status`, `cleanedUp`, `keptEnv`, `warned` | `Progress` |
| `reported`, `exitCode` | `run.status` of the report on disk; the exit code |

`pc` has one value per point between two awaits, and splits only where another actor can tell
the difference: `teardown()` is one step up to its await (`Teardown`: flag set, project
unregistered) and another after it (`DownEnds`). `Expire` is the cancellation of the future by
`tokio::time::timeout`: enabled exactly where the future is suspended (`Awaiting`), it kills
the child being awaited (`kill_on_drop`), leaves threads alone, and goes to `unwind`, where
`DropEnvironment` and `DropWorkspace` run in that order. `Return` is `?`. `Exit` is
`std::process::exit`: no destructor runs. An `up` may create containers at any time until it
exits; a `down` removes what is there when it asks; either may fail or never end. The watcher
runs on another worker, so it interleaves with every step of the drill.

### CheckExecutor and the code

`policy` is `checks.yaml`; `pc` is where `run_check()` is (`attempt`, `sleep`, or between two
checks); `timer` is what is left of the `tokio::time::timeout` or of the delay; `status` and
`used` are the outcomes in `Progress.checks`; `programs` and `threads` are what attempts
started outside the loop. `log` is a history: every evaluation in order, which no part of the
code keeps and which the properties are about. `clock` is one too. Evaluations are classes: `unavailable` and `mismatch`
are the two uses the executors make of `CheckEvaluation::failed()`, `definitive` is one with
`final_answer()`. `Answers` says which executor can give which.

### Readiness and the code

(Its names `WaitInit`, `WaitNext`, `phase` and so on are distinct from those of `ProcessCapture`, so that one
module can hold the proofs of both.) `services` is what is in the daemon, moved by `Move` at any time. `snapshot` is what the
running `docker compose ps` has seen so far, one service after the other, so it may be a
mixture that never existed. `stable` is `stable_polls`; `previous` is a history of the last
poll; `verdict` is the `Result`. `States` folds state, health and exit code into what
`is_ready` and `has_failed` tell apart, plus `none`, a service without a container.

### RecoveryPoint and the code

`store` is the repository or directory: per archive, the time at which it was made, which is its
identity too; per entry of a directory, its modification time. A directory is a tree of regular
files (slots), of subdirectories, and of links and special files (`Home` says what lies in what):
`newest_modification()` counts the time of each of them, `copy_tree()` restores the regular files
only. Others write at any time: `Backup` and `Forget` in a repository; in a directory `Written`, which
may bring the time an entry had elsewhere and renews that of the directory something arrives in, and `Deleted`.
`pc` is where the drill is between two looks at the store: each call of `restic` or `borg`; in the walk a
directory's time (`LookAt`) and its listing (`ListOpened`) apart; in `copy_tree()` each listing and each file. `reported` and `created` are the
`BackupMetadata` that go into the report, `target` is what `restore()` has resolved for itself,
`age` and `rpo` are the `RpoMetric`. `tidy`, `settled` and `before` are histories: whether a regular file has
always been the newest entry and none has gone or aged; whether anything changed since `inspect()`; and the oldest that each
slot has held. A listing is one moment, a source that is a single file is not modelled apart from
a tree of files, and the modification time of a file is taken for the age of what is in it, as the code does.
The borg extraction is by name and the restic one by identifier, as in the code, so a borg
archive that is deleted and made again under its name is another one. `kind = "declared"` is a
directory with a metadata file, whose timestamp is taken as it is.

### CheckKinds and the code

`case` is a check with what its executor is given (policy flags, secrets, a probe or none); `world`
is what it can observe, one record per kind, and `Change` moves it between two looks. `pc` is
which look comes next: resolve, stat, hash for a file; state, port, connect for a container; the
connection string, then the connection, then the query; the request, then its body; the program's file, then its run.
`verdict` and `final` are the `CheckEvaluation`. `seen` and `changes` are histories. Texts are
classes, sizes and positions: an output is the place where the expected text ends in it and the
place where it breaks off, against `OutputCap`, which is all that `MAX_BODY_BYTES` and
`max_command_output_bytes` are about.

### ProcessCapture and the code

`pc` is where `run()` is: `collect` is the `tokio::join!` of the two `read_capped()`, `wait` is
`child.wait()`, and the rest are the ways it ends; `dropped` is a limit further up: of the attempt, or the total budget. (An interruption drops nothing: the process exits.)
`kept` and `truncated` are the locals of `read_capped()`, as lengths; `open` says who can still
write to a pipe, which is what end of file depends on. The program may write, close a pipe, fork
and exit at any time, and need do none of it. Pipes and buffers are finite.

### ReportWriter and the code

`pc`, `format`, `file`, `offset` are where each drill is in `write_all()` and
`write_atomically()`; then `emit()` with `--output`. `dir` is the directory, `data` what a reader
finds in a file, `disk` what of it is certain: a power failure may take back any block written
since the last `sync_all()`, and any number of the latest directory changes, which are in `past`.
Files are named by second, project and the first eight characters of the run's identifier; the
assumption that these differ is `ShortIdAssumption`.

### DrillHistory and the code

`clock`, `outcomes`, `result` are the drill as far as `assemble()` sees it, `report` is what it
makes of it. `knownGood` is the report the operator keeps, `gate` the exit code of `diff`; `Promote`
is `docs/operations.md`: the first report is any, another one is kept if diff was content. `proven`,
`passing`, `met`, `floor` are histories. The scenario may be edited before any drill.

### Scenario and the code

A configuration is a function from its parts (configuration file, Compose file, services, checks
file, checks, backup section) to records, with one field for each value a rule looks at; strings
are classes of strings, one for each answer their guard can give. `pc` is the section `from_text()` is in, `issues` what it
has collected, each naming part, position and field; `resolved` the required values that could be
resolved. `PathPolicy` has a small file system of its own, with links, so `..` and a link out of
the project are resolved and not just named. `Repair` is the operator.

## Runs

| Run | States | Shows |
|---|---|---|
| `drill` | 300,900 | seven safety properties of the drill and one of its steps under every interleaving and option; `EnvironmentLease` implemented; the process ends, but for two waits without a limit; an interruption ends it |
| `check_loop` | 567,104 | what an outcome proves, time bounds, nothing left behind, `CheckList` implemented, the checks end |
| `check_kinds` | 483,814 | what `passed`, `failed` and `error` prove, in an environment that changes or holds still |
| `capture` | 15,684 | what is kept of an output, no deadlock over the pipes, the program dies with the call, the call ends |
| `readiness` | 339,378 | what `ready` proves, failures against delays, time bound, the wait ends |
| `recovery_point` | 2,132,253 | what the report says of the backup, against what was restored |
| `report_writer` | 647,097 | no half report under any failure, `ReportDirectory` implemented |
| `history` | 1,309,424 | what a comparison, a series of comparisons and an RTO are worth |
| `configuration` | 22,928 | what an accepted configuration guarantees, and what a refusal tells |
| `claim_…` (3) | | something the repository says of the program that the code does not do: see Findings |

**Bounds.** `drill`: two checks, one required, which is the least with a check that has
run and one that has not when the budget expires, and with an optional failure; everything
else in the drill exists once. `check_loop`: two checks of any kind, disabled or with 0 to 3 attempts: 3 is
the least with an attempt that is neither the first nor the last, 2 checks the least where
one could disturb the next; one tick per attempt and per delay keeps the two apart in the sum.
`check_kinds`: every demand of each kind, alone and beside others, worlds that differ in each thing looked at,
two changes, which is one between any two of the three looks a check takes at most, and an output
whose expected text ends below, at or behind a cap of two.
`capture`: one descendant, which is enough to keep a pipe open after the program; caps from 0 to 2
with chunks of up to two bytes meet a cap below, at and inside a chunk, and three bytes written overflow both the
cap and the pipe.
`readiness`: two services are the least with one watched and one not; a timeout of three polls
leaves room to become ready, fail to stay so, become ready again, and to be late. `recovery_point`:
two archives, the least with a newest and another; or a directory with a file, and a subdirectory
with a file and a link, of which anything may be missing, so that an entry of each sort can be newer than the rest,
at either level; any times up to the start of the drill, and two changes during it: one in the gap between
the two look-ups or in the walk, another before the extraction or during the copy; an objective of 0, which
what was made at the start meets and nothing older does. `report_writer`: two drills of
one project that started in the same second, two formats of two blocks: a half-written file and a
half-written set of files both exist. `history`: a series without end of drills under four
scenarios that share their checks, with two, one or no check required, with and without objectives; steps take 0 or
1 against objectives of 1 and 2; the backup's clock is ahead, its age is missed, or not known.
`configuration`: one sound configuration for each kind of backup, with one fault, or with two where
rules look at more than one value (a list of faults that others depend on, against all; all pairs
within one check, within the timeouts and within the backup section), and then at most two repairs.
No state constraint is used, and counters end by themselves. No symmetry is used.

**Deadlock** is checked in every run; each specification that ends has a stuttering `Terminated` step,
enabled only at its proper end (`pc = "exited"` with every child ended, and so on), so a state
in which everyone waits for everyone would be reported.

**Fairness.** `RecoveryDrill`: weak fairness of the drill's own steps, of the time limits of
its commands, of the total budget and of the watcher. These are ready futures and tokio timers
on a runtime with several workers, and a blocked drill thread does not stop the others.
`CheckExecutor` and `Readiness`: the loop's own steps and the clock. `ProcessCapture`: `run()`'s own
steps; the timer is not among them and appears as a hypothesis of the one property that needs it
(`CallEnds`), so that `NeverBlockedForEver` does not lean on it. Nothing is assumed of
docker, restic, borg, the copy, the digest, the services, or a program and its descendants: they may hang, and the liveness
properties hold all the same. A timer fires before the next tick, so scheduling latency is
left out of the time bounds. The other specifications state no fairness and no liveness.

### Properties

Drill. `HandsOff`: no `down` for an environment this process must not destroy.
`LiveIsTracked`: while containers exist an interruption can find them, or somebody has begun to
destroy them. `CleanedUpMeansGone`: `environment_cleaned_up` is never true over containers, then
or later. `EnvironmentGoesFirst`: containers are gone before the workspace they mount is
removed, unless a `down` failed or was cut short. `NoSilentLeak`: exit code 0 over leftovers
carries a warning. `SuccessIsProven`: exit code 0
means every check was run and every required one passed. `ReportOnEveryPath`. `NothingCreatedAfterDown`: an
action property; once the drill has asked for the destruction nothing is created.
`ImplementsLease`: drill, drop guard, watcher and docker children together are one lease of the
environment, given back by `teardown()` or else by the guard, never both; the watcher asks only while
the drill still holds it; nobody asks for what is not to be destroyed.
`BudgetBoundsTheProcess` and `InterruptionEndsTheProcess` name the two exceptions in the code: the blocking
`down` of the drop guard (`docker.rs:365`), and the blocking threads at the end of the runtime.

Check loop. `OutcomeIsTheLastWord`: an outcome is the last evaluation, everything before it was a
failure that may be retried, a definitive answer is never repeated, and the number of attempts in
the report is right. `CheckTimeBounded`: attempts and delays and no more. `NoProgramLeftBehind`: a
retry never runs beside the attempt it repeats. `ImplementsCheckList`. `ChecksEnd`.

Check kinds. `PassedIsBacked`: every demand of a check that passed was met at some moment while it
looked; not all at one moment, which the code cannot promise. A query whose value is NaN is excepted: see Findings. `QuietWorldIsJudgedRight`: where
nothing changes, ERROR, PASSED and FAILED are exactly what a definition by demands says, which knows
nothing of the order of the looks. `BlameIsBacked`: FAILED only if the
environment fell short at some moment of the evaluation, ERROR only if RestoreProof lacked the means, or what it looked at
was gone at the second look. A service that goes down between two looks is a failure and never an error. (That every final answer
is one a retry cannot change is not a property: see Findings.)

Processes. `CaptureIsAPrefix`: what is kept is the beginning, up to the cap, and `truncated` says
whether anything is missing. `NoChildOutlivesTheCall`, whichever way the call ends; descendants may.
`NeverBlockedForEver`: `run()` and a program that fills a pipe never wait for each other, with the cap long reached
and the other pipe silent. `CallEnds`: if the timer strikes, although a descendant holds a pipe.

Readiness. `ReadyWasSeenTwice`, `FailureIsNotLateness` (exit code 4, not 5),
`WaitBounded` (the timeout plus one poll, one `ps`, one `logs`), `WaitEnds`.

Recovery point. `NamesWhatWasRestored`: the archive in the report is the restored one, when the
store was left alone between the two look-ups, or the selector is the identifier of a restic
snapshot. `NothingStaleIsRestored`: what `latest` or a directory gives is never older than what
was there all the time. `RpoPassIsEarned`: `RPO_PASS` is backed by something that was restored and is
young enough, however the store changes during the walk, the two look-ups and the copy, provided that nothing is removed or put
back to an older time and that the newest entry of a directory is a regular file (and the timestamp is not a declared one). The provisos are
the code's. `latest` is looked up for the report and again for the restore, and the report
names the other one; a backup forgotten after `inspect()` gives its age to an older one; and a directory
is as young as its youngest subdirectory or link, which anything removed, created or moved there renews (see Findings).

Report. `NeverHalfAReport`: whatever is found under the name of a report is the whole report of that drill.
`ImplementsReportDirectory`: reports appear one at a time and in order, only a power failure takes
any back, and a drill that got as far as its exit has them all there.

History. `KnownGoodHolds`: a series that diff lets through pair by pair has lost nothing over its
whole length. `GateSeesAFailedDrill`: exit code 0 of diff against a proven recovery means exit code 0
of the drill, for a drill that ran to its end. `RtoIsEarned`: the RTO is met exactly if the moment at which all required
checks had passed came in time. `AlarmHasACause`: of two reports of the same checks, diff raises an alarm for
something that got worse or still fails otherwise, and for an improvement in one case only (see Findings).

Type correctness is not among the runs' properties: it is proved of every module that models the code (`TypeCorrect`, `WaitTypeCorrect`).

Configuration. `ScenarioIsSound`: what the rest of the program takes for granted holds of every
accepted configuration, and every refusal has a reason. `NoFalseAlarm`: an issue is about the part it names.
`HidesOnlyItsOwn`: what the next attempt reports was hidden by something that may hide it: a fault that leaves the
Compose file, its services or the checks unread, or a field of the same record on which the hidden one depends (`LooksNoFurther`, pair by pair).
An `include`, an external network or a default of zero hides nothing.
`RepairEnds`: two repairs are enough.

Each property has a mutant of a definition, in the module it is about, that breaks it in the
run's own configuration: the definition directly above the one it mutates.

## Proofs

All by TLAPS, for every value of the constants under the assumptions named in the modules
(`N` a positive number, `Required` among the checks, time limits positive, and so on).
Each proof is Init, one step per action, and the property from the invariant.

* `RecoveryDrill_proofs`: type correctness, the eight safety properties of `drill`,
  `DropIsLastResort` (never destroyed twice), and the refinements of `CheckList` and
  `EnvironmentLease`. None of the properties is inductive. `IInv` adds, by parts:
  where the drill is against the environment value it holds (`PhaseInv`); which children can
  exist in which phase, in particular that `up` is dead once a `down` was started (`ChildInv`,
  the reason for `NothingCreatedAfterDown`); that a `down` that has acted left nothing
  (`ContainersInv`); that the registry holds only what is to be destroyed, and holds it until
  the environment is marked (`RegistryInv`); `Progress` and the report against the `Result`
  (`ProgressInv`, `ReportInv`). The refinement of
  `EnvironmentLease` needs `HeldInv` besides: an `up` that is alive, and an entry in the registry, belong to an
  environment that the drill still holds. `DrillGoesForward` and `NeverStuck` are the two halves of the
  argument for liveness that need no fairness: whatever docker, the timers, the watcher and the threads do, no step takes
  the drill back to a point it has passed, so it makes at most `N + 24` steps; and until the process has
  ended, a step of the drill, the expiry of its budget or a step of the watcher is
  possible, but for the two waits without a limit. (`CanGoOn` says it by states, since `ENABLED` is out of the prover's reach.)
  `SignalIsKept` is the same half for an interruption: the watcher goes on with a signal it has caught, in three steps at most.
  Two theorems say what is left of claims that do not hold (see Findings). `DestroyedUnlessCutShort`: with docker at work,
  the environment outlives the drill in three ways, and there is no fourth; `TakenInv` adds that what the watcher has taken out
  of the registry is not put back. `PassedFallsShortOnlyByBudget`: PASSED is true of the checks that have run, these are all of them unless the
  budget cut the list, and then the exit code is not 0; `CutInv` ties the `Result` to how far the list got and to the exit code.
* `CheckExecutor_proofs`: type correctness, the three invariants, and the refinement of
  `CheckList`, for any list, policies and limits. `LogInv` ties the history to the outcomes and
  to the attempt in progress; `ClockInv` says that what is left of the timer still fits the
  limit of the attempts so far, which is what makes the time bound inductive: it needs the
  few lemmas of arithmetic on limits. `LoopGoesForward`: every step leads to a later check, a later attempt or
  delay, or closer to the end of the timer, so nothing is repeated for ever.
* `BoundedWaits_proofs`, `Readiness`: type correctness, the three invariants of the run, and `OthersDoNotMatter`
  (services outside `wait_for` cannot fail the wait) and `ReadyHasContainers`. `StableInv` says that a count
  above zero is that of the poll directly before, at least an interval ago; `ClockInv` bounds
  the latest time a poll can begin and what follows it. `WaitGoesForward`: while the clock stands still, each step
  takes the loop on within its round, or `ps` to one service more, so that with the bound on the clock the wait has only so many steps.
  `ProcessCapture`: type correctness, `CaptureIsAPrefix`, `NoChildOutlivesTheCall`, for any
  cap, pipe, buffer and number of descendants. `PipeInv` relates kept, taken and written; `EndInv` says who can
  be alive and hold a pipe when; `ReportInv` is about the answer.
  `SomebodyReads`, the part of `NeverBlockedForEver` that needs no fairness: a pipe that anybody can write to, or that holds anything, is being read.
  `CallGoesForward`: every step of `run()` is one less to make, at most one per byte, and no program adds one.
* `RecoveryPoint_proofs`: type correctness and the three properties, for any set of slots and any
  history of the store. `StoreInv`: a time belongs to one slot, and what was there at the start
  has only become newer. `NamesInv` carries the reported identity from the first look-up to the
  extraction; `FreshInv` says that nothing older than the start is on its way; `EarnedInv`, that while
  regular files are the newest entries something in the store is as new as the timestamp, entry by entry through the walk, and that the copy
  has it or will still come to its directory.
* `ReportWriter_proofs`: type correctness, `NeverHalfAReport`, and the refinement of
  `ReportDirectory`, for any number of drills, formats and blocks. `OwnInv`: a path belongs to one drill and format, in
  every directory there ever was, which is where the identifier in the name counts; `FinalInv`: what a final name leads to,
  now or before, is whole on the disk; `WriteInv`: how much of the open file is written and synced; `OrderInv`: the formats
  before the current one are there.
* `DrillHistory_proofs`: type correctness and the three properties, for any scenarios and a
  series of any length. `RunInv`: the outcomes are those of the first checks of the list, one after the other in time,
  so the last required one is the latest, and `ProvenInv` says that this is the moment they had all passed;
  `KeptInv` is the induction over the series. `AlarmHasACause` rests on `OnlyFixed`, about `aggregate()`, `exit_code()` and `rank()` for any checks: if
  checks only change to PASSED, the exit code gets no worse, and the status falls in rank only from FAILED to ERROR.
* `CheckKinds_proofs`: type correctness and the three properties of the run, for any checks and worlds and any number of
  changes. `KindInv` says which kind looks at what; `ShownInv`, which demands some world has met by
  each look; `QuietInv`, what is known of the one world if nothing has changed, which is what lets the order of the looks be compared with the demands
  taken together (`Judgement`).
* `Scenario_proofs`: type correctness, `ScenarioIsSound`, `NoFalseAlarm` and `HidesOnlyItsOwn`, for any configurations, any
  number of repairs and any tree of directories, files and links. Assumed are a tree in which the
  parent of a directory is one and links lead somewhere (`TreeAssumption`), configurations with the fields the parser
  gives them (`DocumentsAssumption`), and a positive limit on timeouts (`LimitsAssumption`). First the paths: `ExistingPathIsConfined` and
  `NewPathIsConfined` say of `resolve_existing()` and `resolve_for_creation()` that what they accept
  lies in the project or below an allowlisted directory, by induction on the length of the path. The induction is
  over numbers only, from the library's least element of a well-founded relation. `IInv` says for each section of `from_text()` which
  issues and values have been collected when it begins (`ProgressInv`, `CollectedInv`) and that a repair leaves
  a configuration (`RepairInv`). `ScenarioIsSound` then follows rule by rule from an empty set of issues. That needs what is
  skipped to be skipped only with an issue in its place. `NoFalseAlarm` compares the configuration with
  the one in which the other parts are repaired: the settings that rules read from the configuration file are never themselves the subject
  of an issue, and so are kept (`SettingsKept`); a file that was found is found again, with the same services in
  it (`FilesKept`); hence each section reports the issue again (`ConfigPersists` to `BackupPersists`).
  `HidesOnlyItsOwn` goes the other way: what the next attempt finds is traced back to an issue of this one, section by
  section (`ConfigAtOnce` to `BackupAtOnce`). It is not true of an operator who writes another fault in place of the first, so it
  rests on `RepairsAssumption`: the settings, paths and identifiers the operator writes have no fault of their own, and make none next to what they leave
  (a time limit that fits the other one, a service that exists, an identifier no other check has). TLC
  evaluates it over all configurations of the run. `HideInv` adds to `IInv` that it still holds after a repair.

Only model-checked:

* the liveness properties: fairness and `ENABLED` are out of the prover's reach. What can be
  said without them is proved (above): `DrillGoesForward` with `NeverStuck`, `SignalIsKept`, `LoopGoesForward`,
  `WaitGoesForward`, `CallGoesForward` with `SomebodyReads`, and the time bounds of the check loop and of the readiness wait;
* `RepairEnds`: how many repairs are enough depends on how many faults hide one another, and two is the number for the
  configurations of the run. What holds of any is `HidesOnlyItsOwn`.

Proofs and runs are about the same modules, and the runs replace no definition.

## Findings

Each is a run whose single property TLC finds violated, and is described with its quotation in
`PROJECT.json`.

| Run | What happens |
|---|---|
| `claim_destroyed` | a signal, or the end of the budget, during `teardown()`: `torn_down` is already set and the registry empty, so nobody destroys, the containers stay, and after the budget the report says "the recovery environment has been destroyed". Also reached with a signal during `up`, whose child outlives the process |
| `claim_passed` | the budget expires between two checks: the report says PASSED though a required check never ran (the exit code is 5) |
| `claim_wait_for` | a service of `wait_for` without a container counts as ready |

Seen in the code while modelling, without a run:

* Interruption and budget: an interruption leaves the restored data, since `process::exit` runs no destructor
  (`cli/src/main.rs:193`); the budget expires during a local copy, the workspace is removed, and the
  copy thread creates it again (`storage/src/local.rs:149`, against `runner.rs:12-15`); the drop guard also
  runs on every expiry of the budget, where `environment.rs:311-313` speaks of panics.
* Readiness: a service that keeps restarting is waited for and
  ends as a timeout, where `docs/troubleshooting.md:118-119` says that it fails the drill
  immediately; a timeout of the wait can list no pending service, when all were ready in the poll at the
  deadline; a service that fails and recovers between two polls is not noticed.
* Checks: wrong file size and wrong exit code are retried (`file.rs:91`, `file.rs:100`, `program.rs:96`), where
  `executor.rs:24-27` calls such answers final; a check program has a limit of 3600 s of its own, so a check with a longer timeout
  ends as an error; a server that is still starting (57P03) or has no connection left (53300) refuses the connection with a
  database error, which `sql.rs:73-76` takes for a rejected query and makes final, where `executor.rs:24` says "Retries exist to
  absorb a service that is still warming up": a slow start costs the check its retries (`OpenDatabase` has the step); a query whose value is NaN, from a float column or as text, passes `min_value` and `max_value` alike
  (`sql.rs:245-257`), where `docs/checks.md:157` calls them bounds on the value.
* Recovery point: a local directory is dated by its newest entry of any sort (`local.rs:53-67`), subdirectories, links and special files
  included, which `copy_tree()` does not restore (`local.rs:220-233`): a fresh link, an empty subdirectory, or an old dump moved in with
  its old time gives `RPO_PASS` over old files, with nothing removed; and so does rotating an old file away.
* Restore: `latest` is resolved for the report and again for the restore (`restic.rs:172`, against its comment); the log of a restore (`RestoreOutcome.log`) with the entries it skipped never
  reaches the report, where `docs/configuration.md:98` says "skipped and reported"; `RPO_PASS` can
  appear over a restore that failed; `--no-cleanup` announces that the data
  are left in place (`cli/src/commands/run.rs:29-33`) and the workspace is removed all the same.
* Report: `--output` is written in place, so that a reader of that file may see half a report, which the files of the
  directory rule out.
* Comparison: the order of `rank()` is not that of `aggregate()` (`diff.rs:121-130`): of two required
  checks SKIPPED and FAILED, fixing the second moves the status from FAILED to ERROR, and diff reports
  a regression (`AlarmHasACause` is the proof that it is the only alarm of this sort); a drill that was cut short can have met its RTO, and diff treats the checks it did not run as removed;
  a clock that is set back during a drill makes the RTO 0.
* Configuration: validation is not one pass (`scenario.rs:13-14`): rules are skipped and others return early
  (`scenario.rs:472-478`, `545-551`, `863-870`, `907-914`), which is what `HidesOnlyItsOwn` delimits; a list of checks that are all disabled is accepted.

## Not modelled, and why

* Panics and SIGKILL of the process itself, except in `ReportWriter`; a second signal.
* Requests a killed client has left in the daemon: a child that is killed has no effect
  afterwards. If the daemon goes on with them, the properties about leftovers are weaker still.
* Descendants of check programs outside `ProcessCapture`; resolver threads of http and sql are folded into `hasher`'s
  nondeterminism only as far as the runtime waits for a thread.
* A read error of a pipe, which `read_capped()` takes for its end.
* Whether containers are up when `check` begins: the operator has started them.
* The recovered environment in `CheckKinds`: external, and any change of it is possible; numeric SQL values are integers or NaN, where the code has doubles: an integer above 2^53 is rounded (`sql.rs:142`) before it is compared.
* Configuration: warnings (they only count with `--strict`); the scanners behind the guards for SQL statements, URLs,
  headers and arguments, of which the model has the answers; links that lead to nothing; limits on sizes of files.
* `DrillHistory`: clocks that are set back, the RPO reference file, the differences in seconds.
* Text: messages, redaction, logs, the integrity digest, rendering, the JSON of `docker compose ps`, `plan`, `report`, `init`.

## Plan

1. Done: `Verdict`, `RecoveryDrill`, `CheckList`, `CheckExecutor`, `Readiness`, `RecoveryPoint`,
   `ReportDirectory`, `ReportWriter`, `ProcessCapture`, `DrillHistory`, `CheckKinds`, `Scenario` with its three
   modules of rules.
2. Done: proofs of `Scenario`, section by section; the lease of the environment as the abstract
   specification of `RecoveryDrill`'s tear-down; the halves of the liveness properties that need no fairness.
   Every safety property of a run but `RepairEnds` is a theorem.
3. Pure algorithms against references over bounded inputs: the scanner of the SQL
   guard, the redactor's overlapping secrets and truncation.
4. Composition: the three results of `Readiness` as one abstract wait that `RecoveryDrill` refines too; the
   budget as one abstraction of every await.
