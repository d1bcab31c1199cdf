----------------------------- MODULE Readiness -----------------------------
(***************************************************************************)
(* RecoveryEnvironment::wait_until_ready (runner/src/environment.rs): the  *)
(* loop between `docker compose up` and the first check, opened up.  The   *)
(* services change while `docker compose ps` looks at them, one after the  *)
(* other, and between two polls.  RecoveryDrill takes the whole loop for   *)
(* the step WaitUntilReady.                                                *)
(*                                                                         *)
(* Time passes in ticks of one poll interval.  A timer that has run out    *)
(* fires before the next tick.                                             *)
(***************************************************************************)
EXTENDS Integers

CONSTANTS
  Services,   \* services of the Compose file
  Timeout,    \* recovery.startup_timeout_seconds, in ticks
  PsLimit,    \* time limit of `docker compose ps`
  LogsLimit,  \* time limit of `docker compose logs`
  Unseen      \* not a state: what ps has not yet said of a service

ASSUME TimeAssumption ==
  Timeout \in Nat \ {0} /\ PsLimit \in Nat \ {0} /\ LogsLimit \in Nat \ {0}

POLL_INTERVAL == 1
REQUIRED_STABLE_POLLS == 2

\* State, health and exit code of a container, as far as the loop tells them
\* apart.  "none": the service has no container, as one that belongs to a Compose
\* profile that is not active.  "running": without a healthcheck, or healthy.
\* "created": or paused.  "exited1": with any code but 0, or dead.
States == {"none", "created", "starting", "running", "restarting", "unhealthy",
           "exited0", "exited1"}

ASSUME UnseenAssumption == Unseen \notin States

VARIABLES
  waitFor,   \* recovery.wait_for: never changes
  services,  \* the services, in the daemon
  phase,     \* where the loop is
  timer,     \* ticks left of the command, or of the sleep
  clock,     \* ticks since the loop began
  snapshot,  \* what the current `docker compose ps` has said so far
  stable,    \* stable_polls
  previous,  \* the poll before this one: its time, and whether all was ready
  verdict    \* the Result, "none" until it is decided

loop == <<phase, timer, snapshot, stable, previous, verdict>>
waitVars == <<waitFor, services, clock, loop>>

WaitTypeOK ==
  /\ waitFor \subseteq Services
  /\ services \in [Services -> States]
  /\ phase \in {"ps", "sleep", "logs", "done"}
  /\ timer \in 0..(PsLimit + LogsLimit + POLL_INTERVAL)
  /\ clock \in Nat
  /\ snapshot \in [Services -> States \cup {Unseen}]
  /\ stable \in 0..REQUIRED_STABLE_POLLS
  /\ previous \in [at : Nat, ready : BOOLEAN]
  /\ verdict \in {"none", "ok", "environment", "timeout"}

WaitInit ==
  /\ waitFor \in SUBSET Services
  /\ services \in [Services -> States]
  /\ phase = "ps"
  /\ timer = PsLimit
  /\ clock = 0
  /\ snapshot = [s \in Services |-> Unseen]
  /\ stable = 0
  /\ previous = [at |-> 0, ready |-> FALSE]
  /\ verdict = "none"

-----------------------------------------------------------------------------
(* One snapshot, judged.                                                   *)

\* ComposeService::is_ready and has_failed.
IsReady(state) == state \in {"running", "exited0"}
HasFailed(state) == state \in {"unhealthy", "exited1"}

\* `docker compose ps --all` lists containers, not services.
Listed == {s \in Services : snapshot[s] # "none"}

Watched == IF waitFor = {} THEN Listed ELSE Listed \cap waitFor

AllReady == \A s \in Watched : IsReady(snapshot[s])
SomeFailed == \E s \in Watched : HasFailed(snapshot[s])

\* Mutant of DeadlinePassed: the deadline itself is still in time.
DeadlineLongPassed == clock > Timeout

DeadlinePassed == clock >= Timeout

-----------------------------------------------------------------------------
(* The loop.                                                               *)

End(result) ==
  /\ phase' = "done"
  /\ verdict' = result
  /\ UNCHANGED <<timer, previous>>

\* The last lines of the container logs go into the error.
Explain(result) ==
  /\ phase' = "logs"
  /\ timer' = LogsLimit
  /\ verdict' = result
  /\ UNCHANGED previous

Sleep ==
  /\ phase' = "sleep"
  /\ timer' = POLL_INTERVAL
  /\ previous' = [at |-> clock, ready |-> AllReady]
  /\ UNCHANGED verdict

\* `ps` could not be run, failed, or printed what cannot be parsed.
PsFails ==
  /\ phase = "ps"
  /\ End("environment")
  /\ UNCHANGED <<waitFor, services, clock, snapshot, stable>>

\* Mutant of PsTimesOut: no time limit.
PsNeverTimesOut ==
  /\ FALSE
  /\ UNCHANGED waitVars

PsTimesOut ==
  /\ phase = "ps" /\ timer = 0
  /\ End("timeout")
  /\ UNCHANGED <<waitFor, services, clock, snapshot, stable>>

PsAnswers == phase = "ps" /\ \A s \in Services : snapshot[s] # Unseen

\* No container, or a service that has failed: waiting cannot fix it.
Fail ==
  /\ PsAnswers
  /\ \/ Listed = {} /\ End("environment")
     \/ Listed # {} /\ SomeFailed /\ Explain("environment")
  /\ UNCHANGED <<waitFor, services, clock, snapshot, stable>>

\* Ready in this poll: enough if it was ready in the one before.
PollReady ==
  /\ PsAnswers /\ Listed # {} /\ ~SomeFailed /\ AllReady
  /\ stable' = stable + 1
  /\ IF stable' >= REQUIRED_STABLE_POLLS THEN End("ok")
     ELSE IF DeadlinePassed THEN Explain("timeout") ELSE Sleep
  /\ UNCHANGED <<waitFor, services, clock, snapshot>>

\* Mutant of PollNotReady: the count of stable polls is kept.
PollNotReadyKeepsCount ==
  /\ PsAnswers /\ Listed # {} /\ ~SomeFailed /\ ~AllReady
  /\ IF DeadlinePassed THEN Explain("timeout") ELSE Sleep
  /\ UNCHANGED <<waitFor, services, clock, snapshot, stable>>

\* Mutant of PollNotReady: the deadline looked at before the failures.
PollNotReadyDeadlineFirst ==
  /\ PsAnswers /\ Listed # {} /\ ~AllReady
  /\ stable' = 0
  /\ \/ DeadlinePassed /\ Explain("timeout")
     \/ ~DeadlinePassed /\ ~SomeFailed /\ Sleep
  /\ UNCHANGED <<waitFor, services, clock, snapshot>>

PollNotReady ==
  /\ PsAnswers /\ Listed # {} /\ ~SomeFailed /\ ~AllReady
  /\ stable' = 0
  /\ IF DeadlinePassed THEN Explain("timeout") ELSE Sleep
  /\ UNCHANGED <<waitFor, services, clock, snapshot>>

Wake ==
  /\ phase = "sleep" /\ timer = 0
  /\ phase' = "ps"
  /\ timer' = PsLimit
  /\ snapshot' = [s \in Services |-> Unseen]
  /\ UNCHANGED <<waitFor, services, clock, stable, previous, verdict>>

\* Whatever becomes of `docker compose logs`.
LogsEnd ==
  /\ phase = "logs"
  /\ phase' = "done"
  /\ UNCHANGED <<waitFor, services, clock, timer, snapshot, stable, previous, verdict>>

LogsTimeOut == timer = 0 /\ LogsEnd

-----------------------------------------------------------------------------
(* Outside the loop: the clock, docker and the services.                   *)

Tick ==
  /\ phase # "done" /\ timer > 0
  /\ timer' = timer - 1
  /\ clock' = clock + 1
  /\ UNCHANGED <<waitFor, services, phase, snapshot, stable, previous, verdict>>

\* `docker compose ps` learns the state of one service.
Observe(s) ==
  /\ phase = "ps" /\ snapshot[s] = Unseen
  /\ snapshot' = [snapshot EXCEPT ![s] = services[s]]
  /\ UNCHANGED <<waitFor, services, clock, phase, timer, stable, previous, verdict>>

\* What may become of a container without anybody asking.
Successors(state) ==
  IF state \in {"created", "restarting"} THEN {"starting", "running", "exited1"}
  ELSE IF state \in {"starting", "running", "unhealthy"}
       THEN {"running", "unhealthy", "restarting", "exited0", "exited1"}
  ELSE {}

Move(s) ==
  /\ phase # "done"
  /\ \E state \in Successors(services[s]) : services' = [services EXCEPT ![s] = state]
  /\ UNCHANGED <<waitFor, clock, loop>>

WaitOver == phase = "done" /\ UNCHANGED waitVars

-----------------------------------------------------------------------------

WaitNext ==
  \/ PsFails \/ PsTimesOut \/ Fail \/ PollReady \/ PollNotReady
  \/ Wake \/ LogsEnd \/ LogsTimeOut
  \/ Tick
  \/ \E s \in Services : Observe(s) \/ Move(s)
  \/ WaitOver

WaitSpec == WaitInit /\ [][WaitNext]_waitVars

\* Timers and the clock.  Docker may hang.
WaitFairSpec == WaitSpec /\ WF_waitVars(PsTimesOut \/ Wake \/ LogsTimeOut) /\ WF_waitVars(Tick)

-----------------------------------------------------------------------------
(* Properties.                                                             *)

\* Checks start on an environment that was seen ready twice in a row, a poll
\* interval apart, and in which no watched service has been seen failed.
ReadyWasSeenTwice ==
  verdict = "ok" =>
    /\ \A s \in Services : s \in waitFor \/ waitFor = {} =>
         snapshot[s] \in {"none", "running", "exited0"}
    /\ previous.ready /\ previous.at + POLL_INTERVAL <= clock

\* A watched service that has failed is an environment that failed, and never one
\* that was merely late: exit code 4 and not 5.
FailureIsNotLateness ==
  phase = "logs" /\ verdict = "timeout" =>
    \A s \in Watched : ~HasFailed(snapshot[s])

\* A service outside wait_for, when there is one, never decides the wait: it can
\* only fail for a watched service, or for a project without containers.
OthersDoNotMatter ==
  phase = "logs" /\ verdict = "environment" =>
    \E s \in Services : (waitFor = {} \/ s \in waitFor) /\ HasFailed(snapshot[s])

\* How late the answer may be: a poll begun by the deadline, its `ps` and `logs`.
WaitBounded == clock <= (Timeout - 1) + POLL_INTERVAL + PsLimit + LogsLimit

\* The wait ends, whether or not docker ever answers.
WaitEnds == <>(phase = "done")

-----------------------------------------------------------------------------
(* What the repository says of the program, and what it does not do.       *)

\* "Services that must be ready before checks start" (docs/configuration.md, of
\* wait_for): checks do not start unless each of them was seen ready.
RequestedServicesAreReady ==
  verdict = "ok" => \A s \in waitFor : IsReady(snapshot[s])

=============================================================================
