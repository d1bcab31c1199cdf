--------------------------- MODULE CheckExecutor ---------------------------
(***************************************************************************)
(* The loop over the checks (runner/src/runner.rs, wait_and_check) with    *)
(* run_check() (checks/src/executor.rs) opened up: the attempts of each    *)
(* check, the time limit of an attempt, the delay between two attempts,    *)
(* and what an attempt starts outside the loop and may leave behind.       *)
(*                                                                         *)
(* Time passes in ticks.  A timer that has run out fires before the next   *)
(* tick: the latency of the scheduler is left out.                         *)
(***************************************************************************)
EXTENDS Verdict, Sequences, FiniteSets

CONSTANTS
  N,            \* number of checks in checks.yaml
  MaxAttempts,  \* largest `retry.attempts` of a check
  Timeout,      \* time limit of one attempt, in ticks
  Delay         \* delay between two attempts, in ticks

ASSUME NAssumption == N \in Nat \ {0}
ASSUME AttemptsAssumption == MaxAttempts \in Nat
ASSUME TimeAssumption == Timeout \in Nat \ {0} /\ Delay \in Nat

Checks == 1..N

\* What an attempt waits for: child processes (command, script and container),
\* a thread of the blocking pool (file), or a connection (http and sql).
Kinds == {"program", "thread", "future"}

Policies == [enabled : BOOLEAN, attempts : 0..MaxAttempts, kind : Kinds]

\* CheckEvaluation, up to its text: "unavailable" and "mismatch" are the two
\* uses of CheckEvaluation::failed(), "definitive" is a final_answer().
Evaluations == {"passed", "skipped", "unavailable", "mismatch", "definitive", "error"}

VARIABLES
  policy,    \* checks.yaml: never changes
  pc,        \* where the loop is
  next,      \* the check that runs, or will run next
  attempts,  \* attempts of that check so far
  timer,     \* ticks left of the attempt, or of the delay
  clock,     \* ticks since the check began
  status,    \* Progress.checks: the status of an outcome ...
  used,      \* ... and its number of attempts
  programs,  \* the attempts whose child process is alive
  threads,   \* the attempts whose thread is alive
  log        \* every evaluation of every check, in order

outcomes == <<next, status, used>>
world == <<programs, threads>>
vars == <<policy, pc, outcomes, attempts, timer, clock, world, log>>

\* `attempts: 0` means one attempt.
AtLeastOne(n) == IF n = 0 THEN 1 ELSE n

Attempt == Checks \X (1..AtLeastOne(MaxAttempts))

TypeOK ==
  /\ policy \in [Checks -> Policies]
  /\ pc \in {"next", "attempt", "sleep", "done", "cancelled"}
  /\ next \in 1..(N + 1)
  /\ attempts \in 0..AtLeastOne(MaxAttempts)
  /\ timer \in Nat
  /\ clock \in Nat
  /\ status \in [Checks -> CheckStatus \cup {"none"}]
  /\ used \in [Checks -> 0..AtLeastOne(MaxAttempts)]
  /\ programs \subseteq Attempt
  /\ threads \subseteq Attempt
  /\ log \in [Checks -> Seq(Evaluations)]

Init ==
  /\ policy \in [Checks -> Policies]
  /\ pc = "next"
  /\ next = 1
  /\ attempts = 0
  /\ timer = 0
  /\ clock = 0
  /\ status = [c \in Checks |-> "none"]
  /\ used = [c \in Checks |-> 0]
  /\ programs = {}
  /\ threads = {}
  /\ log = [c \in Checks |-> <<>>]

-----------------------------------------------------------------------------
(* The evaluation of one attempt.                                          *)

StatusOf(e) ==
  IF e = "passed" THEN "PASSED"
  ELSE IF e = "skipped" THEN "SKIPPED"
  ELSE IF e = "error" THEN "ERROR"
  ELSE "FAILED"

\* Mutant of Retryable: final_answer() forgotten.
RetryableAnyFailure(e) == e \in {"unavailable", "mismatch", "definitive"}

Retryable(e) == e \in {"unavailable", "mismatch"}

\* Programs and containers may be skipped; only a digest and a query that the
\* database has rejected are definitive.
Answers(kind) ==
  Evaluations \ {IF kind = "program" THEN "definitive" ELSE "skipped"}

\* Mutant of Allowed: `attempts` taken for the number of retries.
AllowedRetries(c) == policy[c].attempts + 1

Allowed(c) == AtLeastOne(policy[c].attempts)

-----------------------------------------------------------------------------
(* run_check().                                                            *)

\* The outcome of a check goes to the report.
Push(s, n) ==
  /\ pc' = "next"
  /\ next' = next + 1
  /\ status' = [status EXCEPT ![next] = s]
  /\ used' = [used EXCEPT ![next] = n]

\* An executor may answer before it starts anything outside: a file that is
\* missing, a program that is not installed, commands that are not allowed.
StartAttempt(n) ==
  /\ pc' = "attempt"
  /\ attempts' = n
  /\ timer' = Timeout
  /\ LET this == {<<next, n>>} IN
     \/ UNCHANGED world
     \/ policy[next].kind = "program" /\ programs' = programs \cup this /\ UNCHANGED threads
     \/ policy[next].kind = "thread" /\ threads' = threads \cup this /\ UNCHANGED programs

BeginCheck ==
  /\ pc = "next" /\ next <= N /\ policy[next].enabled
  /\ StartAttempt(1)
  /\ clock' = 0
  /\ UNCHANGED <<policy, outcomes, log>>

SkipCheck ==
  /\ pc = "next" /\ next <= N /\ ~policy[next].enabled
  /\ Push("SKIPPED", 0)
  /\ UNCHANGED <<policy, attempts, timer, clock, world, log>>

ListEnds ==
  /\ pc = "next" /\ next = N + 1
  /\ pc' = "done"
  /\ UNCHANGED <<policy, outcomes, attempts, timer, clock, world, log>>

\* Mutant of Conclude: every attempt is an outcome, until there is no retry left.
ConcludeEveryAttempt(e) ==
  /\ log' = [log EXCEPT ![next] = Append(@, e)]
  /\ status' = [status EXCEPT ![next] = StatusOf(e)]
  /\ used' = [used EXCEPT ![next] = attempts]
  /\ IF Retryable(e) /\ attempts < Allowed(next)
     THEN pc' = "sleep" /\ timer' = Delay /\ UNCHANGED next
     ELSE pc' = "next" /\ next' = next + 1 /\ UNCHANGED timer

\* An evaluation is the outcome, or there is another attempt after a delay.
Conclude(e) ==
  /\ log' = [log EXCEPT ![next] = Append(@, e)]
  /\ \/ /\ Retryable(e) /\ attempts < Allowed(next)
        /\ pc' = "sleep"
        /\ timer' = Delay
        /\ UNCHANGED outcomes
     \/ /\ ~Retryable(e) \/ attempts >= Allowed(next)
        /\ Push(StatusOf(e), attempts)
        /\ UNCHANGED timer

\* The executor answers: its child has exited, its thread has returned.
Answer(e) ==
  /\ pc = "attempt" /\ e \in Answers(policy[next].kind)
  /\ Conclude(e)
  /\ programs' = programs \ {<<next, attempts>>}
  /\ threads' = threads \ {<<next, attempts>>}
  /\ UNCHANGED <<policy, attempts, clock>>

\* Mutant of AttemptTimesOut: the child is not killed with the future.
AttemptTimesOutAndGoesOn ==
  /\ pc = "attempt" /\ timer = 0
  /\ Conclude("unavailable")
  /\ UNCHANGED <<policy, attempts, clock, world>>

\* Mutant of AttemptTimesOut: a time limit for the first attempt only.
AttemptTimesOutOnce ==
  /\ pc = "attempt" /\ timer = 0 /\ attempts = 1
  /\ Conclude("unavailable")
  /\ programs' = programs \ {<<next, attempts>>}
  /\ UNCHANGED <<policy, attempts, clock, threads>>

\* tokio::time::timeout drops the attempt: a child is killed, a thread is not.
AttemptTimesOut ==
  /\ pc = "attempt" /\ timer = 0
  /\ Conclude("unavailable")
  /\ programs' = programs \ {<<next, attempts>>}
  /\ UNCHANGED <<policy, attempts, clock, threads>>

Retry ==
  /\ pc = "sleep" /\ timer = 0
  /\ StartAttempt(attempts + 1)
  /\ UNCHANGED <<policy, outcomes, clock, log>>

\* The total budget drops the loop, at the attempt or at the delay.
Cancel ==
  /\ pc \in {"attempt", "sleep"}
  /\ pc' = "cancelled"
  /\ programs' = programs \ {<<next, attempts>>}
  /\ UNCHANGED <<policy, outcomes, attempts, timer, clock, threads, log>>

-----------------------------------------------------------------------------
(* Outside the loop.                                                       *)

Tick ==
  /\ pc \in {"attempt", "sleep"} /\ timer > 0
  /\ timer' = timer - 1
  /\ clock' = clock + 1
  /\ UNCHANGED <<policy, pc, outcomes, attempts, world, log>>

\* The thread of an attempt that is no longer awaited returns.
ThreadEnds ==
  /\ \E t \in threads : /\ ~(pc = "attempt" /\ t = <<next, attempts>>)
                        /\ threads' = threads \ {t}
  /\ UNCHANGED <<policy, pc, outcomes, attempts, timer, clock, programs, log>>

Terminated == pc \in {"done", "cancelled"} /\ threads = {} /\ UNCHANGED vars

-----------------------------------------------------------------------------

LoopStep == BeginCheck \/ SkipCheck \/ ListEnds \/ AttemptTimesOut \/ Retry

Next ==
  \/ LoopStep
  \/ \E e \in Evaluations : Answer(e)
  \/ Cancel
  \/ Tick
  \/ ThreadEnds
  \/ Terminated

Spec == Init /\ [][Next]_vars

\* The loop and the clock go on.  Nothing is asked of what a check waits for.
FairSpec == Spec /\ WF_vars(LoopStep) /\ WF_vars(Tick)

-----------------------------------------------------------------------------
(* Properties.                                                             *)

\* An outcome is the last word of its check, and tells how hard it was to get:
\* every earlier attempt failed in a way that may be retried, a failure of that
\* kind is an outcome only when the attempts are used up, and the number of
\* attempts in the report is the number there were.  A retry never hides an
\* answer, and never repeats a definitive one.
OutcomeIsTheLastWord ==
  \A c \in 1..(next - 1) :
    LET evaluations == log[c]
        last == Len(evaluations)
    IN /\ used[c] = last
       /\ IF policy[c].enabled
          THEN /\ last \in 1..Allowed(c)
               /\ status[c] = StatusOf(evaluations[last])
               /\ \A i \in 1..(last - 1) : StatusOf(evaluations[i]) = "FAILED"
               /\ \A i \in 1..last : evaluations[i] = "definitive" => i = last
               /\ evaluations[last] = "unavailable" =>
                    last = AtLeastOne(policy[c].attempts)
          ELSE last = 0 /\ status[c] = "SKIPPED"

\* The longest a check may take, from the configuration alone.
TimeLimit(c) ==
  LET a == AtLeastOne(policy[c].attempts)
  IN a * Timeout + (a - 1) * Delay

\* A check never takes longer than its attempts and the delays between them,
\* whatever it waits for: there is no delay after the last attempt.
CheckTimeBounded == pc \in {"attempt", "sleep"} => clock <= TimeLimit(next)

\* A check that changes something in the recovery environment is safe to retry:
\* no attempt runs beside the one it repeats, and none goes on when the loop
\* has gone on or has been cancelled.
NoProgramLeftBehind ==
  programs # {} => pc = "attempt" /\ programs = {<<next, attempts>>}

\* The loop is a CheckList: what RecoveryDrill takes for one step is one step.
List == INSTANCE CheckList WITH N <- N, next <- next, status <- status
ImplementsCheckList == List!Spec

\* The checks come to an end although nothing they wait for ever answers.
ChecksEnd == <>(pc \in {"done", "cancelled"})

=============================================================================
