------------------------ MODULE CheckExecutor_proofs ------------------------
(***************************************************************************)
(* Proofs about CheckExecutor, for any number of checks, any retry policy, *)
(* any time limit and any delay.                                           *)
(***************************************************************************)
EXTENDS CheckExecutor, TLAPS

\* What an outcome says of the evaluations it came from.
Story(c) ==
  LET last == Len(log[c])
  IN /\ used[c] = last
     /\ policy[c].enabled =>
          /\ last \in 1..Allowed(c)
          /\ status[c] = StatusOf(log[c][last])
          /\ \A i \in 1..(last - 1) : Retryable(log[c][i])
          /\ Retryable(log[c][last]) => last = Allowed(c)
     /\ ~policy[c].enabled => last = 0 /\ status[c] = "SKIPPED"

\* The evaluations recorded, against where the loop is.
LogInv ==
  /\ \A c \in 1..(next - 1) : Story(c)
  /\ \A c \in (next + 1)..N : log[c] = <<>>
  /\ pc = "next" /\ next <= N => log[next] = <<>>
  /\ pc \in {"attempt", "sleep"} =>
       /\ next <= N /\ policy[next].enabled
       /\ attempts \in 1..Allowed(next)
       /\ \A i \in 1..Len(log[next]) : Retryable(log[next][i])
  /\ pc = "attempt" => Len(log[next]) = attempts - 1
  /\ pc = "sleep" => Len(log[next]) = attempts /\ attempts < Allowed(next)

\* What is left of the timer still fits the limit of the attempts so far.
ClockInv ==
  /\ pc = "attempt" => clock + timer <= attempts * Timeout + (attempts - 1) * Delay
  /\ pc = "sleep" => clock + timer <= attempts * Timeout + attempts * Delay

IInv == TypeOK /\ LogInv /\ ClockInv /\ NoProgramLeftBehind

-----------------------------------------------------------------------------
(* Lemmas.                                                                 *)

\* The number of attempts a check may make is at least one and at most that of
\* the most patient policy.
LEMMA AllowedType ==
  ASSUME TypeOK, NEW c \in Checks
  PROVE  Allowed(c) \in 1..AtLeastOne(MaxAttempts) /\ Allowed(c) \in Nat \ {0}
  BY AttemptsAssumption DEF TypeOK, Policies, Allowed, AtLeastOne

\* An evaluation has a status that an outcome may have.
LEMMA StatusOfType == \A e \in Evaluations : StatusOf(e) \in CheckStatus
  BY DEF StatusOf, CheckStatus

\* A limit for n attempts is one for more.
LEMMA LimitGrows ==
  ASSUME NEW n \in Nat \ {0}, NEW m \in Nat \ {0}, n <= m
  PROVE  n * Timeout + (n - 1) * Delay <= m * Timeout + (m - 1) * Delay
<1> DEFINE d == m - n
<1>1. d \in Nat /\ m = n + d
  OBVIOUS
<1>2. Timeout \in Nat /\ Delay \in Nat
  BY TimeAssumption
<1>3. d * Timeout \in Nat /\ d * Delay \in Nat
  BY <1>1, <1>2
<1>4. m * Timeout = n * Timeout + d * Timeout
  BY <1>1, <1>2
<1>5. (m - 1) * Delay = (n - 1) * Delay + d * Delay
  BY <1>1, <1>2
<1> QED
  BY <1>2, <1>3, <1>4, <1>5

\* One more attempt and the delay before it.
LEMMA LimitSteps ==
  ASSUME NEW n \in Nat
  PROVE  (n + 1) * Timeout + n * Delay = n * Timeout + n * Delay + Timeout
  BY TimeAssumption

\* The limit for n attempts leaves room for an attempt that begins after the
\* others and their delays.
LEMMA LimitStarts ==
  ASSUME NEW n \in Nat \ {0}, NEW t \in Nat, t <= (n - 1) * Timeout + (n - 1) * Delay
  PROVE  t + Timeout <= n * Timeout + (n - 1) * Delay
<1> DEFINE k == n - 1
<1>1. k \in Nat /\ n = k + 1
  OBVIOUS
<1>2. t <= k * Timeout + k * Delay
  OBVIOUS
<1>3. (k + 1) * Timeout + k * Delay = k * Timeout + k * Delay + Timeout
  BY <1>1, LimitSteps
<1>4. k * Timeout \in Nat /\ k * Delay \in Nat /\ Timeout \in Nat
  BY <1>1, TimeAssumption
<1>5. t + Timeout <= (k + 1) * Timeout + k * Delay
  BY <1>2, <1>3, <1>4
<1> QED
  BY <1>1, <1>5

\* A loop that has not begun satisfies the inductive invariant.
LEMMA InitIInv == Init => IInv
<1> SUFFICES ASSUME Init
             PROVE  IInv
  OBVIOUS
<1>1. TypeOK
  BY NAssumption, AttemptsAssumption DEF Init, TypeOK, Checks, AtLeastOne, Attempt
<1>2. LogInv
  BY NAssumption DEF Init, LogInv, Checks
<1>3. ClockInv /\ NoProgramLeftBehind
  BY DEF Init, ClockInv, NoProgramLeftBehind
<1> QED
  BY <1>1, <1>2, <1>3 DEF IInv

\* The end of an attempt, by an answer or by its time limit, keeps the invariant.
LEMMA ConcludeIInv ==
  ASSUME IInv, pc = "attempt", NEW e \in Evaluations, Conclude(e),
         programs' = programs \ {<<next, attempts>>}, threads' \subseteq threads,
         UNCHANGED <<policy, attempts, clock>>
  PROVE  IInv'
<1> USE NAssumption, AttemptsAssumption, TimeAssumption
<1>1. /\ TypeOK /\ next \in Checks /\ next \in Nat /\ N \in Nat
      /\ policy[next].enabled
      /\ attempts \in 1..Allowed(next) /\ attempts \in Nat
      /\ Allowed(next) \in 1..AtLeastOne(MaxAttempts)
      /\ log[next] \in Seq(Evaluations) /\ Len(log[next]) = attempts - 1
  BY AllowedType DEF IInv, LogInv, TypeOK, Checks
<1>2. /\ log' = [log EXCEPT ![next] = Append(@, e)]
      /\ log'[next] = Append(log[next], e)
      /\ \A c \in Checks \ {next} : log'[c] = log[c]
  BY <1>1 DEF Conclude, TypeOK
<1>3. /\ log'[next] \in Seq(Evaluations) /\ Len(log'[next]) = attempts
      /\ log'[next][attempts] = e
      /\ \A i \in 1..(attempts - 1) : log'[next][i] = log[next][i]
  BY <1>1, <1>2
<1>4. \A i \in 1..(attempts - 1) : Retryable(log'[next][i])
  BY <1>1, <1>3 DEF IInv, LogInv
<1>5. CASE /\ Retryable(e) /\ attempts < Allowed(next)
           /\ pc' = "sleep" /\ timer' = Delay /\ UNCHANGED outcomes
  <2>1. TypeOK'
    BY <1>1, <1>2, <1>3, <1>5 DEF TypeOK, outcomes, Attempt
  <2>2. LogInv'
    <3>1. \A c \in 1..(next - 1) : Story(c)'
      <4> SUFFICES ASSUME NEW c \in 1..(next - 1)
                   PROVE  Story(c)'
        OBVIOUS
      <4>1. Story(c) /\ c \in Checks \ {next} /\ log'[c] = log[c]
        BY <1>1, <1>2 DEF IInv, LogInv, Checks
      <4> QED
        BY <4>1, <1>5 DEF Story, outcomes, Allowed
    <3>2. \A c \in (next + 1)..N : log'[c] = <<>>
      BY <1>1, <1>2 DEF IInv, LogInv, Checks
    <3>3. \A i \in 1..Len(log'[next]) : Retryable(log'[next][i])
      BY <1>1, <1>3, <1>4, <1>5
    <3> QED
      BY <3>1, <3>2, <3>3, <1>1, <1>3, <1>5 DEF LogInv, outcomes, Allowed, Checks
  <2>3. ClockInv'
    <3>1. clock + timer <= attempts * Timeout + (attempts - 1) * Delay
      BY DEF IInv, ClockInv
    <3>2. (attempts - 1) * Delay + Delay = attempts * Delay
      BY <1>1
    <3>3. /\ clock \in Nat /\ timer \in Nat /\ Delay \in Nat
          /\ attempts * Timeout \in Nat /\ (attempts - 1) * Delay \in Int
          /\ attempts * Delay \in Nat
      BY <1>1 DEF TypeOK
    <3>4. clock + Delay <= attempts * Timeout + attempts * Delay
      BY <3>1, <3>2, <3>3
    <3> QED
      BY <3>4, <1>5 DEF ClockInv
  <2>4. NoProgramLeftBehind'
    BY DEF IInv, NoProgramLeftBehind
  <2> QED
    BY <2>1, <2>2, <2>3, <2>4 DEF IInv
<1>6. CASE /\ ~Retryable(e) \/ attempts >= Allowed(next)
           /\ Push(StatusOf(e), attempts) /\ UNCHANGED timer
  <2>1. TypeOK'
    <3>1. next' \in 1..(N + 1) /\ pc' = "next" /\ timer' \in Nat /\ clock' \in Nat
      BY <1>1, <1>6 DEF TypeOK, Push, Checks
    <3>2. status' \in [Checks -> CheckStatus \cup {"none"}]
      BY <1>1, <1>6, StatusOfType DEF TypeOK, Push
    <3>3. used' \in [Checks -> 0..AtLeastOne(MaxAttempts)]
      BY <1>1, <1>6 DEF TypeOK, Push
    <3>4. log' \in [Checks -> Seq(Evaluations)]
      BY <1>1, <1>2 DEF TypeOK
    <3>5. programs' \subseteq Attempt /\ threads' \subseteq Attempt
      BY <1>1 DEF TypeOK
    <3> QED
      BY <3>1, <3>2, <3>3, <3>4, <3>5, <1>1 DEF TypeOK
  <2>2. LogInv'
    <3>1. \A c \in 1..(next' - 1) : Story(c)'
      <4> SUFFICES ASSUME NEW c \in 1..(next' - 1)
                   PROVE  Story(c)'
        OBVIOUS
      <4>1. next' = next + 1 /\ c \in 1..next
        BY <1>1, <1>6 DEF Push
      <4>2. CASE c = next
        <5>1. status'[next] = StatusOf(e) /\ used'[next] = attempts
          BY <1>1, <1>6 DEF Push, TypeOK
        <5>2. Retryable(e) => attempts = Allowed(next)
          BY <1>1, <1>6
        <5> QED
          BY <4>2, <5>1, <5>2, <1>1, <1>3, <1>4 DEF Story, Allowed
      <4>3. CASE c # next
        <5>1. Story(c) /\ c \in Checks \ {next} /\ log'[c] = log[c]
          BY <4>1, <4>3, <1>1, <1>2 DEF IInv, LogInv, Checks
        <5>2. status'[c] = status[c] /\ used'[c] = used[c]
          BY <5>1, <1>1, <1>6 DEF Push, TypeOK
        <5> QED
          BY <5>1, <5>2 DEF Story, Allowed
      <4> QED
        BY <4>2, <4>3
    <3>2. next' <= N => log'[next'] = <<>>
      BY <1>1, <1>2, <1>6 DEF IInv, LogInv, Push, Checks
    <3>3. \A c \in (next' + 1)..N : log'[c] = <<>>
      BY <1>1, <1>2, <1>6 DEF IInv, LogInv, Push, Checks
    <3> QED
      BY <3>1, <3>2, <3>3, <1>6 DEF LogInv, Push
  <2>3. ClockInv'
    BY <1>6 DEF ClockInv, Push
  <2>4. NoProgramLeftBehind'
    BY DEF IInv, NoProgramLeftBehind
  <2> QED
    BY <2>1, <2>2, <2>3, <2>4 DEF IInv
<1> QED
  BY <1>5, <1>6 DEF Conclude

\* The beginning of the attempt n of the current check keeps the invariant.
LEMMA StartIInv ==
  ASSUME IInv, next \in Checks, policy[next].enabled,
         NEW n \in 1..Allowed(next), StartAttempt(n), programs = {},
         Len(log[next]) = n - 1,
         \A i \in 1..Len(log[next]) : Retryable(log[next][i]),
         clock' \in Nat, clock' <= (n - 1) * Timeout + (n - 1) * Delay,
         UNCHANGED <<policy, outcomes, log>>
  PROVE  IInv'
<1> USE NAssumption, AttemptsAssumption, TimeAssumption
<1>1. /\ TypeOK /\ n \in Nat \ {0} /\ n \in 1..AtLeastOne(MaxAttempts)
      /\ <<next, n>> \in Attempt /\ next \in Nat /\ N \in Nat
  <2>1. TypeOK /\ AtLeastOne(MaxAttempts) \in Nat
    BY DEF IInv, AtLeastOne
  <2>2. Allowed(next) \in 1..AtLeastOne(MaxAttempts)
    BY <2>1, AllowedType
  <2> QED
    BY <2>1, <2>2 DEF Attempt, Checks
<1>2. /\ pc' = "attempt" /\ attempts' = n /\ timer' = Timeout
      /\ programs' \in {{}, {<<next, n>>}}
      /\ threads' \in {threads, threads \cup {<<next, n>>}}
  BY DEF StartAttempt, world
<1>3. TypeOK'
  BY <1>1, <1>2 DEF TypeOK, outcomes
<1>4. LogInv'
  <2>1. \A c \in 1..(next - 1) : Story(c)'
    BY DEF IInv, LogInv, Story, Allowed, outcomes
  <2> QED
    BY <1>1, <1>2, <2>1 DEF IInv, LogInv, outcomes, Allowed, Checks
<1>5. ClockInv'
  <2>1. clock' + Timeout <= n * Timeout + (n - 1) * Delay
    BY <1>1, LimitStarts
  <2> QED
    BY <1>2, <2>1 DEF ClockInv
<1>6. NoProgramLeftBehind'
  BY <1>2 DEF NoProgramLeftBehind, outcomes
<1> QED
  BY <1>3, <1>4, <1>5, <1>6 DEF IInv

\* Every step keeps the inductive invariant: one case per action.
LEMMA StepIInv == IInv /\ [Next]_vars => IInv'
<1> SUFFICES ASSUME IInv, [Next]_vars
             PROVE  IInv'
  OBVIOUS
<1> USE NAssumption, AttemptsAssumption, TimeAssumption
<1>1. CASE BeginCheck
  <2>1. next \in Checks /\ Allowed(next) \in Nat \ {0} /\ programs = {}
    BY <1>1, AllowedType DEF BeginCheck, IInv, TypeOK, Checks, NoProgramLeftBehind
  <2>2. log[next] = <<>> /\ 1 \in 1..Allowed(next)
    BY <1>1, <2>1 DEF BeginCheck, IInv, LogInv
  <2> QED
    BY <1>1, <2>1, <2>2, StartIInv DEF BeginCheck
<1>2. CASE SkipCheck
  <2>1. next \in Checks /\ next \in Nat /\ N \in Nat /\ log[next] = <<>> /\ 0 \in 0..AtLeastOne(MaxAttempts)
    BY <1>2 DEF SkipCheck, IInv, TypeOK, LogInv, Checks, AtLeastOne
  <2>2. TypeOK'
    <3>1. status' \in [Checks -> CheckStatus \cup {"none"}]
      BY <1>2, <2>1 DEF SkipCheck, Push, IInv, TypeOK, CheckStatus
    <3>2. used' \in [Checks -> 0..AtLeastOne(MaxAttempts)]
      BY <1>2, <2>1 DEF SkipCheck, Push, IInv, TypeOK
    <3> QED
      BY <1>2, <2>1, <3>1, <3>2 DEF SkipCheck, Push, IInv, TypeOK, world, Checks
  <2>3. LogInv'
    <3>1. \A c \in 1..(next' - 1) : Story(c)'
      <4> SUFFICES ASSUME NEW c \in 1..(next' - 1)
                   PROVE  Story(c)'
        OBVIOUS
      <4>1. next' = next + 1 /\ c \in Checks /\ log' = log /\ policy' = policy
        BY <1>2, <2>1 DEF SkipCheck, Push, Checks
      <4>2. CASE c = next
        BY <1>2, <2>1, <4>1, <4>2 DEF SkipCheck, Push, Story, IInv, TypeOK
      <4>3. CASE c # next
        <5>1. Story(c) /\ status'[c] = status[c] /\ used'[c] = used[c]
          BY <1>2, <2>1, <4>1, <4>3 DEF SkipCheck, Push, IInv, LogInv, TypeOK
        <5> QED
          BY <4>1, <5>1 DEF Story, Allowed
      <4> QED
        BY <4>2, <4>3
    <3> QED
      BY <1>2, <2>1, <3>1 DEF SkipCheck, Push, IInv, LogInv, Checks
  <2>4. ClockInv' /\ NoProgramLeftBehind'
    BY <1>2 DEF SkipCheck, Push, ClockInv, NoProgramLeftBehind, IInv, world
  <2> QED
    BY <2>2, <2>3, <2>4 DEF IInv
<1>3. CASE ListEnds
  <2>1. TypeOK'
    BY <1>3 DEF ListEnds, IInv, TypeOK, outcomes, world
  <2>2. LogInv'
    BY <1>3 DEF ListEnds, IInv, LogInv, Story, Allowed, outcomes, TypeOK
  <2>3. ClockInv' /\ NoProgramLeftBehind'
    BY <1>3 DEF ListEnds, ClockInv, NoProgramLeftBehind, IInv, world
  <2> QED
    BY <2>1, <2>2, <2>3 DEF IInv
<1>4. CASE AttemptTimesOut
  BY <1>4, ConcludeIInv DEF AttemptTimesOut, Evaluations
<1>5. CASE Retry
  <2>1. /\ next \in Checks /\ policy[next].enabled /\ programs = {}
        /\ attempts + 1 \in 1..Allowed(next) /\ Len(log[next]) = (attempts + 1) - 1
        /\ \A i \in 1..Len(log[next]) : Retryable(log[next][i])
    BY <1>5, AllowedType DEF Retry, IInv, TypeOK, LogInv, Checks, NoProgramLeftBehind
  <2>2. clock' \in Nat /\ clock' <= ((attempts + 1) - 1) * Timeout + ((attempts + 1) - 1) * Delay
    <3>1. clock' = clock /\ clock \in Nat /\ attempts \in Nat
          /\ clock + 0 <= attempts * Timeout + attempts * Delay
      BY <1>5 DEF Retry, IInv, TypeOK, ClockInv
    <3>2. (attempts + 1) - 1 = attempts
      BY <3>1
    <3> QED
      BY <3>1, <3>2
  <2> QED
    BY <1>5, <2>1, <2>2, StartIInv DEF Retry
<1>6. CASE \E e \in Evaluations : Answer(e)
  BY <1>6, ConcludeIInv DEF Answer
<1>7. CASE Cancel
  <2>1. TypeOK'
    BY <1>7 DEF Cancel, IInv, TypeOK, outcomes
  <2>2. LogInv'
    BY <1>7 DEF Cancel, IInv, LogInv, Story, Allowed, outcomes, TypeOK
  <2>3. ClockInv' /\ NoProgramLeftBehind'
    BY <1>7 DEF Cancel, ClockInv, NoProgramLeftBehind, IInv
  <2> QED
    BY <2>1, <2>2, <2>3 DEF IInv
<1>8. CASE Tick
  <2>1. TypeOK'
    BY <1>8 DEF Tick, IInv, TypeOK, outcomes, world
  <2>2. LogInv'
    BY <1>8 DEF Tick, IInv, LogInv, Story, Allowed, outcomes, TypeOK
  <2>3. ClockInv'
    <3>1. clock' + timer' = clock + timer
      BY <1>8 DEF Tick, IInv, TypeOK
    <3> QED
      BY <1>8, <3>1 DEF Tick, ClockInv, IInv
  <2>4. NoProgramLeftBehind'
    BY <1>8 DEF Tick, NoProgramLeftBehind, IInv, world, outcomes
  <2> QED
    BY <2>1, <2>2, <2>3, <2>4 DEF IInv
<1>9. CASE ThreadEnds
  <2>1. TypeOK'
    BY <1>9 DEF ThreadEnds, IInv, TypeOK, outcomes
  <2>2. LogInv'
    BY <1>9 DEF ThreadEnds, IInv, LogInv, Story, Allowed, outcomes, TypeOK
  <2>3. ClockInv' /\ NoProgramLeftBehind'
    BY <1>9 DEF ThreadEnds, ClockInv, NoProgramLeftBehind, IInv, outcomes
  <2> QED
    BY <2>1, <2>2, <2>3 DEF IInv
<1>10. CASE Terminated \/ UNCHANGED vars
  <2>1. UNCHANGED vars
    BY <1>10 DEF Terminated
  <2>2. TypeOK'
    BY <2>1 DEF vars, IInv, TypeOK, outcomes, world
  <2>3. LogInv'
    BY <2>1 DEF vars, IInv, LogInv, Story, Allowed, outcomes
  <2>4. ClockInv' /\ NoProgramLeftBehind'
    BY <2>1 DEF vars, ClockInv, NoProgramLeftBehind, IInv, outcomes, world
  <2> QED
    BY <2>2, <2>3, <2>4 DEF IInv
<1> QED
  BY <1>1, <1>2, <1>3, <1>4, <1>5, <1>6, <1>7, <1>8, <1>9, <1>10 DEF Next, LoopStep

\* The inductive invariant holds in every state of every run of the loop.
THEOREM InductiveInvariant == Spec => []IInv
  BY InitIInv, StepIInv, PTL DEF Spec

-----------------------------------------------------------------------------
(* The properties of CheckExecutor.                                        *)

\* Every variable keeps to its type.
THEOREM TypeCorrect == Spec => []TypeOK
<1>1. IInv => TypeOK
  BY DEF IInv
<1> QED
  BY <1>1, InductiveInvariant, PTL

\* An outcome is the last evaluation of its check, reached by retrying only
\* what may be retried, and counted as it happened.
THEOREM OutcomeIsTheLastWordAlways == Spec => []OutcomeIsTheLastWord
<1>1. IInv => OutcomeIsTheLastWord
  <2> SUFFICES ASSUME IInv, NEW c \in 1..(next - 1)
               PROVE  LET evaluations == log[c]
                          last == Len(evaluations)
                      IN /\ used[c] = last
                         /\ IF policy[c].enabled
                            THEN /\ last \in 1..Allowed(c)
                                 /\ status[c] = StatusOf(evaluations[last])
                                 /\ \A i \in 1..(last - 1) : StatusOf(evaluations[i]) = "FAILED"
                                 /\ \A i \in 1..last : evaluations[i] = "definitive" => i = last
                                 /\ evaluations[last] = "unavailable" =>
                                      last = AtLeastOne(policy[c].attempts)
                            ELSE last = 0 /\ status[c] = "SKIPPED"
    BY DEF OutcomeIsTheLastWord
  <2>1. Story(c) /\ Len(log[c]) \in Nat
    <3>1. c \in Checks
      BY NAssumption DEF IInv, TypeOK, Checks
    <3> QED
      BY <3>1 DEF IInv, LogInv, TypeOK
  <2> QED
    BY <2>1 DEF Story, Retryable, StatusOf, Allowed
<1> QED
  BY <1>1, InductiveInvariant, PTL

\* No check takes longer than its policy allows.
THEOREM CheckTimeBoundedAlways == Spec => []CheckTimeBounded
<1>1. IInv => CheckTimeBounded
  <2> SUFFICES ASSUME IInv, pc \in {"attempt", "sleep"}
               PROVE  clock <= TimeLimit(next)
    BY DEF CheckTimeBounded
  <2>1. /\ next \in Checks /\ clock \in Nat /\ timer \in Nat
        /\ attempts \in Nat \ {0} /\ attempts <= Allowed(next)
        /\ Allowed(next) \in Nat \ {0}
    BY AllowedType, NAssumption DEF IInv, TypeOK, LogInv, Checks
  <2>2. TimeLimit(next) = Allowed(next) * Timeout + (Allowed(next) - 1) * Delay
    BY DEF TimeLimit, Allowed
  <2>3. CASE pc = "attempt"
    <3>1. clock <= attempts * Timeout + (attempts - 1) * Delay
      BY <2>1, <2>3, TimeAssumption DEF IInv, ClockInv
    <3>2. attempts * Timeout + (attempts - 1) * Delay <= TimeLimit(next)
      BY <2>1, <2>2, LimitGrows
    <3>3. /\ attempts * Timeout + (attempts - 1) * Delay \in Int
          /\ TimeLimit(next) \in Int
      BY <2>1, <2>2, TimeAssumption
    <3> QED
      BY <3>1, <3>2, <3>3, <2>1
  <2>4. CASE pc = "sleep"
    <3>1. clock <= attempts * Timeout + attempts * Delay
      BY <2>1, <2>4, TimeAssumption DEF IInv, ClockInv
    <3>2. attempts + 1 <= Allowed(next)
      BY <2>1, <2>4, NAssumption DEF IInv, LogInv
    <3>3. (attempts + 1) * Timeout + ((attempts + 1) - 1) * Delay <= TimeLimit(next)
      BY <2>1, <2>2, <3>2, LimitGrows
    <3>4. (attempts + 1) * Timeout + ((attempts + 1) - 1) * Delay
            = attempts * Timeout + attempts * Delay + Timeout
      BY <2>1, LimitSteps
    <3>5. attempts * Timeout + attempts * Delay \in Int /\ TimeLimit(next) \in Int
      BY <2>1, <2>2, TimeAssumption
    <3> QED
      BY <3>1, <3>3, <3>4, <3>5, <2>1, TimeAssumption
  <2> QED
    BY <2>3, <2>4
<1> QED
  BY <1>1, InductiveInvariant, PTL

\* No attempt runs beside another, and none survives the loop.
THEOREM NoProgramLeftBehindAlways == Spec => []NoProgramLeftBehind
<1>1. IInv => NoProgramLeftBehind
  BY DEF IInv
<1> QED
  BY <1>1, InductiveInvariant, PTL

\* The loop, with its attempts, timers and retries, is a CheckList.
THEOREM ImplementsCheckListAlways == Spec => ImplementsCheckList
<1>1. Init => List!Init
  BY DEF Init, List!Init, Checks
<1>2. IInv /\ [Next]_vars => [List!RunOne]_<<next, status>>
  <2> SUFFICES ASSUME IInv, [Next]_vars
               PROVE  List!RunOne \/ UNCHANGED <<next, status>>
    OBVIOUS
  <2>1. ASSUME NEW e \in Evaluations, pc = "attempt", Conclude(e)
        PROVE  List!RunOne \/ UNCHANGED <<next, status>>
    <3>1. next <= N /\ StatusOf(e) \in CheckStatus
      BY <2>1, StatusOfType DEF IInv, LogInv
    <3> QED
      BY <2>1, <3>1 DEF Conclude, Push, outcomes, List!RunOne, List!CheckStatus, CheckStatus
  <2>2. CASE SkipCheck
    BY <2>2 DEF SkipCheck, Push, List!RunOne, List!CheckStatus
  <2>3. CASE AttemptTimesOut
    BY <2>1, <2>3 DEF AttemptTimesOut, Evaluations
  <2>4. CASE \E e \in Evaluations : Answer(e)
    BY <2>1, <2>4 DEF Answer
  <2> QED
    BY <2>2, <2>3, <2>4
       DEF Next, LoopStep, BeginCheck, ListEnds, Retry, Cancel, Tick, ThreadEnds,
           Terminated, vars, outcomes
<1> QED
  BY <1>1, <1>2, InductiveInvariant, PTL DEF Spec, ImplementsCheckList, List!Spec

-----------------------------------------------------------------------------
(* Why the checks end.  Fairness is beyond the prover; what it relies on   *)
(* is not: no step repeats anything.                                       *)

\* How far the current check is: its attempts, and the delay after each.
Position ==
  IF pc = "next" THEN 0
  ELSE IF pc = "attempt" THEN 2 * attempts - 1
  ELSE IF pc = "sleep" THEN 2 * attempts
  ELSE 2 * AtLeastOne(MaxAttempts) + 1

Forward ==
  \/ next' > next
  \/ next' = next /\ Position' > Position
  \/ next' = next /\ Position' = Position /\ timer' < timer

\* Every step takes the loop forward, to a later check, a later attempt or delay
\* of the same check, or closer to the end of its timer; or an abandoned thread
\* ends.  Neither an answer nor a time limit leads back (run_check): since there
\* are N checks and a last attempt of each, the steps are bounded whatever the
\* checks wait for.
LoopGoesForward ==
  [][\/ Forward /\ next' \in 1..(N + 1) /\ Position' \in 0..(2 * AtLeastOne(MaxAttempts) + 1)
     \/ UNCHANGED <<pc, next, attempts, timer>> /\ threads' \subseteq threads /\ threads' # threads]_vars

\* The positions of attempt m and of its delay, of a attempts.
LEMMA Twice ==
  ASSUME NEW a \in Nat, NEW m \in 0..a
  PROVE  2 * m \in 0..(2 * a + 1) /\ (m >= 1 => 2 * m - 1 \in 0..(2 * a + 1))
  OBVIOUS

\* Nothing leads the loop back: it takes finitely many steps.
THEOREM LoopGoesForwardAlways == Spec => LoopGoesForward
<1> USE NAssumption, AttemptsAssumption, TimeAssumption
<1>1. AtLeastOne(MaxAttempts) \in Nat \ {0}
  BY DEF AtLeastOne
<1>2. ASSUME IInv, NEW e, pc = "attempt", Conclude(e), UNCHANGED attempts
      PROVE  Forward
  <2>1. next \in Nat /\ attempts \in Nat
    BY <1>2 DEF IInv, TypeOK
  <2> QED
    BY <1>2, <2>1 DEF Conclude, Push, outcomes, Forward, Position
<1>3. ASSUME IInv, Next
      PROVE  \/ Forward
             \/ UNCHANGED vars
             \/ /\ UNCHANGED <<pc, next, attempts, timer>>
                /\ threads' \subseteq threads /\ threads' # threads
  <2> USE <1>1, <1>3
  <2>1. /\ next \in Nat /\ attempts \in Nat /\ timer \in Nat
        /\ attempts <= AtLeastOne(MaxAttempts)
    BY DEF IInv, TypeOK
  <2>2. CASE BeginCheck \/ ListEnds
    BY <2>1, <2>2 DEF BeginCheck, ListEnds, StartAttempt, outcomes, Forward, Position
  <2>3. CASE SkipCheck
    BY <2>1, <2>3 DEF SkipCheck, Push, Forward
  <2>4. CASE AttemptTimesOut \/ \E e \in Evaluations : Answer(e)
    BY <1>2, <2>4 DEF AttemptTimesOut, Answer
  <2>5. CASE Retry
    BY <2>1, <2>5 DEF Retry, StartAttempt, outcomes, Forward, Position
  <2>6. CASE Cancel
    BY <2>1, <2>6 DEF Cancel, outcomes, Forward, Position
  <2>7. CASE Tick
    BY <2>1, <2>7 DEF Tick, outcomes, Forward, Position
  <2>8. CASE ThreadEnds
    BY <2>8 DEF ThreadEnds, outcomes
  <2> QED
    BY <2>2, <2>3, <2>4, <2>5, <2>6, <2>7, <2>8 DEF Next, LoopStep, Terminated
<1>4. IInv /\ IInv' /\ [Next]_vars =>
        [\/ Forward /\ next' \in 1..(N + 1) /\ Position' \in 0..(2 * AtLeastOne(MaxAttempts) + 1)
         \/ UNCHANGED <<pc, next, attempts, timer>> /\ threads' \subseteq threads
              /\ threads' # threads]_vars
  <2> SUFFICES ASSUME IInv, IInv', Next
               PROVE  \/ /\ Forward /\ next' \in 1..(N + 1)
                         /\ Position' \in 0..(2 * AtLeastOne(MaxAttempts) + 1)
                      \/ /\ UNCHANGED <<pc, next, attempts, timer>>
                         /\ threads' \subseteq threads /\ threads' # threads
                      \/ UNCHANGED vars
    OBVIOUS
  <2>1. next' \in 1..(N + 1)
    BY DEF IInv, TypeOK
  <2>2. Position' \in 0..(2 * AtLeastOne(MaxAttempts) + 1)
    <3>1. attempts' \in 0..AtLeastOne(MaxAttempts) /\ (pc' = "attempt" => attempts' >= 1)
      BY DEF IInv, TypeOK, LogInv
    <3>2. /\ 2 * attempts' \in 0..(2 * AtLeastOne(MaxAttempts) + 1)
          /\ pc' = "attempt" => 2 * attempts' - 1 \in 0..(2 * AtLeastOne(MaxAttempts) + 1)
      BY <1>1, <3>1, Twice
    <3>3. CASE pc' = "next"
      BY <1>1, <3>3 DEF Position
    <3>4. CASE pc' = "attempt"
      BY <3>2, <3>4 DEF Position
    <3>5. CASE pc' = "sleep"
      BY <3>2, <3>5 DEF Position
    <3>6. CASE pc' \notin {"next", "attempt", "sleep"}
      BY <1>1, <3>6 DEF Position
    <3> QED
      BY <3>3, <3>4, <3>5, <3>6
  <2> QED
    BY <1>3, <2>1, <2>2
<1> QED
  BY <1>4, InductiveInvariant, PTL DEF Spec, LoopGoesForward
=============================================================================
