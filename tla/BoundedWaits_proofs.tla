------------------------ MODULE BoundedWaits_proofs ------------------------
(***************************************************************************)
(* Proofs about the two waits for something outside of the program that    *)
(* may never answer.  Readiness: for any set of services, any startup      *)
(* timeout and any time limits of the docker commands.  ProcessCapture:    *)
(* for any cap, any sizes of the pipes and of the buffer, and any          *)
(* processes the program may start.  Liveness stays with TLC.              *)
(***************************************************************************)
EXTENDS Readiness, ProcessCapture, TLAPS

-----------------------------------------------------------------------------
(* Readiness: the inductive invariant.                                     *)


\* The verdict, against where the loop is.
VerdictInv ==
  /\ phase \in {"ps", "sleep"} <=> verdict = "none"
  /\ phase = "logs" => verdict \in {"environment", "timeout"}

\* A count of stable polls above zero is that of the poll before this one.
StableInv ==
  /\ phase \in {"ps", "sleep"} => stable < REQUIRED_STABLE_POLLS
  /\ phase \in {"ps", "sleep"} /\ stable > 0 => previous.ready
  /\ phase = "sleep" => previous.at + POLL_INTERVAL <= clock + timer
  /\ phase = "ps" /\ stable > 0 => previous.at + POLL_INTERVAL <= clock

\* The latest that a poll may begin, and what the rest may add.
Latest == (Timeout - 1) + POLL_INTERVAL

ClockInv ==
  /\ phase = "sleep" => clock + timer <= Latest
  /\ phase = "ps" => clock + timer <= Latest + PsLimit
  /\ phase = "logs" => clock + timer <= Latest + PsLimit + LogsLimit

WaitIInv == WaitTypeOK /\ VerdictInv /\ StableInv /\ ClockInv
          /\ ReadyWasSeenTwice /\ FailureIsNotLateness /\ OthersDoNotMatter /\ WaitBounded

-----------------------------------------------------------------------------
(* Lemmas.                                                                 *)

\* `up` has returned: nothing has been polled.
LEMMA InitWaitIInv == WaitInit => WaitIInv
<1> SUFFICES ASSUME WaitInit
             PROVE  WaitIInv
  OBVIOUS
<1>1. WaitTypeOK
  BY TimeAssumption DEF WaitInit, WaitTypeOK, POLL_INTERVAL, REQUIRED_STABLE_POLLS
<1>2. VerdictInv /\ StableInv /\ ClockInv
  BY TimeAssumption DEF WaitInit, VerdictInv, StableInv, ClockInv, Latest, POLL_INTERVAL,
     REQUIRED_STABLE_POLLS
<1>3. /\ ReadyWasSeenTwice /\ FailureIsNotLateness /\ OthersDoNotMatter /\ WaitBounded
  BY TimeAssumption DEF WaitInit, ReadyWasSeenTwice, FailureIsNotLateness, OthersDoNotMatter,
     WaitBounded, POLL_INTERVAL
<1> QED
  BY <1>1, <1>2, <1>3 DEF WaitIInv

\* A poll that does not end the wait, ready or not, keeps the invariant.
LEMMA PollWaitIInv ==
  ASSUME WaitIInv, PsAnswers, ~SomeFailed,
         stable' \in 0..REQUIRED_STABLE_POLLS, stable' < REQUIRED_STABLE_POLLS,
         stable' > 0 => AllReady,
         IF DeadlinePassed THEN Explain("timeout") ELSE Sleep,
         UNCHANGED <<waitFor, services, clock, snapshot>>
  PROVE  WaitIInv'
<1> USE TimeAssumption DEF POLL_INTERVAL, REQUIRED_STABLE_POLLS, Latest
<1>1. CASE DeadlinePassed /\ Explain("timeout")
  <2>1. /\ phase = "ps" /\ phase' = "logs" /\ timer' = LogsLimit /\ verdict' = "timeout"
        /\ previous' = previous
    BY <1>1 DEF Explain, PsAnswers
  <2>2. WaitTypeOK'
    BY <2>1 DEF WaitIInv, WaitTypeOK
  <2>3. VerdictInv' /\ StableInv' /\ ClockInv' /\ WaitBounded'
    BY <2>1 DEF WaitIInv, WaitTypeOK, VerdictInv, StableInv, ClockInv, WaitBounded
  <2>4. FailureIsNotLateness'
    BY <2>1 DEF FailureIsNotLateness, SomeFailed, Watched, Listed
  <2>5. ReadyWasSeenTwice' /\ OthersDoNotMatter'
    BY <2>1 DEF ReadyWasSeenTwice, OthersDoNotMatter
  <2> QED
    BY <2>2, <2>3, <2>4, <2>5 DEF WaitIInv
<1>2. CASE ~DeadlinePassed /\ Sleep
  <2>1. /\ phase = "ps" /\ phase' = "sleep" /\ timer' = 1 /\ verdict' = verdict
        /\ previous'.at = clock /\ previous'.ready = AllReady
        /\ clock < Timeout /\ clock \in Nat
    BY <1>2 DEF Sleep, PsAnswers, DeadlinePassed, WaitIInv, WaitTypeOK
  <2>2. WaitTypeOK'
    <3>1. AllReady \in BOOLEAN
      BY DEF AllReady
    <3>2. previous' \in [at : Nat, ready : BOOLEAN]
      BY <1>2, <2>1, <3>1 DEF Sleep
    <3> QED
      BY <2>1, <3>2 DEF WaitIInv, WaitTypeOK
  <2>3. VerdictInv' /\ ClockInv' /\ WaitBounded'
    BY <2>1 DEF WaitIInv, WaitTypeOK, VerdictInv, ClockInv, WaitBounded
  <2>4. StableInv'
    BY <2>1 DEF WaitIInv, WaitTypeOK, StableInv
  <2>5. ReadyWasSeenTwice' /\ OthersDoNotMatter' /\ FailureIsNotLateness'
    BY <2>1 DEF WaitIInv, VerdictInv, ReadyWasSeenTwice, OthersDoNotMatter, FailureIsNotLateness
  <2> QED
    BY <2>2, <2>3, <2>4, <2>5 DEF WaitIInv
<1> QED
  BY <1>1, <1>2

\* Every step keeps the inductive invariant: one case per action.
LEMMA StepWaitIInv == WaitIInv /\ [WaitNext]_waitVars => WaitIInv'
<1> SUFFICES ASSUME WaitIInv, [WaitNext]_waitVars
             PROVE  WaitIInv'
  OBVIOUS
<1> USE TimeAssumption DEF POLL_INTERVAL, REQUIRED_STABLE_POLLS, Latest
<1>1. CASE PsFails \/ PsTimesOut
  <2>1. /\ phase = "ps" /\ phase' = "done" /\ verdict' \in {"environment", "timeout"}
        /\ UNCHANGED <<waitFor, services, clock, timer, snapshot, stable, previous>>
    BY <1>1 DEF PsFails, PsTimesOut, End
  <2> QED
    BY <2>1 DEF WaitIInv, WaitTypeOK, VerdictInv, StableInv, ClockInv, ReadyWasSeenTwice,
       FailureIsNotLateness, OthersDoNotMatter, WaitBounded
<1>2. CASE Fail
  <2>1. CASE Listed = {} /\ End("environment")
    <3>1. /\ phase = "ps" /\ phase' = "done" /\ verdict' = "environment"
          /\ UNCHANGED <<waitFor, services, clock, timer, snapshot, stable, previous>>
      BY <1>2, <2>1 DEF Fail, PsAnswers, End
    <3> QED
      BY <3>1 DEF WaitIInv, WaitTypeOK, VerdictInv, StableInv, ClockInv, ReadyWasSeenTwice,
         FailureIsNotLateness, OthersDoNotMatter, WaitBounded
  <2>2. CASE SomeFailed /\ Explain("environment")
    <3>1. /\ phase = "ps" /\ phase' = "logs" /\ verdict' = "environment" /\ timer' = LogsLimit
          /\ UNCHANGED <<waitFor, services, clock, snapshot, stable, previous>>
      BY <1>2, <2>2 DEF Fail, PsAnswers, Explain
    <3>2. OthersDoNotMatter'
      BY <2>2, <3>1 DEF OthersDoNotMatter, SomeFailed, Watched, Listed
    <3> QED
      BY <3>1, <3>2 DEF WaitIInv, WaitTypeOK, VerdictInv, StableInv, ClockInv, ReadyWasSeenTwice,
         FailureIsNotLateness, WaitBounded
  <2> QED
    BY <1>2, <2>1, <2>2 DEF Fail
<1>3. CASE PollReady
  <2>1. CASE stable' >= REQUIRED_STABLE_POLLS
    <3>1. /\ phase = "ps" /\ phase' = "done" /\ verdict' = "ok" /\ stable' = stable + 1
          /\ UNCHANGED <<waitFor, services, clock, timer, snapshot, previous>>
      BY <1>3, <2>1 DEF PollReady, PsAnswers, End
    <3>2. stable > 0 /\ stable' \in 0..REQUIRED_STABLE_POLLS
      BY <2>1, <3>1 DEF WaitIInv, WaitTypeOK, StableInv
    <3>3. ReadyWasSeenTwice'
      <4>1. \A s \in Services : s \in waitFor \/ waitFor = {} =>
              snapshot[s] \in {"none", "running", "exited0"}
        BY <1>3 DEF PollReady, AllReady, Watched, Listed, IsReady
      <4>2. previous.ready /\ previous.at + POLL_INTERVAL <= clock
        BY <3>1, <3>2 DEF WaitIInv, StableInv
      <4> QED
        BY <3>1, <4>1, <4>2 DEF ReadyWasSeenTwice
    <3> QED
      BY <3>1, <3>2, <3>3 DEF WaitIInv, WaitTypeOK, VerdictInv, StableInv, ClockInv,
         FailureIsNotLateness, OthersDoNotMatter, WaitBounded
  <2>2. CASE ~(stable' >= REQUIRED_STABLE_POLLS)
    <3>1. stable' \in 0..REQUIRED_STABLE_POLLS /\ stable' < REQUIRED_STABLE_POLLS
      BY <1>3, <2>2 DEF PollReady, WaitIInv, WaitTypeOK
    <3> QED
      BY <1>3, <2>2, <3>1, PollWaitIInv DEF PollReady
  <2> QED
    BY <2>1, <2>2
<1>4. CASE PollNotReady
  <2>1. stable' = 0 /\ stable' \in 0..REQUIRED_STABLE_POLLS /\ stable' < REQUIRED_STABLE_POLLS
    BY <1>4 DEF PollNotReady
  <2> QED
    BY <1>4, <2>1, PollWaitIInv DEF PollNotReady
<1>5. CASE Wake
  <2>1. /\ phase = "sleep" /\ timer = 0 /\ phase' = "ps" /\ timer' = PsLimit
        /\ snapshot' \in [Services -> States \cup {Unseen}]
        /\ UNCHANGED <<waitFor, services, clock, stable, previous, verdict>>
    BY <1>5 DEF Wake
  <2> QED
    BY <2>1 DEF WaitIInv, WaitTypeOK, VerdictInv, StableInv, ClockInv, ReadyWasSeenTwice,
       FailureIsNotLateness, OthersDoNotMatter, WaitBounded
<1>6. CASE LogsEnd \/ LogsTimeOut
  <2>1. /\ phase = "logs" /\ phase' = "done"
        /\ UNCHANGED <<waitFor, services, clock, timer, snapshot, stable, previous, verdict>>
    BY <1>6 DEF LogsEnd, LogsTimeOut
  <2> QED
    BY <2>1 DEF WaitIInv, WaitTypeOK, VerdictInv, StableInv, ClockInv, ReadyWasSeenTwice,
       FailureIsNotLateness, OthersDoNotMatter, WaitBounded
<1>7. CASE Tick
  <2>1. /\ phase # "done" /\ timer > 0 /\ timer' = timer - 1 /\ clock' = clock + 1
        /\ UNCHANGED <<waitFor, services, phase, snapshot, stable, previous, verdict>>
    BY <1>7 DEF Tick
  <2>2. WaitTypeOK' /\ VerdictInv' /\ StableInv' /\ ClockInv' /\ WaitBounded'
    BY <2>1 DEF WaitIInv, WaitTypeOK, VerdictInv, StableInv, ClockInv, WaitBounded
  <2>3. ReadyWasSeenTwice' /\ FailureIsNotLateness' /\ OthersDoNotMatter'
    <3>1. UNCHANGED <<Watched, SomeFailed>>
      BY <2>1 DEF Watched, SomeFailed, Listed
    <3> QED
      BY <2>1, <3>1 DEF WaitIInv, WaitTypeOK, ReadyWasSeenTwice, FailureIsNotLateness,
         OthersDoNotMatter
  <2> QED
    BY <2>2, <2>3 DEF WaitIInv
<1>8. CASE \E s \in Services : Observe(s)
  <2>1. /\ phase = "ps" /\ snapshot' \in [Services -> States \cup {Unseen}]
        /\ UNCHANGED <<waitFor, services, clock, phase, timer, stable, previous, verdict>>
    BY <1>8 DEF Observe, WaitIInv, WaitTypeOK
  <2> QED
    BY <2>1 DEF WaitIInv, WaitTypeOK, VerdictInv, StableInv, ClockInv, ReadyWasSeenTwice,
       FailureIsNotLateness, OthersDoNotMatter, WaitBounded
<1>9. CASE \E s \in Services : Move(s)
  <2>1. /\ services' \in [Services -> States]
        /\ UNCHANGED <<waitFor, clock, phase, timer, snapshot, stable, previous, verdict>>
    BY <1>9 DEF Move, loop, WaitIInv, WaitTypeOK, States, Successors
  <2>2. UNCHANGED <<Watched, SomeFailed>>
    BY <2>1 DEF Watched, SomeFailed, Listed
  <2> QED
    BY <2>1, <2>2 DEF WaitIInv, WaitTypeOK, VerdictInv, StableInv, ClockInv, ReadyWasSeenTwice,
       FailureIsNotLateness, OthersDoNotMatter, WaitBounded
<1>10. CASE WaitOver \/ UNCHANGED waitVars
  <2>1. UNCHANGED <<waitFor, services, clock, phase, timer, snapshot, stable, previous, verdict>>
    BY <1>10 DEF WaitOver, waitVars, loop
  <2>2. UNCHANGED <<Watched, SomeFailed>>
    BY <2>1 DEF Watched, SomeFailed, Listed
  <2> QED
    BY <2>1, <2>2 DEF WaitIInv, WaitTypeOK, VerdictInv, StableInv, ClockInv, ReadyWasSeenTwice,
       FailureIsNotLateness, OthersDoNotMatter, WaitBounded
<1> QED
  BY <1>1, <1>2, <1>3, <1>4, <1>5, <1>6, <1>7, <1>8, <1>9, <1>10 DEF WaitNext

\* The inductive invariant holds throughout the wait.
THEOREM WaitInductive == WaitSpec => []WaitIInv
  BY InitWaitIInv, StepWaitIInv, PTL DEF WaitSpec

-----------------------------------------------------------------------------
(* The properties of Readiness.                                            *)

\* Every variable keeps to its type.
THEOREM WaitTypeCorrect == WaitSpec => []WaitTypeOK
<1>1. WaitIInv => WaitTypeOK
  BY DEF WaitIInv
<1> QED
  BY <1>1, WaitInductive, PTL

\* Checks start on services seen ready twice in a row, however they flap.
THEOREM ReadyWasSeenTwiceAlways == WaitSpec => []ReadyWasSeenTwice
<1>1. WaitIInv => ReadyWasSeenTwice
  BY DEF WaitIInv
<1> QED
  BY <1>1, WaitInductive, PTL

\* A failed service is never reported as a late one.
THEOREM FailureIsNotLatenessAlways == WaitSpec => []FailureIsNotLateness
<1>1. WaitIInv => FailureIsNotLateness
  BY DEF WaitIInv
<1> QED
  BY <1>1, WaitInductive, PTL

\* A service outside wait_for never fails the wait.
THEOREM OthersDoNotMatterAlways == WaitSpec => []OthersDoNotMatter
<1>1. WaitIInv => OthersDoNotMatter
  BY DEF WaitIInv
<1> QED
  BY <1>1, WaitInductive, PTL

\* The wait overruns the startup timeout by one poll and one `logs` at most.
THEOREM WaitBoundedAlways == WaitSpec => []WaitBounded
<1>1. WaitIInv => WaitBounded
  BY DEF WaitIInv
<1> QED
  BY <1>1, WaitInductive, PTL

\* A wait that ended well has seen a container.
ReadyHasContainers == verdict = "ok" => phase = "done" /\ Listed # {}

\* Checks never start on a project in which the last poll saw no container at
\* all: what RecoveryDrill demands of `containers` in its step WaitUntilReady.
THEOREM ReadyHasContainersAlways == WaitSpec => []ReadyHasContainers
<1>1. WaitInit => ReadyHasContainers
  BY DEF WaitInit, ReadyHasContainers
<1>2. ReadyHasContainers /\ [WaitNext]_waitVars => ReadyHasContainers'
  <2> SUFFICES ASSUME ReadyHasContainers, [WaitNext]_waitVars
               PROVE  ReadyHasContainers'
    OBVIOUS
  <2> USE DEF ReadyHasContainers, Listed, End, Explain, Sleep, PsAnswers
  <2>1. CASE PsFails \/ PsTimesOut \/ Fail
    BY <2>1 DEF PsFails, PsTimesOut, Fail
  <2>2. CASE PollReady
    BY <2>2 DEF PollReady
  <2>3. CASE PollNotReady
    BY <2>3 DEF PollNotReady
  <2>4. CASE Wake \/ LogsEnd \/ LogsTimeOut \/ Tick
    BY <2>4 DEF Wake, LogsEnd, LogsTimeOut, Tick
  <2>5. ASSUME NEW s \in Services, Observe(s) \/ Move(s)
        PROVE  ReadyHasContainers'
    BY <2>5 DEF Observe, Move, loop
  <2>6. CASE UNCHANGED waitVars
    BY <2>6 DEF waitVars, loop
  <2> QED
    BY <2>1, <2>2, <2>3, <2>4, <2>5, <2>6 DEF WaitNext, WaitOver
<1> QED
  BY <1>1, <1>2, PTL DEF WaitSpec

\* What is left of the current round of the loop in wait_until_ready().
RoundLeft ==
  IF phase = "sleep" THEN IF timer = 0 THEN 4 ELSE 2
  ELSE IF phase = "ps" THEN 3 ELSE IF phase = "logs" THEN 1 ELSE 0

Unanswered == {s \in Services : snapshot[s] = Unseen}

\* A step of the wait takes it forward: the clock advances, or else the round
\* does, or else `docker compose ps` has one service less to tell of.
WaitGoesForward ==
  [][\/ UNCHANGED <<waitFor, clock, loop>>
     \/ clock' > clock
     \/ clock' = clock /\ RoundLeft' < RoundLeft
     \/ clock' = clock /\ RoundLeft' = RoundLeft /\ Unanswered' \subseteq Unanswered /\ Unanswered' # Unanswered
    ]_waitVars

\* The wait never runs in a circle while the clock stands still, whatever the
\* services and docker do.  With WaitBounded, which bounds the clock, its steps are
\* bounded: the half of WaitEnds that needs no fairness.  The other half is
\* that a time limit which is over strikes.
THEOREM WaitGoesForwardAlways == WaitSpec => WaitGoesForward
<1>1. ASSUME WaitTypeOK, WaitNext
      PROVE  \/ UNCHANGED <<waitFor, clock, loop>>
             \/ clock' > clock
             \/ clock' = clock /\ RoundLeft' < RoundLeft
             \/ /\ clock' = clock /\ RoundLeft' = RoundLeft
                /\ Unanswered' \subseteq Unanswered /\ Unanswered' # Unanswered
  <2> USE DEF RoundLeft, End, Explain, Sleep, PsAnswers, POLL_INTERVAL
  <2>1. CASE PsFails \/ PsTimesOut \/ Fail
    BY <2>1 DEF PsFails, PsTimesOut, Fail
  <2>2. CASE PollReady \/ PollNotReady
    BY <2>2 DEF PollReady, PollNotReady
  <2>3. CASE Wake \/ LogsEnd \/ LogsTimeOut
    BY <2>3 DEF Wake, LogsEnd, LogsTimeOut
  <2>4. CASE Tick
    BY <1>1, <2>4 DEF Tick, WaitTypeOK
  <2>5. ASSUME NEW s \in Services, Observe(s)
        PROVE  /\ clock' = clock /\ RoundLeft' = RoundLeft
               /\ Unanswered' \subseteq Unanswered /\ Unanswered' # Unanswered
    <3>1. snapshot[s] = Unseen /\ snapshot' = [snapshot EXCEPT ![s] = services[s]]
      BY <2>5 DEF Observe
    <3>2. services[s] # Unseen /\ snapshot'[s] # Unseen
      BY <1>1, <3>1, UnseenAssumption DEF WaitTypeOK
    <3>3. \A x \in Services \ {s} : snapshot'[x] = snapshot[x]
      BY <1>1, <3>1 DEF WaitTypeOK
    <3>4. s \in Unanswered /\ s \notin Unanswered'
      BY <3>1, <3>2 DEF Unanswered
    <3>5. Unanswered' \subseteq Unanswered
      BY <3>1, <3>3 DEF Unanswered
    <3> QED
      BY <2>5, <3>4, <3>5 DEF Observe
  <2>6. ASSUME NEW s \in Services, Move(s)
        PROVE  UNCHANGED <<waitFor, clock, loop>>
    BY <2>6 DEF Move
  <2>7. CASE WaitOver
    BY <2>7 DEF WaitOver, waitVars
  <2> QED
    BY <1>1, <2>1, <2>2, <2>3, <2>4, <2>5, <2>6, <2>7 DEF WaitNext
<1> QED
  BY <1>1, WaitTypeCorrect, PTL DEF WaitSpec, WaitGoesForward

-----------------------------------------------------------------------------
(* ProcessCapture: the inductive invariant.                                *)


\* Nobody reads more than was written, and what is kept is as much of it as
\* the cap allows.
PipeInv ==
  \A p \in Pipes :
    /\ taken[p] <= written[p]
    /\ kept[p] = Lesser(cap, taken[p])
    /\ truncated[p] = (taken[p] > cap)

\* A pipe that has ended is empty, and nobody can write to it again: before the
\* program is spawned nobody can, afterwards only who inherits it.
EndInv ==
  /\ pc = "start" => (alive = {} /\ \A p \in Pipes : ~eof[p])
  /\ \A p \in Pipes : open[p] \subseteq alive
  /\ \A p \in Pipes : eof[p] => (open[p] = {} /\ taken[p] = written[p])
  /\ pc \in {"wait", "returned"} => \A p \in Pipes : eof[p]
  /\ pc \in Ended => "child" \notin alive
  /\ alive # {} => "child" \in born

ReportInv ==
  pc = "returned" => reported = (truncated["stdout"] \/ truncated["stderr"])

IInv == TypeOK /\ PipeInv /\ EndInv /\ ReportInv

-----------------------------------------------------------------------------
LEMMA InitIInv == Init => IInv
<1> SUFFICES ASSUME Init PROVE IInv
  OBVIOUS
<1> USE SizeAssumption
<1>1. TypeOK
  <2>1. cap \in 0..MaxCap /\ pc = "start" /\ alive = {} /\ born = {} /\ reported = FALSE
    BY DEF Init
  <2>2. open \in [Pipes -> SUBSET Processes]
    BY DEF Init
  <2>3. written \in [Pipes -> 0..MaxWritten] /\ taken \in [Pipes -> Nat] /\ kept \in [Pipes -> 0..MaxCap]
    BY DEF Init
  <2>4. eof \in [Pipes -> BOOLEAN] /\ truncated \in [Pipes -> BOOLEAN]
    BY DEF Init
  <2> QED
    BY <2>1, <2>2, <2>3, <2>4 DEF TypeOK
<1>2. PipeInv
  <2>1. cap \in Nat /\ (0 > cap) = FALSE
    BY DEF Init
  <2>2. \A p \in Pipes : taken[p] = 0 /\ written[p] = 0 /\ kept[p] = 0
    BY DEF Init
  <2>3. \A p \in Pipes : truncated[p] = FALSE
    BY DEF Init
  <2>4. \A p \in Pipes : truncated[p] = (taken[p] > cap)
    BY <2>1, <2>2, <2>3
  <2> QED
    BY <2>1, <2>2, <2>4 DEF PipeInv, Lesser
<1>3. EndInv /\ ReportInv
  BY DEF Init, EndInv, ReportInv, Ended
<1> QED
  BY <1>1, <1>2, <1>3 DEF IInv

-----------------------------------------------------------------------------
(* The steps of run().                                                     *)

\* What one chunk does to the pipe it comes from.
LEMMA ReadKeeps ==
  ASSUME IInv, NEW p \in Pipes, Read(p)
  PROVE  IInv'
<1> USE SizeAssumption
<1>1. PICK n \in 1..Buffer : /\ n <= InPipe(p)
                            /\ taken' = [taken EXCEPT ![p] = @ + n]
                            /\ Keep(p, n)
  BY DEF Read
<1>2. UNCHANGED <<cap, pc, alive, born, open, written, eof, reported>>
  BY DEF Read, program
<1>3. /\ n \in Nat /\ taken[p] \in Nat /\ written[p] \in 0..MaxWritten /\ cap \in 0..MaxCap
      /\ kept[p] \in 0..MaxCap
      /\ n <= written[p] - taken[p]
      /\ kept[p] = Lesser(cap, taken[p])
  BY <1>1 DEF IInv, TypeOK, PipeInv, InPipe
<1>4. kept' = [kept EXCEPT ![p] = Lesser(cap, taken[p] + n)]
  BY <1>1, <1>3 DEF Keep, Lesser, IInv, TypeOK
<1>5. truncated' = [truncated EXCEPT ![p] = (taken[p] + n > cap)]
  <2>1. CASE n > cap - kept[p]
    <3>1. truncated' = [truncated EXCEPT ![p] = TRUE]
      BY <1>1, <1>3, <2>1 DEF Keep
    <3>2. (taken[p] + n > cap) = TRUE
      BY <1>3, <2>1 DEF Lesser
    <3> QED
      BY <3>1, <3>2
  <2>2. CASE ~(n > cap - kept[p])
    <3>1. truncated' = truncated
      BY <1>1, <1>3, <2>2 DEF Keep
    <3>2. (taken[p] + n > cap) = FALSE /\ (taken[p] > cap) = FALSE
      BY <1>3, <2>2 DEF Lesser
    <3>3. truncated[p] = FALSE
      BY <3>2 DEF IInv, PipeInv
    <3>4. truncated \in [Pipes -> BOOLEAN]
      BY DEF IInv, TypeOK
    <3> QED
      BY <3>1, <3>2, <3>3, <3>4
  <2> QED
    BY <2>1, <2>2
<1>6. TypeOK'
  <2>1. taken' \in [Pipes -> Nat]
    BY <1>1, <1>3 DEF IInv, TypeOK
  <2>2. kept' \in [Pipes -> 0..MaxCap]
    BY <1>3, <1>4 DEF IInv, TypeOK, Lesser
  <2>3. truncated' \in [Pipes -> BOOLEAN]
    BY <1>5 DEF IInv, TypeOK
  <2> QED
    BY <1>2, <2>1, <2>2, <2>3 DEF IInv, TypeOK
<1>7. PipeInv'
  <2> SUFFICES ASSUME NEW q \in Pipes
               PROVE  /\ taken'[q] <= written'[q]
                      /\ kept'[q] = Lesser(cap', taken'[q])
                      /\ truncated'[q] = (taken'[q] > cap')
    BY DEF PipeInv, Lesser
  <2>0. /\ taken \in [Pipes -> Nat] /\ kept \in [Pipes -> 0..MaxCap]
        /\ truncated \in [Pipes -> BOOLEAN]
    BY DEF IInv, TypeOK
  <2>1. taken'[q] = (IF q = p THEN taken[p] + n ELSE taken[q])
    BY <1>1, <2>0
  <2>2. kept'[q] = (IF q = p THEN Lesser(cap, taken[p] + n) ELSE kept[q])
    BY <1>4, <2>0
  <2>3. truncated'[q] = (IF q = p THEN (taken[p] + n > cap) ELSE truncated[q])
    BY <1>5, <2>0
  <2>4. CASE q = p
    <3>1. taken'[q] <= written'[q]
      BY <1>2, <1>3, <2>1, <2>4
    <3> QED
      BY <1>2, <2>1, <2>2, <2>3, <2>4, <3>1
  <2>5. CASE q # p
    BY <1>2, <2>1, <2>2, <2>3, <2>5 DEF IInv, PipeInv
  <2> QED
    BY <2>4, <2>5
<1>8. EndInv'
  <2>1. pc = "collect" /\ ~eof[p]
    BY DEF Read, MayRead
  <2>2. \A q \in Pipes : eof[q] => taken'[q] = taken[q]
    BY <1>1, <2>1 DEF IInv, TypeOK
  <2> QED
    BY <1>2, <2>1, <2>2 DEF IInv, EndInv, Ended
<1>9. ReportInv'
  BY <1>2 DEF Read, ReportInv
<1> QED
  BY <1>6, <1>7, <1>8, <1>9 DEF IInv

\* A step that touches nothing that was read, and frees pipes at most: the call
\* ends, or a process closes a pipe or is gone.
LEMMA EndKeeps ==
  ASSUME IInv,
         Spawn \/ SpawnFails \/ Collected \/ Reaped \/ WaitFails \/ TimesOut \/ Drop
           \/ \E p \in Pipes : EndOfFile(p)
  PROVE  IInv'
<1> USE SizeAssumption, DescendantsAssumption
<1>1. PipeInv'
  <2>1. UNCHANGED <<cap, written, taken, kept, truncated>>
    BY DEF Spawn, SpawnFails, Collected, Reaped, WaitFails, TimesOut, Drop, EndOfFile,
           KillChild, program, reader
  <2> QED
    BY <2>1 DEF IInv, PipeInv, Lesser
<1>2. CASE Spawn
  <2>1. TypeOK'
    <3>1. open' \in [Pipes -> SUBSET Processes] /\ alive' = {"child"} /\ born' = {"child"}
      BY <1>2 DEF Spawn, Processes
    <3> QED
      BY <1>2, <3>1 DEF Spawn, IInv, TypeOK, reader, Processes
  <2>2. EndInv' /\ ReportInv'
    BY <1>2 DEF Spawn, IInv, EndInv, ReportInv, reader, Ended
  <2> QED
    BY <1>1, <2>1, <2>2 DEF IInv
<1>3. CASE SpawnFails \/ Collected
  BY <1>1, <1>3 DEF SpawnFails, Collected, IInv, TypeOK, EndInv, ReportInv, reader, program, Ended
<1>4. CASE Reaped
  <2>1. TypeOK'
    <3>1. reported' \in BOOLEAN
      BY <1>4 DEF Reaped
    <3> QED
      BY <1>4, <3>1 DEF Reaped, IInv, TypeOK, reader, program, Ended
  <2>2. EndInv' /\ ReportInv'
    BY <1>4 DEF Reaped, IInv, EndInv, ReportInv, reader, program, Ended
  <2> QED
    BY <1>1, <2>1, <2>2 DEF IInv
<1>5. CASE WaitFails \/ TimesOut \/ Drop
  <2>1. /\ pc \in {"collect", "wait"} /\ pc' \in {"failed", "timeout", "dropped"}
        /\ alive' = alive \ {"child"}
        /\ open' = [p \in Pipes |-> open[p] \ {"child"}]
        /\ UNCHANGED <<cap, born, written, taken, eof, kept, truncated, reported>>
    BY <1>5 DEF WaitFails, TimesOut, Drop, KillChild, reader
  <2>2. TypeOK'
    <3>1. open' \in [Pipes -> SUBSET Processes]
      BY <2>1 DEF IInv, TypeOK
    <3> QED
      BY <2>1, <3>1 DEF IInv, TypeOK, Ended
  <2>3. EndInv'
    BY <2>1 DEF IInv, TypeOK, EndInv, Ended
  <2>4. ReportInv'
    BY <2>1 DEF ReportInv
  <2> QED
    BY <1>1, <2>2, <2>3, <2>4 DEF IInv
<1>6. ASSUME NEW p \in Pipes, EndOfFile(p) PROVE IInv'
  <2>1. /\ pc = "collect" /\ written[p] - taken[p] = 0 /\ open[p] = {}
        /\ eof' = [eof EXCEPT ![p] = TRUE]
        /\ UNCHANGED <<cap, pc, alive, born, open, written, taken, kept, truncated, reported>>
    BY <1>6 DEF EndOfFile, InPipe, program
  <2>2. TypeOK'
    <3>1. eof' \in [Pipes -> BOOLEAN]
      BY <2>1 DEF IInv, TypeOK
    <3> QED
      BY <2>1, <3>1 DEF IInv, TypeOK
  <2>3. EndInv'
    <3>1. taken[p] = written[p]
      BY <2>1 DEF IInv, TypeOK
    <3>2. \A q \in Pipes : eof'[q] => q = p \/ eof[q]
      BY <2>1 DEF IInv, TypeOK
    <3> QED
      BY <2>1, <3>1, <3>2 DEF IInv, EndInv, Ended
  <2>4. ReportInv'
    BY <2>1 DEF ReportInv
  <2> QED
    BY <1>1, <2>2, <2>3, <2>4 DEF IInv
<1> QED
  BY <1>2, <1>3, <1>4, <1>5, <1>6

-----------------------------------------------------------------------------
(* The steps of the program.                                               *)

LEMMA ProgramKeeps ==
  ASSUME IInv, NEW h \in Processes,
         \/ \E p \in Pipes : Write(h, p) \/ ClosePipe(h, p)
         \/ \E d \in Descendants : Fork(h, d)
         \/ Exit(h)
  PROVE  IInv'
<1> USE SizeAssumption, DescendantsAssumption
<1>1. ReportInv'
  BY DEF Write, ClosePipe, Fork, Exit, reader, IInv, ReportInv
<1>2. ASSUME NEW p \in Pipes, Write(h, p) PROVE IInv'
  <2>1. /\ pc = "collect" /\ h \in open[p] /\ written[p] < MaxWritten
        /\ written' = [written EXCEPT ![p] = @ + 1]
        /\ UNCHANGED <<cap, pc, alive, born, open, taken, eof, kept, truncated, reported>>
    BY <1>2 DEF Write, reader
  <2>2. TypeOK'
    <3>1. written' \in [Pipes -> 0..MaxWritten]
      BY <2>1 DEF IInv, TypeOK
    <3> QED
      BY <2>1, <3>1 DEF IInv, TypeOK
  <2>3. \A q \in Pipes : /\ written[q] <= written'[q] /\ written'[q] \in Nat
                        /\ eof[q] => written'[q] = written[q]
    BY <2>1 DEF IInv, TypeOK, EndInv
  <2>4. PipeInv'
    <3>1. \A q \in Pipes : taken'[q] <= written'[q]
      BY <2>1, <2>3 DEF IInv, TypeOK, PipeInv
    <3> QED
      BY <2>1, <3>1 DEF IInv, PipeInv, Lesser
  <2>5. EndInv'
    BY <2>1, <2>3 DEF IInv, EndInv, Ended
  <2> QED
    BY <1>1, <2>2, <2>4, <2>5 DEF IInv
<1>3. CASE \/ \E p \in Pipes : ClosePipe(h, p)
           \/ \E d \in Descendants : Fork(h, d)
           \/ Exit(h)
  <2>1. UNCHANGED <<cap, pc, written, taken, eof, kept, truncated, reported>>
    BY <1>3 DEF ClosePipe, Fork, Exit, reader
  <2>2. PipeInv'
    BY <2>1 DEF IInv, PipeInv, Lesser
  <2> DEFINE Passed ==
        /\ alive' \subseteq born' /\ born' \subseteq Processes
        /\ open' \in [Pipes -> SUBSET Processes]
        /\ \A q \in Pipes : open'[q] \subseteq alive' /\ (open[q] = {} => open'[q] = {})
        /\ alive = {} => alive' = {}
        /\ ("child" \in born) => ("child" \in alive' => "child" \in alive) /\ "child" \in born'
  <2>3. Passed
    <3>1. CASE \E p \in Pipes : ClosePipe(h, p)
      BY <3>1 DEF ClosePipe, IInv, TypeOK, EndInv
    <3>2. ASSUME NEW d \in Descendants, Fork(h, d)
          PROVE  Passed
      <4>1. /\ h \in alive /\ d \notin born
            /\ alive' = alive \cup {d} /\ born' = born \cup {d}
            /\ open' = [q \in Pipes |-> IF h \in open[q] THEN open[q] \cup {d} ELSE open[q]]
        BY <3>2 DEF Fork
      <4> QED
        BY <4>1 DEF IInv, TypeOK, EndInv, Processes
    <3>3. CASE Exit(h)
      BY <3>3 DEF Exit, IInv, TypeOK, EndInv
    <3> QED
      BY <1>3, <3>1, <3>2, <3>3
  <2>4. TypeOK'
    BY <2>1, <2>3 DEF IInv, TypeOK
  <2>5. EndInv'
    BY <2>1, <2>3 DEF IInv, EndInv, Ended
  <2> QED
    BY <1>1, <2>2, <2>4, <2>5 DEF IInv
<1> QED
  BY <1>2, <1>3

-----------------------------------------------------------------------------
LEMMA Inductive == Spec => []IInv
<1>1. IInv /\ [Next]_vars => IInv'
  <2> SUFFICES ASSUME IInv, [Next]_vars PROVE IInv'
    OBVIOUS
  <2>1. CASE Run
    BY <2>1, ReadKeeps, EndKeeps DEF Run
  <2>2. CASE Program
    BY <2>2, ProgramKeeps DEF Program
  <2>3. CASE UNCHANGED vars
    BY <2>3 DEF vars, program, reader, IInv, TypeOK, PipeInv, Lesser, EndInv, ReportInv
  <2> QED
    BY <2>1, <2>2, <2>3 DEF Next, Terminated
<1> QED
  BY <1>1, InitIInv, PTL DEF Spec

\* Every variable keeps to its type: what is kept never exceeds the cap.
THEOREM TypeCorrect == Spec => []TypeOK
<1>1. IInv => TypeOK
  BY DEF IInv
<1> QED
  BY <1>1, Inductive, PTL

\* What read_capped() keeps is the beginning of what was written, and the answer
\* of run() is truncated exactly when something is missing.
THEOREM CaptureCorrect == Spec => []CaptureIsAPrefix
<1>1. IInv => CaptureIsAPrefix
  <2> SUFFICES ASSUME IInv PROVE CaptureIsAPrefix
    OBVIOUS
  <2>1. \A p \in Pipes : kept[p] = Lesser(cap, taken[p]) /\ truncated[p] = (taken[p] > cap)
    BY DEF IInv, PipeInv
  <2>2. ASSUME pc = "returned"
        PROVE  /\ \A p \in Pipes : taken[p] = written[p]
               /\ reported = (\E p \in Pipes : written[p] > cap)
    <3>1. \A p \in Pipes : taken[p] = written[p]
      BY <2>2 DEF IInv, EndInv
    <3>2. reported = (truncated["stdout"] \/ truncated["stderr"])
      BY <2>2 DEF IInv, ReportInv
    <3>3. \A p \in Pipes : truncated[p] = (written[p] > cap)
      BY <2>1, <3>1
    <3> QED
      BY <3>1, <3>2, <3>3 DEF Pipes
  <2> QED
    BY <2>1, <2>2 DEF CaptureIsAPrefix
<1> QED
  BY <1>1, Inductive, PTL

\* The program is dead when the call is over, and an answer proves that nobody
\* holds a pipe.
THEOREM NoChildLeft == Spec => []NoChildOutlivesTheCall
<1>1. IInv => NoChildOutlivesTheCall
  BY DEF IInv, EndInv, NoChildOutlivesTheCall
<1> QED
  BY <1>1, Inductive, PTL

\* While anybody can write to a pipe, or anything is in it, run() is reading it.
SomebodyReads ==
  pc \in {"collect", "wait"} =>
    \A p \in Pipes : open[p] # {} \/ InPipe(p) > 0 => pc = "collect" /\ MayRead(p)

\* Whoever waits for room in a pipe does not wait for one who waits for it: the
\* pipe is being read, whatever state the other one is in and however much was
\* kept of it (read_capped goes on reading behind the cap, and run() reads both
\* pipes to their ends before it waits for the program).  The fairness that
\* NeverBlockedForEver needs besides is that of the read.
THEOREM SomebodyReadsAlways == Spec => []SomebodyReads
<1>1. IInv => SomebodyReads
  <2> SUFFICES ASSUME IInv, pc \in {"collect", "wait"}, NEW p \in Pipes,
                      open[p] # {} \/ InPipe(p) > 0
               PROVE  pc = "collect" /\ MayRead(p)
    BY DEF SomebodyReads
  <2>1. written[p] \in Int /\ taken[p] \in Int
    BY SizeAssumption DEF IInv, TypeOK
  <2>2. ~eof[p]
    BY <2>1 DEF IInv, EndInv, InPipe
  <2> QED
    BY <2>2 DEF IInv, EndInv, MayRead
<1> QED
  BY <1>1, Inductive, PTL

\* The steps run() can still make, if it reads one byte at a time.
Passed == [start |-> 0, collect |-> 1, wait |-> 2, returned |-> 3, timeout |-> 3,
           dropped |-> 3, failed |-> 3]

StepsLeft(p) == (MaxWritten - taken[p]) + IF eof[p] THEN 0 ELSE 1

CallLeft == (3 - Passed[pc]) + StepsLeft("stdout") + StepsLeft("stderr")

\* Every step of run() is one less to make, and no program, however it feeds its
\* pipes, adds one.
CallGoesForward ==
  [][/\ CallLeft' \in Nat
     /\ Run => CallLeft' < CallLeft
     /\ Program => CallLeft' = CallLeft]_vars

\* run() never spins: a call makes at most one step per byte that is written, one
\* for the end of each pipe and three for itself.  What
\* it does not do is end by itself, if the program neither writes nor exits:
\* CallEnds needs the time limit to strike.
THEOREM CallGoesForwardAlways == Spec => CallGoesForward
<1>1. ASSUME TypeOK, PipeInv
      PROVE  CallLeft \in Nat
  <2>1. \A p \in Pipes : MaxWritten - taken[p] \in Nat
    BY <1>1, SizeAssumption DEF TypeOK, PipeInv
  <2>2. \A p \in Pipes : StepsLeft(p) \in Nat
    BY <2>1 DEF StepsLeft
  <2>3. 3 - Passed[pc] \in Nat
    BY <1>1 DEF TypeOK, Passed, Ended
  <2> QED
    BY <2>2, <2>3 DEF CallLeft, Pipes
<1>2. ASSUME TypeOK, TypeOK', Run
      PROVE  CallLeft' < CallLeft
  <2>0. /\ \A p \in Pipes : taken[p] \in Nat /\ taken'[p] \in Nat /\ eof[p] \in BOOLEAN
        /\ MaxWritten \in Nat /\ "stdout" \in Pipes /\ "stderr" \in Pipes
    BY <1>2, SizeAssumption DEF TypeOK, Pipes
  <2>1. CASE UNCHANGED <<taken, eof>> /\ Passed[pc'] > Passed[pc]
    <3>1. StepsLeft("stdout")' = StepsLeft("stdout") /\ StepsLeft("stderr")' = StepsLeft("stderr")
      BY <2>1 DEF StepsLeft
    <3>2. StepsLeft("stdout") \in Int /\ StepsLeft("stderr") \in Int
      BY <2>0 DEF StepsLeft
    <3>3. Passed[pc] \in Int /\ Passed[pc'] \in Int
      BY <1>2 DEF TypeOK, Passed, Ended
    <3> QED
      BY <2>1, <3>1, <3>2, <3>3 DEF CallLeft
  <2>2. CASE Spawn \/ SpawnFails \/ Collected \/ Reaped \/ WaitFails \/ TimesOut \/ Drop
    <3>1. UNCHANGED <<taken, eof>>
      BY <2>2 DEF Spawn, SpawnFails, Collected, Reaped, WaitFails, TimesOut, Drop, reader
    <3>2. Passed[pc'] > Passed[pc]
      BY <2>2 DEF Spawn, SpawnFails, Collected, Reaped, WaitFails, TimesOut, Drop, Passed
    <3> QED
      BY <2>1, <3>1, <3>2
  <2>3. ASSUME NEW p \in Pipes, NEW q \in Pipes, q # p, Read(p)
        PROVE  CallLeft' < CallLeft
    <3>1. PICK n \in 1..Buffer : taken' = [taken EXCEPT ![p] = @ + n]
      BY <2>3 DEF Read
    <3>2. n \in Nat \ {0}
      BY SizeAssumption
    <3>3. taken'[p] = taken[p] + n /\ taken'[q] = taken[q]
      BY <1>2, <2>3, <3>1 DEF TypeOK
    <3>4. pc' = pc /\ eof' = eof
      BY <2>3 DEF Read
    <3>5. StepsLeft(p)' < StepsLeft(p) /\ StepsLeft(q)' = StepsLeft(q)
      BY <2>0, <2>3, <3>2, <3>3, <3>4 DEF StepsLeft
    <3>6. \A x \in Pipes : StepsLeft(x) \in Int /\ StepsLeft(x)' \in Int
      BY <2>0, <3>4 DEF StepsLeft
    <3>7. Passed[pc] \in Int
      BY <1>2 DEF TypeOK, Passed, Ended
    <3> QED
      BY <2>3, <3>4, <3>5, <3>6, <3>7 DEF CallLeft, Pipes
  <2>4. ASSUME NEW p \in Pipes, NEW q \in Pipes, q # p, EndOfFile(p)
        PROVE  CallLeft' < CallLeft
    <3>1. ~eof[p] /\ eof' = [eof EXCEPT ![p] = TRUE] /\ pc' = pc /\ taken' = taken
      BY <2>4 DEF EndOfFile, MayRead
    <3>2. eof'[p] /\ eof'[q] = eof[q]
      BY <1>2, <2>4, <3>1 DEF TypeOK
    <3>3. StepsLeft(p)' < StepsLeft(p) /\ StepsLeft(q)' = StepsLeft(q)
      BY <2>0, <2>4, <3>1, <3>2 DEF StepsLeft
    <3>4. \A x \in Pipes : StepsLeft(x) \in Int /\ StepsLeft(x)' \in Int
      BY <2>0, <3>1 DEF StepsLeft
    <3>5. Passed[pc] \in Int
      BY <1>2 DEF TypeOK, Passed, Ended
    <3> QED
      BY <2>4, <3>1, <3>3, <3>4, <3>5 DEF CallLeft, Pipes
  <2>5. \A p \in Pipes : \E q \in Pipes : q # p
    BY DEF Pipes
  <2> QED
    BY <1>2, <2>2, <2>3, <2>4, <2>5 DEF Run
<1>3. ASSUME Program
      PROVE  CallLeft' = CallLeft
  <2>1. UNCHANGED <<pc, taken, eof>>
    BY <1>3 DEF Program, Write, ClosePipe, Fork, Exit, reader
  <2> QED
    BY <2>1 DEF CallLeft, StepsLeft
<1>4. IInv => TypeOK /\ CallLeft \in Nat
  BY <1>1 DEF IInv
<1>5. TypeOK /\ TypeOK' /\ (CallLeft \in Nat)' =>
        /\ CallLeft' \in Nat
        /\ Run => CallLeft' < CallLeft
        /\ Program => CallLeft' = CallLeft
  BY <1>2, <1>3
<1> QED
  BY <1>4, <1>5, Inductive, PTL DEF CallGoesForward
=============================================================================
