----------------------- MODULE RecoveryDrill_proofs ------------------------
(***************************************************************************)
(* Proofs about RecoveryDrill, for every number of checks and every choice *)
(* of the required ones.                                                   *)
(***************************************************************************)
EXTENDS RecoveryDrill, TLAPS

Alive(c) == child[c] \in {"running", "acted"}
Ended(c) == child[c] \in {"ok", "failed", "killed"}

Before == {"begin", "attach", "docker", "inspect", "restore", "restoreWait", "startEnv"}
InStart == {"spawnUp", "upWait", "startTeardown", "ready"}
InDown == {"startSpawnDown", "startDownWait", "spawnDown", "downWait"}
Over == AfterDrill \cup {"exited"}

\* Where the drill is, against the environment value it holds.
PhaseInv ==
  /\ env \in {"armed", "tornDown"} => Full /\ ~opts.dryRun
  /\ env = "attached" => ~Full /\ ~opts.dryRun
  /\ pc \in Before => env = "none"
  /\ pc \in Before \ {"begin"} => ~opts.dryRun
  /\ pc \in Before \ {"begin", "attach"} => Full
  /\ pc = "attach" => ~Full
  /\ pc \in InStart => env = "armed"
  /\ pc \in InDown => env = "tornDown" /\ Cleanup
  /\ pc \in {"check", "teardown"} => env = IF Full THEN "armed" ELSE "attached"
  /\ pc = "dropWait" => env = "armed" /\ Cleanup
  /\ watcher = "exited" => pc = "exited"
  /\ pc = "exited" => watcher \in {"aborted", "exited"}
  /\ watcher = "aborted" => pc \in {"shutdown", "exited"}

\* Which children exist, against the environment value.
ChildInv ==
  /\ child["up"] # "idle" => env \in {"armed", "tornDown"}
  /\ child["down"] # "idle" => env = "tornDown" /\ Cleanup
  /\ child["drop"] # "idle" => /\ env = "armed" /\ Cleanup
                               /\ pc \in {"dropWait"} \cup Over
  /\ child["watcherDown"] # "idle" => env \in {"armed", "tornDown"} /\ Cleanup
  /\ pc = "spawnUp" => child["up"] = "idle"
  /\ Alive("up") => pc \in {"upWait", "exited"}
  /\ child["down"] # "idle" \/ child["drop"] # "idle" => ~Alive("up")
  /\ pc \in {"startSpawnDown", "spawnDown"} => child["down"] = "idle"
  /\ pc \in {"startDownWait", "downWait"} => child["down"] # "idle"

\* What the containers are, against the children that touched them.
ContainersInv ==
  /\ Full /\ child["up"] = "idle" => containers = "none"
  /\ ~Full => containers = "up"
  /\ child["down"] \in {"acted", "ok"} \/ child["drop"] \in {"acted", "ok"}
       => containers = "none"
  /\ pc \in {"unwind"} \cup AfterDrill \/ DrillOver =>
       /\ env = "tornDown" /\ Cleanup => Ended("down")
       /\ env = "armed" /\ Cleanup /\ pc # "unwind" => child["drop"] \in {"ok", "failed"}

\* The registry only ever holds a project that is to be destroyed.
RegistryInv ==
  /\ registered => env \in {"armed", "tornDown"} /\ Cleanup
  /\ env = "armed" /\ Cleanup => registered \/ child["watcherDown"] # "idle"

\* Progress, against the Result of the drill.
ProgressInv ==
  /\ \A c \in Ran : status[c] \in CheckStatus
  /\ result = "ok" /\ ~opts.dryRun => next = N + 1
  /\ cleanedUp => child["down"] = "ok" /\ pc \in {"unwind"} \cup Over
  /\ result = "ok" /\ Full /\ Cleanup /\ ~opts.dryRun =>
       pc \in {"teardown", "spawnDown", "downWait", "exited"} \/ cleanedUp \/ warned

\* The report and the exit code, against the Result of the drill.
ReportInv ==
  /\ reported # "none" => reported = DrillStatus
  /\ reported # "none" => pc \in {"emit", "stop", "shutdown", "exited"}
  /\ pc = "emit" => reported # "none"
  /\ exitCode # -1 => pc \in {"stop", "shutdown", "exited"}
  /\ exitCode = 0 => /\ result = "ok" /\ reported # "none"
                     /\ StatusExitCode(reported) = 0
                     /\ Full /\ Cleanup /\ ~opts.dryRun => cleanedUp \/ warned
  /\ pc \in {"stop", "shutdown"} \/ (pc = "exited" /\ watcher # "exited") =>
       reported # "none" \/ exitCode = 6

\* The inductive invariant.
IInv == TypeOK /\ PhaseInv /\ ChildInv /\ ContainersInv /\ RegistryInv
          /\ ProgressInv /\ ReportInv

-----------------------------------------------------------------------------
(* Lemmas.                                                                 *)

\* The status of a report is a RunStatus: assemble() and aggregate() cover every
\* combination of outcomes.
LEMMA DrillStatusType == DrillStatus \in RunStatus
  BY DEF DrillStatus, Aggregate, RunStatus

\* The status depends on the outcomes alone: not on the environment, the
\* children or the watcher.
LEMMA DrillStatusFrame == UNCHANGED <<opts, next, status>> => DrillStatus' = DrillStatus
  BY DEF DrillStatus, Aggregate, Ran

\* A process that has done nothing satisfies the inductive invariant.
LEMMA InitIInv == Init => IInv
<1> SUFFICES ASSUME Init
             PROVE  IInv
  OBVIOUS
<1>1. TypeOK
  <2>1. /\ registered \in BOOLEAN /\ cleanedUp \in BOOLEAN
        /\ keptEnv \in BOOLEAN /\ warned \in BOOLEAN
    BY DEF Init
  <2>2. containers \in {"none", "up"}
    BY DEF Init
  <2>3. child \in [Children -> ChildStates]
    BY DEF Init, ChildStates
  <2>4. status \in [Checks -> CheckStatus \cup {"none"}]
    BY DEF Init
  <2> QED
    BY <2>1, <2>2, <2>3, <2>4, NAssumption DEF Init, TypeOK, PCs
<1>2. PhaseInv
  BY DEF Init, PhaseInv, Full, Before, InStart, InDown
<1>3. ChildInv
  BY DEF Init, ChildInv, Alive, Children, Downs
<1>4. ContainersInv
  BY DEF Init, ContainersInv, DrillOver, AfterDrill, Children, Downs, Full, Options
<1>5. RegistryInv
  BY DEF Init, RegistryInv
<1>6. ProgressInv
  BY DEF Init, ProgressInv, Ran
<1>7. ReportInv
  BY DEF Init, ReportInv
<1> QED
  BY <1>1, <1>2, <1>3, <1>4, <1>5, <1>6, <1>7 DEF IInv

\* Every step keeps the inductive invariant: one case per action.
LEMMA StepIInv == IInv /\ [Next]_vars => IInv'
<1> SUFFICES ASSUME IInv, [Next]_vars
             PROVE  IInv'
  OBVIOUS
<1> USE NAssumption, RequiredAssumption
    DEF IInv, TypeOK, PhaseInv, ChildInv, ContainersInv, RegistryInv, ProgressInv,
        Alive, Ended, DrillOver, Ran, Options, Sources, PCs, Checks, Failure,
        CheckStatus, RunStatus, Children, Downs, ChildStates, Goto, Return, Spawn,
        Kill, drillVars, world, outputVars, Full, Cleanup, Before, InStart, InDown,
        Over, AfterDrill
<1>1. CASE DryRun
  BY <1>1 DEF DryRun, ReportInv, DrillStatus
<1>2. CASE CreateWorkspace
  BY <1>2 DEF CreateWorkspace, ReportInv, DrillStatus
<1>3. CASE CreateWorkspaceFails
  BY <1>3 DEF CreateWorkspaceFails, ReportInv, DrillStatus
<1>4. CASE Attach
  BY <1>4 DEF Attach, ReportInv, DrillStatus
<1>5. CASE EnsureDocker
  BY <1>5 DEF EnsureDocker, ReportInv, DrillStatus
<1>6. CASE Inspect
  BY <1>6 DEF Inspect, ReportInv, DrillStatus
<1>7. CASE StartRestore
  BY <1>7 DEF StartRestore, ReportInv, DrillStatus
<1>8. CASE RestoreEnds
  BY <1>8 DEF RestoreEnds, ReportInv, DrillStatus
<1>9. CASE StartEnvironment
  BY <1>9 DEF StartEnvironment, ReportInv, DrillStatus
<1>10. CASE SpawnUp
  BY <1>10 DEF SpawnUp, ReportInv, DrillStatus
<1>11. CASE UpEnds
  BY <1>11 DEF UpEnds, ReportInv, DrillStatus
<1>12. CASE Teardown
  <2>1. TypeOK'
    <3>1. registered' \in BOOLEAN
      BY <1>12 DEF Teardown
    <3> QED
      BY <1>12, <3>1 DEF Teardown
  <2>2. PhaseInv'
    BY <1>12 DEF Teardown
  <2>3. ChildInv'
    BY <1>12 DEF Teardown
  <2>4. ContainersInv'
    BY <1>12 DEF Teardown
  <2>5. RegistryInv'
    BY <1>12 DEF Teardown
  <2>6. ProgressInv'
    BY <1>12 DEF Teardown
  <2>7. UNCHANGED <<opts, next, status>>
    BY <1>12 DEF Teardown
  <2>8. ReportInv'
    BY <1>12, <2>7, DrillStatusFrame DEF Teardown, ReportInv, StatusExitCode
  <2> QED
    BY <2>1, <2>2, <2>3, <2>4, <2>5, <2>6, <2>8
<1>13. CASE TeardownAttached
  BY <1>13 DEF TeardownAttached, ReportInv, DrillStatus
<1>14. CASE SpawnDown
  BY <1>14 DEF SpawnDown, ReportInv, DrillStatus
<1>15. CASE StartDownEnds
  BY <1>15 DEF StartDownEnds, ReportInv, DrillStatus
<1>16. CASE DownEnds
  BY <1>16 DEF DownEnds, ReportInv, DrillStatus
<1>17. CASE KeepEnvironment
  BY <1>17 DEF KeepEnvironment, ReportInv, DrillStatus
<1>18. CASE WaitUntilReady
  BY <1>18 DEF WaitUntilReady, ReportInv, DrillStatus
<1>19. CASE RunCheck
  BY <1>19 DEF RunCheck, ReportInv, DrillStatus
<1>20. CASE ChecksDone
  BY <1>20 DEF ChecksDone, ReportInv, DrillStatus
<1>21. CASE DropEnvironment
  BY <1>21 DEF DropEnvironment, GuardArmed, ReportInv, DrillStatus
<1>22. CASE DropReturns
  BY <1>22 DEF DropReturns, ReportInv, DrillStatus
<1>23. CASE DropWorkspace
  BY <1>23 DEF DropWorkspace, ReportInv, DrillStatus
<1>24. CASE WriteReport
  <2>1. TypeOK'
    BY <1>24, DrillStatusType DEF WriteReport
  <2>2. PhaseInv'
    BY <1>24 DEF WriteReport
  <2>3. ChildInv'
    BY <1>24 DEF WriteReport
  <2>4. ContainersInv'
    BY <1>24 DEF WriteReport
  <2>5. RegistryInv'
    BY <1>24 DEF WriteReport
  <2>6. ProgressInv'
    BY <1>24 DEF WriteReport
  <2>7. UNCHANGED <<opts, next, status>>
    BY <1>24 DEF WriteReport
  <2>8. ReportInv'
    BY <1>24, <2>7, DrillStatusFrame, DrillStatusType DEF WriteReport, ReportInv, StatusExitCode
  <2> QED
    BY <2>1, <2>2, <2>3, <2>4, <2>5, <2>6, <2>8
<1>25. CASE Emit
  <2>1. TypeOK'
    BY <1>25 DEF Emit, StatusExitCode, FailureExitCode
  <2>2. PhaseInv'
    BY <1>25 DEF Emit
  <2>3. ChildInv'
    BY <1>25 DEF Emit
  <2>4. ContainersInv'
    BY <1>25 DEF Emit
  <2>5. RegistryInv'
    BY <1>25 DEF Emit
  <2>6. ProgressInv'
    BY <1>25 DEF Emit
  <2>7. UNCHANGED <<opts, next, status>>
    BY <1>25 DEF Emit
  <2>8. ReportInv'
    BY <1>25, <2>7, DrillStatusFrame DEF Emit, ReportInv, StatusExitCode, FailureExitCode
  <2> QED
    BY <2>1, <2>2, <2>3, <2>4, <2>5, <2>6, <2>8
<1>26. CASE Stop
  BY <1>26 DEF Stop, ReportInv, DrillStatus
<1>27. CASE Shutdown
  <2>1. TypeOK'
    BY <1>27 DEF Shutdown
  <2>2. PhaseInv'
    BY <1>27 DEF Shutdown
  <2>3. ChildInv'
    BY <1>27 DEF Shutdown
  <2>4. ContainersInv'
    BY <1>27 DEF Shutdown
  <2>5. RegistryInv'
    BY <1>27 DEF Shutdown
  <2>6. ProgressInv'
    BY <1>27 DEF Shutdown
  <2>7. UNCHANGED <<opts, next, status>>
    BY <1>27 DEF Shutdown
  <2>8. ReportInv'
    BY <1>27, <2>7, DrillStatusFrame DEF Shutdown, ReportInv, StatusExitCode
  <2> QED
    BY <2>1, <2>2, <2>3, <2>4, <2>5, <2>6, <2>8
<1>28. CASE RestoreTimesOut
  BY <1>28 DEF RestoreTimesOut, ReportInv, DrillStatus
<1>29. CASE UpTimesOut
  BY <1>29 DEF UpTimesOut, ReportInv, DrillStatus
<1>30. CASE DownTimesOut
  BY <1>30 DEF DownTimesOut, ReportInv, DrillStatus
<1>31. CASE Expire
  BY <1>31 DEF Expire, Awaiting, ReportInv, DrillStatus
<1>32. CASE Signal
  BY <1>32 DEF Signal, ReportInv, DrillStatus
<1>33. CASE LookAtRegistry
  <2>1. TypeOK'
    BY <1>33 DEF LookAtRegistry, Exit
  <2>2. PhaseInv'
    BY <1>33 DEF LookAtRegistry, Exit
  <2>3. ChildInv'
    BY <1>33 DEF LookAtRegistry, Exit
  <2>4. ContainersInv'
    BY <1>33 DEF LookAtRegistry, Exit
  <2>5. RegistryInv'
    BY <1>33 DEF LookAtRegistry, Exit
  <2>6. ProgressInv'
    BY <1>33 DEF LookAtRegistry, Exit
  <2>7. UNCHANGED <<opts, next, status>>
    BY <1>33 DEF LookAtRegistry, Exit
  <2>8. ReportInv'
    BY <1>33, <2>7, DrillStatusFrame DEF LookAtRegistry, Exit, ReportInv, StatusExitCode
  <2> QED
    BY <2>1, <2>2, <2>3, <2>4, <2>5, <2>6, <2>8
<1>34. CASE TakeRegistry
  <2>1. TypeOK'
    <3>1. registered' \in BOOLEAN
      BY <1>34 DEF TakeRegistry
    <3> QED
      BY <1>34, <3>1 DEF TakeRegistry, Exit
  <2>2. PhaseInv'
    BY <1>34 DEF TakeRegistry, Exit
  <2>3. ChildInv'
    BY <1>34 DEF TakeRegistry, Exit
  <2>4. ContainersInv'
    BY <1>34 DEF TakeRegistry, Exit
  <2>5. RegistryInv'
    BY <1>34 DEF TakeRegistry, Exit
  <2>6. ProgressInv'
    BY <1>34 DEF TakeRegistry, Exit
  <2>7. UNCHANGED <<opts, next, status>>
    BY <1>34 DEF TakeRegistry, Exit
  <2>8. ReportInv'
    BY <1>34, <2>7, DrillStatusFrame DEF TakeRegistry, Exit, ReportInv, StatusExitCode
  <2> QED
    BY <2>1, <2>2, <2>3, <2>4, <2>5, <2>6, <2>8
<1>35. CASE WatcherExits
  <2>1. TypeOK'
    BY <1>35 DEF WatcherExits, Exit
  <2>2. PhaseInv'
    BY <1>35 DEF WatcherExits, Exit
  <2>3. ChildInv'
    BY <1>35 DEF WatcherExits, Exit
  <2>4. ContainersInv'
    BY <1>35 DEF WatcherExits, Exit
  <2>5. RegistryInv'
    BY <1>35 DEF WatcherExits, Exit
  <2>6. ProgressInv'
    BY <1>35 DEF WatcherExits, Exit
  <2>7. UNCHANGED <<opts, next, status>>
    BY <1>35 DEF WatcherExits, Exit
  <2>8. ReportInv'
    BY <1>35, <2>7, DrillStatusFrame DEF WatcherExits, Exit, ReportInv, StatusExitCode
  <2> QED
    BY <2>1, <2>2, <2>3, <2>4, <2>5, <2>6, <2>8
<1>36. CASE CopyWrites
  <2>1. TypeOK'
    BY <1>36 DEF CopyWrites
  <2>2. PhaseInv'
    BY <1>36 DEF CopyWrites
  <2>3. ChildInv'
    BY <1>36 DEF CopyWrites
  <2>4. ContainersInv'
    BY <1>36 DEF CopyWrites
  <2>5. RegistryInv'
    BY <1>36 DEF CopyWrites
  <2>6. ProgressInv'
    BY <1>36 DEF CopyWrites
  <2>7. UNCHANGED <<opts, next, status>>
    BY <1>36 DEF CopyWrites
  <2>8. ReportInv'
    BY <1>36, <2>7, DrillStatusFrame DEF CopyWrites, ReportInv, StatusExitCode
  <2> QED
    BY <2>1, <2>2, <2>3, <2>4, <2>5, <2>6, <2>8
<1>37. CASE CopyEnds
  <2>1. TypeOK'
    BY <1>37 DEF CopyEnds
  <2>2. PhaseInv'
    BY <1>37 DEF CopyEnds
  <2>3. ChildInv'
    BY <1>37 DEF CopyEnds
  <2>4. ContainersInv'
    BY <1>37 DEF CopyEnds
  <2>5. RegistryInv'
    BY <1>37 DEF CopyEnds
  <2>6. ProgressInv'
    BY <1>37 DEF CopyEnds
  <2>7. UNCHANGED <<opts, next, status>>
    BY <1>37 DEF CopyEnds
  <2>8. ReportInv'
    BY <1>37, <2>7, DrillStatusFrame DEF CopyEnds, ReportInv, StatusExitCode
  <2> QED
    BY <2>1, <2>2, <2>3, <2>4, <2>5, <2>6, <2>8
<1>38. CASE HashEnds
  <2>1. TypeOK'
    BY <1>38 DEF HashEnds
  <2>2. PhaseInv'
    BY <1>38 DEF HashEnds
  <2>3. ChildInv'
    BY <1>38 DEF HashEnds
  <2>4. ContainersInv'
    BY <1>38 DEF HashEnds
  <2>5. RegistryInv'
    BY <1>38 DEF HashEnds
  <2>6. ProgressInv'
    BY <1>38 DEF HashEnds
  <2>7. UNCHANGED <<opts, next, status>>
    BY <1>38 DEF HashEnds
  <2>8. ReportInv'
    BY <1>38, <2>7, DrillStatusFrame DEF HashEnds, ReportInv, StatusExitCode
  <2> QED
    BY <2>1, <2>2, <2>3, <2>4, <2>5, <2>6, <2>8
<1>39. CASE \E c \in Children : ChildStep(c)
  <2>1. TypeOK'
    BY <1>39 DEF ChildStep, UpCreates, DownRemoves, ChildExits
  <2>2. PhaseInv'
    BY <1>39 DEF ChildStep, UpCreates, DownRemoves, ChildExits
  <2>3. ChildInv'
    BY <1>39 DEF ChildStep, UpCreates, DownRemoves, ChildExits
  <2>4. ContainersInv'
    BY <1>39 DEF ChildStep, UpCreates, DownRemoves, ChildExits
  <2>5. RegistryInv'
    BY <1>39 DEF ChildStep, UpCreates, DownRemoves, ChildExits
  <2>6. ProgressInv'
    BY <1>39 DEF ChildStep, UpCreates, DownRemoves, ChildExits
  <2>7. UNCHANGED <<opts, next, status>>
    BY <1>39 DEF ChildStep, UpCreates, DownRemoves, ChildExits
  <2>8. ReportInv'
    BY <1>39, <2>7, DrillStatusFrame DEF ChildStep, UpCreates, DownRemoves, ChildExits, ReportInv, StatusExitCode
  <2> QED
    BY <2>1, <2>2, <2>3, <2>4, <2>5, <2>6, <2>8
<1>40. CASE Terminated \/ UNCHANGED vars
  <2>1. TypeOK'
    BY <1>40 DEF Terminated, vars
  <2>2. PhaseInv'
    BY <1>40 DEF Terminated, vars
  <2>3. ChildInv'
    BY <1>40 DEF Terminated, vars
  <2>4. ContainersInv'
    BY <1>40 DEF Terminated, vars
  <2>5. RegistryInv'
    BY <1>40 DEF Terminated, vars
  <2>6. ProgressInv'
    BY <1>40 DEF Terminated, vars
  <2>7. UNCHANGED <<opts, next, status>>
    BY <1>40 DEF Terminated, vars
  <2>8. ReportInv'
    BY <1>40, <2>7, DrillStatusFrame DEF Terminated, vars, ReportInv, StatusExitCode
  <2> QED
    BY <2>1, <2>2, <2>3, <2>4, <2>5, <2>6, <2>8
<1> QED
  BY <1>1, <1>2, <1>3, <1>4, <1>5, <1>6, <1>7, <1>8, <1>9, <1>10, <1>11, <1>12,
     <1>13, <1>14, <1>15, <1>16, <1>17, <1>18, <1>19, <1>20, <1>21, <1>22, <1>23, <1>24,
     <1>25, <1>26, <1>27, <1>28, <1>29, <1>30, <1>31, <1>32, <1>33, <1>34, <1>35, <1>36, <1>37,
     <1>38, <1>39, <1>40
     DEF Next, DrillStep, StepTimer, WatcherStep

\* The inductive invariant holds in every state of every drill.
THEOREM InductiveInvariant == Spec => []IInv
  BY InitIInv, StepIInv, PTL DEF Spec

-----------------------------------------------------------------------------
(* The properties of RecoveryDrill.                                        *)

\* Every variable keeps to its type.
THEOREM TypeCorrect == Spec => []TypeOK
<1>1. IInv => TypeOK
  BY DEF IInv
<1> QED
  BY <1>1, InductiveInvariant, PTL

\* No drill, whatever fails, expires or is interrupted, asks docker to destroy
\* an environment it must not destroy.
THEOREM HandsOffAlways == Spec => []HandsOff
<1>1. IInv => HandsOff
  BY DEF IInv, TypeOK, ChildInv, ContainersInv, HandsOff, MustDestroy, Full, Cleanup,
         Options, Downs, Children, PhaseInv
<1> QED
  BY <1>1, InductiveInvariant, PTL

\* An interruption finds every environment that nobody has begun to destroy.
THEOREM LiveIsTrackedAlways == Spec => []LiveIsTracked
<1>1. IInv => LiveIsTracked
  BY DEF IInv, TypeOK, PhaseInv, ChildInv, ContainersInv, RegistryInv, LiveIsTracked,
         MustDestroy, Full, Cleanup, Options, Downs, Children
<1> QED
  BY <1>1, InductiveInvariant, PTL

\* "Cleaned up" is never reported over containers that exist.
THEOREM CleanedUpMeansGoneAlways == Spec => []CleanedUpMeansGone
<1>1. IInv => CleanedUpMeansGone
  BY DEF IInv, ContainersInv, ProgressInv, CleanedUpMeansGone
<1> QED
  BY <1>1, InductiveInvariant, PTL

\* The environment goes before the workspace and before the report.
THEOREM EnvironmentGoesFirstAlways == Spec => []EnvironmentGoesFirst
<1>1. IInv => EnvironmentGoesFirst
  BY DEF IInv, TypeOK, PhaseInv, ChildInv, ContainersInv, EnvironmentGoesFirst,
         TeardownDisturbed, DrillOver, AfterDrill, Ended, MustDestroy, Full, Cleanup,
         Options, Downs, Children
<1> QED
  BY <1>1, InductiveInvariant, PTL

\* A success over containers left behind carries a warning.
THEOREM NoSilentLeakAlways == Spec => []NoSilentLeak
<1>1. IInv => NoSilentLeak
  BY DEF IInv, TypeOK, PhaseInv, ChildInv, ContainersInv, ProgressInv, ReportInv,
         NoSilentLeak, MustDestroy, Full, Cleanup, Options, Downs, Children, DrillStatus,
         StatusExitCode
<1> QED
  BY <1>1, InductiveInvariant, PTL

\* The drill never destroys its environment twice.
THEOREM DropIsLastResortAlways == Spec => []DropIsLastResort
<1>1. IInv => DropIsLastResort
  BY DEF IInv, ChildInv, DropIsLastResort
<1> QED
  BY <1>1, InductiveInvariant, PTL

\* Exit code 0 is a proof that every check was run and every required one passed.
THEOREM SuccessIsProvenAlways == Spec => []SuccessIsProven
<1>1. IInv => SuccessIsProven
  <2> SUFFICES ASSUME IInv, exitCode = 0, ~opts.dryRun
               PROVE  /\ result = "ok" /\ next = N + 1
                      /\ \A c \in Required : status[c] = "PASSED"
                      /\ reported \in {"PASSED", "PARTIAL"}
    BY DEF SuccessIsProven
  <2>1. result = "ok" /\ reported = DrillStatus /\ StatusExitCode(reported) = 0
    BY DEF IInv, ReportInv
  <2>2. next = N + 1
    BY <2>1 DEF IInv, ProgressInv
  <2>3. Ran = Checks /\ Ran # {} /\ Required \subseteq Ran
    <3>1. next - 1 = N
      BY <2>2, NAssumption
    <3>2. 1 \in 1..N
      BY NAssumption
    <3> QED
      BY <3>1, <3>2, RequiredAssumption DEF Ran, Checks
  <2>4. \A c \in Required : status[c] \in CheckStatus
    BY <2>3 DEF IInv, ProgressInv
  <2>5. DrillStatus \in {"PASSED", "PARTIAL"}
    BY <2>1, <2>3 DEF DrillStatus, Aggregate, StatusExitCode
  <2>6. \A c \in Required : status[c] \notin {"FAILED", "ERROR", "SKIPPED"}
    BY <2>3, <2>5 DEF DrillStatus, Aggregate
  <2> QED
    BY <2>1, <2>2, <2>4, <2>5, <2>6 DEF CheckStatus
<1> QED
  BY <1>1, InductiveInvariant, PTL

\* A drill that was not interrupted leaves a report or the exit code 6.
THEOREM ReportOnEveryPathAlways == Spec => []ReportOnEveryPath
<1>1. IInv => ReportOnEveryPath
  BY DEF IInv, ReportInv, ReportOnEveryPath
<1> QED
  BY <1>1, InductiveInvariant, PTL

\* Nothing creates a container once the drill has asked for their destruction:
\* only `up` creates one, and no `up` is alive by then.
THEOREM NothingCreatedAfterDownAlways == Spec => NothingCreatedAfterDown
<1>1. IInv /\ [Next]_vars =>
        (child["down"] # "idle" \/ child["drop"] # "idle" =>
          (containers' = "up" => containers = "up"))
  <2> SUFFICES ASSUME IInv, [Next]_vars, ~Alive("up"), containers' # containers
               PROVE  containers' = "none"
    BY DEF IInv, TypeOK, ChildInv
  <2>1. PICK c \in Children : ChildStep(c)
    BY DEF Next, DrillStep, StepTimer, WatcherStep, Terminated, vars, world, DryRun,
           CreateWorkspace, CreateWorkspaceFails, Attach, EnsureDocker, Inspect,
           StartRestore, RestoreEnds, RestoreTimesOut, StartEnvironment, SpawnUp,
           UpEnds, UpTimesOut, Teardown, TeardownAttached, SpawnDown, DownTimesOut,
           StartDownEnds, DownEnds, KeepEnvironment, WaitUntilReady, RunCheck,
           ChecksDone, Expire, DropEnvironment, DropReturns, DropWorkspace,
           WriteReport, Emit, Stop, Shutdown, Signal, LookAtRegistry, TakeRegistry,
           WatcherExits, Exit, CopyWrites, CopyEnds, HashEnds
  <2> QED
    BY <2>1 DEF ChildStep, UpCreates, DownRemoves, ChildExits, Alive, world
<1> QED
  BY <1>1, InductiveInvariant, PTL DEF Spec, NothingCreatedAfterDown

-----------------------------------------------------------------------------
(* The drill and the loop over its checks.                                 *)

List == INSTANCE CheckList WITH N <- N, next <- next, status <- status

\* Seen through the outcomes alone, the drill is a CheckList, as CheckExecutor
\* is: nothing that happens around the loop, a cancelled or an interrupted drill
\* included, adds, changes or drops an outcome.
THEOREM DrillImplementsCheckList == Spec => List!Spec
<1>1. Init => List!Init
  BY DEF Init, List!Init, Checks
<1>2. [Next]_vars => [List!RunOne]_<<next, status>>
  <2> SUFFICES ASSUME [Next]_vars
               PROVE  List!RunOne \/ UNCHANGED <<next, status>>
    OBVIOUS
  <2>1. CASE RunCheck
    BY <2>1 DEF RunCheck, List!RunOne, List!CheckStatus, CheckStatus
  <2>2. CASE ~RunCheck
    BY <2>2 DEF Next, DrillStep, StepTimer, WatcherStep, ChildStep, Terminated, vars,
         drillVars, DryRun, CreateWorkspace, CreateWorkspaceFails, Attach,
         EnsureDocker, Inspect, StartRestore, RestoreEnds, RestoreTimesOut,
         StartEnvironment, SpawnUp, UpEnds, UpTimesOut, Teardown, TeardownAttached,
         SpawnDown, DownTimesOut, StartDownEnds, DownEnds, KeepEnvironment,
         WaitUntilReady, ChecksDone, Expire, DropEnvironment, DropReturns,
         DropWorkspace, WriteReport, Emit, Stop, Shutdown, Signal, LookAtRegistry,
         TakeRegistry, WatcherExits, Exit, CopyWrites, CopyEnds, HashEnds, UpCreates,
         DownRemoves, ChildExits
  <2> QED
    BY <2>1, <2>2
<1> QED
  BY <1>1, <1>2, PTL DEF Spec, List!Spec

-----------------------------------------------------------------------------
(* Why the drill ends.  Fairness is beyond the prover; what fairness needs *)
(* to do its work is not: the drill goes forward only, and wherever it is, *)
(* something that is fair can go on.                                       *)

\* The points of the drill in the order of the code, as what is left to pass.
Left == [begin |-> 24, attach |-> 23, docker |-> 22, inspect |-> 21, restore |-> 20,
         restoreWait |-> 19, startEnv |-> 18, spawnUp |-> 17, upWait |-> 16,
         startTeardown |-> 15, startSpawnDown |-> 14, startDownWait |-> 13, ready |-> 12,
         check |-> 11, teardown |-> 10, spawnDown |-> 9, downWait |-> 8, unwind |-> 7,
         dropWait |-> 6, dropWorkspace |-> 5, report |-> 4, emit |-> 3, stop |-> 2,
         shutdown |-> 1, exited |-> 0]

\* The steps the drill can still make: one per point and one per check.
StepsLeft == Left[pc] + (N + 1 - next)

\* However the drill, its time limits, the watcher, docker and the threads take
\* turns, nothing takes the drill back to a point it has passed (runner.rs has
\* no loop but the one over the checks): it makes at most N + 24 steps, the
\* expiry of the budget and the interruption included.
DrillGoesForward ==
  [][/\ StepsLeft' <= StepsLeft
     /\ DrillStep \/ RestoreTimesOut \/ UpTimesOut \/ Expire => StepsLeft' < StepsLeft]_vars

\* A step that moves the drill moves it forward.
LEMMA DrillGoesOn ==
  ASSUME TypeOK, DrillStep \/ RestoreTimesOut \/ UpTimesOut \/ Expire
  PROVE  StepsLeft' < StepsLeft
<1> USE NAssumption DEF StepsLeft, Left, Goto, Return, TypeOK, PCs, drillVars
<1>1. CASE DryRun \/ CreateWorkspace \/ CreateWorkspaceFails \/ Attach \/ EnsureDocker \/ Inspect
  BY <1>1 DEF DryRun, CreateWorkspace, CreateWorkspaceFails, Attach, EnsureDocker, Inspect
<1>2. CASE StartRestore \/ RestoreEnds \/ StartEnvironment \/ SpawnUp \/ UpEnds
  BY <1>2 DEF StartRestore, RestoreEnds, StartEnvironment, SpawnUp, UpEnds
<1>3. CASE Teardown \/ TeardownAttached \/ SpawnDown \/ StartDownEnds \/ DownEnds \/ KeepEnvironment
  BY <1>3 DEF Teardown, TeardownAttached, SpawnDown, StartDownEnds, DownEnds, KeepEnvironment
<1>4. CASE WaitUntilReady \/ RunCheck \/ ChecksDone
  BY <1>4 DEF WaitUntilReady, RunCheck, ChecksDone
<1>5. CASE DropEnvironment \/ DropReturns \/ DropWorkspace
  BY <1>5 DEF DropEnvironment, DropReturns, DropWorkspace
<1>6. CASE WriteReport \/ Emit \/ Stop \/ Shutdown
  BY <1>6 DEF WriteReport, Emit, Stop, Shutdown
<1>7. CASE RestoreTimesOut \/ UpTimesOut
  BY <1>7 DEF RestoreTimesOut, UpTimesOut
<1>8. CASE Expire
  BY <1>8 DEF Expire, Awaiting
<1> QED
  BY <1>1, <1>2, <1>3, <1>4, <1>5, <1>6, <1>7, <1>8 DEF DrillStep

\* The others leave it where it is, or end the process.
LEMMA NobodyTakesItBack ==
  ASSUME TypeOK, TypeOK', [Next]_vars
  PROVE  StepsLeft' <= StepsLeft
<1> USE NAssumption DEF StepsLeft, TypeOK, PCs, drillVars
<1>1. StepsLeft \in Int /\ Left[pc] \in Nat
  BY DEF Left
<1>2. CASE DrillStep \/ RestoreTimesOut \/ UpTimesOut \/ Expire
  <2>1. StepsLeft' < StepsLeft
    BY <1>2, DrillGoesOn
  <2>2. StepsLeft' \in Int
    BY DEF Left
  <2> QED
    BY <1>1, <2>1, <2>2
<1>3. CASE UNCHANGED <<pc, next>>
  BY <1>1, <1>3
<1>4. CASE Exit
  BY <1>1, <1>4 DEF Exit, Left
<1>5. CASE DownTimesOut \/ CopyWrites \/ CopyEnds \/ HashEnds \/ Signal
  BY <1>3, <1>5 DEF DownTimesOut, CopyWrites, CopyEnds, HashEnds, Signal
<1>6. CASE WatcherStep
  BY <1>3, <1>4, <1>6 DEF WatcherStep, LookAtRegistry, TakeRegistry, WatcherExits
<1>7. ASSUME NEW c \in Children, ChildStep(c)
      PROVE  UNCHANGED <<pc, next>>
  BY <1>7 DEF ChildStep, UpCreates, DownRemoves, ChildExits
<1> QED
  BY <1>2, <1>3, <1>5, <1>6, <1>7 DEF Next, StepTimer, Terminated, vars

\* Nothing takes the drill back: its steps are bounded whatever the others do.
THEOREM DrillGoesForwardAlways == Spec => DrillGoesForward
  BY TypeCorrect, DrillGoesOn, NobodyTakesItBack, PTL DEF Spec, DrillGoesForward

-----------------------------------------------------------------------------

\* Something that is fair can go on: the total budget can strike, the drill can
\* take its next step, or a signal that was caught can end the process.
CanGoOn ==
  \/ Awaiting
  \/ pc \in {"begin", "attach", "inspect", "restore", "startEnv", "spawnUp", "startSpawnDown",
            "spawnDown", "unwind", "dropWorkspace", "report", "emit", "stop"}
  \/ pc = "check" /\ next > N
  \/ pc = "startTeardown" /\ env = "armed"
  \/ pc = "teardown" /\ (opts.keep \/ env \in {"armed", "attached"})
  \/ pc = "dropWait" /\ child["drop"] \in {"ok", "failed"}
  \/ pc = "shutdown" /\ watcher \in {"aborted", "destroying"} /\ ~ThreadRuns
  \/ watcher \in {"caught", "taking"}

\* Until the process has ended, something can go on, unless the drop guard waits
\* for its `down` or the runtime for a thread: those are the only two waits in
\* the program without a limit (docker.rs:365, main.rs:84-102).
NeverStuck == pc # "exited" => CanGoOn \/ DropHangs \/ ThreadHangs

\* The drop guard waits for a `down` it has started, and nobody kills it; when
\* the runtime is dropped the watcher is no longer waiting for a signal.
EndOfWaitsInv ==
  /\ pc = "dropWait" => child["drop"] \in {"running", "acted", "ok", "failed"}
  /\ pc = "shutdown" => watcher # "waiting"

LEMMA EndOfWaits == Spec => []EndOfWaitsInv
<1>1. Init => EndOfWaitsInv
  BY DEF Init, EndOfWaitsInv
<1>2. TypeOK /\ EndOfWaitsInv /\ [Next]_vars => EndOfWaitsInv'
  <2> SUFFICES ASSUME TypeOK, EndOfWaitsInv, [Next]_vars
               PROVE  EndOfWaitsInv'
    OBVIOUS
  <2> USE DEF EndOfWaitsInv, TypeOK, Goto, Return, Spawn, Kill, drillVars, Children, Downs, ChildStates
  <2>1. CASE DryRun \/ CreateWorkspace \/ CreateWorkspaceFails \/ Attach \/ EnsureDocker \/ Inspect
    BY <2>1 DEF DryRun, CreateWorkspace, CreateWorkspaceFails, Attach, EnsureDocker, Inspect
  <2>2. CASE StartRestore \/ RestoreEnds \/ StartEnvironment \/ SpawnUp \/ UpEnds
    BY <2>2 DEF StartRestore, RestoreEnds, StartEnvironment, SpawnUp, UpEnds
  <2>3. CASE Teardown \/ TeardownAttached \/ SpawnDown \/ StartDownEnds \/ DownEnds \/ KeepEnvironment
    BY <2>3 DEF Teardown, TeardownAttached, SpawnDown, StartDownEnds, DownEnds, KeepEnvironment
  <2>4. CASE WaitUntilReady \/ RunCheck \/ ChecksDone
    BY <2>4 DEF WaitUntilReady, RunCheck, ChecksDone
  <2>5. CASE DropEnvironment \/ DropReturns \/ DropWorkspace
    BY <2>5 DEF DropEnvironment, DropReturns, DropWorkspace
  <2>6. CASE WriteReport \/ Emit \/ Stop \/ Shutdown
    BY <2>6 DEF WriteReport, Emit, Stop, Shutdown
  <2>7. CASE StepTimer \/ Expire
    BY <2>7 DEF StepTimer, RestoreTimesOut, UpTimesOut, DownTimesOut, Expire
  <2>8. CASE Signal \/ WatcherStep
    BY <2>8 DEF Signal, WatcherStep, LookAtRegistry, TakeRegistry, WatcherExits, Exit
  <2>9. CASE CopyWrites \/ CopyEnds \/ HashEnds
    BY <2>9 DEF CopyWrites, CopyEnds, HashEnds
  <2>10. ASSUME NEW c \in Children, ChildStep(c)
         PROVE  EndOfWaitsInv'
    BY <2>10 DEF ChildStep, UpCreates, DownRemoves, ChildExits
  <2>11. CASE UNCHANGED vars
    BY <2>11 DEF vars
  <2> QED
    BY <2>1, <2>2, <2>3, <2>4, <2>5, <2>6, <2>7, <2>8, <2>9, <2>10, <2>11
       DEF Next, DrillStep, Terminated
<1> QED
  BY <1>1, <1>2, TypeCorrect, PTL DEF Spec

\* The drill is never in a state that nothing which is fair can leave.
THEOREM NeverStuckAlways == Spec => []NeverStuck
<1>1. IInv /\ EndOfWaitsInv => NeverStuck
  <2> SUFFICES ASSUME IInv, EndOfWaitsInv, pc # "exited", ~CanGoOn
               PROVE  DropHangs \/ ThreadHangs
    BY DEF NeverStuck
  <2>1. pc \in {"check", "startTeardown", "teardown", "dropWait", "shutdown"}
    BY DEF IInv, TypeOK, PCs, CanGoOn, Awaiting
  <2>2. pc # "check"
    BY NAssumption DEF IInv, TypeOK, CanGoOn, Awaiting
  <2>3. pc \notin {"startTeardown", "teardown"}
    BY DEF IInv, PhaseInv, CanGoOn, InStart
  <2>4. pc = "dropWait" => DropHangs
    BY DEF EndOfWaitsInv, CanGoOn, DropHangs
  <2>5. pc = "shutdown" => ThreadHangs
    BY DEF IInv, TypeOK, PhaseInv, EndOfWaitsInv, CanGoOn, ThreadHangs
  <2> QED
    BY <2>1, <2>2, <2>3, <2>4, <2>5
<1> QED
  BY <1>1, InductiveInvariant, EndOfWaits, PTL

-----------------------------------------------------------------------------

\* How far the watcher is with a signal.
Answered == [waiting |-> 0, caught |-> 1, taking |-> 2, destroying |-> 3, aborted |-> 4, exited |-> 4]

\* A signal that was caught is not forgotten: the watcher goes on, in three steps
\* at most, and is done with it only when the process ends.  The abort at the
\* end of the drill (main.rs) comes too late for it.
SignalIsKept ==
  [][(watcher \in {"caught", "taking", "destroying"}) =>
       /\ Answered[watcher'] >= Answered[watcher]
       /\ WatcherStep => Answered[watcher'] > Answered[watcher]
       /\ watcher' \in {"aborted", "exited"} => pc' = "exited"]_vars

\* The half of InterruptionEndsTheProcess that needs no fairness.
THEOREM SignalIsKeptAlways == Spec => SignalIsKept
<1>1. ASSUME Next, watcher \in {"caught", "taking", "destroying"}
      PROVE  /\ Answered[watcher'] >= Answered[watcher]
             /\ WatcherStep => Answered[watcher'] > Answered[watcher]
             /\ watcher' \in {"aborted", "exited"} => pc' = "exited"
  <2>1. CASE WatcherStep
    BY <1>1, <2>1 DEF WatcherStep, LookAtRegistry, TakeRegistry, WatcherExits, Exit, Answered
  <2>2. CASE Shutdown
    BY <1>1, <2>2 DEF Shutdown, Goto, Answered, WatcherStep, LookAtRegistry, TakeRegistry,
                      WatcherExits, Exit
  <2>3. CASE UNCHANGED watcher /\ ~WatcherStep
    BY <1>1, <2>3 DEF Answered
  <2>4. CASE DrillStep /\ ~Shutdown
    <3>1. UNCHANGED watcher
      BY <1>1, <2>4 DEF DrillStep, DryRun, CreateWorkspace, CreateWorkspaceFails, Attach,
           EnsureDocker, Inspect, StartRestore, RestoreEnds, StartEnvironment, SpawnUp, UpEnds,
           Teardown, TeardownAttached, SpawnDown, StartDownEnds, DownEnds, KeepEnvironment,
           WaitUntilReady, RunCheck, ChecksDone, DropEnvironment, DropReturns, DropWorkspace,
           WriteReport, Emit, Stop
    <3> QED
      BY <2>1, <2>3, <3>1
  <2>5. CASE StepTimer \/ Expire \/ CopyWrites \/ CopyEnds \/ HashEnds \/ Terminated
    <3>1. UNCHANGED watcher
      BY <2>5 DEF StepTimer, RestoreTimesOut, UpTimesOut, DownTimesOut, Expire, CopyWrites,
                  CopyEnds, HashEnds, Terminated, vars
    <3> QED
      BY <2>1, <2>3, <3>1
  <2>6. ~Signal
    BY <1>1 DEF Signal
  <2>7. ASSUME NEW c \in Children, ChildStep(c)
        PROVE  UNCHANGED watcher
    BY <2>7 DEF ChildStep, UpCreates, DownRemoves, ChildExits
  <2> QED
    BY <1>1, <2>1, <2>2, <2>3, <2>4, <2>5, <2>6, <2>7 DEF Next
<1> QED
  BY <1>1, PTL DEF Spec, SignalIsKept

-----------------------------------------------------------------------------
(* The lease of the environment.                                           *)

\* An `up` that is alive, and the registry, are about an environment that the
\* drill still holds.
HeldInv ==
  /\ Alive("up") => env = "armed"
  /\ registered => env = "armed"

LEMMA Held == Spec => []HeldInv
<1>1. Init => HeldInv
  BY DEF Init, HeldInv, Alive, Children
<1>2. IInv /\ HeldInv /\ [Next]_vars => HeldInv'
  <2> SUFFICES ASSUME IInv, HeldInv, [Next]_vars
               PROVE  HeldInv'
    OBVIOUS
  <2> USE DEF HeldInv, IInv, TypeOK, Goto, Return, Spawn, Kill, drillVars, Children, Downs,
              ChildStates, Alive
  <2>1. CASE DryRun \/ CreateWorkspace \/ CreateWorkspaceFails \/ Attach \/ EnsureDocker \/ Inspect
    BY <2>1 DEF DryRun, CreateWorkspace, CreateWorkspaceFails, Attach, EnsureDocker, Inspect,
                PhaseInv, Before
  <2>2. CASE StartRestore \/ RestoreEnds \/ StartEnvironment \/ SpawnUp \/ UpEnds
    BY <2>2 DEF StartRestore, RestoreEnds, StartEnvironment, SpawnUp, UpEnds, PhaseInv, InStart
  <2>3. CASE Teardown
    BY <2>3 DEF Teardown, ChildInv
  <2>4. CASE TeardownAttached \/ SpawnDown \/ StartDownEnds \/ DownEnds \/ KeepEnvironment
    BY <2>4 DEF TeardownAttached, SpawnDown, StartDownEnds, DownEnds, KeepEnvironment
  <2>5. CASE WaitUntilReady \/ RunCheck \/ ChecksDone
    BY <2>5 DEF WaitUntilReady, RunCheck, ChecksDone
  <2>6. CASE DropEnvironment \/ DropReturns \/ DropWorkspace
    BY <2>6 DEF DropEnvironment, DropReturns, DropWorkspace
  <2>7. CASE WriteReport \/ Emit \/ Stop \/ Shutdown
    BY <2>7 DEF WriteReport, Emit, Stop, Shutdown
  <2>8. CASE StepTimer \/ Expire
    BY <2>8 DEF StepTimer, RestoreTimesOut, UpTimesOut, DownTimesOut, Expire
  <2>9. CASE Signal \/ WatcherStep
    BY <2>9 DEF Signal, WatcherStep, LookAtRegistry, TakeRegistry, WatcherExits, Exit
  <2>10. CASE CopyWrites \/ CopyEnds \/ HashEnds
    BY <2>10 DEF CopyWrites, CopyEnds, HashEnds
  <2>11. ASSUME NEW c \in Children, ChildStep(c)
         PROVE  HeldInv'
    BY <2>11 DEF ChildStep, UpCreates, DownRemoves, ChildExits
  <2>12. CASE UNCHANGED vars
    BY <2>12 DEF vars
  <2> QED
    BY <2>1, <2>2, <2>3, <2>4, <2>5, <2>6, <2>7, <2>8, <2>9, <2>10, <2>11, <2>12
       DEF Next, DrillStep, Terminated
<1> QED
  BY <1>1, <1>2, InductiveInvariant, PTL DEF Spec

Asked == {who \in DOMAIN Askers : child[Askers[who]] # "idle"}

\* Who asked is known from who started a `down`.
LEMMA SameAskers ==
  ASSUME NEW S, NEW T, S \subseteq {"teardown", "guard", "watcher"},
         T \subseteq {"teardown", "guard", "watcher"},
         "teardown" \in S <=> "teardown" \in T,
         "guard" \in S <=> "guard" \in T,
         "watcher" \in S <=> "watcher" \in T
  PROVE  S = T
<1>1. \A x : x \in S <=> x \in T
  OBVIOUS
<1> QED
  BY <1>1

LEMMA AskedAre ==
  /\ "teardown" \in Asked <=> child["down"] # "idle"
  /\ "guard" \in Asked <=> child["drop"] # "idle"
  /\ "watcher" \in Asked <=> child["watcherDown"] # "idle"
  /\ Asked \subseteq {"teardown", "guard", "watcher"}
  BY DEF Asked, Askers

\* A step that starts no `down`, and leaves environment and containers alone, is
\* none of the lease's.
LEMMA LeaseStutters ==
  ASSUME UNCHANGED <<opts, env, containers>>,
         \A d \in Downs : child'[d] = "idle" <=> child[d] = "idle"
  PROVE  UNCHANGED Lease!vars
<1>1. Asked' = Asked
  BY DEF Asked, Askers, Downs
<1> QED
  BY <1>1 DEF Lease!vars, Asked, MustDestroy

LEMMA LeaseInit == Init => Lease!Init
<1> SUFFICES ASSUME Init
             PROVE  Lease!Init
  OBVIOUS
<1>1. MustDestroy \in BOOLEAN
  BY DEF MustDestroy
<1>2. Asked = {}
  BY DEF Asked, Askers, Init, Children, Downs
<1>3. env = "none" /\ containers \in IF MustDestroy THEN {"none"} ELSE {"none", "up"}
  BY DEF Init, MustDestroy
<1> QED
  BY <1>1, <1>2, <1>3 DEF Lease!Init, Asked

LEMMA LeaseStep ==
  ASSUME IInv, HeldInv, [Next]_vars
  PROVE  [Lease!Next]_(Lease!vars)
<1> USE DEF IInv, TypeOK, Goto, Return, Spawn, Kill, drillVars, world, outputVars, Children, Downs,
            ChildStates
<1>0. /\ "teardown" \in Asked <=> child["down"] # "idle"
      /\ "guard" \in Asked <=> child["drop"] # "idle"
      /\ "watcher" \in Asked <=> child["watcherDown"] # "idle"
      /\ Asked \subseteq {"teardown", "guard", "watcher"}
      /\ "teardown" \in Asked' <=> child'["down"] # "idle"
      /\ "guard" \in Asked' <=> child'["drop"] # "idle"
      /\ "watcher" \in Asked' <=> child'["watcherDown"] # "idle"
      /\ Asked' \subseteq {"teardown", "guard", "watcher"}
  BY DEF Asked, Askers
\* Taken when it is started, given back when it is torn down.
<1>1. CASE StartEnvironment
  <2>1. env = "none" /\ env' = "armed" /\ UNCHANGED <<opts, containers, child>>
    BY <1>1 DEF StartEnvironment, PhaseInv, Before
  <2>2. Asked' = Asked
    BY <2>1 DEF Asked
  <2>3. Lease!Take
    BY <2>1, <2>2 DEF Lease!Take, Asked, MustDestroy
  <2> QED
    BY <2>3 DEF Lease!Next
<1>2. CASE Teardown
  <2>1. /\ env = "armed" /\ env' = "tornDown" /\ UNCHANGED <<opts, containers, child>>
        /\ child["down"] = "idle" /\ child["drop"] = "idle"
    BY <1>2 DEF Teardown, ChildInv, Over, AfterDrill
  <2>2. Asked' = Asked /\ Asked \cap {"teardown", "guard"} = {}
    BY <1>0, <2>1 DEF Asked
  <2>3. Lease!GiveBack
    BY <2>1, <2>2 DEF Lease!GiveBack, Lease!Owners, Asked, MustDestroy
  <2> QED
    BY <2>3 DEF Lease!Next
\* Those who ask for its destruction.
<1>3. CASE SpawnDown
  <2>1. /\ env = "tornDown" /\ MustDestroy /\ UNCHANGED <<opts, env, containers>>
        /\ child["down"] = "idle" /\ child'["down"] # "idle"
        /\ child'["drop"] = child["drop"] /\ child'["watcherDown"] = child["watcherDown"]
    BY <1>3 DEF SpawnDown, PhaseInv, ChildInv, InDown, MustDestroy, Cleanup, Full
  <2>2. Asked' = Asked \cup {"teardown"} /\ "teardown" \notin Asked
    <3>1. "teardown" \notin Asked
      BY <1>0, <2>1
    <3>2. Asked' = Asked \cup {"teardown"}
      <4> DEFINE T == Asked \cup {"teardown"}
      <4>3. /\ T \subseteq {"teardown", "guard", "watcher"}
            /\ "teardown" \in T <=> "teardown" \in Asked'
            /\ "guard" \in T <=> "guard" \in Asked'
            /\ "watcher" \in T <=> "watcher" \in Asked'
        BY <1>0, <2>1
      <4> HIDE DEF T
      <4>4. Asked' = T
        BY <1>0, <4>3, SameAskers
      <4> QED
        BY <4>4 DEF T
    <3> QED
      BY <3>1, <3>2
  <2>3. Lease!Ask("teardown")
    BY <2>1, <2>2 DEF Lease!Ask, Asked, MustDestroy
  <2> QED
    BY <2>3 DEF Lease!Next, Lease!Owners
<1>4. CASE DropEnvironment
  <2>1. CASE ~GuardArmed
    BY <1>4, <2>1, LeaseStutters DEF DropEnvironment
  <2>2. CASE GuardArmed
    <3>1. /\ env = "armed" /\ MustDestroy /\ UNCHANGED <<opts, env, containers>>
          /\ child["drop"] = "idle" /\ child'["drop"] # "idle"
          /\ child'["down"] = child["down"] /\ child'["watcherDown"] = child["watcherDown"]
      BY <1>4, <2>2 DEF DropEnvironment, GuardArmed, PhaseInv, ChildInv, Over, AfterDrill,
                        MustDestroy, Cleanup, Full
    <3>2. Asked' = Asked \cup {"guard"} /\ "guard" \notin Asked
      <4>1. "guard" \notin Asked
        BY <1>0, <3>1
      <4>2. Asked' = Asked \cup {"guard"}
        <5> DEFINE T == Asked \cup {"guard"}
        <5>3. /\ T \subseteq {"teardown", "guard", "watcher"}
              /\ "teardown" \in T <=> "teardown" \in Asked'
              /\ "guard" \in T <=> "guard" \in Asked'
              /\ "watcher" \in T <=> "watcher" \in Asked'
          BY <1>0, <3>1
        <5> HIDE DEF T
        <5>4. Asked' = T
          BY <1>0, <5>3, SameAskers
        <5> QED
          BY <5>4 DEF T
      <4> QED
        BY <4>1, <4>2
    <3>3. Lease!Ask("guard")
      BY <3>1, <3>2 DEF Lease!Ask, Asked, MustDestroy
    <3> QED
      BY <3>3 DEF Lease!Next, Lease!Owners
  <2> QED
    BY <2>1, <2>2
<1>5. CASE TakeRegistry
  <2>1. CASE ~registered
    BY <1>5, <2>1, LeaseStutters DEF TakeRegistry, Exit
  <2>2. CASE registered
    <3>1. /\ env = "armed" /\ MustDestroy /\ UNCHANGED <<opts, env, containers>>
          /\ child'["watcherDown"] # "idle"
          /\ child'["down"] = child["down"] /\ child'["drop"] = child["drop"]
      BY <1>5, <2>2 DEF TakeRegistry, HeldInv, RegistryInv, PhaseInv, MustDestroy, Cleanup, Full
    <3>2. Asked' = Asked \cup {"watcher"}
      <4> DEFINE T == Asked \cup {"watcher"}
      <4>3. /\ T \subseteq {"teardown", "guard", "watcher"}
            /\ "teardown" \in T <=> "teardown" \in Asked'
            /\ "guard" \in T <=> "guard" \in Asked'
            /\ "watcher" \in T <=> "watcher" \in Asked'
        BY <1>0, <3>1
      <4> HIDE DEF T
      <4>4. Asked' = T
        BY <1>0, <4>3, SameAskers
      <4> QED
        BY <4>4 DEF T
    <3>3. CASE "watcher" \in Asked
      BY <3>1, <3>2, <3>3 DEF Lease!vars, Asked, MustDestroy
    <3>4. CASE "watcher" \notin Asked
      <4>1. Lease!Ask("watcher")
        BY <3>1, <3>2, <3>4 DEF Lease!Ask, Asked, MustDestroy
      <4> QED
        BY <4>1 DEF Lease!Next
    <3> QED
      BY <3>3, <3>4
  <2> QED
    BY <2>1, <2>2
\* What docker does, for a child that was started.
<1>6. ASSUME NEW c \in Children, ChildStep(c)
      PROVE  [Lease!Next]_(Lease!vars)
  <2>1. CASE c = "up" /\ UpCreates
    <3>1. /\ env = "armed" /\ UNCHANGED <<opts, env>> /\ containers' = "up"
          /\ \A d \in Downs : child'[d] = child[d]
          /\ child["down"] = "idle" /\ child["drop"] = "idle"
      BY <2>1 DEF UpCreates, HeldInv, ChildInv, Alive
    <3>2. Asked' = Asked /\ Asked \cap {"teardown", "guard"} = {}
      <4>1. Asked' = Asked
        BY <1>0, <3>1, SameAskers
      <4> QED
        BY <1>0, <3>1, <4>1
    <3>3. Lease!Create
      BY <3>1, <3>2 DEF Lease!Create, Lease!Owners, Asked, MustDestroy
    <3> QED
      BY <3>3 DEF Lease!Next
  <2>2. CASE c \in Downs /\ DownRemoves(c)
    <3>1. /\ UNCHANGED <<opts, env>> /\ containers' = "none"
          /\ \A d \in Downs : child'[d] = "idle" <=> child[d] = "idle"
          /\ child[c] # "idle"
      BY <2>2 DEF DownRemoves
    <3>2. Asked' = Asked /\ Asked # {}
      <4>1. Asked' = Asked
        BY <1>0, <3>1, SameAskers
      <4>2. Asked # {}
        BY <1>0, <2>2, <3>1
      <4> QED
        BY <4>1, <4>2
    <3>3. Lease!Remove
      BY <3>1, <3>2 DEF Lease!Remove, Asked, MustDestroy
    <3> QED
      BY <3>3 DEF Lease!Next
  <2>3. CASE ChildExits(c)
    <3>1. \A d \in Downs : child'[d] = "idle" <=> child[d] = "idle"
      BY <2>3 DEF ChildExits
    <3> QED
      BY <2>3, <3>1, LeaseStutters DEF ChildExits
  <2> QED
    BY <1>6, <2>1, <2>2, <2>3 DEF ChildStep
\* All other steps leave the lease alone.
<1>7. ASSUME \/ DryRun \/ CreateWorkspace \/ CreateWorkspaceFails \/ EnsureDocker \/ Inspect
             \/ StartRestore \/ RestoreEnds \/ TeardownAttached \/ StartDownEnds \/ DownEnds
             \/ KeepEnvironment \/ WaitUntilReady \/ RunCheck \/ ChecksDone \/ DropReturns
             \/ DropWorkspace \/ WriteReport \/ Emit \/ Stop \/ RestoreTimesOut \/ Signal
             \/ LookAtRegistry \/ CopyWrites \/ CopyEnds \/ HashEnds \/ UNCHANGED vars
      PROVE  UNCHANGED Lease!vars
  <2>1. UNCHANGED <<opts, env, containers, child>>
    BY <1>7 DEF DryRun, CreateWorkspace, CreateWorkspaceFails, EnsureDocker, Inspect, StartRestore,
         RestoreEnds, TeardownAttached, StartDownEnds, DownEnds, KeepEnvironment, WaitUntilReady,
         RunCheck, ChecksDone, DropReturns, DropWorkspace, WriteReport, Emit, Stop, RestoreTimesOut,
         Signal, LookAtRegistry, Exit, CopyWrites, CopyEnds, HashEnds, vars
  <2> QED
    BY <2>1, LeaseStutters
<1>8. CASE Attach
  <2>1. /\ env = "none" /\ env' = "attached" /\ UNCHANGED <<opts, containers, child>>
    BY <1>8 DEF Attach, PhaseInv, Before
  <2> QED
    BY <2>1 DEF Lease!vars, Asked, MustDestroy
\* Starting `up`, killing a child: nobody asks.
<1>9. CASE SpawnUp \/ UpEnds \/ UpTimesOut \/ DownTimesOut \/ Expire \/ Shutdown \/ WatcherExits
  <2>1. UNCHANGED <<opts, env, containers>>
    BY <1>9 DEF SpawnUp, UpEnds, UpTimesOut, DownTimesOut, Expire, Shutdown, WatcherExits, Exit
  <2>2. \A d \in Downs : child'[d] = "idle" <=> child[d] = "idle"
    BY <1>9 DEF SpawnUp, UpEnds, UpTimesOut, DownTimesOut, Expire, Shutdown, WatcherExits
  <2> QED
    BY <2>1, <2>2, LeaseStutters
<1> QED
  BY <1>1, <1>2, <1>3, <1>4, <1>5, <1>6, <1>7, <1>8, <1>9
     DEF Next, DrillStep, StepTimer, WatcherStep, Terminated

\* However the drill ends, is cancelled or interrupted, its environment is
\* handled as one lease: EnvironmentLease is all there is to know of it.
THEOREM ImplementsLeaseAlways == Spec => ImplementsLease
  BY LeaseInit, LeaseStep, InductiveInvariant, Held, PTL DEF Spec, ImplementsLease, Lease!Spec

-----------------------------------------------------------------------------
(* What is left of two claims of the repository that do not hold           *)
(* (DestroyedOnEveryPath, PassedMeansAllRequiredPassed).                   *)

\* With docker at work, containers that were to be destroyed are left behind in
\* three ways and no other.  In all of them somebody has begun to destroy: the
\* budget cut the `down` of teardown() short, a signal came between the mark
\* `torn_down` and that `down` (environment.rs:279-283), or the `down` of the watcher was done
\* before an `up` that outlives the process was.
DestroyedUnlessCutShort ==
  /\ DrillOver \/ (watcher = "exited" /\ Quiet)
  /\ MustDestroy /\ DockerWorks /\ containers = "up"
  => \/ env = "tornDown" /\ child["down"] = "killed" /\ result = "budget"
     \/ env = "tornDown" /\ child["down"] = "idle" /\ watcher = "exited"
     \/ env = "armed" /\ child["watcherDown"] = "ok" /\ watcher = "exited"

\* What the watcher has taken out of the registry is not put back.
TakenInv ==
  /\ watcher \in {"taking", "destroying"} => env \in {"armed", "tornDown"}
  /\ watcher \in {"destroying", "exited"} => ~registered
  /\ watcher = "exited" => pc = "exited"

LEMMA Taken == Spec => []TakenInv
<1>1. Init => TakenInv
  BY DEF Init, TakenInv
<1>2. TypeOK /\ PhaseInv /\ RegistryInv /\ TakenInv /\ [Next]_vars => TakenInv'
  <2> SUFFICES ASSUME TypeOK, PhaseInv, RegistryInv, TakenInv, [Next]_vars
               PROVE  TakenInv'
    OBVIOUS
  <2> USE DEF TakenInv, TypeOK, PhaseInv, RegistryInv, Goto, Return, drillVars, world, outputVars,
              Before, InStart, InDown, Cleanup, Full
  <2>1. CASE DryRun \/ CreateWorkspace \/ CreateWorkspaceFails \/ Attach \/ EnsureDocker \/ Inspect
    BY <2>1 DEF DryRun, CreateWorkspace, CreateWorkspaceFails, Attach, EnsureDocker, Inspect
  <2>2. CASE StartRestore \/ RestoreEnds \/ SpawnUp \/ UpEnds
    BY <2>2 DEF StartRestore, RestoreEnds, SpawnUp, UpEnds
  <2>3. CASE StartEnvironment
    BY <2>3 DEF StartEnvironment
  <2>4. CASE Teardown \/ TeardownAttached \/ SpawnDown \/ StartDownEnds \/ DownEnds \/ KeepEnvironment
    BY <2>4 DEF Teardown, TeardownAttached, SpawnDown, StartDownEnds, DownEnds, KeepEnvironment
  <2>5. CASE WaitUntilReady \/ RunCheck \/ ChecksDone
    BY <2>5 DEF WaitUntilReady, RunCheck, ChecksDone
  <2>6. CASE DropEnvironment \/ DropReturns \/ DropWorkspace
    BY <2>6 DEF DropEnvironment, DropReturns, DropWorkspace
  <2>7. CASE WriteReport \/ Emit \/ Stop \/ Shutdown
    BY <2>7 DEF WriteReport, Emit, Stop, Shutdown
  <2>8. CASE StepTimer \/ Expire
    BY <2>8 DEF StepTimer, RestoreTimesOut, UpTimesOut, DownTimesOut, Expire, Awaiting
  <2>9. CASE Signal \/ WatcherStep
    BY <2>9 DEF Signal, WatcherStep, LookAtRegistry, TakeRegistry, WatcherExits, Exit
  <2>10. CASE CopyWrites \/ CopyEnds \/ HashEnds
    BY <2>10 DEF CopyWrites, CopyEnds, HashEnds
  <2>11. ASSUME NEW c \in Children, ChildStep(c)
         PROVE  TakenInv'
    BY <2>11 DEF ChildStep, UpCreates, DownRemoves, ChildExits
  <2>12. CASE UNCHANGED vars
    BY <2>12 DEF vars
  <2> QED
    BY <2>1, <2>2, <2>3, <2>4, <2>5, <2>6, <2>7, <2>8, <2>9, <2>10, <2>11, <2>12
       DEF Next, DrillStep, Terminated
<1> QED
  BY <1>1, <1>2, InductiveInvariant, PTL DEF Spec, IInv

\* docs/architecture.md says that the environment is destroyed on every path:
\* the three ways in which it is not, and that there is no fourth.
THEOREM DestroyedUnlessCutShortAlways == Spec => []DestroyedUnlessCutShort
<1>1. IInv /\ TakenInv => DestroyedUnlessCutShort
  <2> SUFFICES ASSUME IInv, TakenInv, DrillOver \/ (watcher = "exited" /\ Quiet),
                      MustDestroy, DockerWorks, containers = "up"
               PROVE  \/ env = "tornDown" /\ child["down"] = "killed" /\ result = "budget"
                      \/ env = "tornDown" /\ child["down"] = "idle" /\ watcher = "exited"
                      \/ env = "armed" /\ child["watcherDown"] = "ok" /\ watcher = "exited"
    BY DEF DestroyedUnlessCutShort
  <2>1. Cleanup /\ env \in {"armed", "tornDown"}
    BY DEF IInv, ChildInv, MustDestroy, DockerWorks, Cleanup
  <2>2. \A c \in Children : child[c] \in {"idle", "running", "acted", "ok", "killed"}
    BY DEF IInv, TypeOK, ChildStates, DockerWorks
  <2>3. child["down"] \notin {"acted", "ok"} /\ child["drop"] \notin {"acted", "ok"}
    BY DEF IInv, ContainersInv
  <2>4. CASE DrillOver
    <3>1. env = "armed" => child["drop"] \in {"ok", "failed"}
      BY <2>1, <2>4 DEF IInv, ContainersInv, DrillOver, AfterDrill
    <3>2. env = "tornDown" => Ended("down")
      BY <2>1, <2>4 DEF IInv, ContainersInv
    <3> QED
      BY <2>1, <2>2, <2>3, <3>1, <3>2 DEF Ended, DockerWorks, Children, Downs
  <2>5. CASE watcher = "exited" /\ Quiet
    <3>1. \A c \in Children : child[c] \in {"idle", "ok", "killed"}
      BY <2>2, <2>5 DEF Quiet
    <3>2. env = "armed" => child["watcherDown"] # "idle"
      BY <2>1, <2>5 DEF IInv, RegistryInv, TakenInv
    <3> QED
      BY <2>1, <2>3, <2>5, <3>1, <3>2 DEF DockerWorks, Children, Downs
  <2> QED
    BY <2>4, <2>5
<1> QED
  BY <1>1, InductiveInvariant, Taken, PTL

\* PASSED and PARTIAL are about the checks that have run (aggregate(), core/status.rs,
\* sees no others), and fall short of all required checks in one case: the
\* budget has cut the list, and then the exit code does not say success either.
PassedFallsShortOnlyByBudget ==
  reported \in {"PASSED", "PARTIAL"} =>
    /\ \A c \in Required \cap Ran : status[c] = "PASSED"
    /\ \/ Ran = Checks
       \/ result = "budget" /\ exitCode \in {-1, 5, 6, 130, 143}

\* Nothing but the budget stops the list once it has begun, and the exit code is
\* that of the Result.
CutInv ==
  /\ pc \in Before \cup InStart \cup {"startSpawnDown", "startDownWait"} => next = 1
  /\ pc \in Before \cup {"spawnUp", "upWait", "ready", "check"} => result = "none"
  /\ result \notin {"none", "budget"} => next = 1 \/ next = N + 1
  /\ pc \in {"teardown", "startTeardown", "unwind", "dropWait"} \cup InDown \cup AfterDrill
       => result # "none"
  /\ reported # "none" => result # "none"
  /\ exitCode \notin {-1, 6, 130, 143} =>
       exitCode = IF result = "ok" THEN StatusExitCode(reported) ELSE FailureExitCode(result)

LEMMA Cut == Spec => []CutInv
<1>1. Init => CutInv
  BY DEF Init, CutInv, InStart, InDown, AfterDrill
<1>2. TypeOK /\ ReportInv /\ CutInv /\ [Next]_vars => CutInv'
  <2> SUFFICES ASSUME TypeOK, ReportInv, CutInv, [Next]_vars
               PROVE  CutInv'
    OBVIOUS
  <2> USE NAssumption DEF CutInv, TypeOK, Goto, Return, drillVars, world, outputVars,
              Before, InStart, InDown, AfterDrill, Failure, ReportInv
  <2>1. CASE DryRun \/ CreateWorkspace \/ CreateWorkspaceFails \/ Attach \/ EnsureDocker \/ Inspect
    BY <2>1 DEF DryRun, CreateWorkspace, CreateWorkspaceFails, Attach, EnsureDocker, Inspect
  <2>2. CASE StartRestore \/ RestoreEnds \/ StartEnvironment \/ SpawnUp \/ UpEnds
    BY <2>2 DEF StartRestore, RestoreEnds, StartEnvironment, SpawnUp, UpEnds
  <2>3. CASE Teardown \/ TeardownAttached \/ SpawnDown \/ StartDownEnds \/ DownEnds \/ KeepEnvironment
    BY <2>3 DEF Teardown, TeardownAttached, SpawnDown, StartDownEnds, DownEnds, KeepEnvironment
  <2>4. CASE WaitUntilReady \/ RunCheck \/ ChecksDone
    BY <2>4 DEF WaitUntilReady, RunCheck, ChecksDone
  <2>5. CASE DropEnvironment \/ DropReturns \/ DropWorkspace
    BY <2>5 DEF DropEnvironment, DropReturns, DropWorkspace
  <2>6. CASE WriteReport \/ Emit \/ Stop \/ Shutdown
    BY <2>6 DEF WriteReport, Emit, Stop, Shutdown
  <2>7. CASE StepTimer
    BY <2>7 DEF StepTimer, RestoreTimesOut, UpTimesOut, DownTimesOut
  <2>8. CASE Expire
    BY <2>8 DEF Expire, Awaiting
  <2>9. CASE Signal \/ WatcherStep
    BY <2>9 DEF Signal, WatcherStep, LookAtRegistry, TakeRegistry, WatcherExits, Exit
  <2>10. CASE CopyWrites \/ CopyEnds \/ HashEnds
    BY <2>10 DEF CopyWrites, CopyEnds, HashEnds
  <2>11. ASSUME NEW c \in Children, ChildStep(c)
         PROVE  CutInv'
    BY <2>11 DEF ChildStep, UpCreates, DownRemoves, ChildExits
  <2>12. CASE UNCHANGED vars
    BY <2>12 DEF vars
  <2> QED
    BY <2>1, <2>2, <2>3, <2>4, <2>5, <2>6, <2>7, <2>8, <2>9, <2>10, <2>11, <2>12
       DEF Next, DrillStep, Terminated
<1> QED
  BY <1>1, <1>2, InductiveInvariant, PTL DEF Spec, IInv

\* "All required checks passed" is not what PASSED says of a drill that was cut
\* short.  It is what PASSED says of every other, and no drill that was cut short
\* exits with success.
THEOREM PassedFallsShortOnlyByBudgetAlways == Spec => []PassedFallsShortOnlyByBudget
<1>1. IInv /\ CutInv => PassedFallsShortOnlyByBudget
  <2> SUFFICES ASSUME IInv, CutInv, reported \in {"PASSED", "PARTIAL"}
               PROVE  /\ \A c \in Required \cap Ran : status[c] = "PASSED"
                      /\ \/ Ran = Checks
                         \/ result = "budget" /\ exitCode \in {-1, 5, 6, 130, 143}
    BY DEF PassedFallsShortOnlyByBudget
  <2>1. /\ Ran # {} /\ Aggregate(Ran, Required, status) \in {"PASSED", "PARTIAL"}
        /\ result # "none"
    BY DEF IInv, ReportInv, DrillStatus, CutInv
  <2>2. \A c \in Required \cap Ran : status[c] = "PASSED"
    BY <2>1 DEF Aggregate, IInv, ProgressInv, CheckStatus
  <2>3. next # 1 /\ next \in 1..(N + 1)
    BY <2>1 DEF Ran, IInv, TypeOK
  <2>4. next = N + 1 => Ran = Checks
    BY NAssumption DEF Ran, Checks
  <2>5. result = "budget" => exitCode \in {-1, 5, 6, 130, 143}
    BY DEF CutInv, FailureExitCode
  <2> QED
    BY <2>1, <2>2, <2>3, <2>4, <2>5 DEF CutInv
<1> QED
  BY <1>1, InductiveInvariant, Cut, PTL
=============================================================================
