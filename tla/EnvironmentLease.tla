-------------------------- MODULE EnvironmentLease --------------------------
(***************************************************************************)
(* What RecoveryEnvironment::start, teardown and its Drop                  *)
(* (runner/src/environment.rs), the registry (runner/src/cleanup.rs) and   *)
(* the watcher (cli/src/main.rs) promise together of the one environment   *)
(* of a drill: it is taken once and given back once, by teardown() or else *)
(* by the drop guard; only its owner has it destroyed; and from the moment *)
(* the drill asks for that, nothing is created in it.  An interruption may *)
(* ask on its own, while the drill still holds it.                         *)
(***************************************************************************)

VARIABLES
  mine,        \* whether this process is to destroy the environment
  lease,       \* "none", "held" by the drill, or "given" to teardown()
  asked,       \* who has asked docker to destroy it, in vain or not
  containers

vars == <<mine, lease, asked, containers>>

Owners == {"teardown", "guard"}

Init ==
  /\ mine \in BOOLEAN
  /\ lease = "none"
  /\ asked = {}
  /\ containers \in IF mine THEN {"none"} ELSE {"none", "up"}

Take ==
  /\ lease = "none" /\ lease' = "held"
  /\ UNCHANGED <<mine, asked, containers>>

\* `docker compose up`, whenever it gets that far.
Create ==
  /\ lease = "held" /\ asked \cap Owners = {}
  /\ containers' = "up"
  /\ UNCHANGED <<mine, lease, asked>>

GiveBack ==
  /\ lease = "held" /\ asked \cap Owners = {}
  /\ lease' = "given"
  /\ UNCHANGED <<mine, asked, containers>>

\* teardown() for what was given back; the drop guard and the watcher for what
\* was not.
Ask(who) ==
  /\ mine /\ who \notin asked
  /\ lease = IF who = "teardown" THEN "given" ELSE "held"
  /\ asked' = asked \cup {who}
  /\ UNCHANGED <<mine, lease, containers>>

\* `docker compose down`, of any of those who asked.
Remove ==
  /\ asked # {}
  /\ containers' = "none"
  /\ UNCHANGED <<mine, lease, asked>>

Next ==
  \/ Take \/ Create \/ GiveBack \/ Remove
  \/ \E who \in Owners \cup {"watcher"} : Ask(who)

Spec == Init /\ [][Next]_vars
=============================================================================
