----------------------------- MODULE CheckList -----------------------------
(***************************************************************************)
(* What the loop over the checks promises to the drill: each check gets    *)
(* one outcome, in the order of checks.yaml, and an outcome never changes. *)
(* The loop may stop before its end, when the total budget expires.        *)
(* CheckExecutor implements it, and RecoveryDrill relies on nothing more.  *)
(***************************************************************************)
EXTENDS Verdict

CONSTANT N  \* number of checks

VARIABLES
  next,   \* the check to run next
  status  \* the outcomes pushed so far

Init ==
  /\ next = 1
  /\ status = [c \in 1..N |-> "none"]

RunOne ==
  /\ next <= N
  /\ \E s \in CheckStatus : status' = [status EXCEPT ![next] = s]
  /\ next' = next + 1

Spec == Init /\ [][RunOne]_<<next, status>>
=============================================================================
