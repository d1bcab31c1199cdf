------------------------------ MODULE Verdict ------------------------------
(***************************************************************************)
(* From check outcomes to the status of the drill, and from there to the   *)
(* exit code of the process: core/src/status.rs, core/src/error.rs and     *)
(* runner/src/error.rs.  Pure operators, used by RecoveryDrill.            *)
(***************************************************************************)
EXTENDS Integers

CheckStatus == {"PASSED", "FAILED", "ERROR", "SKIPPED"}

RunStatus == {"PASSED", "PARTIAL", "FAILED", "ERROR", "SKIPPED"}

(* The Result of the drill future.  "ok" is Ok(()), the others are the     *)
(* classes of RunnerError that the exit code tells apart; "budget" is the  *)
(* Timeout that execute() builds when the total budget expires.            *)
Failure == {"missing", "storage", "environment", "timeout", "io", "budget"}

(* status::aggregate over the checks in ran: the first of the five rules   *)
(* that applies.                                                           *)
Aggregate(ran, required, status) ==
  IF ran = {} THEN "SKIPPED"
  ELSE IF \E c \in ran \cap required : status[c] = "FAILED" THEN "FAILED"
  ELSE IF \E c \in ran \cap required : status[c] \in {"ERROR", "SKIPPED"} THEN "ERROR"
  ELSE IF \E c \in ran \ required : status[c] # "PASSED" THEN "PARTIAL"
  ELSE "PASSED"

(* RunStatus::exit_code. *)
StatusExitCode(status) ==
  IF status \in {"PASSED", "PARTIAL", "SKIPPED"} THEN 0 ELSE 1

(* RunnerError::exit_code, with StorageError::exit_code folded in: a       *)
(* storage error is "missing", "timeout" or "storage" by the time it is a  *)
(* Failure.                                                                *)
FailureExitCode(failure) ==
  IF failure = "missing" THEN 3
  ELSE IF failure \in {"storage", "environment"} THEN 4
  ELSE IF failure \in {"timeout", "budget"} THEN 5
  ELSE 6
=============================================================================
