--------------------------- MODULE ProcessCapture ---------------------------
(***************************************************************************)
(* CommandSpec::run() (core/src/process.rs): an external program with its  *)
(* two output pipes, read_capped() on each of them, and the time limit.    *)
(* Every docker, restic, borg and check program is run this way.           *)
(* CheckExecutor and RecoveryDrill know of a child only whether it lives.  *)
(*                                                                         *)
(* Lengths count bytes.  The program writes what it likes, may close a     *)
(* pipe, hand its pipes on to processes it starts, and may hang.           *)
(***************************************************************************)
EXTENDS Integers

CONSTANTS
  Descendants,  \* processes the program may start
  MaxCap,       \* largest max_output_bytes
  PipeSize,     \* what a pipe holds before a writer has to wait
  Buffer,       \* the buffer of read_capped()
  MaxWritten    \* bound on what is written to one pipe

ASSUME SizeAssumption ==
  /\ MaxCap \in Nat /\ MaxWritten \in Nat
  /\ PipeSize \in Nat \ {0} /\ Buffer \in Nat \ {0}
ASSUME DescendantsAssumption == "child" \notin Descendants

Pipes == {"stdout", "stderr"}
Processes == {"child"} \cup Descendants

VARIABLES
  cap,        \* max_output_bytes: never changes
  pc,         \* where run() is, or how it has ended
  alive,      \* the processes that run
  born,       \* the processes that were ever started
  open,       \* per pipe, who can write to it
  written,    \* per pipe, bytes written so far
  taken,      \* per pipe, bytes read so far
  eof,        \* per pipe, whether read_capped() has returned
  kept,       \* per pipe, the length of `kept`
  truncated,  \* per pipe, the flag of read_capped()
  reported    \* CommandOutput::truncated

program == <<alive, born, open, written>>
reader == <<taken, eof, kept, truncated>>
vars == <<cap, pc, program, reader, reported>>

Ended == {"returned", "timeout", "dropped", "failed"}

TypeOK ==
  /\ cap \in 0..MaxCap
  /\ pc \in {"start", "collect", "wait"} \cup Ended
  /\ alive \subseteq born /\ born \subseteq Processes
  /\ open \in [Pipes -> SUBSET Processes]
  /\ written \in [Pipes -> 0..MaxWritten]
  /\ taken \in [Pipes -> Nat]
  /\ eof \in [Pipes -> BOOLEAN]
  /\ kept \in [Pipes -> 0..MaxCap]
  /\ truncated \in [Pipes -> BOOLEAN]
  /\ reported \in BOOLEAN

Init ==
  /\ cap \in 0..MaxCap
  /\ pc = "start"
  /\ alive = {}
  /\ born = {}
  /\ open = [p \in Pipes |-> {}]
  /\ written = [p \in Pipes |-> 0]
  /\ taken = [p \in Pipes |-> 0]
  /\ eof = [p \in Pipes |-> FALSE]
  /\ kept = [p \in Pipes |-> 0]
  /\ truncated = [p \in Pipes |-> FALSE]
  /\ reported = FALSE

-----------------------------------------------------------------------------
(* run().                                                                  *)

Spawn ==
  /\ pc = "start"
  /\ pc' = "collect"
  /\ alive' = {"child"} /\ born' = {"child"}
  /\ open' = [p \in Pipes |-> {"child"}]
  /\ UNCHANGED <<cap, written, reader, reported>>

SpawnFails ==
  /\ pc = "start"
  /\ pc' = "failed"
  /\ UNCHANGED <<cap, program, reader, reported>>

InPipe(p) == written[p] - taken[p]

\* Mutant of Keep: the whole chunk is kept as long as there is room for any of it.
KeepChunk(p, n) ==
  IF cap - kept[p] > 0
  THEN kept' = [kept EXCEPT ![p] = @ + n] /\ UNCHANGED truncated
  ELSE truncated' = [truncated EXCEPT ![p] = TRUE] /\ UNCHANGED kept

\* A chunk of n bytes: what fits below the cap is kept, the surplus is dropped.
Keep(p, n) ==
  LET remaining == cap - kept[p]
  IN \/ /\ n > remaining
        /\ kept' = [kept EXCEPT ![p] = @ + remaining]
        /\ truncated' = [truncated EXCEPT ![p] = TRUE]
     \/ /\ n <= remaining
        /\ kept' = [kept EXCEPT ![p] = @ + n]
        /\ UNCHANGED truncated

\* Mutant of MayRead: one pipe to its end, then the other.
MayReadInTurn(p) == ~eof[p] /\ (p = "stderr" => eof["stdout"])

\* tokio::join!: the two pipes are read side by side.
MayRead(p) == ~eof[p]

Read(p) ==
  /\ pc = "collect" /\ MayRead(p)
  /\ \E n \in 1..Buffer :
       /\ n <= InPipe(p)
       /\ taken' = [taken EXCEPT ![p] = @ + n]
       /\ Keep(p, n)
  /\ UNCHANGED <<cap, pc, program, eof, reported>>

\* A read of an empty pipe returns 0 once nobody can write to it.
EndOfFile(p) ==
  /\ pc = "collect" /\ MayRead(p)
  /\ InPipe(p) = 0 /\ open[p] = {}
  /\ eof' = [eof EXCEPT ![p] = TRUE]
  /\ UNCHANGED <<cap, pc, program, taken, kept, truncated, reported>>

Collected ==
  /\ pc = "collect" /\ \A p \in Pipes : eof[p]
  /\ pc' = "wait"
  /\ UNCHANGED <<cap, program, reader, reported>>

\* child.wait(): the program has exited, a CommandOutput is returned.
Reaped ==
  /\ pc = "wait" /\ "child" \notin alive
  /\ pc' = "returned"
  /\ reported' = (truncated["stdout"] \/ truncated["stderr"])
  /\ UNCHANGED <<cap, program, reader>>

\* Dropping the Child kills it (kill_on_drop), and nothing else.
KillChild ==
  /\ alive' = alive \ {"child"}
  /\ open' = [p \in Pipes |-> open[p] \ {"child"}]
  /\ UNCHANGED <<born, written>>

WaitFails ==
  /\ pc = "wait"
  /\ pc' = "failed"
  /\ KillChild
  /\ UNCHANGED <<cap, reader, reported>>

\* Mutant of TimesOut: the child is only forgotten.
TimesOutForgets ==
  /\ pc \in {"collect", "wait"}
  /\ pc' = "timeout"
  /\ UNCHANGED <<cap, program, reader, reported>>

\* Mutant of TimesOut: the limit is set on child.wait() alone.
TimesOutWaiting ==
  /\ pc = "wait"
  /\ pc' = "timeout"
  /\ KillChild
  /\ UNCHANGED <<cap, reader, reported>>

\* tokio::time::timeout around the reads and the wait together.
TimesOut ==
  /\ pc \in {"collect", "wait"}
  /\ pc' = "timeout"
  /\ KillChild
  /\ UNCHANGED <<cap, reader, reported>>

\* The caller's future is dropped: the time limit of an attempt or the total budget.
Drop ==
  /\ pc \in {"collect", "wait"}
  /\ pc' = "dropped"
  /\ KillChild
  /\ UNCHANGED <<cap, reader, reported>>

-----------------------------------------------------------------------------
(* The program.                                                            *)

Write(h, p) ==
  /\ pc = "collect" /\ h \in alive /\ h \in open[p]
  /\ InPipe(p) < PipeSize /\ written[p] < MaxWritten
  /\ written' = [written EXCEPT ![p] = @ + 1]
  /\ UNCHANGED <<cap, pc, alive, born, open, reader, reported>>

ClosePipe(h, p) ==
  /\ h \in alive /\ h \in open[p]
  /\ open' = [open EXCEPT ![p] = @ \ {h}]
  /\ UNCHANGED <<cap, pc, alive, born, written, reader, reported>>

\* A new process inherits the pipes its parent has open.
Fork(h, d) ==
  /\ h \in alive /\ d \in Descendants \ born
  /\ alive' = alive \cup {d} /\ born' = born \cup {d}
  /\ open' = [p \in Pipes |-> IF h \in open[p] THEN open[p] \cup {d} ELSE open[p]]
  /\ UNCHANGED <<cap, pc, written, reader, reported>>

Exit(h) ==
  /\ h \in alive
  /\ alive' = alive \ {h}
  /\ open' = [p \in Pipes |-> open[p] \ {h}]
  /\ UNCHANGED <<cap, pc, born, written, reader, reported>>

Terminated == pc \in Ended /\ UNCHANGED vars

-----------------------------------------------------------------------------
Run ==
  \/ Spawn \/ SpawnFails
  \/ \E p \in Pipes : Read(p) \/ EndOfFile(p)
  \/ Collected \/ Reaped \/ WaitFails \/ TimesOut \/ Drop

Program ==
  \E h \in Processes :
    \/ \E p \in Pipes : Write(h, p) \/ ClosePipe(h, p)
    \/ \E d \in Descendants : Fork(h, d)
    \/ Exit(h)

Next == Run \/ Program \/ Terminated

\* run() goes on whenever it can; nothing is asked of the program or the timer.
Fairness ==
  /\ \A p \in Pipes : WF_vars(Read(p)) /\ WF_vars(EndOfFile(p))
  /\ WF_vars(Collected) /\ WF_vars(Reaped)

Spec == Init /\ [][Next]_vars /\ Fairness

-----------------------------------------------------------------------------
(* Properties.                                                             *)

Lesser(a, b) == IF a < b THEN a ELSE b

\* What is kept is the beginning of what was written, never above the cap, and
\* an answer that misses anything says so, whatever the sizes of the chunks
\* and whichever pipe overflowed (read_capped, CommandOutput::truncated).
CaptureIsAPrefix ==
  /\ \A p \in Pipes :
       /\ kept[p] = Lesser(cap, taken[p])
       /\ truncated[p] = (taken[p] > cap)
  /\ pc = "returned" =>
       /\ \A p \in Pipes : kept[p] = Lesser(cap, written[p])
       /\ reported = (\E p \in Pipes : written[p] > cap)

\* However run() ends, the program it started is dead; processes the program
\* started may live on, and only an answer proves that none holds a pipe.
NoChildOutlivesTheCall ==
  pc \in Ended =>
    /\ "child" \notin alive
    /\ pc = "returned" => \A p \in Pipes : open[p] = {}

\* A program that fills a pipe gets room again, although the other pipe never
\* ends, the cap is long reached and no time limit strikes: run() and the
\* program never wait for each other (the comment of read_capped).
NeverBlockedForEver ==
  \A p \in Pipes :
    (pc = "collect" /\ InPipe(p) = PipeSize)
      ~> (InPipe(p) < PipeSize \/ pc \in Ended)

\* If the timer strikes, run() ends, even for a program that has exited but
\* whose descendants keep a pipe open, and for one that never exits.
CallEnds ==
  WF_vars(TimesOut) => (pc = "collect" ~> pc \in Ended)
=============================================================================
