---------------------------- MODULE ReportWriter ----------------------------
(***************************************************************************)
(* Writing the report of a drill: write_all() and write_atomically()       *)
(* (report/src/writer.rs), then `--output` (cli/src/output.rs, emit), for  *)
(* several drills that write into the same directory at the same time.     *)
(* RecoveryDrill takes write_all() for one step.  The disk may fill up at  *)
(* any write, a drill may be killed between any two steps, and the power   *)
(* may fail: then a block that was not synced may be lost, and any number  *)
(* of the latest changes of the directory, which nobody syncs.             *)
(*                                                                         *)
(* A report is a file of Size blocks, each of them marked with the drill   *)
(* it is about.  The formats of a drill are the numbers from 1 to F.       *)
(***************************************************************************)
EXTENDS Integers

CONSTANTS
  Runs,       \* the drills
  F,          \* number of formats in report.formats, all different
  Size,       \* blocks of a rendered report
  StartedAt,  \* per drill: run.started_at, to the second
  Project,    \* ... the project, as a file name
  ShortId,    \* ... the first eight characters of run.id
  None        \* no file, no block

ASSUME NumberAssumption == F \in Nat \ {0} /\ Size \in Nat \ {0}
ASSUME NoneAssumption == None \notin Runs /\ None \notin Runs \X (1..F)
ASSUME ShortIdAssumption == \A r, s \in Runs : ShortId[r] = ShortId[s] => r = s

Formats == 1..F

\* Mutant of Stem: drills of the same second and project share their names.
StemWithoutId(r) == <<StartedAt[r], Project[r]>>

\* The name of the files, up to their extension.
Stem(r) == <<StartedAt[r], Project[r], ShortId[r]>>

Final(r, i) == <<Stem(r), i, "final">>
Temporary(r, i) == <<Stem(r), i, "temporary">>
Paths == {Final(r, i) : r \in Runs, i \in Formats}
           \cup {Temporary(r, i) : r \in Runs, i \in Formats}

\* A file, whatever its name is: named for the first drill that opened it.
Files == Runs \X Formats

Contents == [1..Size -> Runs \cup {None}]
Empty == [b \in 1..Size |-> None]
Whole(r) == [b \in 1..Size |-> r]

VARIABLES
  dir,     \* the directory: path to file
  past,    \* history: the directory as it was before each of its changes
  data,    \* what a reader finds in a file
  disk,    \* what the disk holds of it since the last sync
  output,  \* the file of `--output`, which every drill overwrites; empty at first
  pc,      \* where each drill is
  format,  \* ... the format it is writing
  file,    \* ... its open file
  offset,  \* ... blocks written to it so far
  power

files == <<dir, past, data, disk, output>>
vars == <<files, pc, format, file, offset, power>>

TypeOK ==
  /\ dir \in [Paths -> Files \cup {None}]
  /\ past \subseteq [Paths -> Files \cup {None}]
  /\ data \in [Files -> Contents]
  /\ disk \in [Files -> Contents]
  /\ output \in Contents
  /\ pc \in [Runs -> {"prepare", "create", "write", "rename", "emit", "print",
                      "done", "failed", "killed"}]
  /\ format \in [Runs -> 1..(F + 1)]
  /\ file \in [Runs -> Files]
  /\ offset \in [Runs -> 0..Size]
  /\ power \in BOOLEAN

Init ==
  /\ dir = [p \in Paths |-> None]
  /\ past = {}
  /\ data = [f \in Files |-> Empty]
  /\ disk = [f \in Files |-> Empty]
  /\ output = Empty
  /\ pc = [r \in Runs |-> "prepare"]
  /\ format = [r \in Runs |-> 1]
  /\ file = [r \in Runs |-> <<r, 1>>]
  /\ offset = [r \in Runs |-> 0]
  /\ power = TRUE

-----------------------------------------------------------------------------
(* write_all().                                                            *)

Goto(r, l) == pc' = [pc EXCEPT ![r] = l]

\* A change of the directory, which the disk may not hold yet.
SetDir(d) == dir' = d /\ past' = past \cup {dir}

\* create_private_dir(): a directory that is there is left alone.
Prepare(r) ==
  /\ pc[r] = "prepare"
  /\ Goto(r, "create") \/ Goto(r, "failed")
  /\ UNCHANGED <<files, format, file, offset, power>>

\* render() and File::create(), which truncates a file of that name.
Create(r) ==
  /\ pc[r] = "create" /\ format[r] <= F
  /\ LET path == Temporary(r, format[r])
         f == IF dir[path] = None THEN <<r, format[r]>> ELSE dir[path]
     IN /\ file' = [file EXCEPT ![r] = f]
        /\ data' = [data EXCEPT ![f] = Empty]
        /\ SetDir([dir EXCEPT ![path] = f])
  /\ offset' = [offset EXCEPT ![r] = 0]
  /\ Goto(r, "write")
  /\ UNCHANGED <<disk, output, format, power>>

WriteBlock(r) ==
  /\ pc[r] = "write" /\ offset[r] < Size
  /\ offset' = [offset EXCEPT ![r] = @ + 1]
  /\ data' = [data EXCEPT ![file[r]][offset[r] + 1] = r]
  /\ UNCHANGED <<dir, past, disk, output, pc, format, file, power>>

\* Mutant of Sync: the file is renamed without having been synced.
SyncNothing(r) ==
  /\ pc[r] = "write" /\ offset[r] = Size
  /\ Goto(r, "rename")
  /\ UNCHANGED <<files, format, file, offset, power>>

Sync(r) ==
  /\ pc[r] = "write" /\ offset[r] = Size
  /\ disk' = [disk EXCEPT ![file[r]] = data[file[r]]]
  /\ Goto(r, "rename")
  /\ UNCHANGED <<dir, past, data, output, format, file, offset, power>>

\* File::create(), write_all() or sync_all() has failed: what is in the
\* temporary file stays there.
WriteFails(r) ==
  /\ pc[r] \in {"create", "write"} /\ format[r] <= F
  /\ Goto(r, "failed")
  /\ UNCHANGED <<files, format, file, offset, power>>

Rename(r) ==
  /\ pc[r] = "rename"
  /\ LET from == Temporary(r, format[r])
     IN /\ dir[from] # None
        /\ SetDir([dir EXCEPT ![Final(r, format[r])] = dir[from], ![from] = None])
  /\ format' = [format EXCEPT ![r] = @ + 1]
  /\ Goto(r, "create")
  /\ UNCHANGED <<data, disk, output, file, offset, power>>

\* The temporary file is removed, if that is possible.
RenameFails(r) ==
  /\ pc[r] = "rename"
  /\ \/ SetDir([dir EXCEPT ![Temporary(r, format[r])] = None])
     \/ UNCHANGED <<dir, past>>
  /\ Goto(r, "failed")
  /\ UNCHANGED <<data, disk, output, format, file, offset, power>>

\* Mutant of Written: the first format is enough.
WrittenOne(r) ==
  /\ pc[r] = "create" /\ format[r] > 1
  /\ Goto(r, "emit")
  /\ UNCHANGED <<files, format, file, offset, power>>

\* write_all() returns its list of files.
Written(r) ==
  /\ pc[r] = "create" /\ format[r] = F + 1
  /\ Goto(r, "emit")
  /\ UNCHANGED <<files, format, file, offset, power>>

-----------------------------------------------------------------------------
(* emit(): the rendered report goes to standard output, or, in place, to   *)
(* the file of `--output`.                                                 *)

EmitToTerminal(r) ==
  /\ pc[r] = "emit"
  /\ Goto(r, "done")
  /\ UNCHANGED <<files, format, file, offset, power>>

EmitToFile(r) ==
  /\ pc[r] = "emit"
  /\ output' = Empty
  /\ offset' = [offset EXCEPT ![r] = 0]
  /\ Goto(r, "print")
  /\ UNCHANGED <<dir, past, data, disk, format, file, power>>

EmitBlock(r) ==
  /\ pc[r] = "print" /\ offset[r] < Size
  /\ output' = [output EXCEPT ![offset[r] + 1] = r]
  /\ offset' = [offset EXCEPT ![r] = @ + 1]
  /\ UNCHANGED <<dir, past, data, disk, pc, format, file, power>>

EmitEnds(r) ==
  /\ pc[r] = "print" /\ offset[r] = Size
  /\ Goto(r, "done")
  /\ UNCHANGED <<files, format, file, offset, power>>

EmitFails(r) ==
  /\ pc[r] \in {"emit", "print"}
  /\ Goto(r, "failed")
  /\ UNCHANGED <<files, format, file, offset, power>>

-----------------------------------------------------------------------------
(* What may happen to the drill, and to the machine.                       *)

Over == {"done", "failed", "killed"}

\* SIGKILL, or process::exit() of the watcher.
Kill(r) ==
  /\ pc[r] \notin Over
  /\ Goto(r, "killed")
  /\ UNCHANGED <<files, format, file, offset, power>>

\* Any of the blocks that were not synced are lost, and so is any number of
\* the latest changes of the directory.
PowerFails ==
  /\ power' = FALSE
  /\ dir' \in past \cup {dir}
  /\ \E lost \in SUBSET {fb \in Files \X (1..Size) :
                           data[fb[1]][fb[2]] # disk[fb[1]][fb[2]]} :
       data' = [f \in Files |-> [b \in 1..Size |->
                  IF <<f, b>> \in lost THEN disk[f][b] ELSE data[f][b]]]
  /\ UNCHANGED <<past, disk, output, pc, format, file, offset>>

Terminated ==
  /\ ~power \/ \A r \in Runs : pc[r] \in Over
  /\ UNCHANGED vars

Step(r) ==
  \/ Prepare(r) \/ Create(r) \/ WriteBlock(r) \/ Sync(r) \/ WriteFails(r)
  \/ Rename(r) \/ RenameFails(r) \/ Written(r)
  \/ EmitToTerminal(r) \/ EmitToFile(r) \/ EmitBlock(r) \/ EmitEnds(r) \/ EmitFails(r)
  \/ Kill(r)

Next ==
  \/ power /\ \E r \in Runs : Step(r)
  \/ power /\ PowerFails
  \/ Terminated

Spec == Init /\ [][Next]_vars

-----------------------------------------------------------------------------
(* Properties.                                                             *)

\* "Write a file so that a reader never sees a half-written report"
\* (write_atomically): what is found under the name of a report is the whole of
\* it and of no other drill's, while it is written, after a drill that failed
\* or was killed, beside another drill, and after a power failure.
NeverHalfAReport ==
  \A r \in Runs, i \in Formats :
    dir[Final(r, i)] # None => data[dir[Final(r, i)]] = Whole(r)

\* What a reader finds under the name of a report.
Found == {ri \in Runs \X Formats : dir[Final(ri[1], ri[2])] # None}

\* The directory keeps the promises of ReportDirectory: reports appear one at a
\* time and in order, none goes but by a power failure, and a drill that gets
\* as far as its output has all its reports there.
Directory == INSTANCE ReportDirectory WITH
  reports <- Found,
  finished <- {r \in Runs : pc[r] = "done"},
  power <- power
ImplementsReportDirectory == Directory!Spec

=============================================================================
