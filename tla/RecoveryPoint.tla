---------------------------- MODULE RecoveryPoint ----------------------------
(***************************************************************************)
(* Which backup a drill restores, which one its report names, and how old  *)
(* the report says it is: BackupSource::inspect and restore of the three   *)
(* sources (storage/src/{restic,borg,local}.rs) with the metrics that      *)
(* assemble() (runner/src/runner.rs) computes from them, over a store that *)
(* goes on changing: new backups are made and old ones are removed while   *)
(* the drill runs.  RecoveryDrill takes Inspect and the restore for steps  *)
(* without data.                                                           *)
(*                                                                         *)
(* A slot is an archive of a restic or borg repository, or a regular file  *)
(* of a local directory.  Around its files, a directory has subdirectories *)
(* of one level, and links and special files, which are dated but never    *)
(* restored.  A moment passes with each change, so that a time identifies  *)
(* an archive; a file may come with an older time than that of its arrival.*)
(***************************************************************************)
EXTENDS Integers

CONSTANTS
  Slots,    \* names of archives, or of regular files
  Dirs,     \* of a local source: its directories ...
  Links,    \* ... its symbolic links and special files ...
  Top,      \* ... the directory itself ...
  Home,     \* ... and the directory each entry is in
  Latest,   \* the selector `latest`, not a slot
  Start,    \* when the drill starts, which is the reference of the RPO
  MaxTime,  \* bound of the clock
  Target    \* metrics.target_rpo_seconds

Entries == Slots \cup Dirs \cup Links

ASSUME LatestAssumption == Latest \notin Slots
ASSUME EntriesAssumption ==
  /\ Top \in Dirs
  /\ Slots \cap Dirs = {} /\ Slots \cap Links = {} /\ Dirs \cap Links = {}
  /\ Home \in [Entries -> Dirs]
  /\ \A d \in Dirs : Home[d] = Top
ASSUME TimeAssumption == /\ Start \in Nat \ {0}
                         /\ MaxTime \in Nat /\ MaxTime >= Start
                         /\ Target \in Nat

\* The sources: `declared` is a local directory with a metadata file.
Archives == {"restic", "borg"}
Trees == {"local", "declared"}

None == 0
Times == None..MaxTime

VARIABLES
  kind,      \* the source: never changes
  selector,  \* `snapshot` or `archive`: never changes
  selected,  \* ... the archive it named when it was configured: never changes
  store,     \* when what is in each slot was made, and each entry modified
  clock,
  tidy,      \* a regular file has always been the newest entry, and none has gone or aged
  settled,   \* nothing has changed in the store since inspect()
  before,    \* the oldest that each slot has held since the start
  pc,        \* where the drill is
  todo,      \* entries still to be looked at, or to be copied
  opened,    \* a directory that is dated but not listed yet
  newest,    \* newest modification time seen so far
  reported,  \* BackupMetadata::snapshot_id
  created,   \* BackupMetadata::created_at
  target,    \* what restore() has resolved the selector to
  restored,  \* what is in the restore directory
  result,    \* the Result of inspect and restore
  age,       \* RpoMetric::estimated_seconds, 0 without a timestamp
  rpo        \* RpoMetric::outcome

config == <<kind, selector, selected>>
world == <<store, clock, tidy, settled, before>>
metric == <<age, rpo>>
vars == <<config, world, pc, todo, opened, newest, reported, created, target,
          restored, result, metric>>

TypeOK ==
  /\ kind \in Archives \cup Trees
  /\ selector \in Slots \cup {Latest}
  /\ selected \in Times
  /\ store \in [Entries -> Times]
  /\ clock \in Start..MaxTime
  /\ tidy \in BOOLEAN
  /\ settled \in BOOLEAN
  /\ before \in [Slots -> Times]
  /\ pc \in {"inspect", "walk", "resolve", "extract", "copy", "report", "done"}
  /\ todo \subseteq Entries
  /\ opened \subseteq Dirs
  /\ newest \in Times
  /\ reported \in Times
  /\ created \in Times
  /\ target \in [slot : Slots \cup {Latest}, id : Times]
  /\ restored \in [Slots -> Times]
  /\ result \in {"none", "ok", "failed"}
  /\ age \in Times
  /\ rpo \in {"none", "PASS", "FAIL", "UNKNOWN"}

\* The newest entry of a tree is a file: neither a directory, which something
\* was removed from or moved into, nor an entry that is not restored.
FilesAreNewest(s) == \A e \in Entries : \E f \in Slots : s[e] <= s[f]

\* What a directory holds at this moment.
Inside(d) == {e \in Entries \ {Top} : Home[e] = d /\ store[e] # None}

\* A store with something in it: archives, each made at a time of its own, or a
\* directory, whose entries lie in directories that are there.
Init ==
  /\ kind \in Archives \cup Trees
  /\ selector \in IF kind \in Archives THEN Slots \cup {Latest} ELSE {Latest}
  /\ store \in [Entries -> None..Start]
  /\ \E s \in Slots : store[s] # None
  /\ kind \in Archives =>
       /\ \A e \in Entries \ Slots : store[e] = None
       /\ \A s, t \in Slots : store[s] = store[t] => s = t \/ store[s] = None
  /\ kind \in Trees => \A e \in Entries : store[e] # None => store[Home[e]] # None
  /\ selected = IF selector = Latest THEN None ELSE store[selector]
  /\ selector # Latest => selected # None
  /\ tidy = FilesAreNewest(store)
  /\ settled = TRUE
  /\ before = [s \in Slots |-> store[s]]
  /\ clock = Start
  /\ pc = "inspect"
  /\ todo = {}
  /\ opened = {}
  /\ newest = None
  /\ reported = None
  /\ created = None
  /\ target = [slot |-> Latest, id |-> None]
  /\ restored = [s \in Slots |-> None]
  /\ result = "none"
  /\ age = 0
  /\ rpo = "none"

-----------------------------------------------------------------------------
(* The store, in other hands.                                              *)

drill == <<pc, todo, opened, newest, reported, created, target, restored, result, metric>>

Changed(new) ==
  /\ pc # "done" /\ clock < MaxTime
  /\ clock' = clock + 1
  /\ store' = new
  /\ tidy' = (tidy /\ FilesAreNewest(new) /\ \A s \in Slots : store[s] <= new[s])
  /\ before' = [s \in Slots |-> IF new[s] < before[s] THEN new[s] ELSE before[s]]
  /\ settled' = FALSE
  /\ UNCHANGED <<config, drill>>

\* A new archive.
Backup(s) ==
  /\ kind \in Archives /\ store[s] = None
  /\ Changed([store EXCEPT ![s] = clock + 1])

\* `restic forget`, `borg delete`.
Forget(s) ==
  /\ kind \in Archives /\ store[s] # None
  /\ Changed([store EXCEPT ![s] = None])

\* An entry, new or written again: in place, or by moving something there, which
\* renews its directory, too.  What is moved or copied there may keep the time it had.
Written(e) ==
  /\ kind \in Trees /\ store[Home[e]] # None
  /\ \E made \in 1..clock+1 : \E renewed \in {store[Home[e]], clock + 1} :
       /\ store[e] = None => renewed = clock + 1
       /\ Changed([store EXCEPT ![e] = made, ![Home[e]] = renewed])

\* The rotation of old dumps; a directory must be empty.
Deleted(e) ==
  /\ kind \in Trees /\ e # Top /\ store[e] # None
  /\ e \in Dirs => Inside(e) = {}
  /\ Changed([store EXCEPT ![e] = None, ![Home[e]] = clock + 1])

-----------------------------------------------------------------------------
(* inspect().                                                              *)

\* Mutant of Resolves: the selector is not looked at.
ResolvesLatest(s) ==
  /\ store[s] # None
  /\ \A t \in Slots : store[t] <= store[s]

\* Mutant of Resolves: the first of the list, not the last.
ResolvesFirst(s) ==
  /\ store[s] # None
  /\ IF selector = Latest
     THEN \A t \in Slots : store[t] # None => store[t] >= store[s]
     ELSE IF kind = "restic" THEN store[s] = selected ELSE s = selector

\* Both tools list archives by time.  restic is given the identifier, the borg
\* archive is looked up by its name.
Resolves(s) ==
  /\ store[s] # None
  /\ IF selector = Latest
     THEN \A t \in Slots : store[t] <= store[s]
     ELSE IF kind = "restic" THEN store[s] = selected ELSE s = selector

\* borg may give a time that cannot be read: no timestamp then.
InspectArchive ==
  /\ pc = "inspect" /\ kind \in Archives
  /\ \E s \in Slots : /\ Resolves(s)
                      /\ reported' = store[s]
                      /\ created' \in {store[s]} \cup (IF kind = "borg" THEN {None} ELSE {})
  /\ pc' = "resolve"
  /\ settled' = TRUE
  /\ UNCHANGED <<config, store, clock, tidy, before, todo, opened, newest, target,
                 restored, result, metric>>

\* newest_modification() walks the tree, from the directory itself.
InspectDirectory ==
  /\ pc = "inspect" /\ kind = "local"
  /\ todo' = {Top}
  /\ pc' = "walk"
  /\ UNCHANGED <<config, world, opened, newest, reported, created, target, restored,
                 result, metric>>

\* The metadata file says when the backup was made.
ReadMetadataFile ==
  /\ pc = "inspect" /\ kind = "declared"
  /\ created' \in 1..clock
  /\ todo' = {Top}
  /\ pc' = "copy"
  /\ UNCHANGED <<config, world, opened, newest, reported, target, restored, result,
                 metric>>

\* Mutant of LookAt: the access time, which the walk itself renews.
LookAtNow(e) ==
  /\ pc = "walk" /\ e \in todo /\ opened = {}
  /\ newest' = IF store[e] = None THEN newest ELSE clock
  /\ todo' = todo \ {e}
  /\ opened' = {e} \cap {d \in Dirs : store[d] # None}
  /\ UNCHANGED <<config, world, pc, reported, created, target, restored, result, metric>>

\* Every entry counts with its own time, a directory or a link like a file; one
\* that has gone is passed over.
LookAt(e) ==
  /\ pc = "walk" /\ e \in todo /\ opened = {}
  /\ newest' = IF store[e] > newest THEN store[e] ELSE newest
  /\ todo' = todo \ {e}
  /\ opened' = {e} \cap {d \in Dirs : store[d] # None}
  /\ UNCHANGED <<config, world, pc, reported, created, target, restored, result, metric>>

\* A directory is listed after it was dated, and what it holds is looked at later.
ListOpened ==
  /\ pc = "walk"
  /\ \E d \in opened : todo' = todo \cup Inside(d)
  /\ opened' = {}
  /\ UNCHANGED <<config, world, pc, newest, reported, created, target, restored, result,
                 metric>>

WalkEnds ==
  /\ pc = "walk" /\ todo = {} /\ opened = {}
  /\ created' = newest
  /\ todo' = {Top}
  /\ pc' = "copy"
  /\ UNCHANGED <<config, world, opened, newest, reported, target, restored, result,
                 metric>>

-----------------------------------------------------------------------------
(* restore().                                                              *)

\* The selector once more.
ResolveAgain ==
  /\ pc = "resolve"
  /\ \E s \in Slots : Resolves(s) /\ target' = [slot |-> s, id |-> store[s]]
  /\ pc' = "extract"
  /\ UNCHANGED <<config, world, todo, opened, newest, reported, created, restored,
                 result, metric>>

\* `restic restore` is given an identifier, `borg extract` a name.
Extract ==
  /\ pc = "extract"
  /\ store[target.slot] # None
  /\ kind = "restic" => store[target.slot] = target.id
  /\ restored' = [restored EXCEPT ![target.slot] = store[target.slot]]
  /\ result' = "ok"
  /\ pc' = "report"
  /\ UNCHANGED <<config, world, todo, opened, newest, reported, created, target, metric>>

\* copy_tree() lists one directory after the other.
ListDirectory(d) ==
  /\ pc = "copy" /\ d \in todo \cap Dirs
  /\ store[d] # None
  /\ todo' = (todo \ {d}) \cup Inside(d)
  /\ UNCHANGED <<config, world, pc, opened, newest, reported, created, target, restored,
                 result, metric>>

CopyFile(s) ==
  /\ pc = "copy" /\ s \in todo
  /\ store[s] # None
  /\ restored' = [restored EXCEPT ![s] = store[s]]
  /\ todo' = todo \ {s}
  /\ UNCHANGED <<config, world, pc, opened, newest, reported, created, target, result,
                 metric>>

\* Neither a regular file nor a directory, or gone since it was listed.
PassOver(e) ==
  /\ pc = "copy" /\ e \in todo
  /\ e \in Links \/ store[e] = None
  /\ todo' = todo \ {e}
  /\ UNCHANGED <<config, world, pc, opened, newest, reported, created, target, restored,
                 result, metric>>

CopyEnds ==
  /\ pc = "copy" /\ todo = {}
  /\ result' = "ok"
  /\ pc' = "report"
  /\ UNCHANGED <<config, world, todo, opened, newest, reported, created, target,
                 restored, metric>>

\* A tool, a copy or a look-up that fails, for whatever reason; nothing that fits
\* the selector is one.
StepFails ==
  /\ pc \notin {"report", "done"}
  /\ result' = "failed"
  /\ pc' = "report"
  /\ UNCHANGED <<config, world, todo, opened, newest, reported, created, target,
                 restored, metric>>

-----------------------------------------------------------------------------
(* assemble(), as far as the recovery point goes: with an objective, and      *)
(* without a reference file, whose timestamps would replace both of these.    *)

\* A backup younger than the reference counts as made at it.
Age == IF created > Start THEN 0 ELSE Start - created

Report ==
  /\ pc = "report"
  /\ age' = IF created = None THEN 0 ELSE Age
  /\ rpo' = IF created = None THEN "UNKNOWN" ELSE IF Age <= Target THEN "PASS" ELSE "FAIL"
  /\ pc' = "done"
  /\ UNCHANGED <<config, world, todo, opened, newest, reported, created, target,
                 restored, result>>

Terminated == pc = "done" /\ UNCHANGED vars

-----------------------------------------------------------------------------

Next ==
  \/ \E s \in Slots : Backup(s) \/ Forget(s)
  \/ \E e \in Entries : Written(e) \/ Deleted(e)
  \/ InspectArchive \/ InspectDirectory \/ ReadMetadataFile
  \/ \E e \in Entries : LookAt(e) \/ PassOver(e)
  \/ ListOpened \/ WalkEnds
  \/ ResolveAgain \/ Extract
  \/ \E d \in Dirs : ListDirectory(d)
  \/ \E s \in Slots : CopyFile(s)
  \/ CopyEnds \/ StepFails
  \/ Report
  \/ Terminated

Spec == Init /\ [][Next]_vars

-----------------------------------------------------------------------------
(* Properties.                                                             *)

Restored == pc = "done" /\ result = "ok"

\* The archive in the report is the one that was restored, when the selector is
\* the identifier of a restic snapshot, or when the store has not changed while
\* the drill looked at it twice.
NamesWhatWasRestored ==
  /\ Restored /\ kind \in Archives
  /\ settled \/ (kind = "restic" /\ selector # Latest)
  => \E s \in Slots : restored[s] = reported /\ reported # None

\* Nothing is restored that was out of date when the drill started: what `latest`
\* restores is no older than any archive that was there from the start, and a file
\* that was there all the time is in the restore directory, not older than the
\* oldest it has been.
NothingStaleIsRestored ==
  Restored =>
    /\ kind \in Trees => \A s \in Slots : before[s] <= restored[s]
    /\ kind \in Archives /\ selector = Latest =>
         \A s \in Slots : \E t \in Slots : before[s] <= restored[t]

\* RPO_PASS is earned: something restored was made within the objective before the
\* drill started, or after, however the store changes in between; if nothing is
\* removed and, of a local directory, a file is always the newest entry.  (A fresh
\* link or subdirectory, or an old dump moved there, dates a directory to now.)
RpoPassIsEarned ==
  Restored /\ rpo = "PASS" /\ tidy /\ kind # "declared" =>
    \E s \in Slots : restored[s] # None /\ Start - restored[s] <= Target
=============================================================================
