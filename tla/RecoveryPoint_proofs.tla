------------------------ MODULE RecoveryPoint_proofs ------------------------
(***************************************************************************)
(* Proofs about RecoveryPoint, for any set of slots, any tree of one level *)
(* of subdirectories, any history of the store and any objective.          *)
(***************************************************************************)
EXTENDS RecoveryPoint, TLAPS

\* Where each kind of source may be, and when it has a result.
PcInv ==
  /\ kind \in Archives => pc \in {"inspect", "resolve", "extract", "report", "done"}
  /\ kind \in Trees => pc \in {"inspect", "walk", "copy", "report", "done"}
  /\ result = "none" <=> pc \notin {"report", "done"}
  /\ pc = "inspect" => newest = None

\* A time says which archive it belongs to, entries lie in directories that are
\* there, and what was there at the start is no older than the oldest it has been.
StoreInv ==
  /\ \A e \in Entries : store[e] <= clock
  /\ kind \in Archives =>
       \A s, t \in Slots : store[s] = store[t] => s = t \/ store[s] = None
  /\ kind \in Trees => \A e \in Entries : store[e] # None => store[Home[e]] # None
  /\ \A s \in Slots : before[s] <= store[s]

\* The snapshot in the report, from inspect() to the extraction.
NamesInv ==
  kind \in Archives =>
    /\ pc \in {"resolve", "extract"} \/ result = "ok" =>
         /\ reported # None
         /\ kind = "restic" /\ selector # Latest => reported = selected
    /\ pc = "resolve" /\ settled => \E s \in Slots : Resolves(s) /\ store[s] = reported
    /\ pc = "extract" =>
         /\ target.slot \in Slots
         /\ settled => target.id = reported /\ store[target.slot] = reported
         /\ kind = "restic" /\ selector # Latest => target.id = selected
    /\ result = "ok" /\ (settled \/ (kind = "restic" /\ selector # Latest)) =>
         \E s \in Slots : restored[s] = reported

\* The copy will still come to this file, if it stays.
Reachable(s) == s \in todo \/ Home[s] \in todo \/ Top \in todo

\* Nothing that was there at the start is newer than what is about to be restored.
FreshInv ==
  /\ pc = "extract" =>
       /\ target.slot \in Slots /\ target.id <= clock
       /\ selector = Latest => \A s \in Slots : before[s] <= target.id
       /\ store[target.slot] = None \/ target.id <= store[target.slot]
  /\ pc = "copy" => \A s \in Slots : before[s] <= restored[s] \/ Reachable(s)
  /\ result = "ok" =>
       /\ kind \in Trees => \A s \in Slots : before[s] <= restored[s]
       /\ kind \in Archives /\ selector = Latest =>
            \A s \in Slots : \E t \in Slots : before[s] <= restored[t]

\* While no file goes or ages and a file is always the newest entry, something is as
\* new as the timestamp in the report.
EarnedInv ==
  tidy =>
    /\ FilesAreNewest(store)
    /\ kind \in Archives /\ selector # Latest => store[selector] = selected /\ selected # None
    /\ pc = "walk" => \E s \in Slots : newest <= store[s]
    /\ pc = "resolve" =>
         /\ \E s \in Slots : created <= store[s]
         /\ selector # Latest => created <= selected
    /\ pc = "extract" =>
         /\ target.slot \in Slots
         /\ created <= target.id
         /\ target.id <= store[target.slot]
    /\ pc = "copy" /\ kind = "local" /\ created # None =>
         \E s \in Slots : /\ created <= store[s]
                          /\ Reachable(s) \/ created <= restored[s]
    /\ result = "ok" /\ kind # "declared" /\ created # None =>
         \E s \in Slots : created <= restored[s]

\* RPO_PASS, against the timestamp.
PassInv == rpo = "PASS" => pc = "done" /\ created # None /\ Start - created <= Target

IInv == TypeOK /\ PcInv /\ StoreInv /\ NamesInv /\ FreshInv /\ EarnedInv /\ PassInv

-----------------------------------------------------------------------------
(* The initial states.                                                     *)

LEMMA InitIInv == Init => IInv
<1> SUFFICES ASSUME Init
             PROVE  IInv
  OBVIOUS
<1> USE TimeAssumption, LatestAssumption, EntriesAssumption
    DEF None, Times, Archives, Trees, Entries
<1>1. TypeOK
  <2>1. store \in [Entries -> Times] /\ kind \in Archives \cup Trees
    BY DEF Init
  <2>2. selected \in Times /\ selector \in Slots \cup {Latest}
    BY <2>1 DEF Init
  <2>3. before \in [Slots -> Times]
    BY <2>1 DEF Init
  <2>4. /\ clock \in Start..MaxTime /\ tidy \in BOOLEAN /\ settled \in BOOLEAN
        /\ pc = "inspect" /\ todo = {} /\ opened = {} /\ newest \in Times
        /\ reported \in Times /\ created \in Times /\ age \in Times
        /\ result = "none" /\ rpo = "none"
    BY DEF Init, FilesAreNewest
  <2>5. /\ target \in [slot : Slots \cup {Latest}, id : Times]
        /\ restored \in [Slots -> Times]
    BY DEF Init
  <2> QED
    BY <2>1, <2>2, <2>3, <2>4, <2>5 DEF TypeOK
<1>2. PcInv /\ NamesInv /\ FreshInv /\ PassInv
  BY DEF Init, PcInv, NamesInv, FreshInv, PassInv
<1>3. StoreInv
  <2>1. /\ \A e \in Entries : store[e] \in None..Start
        /\ \A s \in Slots : before[s] = store[s]
    BY DEF Init
  <2>2. kind \in Archives =>
          \A s, t \in Slots : store[s] = store[t] => s = t \/ store[s] = None
    BY DEF Init
  <2>3. kind \in Trees => \A e \in Entries : store[e] # None => store[Home[e]] # None
    BY DEF Init
  <2> QED
    BY <2>1, <2>2, <2>3 DEF Init, StoreInv
<1>4. EarnedInv
  BY DEF Init, EarnedInv
<1> QED
  BY <1>1, <1>2, <1>3, <1>4 DEF IInv

-----------------------------------------------------------------------------
(* The store, in other hands: what its four actions have in common.        *)

\* What the store can become in one step.
Possible(new) ==
  /\ new \in [Entries -> None..clock+1]
  /\ kind \in Archives =>
       /\ \A s \in Slots : \/ new[s] \in {store[s], None}
                           \/ store[s] = None /\ new[s] = clock + 1
       /\ \A s, t \in Slots : new[s] = new[t] => s = t \/ new[s] = None
  /\ kind \in Trees => \A e \in Entries : new[e] # None => new[Home[e]] # None

WorldNext ==
  \/ \E s \in Slots : Backup(s) \/ Forget(s)
  \/ \E e \in Entries : Written(e) \/ Deleted(e)

\* Each of the actions changes the store into one that is possible.
LEMMA WorldStep ==
  ASSUME TypeOK, StoreInv, WorldNext
  PROVE  \E new : Possible(new) /\ Changed(new)
<1> USE TimeAssumption, EntriesAssumption DEF None, Times, Archives, Trees, Entries
<1>1. /\ clock \in Nat
      /\ \A e \in Entries : store[e] \in Nat /\ store[e] <= clock
      /\ store \in [Entries -> None..clock+1]
  BY DEF TypeOK, StoreInv
<1>2. ASSUME NEW s \in Slots, Backup(s)
      PROVE  \E new : Possible(new) /\ Changed(new)
  <2> DEFINE new == [store EXCEPT ![s] = clock + 1]
  <2>1. \A t \in Entries : new[t] = IF t = s THEN clock + 1 ELSE store[t]
    BY <1>1
  <2>2. new \in [Entries -> None..clock+1]
    BY <1>1
  <2>3. kind \notin Trees /\ store[s] = None /\ Changed(new)
    BY <1>2 DEF Backup
  <2> HIDE DEF new
  <2> QED
    BY <1>1, <2>1, <2>2, <2>3 DEF Possible, StoreInv
<1>3. ASSUME NEW s \in Slots, Forget(s)
      PROVE  \E new : Possible(new) /\ Changed(new)
  <2> DEFINE new == [store EXCEPT ![s] = None]
  <2>1. \A t \in Entries : new[t] = IF t = s THEN None ELSE store[t]
    BY <1>1
  <2>2. new \in [Entries -> None..clock+1]
    BY <1>1
  <2>3. kind \notin Trees /\ Changed(new)
    BY <1>3 DEF Forget
  <2> HIDE DEF new
  <2> QED
    BY <1>1, <2>1, <2>2, <2>3 DEF Possible, StoreInv
<1>4. ASSUME NEW e \in Entries, Written(e)
      PROVE  \E new : Possible(new) /\ Changed(new)
  <2>1. kind \in Trees /\ store[Home[e]] # None /\ Home[e] \in Dirs
    BY <1>4 DEF Written
  <2>2. PICK made \in 1..clock+1, renewed \in {store[Home[e]], clock + 1} :
          Changed([store EXCEPT ![e] = made, ![Home[e]] = renewed])
    BY <1>4 DEF Written
  <2> DEFINE new == [store EXCEPT ![e] = made, ![Home[e]] = renewed]
  <2>3. made \in 1..clock+1 /\ renewed \in 1..clock+1
    BY <1>1, <2>1
  <2>4. new \in [Entries -> None..clock+1]
    BY <1>1, <2>1, <2>3
  <2>5. \A x \in Entries : new[x] = IF x = Home[e] THEN renewed
                                   ELSE IF x = e THEN made ELSE store[x]
    BY <1>1, <2>1
  <2>6. Changed(new)
    BY <2>2
  <2> HIDE DEF new
  <2>7. ASSUME NEW x \in Entries, new[x] # None
        PROVE  new[Home[x]] # None
    <3>1. Home[x] \in Entries
      OBVIOUS
    <3>2. CASE x = e \/ x = Home[e]
      <4>1. Home[x] = Home[e] \/ Home[x] = Home[Home[e]]
        BY <3>2
      <4>2. store[Home[Home[e]]] # None
        BY <2>1 DEF StoreInv
      <4> QED
        BY <2>1, <2>3, <2>5, <3>1, <4>1, <4>2
    <3>3. CASE x # e /\ x # Home[e]
      <4>1. store[Home[x]] # None
        BY <2>1, <2>5, <2>7, <3>3 DEF StoreInv
      <4> QED
        BY <2>3, <2>5, <3>1, <4>1
    <3> QED
      BY <3>2, <3>3
  <2> QED
    BY <2>1, <2>4, <2>6, <2>7 DEF Possible
<1>5. ASSUME NEW e \in Entries, Deleted(e)
      PROVE  \E new : Possible(new) /\ Changed(new)
  <2> DEFINE new == [store EXCEPT ![e] = None, ![Home[e]] = clock + 1]
  <2>1. kind \in Trees /\ Home[e] \in Dirs /\ e # Top /\ Changed(new)
    BY <1>5 DEF Deleted
  <2>2. new \in [Entries -> None..clock+1]
    BY <1>1, <2>1
  <2>3. \A x \in Entries : new[x] = IF x = Home[e] THEN clock + 1
                                   ELSE IF x = e THEN None ELSE store[x]
    BY <1>1, <2>1
  <2>4. e \in Dirs => \A x \in Entries \ {Top} : Home[x] = e => store[x] = None
    BY <1>5 DEF Deleted, Inside
  <2> HIDE DEF new
  <2>5. ASSUME NEW x \in Entries, new[x] # None
        PROVE  new[Home[x]] # None
    <3>1. Home[x] \in Entries /\ Home[x] \in Dirs
      OBVIOUS
    <3>2. CASE Home[x] = Home[e]
      BY <1>1, <2>3, <3>1, <3>2
    <3>3. CASE Home[x] # Home[e] /\ Home[x] = e
      <4>1. x # Top /\ x # Home[e] /\ x # e
        BY <2>1, <3>1, <3>3
      <4> QED
        BY <2>3, <2>4, <2>5, <3>1, <3>3, <4>1
    <3>4. CASE Home[x] # Home[e] /\ Home[x] # e
      <4>1. store[x] # None
        BY <1>5, <2>1, <2>3, <2>5, <3>4 DEF StoreInv, Deleted
      <4> QED
        BY <2>1, <2>3, <3>1, <3>4, <4>1 DEF StoreInv
    <3> QED
      BY <3>2, <3>3, <3>4
  <2> QED
    BY <2>1, <2>2, <2>5 DEF Possible
<1> QED
  BY <1>2, <1>3, <1>4, <1>5 DEF WorldNext

-----------------------------------------------------------------------------
(* The copy does not lose sight of a file that stays.                       *)

LEMMA HomesAreThere ==
  ASSUME StoreInv, kind \in Trees, NEW s \in Slots, store[s] # None
  PROVE  /\ Home[s] \in Dirs /\ store[Home[s]] # None
         /\ Home[Home[s]] = Top /\ store[Top] # None
<1> USE EntriesAssumption DEF Entries
<1>1. Home[s] \in Dirs /\ store[Home[s]] # None
  BY DEF StoreInv
<1>2. Home[Home[s]] = Top /\ store[Home[Home[s]]] # None
  BY <1>1 DEF StoreInv
<1> QED
  BY <1>1, <1>2

\* Listing the directory it is in, or the one above, puts it or its directory on
\* the list.
LEMMA ListKeeps ==
  ASSUME StoreInv, kind \in Trees, NEW s \in Slots, store[s] # None, Reachable(s),
         NEW d \in Dirs, ListDirectory(d)
  PROVE  Reachable(s)'
<1> USE EntriesAssumption DEF Entries
<1>1. todo' = (todo \ {d}) \cup {e \in Entries \ {Top} : Home[e] = d /\ store[e] # None}
  BY DEF ListDirectory, Inside
<1>2. s # d /\ s # Top
  OBVIOUS
<1>3. CASE d = Home[s]
  BY <1>1, <1>2, <1>3 DEF Reachable
<1>4. CASE d = Top /\ Home[s] # Top
  BY <1>1, <1>4, HomesAreThere DEF Reachable
<1>5. CASE d # Home[s] /\ d # Top
  BY <1>1, <1>2, <1>5 DEF Reachable
<1> QED
  BY <1>3, <1>4, <1>5

\* Nothing that leads to it is passed over.
LEMMA PassKeeps ==
  ASSUME StoreInv, kind \in Trees, NEW s \in Slots, store[s] # None, Reachable(s),
         NEW e \in Entries, PassOver(e)
  PROVE  Reachable(s)'
<1>1. e # s /\ e # Home[s] /\ e # Top
  BY EntriesAssumption, HomesAreThere DEF PassOver, Entries
<1> QED
  BY <1>1 DEF PassOver, Reachable

\* Copying another file is no obstacle.
LEMMA CopyKeeps ==
  ASSUME NEW s \in Slots, Reachable(s), NEW t \in Slots, CopyFile(t), s # t
  PROVE  Reachable(s)'
<1>1. t # Home[s] /\ t # Top
  BY EntriesAssumption DEF Entries
<1> QED
  BY <1>1 DEF CopyFile, Reachable

-----------------------------------------------------------------------------
(* The steps, one action at a time.                                        *)

\* Every step keeps the types.
LEMMA TypeStep == IInv /\ [Next]_vars => TypeOK'
<1> SUFFICES ASSUME IInv, [Next]_vars
             PROVE  TypeOK'
  OBVIOUS
<1> USE TimeAssumption, LatestAssumption, EntriesAssumption
    DEF None, Times, Archives, Trees, Entries, IInv
<1>1. ASSUME NEW new, Possible(new), Changed(new)
      PROVE  TypeOK'
  <2>1. clock + 1 \in Times /\ clock' = clock + 1 /\ clock' \in Start..MaxTime
    BY <1>1 DEF Changed, TypeOK
  <2>2. store' \in [Entries -> Times]
    BY <1>1, <2>1 DEF Changed, Possible
  <2>3. before' \in [Slots -> Times]
    <3>1. \A s \in Slots : new[s] \in Times /\ before[s] \in Times
      BY <1>1, <2>1 DEF Possible, TypeOK
    <3> QED
      BY <1>1, <3>1 DEF Changed
  <2>4. tidy' \in BOOLEAN /\ settled' \in BOOLEAN
    BY <1>1 DEF Changed
  <2>5. /\ UNCHANGED <<kind, selector, selected, pc, todo, opened, newest>>
        /\ UNCHANGED <<reported, created, target, restored, result, age, rpo>>
    BY <1>1 DEF Changed, config, metric, drill
  <2>6. kind' \in Archives \cup Trees
    BY <2>5 DEF TypeOK
  <2> QED
    BY <2>1, <2>2, <2>3, <2>4, <2>5, <2>6 DEF TypeOK
<1>2. ASSUME NEW e \in Entries, PassOver(e)
      PROVE  TypeOK'
  BY <1>2 DEF PassOver, TypeOK, config, metric, world
<1>3. ASSUME NEW e \in Entries, LookAt(e)
      PROVE  TypeOK'
  <2>1. store[e] \in Times
    BY DEF TypeOK
  <2>2. newest' \in Times /\ todo' \subseteq Entries /\ opened' \subseteq Dirs
    BY <1>3, <2>1 DEF LookAt, TypeOK
  <2> QED
    BY <1>3, <2>2 DEF LookAt, config, metric, world, TypeOK
<1>4. ASSUME NEW s \in Slots, CopyFile(s)
      PROVE  TypeOK'
  <2>1. restored' \in [Slots -> Times]
    BY <1>4 DEF CopyFile, world, TypeOK
  <2> QED
    BY <1>4, <2>1 DEF CopyFile, config, metric, world, TypeOK
<1>5. CASE InspectArchive
  <2>1. reported' \in Times /\ created' \in Times
    BY <1>5 DEF InspectArchive, TypeOK
  <2> QED
    BY <1>5, <2>1 DEF InspectArchive, config, metric, TypeOK
<1>6. CASE InspectDirectory
  BY <1>6 DEF InspectDirectory, TypeOK, config, metric, world
<1>7. CASE ReadMetadataFile
  <2>1. created' \in Times
    BY <1>7 DEF ReadMetadataFile, TypeOK
  <2> QED
    BY <1>7, <2>1 DEF ReadMetadataFile, config, metric, world, TypeOK
<1>8. CASE WalkEnds
  BY <1>8 DEF WalkEnds, TypeOK, config, metric, world
<1>9. CASE ResolveAgain
  <2>1. target' \in [slot : Slots \cup {Latest}, id : Times]
    BY <1>9 DEF ResolveAgain, TypeOK
  <2> QED
    BY <1>9, <2>1 DEF ResolveAgain, config, metric, world, TypeOK
<1>10. CASE Extract
  <2>1. restored' \in [Slots -> Times]
    <3>1. target.slot \in Slots /\ store[target.slot] \in Times
      BY <1>10 DEF Extract, FreshInv, TypeOK
    <3> QED
      BY <1>10, <3>1 DEF Extract, TypeOK
  <2> QED
    BY <1>10, <2>1 DEF Extract, config, metric, world, TypeOK
<1>11. ASSUME NEW d \in Dirs, ListDirectory(d)
      PROVE  TypeOK'
  <2>1. todo' \subseteq Entries
    BY <1>11 DEF ListDirectory, Inside, TypeOK
  <2> QED
    BY <1>11, <2>1 DEF ListDirectory, config, metric, world, TypeOK
<1>12. CASE CopyEnds
  BY <1>12 DEF CopyEnds, TypeOK, config, metric, world
<1>13. CASE StepFails
  BY <1>13 DEF StepFails, TypeOK, config, metric, world
<1>14. CASE Report
  <2>1. age' \in Times /\ rpo' \in {"PASS", "FAIL", "UNKNOWN"}
    BY <1>14 DEF Report, Age, TypeOK
  <2> QED
    BY <1>14, <2>1 DEF Report, config, world, TypeOK
<1>15. CASE UNCHANGED vars
  BY <1>15 DEF vars, drill, world, TypeOK, config, metric
<1>16. CASE ListOpened
  <2>1. todo' \subseteq Entries
    BY <1>16 DEF ListOpened, Inside, TypeOK
  <2> QED
    BY <1>16, <2>1 DEF ListOpened, config, metric, world, TypeOK
<1> QED
  BY <1>1, <1>2, <1>3, <1>4, <1>5, <1>6, <1>7, <1>8, <1>9, <1>10, <1>11, <1>12, <1>13,
     <1>14, <1>15, <1>16, WorldStep DEF Next, Terminated, WorldNext

\* Every step goes where its source may be.
LEMMA PcStep == IInv /\ [Next]_vars => PcInv'
<1> SUFFICES ASSUME IInv, [Next]_vars
             PROVE  PcInv'
  OBVIOUS
<1> USE TimeAssumption, LatestAssumption, EntriesAssumption
    DEF None, Times, Archives, Trees, Entries, IInv
<1>1. ASSUME NEW new, Possible(new), Changed(new)
      PROVE  PcInv'
  BY <1>1 DEF Changed, drill, TypeOK, PcInv, config, metric, world
<1>2. ASSUME NEW e \in Entries, PassOver(e)
      PROVE  PcInv'
  BY <1>2 DEF PassOver, TypeOK, PcInv, config, metric, world
<1>3. ASSUME NEW e \in Entries, LookAt(e)
      PROVE  PcInv'
  BY <1>3 DEF LookAt, TypeOK, PcInv, config, metric, world
<1>4. ASSUME NEW s \in Slots, CopyFile(s)
      PROVE  PcInv'
  BY <1>4 DEF CopyFile, TypeOK, PcInv, config, metric, world
<1>5. CASE InspectArchive
  BY <1>5 DEF InspectArchive, TypeOK, PcInv, config, metric, world
<1>6. CASE InspectDirectory
  BY <1>6 DEF InspectDirectory, TypeOK, PcInv, config, metric, world
<1>7. CASE ReadMetadataFile
  BY <1>7 DEF ReadMetadataFile, TypeOK, PcInv, config, metric, world
<1>8. CASE WalkEnds
  BY <1>8 DEF WalkEnds, TypeOK, PcInv, config, metric, world
<1>9. CASE ResolveAgain
  BY <1>9 DEF ResolveAgain, TypeOK, PcInv, config, metric, world
<1>10. CASE Extract
  BY <1>10 DEF Extract, TypeOK, PcInv, config, metric, world
<1>11. ASSUME NEW d \in Dirs, ListDirectory(d)
      PROVE  PcInv'
  BY <1>11 DEF ListDirectory, TypeOK, PcInv, config, metric, world
<1>12. CASE CopyEnds
  BY <1>12 DEF CopyEnds, TypeOK, PcInv, config, metric, world
<1>13. CASE StepFails
  BY <1>13 DEF StepFails, TypeOK, PcInv, config, metric, world
<1>14. CASE Report
  BY <1>14 DEF Report, TypeOK, PcInv, config, metric, world
<1>15. CASE UNCHANGED vars
  BY <1>15 DEF vars, drill, world, TypeOK, PcInv, config, metric
<1>16. CASE ListOpened
  BY <1>16 DEF ListOpened, TypeOK, PcInv, config, metric, world
<1> QED
  BY <1>1, <1>2, <1>3, <1>4, <1>5, <1>6, <1>7, <1>8, <1>9, <1>10, <1>11, <1>12, <1>13,
     <1>14, <1>15, <1>16, WorldStep DEF Next, Terminated, WorldNext

\* The clock only goes forward, and the store stays well formed.
LEMMA StoreStep == IInv /\ [Next]_vars => StoreInv'
<1> SUFFICES ASSUME IInv, [Next]_vars
             PROVE  StoreInv'
  OBVIOUS
<1> USE TimeAssumption, LatestAssumption, EntriesAssumption
    DEF None, Times, Archives, Trees, Entries, IInv
<1>1. ASSUME NEW new, Possible(new), Changed(new)
      PROVE  StoreInv'
  <2>1. /\ clock \in Nat /\ clock' = clock + 1 /\ store' = new /\ kind' = kind
        /\ \A e \in Entries : new[e] \in 0..clock+1
    BY <1>1 DEF Changed, Possible, TypeOK, config
  <2>2. \A s \in Slots : before'[s] <= new[s]
    <3>1. \A s \in Slots : new[s] \in Nat /\ before[s] \in Nat
      BY <2>1 DEF TypeOK
    <3>2. \A s \in Slots : before'[s] = IF new[s] < before[s] THEN new[s] ELSE before[s]
      BY <1>1 DEF Changed
    <3> QED
      BY <3>1, <3>2
  <2> QED
    BY <1>1, <2>1, <2>2 DEF StoreInv, Possible
<1>2. ASSUME NEW e \in Entries, PassOver(e)
      PROVE  StoreInv'
  BY <1>2 DEF PassOver, TypeOK, StoreInv, config, metric, world
<1>3. ASSUME NEW e \in Entries, LookAt(e)
      PROVE  StoreInv'
  BY <1>3 DEF LookAt, TypeOK, StoreInv, config, metric, world
<1>4. ASSUME NEW s \in Slots, CopyFile(s)
      PROVE  StoreInv'
  BY <1>4 DEF CopyFile, TypeOK, StoreInv, config, metric, world
<1>5. CASE InspectArchive
  BY <1>5 DEF InspectArchive, TypeOK, StoreInv, config, metric, world
<1>6. CASE InspectDirectory
  BY <1>6 DEF InspectDirectory, TypeOK, StoreInv, config, metric, world
<1>7. CASE ReadMetadataFile
  BY <1>7 DEF ReadMetadataFile, TypeOK, StoreInv, config, metric, world
<1>8. CASE WalkEnds
  BY <1>8 DEF WalkEnds, TypeOK, StoreInv, config, metric, world
<1>9. CASE ResolveAgain
  BY <1>9 DEF ResolveAgain, TypeOK, StoreInv, config, metric, world
<1>10. CASE Extract
  BY <1>10 DEF Extract, TypeOK, StoreInv, config, metric, world
<1>11. ASSUME NEW d \in Dirs, ListDirectory(d)
      PROVE  StoreInv'
  BY <1>11 DEF ListDirectory, TypeOK, StoreInv, config, metric, world
<1>12. CASE CopyEnds
  BY <1>12 DEF CopyEnds, TypeOK, StoreInv, config, metric, world
<1>13. CASE StepFails
  BY <1>13 DEF StepFails, TypeOK, StoreInv, config, metric, world
<1>14. CASE Report
  BY <1>14 DEF Report, TypeOK, StoreInv, config, metric, world
<1>15. CASE UNCHANGED vars
  BY <1>15 DEF vars, drill, world, TypeOK, StoreInv, config, metric
<1>16. CASE ListOpened
  BY <1>16 DEF ListOpened, TypeOK, StoreInv, config, metric, world
<1> QED
  BY <1>1, <1>2, <1>3, <1>4, <1>5, <1>6, <1>7, <1>8, <1>9, <1>10, <1>11, <1>12, <1>13,
     <1>14, <1>15, <1>16, WorldStep DEF Next, Terminated, WorldNext

\* What inspect() resolved is what restore() extracts, unless the store has changed.
LEMMA NamesStep == IInv /\ [Next]_vars => NamesInv'
<1> SUFFICES ASSUME IInv, [Next]_vars
             PROVE  NamesInv'
  OBVIOUS
<1> USE TimeAssumption, LatestAssumption, EntriesAssumption
    DEF None, Times, Archives, Trees, Entries, IInv
<1>1. ASSUME NEW new, Possible(new), Changed(new)
      PROVE  NamesInv'
  BY <1>1 DEF Changed, drill, TypeOK, PcInv, StoreInv, NamesInv, Resolves, config,
     metric, world
<1>2. ASSUME NEW e \in Entries, PassOver(e)
      PROVE  NamesInv'
  BY <1>2 DEF PassOver, TypeOK, PcInv, StoreInv, NamesInv, Resolves, config, metric,
     world
<1>3. ASSUME NEW e \in Entries, LookAt(e)
      PROVE  NamesInv'
  BY <1>3 DEF LookAt, TypeOK, PcInv, StoreInv, NamesInv, Resolves, config, metric,
     world
<1>4. ASSUME NEW s \in Slots, CopyFile(s)
      PROVE  NamesInv'
  BY <1>4 DEF CopyFile, TypeOK, PcInv, StoreInv, NamesInv, Resolves, config, metric,
     world
<1>5. CASE InspectArchive
  BY <1>5 DEF InspectArchive, TypeOK, PcInv, StoreInv, NamesInv, Resolves, config,
     metric, world
<1>6. CASE InspectDirectory
  BY <1>6 DEF InspectDirectory, TypeOK, PcInv, StoreInv, NamesInv, Resolves, config,
     metric, world
<1>7. CASE ReadMetadataFile
  BY <1>7 DEF ReadMetadataFile, TypeOK, PcInv, StoreInv, NamesInv, Resolves, config,
     metric, world
<1>8. CASE WalkEnds
  BY <1>8 DEF WalkEnds, TypeOK, PcInv, StoreInv, NamesInv, Resolves, config, metric,
     world
<1>9. CASE ResolveAgain
  <2>1. PICK s \in Slots : Resolves(s) /\ target' = [slot |-> s, id |-> store[s]]
    BY <1>9 DEF ResolveAgain
  <2>2. target'.slot = s /\ target'.id = store[s] /\ pc = "resolve" /\ pc' = "extract"
    BY <1>9, <2>1 DEF ResolveAgain
  <2>3. \A t \in Slots : store[t] \in Nat
    BY DEF TypeOK
  <2>4. kind \in Archives /\ result = "none" /\ result' = result
    BY <1>9 DEF TypeOK, PcInv, ResolveAgain
  <2>5. ASSUME settled
        PROVE  store[s] = reported
    <3>1. PICK t \in Slots : Resolves(t) /\ store[t] = reported
      BY <2>2, <2>4, <2>5 DEF NamesInv
    <3>2. store[s] = store[t]
      BY <2>1, <2>3, <3>1 DEF Resolves
    <3> QED
      BY <3>1, <3>2
  <2>6. kind = "restic" /\ selector # Latest => store[s] = selected
    BY <2>1 DEF Resolves
  <2> QED
    BY <1>9, <2>2, <2>4, <2>5, <2>6 DEF ResolveAgain, config, world, NamesInv
<1>10. CASE Extract
  BY <1>10 DEF Extract, TypeOK, PcInv, StoreInv, NamesInv, Resolves, config, metric,
     world
<1>11. ASSUME NEW d \in Dirs, ListDirectory(d)
      PROVE  NamesInv'
  BY <1>11 DEF ListDirectory, TypeOK, PcInv, StoreInv, NamesInv, Resolves, config,
     metric, world
<1>12. CASE CopyEnds
  BY <1>12 DEF CopyEnds, TypeOK, PcInv, StoreInv, NamesInv, Resolves, config, metric,
     world
<1>13. CASE StepFails
  BY <1>13 DEF StepFails, TypeOK, PcInv, StoreInv, NamesInv, Resolves, config,
     metric, world
<1>14. CASE Report
  BY <1>14 DEF Report, TypeOK, PcInv, StoreInv, NamesInv, Resolves, config, metric,
     world
<1>15. CASE UNCHANGED vars
  BY <1>15 DEF vars, drill, world, TypeOK, PcInv, StoreInv, NamesInv, Resolves,
     config, metric
<1>16. CASE ListOpened
  BY <1>16 DEF ListOpened, TypeOK, PcInv, StoreInv, NamesInv, Resolves, config,
     metric, world
<1> QED
  BY <1>1, <1>2, <1>3, <1>4, <1>5, <1>6, <1>7, <1>8, <1>9, <1>10, <1>11, <1>12, <1>13,
     <1>14, <1>15, <1>16, WorldStep DEF Next, Terminated, WorldNext

\* Neither the look-up nor the copy goes back behind the start.
LEMMA FreshStep == IInv /\ [Next]_vars => FreshInv'
<1> SUFFICES ASSUME IInv, [Next]_vars
             PROVE  FreshInv'
  OBVIOUS
<1> USE TimeAssumption, LatestAssumption, EntriesAssumption
    DEF None, Times, Archives, Trees, Entries, IInv
<1>1. ASSUME NEW new, Possible(new), Changed(new)
      PROVE  FreshInv'
  <2>1. /\ clock \in Nat /\ clock' = clock + 1 /\ store' = new /\ target.id \in Nat
        /\ \A t \in Slots : /\ store[t] \in Nat /\ store[t] <= clock
                            /\ new[t] \in Nat /\ before[t] \in Nat /\ restored[t] \in Nat
    BY <1>1 DEF Changed, Possible, TypeOK, StoreInv
  <2>2. \A t \in Slots : before'[t] \in Nat /\ before'[t] <= before[t]
    <3>1. \A t \in Slots : before'[t] = IF new[t] < before[t] THEN new[t] ELSE before[t]
      BY <1>1 DEF Changed
    <3> QED
      BY <2>1, <3>1
  <2>3. UNCHANGED <<kind, selector, pc, todo, target, restored, result>>
    BY <1>1 DEF Changed, config, drill
  <2>4. (pc = "extract" =>
           /\ target.slot \in Slots /\ target.id <= clock
           /\ selector = Latest => \A s \in Slots : before[s] <= target.id
           /\ store[target.slot] = None \/ target.id <= store[target.slot])'
    <3> SUFFICES ASSUME pc = "extract"
                 PROVE  /\ target.slot \in Slots /\ target.id <= clock'
                        /\ selector = Latest => \A s \in Slots : before'[s] <= target.id
                        /\ new[target.slot] = 0 \/ target.id <= new[target.slot]
      BY <2>1, <2>3
    <3>1. kind \in Archives /\ target.slot \in Slots /\ target.id <= clock
      BY DEF PcInv, TypeOK, FreshInv
    <3>2. \/ new[target.slot] \in {store[target.slot], 0}
          \/ new[target.slot] = clock + 1
      BY <1>1, <3>1 DEF Possible
    <3>3. store[target.slot] = 0 \/ target.id <= store[target.slot]
      BY DEF FreshInv
    <3>4. selector = Latest => \A s \in Slots : before'[s] <= target.id
      BY <2>1, <2>2 DEF FreshInv
    <3> QED
      BY <2>1, <3>1, <3>2, <3>3, <3>4
  <2>5. (pc = "copy" => \A s \in Slots : before[s] <= restored[s] \/ Reachable(s))'
    BY <2>1, <2>2, <2>3 DEF FreshInv, Reachable
  <2>6. (result = "ok" =>
           /\ kind \in Trees => \A s \in Slots : before[s] <= restored[s]
           /\ kind \in Archives /\ selector = Latest =>
                \A s \in Slots : \E t \in Slots : before[s] <= restored[t])'
    BY <2>1, <2>2, <2>3 DEF FreshInv
  <2> QED
    BY <2>4, <2>5, <2>6 DEF FreshInv
<1>2. ASSUME NEW e \in Entries, PassOver(e)
      PROVE  FreshInv'
  <2>1. /\ pc = "copy" /\ result = "none"
        /\ UNCHANGED <<before, restored, pc, result>>
    BY <1>2 DEF PassOver, PcInv, world
  <2>2. kind \in Trees
    BY <2>1 DEF PcInv, TypeOK
  <2>3. ASSUME NEW s \in Slots
        PROVE  before[s] <= restored[s] \/ Reachable(s)'
    <3>1. CASE store[s] = None
      BY <3>1 DEF StoreInv, TypeOK
    <3>2. CASE store[s] # None
      BY <1>2, <2>1, <2>2, <3>2, PassKeeps DEF FreshInv
    <3> QED
      BY <3>1, <3>2
  <2> QED
    BY <2>1, <2>3 DEF FreshInv
<1>3. ASSUME NEW e \in Entries, LookAt(e)
      PROVE  FreshInv'
  BY <1>3 DEF LookAt, TypeOK, PcInv, StoreInv, FreshInv, Resolves, Reachable, config,
     metric, world
<1>4. ASSUME NEW s \in Slots, CopyFile(s)
      PROVE  FreshInv'
  <2>1. \A t \in Slots : restored'[t] = IF t = s THEN store[s] ELSE restored[t]
    BY <1>4 DEF CopyFile, TypeOK
  <2>2. before[s] <= store[s]
    BY DEF StoreInv
  <2>3. /\ pc = "copy" /\ result = "none"
        /\ UNCHANGED <<before, pc, result>>
    BY <1>4 DEF CopyFile, PcInv, world
  <2>4. ASSUME NEW t \in Slots
        PROVE  before[t] <= restored'[t] \/ Reachable(t)'
    BY <1>4, <2>1, <2>2, <2>3, CopyKeeps DEF FreshInv
  <2> QED
    BY <2>3, <2>4 DEF FreshInv
<1>5. CASE InspectArchive
  BY <1>5 DEF InspectArchive, TypeOK, PcInv, StoreInv, FreshInv, Resolves, Reachable,
     config, metric, world
<1>6. CASE InspectDirectory
  BY <1>6 DEF InspectDirectory, TypeOK, PcInv, StoreInv, FreshInv, Resolves,
     Reachable, config, metric, world
<1>7. CASE ReadMetadataFile
  BY <1>7 DEF ReadMetadataFile, PcInv, FreshInv, Reachable, config, world
<1>8. CASE WalkEnds
  BY <1>8 DEF WalkEnds, PcInv, FreshInv, Reachable, config, world
<1>9. CASE ResolveAgain
  <2>1. PICK s \in Slots : Resolves(s) /\ target' = [slot |-> s, id |-> store[s]]
    BY <1>9 DEF ResolveAgain
  <2>2. target'.slot = s /\ target'.id = store[s] /\ pc = "resolve" /\ pc' = "extract"
    BY <1>9, <2>1 DEF ResolveAgain
  <2>3. \A t \in Slots : /\ store[t] \in Nat /\ before[t] \in Nat
                         /\ before[t] <= store[t] /\ store[t] <= clock
    BY DEF TypeOK, StoreInv
  <2>4. selector = Latest => \A t \in Slots : before[t] <= store[s]
    BY <2>1, <2>3 DEF Resolves
  <2> QED
    BY <1>9, <2>2, <2>3, <2>4 DEF ResolveAgain, config, world, FreshInv, PcInv
<1>10. CASE Extract
  <2>1. target.slot \in Slots /\ pc = "extract" /\ pc' = "report"
    BY <1>10 DEF Extract, FreshInv
  <2>2. restored'[target.slot] = store[target.slot]
    BY <1>10, <2>1 DEF Extract, TypeOK
  <2>3. target.id <= store[target.slot]
    BY <1>10, <2>1 DEF Extract, FreshInv
  <2>4. selector = Latest => \A t \in Slots : before[t] <= store[target.slot]
    <3>1. /\ target.id \in Nat
          /\ \A t \in Slots : before[t] \in Nat /\ store[t] \in Nat
      BY DEF TypeOK
    <3> QED
      BY <2>1, <2>3, <3>1 DEF FreshInv
  <2>5. kind \notin Trees
    BY <2>1 DEF PcInv
  <2> QED
    BY <1>10, <2>1, <2>2, <2>4, <2>5 DEF Extract, config, world, FreshInv
<1>11. ASSUME NEW d \in Dirs, ListDirectory(d)
      PROVE  FreshInv'
  <2>1. /\ pc = "copy" /\ result = "none"
        /\ UNCHANGED <<before, restored, pc, result>>
    BY <1>11 DEF ListDirectory, PcInv, world
  <2>2. kind \in Trees
    BY <2>1 DEF PcInv, TypeOK
  <2>3. ASSUME NEW s \in Slots
        PROVE  before[s] <= restored[s] \/ Reachable(s)'
    <3>1. CASE store[s] = None
      BY <3>1 DEF StoreInv, TypeOK
    <3>2. CASE store[s] # None
      BY <1>11, <2>1, <2>2, <3>2, ListKeeps DEF FreshInv
    <3> QED
      BY <3>1, <3>2
  <2> QED
    BY <2>1, <2>3 DEF FreshInv
<1>12. CASE CopyEnds
  <2>1. /\ pc = "copy" /\ todo = {} /\ pc' = "report"
        /\ UNCHANGED <<kind, before, restored>>
    BY <1>12 DEF CopyEnds, config, world
  <2>2. kind \notin Archives
    BY <2>1 DEF PcInv
  <2>3. \A s \in Slots : before[s] <= restored[s]
    BY <2>1 DEF FreshInv, Reachable
  <2> QED
    BY <2>1, <2>2, <2>3 DEF FreshInv
<1>13. CASE StepFails
  BY <1>13 DEF StepFails, TypeOK, PcInv, StoreInv, FreshInv, Resolves, Reachable,
     config, metric, world
<1>14. CASE Report
  BY <1>14 DEF Report, TypeOK, PcInv, StoreInv, FreshInv, Resolves, Reachable,
     config, metric, world
<1>15. CASE UNCHANGED vars
  BY <1>15 DEF vars, drill, world, TypeOK, PcInv, StoreInv, FreshInv, Resolves,
     Reachable, config, metric
<1>16. CASE ListOpened
  BY <1>16 DEF ListOpened, TypeOK, PcInv, StoreInv, FreshInv, Resolves, Reachable,
     config, metric, world
<1> QED
  BY <1>1, <1>2, <1>3, <1>4, <1>5, <1>6, <1>7, <1>8, <1>9, <1>10, <1>11, <1>12, <1>13,
     <1>14, <1>15, <1>16, WorldStep DEF Next, Terminated, WorldNext

\* The timestamp stays covered by something in the store until that is restored.
LEMMA EarnedStep == IInv /\ [Next]_vars => EarnedInv'
<1> SUFFICES ASSUME IInv, [Next]_vars
             PROVE  EarnedInv'
  OBVIOUS
<1> USE TimeAssumption, LatestAssumption, EntriesAssumption
    DEF None, Times, Archives, Trees, Entries, IInv
<1>1. ASSUME NEW new, Possible(new), Changed(new)
      PROVE  EarnedInv'
  <2>1. /\ store' = new
        /\ UNCHANGED <<kind, selector, selected, pc, todo, newest, created, target>>
        /\ UNCHANGED <<restored, result>>
    BY <1>1 DEF Changed, config, drill
  <2> SUFFICES ASSUME tidy'
               PROVE  EarnedInv'
    BY DEF EarnedInv
  <2>2. tidy /\ FilesAreNewest(new) /\ \A s \in Slots : store[s] <= new[s]
    BY <1>1 DEF Changed
  <2>3. /\ newest \in Nat /\ created \in Nat /\ target.id \in Nat
        /\ \A s \in Slots : store[s] \in Nat /\ new[s] \in Nat /\ restored[s] \in Nat
    BY <1>1 DEF TypeOK, Possible
  <2>4. FilesAreNewest(store)'
    BY <2>1, <2>2 DEF FilesAreNewest
  <2>5. (kind \in Archives /\ selector # Latest => store[selector] = selected /\ selected # None)'
    <3> SUFFICES ASSUME kind \in Archives, selector # Latest
                 PROVE  new[selector] = selected /\ selected # 0
      BY <2>1
    <3>1. store[selector] = selected /\ selected # 0 /\ selector \in Slots
      BY <2>2 DEF EarnedInv, TypeOK
    <3>2. new[selector] \in {store[selector], 0}
      BY <1>1, <3>1 DEF Possible
    <3> QED
      BY <2>2, <2>3, <3>1, <3>2
  <2>6. (pc = "walk" => \E t \in Slots : newest <= store[t])'
    BY <2>1, <2>2, <2>3 DEF EarnedInv
  <2>7. (pc = "resolve" =>
            /\ \E t \in Slots : created <= store[t]
            /\ selector # Latest => created <= selected)'
    BY <2>1, <2>2, <2>3 DEF EarnedInv
  <2>8. (pc = "extract" =>
            /\ target.slot \in Slots /\ created <= target.id
            /\ target.id <= store[target.slot])'
    BY <2>1, <2>2, <2>3 DEF EarnedInv
  <2>9. (pc = "copy" /\ kind = "local" /\ created # None =>
            \E t \in Slots : /\ created <= store[t]
                             /\ Reachable(t) \/ created <= restored[t])'
    BY <2>1, <2>2, <2>3 DEF EarnedInv, Reachable
  <2>10. (result = "ok" /\ kind # "declared" /\ created # None =>
            \E t \in Slots : created <= restored[t])'
    BY <2>1, <2>2 DEF EarnedInv
  <2> QED
    BY <2>4, <2>5, <2>6, <2>7, <2>8, <2>9, <2>10 DEF EarnedInv
<1>2. ASSUME NEW e \in Entries, PassOver(e)
      PROVE  EarnedInv'
  <2>1. /\ pc = "copy" /\ result = "none"
        /\ UNCHANGED <<kind, selector, selected, store, tidy, created, restored, pc, result>>
    BY <1>2 DEF PassOver, PcInv, world, config
  <2>2. kind \in Trees
    BY <2>1 DEF PcInv, TypeOK
  <2>3. ASSUME tidy, kind = "local", created # None
        PROVE  \E s \in Slots : /\ created <= store[s]
                                /\ Reachable(s)' \/ created <= restored[s]
    <3>1. PICK s \in Slots : /\ created <= store[s]
                             /\ Reachable(s) \/ created <= restored[s]
      BY <2>1, <2>3 DEF EarnedInv
    <3>2. store[s] # None
      <4>1. created \in Nat /\ store[s] \in Nat
        BY DEF TypeOK
      <4> QED
        BY <2>3, <3>1, <4>1
    <3>3. Reachable(s) => Reachable(s)'
      BY <1>2, <2>2, <3>2, PassKeeps
    <3> QED
      BY <3>1, <3>3
  <2>4. tidy' => FilesAreNewest(store)'
    BY <2>1 DEF EarnedInv, FilesAreNewest
  <2> QED
    BY <2>1, <2>2, <2>3, <2>4 DEF EarnedInv
<1>3. ASSUME NEW e \in Entries, LookAt(e)
      PROVE  EarnedInv'
  <2>1. \A t \in Entries : store[t] \in Nat
    BY DEF TypeOK
  <2>2. newest \in Nat /\ newest' = IF store[e] > newest THEN store[e] ELSE newest
    BY <1>3 DEF LookAt, TypeOK
  <2>3. pc = "walk" /\ pc' = "walk" /\ result = "none"
    BY <1>3 DEF LookAt, PcInv
  <2>4. tidy => \E t \in Slots : newest' <= store[t]
    BY <2>1, <2>2, <2>3 DEF EarnedInv, FilesAreNewest
  <2>5. UNCHANGED <<kind, selector, selected, store, tidy, result>>
    BY <1>3 DEF LookAt, config, world
  <2>6. tidy' => FilesAreNewest(store)'
    BY <2>5 DEF EarnedInv, FilesAreNewest
  <2> QED
    BY <2>3, <2>4, <2>5, <2>6 DEF EarnedInv
<1>4. ASSUME NEW s \in Slots, CopyFile(s)
      PROVE  EarnedInv'
  <2>1. \A t \in Slots : restored'[t] = IF t = s THEN store[s] ELSE restored[t]
    BY <1>4 DEF CopyFile, TypeOK
  <2>2. /\ pc = "copy" /\ result = "none"
        /\ UNCHANGED <<kind, selector, selected, store, tidy, created, pc, result>>
    BY <1>4 DEF CopyFile, PcInv, world, config
  <2>3. ASSUME tidy, kind = "local", created # None
        PROVE  \E t \in Slots : /\ created <= store[t]
                                /\ Reachable(t)' \/ created <= restored'[t]
    <3>1. PICK t \in Slots : /\ created <= store[t]
                             /\ Reachable(t) \/ created <= restored[t]
      BY <2>2, <2>3 DEF EarnedInv
    <3>2. CASE t = s
      BY <2>1, <3>1, <3>2
    <3>3. CASE t # s
      BY <1>4, <2>1, <3>1, <3>3, CopyKeeps
    <3> QED
      BY <3>2, <3>3
  <2>4. tidy' => FilesAreNewest(store)'
    BY <2>2 DEF EarnedInv, FilesAreNewest
  <2> QED
    BY <2>2, <2>3, <2>4 DEF EarnedInv
<1>5. CASE InspectArchive
  <2>1. PICK s \in Slots : Resolves(s) /\ created' \in {store[s], 0}
    BY <1>5 DEF InspectArchive
  <2>2. /\ pc = "inspect" /\ pc' = "resolve" /\ result = "none" /\ kind \in Archives
        /\ UNCHANGED <<kind, selector, selected, store, tidy, result>>
    BY <1>5 DEF InspectArchive, PcInv, config
  <2>3. selected \in Nat /\ store[s] \in Nat
    BY DEF TypeOK
  <2>4. \E t \in Slots : created' <= store[t]
    BY <2>1, <2>3
  <2>5. tidy /\ selector # Latest => created' <= selected
    BY <2>1, <2>2, <2>3 DEF Resolves, EarnedInv
  <2>6. tidy' => FilesAreNewest(store)'
    BY <2>2 DEF EarnedInv, FilesAreNewest
  <2> QED
    BY <2>2, <2>4, <2>5, <2>6 DEF EarnedInv
<1>6. CASE InspectDirectory
  <2>1. /\ pc = "inspect" /\ pc' = "walk" /\ result = "none" /\ newest' = newest
        /\ UNCHANGED <<kind, selector, selected, store, tidy, result>>
    BY <1>6 DEF InspectDirectory, PcInv, config, world
  <2>2. newest = None
    BY <2>1 DEF PcInv
  <2>3. tidy' => FilesAreNewest(store)'
    BY <2>1 DEF EarnedInv, FilesAreNewest
  <2>4. tidy => \E s \in Slots : newest <= store[s]
    <3>1. Top \in Entries /\ \A s \in Slots : store[s] \in Nat
      BY DEF TypeOK
    <3> QED
      BY <2>2, <3>1 DEF FilesAreNewest, EarnedInv
  <2> QED
    BY <2>1, <2>3, <2>4 DEF EarnedInv
<1>7. CASE ReadMetadataFile
  BY <1>7 DEF ReadMetadataFile, TypeOK, PcInv, EarnedInv, FilesAreNewest, Reachable,
     config, metric, world
<1>8. CASE WalkEnds
  <2>1. /\ pc = "walk" /\ pc' = "copy" /\ result = "none" /\ created' = newest
        /\ todo' = {Top}
        /\ UNCHANGED <<kind, selector, selected, store, tidy, result>>
    BY <1>8 DEF WalkEnds, PcInv, config, world
  <2>2. tidy' => FilesAreNewest(store)'
    BY <2>1 DEF EarnedInv, FilesAreNewest
  <2>3. \A s \in Slots : Reachable(s)'
    BY <2>1 DEF Reachable
  <2>4. tidy => \E s \in Slots : newest <= store[s]
    BY <2>1 DEF EarnedInv
  <2> QED
    BY <2>1, <2>2, <2>3, <2>4 DEF EarnedInv
<1>9. CASE ResolveAgain
  <2>1. PICK s \in Slots : Resolves(s) /\ target' = [slot |-> s, id |-> store[s]]
    BY <1>9 DEF ResolveAgain
  <2>2. target'.slot = s /\ target'.id = store[s]
    BY <2>1
  <2>3. /\ pc = "resolve" /\ pc' = "extract" /\ result = "none" /\ kind \in Archives
        /\ UNCHANGED <<kind, selector, selected, store, tidy, created, result>>
    BY <1>9 DEF ResolveAgain, TypeOK, PcInv, world, config
  <2>4. /\ created \in Nat /\ selected \in Nat
        /\ \A t \in Slots : store[t] \in Nat
    BY DEF TypeOK
  <2>5. tidy => created <= store[s]
    <3>1. CASE selector = Latest
      BY <2>1, <2>3, <2>4, <3>1 DEF Resolves, EarnedInv
    <3>2. CASE selector # Latest
      BY <2>1, <2>3, <2>4, <3>2 DEF Resolves, EarnedInv
    <3> QED
      BY <3>1, <3>2
  <2>6. tidy' => FilesAreNewest(store)'
    BY <2>3 DEF EarnedInv, FilesAreNewest
  <2>7. target'.id <= store[target'.slot]
    BY <2>2, <2>4
  <2> QED
    BY <2>2, <2>3, <2>5, <2>6, <2>7 DEF EarnedInv
<1>10. CASE Extract
  <2>1. /\ pc = "extract" /\ pc' = "report" /\ store[target.slot] # 0
        /\ UNCHANGED <<kind, selector, selected, store, tidy, created>>
    BY <1>10 DEF Extract, world, config
  <2>2. tidy => /\ target.slot \in Slots
                /\ restored'[target.slot] = store[target.slot]
    BY <1>10, <2>1 DEF Extract, TypeOK, EarnedInv
  <2>3. tidy => created <= store[target.slot]
    <3>1. /\ created \in Nat /\ target.id \in Nat
          /\ \A t \in Slots : store[t] \in Nat
      BY DEF TypeOK
    <3> QED
      BY <2>1, <3>1 DEF EarnedInv
  <2>4. tidy' => FilesAreNewest(store)'
    BY <2>1 DEF EarnedInv, FilesAreNewest
  <2> QED
    BY <2>1, <2>2, <2>3, <2>4 DEF EarnedInv
<1>11. ASSUME NEW d \in Dirs, ListDirectory(d)
      PROVE  EarnedInv'
  <2>1. /\ pc = "copy" /\ result = "none"
        /\ UNCHANGED <<kind, selector, selected, store, tidy, created, restored, pc, result>>
    BY <1>11 DEF ListDirectory, PcInv, world, config
  <2>2. kind \in Trees
    BY <2>1 DEF PcInv, TypeOK
  <2>3. ASSUME tidy, kind = "local", created # None
        PROVE  \E s \in Slots : /\ created <= store[s]
                                /\ Reachable(s)' \/ created <= restored[s]
    <3>1. PICK s \in Slots : /\ created <= store[s]
                             /\ Reachable(s) \/ created <= restored[s]
      BY <2>1, <2>3 DEF EarnedInv
    <3>2. store[s] # None
      <4>1. created \in Nat /\ store[s] \in Nat
        BY DEF TypeOK
      <4> QED
        BY <2>3, <3>1, <4>1
    <3>3. Reachable(s) => Reachable(s)'
      BY <1>11, <2>2, <3>2, ListKeeps
    <3> QED
      BY <3>1, <3>3
  <2>4. tidy' => FilesAreNewest(store)'
    BY <2>1 DEF EarnedInv, FilesAreNewest
  <2> QED
    BY <2>1, <2>2, <2>3, <2>4 DEF EarnedInv
<1>12. CASE CopyEnds
  <2>1. /\ pc = "copy" /\ todo = {} /\ pc' = "report"
        /\ UNCHANGED <<kind, selector, selected, store, tidy, created, restored>>
    BY <1>12 DEF CopyEnds, world, config
  <2>2. tidy /\ kind = "local" /\ created # None => \E t \in Slots : created <= restored[t]
    BY <2>1 DEF EarnedInv, Reachable
  <2>3. kind \in Trees
    BY <2>1 DEF TypeOK, PcInv
  <2>4. tidy' => FilesAreNewest(store)'
    BY <2>1 DEF EarnedInv, FilesAreNewest
  <2> QED
    BY <2>1, <2>2, <2>3, <2>4 DEF EarnedInv
<1>13. CASE StepFails
  BY <1>13 DEF StepFails, TypeOK, PcInv, EarnedInv, FilesAreNewest, Reachable,
     config, metric, world
<1>14. CASE Report
  BY <1>14 DEF Report, TypeOK, PcInv, EarnedInv, FilesAreNewest, Reachable, config,
     metric, world
<1>15. CASE UNCHANGED vars
  BY <1>15 DEF vars, drill, world, TypeOK, PcInv, EarnedInv, FilesAreNewest,
     Reachable, config, metric
<1>16. CASE ListOpened
  BY <1>16 DEF ListOpened, TypeOK, PcInv, EarnedInv, FilesAreNewest, Reachable,
     config, metric, world
<1> QED
  BY <1>1, <1>2, <1>3, <1>4, <1>5, <1>6, <1>7, <1>8, <1>9, <1>10, <1>11, <1>12, <1>13,
     <1>14, <1>15, <1>16, WorldStep DEF Next, Terminated, WorldNext

\* The objective is compared with the timestamp once.
LEMMA PassStep == IInv /\ [Next]_vars => PassInv'
<1> SUFFICES ASSUME IInv, [Next]_vars
             PROVE  PassInv'
  OBVIOUS
<1> USE TimeAssumption, LatestAssumption, EntriesAssumption
    DEF None, Times, Archives, Trees, Entries, IInv
<1>1. ASSUME NEW new, Possible(new), Changed(new)
      PROVE  PassInv'
  BY <1>1 DEF Changed, drill, TypeOK, PcInv, PassInv, config, metric, world
<1>2. ASSUME NEW e \in Entries, PassOver(e)
      PROVE  PassInv'
  BY <1>2 DEF PassOver, TypeOK, PcInv, PassInv, config, metric, world
<1>3. ASSUME NEW e \in Entries, LookAt(e)
      PROVE  PassInv'
  BY <1>3 DEF LookAt, TypeOK, PcInv, PassInv, config, metric, world
<1>4. ASSUME NEW s \in Slots, CopyFile(s)
      PROVE  PassInv'
  BY <1>4 DEF CopyFile, TypeOK, PcInv, PassInv, config, metric, world
<1>5. CASE InspectArchive
  BY <1>5 DEF InspectArchive, TypeOK, PcInv, PassInv, config, metric, world
<1>6. CASE InspectDirectory
  BY <1>6 DEF InspectDirectory, TypeOK, PcInv, PassInv, config, metric, world
<1>7. CASE ReadMetadataFile
  BY <1>7 DEF ReadMetadataFile, TypeOK, PcInv, PassInv, config, metric, world
<1>8. CASE WalkEnds
  BY <1>8 DEF WalkEnds, TypeOK, PcInv, PassInv, config, metric, world
<1>9. CASE ResolveAgain
  BY <1>9 DEF ResolveAgain, TypeOK, PcInv, PassInv, config, metric, world
<1>10. CASE Extract
  BY <1>10 DEF Extract, TypeOK, PcInv, PassInv, config, metric, world
<1>11. ASSUME NEW d \in Dirs, ListDirectory(d)
      PROVE  PassInv'
  BY <1>11 DEF ListDirectory, TypeOK, PcInv, PassInv, config, metric, world
<1>12. CASE CopyEnds
  BY <1>12 DEF CopyEnds, TypeOK, PcInv, PassInv, config, metric, world
<1>13. CASE StepFails
  BY <1>13 DEF StepFails, TypeOK, PcInv, PassInv, config, metric, world
<1>14. CASE Report
  <2>1. rpo' = "PASS" => created # 0 /\ Age <= Target
    BY <1>14 DEF Report
  <2>2. created \in Nat /\ (Age <= Target => Start - created <= Target)
    BY DEF Age, TypeOK
  <2> QED
    BY <1>14, <2>1, <2>2 DEF Report, PassInv
<1>15. CASE UNCHANGED vars
  BY <1>15 DEF vars, drill, world, TypeOK, PcInv, PassInv, config, metric
<1>16. CASE ListOpened
  BY <1>16 DEF ListOpened, TypeOK, PcInv, PassInv, config, metric, world
<1> QED
  BY <1>1, <1>2, <1>3, <1>4, <1>5, <1>6, <1>7, <1>8, <1>9, <1>10, <1>11, <1>12, <1>13,
     <1>14, <1>15, <1>16, WorldStep DEF Next, Terminated, WorldNext

-----------------------------------------------------------------------------
(* Theorems.                                                               *)

\* The drill and the store, together, keep the inductive invariant.
THEOREM Inductive == Spec => []IInv
<1>1. IInv /\ [Next]_vars => IInv'
  BY TypeStep, PcStep, StoreStep, NamesStep, FreshStep, EarnedStep, PassStep DEF IInv
<1> QED
  BY InitIInv, <1>1, PTL DEF Spec

\* Every variable keeps to its type; the age in the report is never negative.
THEOREM TypeCorrect == Spec => []TypeOK
<1>1. IInv => TypeOK
  BY DEF IInv
<1> QED
  BY Inductive, <1>1, PTL

\* The snapshot in the report is the one that inspect() and restore() both found,
\* when the store has not changed between them or the selector is an identifier.
THEOREM NamesCorrect == Spec => []NamesWhatWasRestored
<1>1. IInv => NamesWhatWasRestored
  BY DEF IInv, NamesInv, NamesWhatWasRestored, Restored
<1> QED
  BY Inductive, <1>1, PTL

\* `latest` and a directory never restore what was out of date at the start.
THEOREM FreshCorrect == Spec => []NothingStaleIsRestored
<1>1. IInv => NothingStaleIsRestored
  BY DEF IInv, FreshInv, NothingStaleIsRestored, Restored
<1> QED
  BY Inductive, <1>1, PTL

\* While no file goes or ages and a file is the newest entry, RPO_PASS is backed by
\* something that was restored, whatever the walk and the copy come across.
THEOREM EarnedCorrect == Spec => []RpoPassIsEarned
<1>1. IInv => RpoPassIsEarned
  <2> SUFFICES ASSUME IInv, Restored, rpo = "PASS", tidy, kind # "declared"
               PROVE  \E s \in Slots : restored[s] # None /\ Start - restored[s] <= Target
    BY DEF RpoPassIsEarned
  <2>1. created # None /\ Start - created <= Target
    BY DEF IInv, PassInv
  <2>2. PICK s \in Slots : created <= restored[s]
    BY <2>1 DEF IInv, EarnedInv, Restored
  <2>3. created \in Nat /\ restored[s] \in Nat /\ Start \in Nat /\ Target \in Nat
    BY TimeAssumption DEF IInv, TypeOK, Times, None
  <2> QED
    BY <2>1, <2>2, <2>3 DEF None
<1> QED
  BY Inductive, <1>1, PTL

=============================================================================
