------------------------ MODULE ReportWriter_proofs ------------------------
(***************************************************************************)
(* Proofs about ReportWriter, for any number of drills, formats and        *)
(* blocks: a reader never finds half a report, and the directory           *)
(* implements ReportDirectory.                                             *)
(***************************************************************************)
EXTENDS ReportWriter, TLAPS

USE DEF Formats

\* The directory as it is, and as it may be after a power failure.
Dirs == past \cup {dir}

\* The paths of a report lead to its own file, whenever one looks.
OwnInv ==
  \A d \in Dirs : \A r \in Runs, i \in Formats :
    /\ d[Final(r, i)] \in {None, <<r, i>>}
    /\ d[Temporary(r, i)] \in {None, <<r, i>>}

\* What has its name is behind the drill, and is whole on the disk as well.
FinalInv ==
  \A d \in Dirs : \A r \in Runs, i \in Formats :
    d[Final(r, i)] # None =>
      /\ i < format[r]
      /\ data[<<r, i>>] = Whole(r)
      /\ disk[<<r, i>>] = Whole(r)

\* What a drill has written so far, and which file it writes.
WriteInv ==
  \A r \in Runs :
    /\ pc[r] \in {"write", "rename"} => format[r] \in Formats /\ file[r] = <<r, format[r]>>
    /\ power /\ pc[r] = "write" =>
         \A b \in 1..Size : b <= offset[r] => data[file[r]][b] = r
    /\ power /\ pc[r] = "rename" =>
         data[file[r]] = Whole(r) /\ disk[file[r]] = Whole(r)

\* The formats behind a drill have their names, earlier ones first.
OrderInv ==
  /\ \A d \in Dirs : \A r \in Runs : \A i \in 2..F :
       d[Final(r, i)] # None => d[Final(r, i - 1)] # None
  /\ power => \A r \in Runs, i \in Formats : i < format[r] => dir[Final(r, i)] # None
  /\ power => \A d \in past : \A r \in Runs, i \in Formats :
                d[Final(r, i)] # None => dir[Final(r, i)] # None
  /\ \A r \in Runs : pc[r] \in {"emit", "print", "done"} => format[r] = F + 1

IInv == TypeOK /\ OwnInv /\ FinalInv /\ WriteInv /\ OrderInv

-----------------------------------------------------------------------------

\* No two files share a path: this is where the identifier in the stem counts.
LEMMA PathsDiffer ==
  \A r, s \in Runs, i, j \in Formats :
    /\ Final(r, i) \in Paths /\ Temporary(r, i) \in Paths
    /\ Final(r, i) # Temporary(s, j)
    /\ Final(r, i) = Final(s, j) => r = s /\ i = j
    /\ Temporary(r, i) = Temporary(s, j) => r = s /\ i = j
BY ShortIdAssumption DEF Final, Temporary, Stem, Paths

LEMMA WholeIsContents ==
  /\ Empty \in Contents
  /\ \A r \in Runs : Whole(r) \in Contents
BY DEF Empty, Whole, Contents

-----------------------------------------------------------------------------
(* IInv is inductive.                                                      *)

LEMMA InitIInv == Init => IInv
<1> SUFFICES ASSUME Init PROVE IInv  OBVIOUS
<1>1. TypeOK
  BY WholeIsContents, NumberAssumption DEF Init, TypeOK, Files
<1>2. Dirs = {dir} /\ \A p \in Paths : dir[p] = None
  BY DEF Init, Dirs
<1>3. \A r \in Runs, i \in Formats :
        dir[Final(r, i)] = None /\ dir[Temporary(r, i)] = None
  BY <1>2, PathsDiffer
<1>4. OwnInv /\ FinalInv
  BY <1>2, <1>3 DEF OwnInv, FinalInv
<1>5. WriteInv
  BY DEF Init, WriteInv
<1>6. OrderInv
  <2>1. \A i \in 2..F : i \in Formats  BY NumberAssumption
  <2>2. \A r \in Runs : pc[r] = "prepare" /\ format[r] = 1  BY DEF Init
  <2>3. past = {}  BY DEF Init
  <2> QED  BY <1>2, <1>3, <2>1, <2>2, <2>3 DEF OrderInv
<1> QED  BY <1>1, <1>4, <1>5, <1>6 DEF IInv

\* A step that touches no file and begins no write.
LEMMA QuietStep ==
  ASSUME IInv, NEW r \in Runs, NEW l,
         l \in {"prepare", "create", "emit", "print", "done", "failed", "killed"},
         l \in {"emit", "print", "done"} => format[r] = F + 1,
         Goto(r, l), UNCHANGED <<dir, past, data, disk, format, file, power>>,
         output' \in Contents, offset' \in [Runs -> 0..Size],
         \A s \in Runs : pc[s] = "write" => offset'[s] = offset[s]
  PROVE  IInv'
<1> USE DEF IInv, Goto
<1>1. TypeOK'  BY DEF TypeOK
<1>2. Dirs' = Dirs  BY DEF Dirs
<1>3. OwnInv' /\ FinalInv'
  BY <1>2 DEF OwnInv, FinalInv
<1>4. \A s \in Runs : pc'[s] = IF s = r THEN l ELSE pc[s]
  BY DEF TypeOK
<1>5. WriteInv'  BY <1>4 DEF WriteInv
<1>6. OrderInv'  BY <1>2, <1>4 DEF OrderInv
<1> QED  BY <1>1, <1>3, <1>5, <1>6

LEMMA CreateKeeps ==
  ASSUME IInv, power, NEW r \in Runs, Create(r)
  PROVE  IInv'
<1> USE DEF IInv
<1> DEFINE i == format[r]
           path == Temporary(r, i)
           f == <<r, i>>
<1>1. i \in Formats  BY DEF Create, TypeOK
<1>2. (IF dir[path] = None THEN f ELSE dir[path]) = f
  BY <1>1 DEF OwnInv, Dirs
<1>3. /\ file' = [file EXCEPT ![r] = f]
      /\ data' = [data EXCEPT ![f] = Empty]
      /\ dir' = [dir EXCEPT ![path] = f]
      /\ past' = past \cup {dir}
      /\ offset' = [offset EXCEPT ![r] = 0]
      /\ pc' = [pc EXCEPT ![r] = "write"]
      /\ UNCHANGED <<disk, output, format, power>>
  BY <1>2 DEF Create, SetDir, Goto
<1>4. f \in Files /\ path \in Paths
  BY <1>1, PathsDiffer DEF Files
<1>5. TypeOK'
  BY <1>3, <1>4, WholeIsContents, NumberAssumption DEF TypeOK
<1>6. Dirs' = Dirs \cup {dir'}
  BY <1>3 DEF Dirs
<1>7. \A s \in Runs, j \in Formats :
        /\ dir'[Final(s, j)] = dir[Final(s, j)]
        /\ dir'[Temporary(s, j)] \in {dir[Temporary(s, j)], <<s, j>>}
  BY <1>1, <1>3, <1>4, PathsDiffer DEF TypeOK
<1>8. OwnInv'
  BY <1>6, <1>7 DEF OwnInv, Dirs
<1>9. FinalInv'
  <2>1. \A d \in Dirs' : \A s \in Runs, j \in Formats :
          d[Final(s, j)] # None => j < format[s] /\ <<s, j>> # f /\ <<s, j>> \in Files
                                   /\ data[<<s, j>>] = Whole(s) /\ disk[<<s, j>>] = Whole(s)
    BY <1>1, <1>6, <1>7 DEF FinalInv, Dirs, Files
  <2>2. \A g \in Files : g # f => data'[g] = data[g]
    BY <1>3 DEF TypeOK
  <2>3. ASSUME NEW d \in Dirs', NEW s \in Runs, NEW j \in Formats, d[Final(s, j)] # None
        PROVE  j < format'[s] /\ data'[<<s, j>>] = Whole(s) /\ disk'[<<s, j>>] = Whole(s)
    BY <1>3, <2>1, <2>2, <2>3
  <2> QED  BY <2>3 DEF FinalInv
<1>10. WriteInv'
  <2>1. pc'[r] = "write" /\ file'[r] = f /\ offset'[r] = 0
    BY <1>3 DEF TypeOK
  <2>2. \A s \in Runs : s # r => pc'[s] = pc[s] /\ file'[s] = file[s] /\ offset'[s] = offset[s]
    BY <1>3 DEF TypeOK
  <2>3. \A s \in Runs : s # r /\ pc[s] \in {"write", "rename"} =>
          data'[file[s]] = data[file[s]]
    BY <1>3, <1>4 DEF TypeOK, WriteInv
  <2>4. ASSUME NEW s \in Runs, s # r
        PROVE  /\ pc'[s] \in {"write", "rename"} => format'[s] \in Formats /\ file'[s] = <<s, format'[s]>>
               /\ power' /\ pc'[s] = "write" =>
                    \A b \in 1..Size : b <= offset'[s] => data'[file'[s]][b] = s
               /\ power' /\ pc'[s] = "rename" =>
                    data'[file'[s]] = Whole(s) /\ disk'[file'[s]] = Whole(s)
    BY <1>3, <2>2, <2>3, <2>4 DEF WriteInv
  <2>5. \A b \in 1..Size : ~(b <= offset'[r])
    BY <2>1
  <2> QED  BY <1>1, <1>3, <2>1, <2>4, <2>5 DEF WriteInv
<1>11. OrderInv'
  <2>1. \A s \in Runs : pc'[s] \in {"emit", "print", "done"} => pc[s] \in {"emit", "print", "done"}
    BY <1>3 DEF TypeOK
  <2>2. \A j \in 2..F : j \in Formats /\ j - 1 \in Formats
    BY NumberAssumption
  <2>3. \A d \in Dirs' : \A s \in Runs : \A j \in 2..F :
          d[Final(s, j)] # None => d[Final(s, j - 1)] # None
    BY <1>6, <1>7, <2>2 DEF OrderInv, Dirs
  <2> QED  BY <1>3, <1>7, <2>1, <2>3 DEF OrderInv, Dirs
<1> QED  BY <1>5, <1>8, <1>9, <1>10, <1>11

LEMMA WriteBlockKeeps ==
  ASSUME IInv, power, NEW r \in Runs, WriteBlock(r)
  PROVE  IInv'
<1> USE DEF IInv
<1> DEFINE f == <<r, format[r]>>
<1>1. format[r] \in Formats /\ file[r] = f /\ f \in Files
  BY DEF WriteBlock, WriteInv, Files
<1>2. /\ pc[r] = "write" /\ offset[r] < Size /\ offset[r] \in 0..Size
      /\ offset' = [offset EXCEPT ![r] = offset[r] + 1]
      /\ data' = [data EXCEPT ![f][offset[r] + 1] = r]
      /\ UNCHANGED <<dir, past, disk, output, pc, format, file, power>>
  BY <1>1 DEF WriteBlock, TypeOK
<1>3. data'[f] = [data[f] EXCEPT ![offset[r] + 1] = r] /\ data[f] \in Contents
  BY <1>1, <1>2 DEF TypeOK
<1>4. TypeOK'
  <2>1. data'[f] \in Contents  BY <1>2, <1>3 DEF Contents
  <2>2. data' \in [Files -> Contents]  BY <1>1, <1>2, <2>1 DEF TypeOK
  <2> QED  BY <1>2, <2>2, NumberAssumption DEF TypeOK
<1>5. Dirs' = Dirs  BY <1>2 DEF Dirs
<1>6. \A g \in Files : g # f => data'[g] = data[g]
  BY <1>1, <1>2 DEF TypeOK
<1>7. OwnInv'  BY <1>5 DEF OwnInv
<1>8. FinalInv'
  <2>1. ASSUME NEW d \in Dirs', NEW s \in Runs, NEW j \in Formats, d[Final(s, j)] # None
        PROVE  j < format'[s] /\ data'[<<s, j>>] = Whole(s) /\ disk'[<<s, j>>] = Whole(s)
    <3>1. j < format[s] /\ data[<<s, j>>] = Whole(s) /\ disk[<<s, j>>] = Whole(s)
      BY <1>5, <2>1 DEF FinalInv
    <3>2. <<s, j>> \in Files /\ <<s, j>> # f
      BY <1>1, <3>1 DEF Files
    <3> QED  BY <1>2, <1>6, <3>1, <3>2
  <2> QED  BY <2>1 DEF FinalInv
<1>9. WriteInv'
  <2>1. ASSUME NEW s \in Runs
        PROVE  /\ pc'[s] \in {"write", "rename"} => format'[s] \in Formats /\ file'[s] = <<s, format'[s]>>
               /\ power' /\ pc'[s] = "write" =>
                    \A b \in 1..Size : b <= offset'[s] => data'[file'[s]][b] = s
               /\ power' /\ pc'[s] = "rename" =>
                    data'[file'[s]] = Whole(s) /\ disk'[file'[s]] = Whole(s)
    <3>1. CASE s = r
      <4>1. \A b \in 1..Size : b <= offset[r] + 1 => data'[f][b] = r
        <5>1. \A b \in 1..Size : b <= offset[r] => data[f][b] = r
          BY <1>1, <1>2 DEF WriteInv
        <5>2. \A b \in 1..Size : data'[f][b] = IF b = offset[r] + 1 THEN r ELSE data[f][b]
          BY <1>3 DEF Contents
        <5> QED  BY <1>2, <5>1, <5>2, NumberAssumption
      <4> QED  BY <1>1, <1>2, <3>1, <4>1 DEF TypeOK
    <3>2. CASE s # r
      <4>1. pc[s] \in {"write", "rename"} => file[s] \in Files /\ file[s] # f
        BY <3>2, <2>1 DEF WriteInv, Files
      <4>2. offset'[s] = offset[s]  BY <1>2, <3>2 DEF TypeOK
      <4> QED  BY <1>2, <1>6, <4>1, <4>2 DEF WriteInv
    <3> QED  BY <3>1, <3>2
  <2> QED  BY <2>1 DEF WriteInv
<1>10. OrderInv'  BY <1>2, <1>5 DEF OrderInv
<1> QED  BY <1>4, <1>7, <1>8, <1>9, <1>10

LEMMA SyncKeeps ==
  ASSUME IInv, power, NEW r \in Runs, Sync(r)
  PROVE  IInv'
<1> USE DEF IInv
<1> DEFINE f == <<r, format[r]>>
<1>1. format[r] \in Formats /\ file[r] = f /\ f \in Files
  BY DEF Sync, WriteInv, Files
<1>2. /\ pc[r] = "write" /\ offset[r] = Size
      /\ disk' = [disk EXCEPT ![f] = data[f]]
      /\ pc' = [pc EXCEPT ![r] = "rename"]
      /\ UNCHANGED <<dir, past, data, output, format, file, offset, power>>
  BY <1>1 DEF Sync, Goto
<1>3. data[f] = Whole(r)
  <2>1. \A b \in 1..Size : data[f][b] = r
    BY <1>1, <1>2, NumberAssumption DEF WriteInv
  <2>2. data[f] \in Contents  BY <1>1 DEF TypeOK
  <2> QED  BY <2>1, <2>2 DEF Contents, Whole
<1>4. TypeOK'  BY <1>1, <1>2 DEF TypeOK
<1>5. Dirs' = Dirs  BY <1>2 DEF Dirs
<1>6. /\ disk'[f] = Whole(r)
      /\ \A g \in Files : g # f => disk'[g] = disk[g]
  BY <1>1, <1>2, <1>3 DEF TypeOK
<1>7. OwnInv'  BY <1>5 DEF OwnInv
<1>8. FinalInv'
  <2>1. ASSUME NEW d \in Dirs', NEW s \in Runs, NEW j \in Formats, d[Final(s, j)] # None
        PROVE  j < format'[s] /\ data'[<<s, j>>] = Whole(s) /\ disk'[<<s, j>>] = Whole(s)
    <3>1. j < format[s] /\ data[<<s, j>>] = Whole(s) /\ disk[<<s, j>>] = Whole(s)
      BY <1>5, <2>1 DEF FinalInv
    <3>2. <<s, j>> \in Files /\ <<s, j>> # f
      BY <1>1, <3>1 DEF Files
    <3> QED  BY <1>2, <1>6, <3>1, <3>2
  <2> QED  BY <2>1 DEF FinalInv
<1>9. WriteInv'
  <2>1. ASSUME NEW s \in Runs
        PROVE  /\ pc'[s] \in {"write", "rename"} => format'[s] \in Formats /\ file'[s] = <<s, format'[s]>>
               /\ power' /\ pc'[s] = "write" =>
                    \A b \in 1..Size : b <= offset'[s] => data'[file'[s]][b] = s
               /\ power' /\ pc'[s] = "rename" =>
                    data'[file'[s]] = Whole(s) /\ disk'[file'[s]] = Whole(s)
    <3>1. CASE s = r
      BY <1>1, <1>2, <1>3, <1>6, <3>1 DEF TypeOK
    <3>2. CASE s # r
      <4>1. pc[s] \in {"write", "rename"} => file[s] \in Files /\ file[s] # f
        BY <3>2, <2>1 DEF WriteInv, Files
      <4>2. pc'[s] = pc[s]  BY <1>2, <3>2 DEF TypeOK
      <4> QED  BY <1>2, <1>6, <4>1, <4>2 DEF WriteInv
    <3> QED  BY <3>1, <3>2
  <2> QED  BY <2>1 DEF WriteInv
<1>10. OrderInv'
  <2>1. \A s \in Runs : pc'[s] \in {"emit", "print", "done"} => pc[s] \in {"emit", "print", "done"}
    BY <1>2 DEF TypeOK
  <2> QED  BY <1>2, <1>5, <2>1 DEF OrderInv
<1> QED  BY <1>4, <1>7, <1>8, <1>9, <1>10

LEMMA RenameKeeps ==
  ASSUME IInv, power, NEW r \in Runs, Rename(r)
  PROVE  IInv'
<1> USE DEF IInv
<1> DEFINE i == format[r]
           f == <<r, i>>
<1>1. i \in Formats /\ file[r] = f /\ f \in Files
  BY DEF Rename, WriteInv, Files
<1>2. /\ pc[r] = "rename"
      /\ dir[Temporary(r, i)] # None
      /\ dir' = [dir EXCEPT ![Final(r, i)] = dir[Temporary(r, i)], ![Temporary(r, i)] = None]
      /\ past' = past \cup {dir}
      /\ format' = [format EXCEPT ![r] = i + 1]
      /\ pc' = [pc EXCEPT ![r] = "create"]
      /\ UNCHANGED <<data, disk, output, file, offset, power>>
  BY DEF Rename, SetDir, Goto
<1>3. dir[Temporary(r, i)] = f
  BY <1>1, <1>2 DEF OwnInv, Dirs
<1>4. Dirs' = Dirs \cup {dir'}
  BY <1>2 DEF Dirs
<1>5. \A s \in Runs, j \in Formats :
        /\ dir'[Final(s, j)] = IF <<s, j>> = f THEN f ELSE dir[Final(s, j)]
        /\ dir'[Temporary(s, j)] = IF <<s, j>> = f THEN None ELSE dir[Temporary(s, j)]
  <2> SUFFICES ASSUME NEW s \in Runs, NEW j \in Formats
               PROVE  /\ dir'[Final(s, j)] = IF <<s, j>> = f THEN f ELSE dir[Final(s, j)]
                      /\ dir'[Temporary(s, j)] = IF <<s, j>> = f THEN None ELSE dir[Temporary(s, j)]
    OBVIOUS
  <2>1. /\ Final(s, j) \in Paths /\ Temporary(s, j) \in Paths
        /\ Final(s, j) # Temporary(r, i) /\ Temporary(s, j) # Final(r, i)
        /\ Final(s, j) = Final(r, i) <=> <<s, j>> = f
        /\ Temporary(s, j) = Temporary(r, i) <=> <<s, j>> = f
    BY <1>1, PathsDiffer
  <2> QED  BY <1>2, <1>3, <2>1 DEF TypeOK
<1>6. \A s \in Runs : /\ format'[s] = IF s = r THEN i + 1 ELSE format[s]
                      /\ pc'[s] = IF s = r THEN "create" ELSE pc[s]
  BY <1>2 DEF TypeOK
<1>7. TypeOK'
  <2>1. dir' \in [Paths -> Files \cup {None}]  BY <1>1, <1>2, <1>3 DEF TypeOK
  <2>2. i + 1 \in 1..(F + 1)  BY <1>1, NumberAssumption
  <2> QED  BY <1>2, <2>1, <2>2 DEF TypeOK
<1>8. OwnInv'  BY <1>4, <1>5 DEF OwnInv, Dirs
<1>9. FinalInv'
  <2>1. ASSUME NEW d \in Dirs', NEW s \in Runs, NEW j \in Formats, d[Final(s, j)] # None
        PROVE  j < format'[s] /\ data'[<<s, j>>] = Whole(s) /\ disk'[<<s, j>>] = Whole(s)
    <3>1. CASE <<s, j>> = f
      BY <1>1, <1>2, <1>6, <3>1 DEF WriteInv
    <3>2. CASE <<s, j>> # f
      <4>1. j < format[s] /\ data[<<s, j>>] = Whole(s) /\ disk[<<s, j>>] = Whole(s)
        BY <1>4, <1>5, <2>1, <3>2 DEF FinalInv, Dirs
      <4>2. j < format'[s]  BY <1>1, <1>6, <4>1
      <4> QED  BY <1>2, <4>1, <4>2
    <3>3. CASE d \in Dirs
      <4>1. j < format[s] /\ data[<<s, j>>] = Whole(s) /\ disk[<<s, j>>] = Whole(s)
        BY <2>1, <3>3 DEF FinalInv
      <4>2. j < format'[s]  BY <1>1, <1>6, <4>1
      <4> QED  BY <1>2, <4>1, <4>2
    <3> QED  BY <3>1, <3>2
  <2> QED  BY <2>1 DEF FinalInv
<1>10. WriteInv'
  BY <1>2, <1>6 DEF WriteInv
<1>11. OrderInv'
  <2>1. \A j \in 2..F : j \in Formats /\ j - 1 \in Formats
    BY NumberAssumption
  <2>2. f = <<r, i>> /\ f # None /\ (i \in 2..F => dir[Final(r, i - 1)] # None)
    BY <1>1, <2>1, NoneAssumption DEF OrderInv
  <2>3. \A s \in Runs, j \in Formats : dir[Final(s, j)] # None => dir'[Final(s, j)] # None
    BY <1>5, <2>2
  <2>4. ASSUME NEW d \in Dirs', NEW s \in Runs, NEW j \in 2..F, d[Final(s, j)] # None
        PROVE  d[Final(s, j - 1)] # None
    <3>1. CASE d \in Dirs
      BY <2>4, <3>1 DEF OrderInv
    <3>2. CASE d = dir'
      <4>1. CASE <<s, j>> = f
        BY <2>1, <2>2, <2>3, <3>2, <4>1
      <4>2. CASE <<s, j>> # f
        <5>1. dir[Final(s, j)] # None
          BY <1>5, <2>1, <2>4, <3>2, <4>2
        <5>2. dir[Final(s, j - 1)] # None
          BY <5>1 DEF OrderInv, Dirs
        <5> QED  BY <2>1, <2>3, <3>2, <5>2
      <4> QED  BY <4>1, <4>2
    <3> QED  BY <1>4, <3>1, <3>2
  <2>5. \A s \in Runs, j \in Formats : j < format'[s] => dir'[Final(s, j)] # None
    <3> SUFFICES ASSUME NEW s \in Runs, NEW j \in Formats, j < format'[s]
                 PROVE  dir'[Final(s, j)] # None
      OBVIOUS
    <3>1. CASE <<s, j>> = f
      BY <1>5, <2>2, <3>1
    <3>2. CASE <<s, j>> # f
      <4>1. j < format[s]  BY <1>1, <1>6, <3>2
      <4> QED  BY <2>3, <4>1 DEF OrderInv
    <3> QED  BY <3>1, <3>2
  <2>6. \A d \in past' : \A s \in Runs, j \in Formats :
          d[Final(s, j)] # None => dir'[Final(s, j)] # None
    BY <1>2, <2>3 DEF OrderInv
  <2>7. \A s \in Runs : pc'[s] \in {"emit", "print", "done"} => format'[s] = F + 1
    BY <1>6 DEF OrderInv
  <2> QED  BY <2>4, <2>5, <2>6, <2>7 DEF OrderInv
<1> QED  BY <1>7, <1>8, <1>9, <1>10, <1>11

\* A temporary file that has been removed leaves no other trace.
LEMMA RenameFailsKeeps ==
  ASSUME IInv, power, NEW r \in Runs, RenameFails(r)
  PROVE  IInv'
<1> USE DEF IInv
<1> DEFINE i == format[r]
<1>1. i \in Formats  BY DEF RenameFails, WriteInv
<1>2. /\ pc[r] = "rename" /\ pc' = [pc EXCEPT ![r] = "failed"]
      /\ UNCHANGED <<data, disk, output, format, file, offset, power>>
  BY DEF RenameFails, Goto
<1>3. CASE UNCHANGED <<dir, past>>
  <2>1. UNCHANGED offset /\ Goto(r, "failed")  BY DEF RenameFails
  <2>2. output' \in Contents /\ offset' \in [Runs -> 0..Size]
    BY <1>2 DEF TypeOK
  <2> QED  BY <1>2, <1>3, <2>1, <2>2, QuietStep
<1>4. CASE SetDir([dir EXCEPT ![Temporary(r, i)] = None])
  <2>1. /\ dir' = [dir EXCEPT ![Temporary(r, i)] = None]
        /\ past' = past \cup {dir}
    BY <1>4 DEF SetDir
  <2>2. TypeOK'  BY <1>1, <1>2, <2>1, PathsDiffer DEF TypeOK
  <2>3. Dirs' = Dirs \cup {dir'}  BY <2>1 DEF Dirs
  <2>4. \A s \in Runs, j \in Formats :
          /\ dir'[Final(s, j)] = dir[Final(s, j)]
          /\ dir'[Temporary(s, j)] \in {None, dir[Temporary(s, j)]}
    BY <1>1, <2>1, PathsDiffer DEF TypeOK
  <2>5. \A s \in Runs : pc'[s] = IF s = r THEN "failed" ELSE pc[s]
    BY <1>2 DEF TypeOK
  <2>6. OwnInv'  BY <2>3, <2>4 DEF OwnInv, Dirs
  <2>7. FinalInv'  BY <1>2, <2>3, <2>4 DEF FinalInv, Dirs
  <2>8. WriteInv'  BY <1>2, <2>5 DEF WriteInv
  <2>9. OrderInv'
    <3>1. \A j \in 2..F : j \in Formats /\ j - 1 \in Formats
      BY NumberAssumption
    <3>2. \A d \in Dirs' : \A s \in Runs : \A j \in 2..F :
            d[Final(s, j)] # None => d[Final(s, j - 1)] # None
      BY <2>3, <2>4, <3>1 DEF OrderInv, Dirs
    <3> QED  BY <1>2, <2>1, <2>4, <2>5, <3>2 DEF OrderInv
  <2> QED  BY <2>2, <2>6, <2>7, <2>8, <2>9
<1> QED  BY <1>3, <1>4 DEF RenameFails

\* What has its name is on the disk, and so nothing of it can be lost.
LEMMA PowerFailsKeeps ==
  ASSUME IInv, PowerFails
  PROVE  IInv'
<1> USE DEF IInv
<1>1. /\ dir' \in Dirs /\ past' = past /\ power' = FALSE
      /\ UNCHANGED <<disk, output, pc, format, file, offset>>
  BY DEF PowerFails, Dirs
<1>2. PICK lost : data' = [f \in Files |-> [b \in 1..Size |->
                             IF <<f, b>> \in lost THEN disk[f][b] ELSE data[f][b]]]
  BY DEF PowerFails
<1>3. \A f \in Files : data'[f] \in Contents /\ (data[f] = disk[f] => data'[f] = data[f])
  BY <1>2 DEF TypeOK, Contents
<1>4. TypeOK'
  <2>1. data' \in [Files -> Contents]  BY <1>2, <1>3
  <2>2. dir' \in [Paths -> Files \cup {None}]  BY <1>1 DEF Dirs, TypeOK
  <2> QED  BY <1>1, <2>1, <2>2 DEF TypeOK
<1>5. Dirs' \subseteq Dirs  BY <1>1 DEF Dirs
<1>6. OwnInv'  BY <1>5 DEF OwnInv
<1>7. FinalInv'
  <2>1. \A s \in Runs, j \in Formats : <<s, j>> \in Files  BY DEF Files
  <2> QED  BY <1>1, <1>3, <1>5, <2>1 DEF FinalInv
<1>8. WriteInv'  BY <1>1 DEF WriteInv
<1>9. OrderInv'  BY <1>1, <1>5 DEF OrderInv
<1> QED  BY <1>4, <1>6, <1>7, <1>8, <1>9

LEMMA EmitKeeps ==
  ASSUME IInv, power, NEW r \in Runs,
         EmitToTerminal(r) \/ EmitToFile(r) \/ EmitBlock(r) \/ EmitEnds(r) \/ EmitFails(r)
  PROVE  IInv'
<1> USE DEF IInv
<1>1. \A s \in Runs : pc[s] \in {"emit", "print"} => format[s] = F + 1
  BY DEF OrderInv
<1>2. output \in Contents /\ offset \in [Runs -> 0..Size]
  BY DEF TypeOK
<1>3. CASE EmitToTerminal(r)
  BY <1>1, <1>2, <1>3, QuietStep DEF EmitToTerminal, files
<1>4. CASE EmitToFile(r)
  <2>1. offset' \in [Runs -> 0..Size] /\ \A s \in Runs : pc[s] = "write" => offset'[s] = offset[s]
    BY <1>2, <1>4, NumberAssumption DEF EmitToFile
  <2> QED  BY <1>1, <1>4, <2>1, WholeIsContents, QuietStep DEF EmitToFile
<1>5. CASE EmitBlock(r)
  <2>1. /\ offset' = [offset EXCEPT ![r] = offset[r] + 1] /\ offset[r] + 1 \in 0..Size
        /\ pc[r] = "print" /\ output' = [output EXCEPT ![offset[r] + 1] = r]
    BY <1>2, <1>5, NumberAssumption DEF EmitBlock
  <2>2. offset' \in [Runs -> 0..Size] /\ \A s \in Runs : pc[s] = "write" => offset'[s] = offset[s]
    BY <1>2, <2>1
  <2>3. Goto(r, "print")  BY <1>5, <2>1 DEF EmitBlock, Goto, TypeOK
  <2>4. output' \in Contents
    BY <1>2, <2>1 DEF Contents
  <2> QED  BY <1>1, <1>5, <2>1, <2>2, <2>3, <2>4, QuietStep DEF EmitBlock
<1>6. CASE EmitEnds(r)
  BY <1>1, <1>2, <1>6, QuietStep DEF EmitEnds, files
<1>7. CASE EmitFails(r)
  BY <1>1, <1>2, <1>7, QuietStep DEF EmitFails, files
<1> QED  BY <1>3, <1>4, <1>5, <1>6, <1>7

LEMMA StepKeeps ==
  ASSUME IInv, power, NEW r \in Runs, Step(r)
  PROVE  IInv'
<1>1. output \in Contents /\ offset \in [Runs -> 0..Size] /\ format[r] \in 1..(F + 1)
  BY DEF IInv, TypeOK
<1>2. CASE Prepare(r)
  BY <1>1, <1>2, QuietStep DEF Prepare, files
<1>3. CASE WriteFails(r)
  BY <1>1, <1>3, QuietStep DEF WriteFails, files
<1>4. CASE Written(r)
  BY <1>1, <1>4, QuietStep DEF Written, files
<1>5. CASE Kill(r)
  BY <1>1, <1>5, QuietStep DEF Kill, files
<1> QED
  BY <1>2, <1>3, <1>4, <1>5, CreateKeeps, WriteBlockKeeps, SyncKeeps, RenameKeeps,
     RenameFailsKeeps, EmitKeeps
  DEF Step

LEMMA NextKeeps == IInv /\ [Next]_vars => IInv'
<1> SUFFICES ASSUME IInv, [Next]_vars PROVE IInv'  OBVIOUS
<1>1. CASE UNCHANGED vars
  <2>1. UNCHANGED <<dir, past, data, disk, output, pc, format, file, offset, power>>
    BY <1>1 DEF vars, files
  <2>2. Dirs' = Dirs  BY <2>1 DEF Dirs
  <2>3. TypeOK'  BY <2>1 DEF IInv, TypeOK
  <2>4. OwnInv' /\ FinalInv'  BY <2>1, <2>2 DEF IInv, OwnInv, FinalInv
  <2>5. WriteInv'  BY <2>1 DEF IInv, WriteInv
  <2>6. OrderInv'  BY <2>1, <2>2 DEF IInv, OrderInv
  <2> QED  BY <2>3, <2>4, <2>5, <2>6 DEF IInv
<1> QED  BY <1>1, StepKeeps, PowerFailsKeeps DEF Next, Terminated

LEMMA Inductive == Spec => []IInv
BY InitIInv, NextKeeps, PTL DEF Spec

-----------------------------------------------------------------------------

\* Every variable keeps to its type: no drill writes beyond its report, and no
\* drill writes into another file than one of the report directory's.
THEOREM TypeCorrect == Spec => []TypeOK
BY Inductive, PTL DEF IInv

\* A reader of the directory never finds half a report, however many drills
\* write into it, whichever of them are killed, and after a power failure.
THEOREM ReaderCorrect == Spec => []NeverHalfAReport
<1>1. IInv => NeverHalfAReport
  BY DEF IInv, NeverHalfAReport, OwnInv, FinalInv, Dirs
<1> QED  BY <1>1, Inductive, PTL

-----------------------------------------------------------------------------
(* ReportWriter implements ReportDirectory.                                *)

Finished == {r \in Runs : pc[r] = "done"}

\* What is found is what has been renamed and no more, in order.
LEMMA FoundInOrder == IInv => Directory!InOrder(Found)
<1> SUFFICES ASSUME IInv PROVE Directory!InOrder(Found)  OBVIOUS
<1>1. \A i \in 2..F : i \in Formats /\ i - 1 \in Formats  BY NumberAssumption
<1>2. \A r \in Runs : \A i \in 2..F : dir[Final(r, i)] # None => dir[Final(r, i - 1)] # None
  BY DEF IInv, OrderInv, Dirs
<1> QED  BY <1>1, <1>2 DEF Found, Directory!InOrder

\* One format more is found when a file is renamed, and at no other step.
LEMMA FoundGrows ==
  ASSUME IInv, IInv', power, NEW r \in Runs, Step(r)
  PROVE  \/ Found' = Found
         \/ Rename(r) /\ Found' = Found \cup {<<r, format[r]>>}
<1> USE DEF IInv
<1> DEFINE i == format[r]
<1>1. CASE Rename(r)
  <2>1. i \in Formats /\ dir[Temporary(r, i)] = <<r, i>>
    BY <1>1 DEF Rename, WriteInv, OwnInv, Dirs
  <2>2. \A s \in Runs, j \in Formats :
          dir'[Final(s, j)] = IF <<s, j>> = <<r, i>> THEN <<r, i>> ELSE dir[Final(s, j)]
    BY <1>1, <2>1, PathsDiffer DEF Rename, SetDir, TypeOK
  <2>3. <<r, i>> # None  BY <2>1, NoneAssumption
  <2> QED  BY <1>1, <2>1, <2>2, <2>3 DEF Found
<1>2. CASE Create(r)
  <2>1. i \in Formats  BY <1>2 DEF Create, TypeOK
  <2>2. \A s \in Runs, j \in Formats : dir'[Final(s, j)] = dir[Final(s, j)]
    BY <1>2, <2>1, PathsDiffer DEF Create, SetDir, TypeOK
  <2> QED  BY <2>2 DEF Found
<1>3. CASE RenameFails(r)
  <2>1. i \in Formats  BY <1>3 DEF RenameFails, WriteInv
  <2>2. \A s \in Runs, j \in Formats : dir'[Final(s, j)] = dir[Final(s, j)]
    BY <1>3, <2>1, PathsDiffer DEF RenameFails, SetDir, TypeOK
  <2> QED  BY <2>2 DEF Found
<1>4. CASE UNCHANGED dir
  BY <1>4 DEF Found
<1> QED
  BY <1>1, <1>2, <1>3, <1>4
  DEF Step, Prepare, WriteBlock, Sync, WriteFails, Written, EmitToTerminal, EmitToFile,
      EmitBlock, EmitEnds, EmitFails, Kill, files

\* A drill has finished only when all its formats are found.
LEMMA FinishedGrows ==
  ASSUME IInv, power, NEW r \in Runs, Step(r)
  PROVE  \/ Finished' = Finished
         \/ /\ Finished' = Finished \cup {r}
            /\ UNCHANGED dir
            /\ \A i \in 1..F : <<r, i>> \in Found
<1> USE DEF IInv
<1>1. CASE EmitToTerminal(r) \/ EmitEnds(r)
  <2>1. pc' = [pc EXCEPT ![r] = "done"] /\ UNCHANGED dir /\ pc[r] \in {"emit", "print"}
    BY <1>1 DEF EmitToTerminal, EmitEnds, Goto, files
  <2>2. Finished' = Finished \cup {r}  BY <2>1 DEF Finished, TypeOK
  <2>3. format[r] = F + 1  BY <2>1 DEF OrderInv
  <2>4. \A i \in 1..F : dir[Final(r, i)] # None
    BY <2>3, NumberAssumption DEF OrderInv
  <2> QED  BY <2>1, <2>2, <2>4 DEF Found
<1>2. CASE ~(EmitToTerminal(r) \/ EmitEnds(r))
  <2>1. \E l \in {"prepare", "create", "write", "rename", "emit", "print", "failed", "killed"} :
          pc' = [pc EXCEPT ![r] = l] \/ pc' = pc
    BY <1>2 DEF Step, Prepare, Create, WriteBlock, Sync, WriteFails, Rename, RenameFails,
                Written, EmitToFile, EmitBlock, EmitFails, Kill, Goto
  <2>2. pc[r] # "done"
    BY <1>2 DEF Step, Prepare, Create, WriteBlock, Sync, WriteFails, Rename, RenameFails,
                Written, EmitToFile, EmitBlock, EmitFails, Kill, Over
  <2> QED  BY <2>1, <2>2 DEF Finished, TypeOK
<1> QED  BY <1>1, <1>2

\* The report directory is what ReportDirectory promises: a step publishes one
\* format, or finishes a drill, or is the power failure, or cannot be seen.
THEOREM WriterImplementsDirectory == Spec => ImplementsReportDirectory
<1>1. Init => Directory!Init
  <2> SUFFICES ASSUME Init PROVE Directory!Init  OBVIOUS
  <2>1. \A r \in Runs, i \in Formats : dir[Final(r, i)] = None
    BY PathsDiffer DEF Init
  <2>2. Found = {} /\ Finished = {} /\ power = TRUE
    BY <2>1 DEF Init, Found, Finished
  <2> QED  BY <2>2 DEF Directory!Init, Finished
<1>2. IInv /\ IInv' /\ [Next]_vars => [Directory!Next]_<<Found, Finished, power>>
  <2> SUFFICES ASSUME IInv, IInv', Next
               PROVE  Directory!Next \/ UNCHANGED <<Found, Finished, power>>
    BY DEF vars, files, Found, Finished
  <2>1. CASE power /\ PowerFails
    <3>1. \A r \in Runs, i \in Formats : dir'[Final(r, i)] # None => dir[Final(r, i)] # None
      BY <2>1 DEF PowerFails, IInv, OrderInv
    <3>2. Found' \subseteq Found  BY <3>1 DEF Found
    <3>3. Finished' = Finished /\ power' = FALSE  BY <2>1 DEF PowerFails, Finished
    <3>4. Directory!InOrder(Found')
      <4>1. \A i \in 2..F : i \in Formats /\ i - 1 \in Formats  BY NumberAssumption
      <4>2. \A r \in Runs : \A i \in 2..F : dir'[Final(r, i)] # None => dir'[Final(r, i - 1)] # None
        BY DEF IInv, OrderInv, Dirs
      <4> QED  BY <4>1, <4>2 DEF Found, Directory!InOrder
    <3> QED
      BY <2>1, <3>2, <3>3, <3>4 DEF Directory!Next, Directory!PowerFails, Finished
  <2>2. ASSUME power, NEW r \in Runs, Step(r)
        PROVE  Directory!Next \/ UNCHANGED <<Found, Finished, power>>
    <3>1. UNCHANGED power
      BY <2>2 DEF Step, Prepare, Create, WriteBlock, Sync, WriteFails, Rename, RenameFails,
                  Written, EmitToTerminal, EmitToFile, EmitBlock, EmitEnds, EmitFails, Kill
    <3>2. CASE Rename(r) /\ Found' = Found \cup {<<r, format[r]>>}
      <4>1. format[r] \in Formats  BY <3>2 DEF Rename, IInv, WriteInv
      <4>2. Finished' = Finished
        BY <3>2 DEF Rename, Goto, Finished, IInv, TypeOK
      <4>3. Directory!InOrder(Found')
        <5>1. \A i \in 2..F : i \in Formats /\ i - 1 \in Formats  BY NumberAssumption
        <5>2. \A s \in Runs : \A i \in 2..F :
                dir'[Final(s, i)] # None => dir'[Final(s, i - 1)] # None
          BY DEF IInv, OrderInv, Dirs
        <5> QED  BY <5>1, <5>2 DEF Found, Directory!InOrder
      <4>4. Directory!Publish(r, format[r])
        BY <2>2, <3>1, <3>2, <4>2, <4>3 DEF Directory!Publish, Finished
      <4> QED  BY <4>1, <4>4 DEF Directory!Next
    <3>3. CASE Found' = Found
      <4>1. CASE Finished' = Finished
        BY <3>1, <3>3, <4>1
      <4>2. CASE Finished' = Finished \cup {r} /\ \A i \in 1..F : <<r, i>> \in Found
        <5>1. Directory!Finish(r)
          BY <2>2, <3>1, <3>3, <4>2 DEF Directory!Finish, Finished
        <5> QED  BY <5>1 DEF Directory!Next
      <4> QED  BY <2>2, <4>1, <4>2, FinishedGrows
    <3> QED  BY <2>2, <3>2, <3>3, FoundGrows
  <2>3. CASE Terminated
    BY <2>3 DEF Terminated, vars, files, Found, Finished
  <2> QED  BY <2>1, <2>2, <2>3 DEF Next
<1> QED
  BY <1>1, <1>2, Inductive, PTL DEF Spec, ImplementsReportDirectory, Directory!Spec, Finished
=============================================================================
