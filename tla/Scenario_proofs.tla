-------------------------- MODULE Scenario_proofs --------------------------
(***************************************************************************)
(* Proofs about Scenario and the modules it is built from: for any tree of *)
(* directories and links, any configurations and any sound values to       *)
(* repair them with.                                                       *)
(***************************************************************************)
EXTENDS Scenario, WellFoundedInduction, TLAPS

-----------------------------------------------------------------------------
(* Natural numbers.                                                        *)

\* The least number of a set, from the order of the natural numbers.
LEMMA LeastNumber ==
  ASSUME NEW T, T \subseteq Nat, T # {}
  PROVE  \E x \in T : \A y \in T : x <= y
<1>1. PICK x \in T : \A y \in T : ~(<<y, x>> \in OpToRel(<, Nat))
  BY WFMin, NatLessThanWellFounded
<1>2. \A y \in T : ~(y < x)
  BY <1>1 DEF OpToRel
<1> QED
  BY <1>2

\* What holds of zero and of the next number holds of all.
LEMMA Induction ==
  ASSUME NEW S, 0 \in S, \A n \in Nat : n \in S => n + 1 \in S
  PROVE  Nat \subseteq S
<1> DEFINE T == Nat \ S
<1> SUFFICES ASSUME T # {}
             PROVE  FALSE
  OBVIOUS
<1>1. PICK x \in T : \A y \in T : x <= y
  BY LeastNumber
<1>2. x - 1 \in Nat /\ x - 1 \notin T
  BY <1>1
<1> QED
  BY <1>2

\* The greatest number of a set that has a bound.
LEMMA GreatestNumber ==
  ASSUME NEW m \in Nat, NEW T, T \subseteq 0..m, T # {}
  PROVE  \E x \in T : \A y \in T : y <= x
<1> DEFINE R == {m - x : x \in T}
<1>1. \A x \in T : x \in Int /\ x <= m
  OBVIOUS
<1>2. R \subseteq Nat /\ R # {}
  <2>1. \A x \in T : m - x \in Nat
    BY <1>1
  <2> QED
    BY <2>1
<1>3. PICK r \in R : \A s \in R : r <= s
  BY <1>2, LeastNumber
<1>4. PICK x \in T : r = m - x
  BY <1>3
<1>5. \A y \in T : m - x <= m - y
  BY <1>3, <1>4
<1> QED
  BY <1>1, <1>5

-----------------------------------------------------------------------------
(* The paths.                                                              *)

\* The places that a walk along `parts` comes to, the first n of them.
IsWalk(at, from, parts, n) ==
  at = [k \in 0..n |-> IF k = 0 THEN from ELSE Walk(at[k-1], parts[k])]

\* There is a walk along any path.
LEMMA WalkExists ==
  ASSUME NEW from, NEW parts, NEW n \in Nat
  PROVE  \E at : IsWalk(at, from, parts, n)
<1> DEFINE S == {k \in Nat : \E at : IsWalk(at, from, parts, k)}
<1>1. 0 \in S
  <2>1. IsWalk([k \in 0..0 |-> from], from, parts, 0)
    BY DEF IsWalk
  <2> QED
    BY <2>1
<1>2. ASSUME NEW k \in Nat, k \in S
      PROVE  k + 1 \in S
  <2>1. PICK at : IsWalk(at, from, parts, k)
    BY <1>2
  <2> DEFINE next == [j \in 0..(k+1) |-> IF j = k + 1 THEN Walk(at[k], parts[k+1]) ELSE at[j]]
  <2>2. \A j \in 0..k : at[j] = IF j = 0 THEN from ELSE Walk(at[j-1], parts[j])
    BY <2>1 DEF IsWalk
  <2>3. \A j \in 0..(k+1) : next[j] = IF j = 0 THEN from ELSE Walk(next[j-1], parts[j])
    BY <2>2
  <2>4. IsWalk(next, from, parts, k + 1)
    BY <2>3 DEF IsWalk
  <2> QED
    BY <2>4
<1> HIDE DEF S
<1>3. Nat \subseteq S
  BY <1>1, <1>2, Induction
<1> QED
  BY <1>3 DEF S

\* Canonical() is where such a walk ends.
LEMMA CanonicalIsWalk ==
  ASSUME NEW from, NEW parts \in Seq(STRING)
  PROVE  \E at : IsWalk(at, from, parts, Len(parts)) /\ Canonical(from, parts) = at[Len(parts)]
<1> DEFINE at == CHOOSE at : IsWalk(at, from, parts, Len(parts))
<1>1. IsWalk(at, from, parts, Len(parts))
  BY WalkExists
<1>2. Canonical(from, parts) = at[Len(parts)]
  BY DEF Canonical, IsWalk
<1> QED
  BY <1>1, <1>2

\* A walk that begins at a directory comes to places that exist, or to none.
LEMMA CanonicalExists ==
  ASSUME NEW from \in Dirs, NEW parts \in Seq(STRING)
  PROVE  Canonical(from, parts) \in Dirs \cup Files \cup {Missing}
<1>1. PICK at : IsWalk(at, from, parts, Len(parts)) /\ Canonical(from, parts) = at[Len(parts)]
  BY CanonicalIsWalk
<1> DEFINE S == {k \in Nat : k <= Len(parts) => at[k] \in Dirs \cup Files \cup {Missing}}
<1>2. 0 \in S
  BY <1>1 DEF IsWalk
<1>3. ASSUME NEW k \in Nat, k \in S
      PROVE  k + 1 \in S
  <2> SUFFICES ASSUME k + 1 <= Len(parts)
               PROVE  at[k + 1] \in Dirs \cup Files \cup {Missing}
    OBVIOUS
  <2>1. at[k + 1] = Walk(at[k], parts[k + 1])
    BY <1>1 DEF IsWalk
  <2>2. CASE at[k] \in Dirs
    BY <2>1, <2>2, TreeAssumption DEF Walk
  <2>3. CASE at[k] \notin Dirs
    BY <2>1, <2>3 DEF Walk
  <2> QED
    BY <2>2, <2>3
<1> HIDE DEF S
<1>4. Nat \subseteq S
  BY <1>2, <1>3, Induction
<1>5. Len(parts) \in S
  BY <1>4
<1> QED
  BY <1>1, <1>5 DEF S

\* Nothing to walk along: the place itself.
LEMMA CanonicalOfNothing ==
  ASSUME NEW from
  PROVE  Canonical(from, <<>>) = from
<1>1. <<>> \in Seq(STRING) /\ Len(<<>>) = 0
  OBVIOUS
<1>2. PICK at : IsWalk(at, from, <<>>, 0) /\ Canonical(from, <<>>) = at[0]
  BY <1>1, CanonicalIsWalk
<1> QED
  BY <1>2 DEF IsWalk

LEMMA OriginExists == \A raw : Origin(raw) \in Dirs
  BY TreeAssumption DEF Origin

LEMMA RawPathType ==
  ASSUME NEW raw \in RawPaths
  PROVE  raw.parts \in Seq(STRING)
  BY DEF RawPaths

\* Where a path is accepted, it lies in the project or, if that is asked for,
\* in a directory of the allowlist.
LEMMA ConfineConfines ==
  ASSUME NEW p, NEW allowed, NEW confinement,
         Confine(p, allowed, confinement) # Escapes
  PROVE  /\ Confine(p, allowed, confinement) = p
         /\ \/ Under(p, Project)
            \/ /\ confinement = "project_or_allowlisted"
               /\ \E dir \in allowed : Under(p, dir)
  BY DEF Confine

\* resolve_existing: what it returns exists and lies where it may.
THEOREM ExistingPathIsConfined ==
  ASSUME NEW raw \in RawPaths, NEW allowed, NEW confinement,
         Resolved(ResolveExisting(raw, allowed, confinement))
  PROVE  /\ ResolveExisting(raw, allowed, confinement) \in Dirs \cup Files
         /\ \/ Under(ResolveExisting(raw, allowed, confinement), Project)
            \/ /\ confinement = "project_or_allowlisted"
               /\ \E dir \in allowed : Under(ResolveExisting(raw, allowed, confinement), dir)
<1> DEFINE place == Canonical(Origin(raw), raw.parts)
<1>1. place \in Dirs \cup Files \cup {Missing}
  BY RawPathType, OriginExists, CanonicalExists
<1>2. /\ ResolveExisting(raw, allowed, confinement) = Confine(place, allowed, confinement)
      /\ place # Missing
  BY DEF ResolveExisting, Resolved
<1>3. Confine(place, allowed, confinement) # Escapes
  BY <1>2 DEF Resolved
<1> HIDE DEF place
<1> QED
  BY <1>1, <1>2, <1>3, ConfineConfines

\* What lies under a directory still does when names are appended to it.
LEMMA UnderAppended ==
  ASSUME NEW dir \in Seq(STRING), NEW p \in Seq(STRING), NEW rest \in Seq(STRING),
         Under(p, dir)
  PROVE  Under(p \o rest, dir)
<1>1. Len(dir) <= Len(p) /\ SubSeq(dir, 1, Len(dir)) = SubSeq(p, 1, Len(dir))
  BY DEF Under, IsPrefix
<1>2. Len(p \o rest) = Len(p) + Len(rest)
  OBVIOUS
<1>3. SubSeq(p \o rest, 1, Len(dir)) = SubSeq(p, 1, Len(dir))
  <2>1. \A i \in 1..Len(p) : (p \o rest)[i] = p[i]
    OBVIOUS
  <2> QED
    BY <1>1, <1>2, <2>1
<1> QED
  BY <1>1, <1>2, <1>3 DEF Under, IsPrefix

\* The deepest ancestor that exists: the loop of resolve_for_creation ends.
LEMMA DeepestAncestor ==
  ASSUME NEW raw \in RawPaths
  PROVE  LET there(n) == Canonical(Origin(raw), SubSeq(raw.parts, 1, n))
             depth == CHOOSE n \in 0..Len(raw.parts) :
                        /\ there(n) # Missing
                        /\ \A k \in n+1..Len(raw.parts) : there(k) = Missing
         IN /\ depth \in 0..Len(raw.parts)
            /\ there(depth) \in Dirs \cup Files
<1> DEFINE there(n) == Canonical(Origin(raw), SubSeq(raw.parts, 1, n))
           Deepest(n) == /\ there(n) # Missing
                         /\ \A k \in n+1..Len(raw.parts) : there(k) = Missing
           T == {n \in 0..Len(raw.parts) : there(n) # Missing}
<1>1. raw.parts \in Seq(STRING) /\ Len(raw.parts) \in Nat
  BY RawPathType
<1>2. \A n \in 0..Len(raw.parts) : there(n) \in Dirs \cup Files \cup {Missing}
  <2> TAKE n \in 0..Len(raw.parts)
  <2>1. SubSeq(raw.parts, 1, n) \in Seq(STRING)
    BY <1>1
  <2> QED
    BY <2>1, OriginExists, CanonicalExists
<1>3. 0 \in T
  <2>1. SubSeq(raw.parts, 1, 0) = <<>>
    BY <1>1
  <2>2. Origin(raw) # Missing
    BY OriginExists, TreeAssumption
  <2>3. there(0) = Origin(raw)
    BY <2>1, CanonicalOfNothing
  <2> HIDE DEF there
  <2> QED
    BY <1>1, <2>2, <2>3
<1> HIDE DEF there
<1>4. PICK n \in T : \A k \in T : k <= n
  BY <1>1, <1>3, GreatestNumber
<1>5. n \in 0..Len(raw.parts) /\ Deepest(n)
  BY <1>1, <1>4
<1>6. /\ (CHOOSE k \in 0..Len(raw.parts) : Deepest(k)) \in 0..Len(raw.parts)
      /\ Deepest(CHOOSE k \in 0..Len(raw.parts) : Deepest(k))
  BY <1>5
<1> QED
  BY <1>2, <1>6 DEF there

\* resolve_for_creation: what it returns is a place that exists, and that lies
\* where it may, with names appended to it of which none leads back; so it lies
\* there, too.
THEOREM NewPathIsConfined ==
  ASSUME NEW raw \in RawPaths, NEW allowed \in SUBSET Seq(STRING), NEW confinement,
         Resolved(ResolveForCreation(raw, allowed, confinement))
  PROVE  \E base \in Dirs \cup Files, rest \in Seq(STRING) :
           /\ ResolveForCreation(raw, allowed, confinement) = base \o rest
           /\ \A i \in 1..Len(rest) : rest[i] # ".."
           /\ \/ Under(base, Project) /\ Under(base \o rest, Project)
              \/ /\ confinement = "project_or_allowlisted"
                 /\ \E dir \in allowed : Under(base, dir) /\ Under(base \o rest, dir)
<1> DEFINE there(n) == Canonical(Origin(raw), SubSeq(raw.parts, 1, n))
           depth == CHOOSE n \in 0..Len(raw.parts) :
                      /\ there(n) # Missing
                      /\ \A k \in n+1..Len(raw.parts) : there(k) = Missing
           rest == SubSeq(raw.parts, depth + 1, Len(raw.parts))
           place == there(depth)
<1>1. depth \in 0..Len(raw.parts) /\ place \in Dirs \cup Files
  BY DeepestAncestor
<1>2. ResolveForCreation(raw, allowed, confinement) =
        IF Empty(raw) THEN Refused
        ELSE IF ".." \in {rest[i] : i \in 1..Len(rest)} THEN Missing
        ELSE IF Confine(place, allowed, confinement) = Escapes THEN Escapes
        ELSE Confine(place, allowed, confinement) \o rest
  BY DEF ResolveForCreation
<1> HIDE DEF place, depth
<1>3. rest \in Seq(STRING)
  BY <1>1, RawPathType
<1> HIDE DEF rest
<1>4. /\ \A i \in 1..Len(rest) : rest[i] # ".."
      /\ Confine(place, allowed, confinement) # Escapes
      /\ ResolveForCreation(raw, allowed, confinement) = Confine(place, allowed, confinement) \o rest
  BY <1>2 DEF Resolved
<1>5. /\ ResolveForCreation(raw, allowed, confinement) = place \o rest
      /\ \/ Under(place, Project)
         \/ /\ confinement = "project_or_allowlisted"
            /\ \E dir \in allowed : Under(place, dir)
  BY <1>4, ConfineConfines
<1>6. place \in Seq(STRING) /\ Project \in Seq(STRING)
  BY <1>1, TreeAssumption
<1>7. \A dir \in Seq(STRING) : Under(place, dir) => Under(place \o rest, dir)
  BY <1>3, <1>6, UnderAppended
<1> QED
  BY <1>1, <1>3, <1>4, <1>5, <1>6, <1>7

\* In short, the place it returns lies where it may.
LEMMA NewPathIsUnder ==
  ASSUME NEW raw \in RawPaths, NEW allowed \in SUBSET Seq(STRING), NEW confinement,
         Resolved(ResolveForCreation(raw, allowed, confinement))
  PROVE  \/ Under(ResolveForCreation(raw, allowed, confinement), Project)
         \/ \E dir \in allowed : Under(ResolveForCreation(raw, allowed, confinement), dir)
<1>1. PICK base \in Dirs \cup Files, rest \in Seq(STRING) :
        /\ ResolveForCreation(raw, allowed, confinement) = base \o rest
        /\ \/ Under(base, Project) /\ Under(base \o rest, Project)
           \/ \E dir \in allowed : Under(base, dir) /\ Under(base \o rest, dir)
  BY NewPathIsConfined
<1> QED
  BY <1>1

-----------------------------------------------------------------------------
(* What follows from a section without an issue.                           *)

LEMMA NoIssues ==
  ASSUME NEW part, NEW at, NEW fields, Issues(part, at, fields) = {}
  PROVE  fields = {}
  BY DEF Issues

LEMMA NotWhen ==
  ASSUME NEW condition \in BOOLEAN, NEW field, When(condition, field) = {}
  PROVE  ~condition
  BY DEF When

\* PathPolicy::new: the directories of the allowlist exist.
LEMMA AllowlistExists ==
  ASSUME NEW d, WellFormed(d), Unusable(d) = {}
  PROVE  Allowed(d) \in SUBSET Seq(STRING)
<1>1. AllowlistUsable(Raw(d).allow_external_paths)
  BY DEF Unusable, Issues
<1>2. \A e \in Raw(d).allow_external_paths : e \in RawPaths
  BY DEF WellFormed, Raw
<1>3. \A e \in Raw(d).allow_external_paths : Canonical(<<>>, e.parts) \in Dirs \cup Files
  BY <1>1, <1>2, RawPathType, CanonicalExists, TreeAssumption DEF AllowlistUsable
<1> QED
  BY <1>3, TreeAssumption DEF Allowed, Allowlist

\* The time limits are positive and fit into each other.
LEMMA TimeoutsAreSound ==
  ASSUME NEW d, WellFormed(d), GeneralIssues(d) = {}
  PROVE  /\ Raw(d).startup_timeout \in 1..Raw(d).total_timeout
         /\ Raw(d).total_timeout <= MaxTimeout
<1>1. TimeoutFields(Raw(d)) = {}
  <2> DEFINE c == Raw(d)
             first == When(~IsIdentifier(c.name), "name")
                        \cup When(\E n \in c.project_name : ~IsIdentifier(n), "project_name")
  <2>1. PICK rest : GeneralIssues(d) = Issues("config", 1, first \cup TimeoutFields(c) \cup rest)
    <3> DEFINE rest == When(\E k \in c.environment : ~IsEnvEntry(k), "environment")
                         \cup When(c.formats = <<>> \/ Repeated(c.formats), "formats")
                         \cup When(c.max_command_output_bytes = 0, "max_command_output_bytes")
    <3>1. GeneralIssues(d) = Issues("config", 1, first \cup TimeoutFields(c) \cup rest)
      <4>1. first \cup TimeoutFields(c) \cup rest =
              first \cup TimeoutFields(c)
                \cup When(\E k \in c.environment : ~IsEnvEntry(k), "environment")
                \cup When(c.formats = <<>> \/ Repeated(c.formats), "formats")
                \cup When(c.max_command_output_bytes = 0, "max_command_output_bytes")
        OBVIOUS
      <4> QED
        BY <4>1 DEF GeneralIssues
    <3> QED
      BY <3>1
  <2> HIDE DEF first
  <2> QED
    BY <2>1, NoIssues
<1>2. Raw(d).startup_timeout \in Nat /\ Raw(d).total_timeout \in Nat
  BY DEF WellFormed, Raw
<1> QED
  BY <1>1, <1>2, LimitsAssumption DEF TimeoutFields, When

\* The Compose file is in the project, was audited and has services.
LEMMA ComposeIsSound ==
  ASSUME NEW d, WellFormed(d), ComposeIssues(d) = {}
  PROVE  /\ Resolved(ComposeFile(d)) /\ Under(ComposeFile(d), Project)
         /\ AuditedServices(d) # {}
<1>1. Raw(d).compose_file \in RawPaths
  BY DEF WellFormed, Raw
<1>2. /\ Resolved(ComposeFile(d)) /\ d["compose"][1].readable /\ d["compose"][1].parses
      /\ TopLevelErrors(d["compose"][1], Raw(d).network_isolated) = {}
  BY NoIssues DEF ComposeIssues, Issues
<1>3. Under(ComposeFile(d), Project)
  BY <1>1, <1>2, ExistingPathIsConfined DEF ComposeFile, File
<1>4. d["compose"][1].has_services /\ d["compose"][1].services # {}
  BY <1>2 DEF TopLevelErrors, When
<1> QED
  BY <1>2, <1>3, <1>4 DEF AuditedServices, ComposeAudited, ServicesOf

\* What wait_for names exists, if the services are known.
LEMMA WaitForIsSound ==
  ASSUME NEW d, WaitForIssues(d) = {}, AuditedServices(d) # {}
  PROVE  Raw(d).wait_for \subseteq AuditedServices(d)
<1>1. ~(\E s \in Raw(d).wait_for : ~Defined(s, AuditedServices(d)))
  BY NoIssues DEF WaitForIssues, When
<1> QED
  BY <1>1 DEF Defined

\* The checks of a checks file without an issue.
LEMMA ChecksAreSound ==
  ASSUME NEW d, WellFormed(d), ChecksIssues(d) = {}, AuditedServices(d) # {}
  PROVE  /\ Resolved(ChecksFile(d)) /\ Under(ChecksFile(d), Project)
         /\ \A i \in DOMAIN d["checks"] :
              d["checks"][i].enabled =>
                /\ d["checks"][i].type = "container" => d["checks"][i].service \in AuditedServices(d)
                /\ Executed(d["checks"][i]) => Raw(d).allow_command_checks
         /\ \A i \in DOMAIN d["checks"] :
              /\ Effective(d["checks"][i].timeout_seconds, d["checks_file"][1].timeout_seconds) > 0
              /\ Effective(d["checks"][i].attempts, d["checks_file"][1].attempts) > 0
         /\ \A i, j \in DOMAIN d["checks"] : i # j => d["checks"][i].id # d["checks"][j].id
<1>1. Raw(d).checks_file \in RawPaths
  BY DEF WellFormed, Raw
<1>2. /\ Resolved(ChecksFile(d))
      /\ DefaultIssues(d["checks_file"][1]) = {}
      /\ \A i \in DOMAIN d["checks"] :
           CheckIssues(d["checks"], i, Raw(d), AuditedServices(d)) = {}
  <2>1. Resolved(ChecksFile(d))
    BY DEF ChecksIssues, Issues
  <2>2. /\ Issues("checks_file", 1, DefaultIssues(d["checks_file"][1])) = {}
        /\ UNION {Issues("checks", i, CheckIssues(d["checks"], i, Raw(d), AuditedServices(d))) :
                    i \in DOMAIN d["checks"]} = {}
    BY <2>1 DEF ChecksIssues, Issues
  <2>3. \A i \in DOMAIN d["checks"] :
          Issues("checks", i, CheckIssues(d["checks"], i, Raw(d), AuditedServices(d))) = {}
    BY <2>2
  <2> QED
    BY <2>1, <2>2, <2>3, NoIssues
<1>3. Under(ChecksFile(d), Project)
  BY <1>1, <1>2, ExistingPathIsConfined DEF ChecksFile, File
<1>4. ASSUME NEW i \in DOMAIN d["checks"], d["checks"][i].enabled
      PROVE  /\ d["checks"][i].type = "container" => d["checks"][i].service \in AuditedServices(d)
             /\ Executed(d["checks"][i]) => Raw(d).allow_command_checks
  <2>1. KindIssues(d["checks"][i], Raw(d), AuditedServices(d)) = {}
    BY <1>2, <1>4 DEF CheckIssues
  <2>2. Executed(d["checks"][i]) => Raw(d).allow_command_checks
    BY <2>1 DEF KindIssues
  <2>3. ASSUME d["checks"][i].type = "container"
        PROVE  d["checks"][i].service \in AuditedServices(d)
    <3>1. ~Executed(d["checks"][i])
      BY <2>3 DEF Executed
    <3>2. ContainerIssues(d["checks"][i], AuditedServices(d)) = {}
      BY <2>1, <2>3, <3>1 DEF KindIssues
    <3>3. Defined(d["checks"][i].service, AuditedServices(d))
      BY <3>2 DEF ContainerIssues, When
    <3> QED
      BY <3>3 DEF Defined
  <2> QED
    BY <2>2, <2>3
<1>5. ASSUME NEW i \in DOMAIN d["checks"]
      PROVE  /\ Effective(d["checks"][i].timeout_seconds, d["checks_file"][1].timeout_seconds) > 0
             /\ Effective(d["checks"][i].attempts, d["checks_file"][1].attempts) > 0
  <2>1. CommonIssues(d["checks"][i]) = {} /\ DefaultIssues(d["checks_file"][1]) = {}
    BY <1>2 DEF CheckIssues
  <2>2. /\ d["checks"][i].timeout_seconds \subseteq Nat /\ d["checks"][i].attempts \subseteq Nat
        /\ d["checks_file"][1].timeout_seconds \in Nat /\ d["checks_file"][1].attempts \in Nat
    BY DEF WellFormed, CheckShape
  <2>3. /\ 0 \notin d["checks"][i].timeout_seconds /\ 0 \notin d["checks"][i].attempts
        /\ d["checks_file"][1].timeout_seconds # 0 /\ d["checks_file"][1].attempts # 0
    BY <2>1 DEF CommonIssues, DefaultIssues, When
  <2> QED
    BY <2>2, <2>3 DEF Effective
<1>6. ASSUME NEW i \in DOMAIN d["checks"], NEW j \in DOMAIN d["checks"], i # j
      PROVE  d["checks"][i].id # d["checks"][j].id
  <2>1. \A k \in DOMAIN d["checks"] : ~Duplicate(d["checks"], k)
    BY <1>2 DEF CheckIssues, When
  <2>2. i \in Nat \ {0} /\ j \in Nat \ {0}
    BY DEF WellFormed
  <2>3. CASE i < j
    BY <2>1, <2>2, <2>3 DEF Duplicate
  <2>4. CASE j < i
    BY <2>1, <2>2, <2>4 DEF Duplicate
  <2> QED
    BY <1>6, <2>2, <2>3, <2>4
<1> QED
  BY <1>2, <1>3, <1>4, <1>5, <1>6

\* The report directory is, or will be, where data may be.
LEMMA ReportDirIsSound ==
  ASSUME NEW d, WellFormed(d), Unusable(d) = {}, DirectoryIssues(d) = {}
  PROVE  /\ Resolved(ReportDir(d))
         /\ Under(ReportDir(d), Project) \/ \E dir \in Allowed(d) : Under(ReportDir(d), dir)
<1>1. Raw(d).report_directory \in RawPaths
  BY DEF WellFormed, Raw
<1>2. Resolved(ReportDir(d))
  BY DEF DirectoryIssues, Issues, When
<1>3. Allowed(d) \in SUBSET Seq(STRING)
  BY AllowlistExists
<1> QED
  BY <1>1, <1>2, <1>3, NewPathIsUnder DEF ReportDir

\* The backup can be found, and its secret has one source.
LEMMA BackupIsSound ==
  ASSUME NEW d, BackupIssues(d) = {}
  PROVE  /\ BackupResolved(d)
         /\ d["backup"][1].kind # "local" =>
              d["backup"][1].secret_file = {} \/ d["backup"][1].secret_env = {}
<1> DEFINE b == d["backup"][1]
<1>1. (IF b.kind = "local" THEN LocalFields(d, b) ELSE ToolFields(d, b)) = {}
  BY NoIssues DEF BackupIssues
<1>2. CASE b.kind = "local"
  BY <1>1, <1>2 DEF BackupResolved
<1>3. CASE b.kind # "local"
  <2>1. IsToken(b.repository) /\ ~RepositoryRefused(d, b) /\ SecretFields(d, b) = {}
    BY <1>1, <1>3 DEF ToolFields, RepositoryRefused
  <2> QED
    BY <1>3, <2>1 DEF BackupResolved, SecretFields
<1> QED
  BY <1>2, <1>3

\* The values that from_text() resolves, section by section.
ComposeValue(d) == When(Resolved(ComposeFile(d)), "compose_file")
ChecksValue(d) == When(Resolved(ChecksFile(d)), "checks_file")
BackupValues(d) == When(Resolved(ReportDir(d)), "report_dir") \cup When(BackupResolved(d), "backup")

\* Without an issue, everything is resolved: no section is silent about a value
\* it could not resolve.
LEMMA NothingUnresolved ==
  ASSUME NEW d, WellFormed(d), Unusable(d) = {}, Pass(d) = {}
  PROVE  ComposeValue(d) \cup ChecksValue(d) \cup BackupValues(d) = Required
<1>1. /\ ComposeIssues(d) = {} /\ ChecksIssues(d) = {}
      /\ DirectoryIssues(d) = {} /\ BackupIssues(d) = {}
  BY DEF Pass
<1>2. AuditedServices(d) # {} /\ Resolved(ComposeFile(d))
  BY <1>1, ComposeIsSound
<1>3. Resolved(ChecksFile(d)) /\ Resolved(ReportDir(d)) /\ BackupResolved(d)
  BY <1>1, <1>2, ChecksAreSound, ReportDirIsSound, BackupIsSound
<1> QED
  BY <1>2, <1>3 DEF ComposeValue, ChecksValue, BackupValues, When, Required

-----------------------------------------------------------------------------
(* The inductive invariant: how far from_text() is, and what it has found. *)

ProgressInv ==
  /\ pc \in {"load", "compose", "checks", "backup", "decide"} => outcome = "none"
  /\ pc \in {"compose", "checks", "backup", "decide"} => Unusable(doc) = {}
  /\ pc = "load" => issues = {} /\ resolved = {} /\ services = {}
  /\ pc = "compose" => issues = GeneralIssues(doc) /\ resolved = {} /\ services = {}
  /\ pc = "checks" =>
       /\ issues = GeneralIssues(doc) \cup ComposeIssues(doc) \cup WaitForIssues(doc)
       /\ resolved = ComposeValue(doc) /\ services = AuditedServices(doc)
  /\ pc = "backup" =>
       /\ issues = GeneralIssues(doc) \cup ComposeIssues(doc) \cup WaitForIssues(doc)
                     \cup ChecksIssues(doc)
       /\ resolved = ComposeValue(doc) \cup ChecksValue(doc)
       /\ services = AuditedServices(doc)

\* After the last section, all issues there are have been collected, whatever
\* section they are in, and the outcome is decided by them.
CollectedInv ==
  /\ pc \in {"decide", "done"} =>
       /\ issues = Pass(doc)
       /\ Unusable(doc) = {} =>
            /\ resolved = ComposeValue(doc) \cup ChecksValue(doc) \cup BackupValues(doc)
            /\ services = AuditedServices(doc)
  /\ pc = "done" =>
       \/ outcome = "refused" /\ issues # {}
       \/ outcome = "scenario" /\ issues = {} /\ resolved = Required
       \/ outcome = "unresolved" /\ issues = {} /\ resolved # Required

\* A repair leaves a configuration, and one that can be repaired again.
RepairInv ==
  /\ WellFormed(SoundFor(doc))
  /\ DOMAIN doc["checks"] = DOMAIN SoundFor(doc)["checks"]

IInv == TypeOK /\ RepairInv /\ ProgressInv /\ CollectedInv

\* The invariant is strong enough.
LEMMA IInvIsSound == IInv => ScenarioIsSound
<1> SUFFICES ASSUME IInv
             PROVE  ScenarioIsSound
  OBVIOUS
<1>1. WellFormed(doc)
  BY DEF IInv, TypeOK
<1>2. outcome # "none" => pc = "done" /\ issues = Pass(doc)
  BY DEF IInv, TypeOK, ProgressInv, CollectedInv
<1>3. Pass(doc) = {} => Unusable(doc) = {}
  BY DEF Pass
<1>4. outcome # "unresolved"
  <2> SUFFICES ASSUME outcome = "unresolved"
               PROVE  FALSE
    OBVIOUS
  <2>1. pc = "done" /\ issues = {} /\ resolved # Required /\ Pass(doc) = {}
    BY <1>2 DEF IInv, CollectedInv
  <2>2. resolved = ComposeValue(doc) \cup ChecksValue(doc) \cup BackupValues(doc)
    BY <1>3, <2>1 DEF IInv, CollectedInv
  <2> QED
    BY <1>1, <1>3, <2>1, <2>2, NothingUnresolved
<1>5. ASSUME outcome = "scenario"
      PROVE  /\ resolved = Required /\ services # {}
             /\ InProject(ComposeFile(doc)) /\ InProject(ChecksFile(doc)) /\ InArea(ReportDir(doc))
             /\ Raw(doc).wait_for \subseteq services
             /\ Raw(doc).startup_timeout \in 1..Raw(doc).total_timeout
             /\ Raw(doc).total_timeout <= MaxTimeout
             /\ \A c \in EnabledChecks :
                  /\ c.type = "container" => c.service \in services
                  /\ Executed(c) => Raw(doc).allow_command_checks
                  /\ Effective(c.timeout_seconds, doc["checks_file"][1].timeout_seconds) > 0
                  /\ Effective(c.attempts, doc["checks_file"][1].attempts) > 0
             /\ \A i, j \in DOMAIN doc["checks"] : i # j => doc["checks"][i].id # doc["checks"][j].id
             /\ doc["backup"][1].kind # "local" =>
                  doc["backup"][1].secret_file = {} \/ doc["backup"][1].secret_env = {}
  <2>1. pc = "done" /\ resolved = Required /\ Pass(doc) = {} /\ Unusable(doc) = {}
    BY <1>2, <1>3, <1>5 DEF IInv, CollectedInv
  <2>2. services = AuditedServices(doc)
    BY <2>1 DEF IInv, CollectedInv
  <2>3. /\ GeneralIssues(doc) = {} /\ ComposeIssues(doc) = {} /\ WaitForIssues(doc) = {}
        /\ ChecksIssues(doc) = {} /\ DirectoryIssues(doc) = {} /\ BackupIssues(doc) = {}
    BY <2>1 DEF Pass
  <2>4. InProject(ComposeFile(doc)) /\ services # {}
    BY <1>1, <2>2, <2>3, ComposeIsSound DEF InProject
  <2>5. Raw(doc).wait_for \subseteq services
    BY <2>2, <2>3, <2>4, WaitForIsSound
  <2>6. /\ Raw(doc).startup_timeout \in 1..Raw(doc).total_timeout
        /\ Raw(doc).total_timeout <= MaxTimeout
    BY <1>1, <2>3, TimeoutsAreSound
  <2>7. InArea(ReportDir(doc))
    BY <1>1, <2>1, <2>3, ReportDirIsSound DEF InArea, InProject
  <2>8. /\ InProject(ChecksFile(doc))
        /\ \A c \in EnabledChecks :
             /\ c.type = "container" => c.service \in services
             /\ Executed(c) => Raw(doc).allow_command_checks
             /\ Effective(c.timeout_seconds, doc["checks_file"][1].timeout_seconds) > 0
             /\ Effective(c.attempts, doc["checks_file"][1].attempts) > 0
        /\ \A i, j \in DOMAIN doc["checks"] : i # j => doc["checks"][i].id # doc["checks"][j].id
    BY <1>1, <2>2, <2>3, <2>4, ChecksAreSound DEF InProject, EnabledChecks
  <2>9. doc["backup"][1].kind # "local" =>
          doc["backup"][1].secret_file = {} \/ doc["backup"][1].secret_env = {}
    BY <2>3, BackupIsSound
  <2> QED
    BY <2>1, <2>4, <2>5, <2>6, <2>7, <2>8, <2>9
<1> QED
  BY <1>4, <1>5 DEF ScenarioIsSound

-----------------------------------------------------------------------------
(* An issue names a field that there is, and one that a repair may change. *)

Fixed == {"type", "kind"}

Names(d, i) ==
  /\ i[1] \in Parts /\ i[2] \in DOMAIN d[i[1]]
  /\ i[3] \in DOMAIN d[i[1]][i[2]] \ Fixed

LEMMA IssuesName ==
  ASSUME NEW d, NEW part \in Parts, NEW at \in DOMAIN d[part],
         NEW fields \in SUBSET (DOMAIN d[part][at] \ Fixed)
  PROVE  \A i \in Issues(part, at, fields) : Names(d, i)
  BY DEF Issues, Names

LEMMA ServiceErrorsName ==
  ASSUME NEW service, NEW dir, NEW security, NEW allowed
  PROVE  ServiceErrors(service, dir, security, allowed) \subseteq ServiceFields \ Fixed
  BY DEF When, ServiceErrors, PortErrors, ServiceFields, Fixed

LEMMA TopLevelErrorsName ==
  ASSUME NEW compose, NEW isolated
  PROVE  TopLevelErrors(compose, isolated) \subseteq ComposeFields \ Fixed
  BY DEF When, TopLevelErrors, ComposeFields, Fixed

\* The rules of a kind look at the fields of the kind.
LEMMA KindIssuesName ==
  ASSUME NEW c, CheckShape(c), NEW security, NEW services_
  PROVE  KindIssues(c, security, services_) \subseteq DOMAIN c \ Fixed
<1> USE DEF Fixed, When
<1>1. HttpIssues(c, security) \subseteq HttpFields \ Fixed
  BY DEF HttpIssues, HttpFields
<1>2. CommandIssues(c) \subseteq CommandFields \ Fixed
  BY DEF CommandIssues, CommandFields
<1>3. SqlIssues(c) \subseteq SqlFields \ Fixed
  BY DEF SqlIssues, SqlFields
<1>4. FileIssues(c) \subseteq FileFields \ Fixed
  BY DEF FileIssues, FileFields
<1>5. ContainerIssues(c, services_) \subseteq ContainerFields \ Fixed
  BY DEF ContainerIssues, ContainerFields
<1>6. ScriptIssues(c) \subseteq ScriptFields \ Fixed
  BY DEF ScriptIssues, ScriptFields
<1>7. {"enabled"} \subseteq CommonFields \ Fixed
  BY DEF CommonFields
<1>8. /\ DOMAIN c = CommonFields \cup KindFields[c.type]
      /\ c.type \in {"http", "command", "sql", "file", "container", "script"}
  BY DEF CheckShape, KindFields
<1>9. /\ KindFields["http"] = HttpFields /\ KindFields["command"] = CommandFields
      /\ KindFields["sql"] = SqlFields /\ KindFields["file"] = FileFields
      /\ KindFields["container"] = ContainerFields /\ KindFields["script"] = ScriptFields
  BY DEF KindFields
<1> QED
  BY <1>1, <1>2, <1>3, <1>4, <1>5, <1>6, <1>7, <1>8, <1>9 DEF KindIssues

LEMMA CheckIssuesName ==
  ASSUME NEW checks, NEW i, CheckShape(checks[i]), NEW security, NEW services_
  PROVE  CheckIssues(checks, i, security, services_) \subseteq DOMAIN checks[i] \ Fixed
<1>1. CommonIssues(checks[i]) \cup When(Duplicate(checks, i), "id") \subseteq CommonFields \ Fixed
  BY DEF When, CommonIssues, CommonFields, Fixed
<1>2. CommonFields \subseteq DOMAIN checks[i]
  BY DEF CheckShape
<1>3. KindIssues(checks[i], security, services_) \subseteq DOMAIN checks[i] \ Fixed
  BY KindIssuesName
<1> QED
  BY <1>1, <1>2, <1>3 DEF CheckIssues

LEMMA ConfigIssuesName ==
  ASSUME NEW d, WellFormed(d)
  PROVE  \A i \in Unusable(d) \cup GeneralIssues(d) \cup WaitForIssues(d) \cup DirectoryIssues(d) :
           Names(d, i)
<1>1. DOMAIN d["config"] = {1} /\ DOMAIN d["config"][1] = ConfigFields
  BY DEF WellFormed
<1>2. ASSUME NEW fields \in SUBSET (ConfigFields \ Fixed)
      PROVE  \A i \in Issues("config", 1, fields) : Names(d, i)
  BY <1>1, <1>2, IssuesName DEF Parts
<1> DEFINE C == ConfigFields \ Fixed
<1>3. {"parses", "name", "allow_external_paths", "project_name", "startup_timeout", "total_timeout",
       "environment", "formats", "max_command_output_bytes", "wait_for", "report_directory",
       "rpo_reference_file"} \subseteq C
  BY DEF ConfigFields, RecoveryFields, ReportFields, SecurityFields, Fixed
<1> HIDE DEF C
<1>4. \A i \in Unusable(d) : Names(d, i)
  <2>1. {"parses"} \subseteq C /\ {"allow_external_paths"} \subseteq C
    BY <1>3
  <2>2. \/ Unusable(d) = Issues("config", 1, {"parses"})
        \/ Unusable(d) = Issues("config", 1, {"allow_external_paths"})
        \/ Unusable(d) = {}
    BY DEF Unusable
  <2> QED
    BY <1>2, <2>1, <2>2 DEF C
<1>5. \A i \in GeneralIssues(d) : Names(d, i)
  <2>1. PICK fields : GeneralIssues(d) = Issues("config", 1, fields) /\ fields \subseteq C
    <3> DEFINE c == Raw(d)
               fields == When(~IsIdentifier(c.name), "name")
                   \cup When(\E n \in c.project_name : ~IsIdentifier(n), "project_name")
                   \cup TimeoutFields(c)
                   \cup When(\E k \in c.environment : ~IsEnvEntry(k), "environment")
                   \cup When(c.formats = <<>> \/ Repeated(c.formats), "formats")
                   \cup When(c.max_command_output_bytes = 0, "max_command_output_bytes")
    <3>1. GeneralIssues(d) = Issues("config", 1, fields)
      BY DEF GeneralIssues
    <3>2. fields \subseteq C
      BY <1>3 DEF When, TimeoutFields
    <3> HIDE DEF fields
    <3> QED
      BY <3>1, <3>2
  <2> QED
    BY <1>2, <2>1 DEF C
<1>6. \A i \in WaitForIssues(d) : Names(d, i)
  <2>1. When(\E s \in Raw(d).wait_for : ~Defined(s, AuditedServices(d)), "wait_for") \subseteq C
    BY <1>3 DEF When
  <2> QED
    BY <1>2, <2>1 DEF WaitForIssues, C
<1>7. \A i \in DirectoryIssues(d) : Names(d, i)
  <2>1. When(~Resolved(ReportDir(d)), "report_directory")
          \cup When(\E p \in Raw(d).rpo_reference_file : DataRefused(d, p), "rpo_reference_file")
          \subseteq C
    BY <1>3 DEF When
  <2> QED
    BY <1>2, <2>1 DEF DirectoryIssues, C
<1> QED
  BY <1>4, <1>5, <1>6, <1>7

LEMMA ComposeIssuesName ==
  ASSUME NEW d, WellFormed(d)
  PROVE  \A i \in ComposeIssues(d) : Names(d, i)
<1>1. /\ DOMAIN d["config"] = {1} /\ "compose_file" \in DOMAIN d["config"][1] \ Fixed
      /\ DOMAIN d["compose"] = {1} /\ DOMAIN d["compose"][1] = ComposeFields
      /\ {"readable", "parses"} \subseteq ComposeFields \ Fixed
  BY DEF WellFormed, ConfigFields, RecoveryFields, ComposeFields, Fixed
<1>2. \A i \in Issues("config", 1, {"compose_file"}) : Names(d, i)
  BY <1>1, IssuesName DEF Parts
<1>3. \A fields \in SUBSET (ComposeFields \ Fixed) :
        \A i \in Issues("compose", 1, fields) : Names(d, i)
  BY <1>1, IssuesName DEF Parts
<1>4. \A i \in ServiceIssues(d) : Names(d, i)
  <2>1. ASSUME NEW i \in ServiceIssues(d)
        PROVE  Names(d, i)
    <3>1. PICK n \in DOMAIN d["services"] :
            i \in Issues("services", n,
                    ServiceErrors(d["services"][n], Front(ComposeFile(d)), Raw(d), Allowed(d)))
      BY <2>1 DEF ServiceIssues
    <3>2. ServiceErrors(d["services"][n], Front(ComposeFile(d)), Raw(d), Allowed(d))
            \subseteq DOMAIN d["services"][n] \ Fixed
      BY ServiceErrorsName DEF WellFormed
    <3> QED
      BY <3>1, <3>2, IssuesName DEF Parts
  <2> QED
    BY <2>1
<1>5. TopLevelErrors(d["compose"][1], Raw(d).network_isolated) \subseteq ComposeFields \ Fixed
  BY TopLevelErrorsName
<1>6. \/ ComposeIssues(d) = Issues("config", 1, {"compose_file"})
      \/ ComposeIssues(d) = Issues("compose", 1, {"readable"})
      \/ ComposeIssues(d) = Issues("compose", 1, {"parses"})
      \/ ComposeIssues(d) =
           Issues("compose", 1, TopLevelErrors(d["compose"][1], Raw(d).network_isolated))
             \cup ServiceIssues(d)
  BY DEF ComposeIssues
<1>7. {"readable"} \subseteq ComposeFields \ Fixed /\ {"parses"} \subseteq ComposeFields \ Fixed
  BY <1>1
<1> QED
  BY <1>2, <1>3, <1>4, <1>5, <1>6, <1>7

LEMMA ChecksIssuesName ==
  ASSUME NEW d, WellFormed(d)
  PROVE  \A i \in ChecksIssues(d) : Names(d, i)
<1>1. /\ DOMAIN d["config"] = {1} /\ "checks_file" \in DOMAIN d["config"][1] \ Fixed
      /\ DOMAIN d["checks_file"] = {1} /\ DOMAIN d["checks_file"][1] = DocumentFields
      /\ {"readable", "parses", "any"} \subseteq DocumentFields \ Fixed
  BY DEF WellFormed, ConfigFields, DocumentFields, Fixed
<1>2. \A i \in Issues("config", 1, {"checks_file"}) : Names(d, i)
  BY <1>1, IssuesName DEF Parts
<1>3. \A fields \in SUBSET (DocumentFields \ Fixed) :
        \A i \in Issues("checks_file", 1, fields) : Names(d, i)
  BY <1>1, IssuesName DEF Parts
<1> DEFINE every == UNION {Issues("checks", i, CheckIssues(d["checks"], i, Raw(d), AuditedServices(d))) :
                             i \in DOMAIN d["checks"]}
<1>4. \A i \in every : Names(d, i)
  <2>1. ASSUME NEW i \in every
        PROVE  Names(d, i)
    <3>1. PICK n \in DOMAIN d["checks"] :
            i \in Issues("checks", n, CheckIssues(d["checks"], n, Raw(d), AuditedServices(d)))
      BY <2>1
    <3>2. CheckIssues(d["checks"], n, Raw(d), AuditedServices(d)) \subseteq DOMAIN d["checks"][n] \ Fixed
      BY CheckIssuesName DEF WellFormed
    <3> QED
      BY <3>1, <3>2, IssuesName DEF Parts
  <2> QED
    BY <2>1
<1>5. DefaultIssues(d["checks_file"][1]) \subseteq DocumentFields \ Fixed
  BY DEF DefaultIssues, When, DocumentFields, Fixed
<1>6. \/ ChecksIssues(d) = Issues("config", 1, {"checks_file"})
      \/ ChecksIssues(d) = Issues("checks_file", 1, {"readable"})
      \/ ChecksIssues(d) = Issues("checks_file", 1, {"parses"})
      \/ ChecksIssues(d) = Issues("checks_file", 1, {"any"})
      \/ ChecksIssues(d) = Issues("checks_file", 1, DefaultIssues(d["checks_file"][1])) \cup every
  BY DEF ChecksIssues
<1>7. \A f \in {"readable", "parses", "any"} : {f} \subseteq DocumentFields \ Fixed
  BY <1>1
<1> HIDE DEF every
<1> QED
  BY <1>2, <1>3, <1>4, <1>5, <1>6, <1>7

LEMMA BackupIssuesName ==
  ASSUME NEW d, WellFormed(d)
  PROVE  \A i \in BackupIssues(d) : Names(d, i)
<1> DEFINE b == d["backup"][1]
           fields == IF b.kind = "local" THEN LocalFields(d, b) ELSE ToolFields(d, b)
<1>1. DOMAIN d["backup"] = {1} /\ DOMAIN b = BackupFields(b.kind)
  BY DEF WellFormed
<1>2. fields \subseteq BackupFields(b.kind) \ Fixed
  <2>1. CASE b.kind = "local"
    BY <2>1 DEF LocalFields, BackupFields, When, Fixed
  <2>2. CASE b.kind # "local"
    BY <2>2 DEF ToolFields, SecretFields, BackupFields, When, Fixed
  <2> QED
    BY <2>1, <2>2
<1>3. BackupIssues(d) = Issues("backup", 1, fields)
  BY DEF BackupIssues
<1> HIDE DEF fields
<1> QED
  BY <1>1, <1>2, <1>3, IssuesName DEF Parts

LEMMA PassNames ==
  ASSUME NEW d, WellFormed(d)
  PROVE  \A i \in Pass(d) : Names(d, i)
  BY ConfigIssuesName, ComposeIssuesName, ChecksIssuesName, BackupIssuesName DEF Pass

-----------------------------------------------------------------------------
(* A repair.                                                               *)

\* What a repair of named fields changes, and what it leaves alone.
LEMMA RepairedField ==
  ASSUME NEW d, WellFormed(d), NEW S
  PROVE  LET e == WithRepairs(d, S)
         IN /\ DOMAIN e = Parts
            /\ \A part \in Parts :
                 /\ DOMAIN e[part] = DOMAIN d[part]
                 /\ \A at \in DOMAIN d[part] :
                      /\ DOMAIN e[part][at] = DOMAIN d[part][at]
                      /\ \A f \in DOMAIN d[part][at] :
                           e[part][at][f] = IF <<part, at, f>> \in S THEN Repaired(d, <<part, at, f>>)
                                            ELSE d[part][at][f]
<1>1. DOMAIN d = Parts
  BY DEF WellFormed
<1> QED
  BY <1>1 DEF WithRepairs

\* It leaves a configuration of the same kind that can be repaired again.
LEMMA RepairKeepsShape ==
  ASSUME NEW d, WellFormed(d), WellFormed(SoundFor(d)),
         DOMAIN d["checks"] = DOMAIN SoundFor(d)["checks"],
         NEW S, \A i \in S : i[3] \notin Fixed
  PROVE  /\ WellFormed(WithRepairs(d, S))
         /\ SoundFor(WithRepairs(d, S)) = SoundFor(d)
         /\ DOMAIN WithRepairs(d, S)["checks"] = DOMAIN d["checks"]
<1> DEFINE e == WithRepairs(d, S)
           s == SoundFor(d)
<1>1. /\ DOMAIN e = Parts
      /\ \A part \in Parts :
           /\ DOMAIN e[part] = DOMAIN d[part]
           /\ \A at \in DOMAIN d[part] :
                /\ DOMAIN e[part][at] = DOMAIN d[part][at]
                /\ \A f \in DOMAIN d[part][at] :
                     e[part][at][f] = IF <<part, at, f>> \in S THEN Repaired(d, <<part, at, f>>)
                                      ELSE d[part][at][f]
  BY RepairedField
<1>2. \A part \in Parts : \A at \in DOMAIN d[part] : \A f \in DOMAIN d[part][at] :
        /\ f \in Fixed => e[part][at][f] = d[part][at][f]
        /\ f # "enabled" => e[part][at][f] \in {d[part][at][f], s[part][at][f]}
  <2> TAKE part \in Parts
  <2> TAKE at \in DOMAIN d[part]
  <2> TAKE f \in DOMAIN d[part][at]
  <2>1. <<part, at, f>>[1] = part /\ <<part, at, f>>[2] = at /\ <<part, at, f>>[3] = f
    OBVIOUS
  <2>2. <<part, at, f>> \in S => f \notin Fixed
    BY <2>1
  <2>3. f # "enabled" => Repaired(d, <<part, at, f>>) = s[part][at][f]
    BY <2>1 DEF Repaired
  <2> QED
    BY <1>1, <2>2, <2>3
<1>3. e = [part \in Parts |-> [at \in DOMAIN e[part] |->
             [f \in DOMAIN e[part][at] |-> e[part][at][f]]]]
  <2>1. DOMAIN d = Parts
    BY DEF WellFormed
  <2> QED
    BY <1>1, <2>1 DEF WithRepairs
<1> HIDE DEF e
<1>4. \A part \in {"config", "compose", "checks_file", "backup"} : part \in Parts /\ DOMAIN e[part] = {1}
  BY <1>1 DEF WellFormed, Parts
<1>5. /\ DOMAIN e["services"] \subseteq Nat \ {0} /\ DOMAIN e["checks"] \subseteq Nat \ {0}
      /\ DOMAIN e["services"] = DOMAIN d["services"] /\ DOMAIN e["checks"] = DOMAIN d["checks"]
  BY <1>1 DEF WellFormed, Parts
<1>6. /\ DOMAIN e["config"][1] = ConfigFields
      /\ DOMAIN e["compose"][1] = ComposeFields
      /\ DOMAIN e["checks_file"][1] = DocumentFields
      /\ DOMAIN e["backup"][1] = BackupFields(d["backup"][1].kind)
      /\ \A i \in DOMAIN e["services"] : DOMAIN e["services"][i] = ServiceFields
  BY <1>1, <1>4, <1>5 DEF WellFormed, Parts
<1>7. e["backup"][1].kind = d["backup"][1].kind
  <2>1. "backup" \in Parts /\ 1 \in DOMAIN d["backup"] /\ "kind" \in DOMAIN d["backup"][1]
    BY DEF WellFormed, BackupFields, Parts
  <2> QED
    BY <1>2, <2>1 DEF Fixed
<1>8. /\ e["checks_file"][1].timeout_seconds \in Nat /\ e["checks_file"][1].attempts \in Nat
      /\ e["config"][1].startup_timeout \in Nat /\ e["config"][1].total_timeout \in Nat
      /\ e["config"][1].allow_external_paths \subseteq RawPaths
      /\ \A f \in {"compose_file", "checks_file", "report_directory"} : e["config"][1][f] \in RawPaths
  <2>1. /\ "config" \in Parts /\ "checks_file" \in Parts
        /\ 1 \in DOMAIN d["config"] /\ 1 \in DOMAIN d["checks_file"]
        /\ {"startup_timeout", "total_timeout", "allow_external_paths", "compose_file",
            "checks_file", "report_directory"} \subseteq DOMAIN d["config"][1]
        /\ {"timeout_seconds", "attempts"} \subseteq DOMAIN d["checks_file"][1]
    BY DEF WellFormed, Parts, ConfigFields, RecoveryFields, ReportFields, SecurityFields, DocumentFields
  <2>2. /\ \A f \in {"startup_timeout", "total_timeout", "allow_external_paths", "compose_file",
                     "checks_file", "report_directory"} :
             e["config"][1][f] \in {d["config"][1][f], s["config"][1][f]}
        /\ \A f \in {"timeout_seconds", "attempts"} :
             e["checks_file"][1][f] \in {d["checks_file"][1][f], s["checks_file"][1][f]}
    BY <1>2, <2>1
  <2> QED
    BY <2>2 DEF WellFormed
<1>9. \A i \in DOMAIN e["checks"] : CheckShape(e["checks"][i])
  <2> TAKE i \in DOMAIN e["checks"]
  <2>1. /\ "checks" \in Parts /\ i \in DOMAIN d["checks"] /\ i \in DOMAIN s["checks"]
        /\ CheckShape(d["checks"][i]) /\ CheckShape(s["checks"][i])
    BY <1>5 DEF WellFormed, Parts
  <2>2. {"type", "timeout_seconds", "attempts"} \subseteq DOMAIN d["checks"][i]
    BY <2>1 DEF CheckShape, CommonFields
  <2>3. /\ DOMAIN e["checks"][i] = DOMAIN d["checks"][i]
        /\ e["checks"][i].type = d["checks"][i].type
        /\ e["checks"][i].timeout_seconds \in
             {d["checks"][i].timeout_seconds, s["checks"][i].timeout_seconds}
        /\ e["checks"][i].attempts \in {d["checks"][i].attempts, s["checks"][i].attempts}
    BY <1>1, <1>2, <2>1, <2>2 DEF Fixed
  <2> QED
    BY <2>1, <2>3 DEF CheckShape
<1>10. WellFormed(e)
  BY <1>3, <1>4, <1>5, <1>6, <1>7, <1>8, <1>9 DEF WellFormed
<1> QED
  BY <1>5, <1>7, <1>10 DEF SoundFor, e

-----------------------------------------------------------------------------
(* The invariant holds in the beginning, and every step keeps it.          *)

\* What the audit returns are services that the file defines.
LEMMA AuditedAreDefined ==
  ASSUME NEW d
  PROVE  AuditedServices(d) \subseteq d["compose"][1].services
  BY DEF AuditedServices, ServicesOf

\* Everything that a section reports is about a field that there is.
LEMMA SectionsName ==
  ASSUME NEW d, WellFormed(d)
  PROVE  \A i \in Unusable(d) \cup GeneralIssues(d) \cup ComposeIssues(d) \cup WaitForIssues(d)
                    \cup ChecksIssues(d) \cup DirectoryIssues(d) \cup BackupIssues(d) :
           i[2] \in DOMAIN d[i[1]] /\ i[3] \in DOMAIN d[i[1]][i[2]]
  BY ConfigIssuesName, ComposeIssuesName, ChecksIssuesName, BackupIssuesName DEF Names

LEMMA InitIInv == Init => IInv
<1> SUFFICES ASSUME Init
             PROVE  IInv
  OBVIOUS
<1>1. WellFormed(doc) /\ RepairInv
  BY DocumentsAssumption DEF Init, RepairInv
<1>2. TypeOK
  BY <1>1, LimitsAssumption DEF Init, TypeOK
<1>3. ProgressInv /\ CollectedInv
  BY DEF Init, ProgressInv, CollectedInv
<1> QED
  BY <1>1, <1>2, <1>3 DEF IInv

\* What the steps of from_text() have in common.
LEMMA DocumentKept ==
  ASSUME TypeOK, RepairInv, UNCHANGED <<doc, rounds>>,
         pc' \in {"load", "compose", "checks", "backup", "decide", "done"},
         outcome' \in {"none", "scenario", "refused", "unresolved"},
         services' \subseteq doc["compose"][1].services,
         resolved' \subseteq Required,
         \A i \in issues' : i[2] \in DOMAIN doc[i[1]] /\ i[3] \in DOMAIN doc[i[1]][i[2]]
  PROVE  TypeOK' /\ RepairInv'
<1>1. RepairInv'
  BY DEF RepairInv
<1>2. TypeOK'
  BY DEF TypeOK
<1> QED
  BY <1>1, <1>2

LEMMA ValuesRequired ==
  ASSUME NEW d
  PROVE  /\ ComposeValue(d) \subseteq Required /\ ChecksValue(d) \subseteq Required
         /\ BackupValues(d) \subseteq Required
  BY DEF ComposeValue, ChecksValue, BackupValues, When, Required

\* One call of from_text() that does not end early goes through all sections.
LEMMA FromTextKeepsIInv ==
  ASSUME IInv, FromText
  PROVE  IInv'
<1>1. TypeOK /\ RepairInv /\ ProgressInv /\ CollectedInv /\ WellFormed(doc)
  BY DEF IInv, TypeOK
<1>2. \A i \in Unusable(doc) \cup GeneralIssues(doc) \cup ComposeIssues(doc) \cup WaitForIssues(doc)
                 \cup ChecksIssues(doc) \cup DirectoryIssues(doc) \cup BackupIssues(doc) :
        i[2] \in DOMAIN doc[i[1]] /\ i[3] \in DOMAIN doc[i[1]][i[2]]
  BY <1>1, SectionsName
<1>3. AuditedServices(doc) \subseteq doc["compose"][1].services
  BY AuditedAreDefined
<1>4. /\ ComposeValue(doc) \subseteq Required /\ ChecksValue(doc) \subseteq Required
      /\ BackupValues(doc) \subseteq Required
  BY ValuesRequired
<1>5. CASE LoadConfig
  <2>1. /\ UNCHANGED <<doc, rounds, services, resolved>> /\ pc = "load"
        /\ issues' \subseteq Unusable(doc) \cup GeneralIssues(doc)
        /\ pc' \in {"done", "compose"} /\ outcome' \in {"refused", "none"}
        /\ services = {} /\ resolved = {}
    BY <1>1, <1>5 DEF LoadConfig, ProgressInv
  <2>2. TypeOK' /\ RepairInv'
    BY <1>1, <1>2, <2>1, DocumentKept
  <2>3. CASE Unusable(doc) # {}
    <3>1. pc' = "done" /\ outcome' = "refused" /\ issues' = Unusable(doc) /\ doc' = doc
      BY <1>5, <2>3 DEF LoadConfig
    <3>2. Pass(doc') = issues' /\ Unusable(doc') # {}
      BY <2>3, <3>1 DEF Pass
    <3> QED
      BY <2>2, <2>3, <3>1, <3>2 DEF IInv, ProgressInv, CollectedInv
  <2>4. CASE Unusable(doc) = {}
    <3>1. /\ pc' = "compose" /\ outcome' = "none" /\ issues' = GeneralIssues(doc) /\ doc' = doc
          /\ services' = {} /\ resolved' = {}
      BY <1>1, <1>5, <2>1, <2>4 DEF LoadConfig, ProgressInv
    <3> QED
      BY <2>2, <2>4, <3>1 DEF IInv, ProgressInv, CollectedInv
  <2> QED
    BY <2>3, <2>4
<1>6. CASE AuditCompose
  <2>1. /\ UNCHANGED <<doc, rounds, outcome>> /\ pc' = "checks" /\ Unusable(doc) = {}
        /\ outcome = "none"
        /\ issues' = GeneralIssues(doc) \cup ComposeIssues(doc) \cup WaitForIssues(doc)
        /\ resolved' = ComposeValue(doc) /\ services' = AuditedServices(doc)
    BY <1>1, <1>6 DEF AuditCompose, ProgressInv, Resolves, ComposeValue
  <2>2. TypeOK' /\ RepairInv'
    BY <1>1, <1>2, <1>3, <1>4, <2>1, DocumentKept
  <2>3. ProgressInv' /\ CollectedInv'
    BY <2>1 DEF ProgressInv, CollectedInv
  <2> QED
    BY <2>2, <2>3 DEF IInv
<1>7. CASE ValidateChecks
  <2>1. /\ UNCHANGED <<doc, rounds, outcome>> /\ pc' = "backup" /\ Unusable(doc) = {}
        /\ outcome = "none"
        /\ issues' = GeneralIssues(doc) \cup ComposeIssues(doc) \cup WaitForIssues(doc)
                       \cup ChecksIssues(doc)
        /\ resolved' = ComposeValue(doc) \cup ChecksValue(doc)
        /\ services' = AuditedServices(doc)
    BY <1>1, <1>7 DEF ValidateChecks, ProgressInv, Resolves, ChecksValue
  <2>2. TypeOK' /\ RepairInv'
    BY <1>1, <1>2, <1>3, <1>4, <2>1, DocumentKept
  <2>3. ProgressInv' /\ CollectedInv'
    BY <2>1 DEF ProgressInv, CollectedInv
  <2> QED
    BY <2>2, <2>3 DEF IInv
<1>8. CASE ResolveBackup
  <2>1. /\ UNCHANGED <<doc, rounds, outcome>> /\ pc' = "decide" /\ Unusable(doc) = {}
        /\ outcome = "none"
        /\ issues' = GeneralIssues(doc) \cup ComposeIssues(doc) \cup WaitForIssues(doc)
                       \cup ChecksIssues(doc) \cup DirectoryIssues(doc) \cup BackupIssues(doc)
        /\ resolved' = ComposeValue(doc) \cup ChecksValue(doc) \cup BackupValues(doc)
        /\ services' = AuditedServices(doc)
    BY <1>1, <1>8 DEF ResolveBackup, ProgressInv, BackupValues
  <2>2. TypeOK' /\ RepairInv'
    BY <1>1, <1>2, <1>3, <1>4, <2>1, DocumentKept
  <2>3. issues' = Pass(doc)
    BY <2>1 DEF Pass
  <2>4. ProgressInv' /\ CollectedInv'
    BY <2>1, <2>3 DEF ProgressInv, CollectedInv
  <2> QED
    BY <2>2, <2>4 DEF IInv
<1>9. CASE Decide
  <2>1. /\ UNCHANGED <<doc, rounds, issues, resolved, services>> /\ pc' = "done"
        /\ Unusable(doc) = {} /\ issues = Pass(doc)
        /\ resolved = ComposeValue(doc) \cup ChecksValue(doc) \cup BackupValues(doc)
        /\ services = AuditedServices(doc)
        /\ \/ outcome' = "refused" /\ issues # {}
           \/ outcome' = "scenario" /\ issues = {} /\ resolved = Required
           \/ outcome' = "unresolved" /\ issues = {} /\ resolved # Required
    BY <1>1, <1>9 DEF Decide, ProgressInv, CollectedInv
  <2>2. /\ \A i \in issues : i[2] \in DOMAIN doc[i[1]] /\ i[3] \in DOMAIN doc[i[1]][i[2]]
        /\ services \subseteq doc["compose"][1].services /\ resolved \subseteq Required
    BY <1>1 DEF TypeOK
  <2>3. TypeOK' /\ RepairInv'
    BY <1>1, <2>1, <2>2, DocumentKept
  <2>4. ProgressInv' /\ CollectedInv'
    BY <2>1 DEF ProgressInv, CollectedInv
  <2> QED
    BY <2>3, <2>4 DEF IInv
<1> QED
  BY <1>5, <1>6, <1>7, <1>8, <1>9 DEF FromText

LEMMA RepairKeepsIInv ==
  ASSUME IInv, Repair
  PROVE  IInv'
<1>1. /\ WellFormed(doc) /\ WellFormed(SoundFor(doc))
      /\ DOMAIN doc["checks"] = DOMAIN SoundFor(doc)["checks"]
      /\ outcome = "refused"
  BY DEF IInv, TypeOK, RepairInv, Repair
<1>2. issues = Pass(doc)
  BY <1>1 DEF IInv, TypeOK, ProgressInv, CollectedInv
<1>3. \A i \in issues : i[3] \notin Fixed
  BY <1>1, <1>2, PassNames DEF Names
<1>4. /\ WellFormed(doc') /\ SoundFor(doc') = SoundFor(doc)
      /\ DOMAIN doc'["checks"] = DOMAIN doc["checks"]
  BY <1>1, <1>3, RepairKeepsShape DEF Repair
<1>5. RepairInv'
  BY <1>1, <1>4 DEF RepairInv
<1>6. rounds' \in 1..MaxRounds+1
  BY LimitsAssumption DEF IInv, TypeOK, Repair
<1>7. TypeOK'
  BY <1>4, <1>6 DEF TypeOK, Repair
<1>8. ProgressInv' /\ CollectedInv'
  BY DEF Repair, ProgressInv, CollectedInv
<1> QED
  BY <1>5, <1>7, <1>8 DEF IInv

LEMMA StepIInv == IInv /\ [Next]_vars => IInv'
<1> SUFFICES ASSUME IInv, [Next]_vars
             PROVE  IInv'
  OBVIOUS
<1>1. CASE FromText
  BY <1>1, FromTextKeepsIInv
<1>2. CASE Repair
  BY <1>2, RepairKeepsIInv
<1>3. CASE UNCHANGED vars
  BY <1>3 DEF vars, IInv, TypeOK, RepairInv, ProgressInv, CollectedInv
<1> QED
  BY <1>1, <1>2, <1>3 DEF Next, Terminated

\* What the sections of from_text() (scenario.rs) have found at each point of
\* the call, for every file tree, every configuration of the shape that the
\* parser lets through, and any number of repairs.
THEOREM Inductive == Spec => []IInv
  BY InitIInv, StepIInv, PTL DEF Spec

\* Type correctness: an issue names a field of the configuration that there
\* is, and the operator's repair leaves a configuration.
THEOREM TypeCorrect == Spec => []TypeOK
<1>1. IInv => TypeOK
  BY DEF IInv
<1> QED
  BY <1>1, Inductive, PTL

\* Every configuration that from_text() (scenario.rs) accepts is what the rest
\* of the program takes for granted, and one that it does not accept is refused
\* with an issue: the sections leave no value unresolved without a word.
THEOREM AcceptedIsSound == Spec => []ScenarioIsSound
  BY Inductive, IInvIsSound, PTL

-----------------------------------------------------------------------------
(* No false alarms: an issue stays when other parts are repaired.          *)

\* A field is reported in one section only.
LEMMA InIssues ==
  ASSUME NEW p, NEW a, NEW f, NEW part, NEW at, NEW fields
  PROVE  <<p, a, f>> \in Issues(part, at, fields) <=> p = part /\ a = at /\ f \in fields
  BY DEF Issues

\* The fields that rules look at, and none reports once they are usable.
Settings ==
  {"parses", "allow_external_paths", "network_isolated", "allow_command_checks",
   "allow_external_http_targets", "allow_published_ports"}

LEMMA SettingsUnreported ==
  ASSUME NEW d, Unusable(d) = {}, NEW f \in Settings
  PROVE  <<"config", 1, f>> \notin Pass(d)
<1> USE DEF Settings
<1>1. <<"config", 1, f>> \notin GeneralIssues(d)
  BY InIssues DEF GeneralIssues, TimeoutFields, When
<1>2. <<"config", 1, f>> \notin WaitForIssues(d) \cup DirectoryIssues(d) \cup BackupIssues(d)
  BY InIssues DEF WaitForIssues, DirectoryIssues, BackupIssues, When
<1>3. <<"config", 1, f>> \notin ComposeIssues(d)
  <2>1. <<"config", 1, f>> \notin ServiceIssues(d)
    BY InIssues DEF ServiceIssues
  <2> QED
    BY <2>1, InIssues DEF ComposeIssues
<1>4. <<"config", 1, f>> \notin ChecksIssues(d)
  <2>1. <<"config", 1, f>> \notin
          UNION {Issues("checks", i, CheckIssues(d["checks"], i, Raw(d), AuditedServices(d))) :
                   i \in DOMAIN d["checks"]}
    BY InIssues
  <2> QED
    BY <2>1, InIssues DEF ChecksIssues
<1> QED
  BY <1>1, <1>2, <1>3, <1>4 DEF Pass

LEMMA FilesUnreported ==
  ASSUME NEW d, Unusable(d) = {}
  PROVE  /\ <<"config", 1, "compose_file">> \in Pass(d) => ~Resolved(ComposeFile(d))
         /\ <<"config", 1, "checks_file">> \in Pass(d) => ~Resolved(ChecksFile(d))
<1> DEFINE every == UNION {Issues("checks", i, CheckIssues(d["checks"], i, Raw(d), AuditedServices(d))) :
                             i \in DOMAIN d["checks"]}
<1>1. ASSUME NEW f \in {"compose_file", "checks_file"}
      PROVE  <<"config", 1, f>> \notin GeneralIssues(d) \cup WaitForIssues(d)
                                         \cup DirectoryIssues(d) \cup BackupIssues(d)
  BY InIssues DEF GeneralIssues, TimeoutFields, WaitForIssues, DirectoryIssues, BackupIssues, When
<1>2. ASSUME NEW f \in {"compose_file", "checks_file"}
      PROVE  <<"config", 1, f>> \notin ServiceIssues(d) \cup every
  BY InIssues DEF ServiceIssues
<1>3. <<"config", 1, "compose_file">> \in ComposeIssues(d) => ~Resolved(ComposeFile(d))
  BY <1>2, InIssues DEF ComposeIssues
<1>4. <<"config", 1, "compose_file">> \notin ChecksIssues(d)
  BY <1>2, InIssues DEF ChecksIssues
<1>5. <<"config", 1, "checks_file">> \in ChecksIssues(d) => ~Resolved(ChecksFile(d))
  BY <1>2, InIssues DEF ChecksIssues
<1>6. <<"config", 1, "checks_file">> \notin ComposeIssues(d)
  BY <1>2, InIssues DEF ComposeIssues
<1> QED
  BY <1>1, <1>3, <1>4, <1>5, <1>6 DEF Pass

\* The issues of a part are those of one section.
LEMMA PartIssues ==
  ASSUME NEW d, Unusable(d) = {}, NEW n, NEW f
  PROVE  /\ <<"compose", n, f>> \in Pass(d) <=> <<"compose", n, f>> \in ComposeIssues(d)
         /\ <<"services", n, f>> \in Pass(d) <=> <<"services", n, f>> \in ComposeIssues(d)
         /\ <<"checks_file", n, f>> \in Pass(d) <=> <<"checks_file", n, f>> \in ChecksIssues(d)
         /\ <<"checks", n, f>> \in Pass(d) <=> <<"checks", n, f>> \in ChecksIssues(d)
         /\ <<"backup", n, f>> \in Pass(d) <=> <<"backup", n, f>> \in BackupIssues(d)
<1> DEFINE every == UNION {Issues("checks", i, CheckIssues(d["checks"], i, Raw(d), AuditedServices(d))) :
                             i \in DOMAIN d["checks"]}
<1>1. ASSUME NEW part \in Parts \ {"config"}
      PROVE  <<part, n, f>> \notin GeneralIssues(d) \cup WaitForIssues(d) \cup DirectoryIssues(d)
  <2>1. <<part, n, f>> \notin GeneralIssues(d)
    BY <1>1, InIssues DEF GeneralIssues
  <2>2. <<part, n, f>> \notin WaitForIssues(d)
    <3>1. PICK fields : WaitForIssues(d) = Issues("config", 1, fields)
      BY DEF WaitForIssues
    <3> QED
      BY <1>1, <3>1, InIssues
  <2>3. <<part, n, f>> \notin DirectoryIssues(d)
    BY <1>1, InIssues DEF DirectoryIssues
  <2> QED
    BY <2>1, <2>2, <2>3
<1>2. ASSUME NEW part \in Parts \ {"backup"}
      PROVE  <<part, n, f>> \notin BackupIssues(d)
  BY <1>2, InIssues DEF BackupIssues
<1>3. ASSUME NEW part \in Parts \ {"config", "compose", "services"}
      PROVE  <<part, n, f>> \notin ComposeIssues(d)
  <2>1. <<part, n, f>> \notin ServiceIssues(d)
    BY <1>3, InIssues DEF ServiceIssues
  <2> QED
    BY <1>3, <2>1, InIssues DEF ComposeIssues
<1>4. ASSUME NEW part \in Parts \ {"config", "checks_file", "checks"}
      PROVE  <<part, n, f>> \notin ChecksIssues(d)
  <2>1. <<part, n, f>> \notin every
    BY <1>4, InIssues
  <2> QED
    BY <1>4, <2>1, InIssues DEF ChecksIssues
<1> QED
  BY <1>1, <1>2, <1>3, <1>4 DEF Pass, Parts

\* What a Compose or checks file that is read has is not reported as missing.
LEMMA ContentUnreported ==
  ASSUME NEW d, Unusable(d) = {}
  PROVE  /\ <<"compose", 1, "readable">> \in Pass(d) => ~d["compose"][1].readable
         /\ <<"compose", 1, "parses">> \in Pass(d) => ~d["compose"][1].parses
         /\ <<"compose", 1, "has_services">> \in Pass(d) => ~d["compose"][1].has_services
         /\ <<"compose", 1, "services">> \in Pass(d) => d["compose"][1].services = {}
         /\ <<"checks_file", 1, "readable">> \in Pass(d) => ~d["checks_file"][1].readable
         /\ <<"checks_file", 1, "parses">> \in Pass(d) => ~d["checks_file"][1].parses
         /\ <<"checks_file", 1, "any">> \in Pass(d) => ~d["checks_file"][1].any
<1> DEFINE every == UNION {Issues("checks", i, CheckIssues(d["checks"], i, Raw(d), AuditedServices(d))) :
                             i \in DOMAIN d["checks"]}
           top == TopLevelErrors(d["compose"][1], Raw(d).network_isolated)
<1>1. \A f : <<"compose", 1, f>> \notin ServiceIssues(d) /\ <<"checks_file", 1, f>> \notin every
  BY InIssues DEF ServiceIssues
<1>2. /\ "readable" \notin top /\ "parses" \notin top
      /\ "has_services" \in top => ~d["compose"][1].has_services
      /\ "services" \in top => d["compose"][1].services = {}
  BY DEF TopLevelErrors, When
<1>3. \A f : <<"compose", 1, f>> \in ComposeIssues(d) =>
        \/ f = "readable" /\ ~d["compose"][1].readable
        \/ f = "parses" /\ ~d["compose"][1].parses
        \/ f \in top
  <2> TAKE f
  <2>1. CASE ~Resolved(ComposeFile(d))
    BY <2>1, InIssues DEF ComposeIssues
  <2>2. CASE ~d["compose"][1].readable
    BY <2>2, InIssues DEF ComposeIssues
  <2>3. CASE ~d["compose"][1].parses /\ d["compose"][1].readable
    BY <2>3, InIssues DEF ComposeIssues
  <2>4. CASE Resolved(ComposeFile(d)) /\ d["compose"][1].readable /\ d["compose"][1].parses
    <3>1. ComposeIssues(d) = Issues("compose", 1, top) \cup ServiceIssues(d)
      BY <2>4 DEF ComposeIssues
    <3> HIDE DEF top, every
    <3>2. <<"compose", 1, f>> \in Issues("compose", 1, top) => f \in top
      BY InIssues
    <3>3. <<"compose", 1, f>> \notin ServiceIssues(d)
      BY <1>1
    <3> QED
      BY <3>1, <3>2, <3>3
  <2> QED
    BY <2>1, <2>2, <2>3, <2>4
<1>4. \A f : <<"checks_file", 1, f>> \in ChecksIssues(d) =>
        \/ f = "readable" /\ ~d["checks_file"][1].readable
        \/ f = "parses" /\ ~d["checks_file"][1].parses
        \/ f = "any" /\ ~d["checks_file"][1].any
        \/ f \in DefaultIssues(d["checks_file"][1])
  BY <1>1, InIssues DEF ChecksIssues
<1>5. DefaultIssues(d["checks_file"][1]) \subseteq {"timeout_seconds", "attempts"}
  BY DEF DefaultIssues, When
<1> HIDE DEF top, every
<1>6. /\ <<"compose", 1, "readable">> \in ComposeIssues(d) => ~d["compose"][1].readable
      /\ <<"compose", 1, "parses">> \in ComposeIssues(d) => ~d["compose"][1].parses
      /\ <<"compose", 1, "has_services">> \in ComposeIssues(d) => ~d["compose"][1].has_services
      /\ <<"compose", 1, "services">> \in ComposeIssues(d) => d["compose"][1].services = {}
  BY <1>2, <1>3
<1>7. /\ <<"checks_file", 1, "readable">> \in ChecksIssues(d) => ~d["checks_file"][1].readable
      /\ <<"checks_file", 1, "parses">> \in ChecksIssues(d) => ~d["checks_file"][1].parses
      /\ <<"checks_file", 1, "any">> \in ChecksIssues(d) => ~d["checks_file"][1].any
  BY <1>4, <1>5
<1> QED
  BY <1>6, <1>7, PartIssues

\* A repair of other parts leaves a part as it is.
LEMMA PartKept ==
  ASSUME NEW d, WellFormed(d), NEW S, NEW part \in Parts, \A j \in S : j[1] # part
  PROVE  WithRepairs(d, S)[part] = d[part]
<1> DEFINE e == WithRepairs(d, S)
<1>1. DOMAIN d = Parts /\ d[part] = [at \in DOMAIN d[part] |-> [f \in DOMAIN d[part][at] |-> d[part][at][f]]]
  BY DEF WellFormed
<1>2. \A at, f : <<part, at, f>> \notin S
  <2> SUFFICES ASSUME NEW at, NEW f, <<part, at, f>> \in S
               PROVE  FALSE
    OBVIOUS
  <2>1. <<part, at, f>>[1] = part
    OBVIOUS
  <2> QED
    BY <2>1
<1>3. e[part] = [at \in DOMAIN d[part] |-> [f \in DOMAIN d[part][at] |->
                   IF <<part, at, f>> \in S THEN Repaired(d, <<part, at, f>>) ELSE d[part][at][f]]]
  BY <1>1 DEF WithRepairs
<1> QED
  BY <1>1, <1>2, <1>3

\* What a refusal does not name, a repair leaves alone.
\* A field that is not reported is not repaired.
LEMMA Unrepaired ==
  ASSUME NEW d, WellFormed(d), NEW S, NEW part \in Parts, NEW at \in DOMAIN d[part],
         NEW f \in DOMAIN d[part][at], <<part, at, f>> \notin S
  PROVE  WithRepairs(d, S)[part][at][f] = d[part][at][f]
  BY RepairedField

\* The settings that rules read from the configuration file are never reported,
\* and so a repair leaves them alone.
LEMMA SettingsKept ==
  ASSUME NEW d, WellFormed(d), Unusable(d) = {}, NEW S \in SUBSET Pass(d)
  PROVE  LET e == WithRepairs(d, S)
         IN /\ Raw(e).parses = Raw(d).parses
            /\ Raw(e).allow_external_paths = Raw(d).allow_external_paths
            /\ Raw(e).network_isolated = Raw(d).network_isolated
            /\ Raw(e).allow_command_checks = Raw(d).allow_command_checks
            /\ Raw(e).allow_external_http_targets = Raw(d).allow_external_http_targets
            /\ Raw(e).allow_published_ports = Raw(d).allow_published_ports
            /\ Unusable(e) = {} /\ Allowed(e) = Allowed(d)
<1> DEFINE e == WithRepairs(d, S)
<1>1. "config" \in Parts /\ 1 \in DOMAIN d["config"] /\ Settings \subseteq DOMAIN d["config"][1]
  BY DEF WellFormed, Parts, Settings, ConfigFields, SecurityFields, RecoveryFields
<1>2. \A f \in Settings : <<"config", 1, f>> \notin S
  BY SettingsUnreported
<1>3. \A f \in Settings : e["config"][1][f] = d["config"][1][f]
  <2> TAKE f \in Settings
  <2>1. f \in DOMAIN d["config"][1] /\ <<"config", 1, f>> \notin S
    BY <1>1, <1>2
  <2> QED
    BY <1>1, <2>1, Unrepaired
<1>4. \A f \in Settings : Raw(e)[f] = Raw(d)[f]
  BY <1>3 DEF Raw
<1> HIDE DEF e
<1>5. /\ Raw(e).parses = Raw(d).parses
      /\ Raw(e).allow_external_paths = Raw(d).allow_external_paths
      /\ Raw(e).network_isolated = Raw(d).network_isolated
      /\ Raw(e).allow_command_checks = Raw(d).allow_command_checks
      /\ Raw(e).allow_external_http_targets = Raw(d).allow_external_http_targets
      /\ Raw(e).allow_published_ports = Raw(d).allow_published_ports
  BY <1>4 DEF Settings
<1>6. Unusable(e) = {} /\ Allowed(e) = Allowed(d)
  <2>1. Raw(d).parses /\ AllowlistUsable(Raw(d).allow_external_paths)
    BY DEF Unusable, Issues
  <2> QED
    BY <1>5, <2>1 DEF Unusable, Allowed
<1> QED
  BY <1>5, <1>6 DEF e

\* A file that is found stays what it is, and so does what the audit found in it.
LEMMA FilesKept ==
  ASSUME NEW d, WellFormed(d), Unusable(d) = {}, NEW S \in SUBSET Pass(d)
  PROVE  LET e == WithRepairs(d, S)
         IN /\ Resolved(ComposeFile(d)) => ComposeFile(e) = ComposeFile(d)
            /\ Resolved(ChecksFile(d)) => ChecksFile(e) = ChecksFile(d)
            /\ ComposeAudited(d) => ComposeAudited(e)
            /\ AuditedServices(d) # {} => AuditedServices(e) = AuditedServices(d)
<1> DEFINE e == WithRepairs(d, S)
<1>1. /\ "config" \in Parts /\ 1 \in DOMAIN d["config"]
      /\ "compose_file" \in DOMAIN d["config"][1] /\ "checks_file" \in DOMAIN d["config"][1]
      /\ "compose" \in Parts /\ 1 \in DOMAIN d["compose"]
      /\ {"readable", "parses", "has_services", "services"} \subseteq DOMAIN d["compose"][1]
  BY DEF WellFormed, Parts, ConfigFields, RecoveryFields, ComposeFields
<1>2. Allowed(e) = Allowed(d)
  BY SettingsKept
<1>3. Resolved(ComposeFile(d)) => ComposeFile(e) = ComposeFile(d)
  <2> SUFFICES ASSUME Resolved(ComposeFile(d))
               PROVE  ComposeFile(e) = ComposeFile(d)
    OBVIOUS
  <2>1. <<"config", 1, "compose_file">> \notin S
    BY FilesUnreported
  <2>2. e["config"][1]["compose_file"] = d["config"][1]["compose_file"]
    BY <1>1, <2>1, Unrepaired
  <2> QED
    BY <1>2, <2>2 DEF ComposeFile, File, Raw
<1>4. Resolved(ChecksFile(d)) => ChecksFile(e) = ChecksFile(d)
  <2> SUFFICES ASSUME Resolved(ChecksFile(d))
               PROVE  ChecksFile(e) = ChecksFile(d)
    OBVIOUS
  <2>1. <<"config", 1, "checks_file">> \notin S
    BY FilesUnreported
  <2>2. e["config"][1]["checks_file"] = d["config"][1]["checks_file"]
    BY <1>1, <2>1, Unrepaired
  <2> QED
    BY <1>2, <2>2 DEF ChecksFile, File, Raw
<1>5. /\ d["compose"][1].readable => e["compose"][1].readable
      /\ d["compose"][1].parses => e["compose"][1].parses
  <2>1. ASSUME d["compose"][1].readable
        PROVE  e["compose"][1]["readable"] = d["compose"][1]["readable"]
    <3>1. <<"compose", 1, "readable">> \notin S
      BY <2>1, ContentUnreported
    <3> QED
      BY <1>1, <3>1, Unrepaired
  <2>2. ASSUME d["compose"][1].parses
        PROVE  e["compose"][1]["parses"] = d["compose"][1]["parses"]
    <3>1. <<"compose", 1, "parses">> \notin S
      BY <2>2, ContentUnreported
    <3> QED
      BY <1>1, <3>1, Unrepaired
  <2> HIDE DEF e
  <2> QED
    BY <2>1, <2>2
<1>6. ComposeAudited(d) => ComposeAudited(e)
  BY <1>3, <1>5 DEF ComposeAudited
<1>7. AuditedServices(d) # {} => AuditedServices(e) = AuditedServices(d)
  <2> SUFFICES ASSUME AuditedServices(d) # {}
               PROVE  AuditedServices(e) = AuditedServices(d)
    OBVIOUS
  <2>1. /\ ComposeAudited(d) /\ d["compose"][1].has_services
        /\ d["compose"][1].services # {}
    BY DEF AuditedServices, ServicesOf
  <2>2. <<"compose", 1, "has_services">> \notin S /\ <<"compose", 1, "services">> \notin S
    BY <2>1, ContentUnreported
  <2>3. /\ e["compose"][1]["has_services"] = d["compose"][1]["has_services"]
        /\ e["compose"][1]["services"] = d["compose"][1]["services"]
    BY <1>1, <2>2, Unrepaired
  <2> HIDE DEF e
  <2> QED
    BY <1>6, <2>1, <2>3 DEF AuditedServices, ServicesOf
<1> QED
  BY <1>3, <1>4, <1>6, <1>7

\* A rule of the configuration file looks at the file itself, and wait_for at
\* the services that were found.
LEMMA ConfigPersists ==
  ASSUME NEW d, WellFormed(d), Unusable(d) = {}, NEW S \in SUBSET Pass(d), \A j \in S : j[1] # "config",
         NEW n, NEW f, <<"config", n, f>> \in Pass(d)
  PROVE  <<"config", n, f>> \in Pass(WithRepairs(d, S))
<1> DEFINE e == WithRepairs(d, S)
           i == <<"config", n, f>>
<1>1. Raw(e) = Raw(d)
  BY PartKept DEF Raw, Parts
<1>2. Allowed(e) = Allowed(d) /\ Unusable(e) = {}
  BY SettingsKept
<1>3. AuditedServices(d) # {} => AuditedServices(e) = AuditedServices(d)
  BY FilesKept
<1> HIDE DEF e
<1>4. GeneralIssues(e) = GeneralIssues(d)
  BY <1>1 DEF GeneralIssues
<1>5. ComposeFile(e) = ComposeFile(d) /\ ChecksFile(e) = ChecksFile(d) /\ ReportDir(e) = ReportDir(d)
  BY <1>1, <1>2 DEF ComposeFile, ChecksFile, ReportDir, File
<1>6. DirectoryIssues(e) = DirectoryIssues(d)
  <2>1. \A p : DataRefused(e, p) <=> DataRefused(d, p)
    BY <1>2 DEF DataRefused, File
  <2> QED
    BY <1>1, <1>5, <2>1 DEF DirectoryIssues, When
<1>7. WaitForIssues(d) \subseteq WaitForIssues(e)
  BY <1>1, <1>3 DEF WaitForIssues, Defined, When, Issues
<1>8. i \in ComposeIssues(d) => i \in ComposeIssues(e)
  <2> SUFFICES ASSUME i \in ComposeIssues(d)
               PROVE  i \in ComposeIssues(e)
    OBVIOUS
  <2>1. i \notin ServiceIssues(d)
    BY InIssues DEF ServiceIssues
  <2>2. ~Resolved(ComposeFile(d)) /\ i \in Issues("config", 1, {"compose_file"})
    BY <2>1, InIssues DEF ComposeIssues
  <2> QED
    BY <1>5, <2>2 DEF ComposeIssues
<1>9. i \in ChecksIssues(d) => i \in ChecksIssues(e)
  <2> SUFFICES ASSUME i \in ChecksIssues(d)
               PROVE  i \in ChecksIssues(e)
    OBVIOUS
  <2>1. i \notin UNION {Issues("checks", k, CheckIssues(d["checks"], k, Raw(d), AuditedServices(d))) :
                          k \in DOMAIN d["checks"]}
    BY InIssues
  <2>2. ~Resolved(ChecksFile(d)) /\ i \in Issues("config", 1, {"checks_file"})
    BY <2>1, InIssues DEF ChecksIssues
  <2> QED
    BY <1>5, <2>2 DEF ChecksIssues
<1>10. i \notin BackupIssues(d)
  BY InIssues DEF BackupIssues
<1> HIDE DEF i
<1> QED
  BY <1>2, <1>4, <1>6, <1>7, <1>8, <1>9, <1>10 DEF Pass, e, i

\* A rule of the Compose file is applied whenever the file is found.
LEMMA ComposePersists ==
  ASSUME NEW d, WellFormed(d), Unusable(d) = {}, NEW S \in SUBSET Pass(d), \A j \in S : j[1] # "compose",
         NEW n, NEW f, <<"compose", n, f>> \in Pass(d)
  PROVE  <<"compose", n, f>> \in Pass(WithRepairs(d, S))
<1> DEFINE e == WithRepairs(d, S)
           i == <<"compose", n, f>>
<1>1. e["compose"] = d["compose"]
  BY PartKept DEF Parts
<1>2. Raw(e).network_isolated = Raw(d).network_isolated /\ Unusable(e) = {}
  BY SettingsKept
<1>3. i \in ComposeIssues(d) /\ i \notin ServiceIssues(d)
  <2>1. i \in ComposeIssues(d)
    BY PartIssues
  <2>2. i \notin ServiceIssues(d)
    BY InIssues DEF ServiceIssues
  <2> QED
    BY <2>1, <2>2
<1>4. Resolved(ComposeFile(d))
  <2>1. i \notin Issues("config", 1, {"compose_file"})
    BY InIssues
  <2> QED
    BY <1>3, <2>1 DEF ComposeIssues
<1>5. ComposeFile(e) = ComposeFile(d)
  BY <1>4, FilesKept
<1> HIDE DEF e, i
<1>6. i \in ComposeIssues(e)
  BY <1>1, <1>2, <1>3, <1>4, <1>5 DEF ComposeIssues
<1> QED
  BY <1>2, <1>6 DEF Pass, e, i

\* A rule of a service looks at the service, and at the switches of the
\* configuration file.
LEMMA ServicesPersist ==
  ASSUME NEW d, WellFormed(d), Unusable(d) = {}, NEW S \in SUBSET Pass(d), \A j \in S : j[1] # "services",
         NEW n, NEW f, <<"services", n, f>> \in Pass(d)
  PROVE  <<"services", n, f>> \in Pass(WithRepairs(d, S))
<1> DEFINE e == WithRepairs(d, S)
           i == <<"services", n, f>>
<1>1. e["services"] = d["services"]
  BY PartKept DEF Parts
<1>2. /\ Raw(e).allow_published_ports = Raw(d).allow_published_ports
      /\ Allowed(e) = Allowed(d) /\ Unusable(e) = {}
  BY SettingsKept
<1>3. i \in ComposeIssues(d)
  BY PartIssues
<1>4. ComposeAudited(d) /\ i \in ServiceIssues(d)
  <2>1. \A g : /\ i \notin Issues("config", 1, g)
               /\ i \notin Issues("compose", 1, g)
    BY InIssues
  <2> HIDE DEF i
  <2> QED
    BY <1>3, <2>1 DEF ComposeIssues, ComposeAudited
<1>5. PICK k \in DOMAIN d["services"] :
        /\ d["services"][k].name \in AuditedServices(d)
        /\ i \in Issues("services", k,
                   ServiceErrors(d["services"][k], Front(ComposeFile(d)), Raw(d), Allowed(d)))
  BY <1>4 DEF ServiceIssues
<1>6. AuditedServices(e) = AuditedServices(d) /\ ComposeFile(e) = ComposeFile(d) /\ ComposeAudited(e)
  <2>1. AuditedServices(d) # {} /\ Resolved(ComposeFile(d))
    BY <1>4, <1>5 DEF ComposeAudited
  <2> QED
    BY <1>4, <2>1, FilesKept
<1> HIDE DEF e, i
<1>7. \A service, dir, allowed :
        ServiceErrors(service, dir, Raw(e), allowed) = ServiceErrors(service, dir, Raw(d), allowed)
  BY <1>2 DEF ServiceErrors, PortErrors
<1>8. i \in ServiceIssues(e)
  BY <1>1, <1>2, <1>5, <1>6, <1>7 DEF ServiceIssues
<1>9. i \in ComposeIssues(e)
  BY <1>6, <1>8 DEF ComposeIssues, ComposeAudited
<1> QED
  BY <1>2, <1>9 DEF Pass, e, i

LEMMA ChecksFilePersists ==
  ASSUME NEW d, WellFormed(d), Unusable(d) = {}, NEW S \in SUBSET Pass(d), \A j \in S : j[1] # "checks_file",
         NEW n, NEW f, <<"checks_file", n, f>> \in Pass(d)
  PROVE  <<"checks_file", n, f>> \in Pass(WithRepairs(d, S))
<1> DEFINE e == WithRepairs(d, S)
           i == <<"checks_file", n, f>>
           every(c) == UNION {Issues("checks", k, CheckIssues(c["checks"], k, Raw(c), AuditedServices(c))) :
                                k \in DOMAIN c["checks"]}
<1>1. e["checks_file"] = d["checks_file"] /\ Unusable(e) = {}
  BY PartKept, SettingsKept DEF Parts
<1>2. i \in ChecksIssues(d) /\ i \notin every(d)
  <2>1. i \in ChecksIssues(d)
    BY PartIssues
  <2>2. i \notin every(d)
    BY InIssues
  <2> QED
    BY <2>1, <2>2
<1>3. Resolved(ChecksFile(d))
  <2>1. i \notin Issues("config", 1, {"checks_file"})
    BY InIssues
  <2> QED
    BY <1>2, <2>1 DEF ChecksIssues
<1>4. ChecksFile(e) = ChecksFile(d)
  BY <1>3, FilesKept
<1> HIDE DEF e, i
<1>5. i \in ChecksIssues(e)
  BY <1>1, <1>2, <1>3, <1>4 DEF ChecksIssues
<1> QED
  BY <1>1, <1>5 DEF Pass, e, i

\* The rules of a check: the more services are known, the more is reported.
LEMMA CheckIssuesPersist ==
  ASSUME NEW checks, NEW k, CheckShape(checks[k]), NEW s, NEW t, NEW found, NEW foundNow,
         s.allow_command_checks = t.allow_command_checks,
         s.allow_external_http_targets = t.allow_external_http_targets,
         found # {} => foundNow = found
  PROVE  CheckIssues(checks, k, s, found) \subseteq CheckIssues(checks, k, t, foundNow)
<1>1. \A c : HttpIssues(c, s) = HttpIssues(c, t)
  BY DEF HttpIssues, IsUrl
<1>2. \A c : ContainerIssues(c, found) \subseteq ContainerIssues(c, foundNow)
  BY DEF ContainerIssues, Defined, When
<1>3. KindIssues(checks[k], s, found) \subseteq KindIssues(checks[k], t, foundNow)
  BY <1>1, <1>2 DEF KindIssues
<1> QED
  BY <1>3 DEF CheckIssues

LEMMA ChecksPersist ==
  ASSUME NEW d, WellFormed(d), Unusable(d) = {}, NEW S \in SUBSET Pass(d), \A j \in S : j[1] # "checks",
         NEW n, NEW f, <<"checks", n, f>> \in Pass(d)
  PROVE  <<"checks", n, f>> \in Pass(WithRepairs(d, S))
<1> DEFINE e == WithRepairs(d, S)
           i == <<"checks", n, f>>
           errors(c, k) == CheckIssues(c["checks"], k, Raw(c), AuditedServices(c))
           every(c) == UNION {Issues("checks", k, errors(c, k)) : k \in DOMAIN c["checks"]}
<1>1. e["checks"] = d["checks"]
  BY PartKept DEF Parts
<1>2. /\ Raw(e).allow_command_checks = Raw(d).allow_command_checks
      /\ Raw(e).allow_external_http_targets = Raw(d).allow_external_http_targets
      /\ Unusable(e) = {}
  BY SettingsKept
<1>3. AuditedServices(d) # {} => AuditedServices(e) = AuditedServices(d)
  BY FilesKept
<1>4. i \in ChecksIssues(d)
  BY PartIssues
<1>5. \A g : i \notin Issues("config", 1, g) /\ i \notin Issues("checks_file", 1, g)
  BY InIssues
<1>6. /\ i \in every(d) /\ Resolved(ChecksFile(d))
      /\ d["checks_file"][1].readable /\ d["checks_file"][1].parses /\ d["checks_file"][1].any
  <2> HIDE DEF i
  <2> QED
    BY <1>4, <1>5 DEF ChecksIssues
<1>7. ChecksFile(e) = ChecksFile(d)
  BY <1>6, FilesKept
<1>8. e["checks_file"][1].readable /\ e["checks_file"][1].parses /\ e["checks_file"][1].any
  <2>1. /\ "checks_file" \in Parts /\ 1 \in DOMAIN d["checks_file"]
        /\ {"readable", "parses", "any"} \subseteq DOMAIN d["checks_file"][1]
    BY DEF WellFormed, Parts, DocumentFields
  <2>2. ASSUME NEW g \in {"readable", "parses", "any"}
        PROVE  e["checks_file"][1][g] = d["checks_file"][1][g]
    <3>1. <<"checks_file", 1, g>> \notin S /\ g \in DOMAIN d["checks_file"][1]
      BY <1>6, <2>1, ContentUnreported
    <3> QED
      BY <2>1, <3>1, Unrepaired
  <2>3. /\ e["checks_file"][1]["readable"] = d["checks_file"][1]["readable"]
        /\ e["checks_file"][1]["parses"] = d["checks_file"][1]["parses"]
        /\ e["checks_file"][1]["any"] = d["checks_file"][1]["any"]
    BY <2>2
  <2> HIDE DEF e
  <2> QED
    BY <1>6, <2>3
<1>9. PICK k \in DOMAIN d["checks"] : i \in Issues("checks", k, errors(d, k))
  BY <1>6
<1> HIDE DEF e, i
<1>10. errors(d, k) \subseteq errors(e, k)
  <2>1. CheckShape(d["checks"][k])
    BY DEF WellFormed
  <2> QED
    BY <1>1, <1>2, <1>3, <2>1, CheckIssuesPersist
<1>11. i \in every(e)
  <2> HIDE DEF errors
  <2>1. i \in Issues("checks", k, errors(e, k))
    BY <1>9, <1>10 DEF Issues
  <2> QED
    BY <1>1, <2>1
<1>12. i \in ChecksIssues(e)
  BY <1>6, <1>7, <1>8, <1>11 DEF ChecksIssues
<1> QED
  BY <1>2, <1>12 DEF Pass, e, i

LEMMA BackupPersists ==
  ASSUME NEW d, WellFormed(d), Unusable(d) = {}, NEW S \in SUBSET Pass(d), \A j \in S : j[1] # "backup",
         NEW n, NEW f, <<"backup", n, f>> \in Pass(d)
  PROVE  <<"backup", n, f>> \in Pass(WithRepairs(d, S))
<1> DEFINE e == WithRepairs(d, S)
           i == <<"backup", n, f>>
<1>1. e["backup"] = d["backup"]
  BY PartKept DEF Parts
<1>2. Allowed(e) = Allowed(d) /\ Unusable(e) = {}
  BY SettingsKept
<1>3. i \in BackupIssues(d)
  BY PartIssues
<1> HIDE DEF e, i
<1>4. \A p : DataRefused(e, p) <=> DataRefused(d, p)
  BY <1>2 DEF DataRefused, File
<1>5. \A b : LocalFields(e, b) = LocalFields(d, b)
  BY <1>4 DEF LocalFields, When
<1>6. \A b : ToolFields(e, b) = ToolFields(d, b)
  BY <1>4 DEF ToolFields, RepositoryRefused, SecretFields, When
<1>7. i \in BackupIssues(e)
  BY <1>1, <1>3, <1>5, <1>6 DEF BackupIssues
<1> QED
  BY <1>2, <1>7 DEF Pass, e, i

\* Every issue is of one part.
LEMMA IssuesAreTriples ==
  ASSUME NEW d, WellFormed(d), NEW i \in Pass(d)
  PROVE  i = <<i[1], i[2], i[3]>> /\ i[1] \in Parts
<1>1. i[1] \in Parts
  BY PassNames DEF Names
<1>2. \E part, at, f : i = <<part, at, f>>
  <2>1. ASSUME NEW part, NEW at, NEW fields, i \in Issues(part, at, fields)
        PROVE  \E p, a, f : i = <<p, a, f>>
    BY <2>1 DEF Issues
  <2>2. \E part, at, fields : i \in Issues(part, at, fields)
    <3>1. i \in GeneralIssues(d) => \E part, at, fields : i \in Issues(part, at, fields)
      BY DEF GeneralIssues
    <3>2. i \in WaitForIssues(d) => \E part, at, fields : i \in Issues(part, at, fields)
      BY DEF WaitForIssues
    <3>3. i \in DirectoryIssues(d) => \E part, at, fields : i \in Issues(part, at, fields)
      BY DEF DirectoryIssues
    <3>4. i \in BackupIssues(d) => \E part, at, fields : i \in Issues(part, at, fields)
      BY DEF BackupIssues
    <3>5. i \in ComposeIssues(d) => \E part, at, fields : i \in Issues(part, at, fields)
      BY DEF ComposeIssues, ServiceIssues
    <3>6. i \in ChecksIssues(d) => \E part, at, fields : i \in Issues(part, at, fields)
      BY DEF ChecksIssues
    <3>7. i \in Unusable(d) => \E part, at, fields : i \in Issues(part, at, fields)
      BY DEF Unusable
    <3> QED
      BY <3>1, <3>2, <3>3, <3>4, <3>5, <3>6, <3>7 DEF Pass
  <2> QED
    BY <2>1, <2>2
<1> QED
  BY <1>1, <1>2

LEMMA IInvIsNoFalseAlarm == IInv => NoFalseAlarm
<1> SUFFICES ASSUME IInv, outcome = "refused", Unusable(doc) = {}, NEW i \in issues
             PROVE  i \in Pass(WithRepairs(doc, {j \in issues : j[1] # i[1]}))
  BY DEF NoFalseAlarm
<1> DEFINE S == {j \in issues : j[1] # i[1]}
<1>1. WellFormed(doc) /\ issues = Pass(doc)
  BY DEF IInv, TypeOK, ProgressInv, CollectedInv
<1>2. /\ i = <<i[1], i[2], i[3]>> /\ i[1] \in Parts
      /\ S \in SUBSET Pass(doc) /\ \A j \in S : j[1] # i[1]
  BY <1>1, IssuesAreTriples
<1> HIDE DEF S
<1>3. CASE i[1] = "config"
  BY <1>1, <1>2, <1>3, ConfigPersists DEF S
<1>4. CASE i[1] = "compose"
  BY <1>1, <1>2, <1>4, ComposePersists DEF S
<1>5. CASE i[1] = "services"
  BY <1>1, <1>2, <1>5, ServicesPersist DEF S
<1>6. CASE i[1] = "checks_file"
  BY <1>1, <1>2, <1>6, ChecksFilePersists DEF S
<1>7. CASE i[1] = "checks"
  BY <1>1, <1>2, <1>7, ChecksPersist DEF S
<1>8. CASE i[1] = "backup"
  BY <1>1, <1>2, <1>8, BackupPersists DEF S
<1> QED
  BY <1>2, <1>3, <1>4, <1>5, <1>6, <1>7, <1>8 DEF Parts

\* An issue that validation reports (scenario.rs) is about the part it names:
\* it is still reported when what is reported of the other parts is repaired,
\* whatever the repair puts there.
THEOREM NoIssueIsAFalseAlarm == Spec => []NoFalseAlarm
  BY Inductive, IInvIsNoFalseAlarm, PTL

-----------------------------------------------------------------------------
(* What an issue hides: what the operator finds at the next attempt.       *)

\* A path inside the project is accepted whatever else is allowed.
LEMMA ExistingInProject ==
  ASSUME NEW raw, NEW allowed, NEW confinement,
         Resolved(ResolveExisting(raw, {}, confinement))
  PROVE  Resolved(ResolveExisting(raw, allowed, confinement))
  BY DEF ResolveExisting, Confine, Resolved

LEMMA NewInProject ==
  ASSUME NEW raw, NEW allowed, NEW confinement,
         Resolved(ResolveForCreation(raw, {}, confinement))
  PROVE  Resolved(ResolveForCreation(raw, allowed, confinement))
<1>1. \A p : Confine(p, {}, confinement) # Escapes => Confine(p, allowed, confinement) = Confine(p, {}, confinement)
  BY DEF Confine
<1>2. ~Resolved(Escapes)
  BY DEF Resolved
<1> QED
  BY <1>1, <1>2 DEF ResolveForCreation

\* The fields of the configuration file that are reported, rule by rule.
ConfigErrors(d) ==
  LET c == Raw(d)
  IN When(~IsIdentifier(c.name), "name")
     \cup When(\E n \in c.project_name : ~IsIdentifier(n), "project_name")
     \cup TimeoutFields(c)
     \cup When(\E k \in c.environment : ~IsEnvEntry(k), "environment")
     \cup When(c.formats = <<>> \/ Repeated(c.formats), "formats")
     \cup When(c.max_command_output_bytes = 0, "max_command_output_bytes")
     \cup When(~Resolved(ComposeFile(d)), "compose_file")
     \cup When(\E s \in c.wait_for : ~Defined(s, AuditedServices(d)), "wait_for")
     \cup When(~Resolved(ChecksFile(d)), "checks_file")
     \cup When(~Resolved(ReportDir(d)), "report_directory")
     \cup When(\E p \in c.rpo_reference_file : DataRefused(d, p), "rpo_reference_file")

LEMMA ConfigReported ==
  ASSUME NEW d, Unusable(d) = {}, NEW n, NEW f
  PROVE  <<"config", n, f>> \in Pass(d) <=> n = 1 /\ f \in ConfigErrors(d)
<1> DEFINE i == <<"config", n, f>>
           c == Raw(d)
           general == When(~IsIdentifier(c.name), "name")
                      \cup When(\E m \in c.project_name : ~IsIdentifier(m), "project_name")
                      \cup TimeoutFields(c)
                      \cup When(\E k \in c.environment : ~IsEnvEntry(k), "environment")
                      \cup When(c.formats = <<>> \/ Repeated(c.formats), "formats")
                      \cup When(c.max_command_output_bytes = 0, "max_command_output_bytes")
           compose == When(~Resolved(ComposeFile(d)), "compose_file")
           waits == When(\E s \in c.wait_for : ~Defined(s, AuditedServices(d)), "wait_for")
           checks == When(~Resolved(ChecksFile(d)), "checks_file")
           directories == When(~Resolved(ReportDir(d)), "report_directory")
                     \cup When(\E p \in c.rpo_reference_file : DataRefused(d, p), "rpo_reference_file")
           every == UNION {Issues("checks", k, CheckIssues(d["checks"], k, Raw(d), AuditedServices(d))) :
                             k \in DOMAIN d["checks"]}
<1> USE InIssues
<1>1. /\ GeneralIssues(d) = Issues("config", 1, general)
      /\ WaitForIssues(d) = Issues("config", 1, waits)
      /\ DirectoryIssues(d) = Issues("config", 1, directories)
  BY DEF GeneralIssues, WaitForIssues, DirectoryIssues
<1>2. i \notin ServiceIssues(d) /\ i \notin every /\ i \notin BackupIssues(d)
  BY DEF ServiceIssues, BackupIssues
<1>3. i \in ComposeIssues(d) <=> n = 1 /\ f \in compose
  <2>1. CASE Resolved(ComposeFile(d))
    <3>1. \A g : i \notin Issues("compose", 1, g)
      OBVIOUS
    <3> HIDE DEF i
    <3> QED
      BY <1>2, <2>1, <3>1 DEF ComposeIssues, When
  <2>2. CASE ~Resolved(ComposeFile(d))
    <3>1. ComposeIssues(d) = Issues("config", 1, {"compose_file"}) /\ compose = {"compose_file"}
      BY <2>2 DEF ComposeIssues, When
    <3> QED
      BY <3>1
  <2> QED
    BY <2>1, <2>2
<1>4. i \in ChecksIssues(d) <=> n = 1 /\ f \in checks
  <2>1. CASE Resolved(ChecksFile(d))
    <3>1. \A g : i \notin Issues("checks_file", 1, g)
      OBVIOUS
    <3> HIDE DEF i
    <3> QED
      BY <1>2, <2>1, <3>1 DEF ChecksIssues, When
  <2>2. CASE ~Resolved(ChecksFile(d))
    <3>1. ChecksIssues(d) = Issues("config", 1, {"checks_file"}) /\ checks = {"checks_file"}
      BY <2>2 DEF ChecksIssues, When
    <3> QED
      BY <3>1
  <2> QED
    BY <2>1, <2>2
<1>5. ConfigErrors(d) = general \cup compose \cup waits \cup checks \cup directories
  BY DEF ConfigErrors
<1> HIDE DEF i, general, compose, waits, checks, directories, every
<1>6. i \in Pass(d) <=> \/ i \in Issues("config", 1, general) \/ i \in ComposeIssues(d)
                        \/ i \in Issues("config", 1, waits) \/ i \in ChecksIssues(d)
                        \/ i \in Issues("config", 1, directories)
  BY <1>1, <1>2 DEF Pass
<1>7. \A g : i \in Issues("config", 1, g) <=> n = 1 /\ f \in g
  BY DEF i
<1>8. i \in Pass(d) <=> n = 1 /\ f \in ConfigErrors(d)
  BY <1>3, <1>4, <1>5, <1>6, <1>7
<1> QED
  BY <1>8 DEF i

\* The configuration file after a repair of all that was reported.
LEMMA SettingsRepaired ==
  ASSUME NEW d, WellFormed(d), Unusable(d) = {}, NEW f \in ConfigFields
  PROVE  Raw(WithRepairs(d, Pass(d)))[f] =
           IF f \in ConfigErrors(d) THEN Raw(SoundFor(d))[f] ELSE Raw(d)[f]
<1>1. "config" \in Parts /\ 1 \in DOMAIN d["config"] /\ f \in DOMAIN d["config"][1] /\ f # "enabled"
  BY DEF WellFormed, Parts, ConfigFields, RecoveryFields, ReportFields, SecurityFields
<1>2. <<"config", 1, f>> \in Pass(d) <=> f \in ConfigErrors(d)
  BY ConfigReported
<1>3. Repaired(d, <<"config", 1, f>>) = SoundFor(d)["config"][1][f]
  BY <1>1 DEF Repaired
<1> QED
  BY <1>1, <1>2, <1>3, RepairedField DEF Raw

\* A set of named fields, and the field that a rule names.
LEMMA ErrorsNamed ==
  ASSUME NEW d
  PROVE  LET c == Raw(d)
             E == ConfigErrors(d)
         IN /\ "name" \in E <=> ~IsIdentifier(c.name)
            /\ "project_name" \in E <=> \E n \in c.project_name : ~IsIdentifier(n)
            /\ "startup_timeout" \in E <=> c.startup_timeout \notin 1..MaxTimeout
            /\ "total_timeout" \in E <=> \/ c.total_timeout \notin 1..MaxTimeout
                                         \/ c.total_timeout < c.startup_timeout
            /\ "environment" \in E <=> \E k \in c.environment : ~IsEnvEntry(k)
            /\ "formats" \in E <=> c.formats = <<>> \/ Repeated(c.formats)
            /\ "max_command_output_bytes" \in E <=> c.max_command_output_bytes = 0
            /\ "compose_file" \in E <=> ~Resolved(ComposeFile(d))
            /\ "wait_for" \in E <=> \E s \in c.wait_for : ~Defined(s, AuditedServices(d))
            /\ "checks_file" \in E <=> ~Resolved(ChecksFile(d))
            /\ "report_directory" \in E <=> ~Resolved(ReportDir(d))
            /\ "rpo_reference_file" \in E <=> \E p \in c.rpo_reference_file : DataRefused(d, p)
            /\ E \subseteq {"name", "project_name", "startup_timeout", "total_timeout", "environment",
                            "formats", "max_command_output_bytes", "compose_file", "wait_for",
                            "checks_file", "report_directory", "rpo_reference_file"}
  BY DEF ConfigErrors, TimeoutFields, When

\* The services that the audit finds are those of before, unless something left
\* none to be found.
LEMMA AuditRepeated ==
  ASSUME NEW d, WellFormed(d), Unusable(d) = {}, \A i \in Pass(d) : i \notin NoServices
  PROVE  AuditedServices(WithRepairs(d, Pass(d))) = AuditedServices(d)
<1> DEFINE e == WithRepairs(d, Pass(d))
<1>1. /\ <<"config", 1, "compose_file">> \notin Pass(d)
      /\ \A f \in {"readable", "parses", "has_services", "services"} :
           <<"compose", 1, f>> \notin Pass(d)
  BY DEF NoServices, NoCompose
<1>2. \A f \in {"readable", "parses", "has_services", "services"} :
        e["compose"][1][f] = d["compose"][1][f]
  <2>1. /\ "compose" \in Parts /\ 1 \in DOMAIN d["compose"]
        /\ {"readable", "parses", "has_services", "services"} \subseteq DOMAIN d["compose"][1]
    BY DEF WellFormed, Parts, ComposeFields
  <2> QED
    BY <1>1, <2>1, Unrepaired
<1>3. ComposeFile(e) = ComposeFile(d)
  <2>1. Resolved(ComposeFile(d))
    BY <1>1, ConfigReported, ErrorsNamed
  <2> QED
    BY <2>1, FilesKept
<1> HIDE DEF e
<1>4. ServicesOf(e["compose"][1]) = ServicesOf(d["compose"][1])
  BY <1>2 DEF ServicesOf
<1>5. AuditedServices(e) = AuditedServices(d)
  BY <1>2, <1>3, <1>4 DEF AuditedServices, ComposeAudited
<1> QED
  BY <1>5 DEF e

\* Without an issue of the general rules, no field of theirs is at fault.
LEMMA GeneralIsSound ==
  ASSUME NEW d, GeneralIssues(d) = {}
  PROVE  LET c == Raw(d)
         IN /\ IsIdentifier(c.name) /\ \A n \in c.project_name : IsIdentifier(n)
            /\ c.startup_timeout \in 1..MaxTimeout /\ c.total_timeout \in 1..MaxTimeout
            /\ ~(c.total_timeout < c.startup_timeout)
            /\ \A k \in c.environment : IsEnvEntry(k)
            /\ c.formats # <<>> /\ ~Repeated(c.formats)
            /\ c.max_command_output_bytes # 0
<1> DEFINE c == Raw(d)
           fields == When(~IsIdentifier(c.name), "name")
                     \cup When(\E n \in c.project_name : ~IsIdentifier(n), "project_name")
                     \cup TimeoutFields(c)
                     \cup When(\E k \in c.environment : ~IsEnvEntry(k), "environment")
                     \cup When(c.formats = <<>> \/ Repeated(c.formats), "formats")
                     \cup When(c.max_command_output_bytes = 0, "max_command_output_bytes")
<1>1. fields = {}
  <2>1. GeneralIssues(d) = Issues("config", 1, fields)
    BY DEF GeneralIssues
  <2> HIDE DEF fields
  <2> QED
    BY <2>1, NoIssues
<1>2. /\ \A condition, field : When(condition, field) = {} => ~condition
  BY NotWhen
<1>3. /\ When(~IsIdentifier(c.name), "name") = {}
      /\ When(\E n \in c.project_name : ~IsIdentifier(n), "project_name") = {}
      /\ When(c.startup_timeout \notin 1..MaxTimeout, "startup_timeout") = {}
      /\ When(c.total_timeout \notin 1..MaxTimeout, "total_timeout") = {}
      /\ When(c.total_timeout < c.startup_timeout, "total_timeout") = {}
      /\ When(\E k \in c.environment : ~IsEnvEntry(k), "environment") = {}
      /\ When(c.formats = <<>> \/ Repeated(c.formats), "formats") = {}
      /\ When(c.max_command_output_bytes = 0, "max_command_output_bytes") = {}
  BY <1>1 DEF TimeoutFields
<1> QED
  BY <1>2, <1>3

\* The time limits of which one was repaired fit into each other.
LEMMA LimitsRepaired ==
  ASSUME NEW a \in Nat, NEW b \in Nat, NEW s \in 1..MaxTimeout, NEW t \in 1..MaxTimeout, s <= t,
         a \in 1..MaxTimeout => a <= t, b \in 1..MaxTimeout => s <= b,
         NEW x, x = IF a \notin 1..MaxTimeout THEN s ELSE a,
         NEW y, y = IF b \notin 1..MaxTimeout \/ b < a THEN t ELSE b
  PROVE  x \in 1..MaxTimeout /\ y \in 1..MaxTimeout /\ ~(y < x)
  BY LimitsAssumption

\* All faults of the configuration file are reported at once, except that
\* wait_for is looked up only if the audit has found a service.
LEMMA ConfigAtOnce ==
  ASSUME NEW d, WellFormed(d), WellFormed(SoundFor(d)), Unusable(d) = {}, RepairsFit(d),
         NEW f \in ConfigErrors(WithRepairs(d, Pass(d)))
  PROVE  f = "wait_for" /\ \E i \in Pass(d) : i \in NoServices
<1> DEFINE e == WithRepairs(d, Pass(d))
           c == Raw(d)
           s == Raw(SoundFor(d))
           E == ConfigErrors(d)
           x == Raw(e)
<1>1. \A g \in ConfigFields : x[g] = IF g \in E THEN s[g] ELSE c[g]
  BY SettingsRepaired
<1>2. /\ x.name = IF "name" \in E THEN s.name ELSE c.name
      /\ x.project_name = IF "project_name" \in E THEN s.project_name ELSE c.project_name
      /\ x.startup_timeout = IF "startup_timeout" \in E THEN s.startup_timeout ELSE c.startup_timeout
      /\ x.total_timeout = IF "total_timeout" \in E THEN s.total_timeout ELSE c.total_timeout
      /\ x.environment = IF "environment" \in E THEN s.environment ELSE c.environment
      /\ x.formats = IF "formats" \in E THEN s.formats ELSE c.formats
      /\ x.max_command_output_bytes =
           IF "max_command_output_bytes" \in E THEN s.max_command_output_bytes ELSE c.max_command_output_bytes
      /\ x.compose_file = IF "compose_file" \in E THEN s.compose_file ELSE c.compose_file
      /\ x.wait_for = IF "wait_for" \in E THEN s.wait_for ELSE c.wait_for
      /\ x.checks_file = IF "checks_file" \in E THEN s.checks_file ELSE c.checks_file
      /\ x.report_directory = IF "report_directory" \in E THEN s.report_directory ELSE c.report_directory
      /\ x.rpo_reference_file = IF "rpo_reference_file" \in E THEN s.rpo_reference_file ELSE c.rpo_reference_file
  BY <1>1 DEF ConfigFields, RecoveryFields, ReportFields, SecurityFields
<1>3. Allowed(e) = Allowed(d)
  BY SettingsKept
<1> HIDE DEF e, E, x
<1>4. /\ "name" \notin ConfigErrors(e) /\ "project_name" \notin ConfigErrors(e)
      /\ "environment" \notin ConfigErrors(e) /\ "formats" \notin ConfigErrors(e)
      /\ "max_command_output_bytes" \notin ConfigErrors(e)
  <2>1. GeneralIssues(SoundFor(d)) = {}
    BY DEF RepairsFit
  <2> QED
    BY <1>2, <2>1, ErrorsNamed, GeneralIsSound DEF E, x
<1>5. "startup_timeout" \notin ConfigErrors(e) /\ "total_timeout" \notin ConfigErrors(e)
  <2>1. GeneralIssues(SoundFor(d)) = {}
    BY DEF RepairsFit
  <2>2. /\ s.startup_timeout \in 1..MaxTimeout /\ s.total_timeout \in 1..MaxTimeout
        /\ ~(s.total_timeout < s.startup_timeout)
    BY <2>1, GeneralIsSound
  <2>3. /\ c.startup_timeout \in 1..MaxTimeout => c.startup_timeout <= s.total_timeout
        /\ c.total_timeout \in 1..MaxTimeout => s.startup_timeout <= c.total_timeout
    BY DEF RepairsFit
  <2>4. c.startup_timeout \in Nat /\ c.total_timeout \in Nat
    BY DEF WellFormed, Raw
  <2>5. s.startup_timeout <= s.total_timeout
    BY <2>2, LimitsAssumption
  <2>6. /\ x.startup_timeout = IF c.startup_timeout \notin 1..MaxTimeout THEN s.startup_timeout
                               ELSE c.startup_timeout
        /\ x.total_timeout = IF c.total_timeout \notin 1..MaxTimeout \/ c.total_timeout < c.startup_timeout
                             THEN s.total_timeout ELSE c.total_timeout
    BY <1>2, ErrorsNamed DEF E
  <2>7. /\ x.startup_timeout \in 1..MaxTimeout /\ x.total_timeout \in 1..MaxTimeout
        /\ ~(x.total_timeout < x.startup_timeout)
    BY <2>2, <2>3, <2>4, <2>5, <2>6, LimitsRepaired
  <2> QED
    BY <2>7, ErrorsNamed DEF x
<1>6. "compose_file" \notin ConfigErrors(e) /\ "checks_file" \notin ConfigErrors(e)
  <2>1. /\ Resolved(ResolveExisting(s.compose_file, Allowed(d), "project_only"))
        /\ Resolved(ResolveExisting(s.checks_file, Allowed(d), "project_only"))
    BY ExistingInProject DEF RepairsFit
  <2>2. /\ "compose_file" \in E <=> ~Resolved(ResolveExisting(c.compose_file, Allowed(d), "project_only"))
        /\ "checks_file" \in E <=> ~Resolved(ResolveExisting(c.checks_file, Allowed(d), "project_only"))
    BY ErrorsNamed DEF E, ComposeFile, ChecksFile, File
  <2>3. Resolved(ComposeFile(e)) /\ Resolved(ChecksFile(e))
    BY <1>2, <1>3, <2>1, <2>2 DEF ComposeFile, ChecksFile, File, x
  <2> QED
    BY <2>3, ErrorsNamed
<1>7. "report_directory" \notin ConfigErrors(e)
  <2>1. Resolved(ResolveForCreation(s.report_directory, Allowed(d), "project_or_allowlisted"))
    BY NewInProject DEF RepairsFit
  <2>2. "report_directory" \in E <=>
          ~Resolved(ResolveForCreation(c.report_directory, Allowed(d), "project_or_allowlisted"))
    BY ErrorsNamed DEF E, ReportDir
  <2>3. Resolved(ReportDir(e))
    BY <1>2, <1>3, <2>1, <2>2 DEF ReportDir, x
  <2> QED
    BY <2>3, ErrorsNamed
<1>8. "rpo_reference_file" \notin ConfigErrors(e)
  <2>1. \A p : DataRefused(e, p) <=> DataRefused(d, p)
    BY <1>3 DEF DataRefused, File
  <2>2. \A p \in s.rpo_reference_file : ~DataRefused(d, p)
    BY ExistingInProject DEF RepairsFit, DataRefused, File
  <2>3. \A p \in x.rpo_reference_file : ~DataRefused(e, p)
    BY <1>2, <2>1, <2>2, ErrorsNamed DEF E
  <2> QED
    BY <2>3, ErrorsNamed DEF x
<1>9. ASSUME \A i \in Pass(d) : i \notin NoServices
      PROVE  "wait_for" \notin ConfigErrors(e)
  <2>1. AuditedServices(e) = AuditedServices(d)
    BY <1>9, AuditRepeated DEF e
  <2>2. \A n \in s.wait_for : Defined(n, AuditedServices(d))
    BY DEF RepairsFit, Defined, AuditedServices, ServicesOf
  <2>3. \A n \in x.wait_for : Defined(n, AuditedServices(e))
    BY <1>2, <2>1, <2>2, ErrorsNamed DEF E
  <2> QED
    BY <2>3, ErrorsNamed DEF x
<1>10. f = "wait_for"
  BY <1>4, <1>5, <1>6, <1>7, <1>8, ErrorsNamed DEF e
<1> QED
  BY <1>9, <1>10 DEF e

\* A field of the Compose file's top level that was not reported, although no
\* field it depends on was, is not reported when others have been repaired.
LEMMA TopLevelAtOnce ==
  ASSUME NEW x, NEW y, NEW isolated,
         NEW f \in TopLevelErrors(y, isolated), f \notin TopLevelErrors(x, isolated),
         \A g \in ComposeFields \ TopLevelErrors(x, isolated) : y[g] = x[g]
  PROVE  \E g \in TopLevelErrors(x, isolated) : <<g, f>> \in LooksNoFurther
<1> DEFINE X == TopLevelErrors(x, isolated)
<1>1. /\ "include" \in X <=> x.include
      /\ "external_network" \in X <=> x.external_network /\ isolated
      /\ "has_services" \in X <=> ~x.has_services
      /\ "services" \in X <=> x.has_services /\ x.names_are_strings /\ x.services = {}
      /\ "names_are_strings" \in X <=> x.has_services /\ ~x.names_are_strings
  BY DEF TopLevelErrors, When
<1>2. /\ f = "include" => y.include
      /\ f = "external_network" => y.external_network /\ isolated
      /\ f = "has_services" => ~y.has_services
      /\ f = "services" => y.has_services /\ y.names_are_strings /\ y.services = {}
      /\ f = "names_are_strings" => y.has_services /\ ~y.names_are_strings
      /\ f \in {"include", "external_network", "has_services", "services", "names_are_strings"}
  BY DEF TopLevelErrors, When
<1>3. f \notin X /\ \A g \in ComposeFields \ X : y[g] = x[g]
  OBVIOUS
<1> HIDE DEF X
<1>4. f \notin {"include", "external_network", "has_services"}
  BY <1>1, <1>2, <1>3 DEF ComposeFields
<1>5. CASE f = "names_are_strings"
  <2>1. "has_services" \in X
    BY <1>1, <1>2, <1>3, <1>5 DEF ComposeFields
  <2> QED
    BY <1>5, <2>1 DEF LooksNoFurther, X
<1>6. CASE f = "services"
  <2>1. x.services = {}
    BY <1>2, <1>3, <1>6 DEF ComposeFields
  <2>2. "has_services" \in X \/ "names_are_strings" \in X
    BY <1>1, <1>3, <1>6, <2>1
  <2> QED
    BY <1>6, <2>2 DEF LooksNoFurther, X
<1> QED
  BY <1>2, <1>4, <1>5, <1>6

\* The audit is repeated when nothing left the file unread.
LEMMA ReadAgain ==
  ASSUME NEW d, WellFormed(d), Unusable(d) = {}, \A i \in Pass(d) : i \notin NoCompose
  PROVE  LET e == WithRepairs(d, Pass(d))
         IN /\ ComposeAudited(d) /\ ComposeAudited(e)
            /\ ComposeFile(e) = ComposeFile(d)
<1>1. /\ <<"config", 1, "compose_file">> \notin Pass(d)
      /\ <<"compose", 1, "readable">> \notin Pass(d)
      /\ <<"compose", 1, "parses">> \notin Pass(d)
  BY DEF NoCompose
<1>2. Resolved(ComposeFile(d))
  BY <1>1, ConfigReported, ErrorsNamed
<1>3. ComposeIssues(d) \subseteq Pass(d)
  BY DEF Pass
<1>4. d["compose"][1].readable /\ d["compose"][1].parses
  BY <1>1, <1>2, <1>3 DEF ComposeIssues, Issues
<1>5. ComposeAudited(d)
  BY <1>2, <1>4 DEF ComposeAudited
<1> QED
  BY <1>2, <1>5, FilesKept

\* What is reported of a Compose file that is audited.
LEMMA AuditedIssues ==
  ASSUME NEW d, Unusable(d) = {}, ComposeAudited(d), NEW n, NEW f
  PROVE  /\ <<"compose", n, f>> \in Pass(d)
              <=> n = 1 /\ f \in TopLevelErrors(d["compose"][1], Raw(d).network_isolated)
         /\ <<"services", n, f>> \in Pass(d) <=> <<"services", n, f>> \in ServiceIssues(d)
<1> DEFINE errors == TopLevelErrors(d["compose"][1], Raw(d).network_isolated)
<1>1. ComposeIssues(d) = Issues("compose", 1, errors) \cup ServiceIssues(d)
  BY DEF ComposeIssues, ComposeAudited
<1> HIDE DEF errors
<1>2. <<"compose", n, f>> \notin ServiceIssues(d)
  BY InIssues DEF ServiceIssues
<1>3. /\ <<"compose", n, f>> \in Issues("compose", 1, errors) <=> n = 1 /\ f \in errors
      /\ <<"services", n, f>> \notin Issues("compose", 1, errors)
  BY InIssues
<1>4. /\ <<"compose", n, f>> \in Pass(d) <=> <<"compose", n, f>> \in ComposeIssues(d)
      /\ <<"services", n, f>> \in Pass(d) <=> <<"services", n, f>> \in ComposeIssues(d)
  BY PartIssues
<1>5. <<"compose", n, f>> \in Pass(d) <=> n = 1 /\ f \in errors
  BY <1>1, <1>2, <1>3, <1>4
<1>6. <<"services", n, f>> \in Pass(d) <=> <<"services", n, f>> \in ServiceIssues(d)
  BY <1>1, <1>3, <1>4
<1> QED
  BY <1>5, <1>6 DEF errors

\* What the audit reports of the file was hidden by what left the file unread,
\* or by a field of it that ends the look at another.
LEMMA ComposeAtOnce ==
  ASSUME NEW d, WellFormed(d), Unusable(d) = {}, NEW n, NEW f,
         <<"compose", n, f>> \in Pass(WithRepairs(d, Pass(d)))
  PROVE  \/ \E i \in Pass(d) : i \in NoCompose
         \/ <<"compose", n, f>> \in Pass(d)
         \/ \E g : <<"compose", n, g>> \in Pass(d) /\ <<g, f>> \in LooksNoFurther
<1> SUFFICES ASSUME \A i \in Pass(d) : i \notin NoCompose, <<"compose", n, f>> \notin Pass(d)
             PROVE  \E g : <<"compose", n, g>> \in Pass(d) /\ <<g, f>> \in LooksNoFurther
  OBVIOUS
<1> DEFINE e == WithRepairs(d, Pass(d))
           X == TopLevelErrors(d["compose"][1], Raw(d).network_isolated)
           Y == TopLevelErrors(e["compose"][1], Raw(d).network_isolated)
<1>1. ComposeAudited(d) /\ ComposeAudited(e)
  BY ReadAgain
<1>2. Raw(e).network_isolated = Raw(d).network_isolated /\ Unusable(e) = {}
  BY SettingsKept
<1>3. \A c, g : Unusable(c) = {} /\ ComposeAudited(c) =>
        /\ <<"compose", 1, g>> \in Pass(c)
             <=> g \in TopLevelErrors(c["compose"][1], Raw(c).network_isolated)
        /\ <<"compose", n, f>> \in Pass(c)
             <=> n = 1 /\ f \in TopLevelErrors(c["compose"][1], Raw(c).network_isolated)
  BY AuditedIssues
<1>4. n = 1 /\ f \in Y /\ f \notin X
  BY <1>1, <1>2, <1>3
<1>5. \A g \in ComposeFields \ X : e["compose"][1][g] = d["compose"][1][g]
  <2> TAKE g \in ComposeFields \ X
  <2>1. /\ "compose" \in Parts /\ 1 \in DOMAIN d["compose"]
        /\ DOMAIN d["compose"][1] = ComposeFields
    BY DEF WellFormed, Parts
  <2>2. <<"compose", 1, g>> \notin Pass(d)
    BY <1>1, <1>3
  <2> QED
    BY <2>1, <2>2, Unrepaired
<1>6. PICK g \in X : <<g, f>> \in LooksNoFurther
  <2> HIDE DEF e
  <2> QED
    BY <1>4, <1>5, TopLevelAtOnce
<1> QED
  BY <1>1, <1>3, <1>4, <1>6

\* A field of a service is looked at whatever the others are.
LEMMA ServiceAtOnce ==
  ASSUME NEW x, NEW y, NEW dir, NEW allowed, NEW security, NEW now,
         now.allow_published_ports = security.allow_published_ports,
         NEW f \in ServiceErrors(y, dir, now, allowed), y[f] = x[f], y.build = x.build
  PROVE  f \in ServiceErrors(x, dir, security, allowed)
<1>1. f \in PortErrors(y, now) => f \in PortErrors(x, security)
  BY DEF PortErrors, When
<1> QED
  BY <1>1 DEF ServiceErrors, When

\* What it reports of a service was hidden by what left no service to look at.
LEMMA ServicesAtOnce ==
  ASSUME NEW d, WellFormed(d), Unusable(d) = {}, NEW n, NEW f,
         <<"services", n, f>> \in Pass(WithRepairs(d, Pass(d)))
  PROVE  \/ \E i \in Pass(d) : i \in NoServices
         \/ <<"services", n, f>> \in Pass(d)
<1> SUFFICES ASSUME \A i \in Pass(d) : i \notin NoServices, <<"services", n, f>> \notin Pass(d)
             PROVE  FALSE
  OBVIOUS
<1> DEFINE e == WithRepairs(d, Pass(d))
           j == <<"services", n, f>>
           dir == Front(ComposeFile(d))
<1>1. /\ ComposeFile(e) = ComposeFile(d) /\ AuditedServices(e) = AuditedServices(d)
      /\ ComposeAudited(d) /\ ComposeAudited(e)
  BY AuditRepeated, ReadAgain DEF NoServices
<1>2. /\ Raw(e).allow_published_ports = Raw(d).allow_published_ports
      /\ Allowed(e) = Allowed(d) /\ Unusable(e) = {}
  BY SettingsKept
<1>3. \A c, at, g : Unusable(c) = {} /\ ComposeAudited(c) =>
        (<<"services", at, g>> \in Pass(c) <=> <<"services", at, g>> \in ServiceIssues(c))
  BY AuditedIssues
<1>4. j \in ServiceIssues(e)
  BY <1>1, <1>2, <1>3
<1>5. PICK k \in DOMAIN e["services"] :
        /\ e["services"][k].name \in AuditedServices(e)
        /\ j \in Issues("services", k,
                   ServiceErrors(e["services"][k], Front(ComposeFile(e)), Raw(e), Allowed(e)))
  BY <1>4 DEF ServiceIssues
<1>6. /\ k = n /\ n \in DOMAIN d["services"] /\ "services" \in Parts
      /\ f \in ServiceErrors(e["services"][n], dir, Raw(e), Allowed(d))
  BY <1>1, <1>2, <1>5, InIssues, RepairedField DEF Parts
<1>7. DOMAIN d["services"][n] = ServiceFields
  BY <1>6 DEF WellFormed
<1>8. /\ <<"services", n, "build">> \notin Pass(d) /\ <<"services", n, "name">> \notin Pass(d)
  <2>1. \A service, allowed, security, place :
          "build" \notin ServiceErrors(service, place, security, allowed)
          /\ "name" \notin ServiceErrors(service, place, security, allowed)
    BY DEF ServiceErrors, PortErrors, When
  <2> QED
    BY <1>1, <1>3, <2>1, InIssues DEF ServiceIssues
<1>9. /\ e["services"][n][f] = d["services"][n][f]
      /\ e["services"][n]["build"] = d["services"][n]["build"]
      /\ e["services"][n]["name"] = d["services"][n]["name"]
  <2>1. f \in ServiceFields /\ "build" \in ServiceFields /\ "name" \in ServiceFields
    BY <1>6, ServiceErrorsName DEF ServiceFields
  <2> HIDE DEF dir
  <2> QED
    BY <1>6, <1>7, <1>8, <2>1, Unrepaired
<1> HIDE DEF e
<1>10. f \in ServiceErrors(d["services"][n], dir, Raw(d), Allowed(d))
  <2> HIDE DEF dir
  <2> QED
    BY <1>2, <1>6, <1>9, ServiceAtOnce
<1>11. d["services"][n].name \in AuditedServices(d)
  BY <1>1, <1>5, <1>6, <1>9
<1>12. j \in Issues("services", n, ServiceErrors(d["services"][n], dir, Raw(d), Allowed(d)))
  <2> HIDE DEF dir
  <2> QED
    BY <1>10, InIssues
<1> HIDE DEF j
<1>13. j \in ServiceIssues(d)
  BY <1>6, <1>11, <1>12 DEF ServiceIssues
<1>14. j \in Pass(d)
  BY <1>1, <1>3, <1>13 DEF j
<1> QED
  BY <1>14 DEF j

\* The checks section is gone through again when nothing left it unread.
LEMMA ChecksAgain ==
  ASSUME NEW d, WellFormed(d), Unusable(d) = {}, \A i \in Pass(d) : i \notin NoChecks
  PROVE  \A c \in {d, WithRepairs(d, Pass(d))} :
           ChecksIssues(c)
             = Issues("checks_file", 1, DefaultIssues(c["checks_file"][1]))
               \cup UNION {Issues("checks", k, CheckIssues(c["checks"], k, Raw(c), AuditedServices(c))) :
                             k \in DOMAIN c["checks"]}
<1> DEFINE e == WithRepairs(d, Pass(d))
<1>1. /\ <<"config", 1, "checks_file">> \notin Pass(d)
      /\ <<"checks_file", 1, "readable">> \notin Pass(d)
      /\ <<"checks_file", 1, "parses">> \notin Pass(d)
      /\ <<"checks_file", 1, "any">> \notin Pass(d)
  BY DEF NoChecks
<1>2. Resolved(ChecksFile(d))
  BY <1>1, ConfigReported, ErrorsNamed
<1>3. Resolved(ChecksFile(e))
  BY <1>2, FilesKept
<1>4. ChecksIssues(d) \subseteq Pass(d)
  BY DEF Pass
<1>5. d["checks_file"][1].readable /\ d["checks_file"][1].parses /\ d["checks_file"][1].any
  BY <1>1, <1>2, <1>4 DEF ChecksIssues, Issues
<1>6. \A f \in {"readable", "parses", "any"} : e["checks_file"][1][f] = d["checks_file"][1][f]
  <2>1. /\ "checks_file" \in Parts /\ 1 \in DOMAIN d["checks_file"]
        /\ {"readable", "parses", "any"} \subseteq DOMAIN d["checks_file"][1]
    BY DEF WellFormed, Parts, DocumentFields
  <2> QED
    BY <1>1, <2>1, Unrepaired
<1> HIDE DEF e
<1>7. e["checks_file"][1].readable /\ e["checks_file"][1].parses /\ e["checks_file"][1].any
  BY <1>5, <1>6
<1> QED
  BY <1>2, <1>3, <1>5, <1>7 DEF ChecksIssues, e

\* What is reported of the checks file was hidden by what left it unread.
LEMMA ChecksFileAtOnce ==
  ASSUME NEW d, WellFormed(d), Unusable(d) = {}, NEW n, NEW f,
         <<"checks_file", n, f>> \in Pass(WithRepairs(d, Pass(d)))
  PROVE  \/ \E i \in Pass(d) : i \in NoChecks
         \/ <<"checks_file", n, f>> \in Pass(d)
<1> SUFFICES ASSUME \A i \in Pass(d) : i \notin NoChecks, <<"checks_file", n, f>> \notin Pass(d)
             PROVE  FALSE
  OBVIOUS
<1> DEFINE e == WithRepairs(d, Pass(d))
           every(c) == UNION {Issues("checks", k, CheckIssues(c["checks"], k, Raw(c), AuditedServices(c))) :
                                k \in DOMAIN c["checks"]}
<1>1. Unusable(e) = {}
  BY SettingsKept
<1>2. \A c \in {d, e} : ChecksIssues(c) = Issues("checks_file", 1, DefaultIssues(c["checks_file"][1]))
                                          \cup every(c)
  BY ChecksAgain
<1>3. \A c : <<"checks_file", n, f>> \notin every(c)
  BY InIssues
<1> HIDE DEF every
<1>4. \A c \in {d, e} :
        <<"checks_file", n, f>> \in Pass(c) <=> n = 1 /\ f \in DefaultIssues(c["checks_file"][1])
  <2> TAKE c \in {d, e}
  <2>1. Unusable(c) = {}
    BY <1>1
  <2>2. <<"checks_file", n, f>> \in Pass(c) <=> <<"checks_file", n, f>> \in ChecksIssues(c)
    BY <2>1, PartIssues
  <2> QED
    BY <1>2, <1>3, <2>2, InIssues
<1>5. n = 1 /\ f \in DefaultIssues(e["checks_file"][1]) /\ f \notin DefaultIssues(d["checks_file"][1])
  BY <1>4
<1>6. e["checks_file"][1][f] = d["checks_file"][1][f]
  <2>1. /\ "checks_file" \in Parts /\ 1 \in DOMAIN d["checks_file"] /\ f \in DOMAIN d["checks_file"][1]
    BY <1>5 DEF WellFormed, Parts, DocumentFields, DefaultIssues, When
  <2> QED
    BY <1>5, <2>1, Unrepaired
<1> HIDE DEF e
<1> QED
  BY <1>5, <1>6 DEF DefaultIssues, When

\* A field of a check's kind that was not reported, although no field it depends
\* on was, is not reported when others have been repaired: one lemma per kind.
LEMMA HttpAtOnce ==
  ASSUME NEW x, NEW y, NEW s, NEW t, s.allow_external_http_targets = t.allow_external_http_targets,
         \A g \in HttpFields \ HttpIssues(x, s) : y[g] = x[g],
         NEW f \in HttpIssues(y, t), f \notin HttpIssues(x, s)
  PROVE  FALSE
<1>1. "method" \notin HttpIssues(x, s) /\ f \in HttpFields /\ "method" \in HttpFields
  BY DEF HttpIssues, When, HttpFields
<1>2. y[f] = x[f] /\ y.method = x.method
  BY <1>1
<1> QED
  BY <1>2 DEF HttpIssues, When, IsUrl

LEMMA CommandAtOnce ==
  ASSUME NEW x, NEW y, \A g \in CommandFields \ CommandIssues(x) : y[g] = x[g],
         NEW f \in CommandIssues(y), f \notin CommandIssues(x)
  PROVE  \E g \in CommandIssues(x) : <<g, f>> \in LooksNoFurther
<1>1. f \in CommandFields
  BY DEF CommandIssues, When, CommandFields
<1>2. y[f] = x[f]
  BY <1>1
<1>3. f = "program_path" /\ "command" \in CommandIssues(x)
  BY <1>2 DEF CommandIssues, When
<1> QED
  BY <1>3 DEF LooksNoFurther

LEMMA SqlAtOnce ==
  ASSUME NEW x, NEW y, \A g \in SqlFields \ SqlIssues(x) : y[g] = x[g],
         NEW f \in SqlIssues(y), f \notin SqlIssues(x)
  PROVE  FALSE
<1>1. /\ f \in SqlFields /\ {"max_rows", "max_value", "expect_value"} \subseteq SqlFields \ SqlIssues(x)
      /\ "min_rows" \in SqlIssues(x) => Crossed(x.min_rows, x.max_rows)
      /\ "min_value" \in SqlIssues(x) => Crossed(x.min_value, x.max_value)
      /\ {"min_rows", "min_value"} \subseteq SqlFields
  BY DEF SqlIssues, When, SqlFields
<1>2. /\ y[f] = x[f] /\ y.max_rows = x.max_rows /\ y.max_value = x.max_value
      /\ y.expect_value = x.expect_value
      /\ y.min_rows = x.min_rows \/ x.max_rows # {}
      /\ y.min_value = x.min_value \/ x.max_value # {}
  BY <1>1 DEF Crossed
<1>3. f = "expect_row_count"
  BY <1>2 DEF SqlIssues, When
<1>4. y.expect_row_count \cup y.min_rows \cup y.max_rows \cup y.min_value \cup y.max_value = {}
      /\ y.expect_value = {}
  BY <1>3 DEF SqlIssues, When
<1>5. x.expect_row_count \cup x.min_rows \cup x.max_rows \cup x.min_value \cup x.max_value = {}
      /\ x.expect_value = {}
  BY <1>2, <1>3, <1>4
<1> QED
  BY <1>3, <1>5 DEF SqlIssues, When

LEMMA FileAtOnce ==
  ASSUME NEW x, NEW y, \A g \in FileFields \ FileIssues(x) : y[g] = x[g],
         NEW f \in FileIssues(y), f \notin FileIssues(x)
  PROVE  FALSE
<1>1. /\ f \in FileFields /\ {"base", "max_size_bytes"} \subseteq FileFields \ FileIssues(x)
      /\ "min_size_bytes" \in FileIssues(x) => Crossed(x.min_size_bytes, x.max_size_bytes)
      /\ "sha256" \in FileIssues(x) => x.sha256 # {}
      /\ {"min_size_bytes", "sha256"} \subseteq FileFields
  BY DEF FileIssues, When, FileFields
<1>2. /\ y[f] = x[f] /\ y.base = x.base /\ y.max_size_bytes = x.max_size_bytes
      /\ y.min_size_bytes = x.min_size_bytes \/ x.max_size_bytes # {}
      /\ y.sha256 = x.sha256 \/ x.sha256 # {}
  BY <1>1 DEF Crossed
<1>3. f = "exists"
  BY <1>2 DEF FileIssues, When
<1>4. ~y.exists /\ (y.min_size_bytes \cup y.max_size_bytes # {} \/ y.sha256 # {})
  BY <1>3 DEF FileIssues, When
<1>5. ~x.exists /\ (x.min_size_bytes \cup x.max_size_bytes # {} \/ x.sha256 # {})
  BY <1>2, <1>3, <1>4
<1> QED
  BY <1>3, <1>5 DEF FileIssues, When

LEMMA ContainerAtOnce ==
  ASSUME NEW x, NEW y, NEW found, NEW foundNow,
         \A g \in ContainerFields \ ContainerIssues(x, found) : y[g] = x[g],
         NEW f \in ContainerIssues(y, foundNow), f \notin ContainerIssues(x, found),
         f = "service" => foundNow = found
  PROVE  FALSE
<1>1. "state" \notin ContainerIssues(x, found) /\ f \in ContainerFields /\ "state" \in ContainerFields
  BY DEF ContainerIssues, When, ContainerFields
<1>2. y[f] = x[f] /\ y.state = x.state
  BY <1>1
<1> QED
  BY <1>2 DEF ContainerIssues, When

LEMMA ScriptAtOnce ==
  ASSUME NEW x, NEW y, \A g \in ScriptFields \ ScriptIssues(x) : y[g] = x[g],
         NEW f \in ScriptIssues(y), f \notin ScriptIssues(x)
  PROVE  \E g \in ScriptIssues(x) : <<g, f>> \in LooksNoFurther
<1>1. f \in ScriptFields
  BY DEF ScriptIssues, When, ScriptFields
<1>2. y[f] = x[f]
  BY <1>1
<1>3. f = "mode" /\ "path" \in ScriptIssues(x)
  BY <1>2 DEF ScriptIssues, When
<1> QED
  BY <1>3 DEF LooksNoFurther

LEMMA KindAtOnce ==
  ASSUME NEW x, CheckShape(x), NEW y, y.type = x.type, NEW s, NEW t, NEW found, NEW foundNow,
         s.allow_command_checks = t.allow_command_checks,
         s.allow_external_http_targets = t.allow_external_http_targets,
         ~(Executed(x) /\ ~s.allow_command_checks),
         \A g \in KindFields[x.type] \ KindIssues(x, s, found) : y[g] = x[g],
         NEW f \in KindIssues(y, t, foundNow), f \notin KindIssues(x, s, found),
         f = "service" => foundNow = found
  PROVE  \E g \in KindIssues(x, s, found) : <<g, f>> \in LooksNoFurther
<1>1. ~(Executed(y) /\ ~t.allow_command_checks)
  BY DEF Executed
<1>2. x.type \in {"http", "command", "sql", "file", "container", "script"}
  BY DEF CheckShape, KindFields
<1>3. CASE x.type = "http"
  <2>1. KindFields[x.type] = HttpFields
    BY <1>3 DEF KindFields
  <2>2. KindIssues(x, s, found) = HttpIssues(x, s) /\ KindIssues(y, t, foundNow) = HttpIssues(y, t)
    BY <1>1, <1>3 DEF KindIssues
  <2> QED
    BY <2>1, <2>2, HttpAtOnce
<1>4. CASE x.type = "command"
  <2>1. KindFields[x.type] = CommandFields
    BY <1>4 DEF KindFields
  <2>2. KindIssues(x, s, found) = CommandIssues(x) /\ KindIssues(y, t, foundNow) = CommandIssues(y)
    BY <1>1, <1>4 DEF KindIssues
  <2> QED
    BY <2>1, <2>2, CommandAtOnce
<1>5. CASE x.type = "sql"
  <2>1. KindFields[x.type] = SqlFields
    BY <1>5 DEF KindFields
  <2>2. KindIssues(x, s, found) = SqlIssues(x) /\ KindIssues(y, t, foundNow) = SqlIssues(y)
    BY <1>1, <1>5 DEF KindIssues
  <2> QED
    BY <2>1, <2>2, SqlAtOnce
<1>6. CASE x.type = "file"
  <2>1. KindFields[x.type] = FileFields
    BY <1>6 DEF KindFields
  <2>2. KindIssues(x, s, found) = FileIssues(x) /\ KindIssues(y, t, foundNow) = FileIssues(y)
    BY <1>1, <1>6 DEF KindIssues
  <2> QED
    BY <2>1, <2>2, FileAtOnce
<1>7. CASE x.type = "container"
  <2>1. KindFields[x.type] = ContainerFields
    BY <1>7 DEF KindFields
  <2>2. /\ KindIssues(x, s, found) = ContainerIssues(x, found)
        /\ KindIssues(y, t, foundNow) = ContainerIssues(y, foundNow)
    BY <1>1, <1>7 DEF KindIssues
  <2> QED
    BY <2>1, <2>2, ContainerAtOnce
<1>8. CASE x.type = "script"
  <2>1. KindFields[x.type] = ScriptFields
    BY <1>8 DEF KindFields
  <2>2. KindIssues(x, s, found) = ScriptIssues(x) /\ KindIssues(y, t, foundNow) = ScriptIssues(y)
    BY <1>1, <1>8 DEF KindIssues
  <2> QED
    BY <2>1, <2>2, ScriptAtOnce
<1> QED
  BY <1>2, <1>3, <1>4, <1>5, <1>6, <1>7, <1>8

\* No id that was not repaired becomes a duplicate by the repair of another.
LEMMA IdsRepaired ==
  ASSUME NEW d, WellFormed(d), RepairsFit(d), NEW S, NEW n \in DOMAIN d["checks"],
         WithRepairs(d, S)["checks"][n].id = d["checks"][n].id,
         Duplicate(WithRepairs(d, S)["checks"], n)
  PROVE  Duplicate(d["checks"], n)
<1> DEFINE e == WithRepairs(d, S)
           s == SoundFor(d)
<1>1. PICK k \in 1..n-1 : e["checks"][k].id = e["checks"][n].id
  BY DEF Duplicate
<1>2. k \in DOMAIN d["checks"] /\ k # n /\ "checks" \in Parts /\ "id" \in DOMAIN d["checks"][k]
  <2>1. n \in Nat /\ k \in 1..n /\ k # n
    <3>1. n \in Nat
      BY DEF WellFormed
    <3> QED
      BY <3>1
  <2>2. k \in DOMAIN d["checks"]
    BY <2>1 DEF WellFormed
  <2>3. CheckShape(d["checks"][k])
    BY <2>2 DEF WellFormed
  <2> QED
    BY <2>1, <2>2, <2>3 DEF CheckShape, CommonFields, Parts
<1>3. e["checks"][k].id \in {d["checks"][k].id, s["checks"][k].id}
  <2>1. Repaired(d, <<"checks", k, "id">>) = s["checks"][k]["id"]
    BY DEF Repaired
  <2> QED
    BY <1>2, <2>1, RepairedField
<1>4. d["checks"][n].id = s["checks"][k].id => d["checks"][k].id = s["checks"][k].id
  BY <1>2 DEF RepairsFit
<1>5. d["checks"][k].id = d["checks"][n].id
  BY <1>1, <1>3, <1>4
<1> QED
  BY <1>1, <1>5 DEF Duplicate

\* A check: what is reported of it once fields of it have been repaired was
\* reported before, or depends on a field that was.
LEMMA CheckAtOnce ==
  ASSUME NEW old, NEW new, NEW n, NEW s, NEW t, NEW found, NEW foundNow,
         CheckShape(old[n]), new[n].type = old[n].type,
         Duplicate(new, n) /\ new[n].id = old[n].id => Duplicate(old, n),
         s.allow_command_checks = t.allow_command_checks,
         s.allow_external_http_targets = t.allow_external_http_targets,
         "enabled" \in CheckIssues(old, n, s, found) => new[n].enabled = FALSE,
         \A g \in DOMAIN old[n] \ CheckIssues(old, n, s, found) : new[n][g] = old[n][g],
         NEW f \in CheckIssues(new, n, t, foundNow), f \in DOMAIN old[n],
         f \notin CheckIssues(old, n, s, found), f = "service" => foundNow = found
  PROVE  \E g \in CheckIssues(old, n, s, found) : <<g, f>> \in LooksNoFurther
<1> DEFINE x == old[n]
           y == new[n]
           X == CheckIssues(old, n, s, found)
           common == CommonIssues(x) \cup When(Duplicate(old, n), "id")
<1>1. y[f] = x[f] /\ DOMAIN x = CommonFields \cup KindFields[x.type]
  BY DEF CheckShape
<1>2. f \notin CommonIssues(y) \cup When(Duplicate(new, n), "id")
  BY <1>1 DEF CheckIssues, CommonIssues, When
<1>3. y.enabled /\ f \in KindIssues(y, t, foundNow)
  BY <1>2 DEF CheckIssues
<1>4. "enabled" \notin X /\ x.enabled
  <2>1. "enabled" \notin X
    BY <1>3
  <2>2. "enabled" \in DOMAIN x
    BY <1>1 DEF CommonFields
  <2> QED
    BY <1>1, <1>3, <2>1, <2>2
<1>5. X = common \cup KindIssues(x, s, found)
  BY <1>4 DEF CheckIssues
<1>6. ~(Executed(x) /\ ~s.allow_command_checks)
  BY <1>4, <1>5 DEF KindIssues
<1>7. \A g \in KindFields[x.type] : g \notin common
  <2>1. common \subseteq {"id", "timeout_seconds", "attempts"}
    BY DEF CommonIssues, When
  <2>2. x.type \in {"http", "command", "sql", "file", "container", "script"}
    BY DEF CheckShape, KindFields
  <2>3. KindFields[x.type] \subseteq HttpFields \cup CommandFields \cup SqlFields \cup FileFields
                                     \cup ContainerFields \cup ScriptFields
    BY <2>2 DEF KindFields
  <2>4. \A g \in {"id", "timeout_seconds", "attempts"} :
          g \notin HttpFields \cup CommandFields \cup SqlFields \cup FileFields
                   \cup ContainerFields \cup ScriptFields
    BY DEF HttpFields, CommandFields, SqlFields, FileFields, ContainerFields, ScriptFields
  <2> HIDE DEF x, common
  <2> QED
    BY <2>1, <2>3, <2>4
<1> HIDE DEF common
<1>8. \A g \in KindFields[x.type] \ KindIssues(x, s, found) : y[g] = x[g]
  BY <1>1, <1>5, <1>7
<1>9. f \notin KindIssues(x, s, found)
  BY <1>5
<1>10. PICK g \in KindIssues(x, s, found) : <<g, f>> \in LooksNoFurther
  <2>1. CheckShape(x) /\ y.type = x.type
    OBVIOUS
  <2> HIDE DEF x, y, X
  <2> QED
    BY <1>3, <1>6, <1>8, <1>9, <2>1, KindAtOnce
<1> QED
  BY <1>5, <1>10

\* What is reported of a check was hidden by what left the checks unread or by a
\* field of the same check that it depends on; a reference to a service may have
\* been hidden by what left no service.
LEMMA ChecksAtOnce ==
  ASSUME NEW d, WellFormed(d), Unusable(d) = {}, RepairsFit(d), NEW n, NEW f,
         WellFormed(WithRepairs(d, Pass(d))),
         <<"checks", n, f>> \in Pass(WithRepairs(d, Pass(d)))
  PROVE  \/ \E i \in Pass(d) : i \in NoChecks
         \/ f = "service" /\ \E i \in Pass(d) : i \in NoServices
         \/ <<"checks", n, f>> \in Pass(d)
         \/ \E g : <<"checks", n, g>> \in Pass(d) /\ <<g, f>> \in LooksNoFurther
<1> SUFFICES ASSUME \A i \in Pass(d) : i \notin NoChecks,
                    f = "service" => \A i \in Pass(d) : i \notin NoServices,
                    <<"checks", n, f>> \notin Pass(d)
             PROVE  \E g : <<"checks", n, g>> \in Pass(d) /\ <<g, f>> \in LooksNoFurther
  OBVIOUS
<1> DEFINE e == WithRepairs(d, Pass(d))
           errors(c, k) == CheckIssues(c["checks"], k, Raw(c), AuditedServices(c))
           every(c) == UNION {Issues("checks", k, errors(c, k)) : k \in DOMAIN c["checks"]}
<1>1. /\ Raw(e).allow_command_checks = Raw(d).allow_command_checks
      /\ Raw(e).allow_external_http_targets = Raw(d).allow_external_http_targets
      /\ Unusable(e) = {}
  BY SettingsKept
<1>2. f = "service" => AuditedServices(e) = AuditedServices(d)
  BY AuditRepeated
<1>3. \A c \in {d, e} : ChecksIssues(c) = Issues("checks_file", 1, DefaultIssues(c["checks_file"][1]))
                                          \cup every(c)
  BY ChecksAgain
<1>4. \A c, k, g : <<"checks", k, g>> \in every(c) <=> k \in DOMAIN c["checks"] /\ g \in errors(c, k)
  <2> HIDE DEF errors
  <2> TAKE c, k, g
  <2>1. ASSUME <<"checks", k, g>> \in every(c)
        PROVE  k \in DOMAIN c["checks"] /\ g \in errors(c, k)
    <3>1. PICK at \in DOMAIN c["checks"] : <<"checks", k, g>> \in Issues("checks", at, errors(c, at))
      BY <2>1
    <3> QED
      BY <3>1, InIssues
  <2>2. ASSUME k \in DOMAIN c["checks"], g \in errors(c, k)
        PROVE  <<"checks", k, g>> \in every(c)
    <3>1. <<"checks", k, g>> \in Issues("checks", k, errors(c, k))
      BY <2>2, InIssues
    <3> QED
      BY <2>2, <3>1
  <2> QED
    BY <2>1, <2>2
<1> HIDE DEF every, errors
<1>5. \A c \in {d, e} : \A k, g :
        <<"checks", k, g>> \in Pass(c) <=> k \in DOMAIN c["checks"] /\ g \in errors(c, k)
  <2> TAKE c \in {d, e}
  <2> TAKE k, g
  <2>1. Unusable(c) = {}
    BY <1>1
  <2>2. <<"checks", k, g>> \in Pass(c) <=> <<"checks", k, g>> \in ChecksIssues(c)
    BY <2>1, PartIssues
  <2> QED
    BY <1>3, <1>4, <2>2, InIssues
<1>6. /\ n \in DOMAIN d["checks"] /\ "checks" \in Parts
      /\ f \in errors(e, n) /\ f \notin errors(d, n)
  <2>1. DOMAIN e["checks"] = DOMAIN d["checks"]
    BY RepairedField DEF Parts
  <2> QED
    BY <1>5, <2>1 DEF Parts
<1>7. CheckShape(d["checks"][n]) /\ DOMAIN e["checks"][n] = DOMAIN d["checks"][n]
  <2>1. CheckShape(d["checks"][n])
    BY <1>6 DEF WellFormed
  <2> QED
    BY <1>6, <2>1, RepairedField
<1>8. \A g \in DOMAIN d["checks"][n] \ errors(d, n) : e["checks"][n][g] = d["checks"][n][g]
  <2> TAKE g \in DOMAIN d["checks"][n] \ errors(d, n)
  <2>1. <<"checks", n, g>> \notin Pass(d)
    BY <1>5
  <2> QED
    BY <1>6, <2>1, Unrepaired
<1>9. e["checks"][n].type = d["checks"][n].type
  <2>1. "type" \in DOMAIN d["checks"][n]
    BY <1>7 DEF CheckShape, CommonFields
  <2>2. "type" \notin errors(d, n)
    BY <1>7, CheckIssuesName DEF errors, Fixed
  <2> QED
    BY <1>8, <2>1, <2>2
<1>10. "enabled" \in errors(d, n) => e["checks"][n].enabled = FALSE
  <2> HAVE "enabled" \in errors(d, n)
  <2>1. "enabled" \in DOMAIN d["checks"][n] /\ <<"checks", n, "enabled">> \in Pass(d)
    BY <1>5, <1>6, <1>7 DEF CheckShape, CommonFields
  <2>2. Repaired(d, <<"checks", n, "enabled">>) = FALSE
    BY DEF Repaired
  <2> QED
    BY <1>6, <2>1, <2>2, RepairedField
<1>11. f \in DOMAIN d["checks"][n]
  <2>1. n \in DOMAIN e["checks"]
    BY <1>6, RepairedField
  <2>2. CheckShape(e["checks"][n])
    BY <2>1 DEF WellFormed
  <2>3. errors(e, n) \subseteq DOMAIN e["checks"][n]
    BY <2>2, CheckIssuesName DEF errors
  <2> QED
    BY <1>6, <1>7, <2>3
<1>12. Duplicate(e["checks"], n) /\ e["checks"][n].id = d["checks"][n].id => Duplicate(d["checks"], n)
  BY <1>6, IdsRepaired
<1> HIDE DEF e
<1>13. PICK g \in errors(d, n) : <<g, f>> \in LooksNoFurther
  BY <1>1, <1>2, <1>6, <1>7, <1>8, <1>9, <1>10, <1>11, <1>12, CheckAtOnce DEF errors
<1> QED
  BY <1>5, <1>6, <1>13

\* A field of the backup section that was not reported, although no field it
\* depends on was, is not reported when others have been repaired.
LEMMA LocalAtOnce ==
  ASSUME NEW d, NEW e, \A p : DataRefused(e, p) <=> DataRefused(d, p), NEW x, NEW y,
         \A g \in BackupFields("local") \ LocalFields(d, x) : y[g] = x[g],
         NEW f \in LocalFields(e, y), f \notin LocalFields(d, x)
  PROVE  \E g \in LocalFields(d, x) : <<g, f>> \in LooksNoFurther
<1>1. f \in {"path", "metadata_file"}
  BY DEF LocalFields, When
<1>2. y[f] = x[f]
  BY <1>1 DEF BackupFields
<1>3. f = "metadata_file" /\ "path" \in LocalFields(d, x)
  BY <1>1, <1>2 DEF LocalFields, When
<1> QED
  BY <1>3 DEF LooksNoFurther

LEMMA ToolAtOnce ==
  ASSUME NEW d, NEW e, \A p : DataRefused(e, p) <=> DataRefused(d, p), NEW x, NEW y,
         NEW kind, kind # "local", y.kind = x.kind,
         \A g \in BackupFields(kind) \ ToolFields(d, x) : y[g] = x[g],
         NEW f \in ToolFields(e, y), f \notin ToolFields(d, x)
  PROVE  \E g \in ToolFields(d, x) : <<g, f>> \in LooksNoFurther
<1> DEFINE X == ToolFields(d, x)
<1>1. f \in {"snapshot", "include_path", "repository", "path", "secret_file", "secret_env"}
  BY DEF ToolFields, SecretFields, When
<1>2. BackupFields(kind) =
        {"kind", "repository", "path", "snapshot", "include_path", "secret_file", "secret_env"}
  BY DEF BackupFields
<1>3. /\ "snapshot" \in X <=> ~IsToken(x.snapshot)
      /\ "include_path" \in X <=> x.kind = "restic" /\ \E p \in x.include_path : ~IsToken(p)
      /\ "repository" \in X <=> ~IsToken(x.repository)
      /\ "path" \in X <=> IsToken(x.repository) /\ RepositoryRefused(d, x)
      /\ "secret_env" \in X <=>
           /\ IsToken(x.repository) /\ ~RepositoryRefused(d, x)
           /\ \/ x.secret_file # {} /\ x.secret_env # {}
              \/ \E v \in x.secret_env : ~IsSecretVariable(v)
      /\ "secret_file" \in X <=>
           /\ IsToken(x.repository) /\ ~RepositoryRefused(d, x)
           /\ x.secret_file = {} \/ x.secret_env = {}
           /\ \E p \in x.secret_file : DataRefused(d, p)
  BY DEF ToolFields, SecretFields, When
<1>4. /\ f = "snapshot" => ~IsToken(y.snapshot)
      /\ f = "include_path" => y.kind = "restic" /\ \E p \in y.include_path : ~IsToken(p)
      /\ f = "repository" => ~IsToken(y.repository)
      /\ f = "path" => IsToken(y.repository) /\ RepositoryRefused(e, y)
      /\ f = "secret_env" => \/ y.secret_file # {} /\ y.secret_env # {}
                             \/ \E v \in y.secret_env : ~IsSecretVariable(v)
      /\ f = "secret_file" => /\ y.secret_file = {} \/ y.secret_env = {}
                              /\ \E p \in y.secret_file : DataRefused(e, p)
  BY DEF ToolFields, SecretFields, When
<1>5. f \notin X /\ \A g \in BackupFields(kind) \ X : y[g] = x[g]
  OBVIOUS
<1>6. y[f] = x[f]
  BY <1>1, <1>2, <1>5
<1> HIDE DEF X
<1>7. f \notin {"snapshot", "include_path", "repository"}
  BY <1>3, <1>4, <1>5, <1>6
<1>8. CASE f = "path"
  <2>1. y.repository = "local" /\ DataRefused(d, y.path)
    BY <1>4, <1>8 DEF RepositoryRefused
  <2>2. "repository" \in X
    <3>1. ASSUME "repository" \notin X PROVE FALSE
      <4>1. y.repository = x.repository
        BY <1>2, <1>5, <3>1
      <4> QED
        BY <1>3, <1>5, <1>6, <1>8, <2>1, <3>1, <4>1 DEF RepositoryRefused
    <3> QED
      BY <3>1
  <2> QED
    BY <1>8, <2>2 DEF LooksNoFurther, X
<1>9. CASE f \in {"secret_env", "secret_file"}
  <2>1. CASE "repository" \in X \/ "path" \in X
    BY <1>9, <2>1 DEF LooksNoFurther, X
  <2>2. CASE "repository" \notin X /\ "path" \notin X
    <3>1. IsToken(x.repository) /\ ~RepositoryRefused(d, x)
      BY <1>3, <2>2
    <3>2. f # "secret_env"
      <4>1. ASSUME f = "secret_env" PROVE FALSE
        <5>1. x.secret_file = {} \/ x.secret_env = {}
          BY <1>3, <1>5, <3>1, <4>1
        <5>2. ~ \E v \in y.secret_env : ~IsSecretVariable(v)
          BY <1>3, <1>5, <1>6, <3>1, <4>1
        <5>3. y.secret_file # {} /\ y.secret_env # {}
          BY <1>4, <4>1, <5>2
        <5>4. x.secret_file = {}
          BY <1>6, <4>1, <5>1, <5>3
        <5>5. y.secret_file = x.secret_file
          BY <1>2, <1>3, <1>5, <5>4
        <5> QED
          BY <5>3, <5>4, <5>5
      <4> QED
        BY <4>1
    <3>3. CASE f = "secret_file"
      <4>1. "secret_env" \in X
        BY <1>3, <1>4, <1>5, <1>6, <3>1, <3>3
      <4> QED
        BY <3>3, <4>1 DEF LooksNoFurther, X
    <3> QED
      BY <1>9, <3>2, <3>3
  <2> QED
    BY <2>1, <2>2
<1> QED
  BY <1>1, <1>7, <1>8, <1>9

\* What is reported of the backup section was hidden by a field it depends on.
LEMMA BackupAtOnce ==
  ASSUME NEW d, WellFormed(d), Unusable(d) = {}, NEW n, NEW f,
         <<"backup", n, f>> \in Pass(WithRepairs(d, Pass(d)))
  PROVE  \/ <<"backup", n, f>> \in Pass(d)
         \/ \E g : <<"backup", n, g>> \in Pass(d) /\ <<g, f>> \in LooksNoFurther
<1> SUFFICES ASSUME <<"backup", n, f>> \notin Pass(d)
             PROVE  \E g : <<"backup", n, g>> \in Pass(d) /\ <<g, f>> \in LooksNoFurther
  OBVIOUS
<1> DEFINE e == WithRepairs(d, Pass(d))
           fields(c) == IF c["backup"][1].kind = "local" THEN LocalFields(c, c["backup"][1])
                        ELSE ToolFields(c, c["backup"][1])
           x == d["backup"][1]
           y == e["backup"][1]
<1>1. Allowed(e) = Allowed(d) /\ Unusable(e) = {}
  BY SettingsKept
<1>2. \A c, k, g : Unusable(c) = {} => (<<"backup", k, g>> \in Pass(c) <=> k = 1 /\ g \in fields(c))
  <2> TAKE c, k, g
  <2> HAVE Unusable(c) = {}
  <2>1. BackupIssues(c) = Issues("backup", 1, fields(c))
    BY DEF BackupIssues
  <2> HIDE DEF fields
  <2>2. <<"backup", k, g>> \in Issues("backup", 1, fields(c)) <=> k = 1 /\ g \in fields(c)
    BY InIssues
  <2>3. <<"backup", k, g>> \in Pass(c) <=> <<"backup", k, g>> \in BackupIssues(c)
    BY PartIssues
  <2> QED
    BY <2>1, <2>2, <2>3
<1> HIDE DEF fields
<1>3. n = 1 /\ f \in fields(e) /\ f \notin fields(d)
  BY <1>1, <1>2
<1>4. /\ "backup" \in Parts /\ 1 \in DOMAIN d["backup"]
      /\ DOMAIN x = BackupFields(x.kind)
  BY DEF WellFormed, Parts
<1>5. \A g \in BackupFields(x.kind) \ fields(d) : y[g] = x[g]
  <2> TAKE g \in BackupFields(x.kind) \ fields(d)
  <2>1. <<"backup", 1, g>> \notin Pass(d)
    BY <1>2
  <2> QED
    BY <1>4, <2>1, Unrepaired
<1>6. y.kind = x.kind
  <2>1. "kind" \in BackupFields(x.kind) /\ "kind" \notin fields(d)
    BY DEF BackupFields, fields, LocalFields, ToolFields, SecretFields, When
  <2> QED
    BY <1>5, <2>1
<1>7. \A p : DataRefused(e, p) <=> DataRefused(d, p)
  BY <1>1 DEF DataRefused, File
<1> HIDE DEF e
<1>8. CASE x.kind = "local"
  <2>1. fields(d) = LocalFields(d, x) /\ fields(e) = LocalFields(e, y)
    BY <1>6, <1>8 DEF fields
  <2> HIDE DEF x, y
  <2>2. PICK g \in LocalFields(d, x) : <<g, f>> \in LooksNoFurther
    BY <1>3, <1>5, <1>7, <1>8, <2>1, LocalAtOnce
  <2> QED
    BY <1>2, <1>3, <2>1, <2>2
<1>9. CASE x.kind # "local"
  <2>1. fields(d) = ToolFields(d, x) /\ fields(e) = ToolFields(e, y)
    BY <1>6, <1>9 DEF fields
  <2> HIDE DEF x, y
  <2>2. PICK g \in ToolFields(d, x) : <<g, f>> \in LooksNoFurther
    BY <1>3, <1>5, <1>6, <1>7, <1>9, <2>1, ToolAtOnce
  <2> QED
    BY <1>2, <1>3, <2>1, <2>2
<1> QED
  BY <1>8, <1>9

\* The one call of from_text() that an attempt is reports everything that no
\* issue of it hides.
LEMMA AllAtOnce ==
  ASSUME NEW d, WellFormed(d), WellFormed(SoundFor(d)), Unusable(d) = {}, RepairsFit(d),
         NEW j \in Pass(WithRepairs(d, Pass(d))),
         WellFormed(WithRepairs(d, Pass(d)))
  PROVE  \E i \in Pass(d) : MayHide(i, j)
<1> DEFINE e == WithRepairs(d, Pass(d))
<1>1. j = <<j[1], j[2], j[3]>> /\ j[1] \in Parts
  BY IssuesAreTriples
<1>2. Unusable(e) = {}
  BY SettingsKept
<1>3. \A part, n, f, g : <<g, f>> \in LooksNoFurther => MayHide(<<part, n, g>>, <<part, n, f>>)
  BY DEF MayHide
<1>4. \A i : MayHide(i, i)
  BY DEF MayHide
<1>5. CASE j[1] = "config"
  <2>1. j[3] = "wait_for" /\ \E i \in Pass(d) : i \in NoServices
    BY <1>1, <1>2, <1>5, ConfigReported, ConfigAtOnce
  <2> QED
    BY <2>1 DEF MayHide
<1>6. CASE j[1] = "compose"
  <2>1. \/ \E i \in Pass(d) : i \in NoCompose
        \/ j \in Pass(d)
        \/ \E g : <<"compose", j[2], g>> \in Pass(d) /\ <<g, j[3]>> \in LooksNoFurther
    BY <1>1, <1>6, ComposeAtOnce
  <2>2. CASE \E i \in Pass(d) : i \in NoCompose
    BY <1>6, <2>2 DEF MayHide
  <2> QED
    BY <1>1, <1>3, <1>4, <1>6, <2>1, <2>2
<1>7. CASE j[1] = "services"
  <2>1. \/ \E i \in Pass(d) : i \in NoServices
        \/ j \in Pass(d)
    BY <1>1, <1>7, ServicesAtOnce
  <2>2. CASE \E i \in Pass(d) : i \in NoServices
    BY <1>7, <2>2 DEF MayHide
  <2> QED
    BY <1>4, <2>1, <2>2
<1>8. CASE j[1] = "checks_file"
  <2>1. \/ \E i \in Pass(d) : i \in NoChecks
        \/ j \in Pass(d)
    BY <1>1, <1>8, ChecksFileAtOnce
  <2>2. CASE \E i \in Pass(d) : i \in NoChecks
    BY <1>8, <2>2 DEF MayHide
  <2> QED
    BY <1>4, <2>1, <2>2
<1>9. CASE j[1] = "checks"
  <2>1. \/ \E i \in Pass(d) : i \in NoChecks
        \/ j[3] = "service" /\ \E i \in Pass(d) : i \in NoServices
        \/ j \in Pass(d)
        \/ \E g : <<"checks", j[2], g>> \in Pass(d) /\ <<g, j[3]>> \in LooksNoFurther
    BY <1>1, <1>9, ChecksAtOnce
  <2>2. CASE \E i \in Pass(d) : i \in NoChecks
    BY <1>9, <2>2 DEF MayHide
  <2>3. CASE j[3] = "service" /\ \E i \in Pass(d) : i \in NoServices
    BY <2>3 DEF MayHide
  <2> QED
    BY <1>1, <1>3, <1>4, <1>9, <2>1, <2>2, <2>3
<1>10. CASE j[1] = "backup"
  <2>1. \/ j \in Pass(d)
        \/ \E g : <<"backup", j[2], g>> \in Pass(d) /\ <<g, j[3]>> \in LooksNoFurther
    BY <1>1, <1>10, BackupAtOnce
  <2> QED
    BY <1>1, <1>3, <1>4, <1>10, <2>1
<1> QED
  BY <1>1, <1>5, <1>6, <1>7, <1>8, <1>9, <1>10 DEF Parts

-----------------------------------------------------------------------------
(* What the operator writes goes on fitting.                               *)

LEMMA RepairsGoOnFitting ==
  ASSUME NEW d, WellFormed(d), WellFormed(SoundFor(d)), RepairsFit(d), NEW S,
         SoundFor(WithRepairs(d, S)) = SoundFor(d)
  PROVE  RepairsFit(WithRepairs(d, S))
<1> DEFINE e == WithRepairs(d, S)
           c == Raw(d)
           s == SoundFor(d)
           x == Raw(e)
<1>1. \A part \in Parts : \A at \in DOMAIN d[part] : \A f \in DOMAIN d[part][at] \ {"enabled"} :
        e[part][at][f] \in {d[part][at][f], s[part][at][f]}
  <2> TAKE part \in Parts
  <2> TAKE at \in DOMAIN d[part]
  <2> TAKE f \in DOMAIN d[part][at] \ {"enabled"}
  <2>1. Repaired(d, <<part, at, f>>) = s[part][at][f]
    BY DEF Repaired
  <2> QED
    BY <2>1, RepairedField
<1>2. /\ x.startup_timeout \in {c.startup_timeout, Raw(s).startup_timeout}
      /\ x.total_timeout \in {c.total_timeout, Raw(s).total_timeout}
  <2>1. /\ "config" \in Parts /\ 1 \in DOMAIN d["config"]
        /\ {"startup_timeout", "total_timeout"} \subseteq DOMAIN d["config"][1] \ {"enabled"}
    BY DEF WellFormed, Parts, ConfigFields, RecoveryFields
  <2> QED
    BY <1>1, <2>1 DEF Raw
<1>3. e["compose"][1].services \in {d["compose"][1].services, s["compose"][1].services}
  <2>1. "compose" \in Parts /\ 1 \in DOMAIN d["compose"] /\ "services" \in DOMAIN d["compose"][1] \ {"enabled"}
    BY DEF WellFormed, Parts, ComposeFields
  <2> QED
    BY <1>1, <2>1
<1>4. DOMAIN e["checks"] = DOMAIN d["checks"]
  BY RepairedField DEF Parts
<1>5. \A i \in DOMAIN d["checks"] : e["checks"][i].id \in {d["checks"][i].id, s["checks"][i].id}
  <2> TAKE i \in DOMAIN d["checks"]
  <2>1. CheckShape(d["checks"][i])
    BY DEF WellFormed
  <2>2. "checks" \in Parts /\ "id" \in DOMAIN d["checks"][i] \ {"enabled"}
    BY <2>1 DEF CheckShape, CommonFields, Parts
  <2> QED
    BY <1>1, <2>2
<1> HIDE DEF e
<1>6. /\ GeneralIssues(s) = {}
      /\ \A raw \in {Raw(s).compose_file, Raw(s).checks_file} :
           Resolved(ResolveExisting(raw, {}, "project_only"))
      /\ Resolved(ResolveForCreation(Raw(s).report_directory, {}, "project_or_allowlisted"))
      /\ \A raw \in Raw(s).rpo_reference_file :
           Resolved(ResolveExisting(raw, {}, "project_or_allowlisted"))
  BY DEF RepairsFit
<1>7. /\ x.startup_timeout \in 1..MaxTimeout => x.startup_timeout <= Raw(s).total_timeout
      /\ x.total_timeout \in 1..MaxTimeout => Raw(s).startup_timeout <= x.total_timeout
  <2>1. /\ c.startup_timeout \in 1..MaxTimeout => c.startup_timeout <= Raw(s).total_timeout
        /\ c.total_timeout \in 1..MaxTimeout => Raw(s).startup_timeout <= c.total_timeout
    BY DEF RepairsFit
  <2>2. Raw(s).startup_timeout <= Raw(s).total_timeout
    <3>1. /\ ~(Raw(s).total_timeout < Raw(s).startup_timeout)
          /\ Raw(s).startup_timeout \in 1..MaxTimeout /\ Raw(s).total_timeout \in 1..MaxTimeout
      BY <1>6, GeneralIsSound
    <3> QED
      BY <3>1, LimitsAssumption
  <2> QED
    BY <1>2, <2>1, <2>2
<1>8. \A y \in {e, s} :
           y["compose"][1].services = {} \/ Raw(s).wait_for \subseteq y["compose"][1].services
  <2>1. \A y \in {d, s} :
             y["compose"][1].services = {} \/ Raw(s).wait_for \subseteq y["compose"][1].services
    BY DEF RepairsFit
  <2> QED
    BY <1>3, <2>1
<1>9. \A i, j \in DOMAIN e["checks"] : i # j =>
        /\ s["checks"][i].id # s["checks"][j].id
        /\ e["checks"][i].id = s["checks"][j].id => e["checks"][j].id = s["checks"][j].id
  <2>1. \A i, j \in DOMAIN d["checks"] : i # j =>
          /\ s["checks"][i].id # s["checks"][j].id
          /\ d["checks"][i].id = s["checks"][j].id => d["checks"][j].id = s["checks"][j].id
    BY DEF RepairsFit
  <2> QED
    BY <1>4, <1>5, <2>1
<1> QED
  BY <1>6, <1>7, <1>8, <1>9 DEF RepairsFit, e

\* The inductive invariant, with what the operator is taken to know.
HideInv == IInv /\ RepairsFit(doc)

LEMMA InitHideInv == Init => HideInv
  BY InitIInv, RepairsAssumption DEF Init, HideInv

LEMMA StepHideInv == HideInv /\ [Next]_vars => HideInv'
<1> SUFFICES ASSUME HideInv, [Next]_vars
             PROVE  HideInv'
  OBVIOUS
<1>1. IInv'
  BY StepIInv DEF HideInv
<1>2. CASE Repair
  <2>1. /\ WellFormed(doc) /\ WellFormed(SoundFor(doc)) /\ RepairsFit(doc)
        /\ DOMAIN doc["checks"] = DOMAIN SoundFor(doc)["checks"]
        /\ outcome = "refused" /\ doc' = WithRepairs(doc, issues)
    BY <1>2 DEF HideInv, IInv, TypeOK, RepairInv, Repair
  <2>2. issues = Pass(doc)
    BY <2>1 DEF HideInv, IInv, TypeOK, ProgressInv, CollectedInv
  <2>3. SoundFor(doc') = SoundFor(doc)
    BY <2>1, <2>2, PassNames, RepairKeepsShape DEF Names
  <2>4. RepairsFit(WithRepairs(doc, issues))
    BY <2>1, <2>3, RepairsGoOnFitting
  <2> QED
    BY <1>1, <2>1, <2>4 DEF HideInv
<1>3. CASE UNCHANGED doc
  BY <1>1, <1>3 DEF HideInv
<1> QED
  BY <1>2, <1>3 DEF Next, FromText, LoadConfig, AuditCompose, ValidateChecks, ResolveBackup,
                    Decide, Terminated, vars

LEMMA HideInvIsEnough == HideInv => HidesOnlyItsOwn
<1> SUFFICES ASSUME HideInv, outcome = "refused", Unusable(doc) = {},
                    NEW j \in Pass(WithRepairs(doc, issues))
             PROVE  \E i \in issues : MayHide(i, j)
  BY DEF HidesOnlyItsOwn
<1>1. /\ WellFormed(doc) /\ WellFormed(SoundFor(doc)) /\ RepairsFit(doc)
      /\ DOMAIN doc["checks"] = DOMAIN SoundFor(doc)["checks"]
      /\ issues = Pass(doc)
  BY DEF HideInv, IInv, TypeOK, RepairInv, ProgressInv, CollectedInv
<1>2. WellFormed(WithRepairs(doc, Pass(doc)))
  BY <1>1, PassNames, RepairKeepsShape DEF Names
<1> QED
  BY <1>1, <1>2, AllAtOnce

\* One call of from_text() (scenario.rs) reports all that is wrong, field by field:
\* what the next attempt still finds, after all that was reported has been
\* repaired, was hidden by what left the Compose file, its services or the checks
\* unread, by a field of the same record that ends the look at it (the pairs of
\* LooksNoFurther), or was reported itself and repaired no better.  An include, an
\* external network or a default of zero hides nothing.  It rests on
\* RepairsAssumption: what the operator writes has no fault of the configuration
\* file's own and makes none next to what is left.
THEOREM NothingElseIsHidden == Spec => []HidesOnlyItsOwn
  BY InitHideInv, StepHideInv, HideInvIsEnough, PTL DEF Spec
=============================================================================
