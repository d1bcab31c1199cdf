----------------------------- MODULE PathPolicy -----------------------------
(***************************************************************************)
(* config/src/paths.rs: where the paths of a configuration may lead.       *)
(*                                                                         *)
(* A canonical path is the sequence of its names from the root; a path as  *)
(* written is [absolute, parts], where a part may be "..".  The tree is    *)
(* fixed, and a link leads to a directory or file that exists.             *)
(***************************************************************************)
EXTENDS Naturals, Sequences, SequencesExt

CONSTANTS
  Dirs,     \* canonical paths of the directories; <<>> is the root
  Files,    \* canonical paths of the files
  Links,    \* from the place of a link to the canonical path it leads to
  Project   \* the directory of the configuration file, canonical

\* What canonicalize() and the resolvers answer instead of an error.
Missing == <<"?missing">>
Escapes == <<"?escapes">>
Refused == <<"?refused">>

ASSUME TreeAssumption ==
  /\ Dirs \cup Files \subseteq Seq(STRING) \ {Missing, Escapes, Refused}
  /\ <<>> \in Dirs /\ Project \in Dirs
  /\ Dirs \cap Files = {}
  /\ \A d \in Dirs : Front(d) \in Dirs
  /\ \A l \in DOMAIN Links : Links[l] \in Dirs \cup Files

\* A path as it is written.
RawPaths == [absolute : BOOLEAN, parts : Seq(STRING)]

Confinements == {"project_only", "project_or_allowlisted"}

Resolved(p) == p \notin {Missing, Escapes, Refused}

\* One name: only a directory has a parent and entries.
Walk(at, part) ==
  IF at \notin Dirs THEN Missing
  ELSE IF part = ".." THEN Front(at)
  ELSE LET next == Append(at, part)
       IN IF next \in DOMAIN Links THEN Links[next]
          ELSE IF next \in Dirs \cup Files THEN next ELSE Missing

\* std::fs::canonicalize: the links and the ".." are followed name by name.
Canonical(from, parts) ==
  LET at[n \in 0..Len(parts)] == IF n = 0 THEN from ELSE Walk(at[n-1], parts[n])
  IN at[Len(parts)]

Empty(raw) == ~raw.absolute /\ raw.parts = <<>>

Origin(raw) == IF raw.absolute THEN <<>> ELSE Project

Under(p, dir) == IsPrefix(dir, p)

Confine(p, allowed, confinement) ==
  IF \/ Under(p, Project)
     \/ /\ confinement = "project_or_allowlisted"
        /\ \E dir \in allowed : Under(p, dir)
  THEN p ELSE Escapes

ResolveExisting(raw, allowed, confinement) ==
  LET canonical == Canonical(Origin(raw), raw.parts)
  IN IF Empty(raw) THEN Refused
     ELSE IF canonical = Missing THEN Missing
     ELSE Confine(canonical, allowed, confinement)

\* The deepest ancestor that exists is canonicalised and confined, and the
\* names that do not exist yet are appended to it: ".." may not be one of them.
ResolveForCreation(raw, allowed, confinement) ==
  LET there(n) == Canonical(Origin(raw), SubSeq(raw.parts, 1, n))
      depth == CHOOSE n \in 0..Len(raw.parts) :
                 /\ there(n) # Missing
                 /\ \A k \in n+1..Len(raw.parts) : there(k) = Missing
      rest == SubSeq(raw.parts, depth + 1, Len(raw.parts))
      base == Confine(there(depth), allowed, confinement)
  IN IF Empty(raw) THEN Refused
     ELSE IF ".." \in {rest[i] : i \in 1..Len(rest)} THEN Missing
     ELSE IF base = Escapes THEN Escapes
     ELSE base \o rest

\* PathPolicy::new: an entry of allow_external_paths is absolute, exists and is
\* not the root; one that is not makes the whole configuration fail.
AllowlistUsable(entries) ==
  \A e \in entries :
    e.absolute /\ Canonical(<<>>, e.parts) \notin {Missing, <<>>}

Allowlist(entries) == {Canonical(<<>>, e.parts) : e \in entries}

HasParentComponent(raw) == \E i \in 1..Len(raw.parts) : raw.parts[i] = ".."
=============================================================================
