------------------------- MODULE CheckKinds_proofs -------------------------
(***************************************************************************)
(* Proofs about CheckKinds, for any checks and worlds and any number of    *)
(* changes of the environment during an evaluation.                        *)
(***************************************************************************)
EXTENDS CheckKinds, TLAPS

\* Which kind of check looks at what.
KindInv ==
  /\ pc \in {"resolve", "stat", "hash"} => check.type = "file"
  /\ pc \in {"observe", "port", "connect"} => check.type = "container"
  /\ pc \in {"dsn", "login", "query"} => check.type = "sql"
  /\ pc \in {"send", "body"} => check.type = "http"
  /\ pc \in {"prepare", "run"} => check.type \in {"command", "script"}

Shown(demands) == \A d \in demands : \E w \in seen : Meets(d, w)

\* What the looks so far have shown, each of them in some world.
ShownInv ==
  /\ pc \in {"stat", "hash"} => check.exists /\ Shown({"exists"})
  /\ pc = "hash" => check.sha256 # {} /\ Shown({"regular", "size"})
  /\ pc \in {"port", "connect"} => check.port /\ Shown({"state", "exit_code"})
  /\ pc = "connect" => Shown({"published"})
  /\ pc = "body" => Shown({"status"})

\* What they have shown of an environment that holds still, all in the one world.
QuietInv ==
  changes = 0 =>
    /\ pc = "stat" => Confined
    /\ pc = "hash" => world.file = "file" /\ SizeFits
    /\ pc \in {"port", "connect"} =>
         /\ context.probe /\ world.docker # "unavailable" /\ check.port
         /\ Meets("state", world) /\ Meets("exit_code", world)
         /\ check.expected_exit_code = {} \/ world.exit_code # {}
    /\ pc = "connect" => Meets("published", world)
    /\ pc \in {"login", "query"} =>
         /\ context.dsn # {}
         /\ context.allow_external_sql_targets \/ context.dsn = {"loopback"}
    /\ pc = "body" =>
         context.header_secrets /\ Reached(world) /\ Meets("status", world)
    /\ pc = "run" =>
         context.allow_command_checks /\ (check.type = "script" => world.program = "fine")

Promises == PassedIsBacked /\ QuietWorldIsJudgedRight /\ BlameIsBacked

IInv == TypeOK /\ KindInv /\ ShownInv /\ QuietInv /\ Promises

-----------------------------------------------------------------------------
(* The demands, one by one.                                                *)

LEMMA FileMeets ==
  ASSUME NEW w
  PROVE  /\ Meets("exists", w) <=> (check.exists = (w.file \in {"file", "directory"}))
         /\ Meets("regular", w) <=> (check.exists => w.file \in {"file", "outside"})
         /\ Meets("size", w) <=>
              (check.exists => Between(w.size, check.min_size_bytes, check.max_size_bytes))
         /\ Meets("digest", w) <=> (check.exists => check.sha256 \subseteq {w.digest})
BY DEF Meets

LEMMA ContainerMeets ==
  ASSUME NEW w
  PROVE  /\ Meets("state", w) <=>
              /\ w.listed
              /\ w.state = (IF check.state = "exited" THEN "exited" ELSE "running")
              /\ check.state = "healthy" => w.health = {"healthy"}
         /\ Meets("exit_code", w) <=> check.expected_exit_code \subseteq w.exit_code
         /\ Meets("published", w) <=> (check.port => w.published)
         /\ Meets("reachable", w) <=> (check.port => w.reachable)
BY DEF Meets

LEMMA SqlMeets ==
  ASSUME NEW w
  PROVE  /\ Meets("rows", w) <=>
              /\ check.expect_row_count \subseteq {w.rows}
              /\ Between(w.rows, check.min_rows, check.max_rows)
         /\ Meets("value", w) <=>
              (check.expect_value # {} \/ check.min_value \cup check.max_value # {} =>
                /\ w.rows > 0 /\ check.expect_value \subseteq {w.text}
                /\ check.min_value \cup check.max_value # {} =>
                     /\ w.number # {}
                     /\ \A n \in w.number : n # NaN /\ Between(n, check.min_value, check.max_value))
BY DEF Meets

LEMMA OutputMeets ==
  ASSUME NEW w
  PROVE  /\ Meets("status", w) <=>
              (check.expected_status = (IF w.redirect = "none" \/ FollowsIn(w) THEN w.status ELSE 302))
         /\ Meets("output", w) <=>
              (check.expect_output => w.needle \in 1..OutputCap /\ w.needle <= w.breaks)
BY DEF Meets

LEMMA Kinds ==
  /\ check.type = "file" => Demands = {"exists", "regular", "size", "digest"}
  /\ check.type = "container" => Demands = {"state", "exit_code", "published", "reachable"}
  /\ check.type = "sql" => Demands = {"rows", "value"}
  /\ check.type = "http" => Demands = {"status", "output"}
  /\ check.type \in {"command", "script"} => Demands = {"exit_code", "output"}
BY DEF Demands

\* What a look asks of the world is what the demands say of it.
LEMMA SizeIs ==
  ASSUME TypeOK, check.type = "file", check.exists
  PROVE  SizeFits <=> Meets("size", world)
<1>1. /\ check.min_size_bytes \subseteq Nat /\ check.max_size_bytes \subseteq Nat
      /\ world.size \in Nat
  BY CheckAssumption, WorldAssumption DEF TypeOK, check
<1> QED
  BY <1>1, FileMeets DEF SizeFits, Between

LEMMA StateIs ==
  ASSUME TypeOK, check.type = "container"
  PROVE  (world.listed /\ StateFits) <=> Meets("state", world)
<1>1. check.state \in {"running", "healthy", "exited"}
  BY CheckAssumption DEF TypeOK, check
<1> QED
  BY <1>1, ContainerMeets DEF StateFits

LEMMA StatusIs ==
  ASSUME TypeOK, check.type = "http", ~(check.follow_redirects /\ world.redirect = "loop")
  PROVE  StatusSeen = check.expected_status <=> Meets("status", world)
<1>1. world.redirect \in {"none", "loopback", "elsewhere", "loop"}
  BY WorldAssumption DEF TypeOK
<1>2. (world.redirect = "none" \/ Follows) <=> (world.redirect = "none" \/ FollowsIn(world))
  BY <1>1 DEF Follows, FollowsIn
<1> QED
  BY <1>2, OutputMeets DEF StatusSeen

LEMMA ExitCodeIs ==
  ASSUME TypeOK, check.type \in {"command", "script", "container"}, check.expected_exit_code # {}
  PROVE  world.exit_code = check.expected_exit_code <=> Meets("exit_code", world)
<1>1. \A a, b \in world.exit_code : a = b
  BY WorldAssumption DEF TypeOK
<1> QED
  BY <1>1, ContainerMeets

\* A complaint is one about the rows or the value, NaN or not.
LEMMA SomeComplaint ==
  ASSUME TypeOK, check.type = "sql", Complaints # {}
  PROVE  ~Meets("rows", world) \/ ~Meets("value", world)
<1>1. /\ check.min_rows \subseteq Int /\ check.max_rows \subseteq Int
      /\ check.min_value \subseteq Int /\ check.max_value \subseteq Int
  BY CheckAssumption DEF TypeOK, check
<1>2. world.rows \in Nat /\ \A n \in world.number \ {NaN} : n \in Int
  BY WorldAssumption DEF TypeOK
<1> SUFFICES ASSUME Meets("rows", world), Meets("value", world)
             PROVE  Complaints = {}
  OBVIOUS
<1>3. /\ check.expect_row_count \subseteq {world.rows}
      /\ \A a \in check.min_rows : ~(world.rows < a)
      /\ \A b \in check.max_rows : ~(world.rows > b)
  BY <1>1, <1>2, SqlMeets DEF Between
<1>4. ASSUME check.expect_value # {} \/ check.min_value \cup check.max_value # {}
      PROVE  /\ world.rows > 0 /\ check.expect_value \subseteq {world.text}
             /\ check.min_value \cup check.max_value # {} =>
                  /\ world.number # {}
                  /\ \A n \in world.number : Between(n, check.min_value, check.max_value)
  BY <1>4, SqlMeets
<1>5. \A a \in {"expect_value", "min_value", "max_value"} :
        check[a] # {} => world.rows # 0 /\ (a # "expect_value" => world.number # {})
  BY <1>2, <1>4
<1>6. /\ \A v \in check.expect_value : world.text = v
      /\ \A v \in check.min_value, n \in world.number \ {NaN} : ~(n < v)
      /\ \A v \in check.max_value, n \in world.number \ {NaN} : ~(n > v)
  BY <1>1, <1>2, <1>4 DEF Between
<1> QED
  BY <1>3, <1>5, <1>6 DEF Complaints

LEMMA NoComplaints ==
  ASSUME TypeOK, check.type = "sql", NaN \notin world.number
  PROVE  Complaints = {} <=> Meets("rows", world) /\ Meets("value", world)
<1>1. /\ check.expect_row_count \subseteq Int /\ check.min_rows \subseteq Int
      /\ check.max_rows \subseteq Int /\ check.min_value \subseteq Int
      /\ check.max_value \subseteq Int
  BY CheckAssumption DEF TypeOK, check
<1>2. world.rows \in Nat /\ world.number \subseteq Int /\ world.number \ {NaN} = world.number
  BY WorldAssumption DEF TypeOK
<1>3. Complaints = {} <=>
        /\ \A n \in check.expect_row_count : world.rows = n
        /\ \A n \in check.min_rows : ~(world.rows < n)
        /\ \A n \in check.max_rows : ~(world.rows > n)
        /\ check.expect_value # {} \/ check.min_value \cup check.max_value # {}
             => world.rows # 0
        /\ check.min_value \cup check.max_value # {} => world.number # {}
        /\ \A v \in check.expect_value : world.text = v
        /\ \A v \in check.min_value, n \in world.number : ~(n < v)
        /\ \A v \in check.max_value, n \in world.number : ~(n > v)
  BY <1>2 DEF Complaints
<1>4. Meets("rows", world) <=>
        /\ \A n \in check.expect_row_count : world.rows = n
        /\ \A n \in check.min_rows : ~(world.rows < n)
        /\ \A n \in check.max_rows : ~(world.rows > n)
  BY <1>1, <1>2, SqlMeets DEF Between
<1>5. ASSUME check.expect_value # {} \/ check.min_value \cup check.max_value # {}
      PROVE  Meets("value", world) <=>
               /\ world.rows # 0
               /\ check.min_value \cup check.max_value # {} => world.number # {}
               /\ \A v \in check.expect_value : world.text = v
               /\ \A v \in check.min_value, n \in world.number : ~(n < v)
               /\ \A v \in check.max_value, n \in world.number : ~(n > v)
  BY <1>1, <1>2, <1>5, SqlMeets DEF Between
<1>6. CASE check.expect_value = {} /\ check.min_value \cup check.max_value = {}
  BY <1>3, <1>4, <1>6, SqlMeets
<1> QED
  BY <1>3, <1>4, <1>5, <1>6

-----------------------------------------------------------------------------
(* What a step leaves alone.                                               *)

\* The verdict on an environment that holds still.
Judgement ==
  IF Skips /\ (check.type = "script" => ~MeansMissing(world)) THEN "skipped"
  ELSE IF MeansMissing(world) THEN "error"
  ELSE IF Answered(world) /\ Reached(world) /\ \A d \in Demands : Meets(d, world)
       THEN "passed" ELSE "failed"

\* The demands are those of the check, which never changes.
LEMMA MeetsFrame ==
  ASSUME UNCHANGED case, NEW d, NEW w
  PROVE  Meets(d, w)' <=> Meets(d, w)
BY DEF Meets, FollowsIn, Between, check, context

LEMMA ShownGrows ==
  ASSUME UNCHANGED case, seen \subseteq seen', NEW S, Shown(S)
  PROVE  Shown(S)'
BY MeetsFrame DEF Shown

LEMMA JudgementFrame ==
  ASSUME UNCHANGED <<case, world>>
  PROVE  Judgement' = Judgement
<1>1. /\ Skips' <=> Skips
      /\ Answered(world)' <=> Answered(world)
      /\ Reached(world)' <=> Reached(world)
      /\ Demands' = Demands
      /\ check' = check
  BY DEF Skips, Answered, Reached, Demands, check, context
<1>2. MeansMissing(world)' <=> MeansMissing(world)
  <2>1. \A d : Meets(d, world)' <=> Meets(d, world)
    BY DEF Meets, FollowsIn, Between, check, context
  <2> QED
    BY <2>1 DEF MeansMissing, check, context
<1>3. (\A d \in Demands : Meets(d, world))' <=> (\A d \in Demands : Meets(d, world))
  BY <1>1 DEF Meets, FollowsIn, Between, check, context
<1> QED
  BY <1>1, <1>2, <1>3 DEF Judgement

\* The blame, of a check and of what was seen that do not change.
LEMMA BlameFrame ==
  ASSUME UNCHANGED <<case, seen>>
  PROVE  /\ \A w : FellShort(w)' <=> FellShort(w)
         /\ CannotTell' <=> CannotTell
<1>1. \A w : /\ Answered(w)' <=> Answered(w)
             /\ Reached(w)' <=> Reached(w)
  BY DEF Answered, Reached, check, context
<1>2. \A d, w : Meets(d, w)' <=> Meets(d, w)
  BY MeetsFrame
<1>3. Demands' = Demands /\ check' = check /\ context' = context
  BY DEF Demands, check, context
<1>4. \A w : MeansMissing(w)' <=> MeansMissing(w)
  BY <1>2, <1>3 DEF MeansMissing
<1>5. Vanished' <=> Vanished
  BY DEF Vanished
<1> QED
  BY <1>1, <1>2, <1>3, <1>4, <1>5 DEF FellShort, CannotTell

\* What the world shows now falls short, or means that RestoreProof cannot tell.
LEMMA BlameNow ==
  ASSUME TypeOK
  PROVE  /\ \A d \in Demands : ~Meets(d, world) => FellShort(world)
         /\ ~Answered(world) \/ ~Reached(world) => FellShort(world)
         /\ MeansMissing(world) => CannotTell
  BY DEF TypeOK, FellShort, CannotTell

\* An evaluation that concludes.
LEMMA ConcludeKeeps ==
  ASSUME TypeOK, pc # "done", NEW v \in {"passed", "failed", "error", "skipped"}, Conclude(v),
         v = "passed" /\ Ordered => Shown(Demands),
         v = "failed" => FellShort(world), v = "error" => CannotTell,
         changes = 0 /\ Ordered => v = Judgement
  PROVE  IInv'
<1> USE DEF Conclude
<1>1. ~final
  BY DEF TypeOK
<1>2. TypeOK'
  BY <1>1 DEF TypeOK, Steps, check
<1>3. KindInv' /\ ShownInv' /\ QuietInv'
  BY DEF KindInv, ShownInv, QuietInv
<1>4. PassedIsBacked'
  <2>1. SUFFICES ASSUME verdict' = "passed", Ordered' PROVE (\A d \in Demands : \E w \in seen : Meets(d, w))'
    BY DEF PassedIsBacked
  <2>2. Shown(Demands)
    BY <2>1 DEF Ordered, check
  <2>3. Demands' = Demands
    BY DEF Demands, check
  <2> QED
    BY <2>2, <2>3, MeetsFrame DEF Shown
<1>5. QuietWorldIsJudgedRight'
  <2>1. Judgement' = Judgement
    BY JudgementFrame
  <2>2. QuietWorldIsJudgedRight' <=>
          (pc' = "done" /\ changes' = 0 /\ Ordered' => verdict' = Judgement')
    BY DEF QuietWorldIsJudgedRight, Judgement
  <2>3. Ordered' <=> Ordered
    BY DEF Ordered, check
  <2> QED
    BY <2>1, <2>2, <2>3
<1>6. BlameIsBacked'
  <2>1. world \in seen
    BY DEF TypeOK
  <2> QED
    BY <2>1, BlameFrame DEF BlameIsBacked
<1> QED
  BY <1>2, <1>3, <1>4, <1>5, <1>6 DEF IInv, Promises

LEMMA ConcludeFinallyKeeps ==
  ASSUME TypeOK, pc # "done", ConcludeFinally,
         FellShort(world), changes = 0 => Judgement = "failed"
  PROVE  IInv'
<1> USE DEF ConcludeFinally
<1>1. TypeOK'
  BY DEF TypeOK, Steps, check
<1>2. KindInv' /\ ShownInv' /\ QuietInv' /\ PassedIsBacked'
  BY DEF KindInv, ShownInv, QuietInv, PassedIsBacked
<1>3. QuietWorldIsJudgedRight'
  <2>1. Judgement' = Judgement
    BY JudgementFrame
  <2>2. QuietWorldIsJudgedRight' <=>
          (pc' = "done" /\ changes' = 0 /\ Ordered' => verdict' = Judgement')
    BY DEF QuietWorldIsJudgedRight, Judgement
  <2>3. Ordered' <=> Ordered
    BY DEF Ordered, check
  <2> QED
    BY <2>1, <2>2, <2>3
<1>4. BlameIsBacked'
  <2>1. world \in seen
    BY DEF TypeOK
  <2> QED
    BY <2>1, BlameFrame DEF BlameIsBacked
<1> QED
  BY <1>1, <1>2, <1>3, <1>4 DEF IInv, Promises

\* A look that settles it, one way or the other.
LEMMA PassOrFailKeeps ==
  ASSUME TypeOK, pc # "done", NEW STATE condition, PassOrFail(condition),
         condition /\ Ordered => Shown(Demands), ~condition => FellShort(world),
         changes = 0 /\ Ordered => Judgement = (IF condition THEN "passed" ELSE "failed")
  PROVE  IInv'
<1>1. CASE condition
  BY <1>1, ConcludeKeeps DEF PassOrFail
<1>2. CASE ~condition
  BY <1>2, ConcludeKeeps DEF PassOrFail
<1> QED
  BY <1>1, <1>2

\* An evaluation that goes on to its next look.
LEMMA ContinueKeeps ==
  ASSUME TypeOK, pc # "done", NEW step \in Steps \ {"done"}, Continue(step),
         KindInv', ShownInv', QuietInv'
  PROVE  IInv'
<1> USE DEF Continue
<1>1. TypeOK'
  BY DEF TypeOK, Steps, check
<1>2. Promises'
  <2>1. pc' # "done" /\ verdict' = "none" /\ ~final'
    BY DEF TypeOK
  <2> QED
    BY <2>1 DEF Promises, PassedIsBacked, QuietWorldIsJudgedRight, BlameIsBacked
<1> QED
  BY <1>1, <1>2 DEF IInv

LEMMA ShownNow ==
  ASSUME TypeOK, NEW S, \A d \in S : Meets(d, world)
  PROVE  Shown(S)
BY DEF TypeOK, Shown

-----------------------------------------------------------------------------
(* The looks of each kind.                                                 *)

LEMMA ResolveFileKeeps == ASSUME IInv, ResolveFile PROVE IInv'
<1> USE DEF IInv
<1>1. pc = "resolve" /\ check.type = "file"
  BY DEF ResolveFile, KindInv
<1>2. check.exists \in BOOLEAN /\ world.file \in {"absent", "outside", "directory", "file"}
  BY <1>1, CheckAssumption, WorldAssumption DEF TypeOK, check
<1>3. Demands = {"exists", "regular", "size", "digest"}
  BY <1>1, Kinds
<1>4. Judgement = IF MeansMissing(world) THEN "error"
                  ELSE IF \A d \in Demands : Meets(d, world) THEN "passed" ELSE "failed"
  BY <1>1 DEF Judgement, Skips, Answered, Reached
<1>5. CASE ~Confined
  <2>1. ~check.exists => Shown(Demands)
    BY <1>2, <1>3, <1>5, FileMeets, ShownNow DEF Confined
  <2>2. ~MeansMissing(world)
    BY <1>1, <1>2, <1>5, FileMeets DEF MeansMissing, Confined
  <2>3. (\A d \in Demands : Meets(d, world)) <=> ~check.exists
    BY <1>2, <1>3, <1>5, FileMeets DEF Confined
  <2>4. PassOrFail(~check.exists)
    BY <1>5 DEF ResolveFile
  <2>5. Judgement = (IF ~check.exists THEN "passed" ELSE "failed")
    BY <1>4, <2>2, <2>3
  <2>6. check.exists => FellShort(world)
    BY <1>2, <1>3, <1>5, FileMeets, BlameNow DEF Confined
  <2> QED
    BY <1>1, <2>1, <2>4, <2>5, <2>6, PassOrFailKeeps
<1>6. CASE Confined /\ ~check.exists
  <2>1. Judgement = "failed"
    BY <1>1, <1>2, <1>3, <1>4, <1>6, FileMeets DEF MeansMissing, Confined
  <2>2. FellShort(world)
    BY <1>2, <1>3, <1>6, FileMeets, BlameNow DEF Confined
  <2> QED
    BY <1>1, <1>6, <2>1, <2>2, ConcludeKeeps DEF ResolveFile
<1>7. CASE Confined /\ check.exists
  <2>1. Continue("stat")
    BY <1>7 DEF ResolveFile
  <2>2. Shown({"exists"})'
    <3>1. Shown({"exists"})
      BY <1>2, <1>7, FileMeets, ShownNow DEF Confined
    <3> QED
      BY <2>1, <3>1, ShownGrows DEF Continue
  <2>3. KindInv' /\ ShownInv' /\ QuietInv'
    BY <1>1, <1>7, <2>1, <2>2 DEF Continue, KindInv, ShownInv, QuietInv, Confined, check
  <2> QED
    BY <1>1, <2>1, <2>3, ContinueKeeps DEF Steps
<1> QED
  BY <1>5, <1>6, <1>7

LEMMA StatFileKeeps == ASSUME IInv, StatFile PROVE IInv'
<1> USE DEF IInv
<1>1. pc = "stat" /\ check.type = "file" /\ check.exists /\ Shown({"exists"})
  BY DEF StatFile, KindInv, ShownInv
<1>2. world.file \in {"absent", "outside", "directory", "file"}
  BY <1>1, WorldAssumption DEF TypeOK
<1>3. Demands = {"exists", "regular", "size", "digest"}
  BY <1>1, Kinds
<1>4. Judgement = IF MeansMissing(world) THEN "error"
                  ELSE IF \A d \in Demands : Meets(d, world) THEN "passed" ELSE "failed"
  BY <1>1 DEF Judgement, Skips, Answered, Reached
<1>5. changes = 0 => world.file \in {"file", "directory"}
  BY <1>1 DEF QuietInv, Confined
<1>6. SizeFits <=> Meets("size", world)
  BY <1>1, SizeIs
<1>7. MeansMissing(world) =>
        check.sha256 # {} /\ Meets("regular", world) /\ Meets("size", world)
  BY <1>1 DEF MeansMissing
<1>8. CASE world.file = "absent"
  <2>1. CannotTell
    <3>1. PICK v \in seen : Meets("exists", v)
      BY <1>1 DEF Shown
    <3>2. v.file \in {"file", "directory"} /\ world \in seen
      BY <1>1, <3>1, FileMeets DEF TypeOK
    <3> QED
      BY <1>1, <1>8, <3>2 DEF CannotTell, Vanished
  <2> QED
    BY <1>1, <1>5, <1>8, <2>1, ConcludeKeeps DEF StatFile
<1>9. CASE world.file # "absent" /\ (world.file = "directory" \/ ~SizeFits)
  <2>1. ~Meets("regular", world) \/ ~Meets("size", world)
    BY <1>1, <1>6, <1>9, FileMeets
  <2>2. Judgement = "failed"
    BY <1>3, <1>4, <1>7, <2>1
  <2>3. Conclude("failed")
    BY <1>9 DEF StatFile
  <2>4. FellShort(world)
    BY <1>3, <2>1, BlameNow
  <2> QED
    BY <1>1, <2>2, <2>3, <2>4, ConcludeKeeps
<1>10. CASE world.file \in {"file", "outside"} /\ SizeFits
  <2>1. Meets("regular", world) /\ Meets("size", world)
    BY <1>1, <1>6, <1>10, FileMeets
  <2>2. Shown({"regular", "size"})
    BY <2>1, ShownNow
  <2>3. CASE check.sha256 = {}
    <3>1. Conclude("passed")
      BY <1>10, <2>3 DEF StatFile
    <3>2. Meets("digest", world)
      BY <2>3, FileMeets
    <3>3. Shown(Demands)
      BY <1>1, <1>3, <2>2, <3>2, ShownNow DEF Shown, TypeOK
    <3>4. changes = 0 => Meets("exists", world)
      BY <1>1, <1>5, FileMeets
    <3>5. changes = 0 => Judgement = "passed"
      BY <1>3, <1>4, <1>7, <2>1, <2>3, <3>2, <3>4
    <3> QED
      BY <1>1, <3>1, <3>3, <3>5, ConcludeKeeps
  <2>4. CASE check.sha256 # {}
    <3>1. Continue("hash")
      BY <1>10, <2>4 DEF StatFile
    <3>2. Shown({"exists"})' /\ Shown({"regular", "size"})'
      BY <1>1, <2>2, <3>1, ShownGrows DEF Continue
    <3>3. SizeFits' <=> SizeFits
      BY <3>1 DEF Continue, SizeFits, check
    <3>4. KindInv' /\ ShownInv'
      BY <1>1, <2>4, <3>1, <3>2 DEF Continue, KindInv, ShownInv, check
    <3>5. QuietInv'
      BY <1>5, <1>10, <3>1, <3>3 DEF Continue, QuietInv
    <3> QED
      BY <1>1, <3>1, <3>4, <3>5, ContinueKeeps DEF Steps
  <2> QED
    BY <2>3, <2>4
<1> QED
  BY <1>2, <1>8, <1>9, <1>10

LEMMA HashFileKeeps == ASSUME IInv, HashFile PROVE IInv'
<1> USE DEF IInv
<1>1. /\ pc = "hash" /\ check.type = "file" /\ check.exists /\ check.sha256 # {}
      /\ Shown({"exists"}) /\ Shown({"regular", "size"})
  BY DEF HashFile, KindInv, ShownInv
<1>2. Demands = {"exists", "regular", "size", "digest"}
  BY <1>1, Kinds
<1>3. Judgement = IF MeansMissing(world) THEN "error"
                  ELSE IF \A d \in Demands : Meets(d, world) THEN "passed" ELSE "failed"
  BY <1>1 DEF Judgement, Skips, Answered, Reached
<1>4. changes = 0 =>
        world.file = "file" /\ Meets("exists", world) /\ Meets("regular", world) /\ Meets("size", world)
  BY <1>1, SizeIs, FileMeets DEF QuietInv
<1>5. changes = 0 => (MeansMissing(world) <=> ~world.readable)
  BY <1>1, <1>4 DEF MeansMissing
<1>6. CASE world.file \in {"absent", "directory"} \/ ~world.readable
  <2>1. CannotTell
    <3>1. PICK v \in seen : Meets("exists", v)
      BY <1>1 DEF Shown
    <3>2. PICK u \in seen : Meets("regular", u)
      BY <1>1 DEF Shown
    <3>3. /\ v.file \in {"file", "directory"} /\ u.file \in {"file", "outside"}
          /\ world \in seen
      BY <1>1, <3>1, <3>2, FileMeets DEF TypeOK
    <3>4. CASE world.file = "absent"
      BY <1>1, <3>3, <3>4 DEF CannotTell, Vanished
    <3>5. CASE world.file = "directory"
      BY <1>1, <3>3, <3>5 DEF CannotTell, Vanished
    <3>6. CASE ~world.readable
      BY <1>1, <3>3, <3>6 DEF CannotTell
    <3> QED
      BY <1>6, <3>4, <3>5, <3>6
  <2> QED
    BY <1>1, <1>3, <1>4, <1>5, <1>6, <2>1, ConcludeKeeps DEF HashFile
<1>7. CASE world.file \in {"file", "outside"} /\ world.readable /\ world.digest \in check.sha256
  <2>1. \A a, b \in check.sha256 : a = b
    BY <1>1, CheckAssumption DEF TypeOK, check
  <2>2. Meets("digest", world)
    BY <1>7, <2>1, FileMeets
  <2>3. Shown(Demands)
    BY <1>1, <1>2, <2>2 DEF Shown, TypeOK
  <2>4. changes = 0 => Judgement = "passed"
    BY <1>2, <1>3, <1>4, <1>5, <1>7, <2>2
  <2> QED
    BY <1>1, <1>7, <2>3, <2>4, ConcludeKeeps DEF HashFile
<1>8. CASE world.file \in {"file", "outside"} /\ world.readable /\ world.digest \notin check.sha256
  <2>1. ~Meets("digest", world)
    BY <1>1, <1>8, FileMeets
  <2>2. changes = 0 => Judgement = "failed"
    BY <1>2, <1>3, <1>5, <1>8, <2>1
  <2> QED
    BY <1>1, <1>2, <1>8, <2>1, <2>2, BlameNow, ConcludeFinallyKeeps DEF HashFile
<1> QED
  BY <1>6, <1>7, <1>8 DEF HashFile

LEMMA ContainerJudgement ==
  ASSUME check.type = "container", context.probe
  PROVE  Judgement = IF \/ world.docker = "unavailable"
                        \/ /\ Meets("state", world)
                           /\ check.expected_exit_code # {} /\ world.exit_code = {}
                     THEN "error"
                     ELSE IF \A d \in {"state", "exit_code", "published", "reachable"} : Meets(d, world)
                          THEN "passed" ELSE "failed"
<1>1. Demands = {"state", "exit_code", "published", "reachable"}
  BY Kinds
<1>2. ~Skips /\ Answered(world) /\ Reached(world)
  BY DEF Skips, Answered, Reached
<1>3. MeansMissing(world) <=>
        \/ world.docker = "unavailable"
        \/ Meets("state", world) /\ check.expected_exit_code # {} /\ world.exit_code = {}
  BY DEF MeansMissing
<1> QED
  BY <1>1, <1>2, <1>3 DEF Judgement

LEMMA ContainerMeans ==
  ASSUME TypeOK, check.type = "container",
         \/ world.docker = "unavailable"
         \/ Meets("state", world) /\ check.expected_exit_code # {} /\ world.exit_code = {}
  PROVE  CannotTell
<1>1. MeansMissing(world)
  BY DEF MeansMissing
<1> QED
  BY <1>1, BlameNow

LEMMA ObserveKeeps == ASSUME IInv, Observe PROVE IInv'
<1> USE DEF IInv
<1>1. pc = "observe" /\ check.type = "container"
  BY DEF Observe, KindInv
<1>2. Demands = {"state", "exit_code", "published", "reachable"}
  BY <1>1, Kinds
<1>3. (world.listed /\ StateFits) <=> Meets("state", world)
  BY <1>1, StateIs
<1>4. CASE ~context.probe
  <2>1. Judgement = "skipped"
    BY <1>1, <1>4 DEF Judgement, Skips
  <2> QED
    BY <1>1, <1>4, <2>1, ConcludeKeeps DEF Observe
<1>5. CASE context.probe /\ world.docker = "unavailable"
  <2>1. CannotTell
    BY <1>1, <1>5, ContainerMeans
  <2> QED
    BY <1>1, <1>5, <2>1, ContainerJudgement, ConcludeKeeps DEF Observe
<1>6. CASE context.probe /\ world.docker = "answers" /\ ~Meets("state", world)
  <2>1. Conclude("failed")
    BY <1>3, <1>6 DEF Observe
  <2>2. FellShort(world)
    BY <1>2, <1>6, BlameNow
  <2> QED
    BY <1>1, <1>6, <2>1, <2>2, ContainerJudgement, ConcludeKeeps
<1>7. CASE context.probe /\ world.docker = "answers" /\ Meets("state", world)
  <2>1. CASE check.expected_exit_code # {} /\ world.exit_code = {}
    <3>1. Conclude("error")
      BY <1>3, <1>7, <2>1 DEF Observe
    <3>2. CannotTell
      BY <1>1, <1>7, <2>1, ContainerMeans
    <3> QED
      BY <1>1, <1>7, <2>1, <3>1, <3>2, ContainerJudgement, ConcludeKeeps
  <2>2. CASE /\ check.expected_exit_code # {} /\ world.exit_code # {}
             /\ world.exit_code # check.expected_exit_code
    <3>1. Conclude("failed")
      BY <1>3, <1>7, <2>2 DEF Observe
    <3>2. ~Meets("exit_code", world)
      BY <1>1, <2>2, ExitCodeIs
    <3>3. FellShort(world)
      BY <1>2, <3>2, BlameNow
    <3> QED
      BY <1>1, <1>7, <2>2, <3>1, <3>2, <3>3, ContainerJudgement, ConcludeKeeps
  <2>3. CASE check.expected_exit_code = {} \/ world.exit_code = check.expected_exit_code
    <3>1. Meets("exit_code", world) /\ (check.expected_exit_code = {} \/ world.exit_code # {})
      BY <2>3, ContainerMeets
    <3>2. IF check.port THEN Continue("port") ELSE Conclude("passed")
      BY <1>3, <1>7, <2>3 DEF Observe
    <3>3. Shown({"state", "exit_code"})
      BY <1>7, <3>1, ShownNow
    <3>4. CASE ~check.port
      <4>1. \A d \in Demands : Meets(d, world)
        BY <1>2, <1>7, <3>1, <3>4, ContainerMeets
      <4>2. Judgement = "passed"
        BY <1>1, <1>2, <1>7, <3>1, <4>1, ContainerJudgement
      <4> QED
        BY <1>1, <3>2, <3>4, <4>1, <4>2, ShownNow, ConcludeKeeps
    <3>5. CASE check.port
      <4>1. Continue("port")
        BY <3>2, <3>5
      <4>2. Shown({"state", "exit_code"})'
        BY <3>3, <4>1, ShownGrows DEF Continue
      <4>3. (Meets("state", world) /\ Meets("exit_code", world))'
        BY <1>7, <3>1, <4>1 DEF Continue, Meets, check
      <4>4. KindInv' /\ ShownInv'
        BY <1>1, <3>5, <4>1, <4>2 DEF Continue, KindInv, ShownInv, check
      <4>5. QuietInv'
        BY <1>7, <3>1, <3>5, <4>1, <4>3 DEF Continue, QuietInv, check, context
      <4> QED
        BY <1>1, <4>1, <4>4, <4>5, ContinueKeeps DEF Steps
    <3> QED
      BY <3>4, <3>5
  <2> QED
    BY <2>1, <2>2, <2>3
<1> QED
  BY <1>4, <1>5, <1>6, <1>7 DEF Observe

LEMMA PublishedPortKeeps == ASSUME IInv, PublishedPort PROVE IInv'
<1> USE DEF IInv
<1>1. pc = "port" /\ check.type = "container" /\ check.port /\ Shown({"state", "exit_code"})
  BY DEF PublishedPort, KindInv, ShownInv
<1>2. changes = 0 =>
        /\ context.probe /\ world.docker # "unavailable" /\ check.port
        /\ Meets("state", world) /\ Meets("exit_code", world)
        /\ check.expected_exit_code = {} \/ world.exit_code # {}
  BY <1>1 DEF QuietInv
<1>3. CASE world.docker = "unavailable"
  <2>1. CannotTell
    BY <1>1, <1>3, ContainerMeans
  <2> QED
    BY <1>1, <1>2, <1>3, <2>1, ConcludeKeeps DEF PublishedPort
<1>4. CASE world.docker = "answers" /\ ~world.published
  <2>1. changes = 0 => Judgement = "failed"
    BY <1>1, <1>2, <1>4, ContainerMeets, ContainerJudgement
  <2>2. FellShort(world)
    BY <1>1, <1>4, Kinds, ContainerMeets, BlameNow
  <2> QED
    BY <1>1, <1>4, <2>1, <2>2, ConcludeKeeps DEF PublishedPort
<1>5. CASE world.docker = "answers" /\ world.published
  <2>1. Continue("connect")
    BY <1>5 DEF PublishedPort
  <2>2. Shown({"published"})
    BY <1>5, ContainerMeets, ShownNow
  <2>3. Shown({"state", "exit_code"})' /\ Shown({"published"})'
    BY <1>1, <2>1, <2>2, ShownGrows DEF Continue
  <2>4. changes = 0 =>
          (Meets("state", world) /\ Meets("exit_code", world) /\ Meets("published", world))'
    BY <1>2, <1>5, <2>1 DEF Continue, Meets, check
  <2>5. KindInv' /\ ShownInv'
    BY <1>1, <2>1, <2>3 DEF Continue, KindInv, ShownInv, check
  <2>6. QuietInv'
    BY <1>2, <2>1, <2>4 DEF Continue, QuietInv, check, context
  <2> QED
    BY <1>1, <2>1, <2>5, <2>6, ContinueKeeps DEF Steps
<1> QED
  BY <1>3, <1>4, <1>5 DEF PublishedPort

LEMMA ConnectKeeps == ASSUME IInv, Connect PROVE IInv'
<1> USE DEF IInv
<1>1. /\ pc = "connect" /\ check.type = "container" /\ check.port
      /\ Shown({"state", "exit_code"}) /\ Shown({"published"})
  BY DEF Connect, KindInv, ShownInv
<1>2. changes = 0 =>
        /\ context.probe /\ world.docker # "unavailable" /\ check.port
        /\ Meets("state", world) /\ Meets("exit_code", world) /\ Meets("published", world)
        /\ check.expected_exit_code = {} \/ world.exit_code # {}
  BY <1>1 DEF QuietInv
<1>3. world.reachable => Shown(Demands)
  <2>1. Demands = {"state", "exit_code", "published", "reachable"}
    BY <1>1, Kinds
  <2> QED
    BY <1>1, <2>1, ContainerMeets DEF Shown, TypeOK
<1>4. changes = 0 => Judgement = (IF world.reachable THEN "passed" ELSE "failed")
  BY <1>1, <1>2, ContainerMeets, ContainerJudgement
<1>5. ~world.reachable => FellShort(world)
  BY <1>1, Kinds, ContainerMeets, BlameNow
<1> QED
  BY <1>1, <1>3, <1>4, <1>5, PassOrFailKeeps DEF Connect

-----------------------------------------------------------------------------
LEMMA SqlJudgement ==
  ASSUME check.type = "sql"
  PROVE  Judgement = IF \/ context.dsn = {}
                        \/ context.dsn # {"loopback"} /\ ~context.allow_external_sql_targets
                     THEN "error"
                     ELSE IF /\ world.database = "answers"
                             /\ Meets("rows", world) /\ Meets("value", world)
                          THEN "passed" ELSE "failed"
<1>1. Demands = {"rows", "value"}
  BY Kinds
<1>2. ~Skips /\ Reached(world) /\ (Answered(world) <=> world.database = "answers")
  BY DEF Skips, Answered, Reached
<1>3. MeansMissing(world) <=>
        \/ context.dsn = {}
        \/ context.dsn # {"loopback"} /\ ~context.allow_external_sql_targets
  BY DEF MeansMissing
<1> QED
  BY <1>1, <1>2, <1>3 DEF Judgement

LEMMA ReadDsnKeeps == ASSUME IInv, ReadDsn PROVE IInv'
<1> USE DEF IInv
<1>1. pc = "dsn" /\ check.type = "sql"
  BY DEF ReadDsn, KindInv
<1>2. CASE \/ context.dsn = {}
           \/ ~context.allow_external_sql_targets /\ context.dsn # {"loopback"}
  <2>1. MeansMissing(world)
    BY <1>1, <1>2 DEF MeansMissing
  <2>2. CannotTell
    BY <2>1, BlameNow
  <2> QED
    BY <1>1, <1>2, <2>2, SqlJudgement, ConcludeKeeps DEF ReadDsn
<1>3. CASE ~(\/ context.dsn = {}
             \/ ~context.allow_external_sql_targets /\ context.dsn # {"loopback"})
  <2>1. Continue("login")
    BY <1>3 DEF ReadDsn
  <2>2. KindInv' /\ ShownInv' /\ QuietInv'
    BY <1>1, <1>3, <2>1 DEF Continue, KindInv, ShownInv, QuietInv, check, context
  <2> QED
    BY <1>1, <2>1, <2>2, ContinueKeeps DEF Steps
<1> QED
  BY <1>2, <1>3

\* A database that does not answer fails the check, finally or not.
LEMMA Unanswered ==
  ASSUME TypeOK, check.type = "sql", world.database # "answers", pc \in {"login", "query"}, QuietInv
  PROVE  FellShort(world) /\ (changes = 0 => Judgement = "failed")
<1>1. FellShort(world)
  BY BlameNow DEF Answered
<1>2. changes = 0 => Judgement = "failed"
  BY SqlJudgement DEF QuietInv
<1> QED
  BY <1>1, <1>2

LEMMA OpenDatabaseKeeps == ASSUME IInv, OpenDatabase PROVE IInv'
<1> USE DEF IInv
<1>1. pc = "login" /\ check.type = "sql"
  BY DEF OpenDatabase, KindInv
<1>2. CASE world.database = "starting"
  BY <1>1, <1>2, Unanswered, ConcludeFinallyKeeps DEF OpenDatabase
<1>3. CASE world.database = "unreachable"
  BY <1>1, <1>3, Unanswered, ConcludeKeeps DEF OpenDatabase
<1>4. CASE world.database \in {"answers", "rejects"}
  <2>1. Continue("query")
    BY <1>4 DEF OpenDatabase
  <2>2. KindInv' /\ ShownInv' /\ QuietInv'
    BY <1>1, <2>1 DEF Continue, KindInv, ShownInv, QuietInv, check, context
  <2> QED
    BY <1>1, <2>1, <2>2, ContinueKeeps DEF Steps
<1> QED
  BY <1>2, <1>3, <1>4 DEF OpenDatabase

LEMMA QueryKeeps == ASSUME IInv, Query PROVE IInv'
<1> USE DEF IInv
<1>1. pc = "query" /\ check.type = "sql"
  BY DEF Query, KindInv
<1>2. changes = 0 => Judgement = IF /\ world.database = "answers"
                                    /\ Meets("rows", world) /\ Meets("value", world)
                                 THEN "passed" ELSE "failed"
  BY <1>1, SqlJudgement DEF QuietInv
<1>3. CASE world.database \in {"rejects", "starting"} /\ ConcludeFinally
  BY <1>1, <1>3, Unanswered, ConcludeFinallyKeeps
<1>4. CASE world.database \in {"unreachable", "starting"} /\ Conclude("failed")
  BY <1>1, <1>4, Unanswered, ConcludeKeeps
<1>5. CASE world.database = "answers"
  <2>1. PassOrFail(Complaints = {})
    BY <1>5 DEF Query
  <2>2. Ordered => (Complaints = {} <=> Meets("rows", world) /\ Meets("value", world))
    BY <1>1, NoComplaints DEF Ordered, TypeOK
  <2>3. Complaints = {} /\ Ordered => Shown(Demands)
    BY <1>1, <2>2, Kinds, ShownNow
  <2>4. changes = 0 /\ Ordered => Judgement = (IF Complaints = {} THEN "passed" ELSE "failed")
    BY <1>2, <1>5, <2>2
  <2>5. Complaints # {} => FellShort(world)
    BY <1>1, Kinds, SomeComplaint, BlameNow
  <2> QED
    BY <1>1, <2>1, <2>3, <2>4, <2>5, PassOrFailKeeps
<1> QED
  BY <1>3, <1>4, <1>5 DEF Query

-----------------------------------------------------------------------------
LEMMA HttpJudgement ==
  ASSUME check.type = "http", context.header_secrets
  PROVE  Judgement = IF Reached(world) /\ Meets("status", world) /\ Meets("output", world)
                     THEN "passed" ELSE "failed"
<1>1. Demands = {"status", "output"}
  BY Kinds
<1>2. ~Skips /\ Answered(world) /\ ~MeansMissing(world)
  BY DEF Skips, Answered, MeansMissing
<1> QED
  BY <1>1, <1>2 DEF Judgement

LEMMA SendKeeps == ASSUME IInv, Send PROVE IInv'
<1> USE DEF IInv
<1>1. pc = "send" /\ check.type = "http"
  BY DEF Send, KindInv
<1>2. Reached(world) <=>
        world.reachable /\ ~(check.follow_redirects /\ world.redirect = "loop")
  BY <1>1 DEF Reached
<1>3. Reached(world) => (StatusSeen = check.expected_status <=> Meets("status", world))
  BY <1>1, <1>2, StatusIs
<1>4. CASE ~context.header_secrets
  <2>1. Judgement = "error"
    BY <1>1, <1>4 DEF Judgement, Skips, MeansMissing
  <2>2. MeansMissing(world)
    BY <1>1, <1>4 DEF MeansMissing
  <2>3. CannotTell
    BY <2>2, BlameNow
  <2> QED
    BY <1>1, <1>4, <2>1, <2>3, ConcludeKeeps DEF Send
<1>5. CASE context.header_secrets /\ ~(Reached(world) /\ Meets("status", world))
  <2>1. Conclude("failed")
    BY <1>2, <1>3, <1>5 DEF Send
  <2>2. FellShort(world)
    BY <1>1, <1>5, Kinds, BlameNow
  <2> QED
    BY <1>1, <1>5, <2>1, <2>2, HttpJudgement, ConcludeKeeps
<1>6. CASE context.header_secrets /\ Reached(world) /\ Meets("status", world)
  <2>1. Continue("body")
    BY <1>2, <1>3, <1>6 DEF Send
  <2>2. Shown({"status"})'
    BY <1>6, <2>1, ShownNow, ShownGrows DEF Continue
  <2>3. (Reached(world) /\ Meets("status", world))'
    BY <1>6, <2>1 DEF Continue, Reached, Meets, FollowsIn, check, context
  <2>4. KindInv' /\ ShownInv'
    BY <1>1, <2>1, <2>2 DEF Continue, KindInv, ShownInv, check
  <2>5. QuietInv'
    BY <1>6, <2>1, <2>3 DEF Continue, QuietInv, context
  <2> QED
    BY <1>1, <2>1, <2>4, <2>5, ContinueKeeps DEF Steps
<1> QED
  BY <1>4, <1>5, <1>6

LEMMA ReadBodyKeeps == ASSUME IInv, ReadBody PROVE IInv'
<1> USE DEF IInv
<1>1. pc = "body" /\ check.type = "http" /\ Shown({"status"})
  BY DEF ReadBody, KindInv, ShownInv
<1>2. (check.expect_output => Contains(world.needle, world.breaks)) <=> Meets("output", world)
  BY OutputMeets DEF Contains
<1>3. PassOrFail(Meets("output", world))
  BY <1>2 DEF ReadBody, PassOrFail
<1>4. Meets("output", world) => Shown(Demands)
  BY <1>1, Kinds DEF Shown, TypeOK
<1>5. changes = 0 => Judgement = (IF Meets("output", world) THEN "passed" ELSE "failed")
  BY <1>1, HttpJudgement DEF QuietInv
<1>6. ~Meets("output", world) => FellShort(world)
  BY <1>1, Kinds, BlameNow
<1> QED
  BY <1>1, <1>3, <1>4, <1>5, <1>6, PassOrFailKeeps

-----------------------------------------------------------------------------
LEMMA PrepareKeeps == ASSUME IInv, Prepare PROVE IInv'
<1> USE DEF IInv
<1>1. pc = "prepare" /\ check.type \in {"command", "script"}
  BY DEF Prepare, KindInv
<1>2. check.type = "script" => (MeansMissing(world) <=> world.program # "fine")
  BY DEF MeansMissing
<1>3. Skips <=> ~context.allow_command_checks
  BY <1>1 DEF Skips
<1>4. CASE /\ check.type = "script"
           /\ world.program \in {"missing", "outside", "world_writable", "not_executable"}
  <2>1. Conclude("error")
    BY <1>4 DEF Prepare
  <2>2. Judgement = "error"
    BY <1>2, <1>4 DEF Judgement
  <2>3. CannotTell
    BY <1>2, <1>4, BlameNow
  <2> QED
    BY <1>1, <2>1, <2>2, <2>3, ConcludeKeeps
<1>5. CASE (check.type = "script" => world.program = "fine") /\ ~context.allow_command_checks
  <2>1. Conclude("skipped")
    BY <1>5 DEF Prepare
  <2>2. Judgement = "skipped"
    BY <1>2, <1>3, <1>5 DEF Judgement
  <2> QED
    BY <1>1, <2>1, <2>2, ConcludeKeeps
<1>6. CASE (check.type = "script" => world.program = "fine") /\ context.allow_command_checks
  <2>1. Continue("run")
    BY <1>6 DEF Prepare
  <2>2. KindInv' /\ ShownInv' /\ QuietInv'
    BY <1>1, <1>6, <2>1 DEF Continue, KindInv, ShownInv, QuietInv, check, context
  <2> QED
    BY <1>1, <2>1, <2>2, ContinueKeeps DEF Steps
<1> QED
  BY <1>4, <1>5, <1>6 DEF Prepare

LEMMA RunProgramKeeps == ASSUME IInv, RunProgram PROVE IInv'
<1> USE DEF IInv
<1>1. pc = "run" /\ check.type \in {"command", "script"}
  BY DEF RunProgram, KindInv
<1>2. Demands = {"exit_code", "output"}
  BY <1>1, Kinds
<1>3. world.exit_code = check.expected_exit_code <=> Meets("exit_code", world)
  BY <1>1, CheckAssumption, ExitCodeIs DEF TypeOK, check
<1>4. (check.expect_output => Contains(world.needle, world.breaks)) <=> Meets("output", world)
  BY OutputMeets DEF Contains
<1>5. changes = 0 => ~Skips /\ Answered(world) /\ Reached(world)
  BY <1>1 DEF QuietInv, Skips, Answered, Reached
<1>6. changes = 0 => (MeansMissing(world) <=> world.program \in {"missing", "not_executable"})
  BY <1>1 DEF QuietInv, MeansMissing
<1>7. CASE world.program \in {"missing", "not_executable"}
  <2>1. Conclude("error")
    BY <1>7 DEF RunProgram
  <2>2. changes = 0 => Judgement = "error"
    BY <1>5, <1>6, <1>7 DEF Judgement
  <2>3. MeansMissing(world)
    BY <1>1, <1>7 DEF MeansMissing
  <2>4. CannotTell
    BY <2>3, BlameNow
  <2> QED
    BY <1>1, <2>1, <2>2, <2>4, ConcludeKeeps
<1>8. CASE world.program \notin {"missing", "not_executable"}
  <2>1. PassOrFail(Meets("exit_code", world) /\ Meets("output", world))
    BY <1>3, <1>4, <1>8 DEF RunProgram, PassOrFail
  <2>2. Meets("exit_code", world) /\ Meets("output", world) => Shown(Demands)
    BY <1>2, ShownNow
  <2>3. changes = 0 =>
          Judgement = (IF Meets("exit_code", world) /\ Meets("output", world)
                       THEN "passed" ELSE "failed")
    BY <1>2, <1>5, <1>6, <1>8 DEF Judgement
  <2>4. ~(Meets("exit_code", world) /\ Meets("output", world)) => FellShort(world)
    BY <1>2, BlameNow
  <2> QED
    BY <1>1, <2>1, <2>2, <2>3, <2>4, PassOrFailKeeps
<1> QED
  BY <1>7, <1>8

-----------------------------------------------------------------------------
(* The environment, and the invariant.                                     *)

LEMMA ChangeKeeps == ASSUME IInv, Change PROVE IInv'
<1> USE DEF IInv
<1>1. /\ pc # "done" /\ pc' = pc /\ case' = case /\ verdict' = verdict /\ final' = final
      /\ changes' = changes + 1 /\ changes < MaxChanges
  BY DEF Change
<1>2. PICK w \in Worlds[check.type] : world' = w /\ seen' = seen \cup {w}
  BY DEF Change
<1>3. changes \in Nat /\ changes' \in 0..MaxChanges /\ changes' # 0
  BY <1>1, BoundsAssumption DEF TypeOK
<1>4. TypeOK'
  BY <1>1, <1>2, <1>3 DEF TypeOK, check
<1>5. KindInv'
  BY <1>1 DEF KindInv, check
<1>6. ShownInv'
  <2>1. \A S \in {{"exists"}, {"regular", "size"}, {"state", "exit_code"}, {"published"}, {"status"}} :
          Shown(S) => Shown(S)'
    BY <1>1, <1>2, ShownGrows
  <2> QED
    BY <1>1, <2>1 DEF ShownInv, check
<1>7. QuietInv' /\ Promises'
  <2>1. verdict' = "none" /\ ~final'
    BY <1>1 DEF TypeOK
  <2> QED
    BY <1>1, <1>3, <2>1
    DEF QuietInv, Promises, PassedIsBacked, QuietWorldIsJudgedRight, BlameIsBacked
<1> QED
  BY <1>4, <1>5, <1>6, <1>7

LEMMA InitIInv == Init => IInv
<1> SUFFICES ASSUME Init PROVE IInv
  OBVIOUS
<1>1. check.type \in {"http", "command", "sql", "file", "container", "script"}
  BY KindsAssumption DEF Init, check
<1>2. pc = FirstStep[check.type]
  BY DEF Init
<1>3. KindInv /\ pc \in {"send", "prepare", "dsn", "resolve", "observe"}
  BY <1>1, <1>2 DEF KindInv, FirstStep
<1>4. TypeOK
  BY <1>3, BoundsAssumption DEF Init, TypeOK, Steps
<1>5. ShownInv /\ QuietInv
  BY <1>3 DEF ShownInv, QuietInv
<1>6. Promises
  BY <1>3 DEF Init, Promises, PassedIsBacked, QuietWorldIsJudgedRight, BlameIsBacked
<1> QED
  BY <1>3, <1>4, <1>5, <1>6 DEF IInv

LEMMA StutterKeeps == ASSUME IInv, UNCHANGED vars PROVE IInv'
<1> USE DEF IInv, vars
<1>1. TypeOK' /\ KindInv'
  BY DEF TypeOK, KindInv, check
<1>2. ShownInv'
  BY DEF ShownInv, Shown, Meets, FollowsIn, Between, check, context
<1>3. QuietInv'
  BY DEF QuietInv, Confined, SizeFits, Reached, Meets, FollowsIn, Between, check, context
<1>4. PassedIsBacked' /\ BlameIsBacked'
  <2>1. BlameIsBacked'
    BY BlameFrame DEF Promises, BlameIsBacked
  <2> QED
    BY <2>1 DEF Promises, PassedIsBacked, Ordered, Demands, Meets, FollowsIn, Between, check, context
<1>5. QuietWorldIsJudgedRight'
  <2>1. Judgement' = Judgement
    BY JudgementFrame
  <2>2. QuietWorldIsJudgedRight <=> (pc = "done" /\ changes = 0 /\ Ordered => verdict = Judgement)
    BY DEF QuietWorldIsJudgedRight, Judgement
  <2>3. QuietWorldIsJudgedRight' <=>
          (pc' = "done" /\ changes' = 0 /\ Ordered' => verdict' = Judgement')
    BY DEF QuietWorldIsJudgedRight, Judgement
  <2>4. Ordered' <=> Ordered
    BY DEF Ordered, check
  <2> QED
    BY <2>1, <2>2, <2>3, <2>4 DEF Promises
<1> QED
  BY <1>1, <1>2, <1>3, <1>4, <1>5 DEF Promises

\* The invariant is inductive.
LEMMA Inductive == Spec => []IInv
<1>1. IInv /\ [Next]_vars => IInv'
  <2> SUFFICES ASSUME IInv, [Next]_vars PROVE IInv'
    OBVIOUS
  <2>1. CASE ResolveFile \/ StatFile \/ HashFile
    BY <2>1, ResolveFileKeeps, StatFileKeeps, HashFileKeeps
  <2>2. CASE Observe \/ PublishedPort \/ Connect
    BY <2>2, ObserveKeeps, PublishedPortKeeps, ConnectKeeps
  <2>3. CASE ReadDsn \/ OpenDatabase \/ Query
    BY <2>3, ReadDsnKeeps, OpenDatabaseKeeps, QueryKeeps
  <2>4. CASE Send \/ ReadBody
    BY <2>4, SendKeeps, ReadBodyKeeps
  <2>5. CASE Prepare \/ RunProgram
    BY <2>5, PrepareKeeps, RunProgramKeeps
  <2>6. CASE Change
    BY <2>6, ChangeKeeps
  <2>7. CASE UNCHANGED vars
    BY <2>7, StutterKeeps
  <2> QED
    BY <2>1, <2>2, <2>3, <2>4, <2>5, <2>6, <2>7 DEF Next, Evaluate, Terminated
<1> QED
  BY <1>1, InitIInv, PTL DEF Spec

-----------------------------------------------------------------------------
(* The theorems.                                                           *)

\* An evaluation has a verdict exactly when it is over, and only a failure is
\* final (CheckEvaluation, executor.rs).
THEOREM TypeCorrect == Spec => []TypeOK
<1>1. IInv => TypeOK
  BY DEF IInv
<1> QED
  BY <1>1, Inductive, PTL

\* Whatever changes while a check looks, a check that passed was backed, demand
\* by demand, by something it saw (the kinds' execute()).
THEOREM BackingCorrect == Spec => []PassedIsBacked
<1>1. IInv => PassedIsBacked
  BY DEF IInv, Promises
<1> QED
  BY <1>1, Inductive, PTL

\* The order of the looks, with all their early returns, comes to the same as
\* the demands taken together, if nothing changes (CheckEvaluation, executor.rs).
THEOREM JudgementCorrect == Spec => []QuietWorldIsJudgedRight
<1>1. IInv => QuietWorldIsJudgedRight
  BY DEF IInv, Promises
<1> QED
  BY <1>1, Inductive, PTL

\* However the environment changes while a check looks, FAILED means that it fell
\* short and ERROR that RestoreProof could not tell (CheckEvaluation, executor.rs).
THEOREM BlameCorrect == Spec => []BlameIsBacked
<1>1. IInv => BlameIsBacked
  BY DEF IInv, Promises
<1> QED
  BY <1>1, Inductive, PTL
=============================================================================
