---------------------------- MODULE MCCheckKinds ----------------------------
(* A few checks of each kind and the worlds that tell them apart. *)
EXTENDS CheckKinds, FiniteSets, TLC

FileChecks ==
  [type : {"file"}, exists : BOOLEAN, min_size_bytes : {{}, {1}}, max_size_bytes : {{}, {1}},
   sha256 : {{}, {"good"}}]
FileWorlds ==
  [file : {"absent", "outside", "directory"}, size : {1}, digest : {"good"}, readable : {TRUE}]
  \cup [file : {"file"}, size : 0..2, digest : {"good", "other"}, readable : BOOLEAN]

ContainerChecks ==
  [type : {"container"}, state : {"running", "healthy"}, expected_exit_code : {{}}, port : BOOLEAN]
  \cup [type : {"container"}, state : {"exited"}, expected_exit_code : {{}, {0}}, port : BOOLEAN]
Container(state, health, exit_code) ==
  [docker : {"answers"}, listed : {TRUE}, state : {state}, health : {health},
   exit_code : {exit_code}, published : BOOLEAN, reachable : BOOLEAN]
ContainerWorlds ==
  Container("running", {"starting"}, {0}) \cup Container("running", {"healthy"}, {})
  \cup Container("exited", {}, {0}) \cup {w \in Container("exited", {}, {1}) \cup Container("exited", {}, {}) : ~w.published}
  \cup {[docker |-> d, listed |-> FALSE, state |-> "running", health |-> {}, exit_code |-> {0},
         published |-> FALSE, reachable |-> FALSE] : d \in {"answers", "unavailable"}}

SqlChecks ==
  {c \in [type : {"sql"}, expect_row_count : {{}, {1}}, min_rows : {{}, {1}}, max_rows : {{}, {1}},
          expect_value : {{}, {"1"}}, min_value : {{}, {1}}, max_value : {{}, {1}}] :
     Cardinality({f \in DOMAIN c \ {"type"} : c[f] # {}}) \in 1..2}
Cell(text, number) == [database |-> "answers", text |-> text, number |-> number]
SqlWorlds ==
  {Cell(v[1], v[2]) @@ [rows |-> n] :
     v \in {<<"0", {0}>>, <<"1", {1}>>, <<"NULL", {}>>, <<"NaN", {NaN}>>}, n \in 0..2}
  \cup {[database |-> d, text |-> "1", number |-> {1}, rows |-> 1] : d \in {"rejects", "starting", "unreachable"}}

HttpChecks ==
  [type : {"http"}, expected_status : {200, 302}, expect_output : BOOLEAN, follow_redirects : BOOLEAN]
HttpWorlds ==
  [reachable : {TRUE}, redirect : {"none"}, status : {200, 503}, needle : {1, 3}, breaks : {0, 3}]
  \cup [reachable : {TRUE}, redirect : {"loopback", "elsewhere", "loop"}, status : {200},
        needle : {1}, breaks : {1}]
  \cup [reachable : {FALSE}, redirect : {"none"}, status : {200}, needle : {0}, breaks : {0}]

ProgramChecks ==
  [type : {"command", "script"}, expected_exit_code : {{0}, {1}}, expect_output : {FALSE}]
  \cup [type : {"command"}, expected_exit_code : {{0}}, expect_output : {TRUE}]
ProgramWorlds ==
  [program : {"fine"}, exit_code : {{}, {0}, {1}}, needle : {1, 3}, breaks : {0, 3}]
  \cup [program : {"missing", "outside", "world_writable", "not_executable"}, exit_code : {{0}},
        needle : {1}, breaks : {3}]

MCWorlds ==
  [file |-> FileWorlds, container |-> ContainerWorlds, sql |-> SqlWorlds, http |-> HttpWorlds,
   command |-> ProgramWorlds, script |-> ProgramWorlds]

Case(checks, contexts) == {[check |-> c, context |-> x] : c \in checks, x \in contexts}
MCCases ==
  Case(FileChecks, {[any |-> TRUE]})
  \cup Case(ContainerChecks, [probe : BOOLEAN])
  \cup Case(SqlChecks, {[dsn |-> {"loopback"}, allow_external_sql_targets |-> FALSE]})
  \cup Case({CHOOSE c \in SqlChecks : TRUE},
            [dsn : {{}, {"loopback"}, {"external"}, {"unparsable"}}, allow_external_sql_targets : BOOLEAN])
  \cup Case(HttpChecks, [header_secrets : {TRUE}, allow_external_http_targets : BOOLEAN])
  \cup Case({CHOOSE c \in HttpChecks : TRUE},
            {[header_secrets |-> FALSE, allow_external_http_targets |-> FALSE]})
  \cup Case(ProgramChecks, [allow_command_checks : BOOLEAN])
=============================================================================
