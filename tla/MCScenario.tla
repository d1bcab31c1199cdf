----------------------------- MODULE MCScenario -----------------------------
(* A small project, and every configuration of it with at most two faults. *)
EXTENDS Scenario

Rel(parts) == [absolute |-> FALSE, parts |-> parts]
Abs(parts) == [absolute |-> TRUE, parts |-> parts]

\* /p is the project, /x is allowlisted, /y is neither.
MCDirs == {<<>>, <<"p">>, <<"p", "d">>, <<"x">>, <<"y">>}
MCFiles == {<<"p", "f">>, <<"x", "f">>, <<"y", "f">>}
MCLinks == [l \in {<<"p", "in">>, <<"p", "out">>} |->
              IF l = <<"p", "in">> THEN <<"p", "f">> ELSE <<"y", "f">>]
MCProject == <<"p">>

\* Paths that no field accepts, and one that only a data field accepts.
BadPaths == {Rel(<<>>), Rel(<<"none">>), Rel(<<"out">>), Rel(<<"..", "y">>),
             Rel(<<"none", "..", "f">>), Abs(<<"y", "f">>)}
External == Abs(<<"x", "f">>)

SoundConfig ==
  [parses |-> TRUE, allow_external_paths |-> {Abs(<<"x">>)},
   name |-> "demo", project_name |-> {}, startup_timeout |-> 1, total_timeout |-> 3,
   environment |-> {"MODE"}, formats |-> <<"json", "md">>,
   max_command_output_bytes |-> 1, compose_file |-> Rel(<<"f">>),
   network_isolated |-> TRUE, wait_for |-> {"db"}, checks_file |-> Rel(<<"in">>),
   report_directory |-> Rel(<<"new", "reports">>), rpo_reference_file |-> {Rel(<<"f">>)},
   allow_command_checks |-> TRUE, allow_external_http_targets |-> FALSE,
   allow_published_ports |-> FALSE]

SoundCompose ==
  [readable |-> TRUE, parses |-> TRUE, include |-> FALSE, external_network |-> FALSE,
   has_services |-> TRUE, names_are_strings |-> TRUE, services |-> {"db", "web"}]

Volume(kind, path) == [kind |-> kind, path |-> path]
SoundService(n) ==
  [name |-> n, privileged |-> FALSE, host_namespaces |-> {}, cap_add |-> {},
   security_opt |-> {}, devices |-> FALSE, ports |-> {"loopback"},
   volumes |-> {Volume("named", Rel(<<>>)), Volume("injected", Rel(<<>>)),
                Volume("path", Rel(<<"d">>))},
   image |-> TRUE, build |-> FALSE]

Common(n, type) ==
  [id |-> n, enabled |-> TRUE, required |-> TRUE, timeout_seconds |-> {}, attempts |-> {},
   type |-> type]

SoundChecks ==
  << Common("http", "http") @@
       [url |-> "loopback", expected_status |-> 200, headers |-> {"plain"},
        headers_from_env |-> {"TOKEN"}, body |-> FALSE, method |-> "GET"],
     Common("command", "command") @@
       [command |-> "psql", program_path |-> {}, args |-> {"--version"}, workdir |-> {},
        environment |-> {}],
     Common("sql", "sql") @@
       [dsn_env |-> "DSN", query |-> "select", min_rows |-> {}, max_rows |-> {},
        min_value |-> {}, max_value |-> {}, expect_row_count |-> {1}, expect_value |-> {}],
     Common("file", "file") @@
       [base |-> "restore", path |-> Rel(<<"f">>), exists |-> TRUE,
        min_size_bytes |-> {}, max_size_bytes |-> {2}, sha256 |-> {}],
     Common("container", "container") @@
       [service |-> "db", state |-> "running", expected_exit_code |-> {}],
     Common("script", "script") @@
       [path |-> Rel(<<"f">>), mode |-> "executable", args |-> {}, workdir |-> {},
        environment |-> {}] >>

SoundBackups ==
  [local |-> [kind |-> "local", path |-> Rel(<<"d">>), metadata_file |-> {Rel(<<"f">>)}],
   restic |-> [kind |-> "restic", repository |-> "local", path |-> Rel(<<"d">>),
               snapshot |-> "latest", include_path |-> {"data"},
               secret_file |-> {Rel(<<"f">>)}, secret_env |-> {}],
   borg |-> [kind |-> "borg", repository |-> "remote", path |-> Rel(<<"d">>),
             snapshot |-> "latest", include_path |-> {},
             secret_file |-> {Rel(<<"f">>)}, secret_env |-> {}]]

MCSound ==
  [k \in DOMAIN SoundBackups |->
     [config |-> <<SoundConfig>>, compose |-> <<SoundCompose>>,
      services |-> <<SoundService("db"), SoundService("web")>>,
      checks_file |-> <<[readable |-> TRUE, parses |-> TRUE, any |-> TRUE,
                         timeout_seconds |-> 30, attempts |-> 1]>>,
      checks |-> SoundChecks, backup |-> <<SoundBackups[k]>>]]

\* One other value of one field: most are faults, some only next to another.
Of(part, at, field, values) == {<<part, at, field, v>> : v \in values}

ConfigFaults ==
  UNION {Of("config", 1, f, {FALSE}) : f \in {"parses", "network_isolated", "allow_command_checks"}}
  \cup UNION {Of("config", 1, f, {TRUE}) : f \in {"allow_external_http_targets", "allow_published_ports"}}
  \cup Of("config", 1, "allow_external_paths", {{}, {Rel(<<"d">>)}, {Abs(<<"none">>)}, {Abs(<<>>)}})
  \cup Of("config", 1, "name", {"Not An Identifier"})
  \cup Of("config", 1, "project_name", {{"Not An Identifier"}})
  \cup Of("config", 1, "startup_timeout", {0, 2, 4})
  \cup Of("config", 1, "total_timeout", {0, 1, 4})
  \cup Of("config", 1, "environment", {{"PATH"}, {"not-a-variable"}})
  \cup Of("config", 1, "formats", {<<>>, <<"md", "md">>})
  \cup Of("config", 1, "max_command_output_bytes", {0})
  \cup Of("config", 1, "compose_file", BadPaths \cup {External})
  \cup Of("config", 1, "checks_file", {Rel(<<"none">>), External})
  \cup Of("config", 1, "wait_for", {{"web"}, {"ghost"}})
  \cup Of("config", 1, "report_directory", BadPaths \cup {Abs(<<"x", "new">>)})
  \cup Of("config", 1, "rpo_reference_file", {{Rel(<<"none">>)}, {Abs(<<"y", "f">>)}, {External}})

ComposeFaults ==
  UNION {Of("compose", 1, f, {FALSE}) : f \in {"readable", "parses", "has_services", "names_are_strings"}}
  \cup UNION {Of("compose", 1, f, {TRUE}) : f \in {"include", "external_network"}}
  \cup Of("compose", 1, "services", {{}, {"db"}})
  \cup Of("services", 1, "privileged", {TRUE}) \cup Of("services", 2, "devices", {TRUE})
  \cup Of("services", 1, "host_namespaces", {{"pid"}})
  \cup Of("services", 2, "cap_add", {{"harmless"}, {"harmless", "dangerous"}})
  \cup Of("services", 1, "security_opt", {{"weakening"}})
  \cup Of("services", 2, "ports", {{"every"}, {"loopback", "every"}})
  \cup Of("services", 1, "volumes",
          {{Volume(k, Rel(<<>>))} : k \in {"socket", "variable", "host_directory"}}
          \cup {{Volume("path", p)} : p \in (BadPaths \ {Rel(<<>>)}) \cup {External}})
  \cup Of("services", 2, "image", {FALSE}) \cup Of("services", 2, "build", {TRUE})

CheckFaults ==
  UNION {Of("checks_file", 1, f, {FALSE}) : f \in {"readable", "parses", "any"}}
  \cup UNION {Of("checks_file", 1, f, {0}) : f \in {"timeout_seconds", "attempts"}}
  \cup UNION {Of("checks", i, "enabled", {FALSE}) : i \in 1..6}
  \cup Of("checks", 1, "id", {"Not An Identifier"}) \cup Of("checks", 3, "id", {"http"}) \cup Of("checks", 6, "id", {"http", "sql"})
  \cup Of("checks", 3, "timeout_seconds", {{0}, {5}}) \cup Of("checks", 2, "attempts", {{0}, {2}})
  \cup Of("checks", 1, "url", {"external", "not-http"}) \cup Of("checks", 1, "expected_status", {99, 600})
  \cup Of("checks", 1, "headers", {{"credential"}}) \cup Of("checks", 1, "headers_from_env", {{"not-a-variable"}})
  \cup Of("checks", 1, "body", {TRUE}) \cup Of("checks", 1, "method", {"POST"})
  \cup Of("checks", 2, "command", {"", "-option"}) \cup Of("checks", 2, "program_path", {{Rel(<<"out">>)}})
  \cup Of("checks", 2, "workdir", {{External}}) \cup Of("checks", 2, "environment", {{"RESTOREPROOF_X"}, {"value with NUL"}})
  \cup UNION {Of("checks", i, "args", {{"--version", "text with NUL"}}) : i \in {2, 6}}
  \cup Of("checks", 3, "dsn_env", {"not-a-variable"}) \cup Of("checks", 3, "query", {"delete"})
  \cup Of("checks", 3, "min_rows", {{2}}) \cup Of("checks", 3, "max_rows", {{1}})
  \cup Of("checks", 3, "min_value", {{2}}) \cup Of("checks", 3, "max_value", {{1}})
  \cup Of("checks", 3, "expect_row_count", {{}})
  \cup Of("checks", 4, "base", {"project"}) \cup Of("checks", 4, "path", {Rel(<<"..", "f">>), Rel(<<"out">>)})
  \cup Of("checks", 4, "exists", {FALSE}) \cup Of("checks", 4, "min_size_bytes", {{3}})
  \cup Of("checks", 4, "max_size_bytes", {{}}) \cup Of("checks", 4, "sha256", {{"digest"}, {"not-a-digest"}})
  \cup Of("checks", 5, "service", {"web", "ghost", "-option"})
  \cup Of("checks", 5, "state", {"exited"}) \cup Of("checks", 5, "expected_exit_code", {{0}})
  \cup Of("checks", 6, "path", {Rel(<<"none">>)}) \cup Of("checks", 6, "mode", {"not_a_file", "world_writable"})
  \cup Of("checks", 6, "workdir", {{Rel(<<"out">>)}}) \cup Of("checks", 6, "environment", {{"PATH"}})

BackupFaults(k) ==
  IF k = "local"
  THEN Of("backup", 1, "path", BadPaths \cup {External}) \cup Of("backup", 1, "metadata_file", {{}, {Rel(<<"none">>)}})
  ELSE Of("backup", 1, "repository", {"", "local", "remote"}) \cup Of("backup", 1, "snapshot", {"-option"})
       \cup Of("backup", 1, "path", {Rel(<<"none">>)})
       \cup (IF k = "restic" THEN Of("backup", 1, "include_path", {{"-option"}}) ELSE {})
       \cup Of("backup", 1, "secret_file", {{}, {Rel(<<"f">>)}, {Rel(<<"none">>)}})
       \cup Of("backup", 1, "secret_env", {{}, {"SECRET"}, {"not-a-variable"}})

With(d, fault) == [d EXCEPT ![fault[1]][fault[2]][fault[3]] = fault[4]]

Faults == ConfigFaults \cup ComposeFaults \cup CheckFaults

\* The values that other rules look at, too.
Switches ==
  {f \in Faults :
     \/ f[3] \in {"allow_external_paths", "compose_file", "checks_file", "allow_command_checks",
                  "has_services", "any", "enabled", "wait_for"}
     \/ f[1] \in {"compose", "checks_file"} /\ f[3] \in {"readable", "parses", "services"}}

\* Every fault alone, and two that meet: one that other rules look at and any
\* other one, two of one record, or two of the backup section.
MCDocuments ==
  {With(With(MCSound["local"], a), b) : a \in Switches, b \in Faults}
  \cup {With(With(MCSound["local"], f[1]), f[2]) :
          f \in {g \in CheckFaults \X CheckFaults : g[1][1] = "checks" /\ g[1][2] = g[2][2]}}
  \cup {With(With(MCSound["local"], f[1]), f[2]) :
          f \in {g \in ConfigFaults \X ConfigFaults :
                   g[1][3] \in {"startup_timeout", "network_isolated"}}}
  \cup UNION {{With(With(MCSound[k], a), b) :
                 a \in BackupFaults(k), b \in BackupFaults(k) \cup Of("config", 1, "allow_external_paths", {{}})} : k \in DOMAIN SoundBackups}
=============================================================================
