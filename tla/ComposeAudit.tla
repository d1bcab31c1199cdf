---------------------------- MODULE ComposeAudit ----------------------------
(***************************************************************************)
(* config/src/compose_audit.rs: the static audit of the Compose file.      *)
(*                                                                         *)
(* `compose` is the record of the file's top level, `service` the record   *)
(* of one service; a rule that is broken is reported under the field that  *)
(* breaks it.  What a text must look like to count as one class of the     *)
(* other (a loopback address, a dangerous capability) is left out.         *)
(***************************************************************************)
EXTENDS PathPolicy

\* The fields a rule looks at.
ComposeFields ==
  {"readable", "parses", "include", "external_network", "has_services",
   "names_are_strings", "services"}
ServiceFields ==
  {"name", "privileged", "host_namespaces", "cap_add", "security_opt", "devices",
   "ports", "volumes", "image", "build"}

When(condition, field) == IF condition THEN {field} ELSE {}

\* The compose file: whether it parses, whether it has an include: section,
\* whether its top-level networks name an external one, and its services.
TopLevelErrors(compose, isolated) ==
  When(compose.include, "include")
  \cup When(compose.external_network /\ isolated, "external_network")
  \cup When(~compose.has_services, "has_services")
  \cup When(/\ compose.has_services /\ compose.names_are_strings
            /\ compose.services = {}, "services")
  \cup When(compose.has_services /\ ~compose.names_are_strings, "names_are_strings")

\* The services a later rule may refer to.
ServicesOf(compose) == IF compose.has_services THEN compose.services ELSE {}

\* A port is refused unless it is bound to loopback or publishing is allowed.
PortErrors(service, security) ==
  When(service.ports \ {"loopback"} # {} /\ ~security.allow_published_ports, "ports")

VolumeKinds == {"named", "injected", "socket", "variable", "host_directory", "path"}

\* A relative bind mount begins at the directory of the Compose file.
From(dir, raw) ==
  IF raw.absolute THEN raw ELSE [absolute |-> TRUE, parts |-> dir \o raw.parts]

\* A bind mount of a path is confined like any other path; the variables the
\* runner injects are, too, and named volumes are Docker's.
VolumeRefused(volume, dir, allowed) ==
  \/ volume.kind \in {"socket", "variable", "host_directory"}
  \/ /\ volume.kind = "path"
     /\ \E p \in {From(dir, volume.path)} :
          ~Resolved(ResolveForCreation(p, allowed, "project_or_allowlisted"))

ServiceErrors(service, dir, security, allowed) ==
  When(service.privileged, "privileged")
  \cup When(service.host_namespaces # {}, "host_namespaces")
  \cup When("dangerous" \in service.cap_add, "cap_add")
  \cup When("weakening" \in service.security_opt, "security_opt")
  \cup When(service.devices, "devices")
  \cup PortErrors(service, security)
  \cup When(\E v \in service.volumes : VolumeRefused(v, dir, allowed), "volumes")
  \cup When(~service.image /\ ~service.build, "image")
=============================================================================
