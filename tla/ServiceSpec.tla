---------------------------- MODULE ServiceSpec ----------------------------
(***************************************************************************)
(* The compiler of the desired-state document (services/nas_v2_spec.py):   *)
(* defaults, the semantic rules, and the effective document that the       *)
(* projections read.                                                       *)
(*                                                                         *)
(* A document is a record of functions: services, profiles, resources and  *)
(* credentials, each from identifiers to records.  A record carries only   *)
(* the fields its author wrote, as the YAML does; `setdefault` is Over,    *)
(* which keeps the left value.  Documents satisfy the JSON schema (which   *)
(* fields may occur and their types): that check is not modelled.          *)
(* A host path is the sequence of its parts, a route path is [segments,    *)
(* slash] where slash says that the author ended it with a slash.          *)
(***************************************************************************)
EXTENDS Integers, Sequences, FiniteSets, SequencesExt

CONSTANTS Fold,         \* casefold, as a function on path segments and hosts
          Reserved,     \* the segment no route path may begin with
          Refusals      \* what makes a segment unsafe: wildcards, "..", ...

Has(r, field) == field \in DOMAIN r

\* What is written, with the defaults of what is left out.
Over(written, defaults) ==
  [field \in DOMAIN written \cup DOMAIN defaults |->
     IF Has(written, field) THEN written[field] ELSE defaults[field]]

\* What the JSON schema demands of a document, as far as anything below rests on it.
WellFormed(d) ==
  /\ "services" \in DOMAIN d /\ DOMAIN d \subseteq {"services", "profiles", "resources", "credentials"}
  /\ \A id \in DOMAIN d.services :
       LET s == d.services[id]
       IN  /\ {"kind", "runtime"} \subseteq DOMAIN s
           /\ s.kind \in {"daemon", "job", "session"}
           /\ Has(s, "activation") => s.activation \in {"persistent", "on-demand"}

-----------------------------------------------------------------------------
(* Defaults. *)

NormalNetwork(policy) ==
  Over(policy, [mode |-> "host", outbound |-> "allow", lanAccess |-> FALSE,
                hostPorts |-> {}, egress |-> {}])

NormalRoute(route) ==
  LET target   == IF route.target.type \in {"http", "https"}
                  THEN Over(route.target, [host |-> "127.0.0.1"]) ELSE route.target
      exposure == IF route.exposure.type = "hostname"
                  THEN Over(route.exposure, [path |-> [segments |-> <<>>, slash |-> TRUE]])
                  ELSE route.exposure
  IN  Over([route EXCEPT !.target = target, !.exposure = exposure],
           IF route.auth = "identity" THEN [capability |-> "access", visible |-> FALSE]
           ELSE [visible |-> FALSE])

Lifecycle(kind) ==
  CASE kind = "daemon" -> [activation |-> "persistent"]
    [] kind = "job"    -> [schedules |-> <<>>]
    [] OTHER           -> <<>>

\* A session that names no network is isolated and may reach nothing.  The
\* default is set even when the session names a profile.
NetworkDefault(service) ==
  IF Has(service, "network")
  THEN [network |-> NormalNetwork(service.network)]
  ELSE IF service.kind = "session"
       THEN [network |-> NormalNetwork([mode |-> "isolated", outbound |-> "deny"])]
       ELSE <<>>

NormalService(service) ==
  LET s == Over(Over(service, [enabled |-> TRUE, managed |-> TRUE, dependencies |-> <<>>,
                               requires |-> {}, capabilities |-> <<>>, accelerators |-> <<>>,
                               storage |-> <<>>, credentials |-> <<>>,
                               routes |-> <<>>, listeners |-> <<>>]),
                Lifecycle(service.kind))
  IN  Over(NetworkDefault(service),
      [s EXCEPT
        !.dependencies = [i \in DOMAIN @ |-> Over(@[i], [condition |-> "ready"])],
        !.accelerators = [i \in DOMAIN @ |-> Over(@[i],
                            [vendor |-> "any", quantity |-> 1, required |-> FALSE, mode |-> "shared"])],
        !.routes    = [r \in DOMAIN @ |-> NormalRoute(@[r])],
        !.listeners = [l \in DOMAIN @ |-> Over(@[l], [firewall |-> TRUE])]])

Normalize(document) ==
  LET d == Over(document, [profiles |-> <<>>, resources |-> <<>>, credentials |-> <<>>])
  IN  [d EXCEPT
        !.services  = [id \in DOMAIN @ |-> NormalService(@[id])],
        !.profiles  = [id \in DOMAIN @ |-> NormalNetwork(@[id])],
        !.resources = [id \in DOMAIN @ |-> Over(@[id],
            [scope |-> "system", backup |-> FALSE, consistency |-> "filesystem"])]]

-----------------------------------------------------------------------------
(* Host paths and what a runtime may name. *)

SafePath(path) == ".." \notin Range(path)

Under(root, path) == SafePath(path) /\ IsPrefix(root, path)

RuntimePathsValid(id, runtime) ==
  CASE runtime.type \in {"quadlet", "compose", "vm"} -> Under(<<"apps", id>>, runtime.source)
    [] runtime.type = "python" ->
         \A file \in {"requirementsFile", "script"} \cap DOMAIN runtime :
            Under(<<"apps", id>>, runtime[file])
    [] runtime.type = "exec" -> SafePath(runtime.command) /\ runtime.command # <<>>
    [] runtime.type = "systemd" -> runtime.suffix \in {"service", "timer", "target", "path"}
    [] OTHER -> TRUE

ResourceValid(resource) ==
  /\ SafePath(resource.path)
  /\ Has(resource, "template") => SafePath(resource.template)
  /\ resource.scope = "user" => Has(resource, "template") /\ "{user}" \in Range(resource.template)
  /\ resource.scope = "instance" =>
       Has(resource, "template") /\ "{instance}" \in Range(resource.template)
  /\ ~(resource.stateClass \in {"cache", "ephemeral"} /\ resource.backup)
  /\ resource.consistency = "zfs-snapshot" => Has(resource, "dataset")

CredentialValid(credential) == Under(<<"run", "nas-secrets">>, credential.path)

-----------------------------------------------------------------------------
(* One service. *)

WorkloadValid(s) ==
  CASE s.kind = "daemon" ->
         /\ s.activation = "on-demand" => Has(s, "idleSeconds")
         /\ Has(s, "schedules") => s.schedules = <<>>
    [] s.kind = "job" -> ~Has(s, "activation") /\ ~Has(s, "idleSeconds")
    [] s.kind = "session" ->
         /\ {"activation", "schedules", "idleSeconds"} \cap DOMAIN s = {}
         /\ s.runtime.type = "oci"

\* platform is the set of enabled capabilities; before the probe has written
\* its inventory nothing is required of it.
CapabilitiesValid(s, probed, platform) == probed => s.requires \subseteq platform

Bridged(s) == s.managed /\ s.runtime.type \in {"oci", "quadlet", "compose"}

\* network_policy: the profile's policy, the service's own, or plain host.
NetworkPolicy(d, s) ==
  IF Has(s, "profile") THEN d.profiles[s.profile]
  ELSE IF Has(s, "network") THEN s.network ELSE NormalNetwork(<<>>)

NetworkValid(d, s) ==
  /\ ~(Has(s, "profile") /\ Has(s, "network"))
  /\ Has(s, "profile") => s.profile \in DOMAIN d.profiles
  /\ LET policy == NetworkPolicy(d, s)
     IN  /\ Has(policy, "vlan") => policy.mode = "isolated" /\ Bridged(s)
         /\ policy.mode = "isolated" =>
              IF s.kind = "session" THEN s.routes = <<>> /\ s.listeners = <<>> ELSE Bridged(s)

DistinctBy(seq, field) ==
  \A i, j \in DOMAIN seq : seq[i][field] = seq[j][field] => i = j

StorageValid(d, s) ==
  /\ \A i \in DOMAIN s.storage :
       /\ s.storage[i].resource \in DOMAIN d.resources
       /\ SafePath(s.storage[i].mount)
       /\ s.runtime.type = "compose" => Has(s.storage[i], "target")
       /\ s.runtime.type = "vm" => Has(s.storage[i], "mountTag")
  /\ DistinctBy(s.storage, "mount")

CredentialsValid(d, s) ==
  \A i \in DOMAIN s.credentials :
    LET attached == s.credentials[i]
    IN  /\ attached.credential \in DOMAIN d.credentials
        /\ attached.use = "file" => Has(attached, "mount") /\ SafePath(attached.mount)
        /\ s.runtime.type = "compose" => Has(attached, "target")

\* Every declaration of managed files is refused, a well-formed one too: their
\* delivery is not implemented.
ManagedFilesValid(s) == Has(s, "files") => s.files = <<>>

AcceleratorsValid(s) ==
  \A i \in DOMAIN s.accelerators :
    LET a == s.accelerators[i]
    IN  CASE s.runtime.type = "vm" -> a.mode = "passthrough" /\ Has(a, "device") /\ a.device.type = "pci"
          [] s.runtime.type = "compose" /\ ~Has(a, "target") -> FALSE
          [] OTHER -> a.mode # "passthrough"

AuthorizationValid(s) ==
  /\ \A i, j \in DOMAIN s.capabilities : s.capabilities[i] = s.capabilities[j] => i = j
  /\ \A r \in DOMAIN s.routes :
       LET route == s.routes[r]
       IN  IF route.auth = "identity"
           THEN route.capability \in {"access"} \cup Range(s.capabilities)
           ELSE ~Has(route, "capability")

-----------------------------------------------------------------------------
(* Routes. *)

RoutePathValid(path) ==
  /\ Range(path.segments) \cap Refusals = {}
  /\ path.segments # <<>> => Fold[Head(path.segments)] # Reserved

\* _canonical_route_path: decoded, without redundant slashes, case-folded.
Canonical(path) == [i \in DOMAIN path.segments |-> Fold[path.segments[i]]]

\* Every (site, path) a service claims; the appliance's own site is "".
Exposures(id, s) ==
  UNION { LET exposure == s.routes[r].exposure
          IN  IF exposure.type = "path"
              THEN { [service |-> id, route |-> r, index |-> i, site |-> "", host |-> "",
                      path |-> exposure.paths[i]] : i \in DOMAIN exposure.paths }
              ELSE { [service |-> id, route |-> r, index |-> i, site |-> Fold[exposure.hostnames[i]],
                      host |-> exposure.hostnames[i], path |-> exposure.path] :
                        i \in DOMAIN exposure.hostnames }
          : r \in DOMAIN s.routes }

AllExposures(d) == UNION { Exposures(id, d.services[id]) : id \in DOMAIN d.services }

\* Two exposures of a site may be parent and child, never equal, and the root
\* tolerates no other.
RoutesConflict(first, second) ==
  LET a == Canonical(first.path)
      b == Canonical(second.path)
  IN  first.site = second.site /\ (a = b \/ a = <<>> \/ b = <<>>)

RoutesValid(d) ==
  LET all == AllExposures(d)
  IN  /\ \A e \in all : RoutePathValid(e.path)
      /\ \A e, f \in all : e # f => ~RoutesConflict(e, f)

-----------------------------------------------------------------------------
(* Listeners and the host's ports. *)

ListenerPorts(listener) == listener.first .. listener.last

SinglePort(listener) == ~Has(listener, "range")

\* Every (protocol, port) that listeners expose, with its owner.
ListenerClaims(d) ==
  UNION { UNION { { [service |-> id, listener |-> l, protocol |-> d.services[id].listeners[l].protocol,
                     port |-> p] : p \in ListenerPorts(d.services[id].listeners[l]) }
                  : l \in DOMAIN d.services[id].listeners }
          : id \in DOMAIN d.services }

ListenersValid(d) ==
  /\ \A id \in DOMAIN d.services : \A l \in DOMAIN d.services[id].listeners :
       LET listener == d.services[id].listeners[l]
       IN  /\ listener.first <= listener.last
           /\ Has(listener, "target") => SinglePort(listener)
  /\ \A c1, c2 \in ListenerClaims(d) :
       c1.protocol = c2.protocol /\ c1.port = c2.port => c1 = c2

Loopback == {"127.0.0.1", "localhost", "::1"}

\* The routes that reach their service over the host's loopback.
LoopbackRoutes(s, mode) ==
  { r \in DOMAIN s.routes :
      LET target == s.routes[r].target
      IN  /\ target.type \in {"http", "https"}
          /\ (IF mode = "host" THEN Fold[target.host] ELSE target.host) \in Loopback }

InMode(d, mode) == { id \in DOMAIN d.services : NetworkPolicy(d, d.services[id]).mode = mode }

Holds(service, port) == [service |-> service, port |-> port]

\* The port a native service listens on behind a remapped listener is forgotten.
PortOwnersOfExposures(d) == { Holds(c.service, c.port) : c \in ListenerClaims(d) }

\* The TCP ports services are known to hold on the host.
PortOwners(d) ==
  { Holds(c.service, c.port) : c \in { x \in ListenerClaims(d) : x.protocol = "tcp" } }
  \cup UNION { LET s == d.services[id]
               IN  { Holds(id, s.listeners[l].target) :
                       l \in { x \in DOMAIN s.listeners : s.listeners[x].protocol = "tcp"
                                                          /\ Has(s.listeners[x], "target") } }
                   \cup { Holds(id, s.routes[r].target.port) : r \in LoopbackRoutes(s, "host") }
               : id \in InMode(d, "host") }


IsolatedRoutePorts(d) ==
  UNION { { Holds(id, d.services[id].routes[r].target.port) :
              r \in LoopbackRoutes(d.services[id], "isolated") } : id \in InMode(d, "isolated") }

RoutePublicationsValid(d) ==
  \A mine \in IsolatedRoutePorts(d) :
    \A other \in PortOwners(d) \cup IsolatedRoutePorts(d) :
      other.port = mine.port => other.service = mine.service

-----------------------------------------------------------------------------
(* Dependencies. *)

DependenciesValid(d, id) ==
  LET s == d.services[id]
  IN  /\ \A i \in DOMAIN s.dependencies :
           LET dependency == s.dependencies[i]
               target     == d.services[dependency.service]
           IN  /\ dependency.service # id
               /\ dependency.service \in DOMAIN d.services
               /\ s.enabled => target.enabled
               /\ dependency.condition = "completed" => target.kind = "job"
               /\ dependency.condition = "ready" => target.kind # "job" /\ Has(target, "readiness")
      /\ DistinctBy(s.dependencies, "service")

\* What the depth-first search has seen.
Searches(ids) == [visiting : SUBSET ids, visited : SUBSET ids, cycle : BOOLEAN]

\* The depth-first search marks a service as done before it has seen what it
\* depends on.
VisitMarkedEarly(services) ==
  LET visit[id \in DOMAIN services, search \in Searches(DOMAIN services)] ==
        IF search.cycle \/ id \in search.visited THEN search
        ELSE FoldLeft(LAMBDA acc, dependency : visit[dependency.service, acc],
                      [search EXCEPT !.visited = @ \cup {id}], services[id].dependencies)
  IN  visit

\* The search goes on at a service.
Visit(services) ==
  LET visit[id \in DOMAIN services, search \in Searches(DOMAIN services)] ==
        IF search.cycle \/ id \in search.visited THEN search
        ELSE IF id \in search.visiting THEN [search EXCEPT !.cycle = TRUE]
        ELSE LET below == FoldLeft(LAMBDA acc, dependency : visit[dependency.service, acc],
                                   [search EXCEPT !.visiting = @ \cup {id}], services[id].dependencies)
             IN  IF below.cycle THEN below
                 ELSE [below EXCEPT !.visiting = @ \ {id}, !.visited = @ \cup {id}]
  IN  visit

DependencyGraphValid(services) ==
  ~ FoldLeft(LAMBDA acc, id : Visit(services)[id, acc],
             [visiting |-> {}, visited |-> {}, cycle |-> FALSE],
             SetToSeq(DOMAIN services)).cycle

-----------------------------------------------------------------------------
(* The compiler. *)

ServiceValid(d, id, probed, platform) ==
  LET s == d.services[id]
  IN  /\ RuntimePathsValid(id, s.runtime)
      /\ WorkloadValid(s)
      /\ CapabilitiesValid(s, probed, platform)
      /\ NetworkValid(d, s)
      /\ StorageValid(d, s)
      /\ CredentialsValid(d, s)
      /\ ManagedFilesValid(s)
      /\ AcceleratorsValid(s)
      /\ AuthorizationValid(s)
      /\ DependenciesValid(d, id)

SemanticValid(d, probed, platform) ==
  /\ \A r \in DOMAIN d.resources : ResourceValid(d.resources[r])
  /\ \A c \in DOMAIN d.credentials : CredentialValid(d.credentials[c])
  /\ \A p \in DOMAIN d.profiles : Has(d.profiles[p], "vlan") => d.profiles[p].mode = "isolated"
  /\ \A id \in DOMAIN d.services : ServiceValid(d, id, probed, platform)
  /\ RoutesValid(d)
  /\ ListenersValid(d)
  /\ RoutePublicationsValid(d)
  /\ DependencyGraphValid(d.services)

\* The unit that stands for a service.
OwnerUnit(id, s) ==
  CASE s.runtime.type = "systemd" -> <<"native", s.runtime.unit>>
    [] s.runtime.type = "compose" -> <<"target", id>>
    [] OTHER                      -> <<"service", id>>

BuildEffective(d) ==
  Over(d, [runtime |-> [id \in DOMAIN d.services |->
                       [type |-> d.services[id].runtime.type,
                        owner |-> OwnerUnit(id, d.services[id]),
                        managed |-> d.services[id].managed]],
        routes  |-> UNION { LET s == d.services[id]
                            IN  { [service |-> id, route |-> r,
                                   grants |-> IF s.routes[r].auth = "identity"
                                              THEN {s.routes[r].capability} ELSE {},
                                   wakes |-> s.kind = "daemon" /\ s.activation = "on-demand"] :
                                  r \in DOMAIN s.routes }
                            : id \in DOMAIN d.services },
        backups |-> { r \in DOMAIN d.resources : d.resources[r].backup
                                                 /\ d.resources[r].stateClass = "authoritative" }])

\* compile_document: {} when the document is refused.
Compile(document, probed, platform) ==
  LET d == Normalize(document)
  IN  IF SemanticValid(d, probed, platform) THEN {BuildEffective(d)} ELSE {}

Valid(document) == SemanticValid(Normalize(document), FALSE, {})
=============================================================================
