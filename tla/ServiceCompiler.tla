-------------------------- MODULE ServiceCompiler --------------------------
(***************************************************************************)
(* The compiler, the projections and the GPU resolver as functions: what   *)
(* they accept and produce, checked against reference definitions for one  *)
(* input at a time.  An input is one of the sets' members, and nothing     *)
(* happens to it.                                                          *)
(***************************************************************************)
EXTENDS UnitProjection

Gpu == INSTANCE Accelerators

CONSTANTS Graphs,       \* documents that differ in dependencies and lifecycles
          Sites,        \* documents that differ in their routes
          Requests,     \* the paths that visitors of a site ask for
          Ports,        \* documents that differ in listeners and route targets
          Hosts         \* machines that differ in their GPUs

\* A path begins with a slash: the empty one is the root's.
PathFormed(path) ==
  path.segments \in Seq(Range(path.segments)) /\ (path.segments = <<>> => path.slash)

\* A document is finite, and dependencies are a list.
DocumentFinite(e) ==
  /\ IsFiniteSet(DOMAIN e.services)
  /\ \A id \in DOMAIN e.services :
       LET s == e.services[id]
       IN  /\ s.dependencies \in Seq(Range(s.dependencies)) /\ IsFiniteSet(DOMAIN s.routes)
           /\ s.kind = "job" => IsFiniteSet(DOMAIN s.schedules)
           /\ s.runtime.type = "compose" => IsFiniteSet(s.runtime.containers)

ASSUME GraphsAssumption ==
  \A document \in Graphs : WellFormed(document) /\ DocumentFinite(Normalize(document))

ASSUME RequestsAssumption ==
  /\ \A request \in Requests : PathFormed(request)
  /\ \A document \in Sites : \A x \in AllExposures(Normalize(document)) : PathFormed(x.path)

VARIABLES topic,        \* which of the sets the input is from
          input

compilerVars == <<topic, input>>

CompilerInit ==
  \/ topic = "graph" /\ input \in Graphs
  \/ topic = "site"  /\ input \in Sites
  \/ topic = "ports" /\ input \in Ports
  \/ topic = "host"  /\ input \in Hosts

CompilerSpec == CompilerInit /\ [][UNCHANGED compilerVars]_compilerVars

-----------------------------------------------------------------------------
(* Properties. *)

\* A document whose units are generated, and in which the names that the model
\* keeps apart are apart: services name different native units, no other than
\* "virtualization" names libvirt's, and what machines silently require of that
\* service could be declared.
Generated(document) ==
  LET e == Normalize(document)
  IN  /\ Valid(document) /\ UnitsAccepted(e)
      /\ OwnersDistinct(e)
      /\ \A id \in NativeIds(e) : Owner(e, id) = LibvirtUnit(e) => id = "virtualization"
      /\ SemanticValid(WithVirtualization(e), FALSE, {})

\* What a dependency is waited for by: the owner of the service, the units that do
\* its work, and for "ready" its gate.
Awaited(e, d) ==
  {Owner(e, d.service)} \cup Workload(e, d.service)
  \cup (IF d.condition = "ready" THEN {Gate(d.service)} ELSE {})

\* The generated units can be started, and the owner of a service comes after all
\* that the service waits for: no unit comes before itself, and what is awaited of
\* each dependency comes before the owner (_dependency_lines, _aggregate_unit,
\* _readiness_unit and _activation_units on what _validate_dependency_graph lets
\* through).  The owner does the work of every service but a compose one, of
\* which only the aggregate is ordered: see WorkloadsOrdered.
UnitsOrdered ==
  topic = "graph" /\ Generated(input) =>
    LET e     == Normalize(input)
        files == UnitFiles(e)
    IN  /\ \A f \in files : f.unit \notin Before(files, f.unit)
        /\ \A id \in NativeIds(e) : \A d \in Range(e.services[id].dependencies) :
             Awaited(e, d) \subseteq Before(files, Owner(e, id))

\* docs/development/managed-services-v2-spec.md:458 "a Compose application can
\* depend on a job": the units that do the work of an enabled service start after
\* all that the service waits for.  The containers of a compose service do not
\* (_namespace_bundle gives them PartOf= alone), which MCWorkloadsOrdered.cfg shows.
WorkloadsOrdered ==
  topic = "graph" /\ Generated(input) =>
    LET e     == Normalize(input)
        files == UnitFiles(e)
    IN  \A id \in NativeIds(e) \cap Enabled(e) : \A d \in Range(e.services[id].dependencies) :
          \A unit \in Workload(e, id) : Awaited(e, d) \subseteq Before(files, unit)

\* A disabled service stays down: the reconciler is told to stop everything that
\* it owns of it, and nothing that starts, wakes or elapses brings any of it back
\* through what the units require (generate_projection of both modules and
\* the rules on what an enabled service may depend on).
DisabledStaysDown ==
  topic = "graph" /\ Generated(input) =>
    LET e   == Normalize(input)
        off == Managed(e, DOMAIN e.services) \ Enabled(e)
    IN  \A id \in off :
          LET units == (IF id \in SessionIds(e) THEN {SessionTarget(id)} ELSE UnitsOf(e, id))
                       \cup EntryUnits(id, e.services[id])
          IN  units \subseteq StopUnits(e) \cap OwnedUnits(e) /\ units \cap MayRun(e) = {}

\* A request is answered by the route with the longest path it lies below, by
\* one only, and a link of the portal leads to its own route: the conflicts that
\* _routes_conflict refuses, the patterns of _path_patterns and the order of the
\* rendered handlers fit together.
RoutesReachable ==
  topic = "site" /\ Valid(input) /\ CaddyAccepts(Normalize(input)) =>
    LET e == Normalize(input)
    IN  /\ \A site \in { x.site : x \in CaddyRoutes(e) }, request \in Requests :
             RequestAnswered(e, site, request)
        /\ \A x \in PortalEntries(e) : LinkWorks(e, x)

\* The host port that an isolated container publishes for a route is used by no
\* other service of a document that compiles (_validate_route_publications).
RoutePortsExclusive ==
  topic = "ports" /\ Valid(input) =>
    \A published \in IsolatedRoutePorts(Normalize(input)) :
      Intruders(Normalize(input), published.service, published.port) = {}

\* The published port and the firewall policy of an isolated service agree on
\* the container's port behind each of its routes (_publish_lines, _route_ports).
RoutesOpen ==
  topic = "ports" /\ Valid(input) /\ ProjectionAccepts(Normalize(input), TRUE) =>
    LET e == Normalize(input)
        zones == FirewallPolicies(e).zones
    IN  \A id \in DOMAIN zones : \A r \in DOMAIN e.services[id].routes :
          RouteOpen(e.services[id], zones[id], e.services[id].routes[r].target.port)

\* Every GPU of the host has a CDI name of the same kind, or NVML counts the
\* GPUs as the device minors do.
NamedAlike(host) ==
  \/ \A g \in host.gpus : host.index[g] = g
  \/ /\ host.known = host.gpus
     /\ host.listed = {} \/ \A g \in host.gpus : Gpu!CdiUuid(g) \in host.listed
  \/ /\ \A g \in host.gpus : Gpu!CdiIndex(g) \in host.listed \/ host.listed = {}
     /\ \A g \in host.known : Gpu!CdiUuid(g) \notin host.listed /\ host.listed # {}

\* A request for n GPUs gets n different ones and a request for all gets all,
\* whichever names the driver and the CDI toolkit reveal, on a host that names
\* its GPUs alike (probe_inventory, resolve_service_accelerators).
GpusDistinct ==
  topic = "host" /\ NamedAlike(input) =>
    \A runtime \in {"oci", "exec"}, quantity \in 0 .. Cardinality(input.gpus) :
      \A selectors \in Gpu!Resolve(Gpu!ProbeInventory(input), runtime, quantity) :
        Gpu!RequestMet(input, selectors, quantity)
=============================================================================
