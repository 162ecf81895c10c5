------------------------- MODULE ServiceProjection -------------------------
(***************************************************************************)
(* What the effective document becomes: the proxy's handlers and the       *)
(* portal (services/nas_v2_caddy.py), the firewall policies                *)
(* (services/nas_v2_network.py) and the ports a container publishes        *)
(* (services/nas_v2_quadlet.py).  A projection that raises refuses the     *)
(* document; the operators *Accepts say when it does not.                  *)
(***************************************************************************)
EXTENDS ServiceSpec

CONSTANT LanHost        \* the appliance's own host name, case-folded

Enabled(e) == { id \in DOMAIN e.services : e.services[id].enabled }

-----------------------------------------------------------------------------
(* The proxy. *)

CaddyRoutes(e) == { x \in AllExposures(e) : x.service \in Enabled(e) }

\* The bare form of a path that was written with a slash is left out.
PathPatternsAsWritten(path) ==
  (IF path.slash THEN {} ELSE {[form |-> "exact", segments |-> path.segments]})
  \cup {[form |-> "below", segments |-> path.segments]}

\* A path pattern is the path itself, or all that lies below it.
PathPatterns(path) ==
  (IF path.segments = <<>> THEN {} ELSE {[form |-> "exact", segments |-> path.segments]})
  \cup {[form |-> "below", segments |-> path.segments]}

CaddyAccepts(e) ==
  \A x \in CaddyRoutes(e) : (x.site # "" => x.site # LanHost) /\ RoutePathValid(x.path)

\* External: Caddy's path matcher compares without regard to case.
Folded(segments) == [i \in DOMAIN segments |-> Fold[segments[i]]]

Matches(pattern, request) ==
  LET p == Folded(pattern.segments)
      q == Folded(request.segments)
  IN  IF pattern.form = "exact" THEN p = q /\ ~request.slash
      ELSE IsPrefix(p, q) /\ (p # q \/ request.slash)

\* _path_sort_key: more segments first.
RenderedBefore(x, y) == Len(x.path.segments) > Len(y.path.segments)

Matching(e, site, request) ==
  { x \in CaddyRoutes(e) : x.site = site /\ \E p \in PathPatterns(x.path) : Matches(p, request) }

\* `handle` blocks exclude each other: the first that matches answers.
Answering(e, site, request) ==
  LET matching == Matching(e, site, request)
  IN  { x \in matching : \A y \in matching : ~RenderedBefore(y, x) }

\* A visible route's link: its first path, or its first host name with its path.
PortalEntries(e) ==
  { x \in CaddyRoutes(e) : x.index = 1 /\ e.services[x.service].routes[x.route].visible }

-----------------------------------------------------------------------------
(* The firewall. *)

WantsFirewall(s) == \E l \in DOMAIN s.listeners : s.listeners[l].firewall

NeedsIsolatedFirewalld(s, policy) ==
  \/ policy.outbound # "deny" \/ policy.lanAccess
  \/ policy.hostPorts # {} \/ policy.egress # {}
  \/ s.routes # <<>> \/ s.listeners # <<>>

RequiresFirewalld(e) ==
  \E id \in Enabled(e) :
    LET s == e.services[id]
        policy == NetworkPolicy(e, s)
    IN  \/ policy.mode = "isolated" /\ s.managed /\ NeedsIsolatedFirewalld(s, policy)
        \/ policy.mode = "host" /\ WantsFirewall(s)

\* Which network a container may have (quadlet_network_reference).
QuadletNetworkAccepts(e, s, firewalld) ==
  LET policy   == NetworkPolicy(e, s)
      excepted == policy.hostPorts # {} \/ policy.egress # {} \/ policy.lanAccess \/ Has(policy, "vlan")
  IN  CASE policy.mode = "none" -> s.listeners = <<>> /\ s.routes = <<>> /\ ~excepted
        [] policy.mode = "host" -> policy.outbound = "allow" /\ ~excepted
        [] OTHER -> /\ s.runtime.type \in {"oci", "quadlet", "compose"}
                    /\ s.kind = "session" => s.runtime.type = "oci" /\ s.routes = <<>> /\ s.listeners = <<>>
                    /\ NeedsIsolatedFirewalld(s, policy) => firewalld

FirewallListeners(s) == { s.listeners[l] : l \in { x \in DOMAIN s.listeners : s.listeners[x].firewall } }

FirewallAccepts(e) ==
  \A id \in Enabled(e) :
    LET s    == e.services[id]
        mode == NetworkPolicy(e, s).mode
    IN  CASE mode = "isolated" -> /\ \A listener \in FirewallListeners(s) : ~Has(listener, "target")
                                  /\ Bridged(s)
                                  /\ \A r \in DOMAIN s.routes : s.routes[r].target.type # "unix-http"
          [] mode = "host" -> TRUE
          [] mode = "none" -> FirewallListeners(s) = {}

\* The container port behind a route is taken to be the port the route names.
RoutePortsAsNamed(s) == { s.routes[r].target.port : r \in DOMAIN s.routes }

\* The container's ports the host may reach: the route's port, or the target
\* of the listener that publishes it.
RoutePorts(s) ==
  { LET port == s.routes[r].target.port
        same == { l \in DOMAIN s.listeners :
                    /\ s.listeners[l].protocol = "tcp"
                    /\ SinglePort(s.listeners[l]) /\ s.listeners[l].first = port }
    IN  IF same # {} /\ Has(s.listeners[CHOOSE l \in same : TRUE], "target")
        THEN s.listeners[CHOOSE l \in same : TRUE].target ELSE port
    : r \in DOMAIN s.routes }

\* compile_application_projection: one zone and its policies for each isolated
\* service, and one policy for the listeners of all native services.
IsolatedPolicies(e, id) ==
  LET s == e.services[id]
      policy == NetworkPolicy(e, s)
  IN  [host   |-> policy.hostPorts,
       lan    |-> IF policy.lanAccess THEN "ACCEPT" ELSE "DROP",
       world  |-> IF policy.outbound = "allow" THEN "ACCEPT" ELSE "DROP",
       egress |-> policy.egress,
       routes |-> RoutePorts(s),
       listeners |-> UNION { { <<listener.protocol, p>> : p \in ListenerPorts(listener) } :
                             listener \in FirewallListeners(s) }]

HostListenerRules(s) ==
  LET moved == { x \in FirewallListeners(s) : Has(x, "target") /\ x.target # x.first }
  IN  [ports    |-> UNION { { <<x.protocol, p>> : p \in ListenerPorts(x) } :
                            x \in FirewallListeners(s) \ moved },
       forwards |-> { <<x.protocol, x.first, x.target>> : x \in moved }]

FirewallPolicies(e) ==
  LET native == { id \in Enabled(e) : NetworkPolicy(e, e.services[id]).mode = "host" }
  IN  [zones |-> [id \in { x \in Enabled(e) : NetworkPolicy(e, e.services[x]).mode = "isolated" } |->
                    IsolatedPolicies(e, id)],
       ports    |-> UNION { HostListenerRules(e.services[id]).ports : id \in native },
       forwards |-> UNION { HostListenerRules(e.services[id]).forwards : id \in native }]

-----------------------------------------------------------------------------
(* The ports an isolated container publishes. *)

PublishAccepts(s) ==
  \A r \in DOMAIN s.routes :
    s.routes[r].target.type # "unix-http" /\ s.routes[r].target.host \in Loopback

ListenerPublications(s) ==
  UNION { LET listener == s.listeners[l]
              routed   == \E r \in LoopbackRoutes(s, "isolated") :
                            listener.protocol = "tcp" /\ s.routes[r].target.port = listener.first
          IN  IF SinglePort(listener)
              THEN {[protocol |-> listener.protocol, host |-> listener.first,
                     container |-> IF Has(listener, "target") THEN listener.target ELSE listener.first,
                     bind |-> IF routed THEN "loopback" ELSE "any"]}
              ELSE { [protocol |-> listener.protocol, host |-> p, container |-> p, bind |-> "any"] :
                       p \in ListenerPorts(listener) }
          : l \in DOMAIN s.listeners }

Publications(s) ==
  LET listeners == ListenerPublications(s)
      routed    == { s.routes[r].target.port : r \in DOMAIN s.routes }
                   \ { x.host : x \in { y \in listeners : y.protocol = "tcp" } }
  IN  listeners \cup { [protocol |-> "tcp", host |-> p, container |-> p, bind |-> "loopback"] : p \in routed }

\* apply goes through: no projection raises.
ProjectionAccepts(e, firewalld) ==
  /\ RequiresFirewalld(e) => firewalld
  /\ CaddyAccepts(e)
  /\ \A id \in Enabled(e) :
       Bridged(e.services[id]) => QuadletNetworkAccepts(e, e.services[id], firewalld)
  /\ \A id \in Enabled(e) :
       LET s == e.services[id]
       IN  s.runtime.type = "oci" /\ s.kind # "session" /\ NetworkPolicy(e, s).mode = "isolated"
           => PublishAccepts(s)
  /\ firewalld => FirewallAccepts(e)

-----------------------------------------------------------------------------
(* Reference definitions, which the operators above are checked against.   *)

\* The route that ought to answer: the one whose canonical path is the longest
\* that the request lies at or below.
LongestMatch(e, site, request) ==
  LET claims == { x \in CaddyRoutes(e) : /\ x.site = site
                                         /\ IsPrefix(Canonical(x.path), Folded(request.segments)) }
  IN  { x \in claims : \A y \in claims : Len(y.path.segments) <= Len(x.path.segments) }

RequestAnswered(e, site, request) ==
  /\ Answering(e, site, request) = LongestMatch(e, site, request)
  /\ Cardinality(Answering(e, site, request)) <= 1

LinkWorks(e, x) == Answering(e, x.site, x.path) = {x}

\* A request of the proxy to an isolated service's port passes the published
\* port and the firewall to the container.
RouteOpen(s, policies, port) ==
  \E x \in Publications(s) : x.protocol = "tcp" /\ x.host = port /\ x.container \in policies.routes

\* A host port that an isolated container takes for a route, and every other
\* service that uses that port on the host.
Intruders(e, id, port) ==
  { other \in DOMAIN e.services \ {id} :
      LET s    == e.services[other]
          mode == NetworkPolicy(e, s).mode
      IN  \/ \E l \in DOMAIN s.listeners : s.listeners[l].protocol = "tcp" /\
               IF mode = "host" /\ Has(s.listeners[l], "target") THEN s.listeners[l].target = port
               ELSE port \in ListenerPorts(s.listeners[l])
          \/ mode \in {"host", "isolated"} /\ \E r \in LoopbackRoutes(s, mode) : s.routes[r].target.port = port }
=============================================================================
