------------------------- MODULE MCServiceCompiler -------------------------
(* The sets of small documents and hosts over which the compiler, the        *)
(* projections and the GPU resolver are checked.                             *)
EXTENDS ServiceCompiler, TLC

MCFold == [x \in {"a", "A", "b", "c", "virtualization", "nas", "h", "H", "127.0.0.1", "localhost", "outpost"} |->
             CASE x = "A" -> "a" [] x = "H" -> "h" [] OTHER -> x]

Path(segments, slash) == [segments |-> segments, slash |-> slash]
AtPaths(paths) == [type |-> "path", paths |-> paths]
AtHost(host, path) == [type |-> "hostname", hostnames |-> <<host>>, path |-> path]
Http(port) == [type |-> "http", port |-> port]
Public(exposure, port) == [auth |-> "public", target |-> Http(port), exposure |-> exposure,
                           visible |-> TRUE]
Program(id) == [type |-> "exec", command |-> <<"bin", id>>]
Container == [type |-> "oci"]
Daemon(runtime) == [kind |-> "daemon", runtime |-> runtime]
Document(services) == [services |-> services]
Edges(id, others) ==
  { [i \in DOMAIN q |-> [service |-> q[i], condition |-> "started"]] :
      q \in {<<>>} \cup UNION { { <<x>>, <<x, y>> } : x, y \in others } }

Lone == { Document([id \in {"a", "b", "c"} |->
       [dependencies |-> (CASE id = "a" -> da [] id = "b" -> db [] OTHER -> dc),
        enabled |-> id \in on] @@ Daemon(Program(id))]) :
      da \in Edges("a", {"a", "b", "c"}), db \in Edges("b", {"a", "c"}), dc \in Edges("c", {"a", "b"}),
      on \in {{"a", "b", "c"}, {"a", "b"}} }

Shapes(id) ==
  { Daemon(Program(id)),
    [activation |-> "on-demand", idleSeconds |-> 1,
     routes |-> [main |-> Public(AtPaths(<<Path(<<id>>, FALSE)>>), 1)]] @@ Daemon(Program(id)),
    [kind |-> "job", runtime |-> Program(id), schedules |-> <<"daily">>],
    Daemon([type |-> "compose", source |-> <<"apps", id>>, containers |-> {"web", "db"}]),
    Daemon([type |-> "vm", source |-> <<"apps", id>>]),
    Daemon([type |-> "systemd", unit |-> id, suffix |-> "service"]),
    [kind |-> "session", runtime |-> Container] }
Waiting(others) ==
  {<<>>} \cup { <<[service |-> x, condition |-> c]>> : x \in others, c \in {"started", "ready", "completed"} }
Gated == {<<>>, [readiness |-> TRUE]}
Machines ==
  { Document([id \in {"a", "virtualization"} |->
       IF id = "a" THEN [managed |-> managed, enabled |-> ea, dependencies |-> da] @@ ga @@ a
       ELSE [enabled |-> ev, dependencies |-> dv] @@ gv @@ v]) :
      managed \in BOOLEAN, ea \in BOOLEAN, ev \in BOOLEAN, ga \in Gated, gv \in Gated,
      da \in Waiting({"virtualization"}), dv \in Waiting({"a"}),
      a \in Shapes("a"), v \in Shapes("virtualization") }
MCGraphs == Lone \cup Machines

Segments == {<<>>, <<"a">>, <<"A">>, <<"b">>, <<"a", "b">>, <<"A", "b">>}
Paths == [segments : Segments \ {<<>>}, slash : BOOLEAN] \cup {Path(<<>>, TRUE)}
OneExposure == { AtPaths(<<p>>) : p \in Paths }
               \cup { AtHost(h, p) : h \in {"h", "H", "nas"}, p \in Paths }
TwoExposures == { AtPaths(<<p, q>>) : p \in { x \in Paths : ~x.slash }, q \in Paths }
MCSites ==
  { Document([s |-> [routes |-> [main |-> Public(e, 1)]] @@ Daemon(Program("s")),
              t |-> [routes |-> [main |-> Public(f, 2)]] @@ Daemon(Program("t"))]) :
      e \in OneExposure \cup TwoExposures, f \in OneExposure }
MCRequests == (Paths \cup [segments : {<<"a", "c">>, <<"a", "b", "c">>, <<"c">>, <<"b", "b">>},
                            slash : BOOLEAN])

Listening(first, last) == [protocol |-> "tcp", first |-> first, last |-> last]
MovedTo(port) == [target |-> port]
ListenerChoices ==
  {<<>>} \cup { [l |-> x] : x \in { Listening(n, n) : n \in 1 .. 2 }
                               \cup { MovedTo(t) @@ Listening(n, n) : n \in 1 .. 2, t \in 1 .. 2 }
                               \cup { [range |-> TRUE] @@ Listening(1, 2) } }
Guarded(listeners, firewall) == [l \in DOMAIN listeners |-> [firewall |-> firewall] @@ listeners[l]]
RouteChoices(path) == {<<>>} \cup { [r |-> Public(AtPaths(<<Path(<<path>>, FALSE)>>), n)] : n \in 1 .. 2 }
Servers(path) ==
  { [network |-> [mode |-> mode], listeners |-> Guarded(x, firewall), routes |-> r] @@ Daemon(Container) :
      mode \in {"host", "isolated"}, x \in ListenerChoices, firewall \in BOOLEAN, r \in RouteChoices(path) }
MCPorts == { Document([s |-> x, t |-> y]) : x \in Servers("a"), y \in Servers("b") }

CdiNames == { Gpu!AllGpus } \cup { Gpu!CdiUuid(n) : n \in 0 .. 1 } \cup { Gpu!CdiIndex(n) : n \in 0 .. 1 }
MCHosts ==
  UNION { [gpus : {g}, index : { f \in [g -> g] : Cardinality(Range(f)) = Cardinality(g) },
           known : SUBSET g, listed : SUBSET CdiNames, cdi : BOOLEAN] : g \in {{}, {0}, {0, 1}} }
=============================================================================
