------------------------- MODULE MCServiceDocument -------------------------
(* Two clients edit a document of an application that waits for its          *)
(* database.                                                                 *)
EXTENDS ServiceDocument, TLC

Symmetric == Permutations(Clients)

MCFold == [x \in {"a", "A", "b", "c", "nas", "h", "H", "127.0.0.1", "localhost", "outpost"} |->
             CASE x = "A" -> "a" [] x = "H" -> "h" [] OTHER -> x]

Path(segments, slash) == [segments |-> segments, slash |-> slash]
AtPaths(paths) == [type |-> "path", paths |-> paths]
Http(port) == [type |-> "http", port |-> port]
Public(exposure, port) == [auth |-> "public", target |-> Http(port), exposure |-> exposure,
                           visible |-> TRUE]
Program(id) == [type |-> "exec", command |-> <<"bin", id>>]
Container == [type |-> "oci"]
Daemon(runtime) == [kind |-> "daemon", runtime |-> runtime]
Document(services) == [services |-> services]
Waits(id) == <<[service |-> id]>>

Database == [readiness |-> "probe"] @@ Daemon(Program("db"))
Web(path) == [dependencies |-> Waits("db"), idleSeconds |-> 60,
              routes |-> [main |-> [Public(AtPaths(<<path>>), 1) EXCEPT !.auth = "identity"]]]
             @@ Daemon(Program("web"))
Model == [accelerators |-> <<[required |-> TRUE]>>, requires |-> {"podman"}] @@ Daemon(Container)

MCFirst == Document([db |-> Database, web |-> Web(Path(<<"a">>, FALSE))])
MCCandidates ==
  { Document([db |-> Database]),
    Document([db |-> Database, web |-> Web(Path(<<"a">>, FALSE)), model |-> Model]),
    Document([db |-> [dependencies |-> Waits("web")] @@ Database, web |-> Web(Path(<<"a">>, FALSE))]) }

MCModeRequests == { [web |-> "on-demand"], [db |-> "off"], [model |-> "off"] }

Host(gpus) == [gpus |-> gpus, index |-> [g \in gpus |-> g], known |-> gpus, listed |-> {}, cdi |-> TRUE]
MCInventories == { [capabilities |-> {}, host |-> Host({})],
                   [capabilities |-> {"podman"}, host |-> Host({0})] }

=============================================================================
