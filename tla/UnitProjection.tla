--------------------------- MODULE UnitProjection ---------------------------
(***************************************************************************)
(* The systemd units that the effective document becomes                   *)
(* (services/nas_v2_systemd_native.py, and services/nas_v2_session.py for  *)
(* sessions): which unit requires, follows or triggers which, and which    *)
(* units the reconciler is told that it owns, starts and stops.            *)
(*                                                                         *)
(* A unit is named by what it is for and the service it belongs to.  What  *)
(* a unit file runs, its limits and its sandbox are left out.  The entry   *)
(* units of a compose service are what Podlet makes of its containers.     *)
(***************************************************************************)
EXTENDS ServiceProjection

Gate(id)          == <<"ready", id>>
Socket(id, route) == <<"socket", id, route>>
Proxy(id, route)  == <<"proxy", id, route>>
Timer(id, index)  == <<"timer", id, index>>
SessionTarget(id) == <<"session", id>>

Owner(e, id) == OwnerUnit(id, e.services[id])

SessionIds(e) == { id \in DOMAIN e.services : e.services[id].kind = "session" }
NativeIds(e)  == DOMAIN e.services \ SessionIds(e)

Managed(e, ids) == { id \in ids : e.services[id].managed }
OpenSessions(e) == Managed(e, SessionIds(e)) \cap Enabled(e)

OnDemand(s) == s.managed /\ s.kind = "daemon" /\ s.activation = "on-demand"

EntryUnits(id, s) ==
  IF s.runtime.type = "compose" THEN { <<"entry", id, c>> : c \in s.runtime.containers } ELSE {}

\* The units that do the work of a service: the owner of a compose service is an
\* aggregate that runs "true".
Workload(e, id) ==
  LET s == e.services[id]
  IN  IF s.runtime.type = "compose" THEN EntryUnits(id, s) ELSE {Owner(e, id)}

-----------------------------------------------------------------------------
(* The unit files. *)

File(unit, requires, after, triggers) ==
  [unit |-> unit, requires |-> requires, after |-> after, triggers |-> triggers]

\* A unit that waits for a gate need not name the owner behind the gate.
DependencyLines(e, s) ==
  LET ready == { d \in Range(s.dependencies) : d.condition = "ready" }
      gates == { Gate(d.service) : d \in ready }
  IN  [requires |-> { Owner(e, d.service) : d \in Range(s.dependencies) } \cup gates,
       after    |-> { Owner(e, d.service) : d \in Range(s.dependencies) \ ready } \cup gates]

\* The aggregate unit of a compose service.
AggregateUnit(e, id) ==
  LET s     == e.services[id]
      units == DependencyLines(e, s).requires \cup EntryUnits(id, s)
  IN  File(Owner(e, id), units, units, {})

\* The containers of a compose service are stopped with the aggregate (PartOf),
\* and that is all they are told of the service: what they wait for is what the
\* Compose file says of its own containers, which is left out.
EntryFiles(id, s) == { File(u, {}, {}, {}) : u \in EntryUnits(id, s) }

\* A machine also needs libvirt, by the name the service "virtualization" gives it.
LibvirtUnit(e) ==
  IF "virtualization" \in DOMAIN e.services /\ Has(e.services["virtualization"].runtime, "unit")
  THEN Owner(e, "virtualization") ELSE <<"native", "libvirtd">>

VmUnit(e, id) ==
  LET own == DependencyLines(e, e.services[id])
  IN  File(Owner(e, id), own.requires \cup {LibvirtUnit(e)}, own.after \cup {LibvirtUnit(e)}, {})

\* A unit of its own, a container or the drop-in of a native unit.
PlainUnit(e, id) ==
  LET own == DependencyLines(e, e.services[id])
  IN  File(Owner(e, id), own.requires, own.after, {})

OwnerFile(e, id) ==
  CASE e.services[id].runtime.type = "compose" -> AggregateUnit(e, id)
    [] e.services[id].runtime.type = "vm"      -> VmUnit(e, id)
    [] OTHER                                   -> PlainUnit(e, id)

ReadinessUnit(e, id) == File(Gate(id), {Owner(e, id)}, {Owner(e, id)}, {})

ActivationUnits(e, id) ==
  LET gates == IF Has(e.services[id], "readiness") THEN {Gate(id)} ELSE {}
  IN  UNION { LET first == {Owner(e, id), Socket(id, r)} \cup gates
              IN  { File(Socket(id, r), {}, {}, {Proxy(id, r)}), File(Proxy(id, r), first, first, {}) }
              : r \in DOMAIN e.services[id].routes }

\* An on-demand service is woken through its routes, after authentication.
ActivationAccepts(s) ==
  OnDemand(s) => s.routes # <<>> /\ \A r \in DOMAIN s.routes : s.routes[r].auth # "upstream"

TimerUnits(e, id) ==
  { File(Timer(id, i), {}, {}, {Owner(e, id)}) : i \in DOMAIN e.services[id].schedules }

\* The files of one service.
FilesOf(e, id) ==
  {OwnerFile(e, id)}
  \cup EntryFiles(id, e.services[id])
  \cup (IF Has(e.services[id], "readiness") THEN {ReadinessUnit(e, id)} ELSE {})
  \cup (IF OnDemand(e.services[id]) THEN ActivationUnits(e, id) ELSE {})
  \cup (IF e.services[id].kind = "job" THEN TimerUnits(e, id) ELSE {})

UnitFiles(e) ==
  (UNION { FilesOf(e, id) : id \in NativeIds(e) })
  \cup { File(SessionTarget(id), {}, {}, {}) : id \in OpenSessions(e) }

-----------------------------------------------------------------------------
(* The manifest. *)

Names(files) == { f.unit : f \in files }

Sockets(e, id) == IF OnDemand(e.services[id]) THEN { Socket(id, r) : r \in DOMAIN e.services[id].routes } ELSE {}
Timers(e, id)  == IF e.services[id].kind = "job" THEN Names(TimerUnits(e, id)) ELSE {}

\* What a managed service brings along, besides the entry units.
UnitsOf(e, id) ==
  {Owner(e, id)}
  \cup (IF Has(e.services[id], "readiness") THEN {Gate(id)} ELSE {})
  \cup (IF OnDemand(e.services[id]) THEN Names(ActivationUnits(e, id)) ELSE {})
  \cup Timers(e, id)

OwnedUnits(e) ==
  (UNION { UnitsOf(e, id) : id \in Managed(e, NativeIds(e)) })
  \cup (UNION { EntryUnits(id, e.services[id]) : id \in NativeIds(e) })
  \cup { SessionTarget(id) : id \in Managed(e, SessionIds(e)) }

StartUnits(e) ==
  UNION { Sockets(e, id) \cup Timers(e, id)
          \cup (IF e.services[id].kind = "daemon" /\ e.services[id].activation = "persistent"
                THEN {Owner(e, id)} ELSE {})
          : id \in Managed(e, NativeIds(e)) \cap Enabled(e) }

\* The proxies and the gates of a disabled service are left alone.
StopUnitsOfOwners(e) ==
  UNION { {Owner(e, id)} \cup Sockets(e, id) : id \in Managed(e, NativeIds(e)) \ Enabled(e) }

StopUnits(e) ==
  (UNION { UnitsOf(e, id) : id \in Managed(e, NativeIds(e)) \ Enabled(e) })
  \cup (UNION { EntryUnits(id, e.services[id]) : id \in NativeIds(e) \ Enabled(e) })
  \cup { SessionTarget(id) : id \in Managed(e, SessionIds(e)) \ Enabled(e) }

-----------------------------------------------------------------------------
(* What the projection refuses. *)

\* Nothing waits for a session.
SessionsUnawaited(e) ==
  \A id \in NativeIds(e) \cup OpenSessions(e) :
    \A d \in Range(e.services[id].dependencies) : d.service \notin SessionIds(e)

\* Its instances have no endpoint or readiness in common.
SessionAccepts(s) == s.routes = <<>> /\ s.listeners = <<>> /\ ~Has(s, "readiness")

\* Of a transient session unit: what it requires, and what it follows.
SessionUnits(e, id) ==
  LET own == DependencyLines(e, e.services[id])
      with == {SessionTarget(id)}
              \cup (IF NetworkPolicy(e, e.services[id]).mode = "isolated" THEN {<<"network", id>>} ELSE {})
  IN  File(<<"transient", id>>, own.requires \cup with, own.after \cup with, {})

UnitsAccepted(e) ==
  /\ SessionsUnawaited(e)
  /\ \A id \in OpenSessions(e) : SessionAccepts(e.services[id])
  /\ \A id \in NativeIds(e) : ActivationAccepts(e.services[id])

-----------------------------------------------------------------------------
(* Reference definitions. *)

Mentioned(files, fields, units) ==
  units \cup UNION { UNION { f[field] : field \in fields } : f \in { x \in files : x.unit \in units } }

\* Every unit there is a word of.
Named(files, fields, units) == units \cup UNION { UNION { f[field] : field \in fields } : f \in files }

\* What the units lead to through the fields.
Closure(files, fields, units) ==
  LET closure[some \in SUBSET Named(files, fields, units)] ==
        LET more == Mentioned(files, fields, some)
        IN  IF more = some THEN some ELSE closure[more]
  IN  closure[units]

\* Every unit that must have come up, or ended, before the unit starts.
Before(files, unit) ==
  Closure(files, {"after"}, UNION { f.after : f \in { x \in files : x.unit = unit } })

\* Every unit that may run because the reconciler starts what it does, a visitor
\* calls, a timer elapses or a session is opened.
MayRun(e) ==
  LET sessions == { SessionUnits(e, id) : id \in OpenSessions(e) }
  IN  Closure(UnitFiles(e) \cup sessions, {"requires", "triggers"}, StartUnits(e) \cup Names(sessions))

\* Two services stand for one native unit.
OwnersDistinct(e) == \A x, y \in NativeIds(e) : Owner(e, x) = Owner(e, y) => x = y

\* A machine with its dependency on "virtualization" spelt out.
MachineWaits(s) ==
  IF s.runtime.type = "vm" /\ \A x \in Range(s.dependencies) : x.service # "virtualization"
  THEN [s EXCEPT !.dependencies = Append(@, [service |-> "virtualization", condition |-> "started"])]
  ELSE s

WithVirtualization(d) ==
  IF "virtualization" \notin DOMAIN d.services THEN d
  ELSE [d EXCEPT !.services = [id \in DOMAIN d.services |-> MachineWaits(d.services[id])]]
=============================================================================
