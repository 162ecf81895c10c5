---------------------------- MODULE Accelerators ----------------------------
(***************************************************************************)
(* Which GPUs a service gets: the probe's inventory of one NVIDIA host     *)
(* (services/nas_v2_platform_probe.py) and its resolution                  *)
(* (services/nas_v2_accelerator.py).                                       *)
(*                                                                         *)
(* A host is [gpus, index, known, listed, cdi]: the device minors of its   *)
(* GPUs, each GPU's place in NVML's order, the minors whose UUID the       *)
(* driver's files reveal, the CDI names the toolkit lists, and whether CDI *)
(* is configured.  A GPU's UUID is named by its minor.                     *)
(***************************************************************************)
EXTENDS Integers, Sequences, FiniteSets, SequencesExt

Devices(minor) == [type |-> "devices", name |-> <<"minor", minor>>]
CdiUuid(minor) == [type |-> "cdi", name |-> <<"uuid", minor>>]
CdiIndex(n)    == [type |-> "cdi", name |-> <<"index", n>>]
AllGpus        == [type |-> "cdi", name |-> <<"all", 0>>]

-----------------------------------------------------------------------------
(* The probe. *)

\* _nvidia_cdi_name: the preferred name that the toolkit lists; with nothing
\* listed the toolkit could not be asked, and the preferred name is taken.
CdiName(host, minor) ==
  LET candidates == (IF minor \in host.known THEN <<CdiUuid(minor)>> ELSE <<>>) \o <<CdiIndex(minor)>>
      listed     == SelectSeq(candidates, LAMBDA c : c \in host.listed)
  IN  IF host.listed = {} THEN <<Head(candidates)>>
      ELSE IF listed = <<>> THEN <<>> ELSE <<Head(listed)>>

ProbeInventory(host) ==
  LET cdi == host.cdi /\ host.gpus # {}
      minors == SetToSortSeq(host.gpus, <)
  IN  [selectors |-> FlattenSeq([i \in DOMAIN minors |->
                       <<Devices(minors[i])>> \o (IF cdi THEN CdiName(host, minors[i]) ELSE <<>>)]),
       minorByUuid |-> IF cdi THEN host.known ELSE {},
       all |-> IF cdi /\ (host.listed = {} \/ AllGpus \in host.listed) THEN {AllGpus} ELSE {}]

-----------------------------------------------------------------------------
(* The resolver. *)

SelectorPreference(runtime) ==
  CASE runtime \in {"compose", "oci", "quadlet"} -> <<"cdi", "devices">>
    [] runtime \in {"systemd", "exec", "python", "session-oci"} -> <<"devices">>
    [] OTHER -> <<>>

\* A UUID name counts as a GPU of its own.
IdentityByName(selector, inventory) ==
  IF selector.name[1] \in {"minor", "index"} THEN <<"gpu", selector.name[2]>> ELSE selector.name

\* Index names and device nodes are identified by their number, a UUID name
\* through the probe's map.
PhysicalIdentity(selector, inventory) ==
  IF \/ selector.name[1] \in {"minor", "index"}
     \/ selector.name[1] = "uuid" /\ selector.name[2] \in inventory.minorByUuid
  THEN <<"gpu", selector.name[2]>> ELSE selector.name

\* An inventory that names a UUID without its minor is refused; the probe's own
\* inventories never do.
UuidsMapped(selectors, inventory) ==
  \A i \in DOMAIN selectors :
    selectors[i].name[1] = "uuid" => selectors[i].name[2] \in inventory.minorByUuid

\* The usable selectors, preferred kinds first, one of each physical GPU.
UsableSelectors(inventory, runtime) ==
  LET preference == SelectorPreference(runtime)
      parsed     == FlattenSeq([k \in DOMAIN preference |->
                      SelectSeq(inventory.selectors, LAMBDA s : s.type = preference[k])])
  IN  IF ~UuidsMapped(parsed, inventory) THEN <<>>
      ELSE SelectSeq(parsed, LAMBDA s :
             \A i \in DOMAIN parsed :
                PhysicalIdentity(parsed[i], inventory) = PhysicalIdentity(s, inventory)
                => \E j \in 1 .. i : parsed[j] = s)

AllOfThem == 0          \* the quantity "all"

\* resolve_service_accelerators for one request that names no device: {} when
\* the host has too few.
Resolve(inventory, runtime, quantity) ==
  LET usable == UsableSelectors(inventory, runtime)
  IN  IF quantity # AllOfThem
      THEN IF Len(usable) >= quantity THEN {SubSeq(usable, 1, quantity)} ELSE {}
      ELSE IF usable = <<>> THEN {}
      ELSE IF inventory.all # {} /\ "cdi" \in Range(SelectorPreference(runtime))
           THEN {<<AllGpus>>} ELSE {usable}

-----------------------------------------------------------------------------
(* The GPU a selector denotes on a host: index names follow NVML's order.  *)

Denoted(host, selector) ==
  CASE selector.name[1] \in {"minor", "uuid"} -> {selector.name[2]}
    [] selector.name[1] = "index" -> { g \in host.gpus : host.index[g] = selector.name[2] }
    [] OTHER -> host.gpus

\* As many different GPUs as were asked for.
HandedOut(host, selectors) == UNION { Denoted(host, selectors[i]) : i \in DOMAIN selectors }

RequestMet(host, selectors, quantity) ==
  IF quantity = AllOfThem THEN HandedOut(host, selectors) = host.gpus
  ELSE Cardinality(HandedOut(host, selectors)) = quantity
=============================================================================
