-------------------------- MODULE ServiceDocument --------------------------
(***************************************************************************)
(* The life of the desired-state document: the editor                      *)
(* (services/nas_v2_editor.py) behind the operator's commands              *)
(* (services/nas_v2_control.py), the platform probe, and the apply that    *)
(* replaces its output files in place (services/nas_v2_apply.py without a  *)
(* history repository; the guarded reconcile writes generations instead,   *)
(* see GenerationStore).                                                   *)
(*                                                                         *)
(* A document's text is the document, and its SHA-256 revision is its      *)
(* identity.  One step of a command is what it does between two points     *)
(* where another process can see or change something it uses.              *)
(***************************************************************************)
EXTENDS ServiceProjection

A == INSTANCE Accelerators

CONSTANTS Clients,      \* operators and GUI sessions
          Nobody,       \* the authority lock is free
          Applier,      \* the apply, as a holder of the authority lock
          First,        \* the document that the baseline seed installs
          Candidates,   \* the documents a client may submit
          ModeRequests, \* the modes a client may set: functions on services
          Inventories,  \* what the probe may find: [capabilities, host]
          MaxEdits,     \* commands that change the document
          MaxFaults     \* failed file operations and kills

ASSUME DocumentAssumption ==
  /\ Nobody \notin Clients /\ Applier \notin Clients /\ Nobody # Applier
  /\ WellFormed(First) /\ \A text \in Candidates : WellFormed(text)

VARIABLES document,     \* services.yaml
          platform,     \* the probe's inventory: {} before the first probe
          holder,       \* who holds the authority lock
          client,       \* each client's command in progress
          wanted,       \* somebody started the reconcile unit
          apply,        \* the apply in progress
          out,          \* the output files: a function on the ones that exist
          torn,         \* an apply was stopped between its files
          edits, faults \* how many there were

vars == <<document, platform, holder, client, wanted, apply, out, torn, edits, faults>>

-----------------------------------------------------------------------------
(* Modes of a service. *)

DesiredMode(s) ==
  IF Has(s, "enabled") /\ ~s.enabled THEN "off"
  ELSE IF Has(s, "activation") /\ s.activation = "on-demand" THEN "on-demand"
  ELSE "always"

ModeAllowed(s, mode) == mode = "on-demand" => s.kind = "daemon" /\ Has(s, "idleSeconds")

SetMode(s, mode) ==
  Over(CASE mode = "off"    -> [enabled |-> FALSE]
         [] mode = "always" -> IF s.kind = "daemon" THEN [enabled |-> TRUE, activation |-> "persistent"]
                               ELSE [enabled |-> TRUE]
         [] OTHER           -> [enabled |-> TRUE, activation |-> "on-demand"], s)

SetModes(d, modes) ==
  [d EXCEPT !.services = [id \in DOMAIN @ |->
     IF id \in DOMAIN modes THEN SetMode(@[id], modes[id]) ELSE @[id]]]

-----------------------------------------------------------------------------
(* Compilation against the probed platform. *)

Editable(d) ==
  Compile(d, platform # {}, UNION { p.capabilities : p \in platform }) # {}

SelectorRuntime(s) == IF s.runtime.type = "oci" /\ s.kind = "session" THEN "session-oci" ELSE s.runtime.type

\* A request that names its device gets it when the runtime can use its kind.
Resolutions(s, i, inventory) ==
  LET request == s.accelerators[i]
      runtime == SelectorRuntime(s)
  IN  IF ~Has(request, "device") THEN A!Resolve(inventory, runtime, request.quantity)
      ELSE IF request.quantity = 1 /\ request.device.type \in Range(A!SelectorPreference(runtime))
           THEN {<<request.device>>} ELSE {}

\* A request becomes one entry for each selector; an optional one that cannot
\* be met disappears.  A virtual machine's are left as they are.
Materialized(s, inventory) ==
  IF s.runtime.type = "vm" THEN s.accelerators
  ELSE FlattenSeq([i \in DOMAIN s.accelerators |->
         IF Resolutions(s, i, inventory) = {} THEN <<>>
         ELSE LET selectors == CHOOSE x \in Resolutions(s, i, inventory) : TRUE
              IN  [k \in DOMAIN selectors |->
                    [vendor |-> "NVIDIA", quantity |-> 1, required |-> TRUE, mode |-> "shared",
                     device |-> selectors[k]]]])

Resolvable(s, inventory) ==
  s.runtime.type # "vm" =>
    \A i \in DOMAIN s.accelerators :
      s.accelerators[i].required \/ Has(s.accelerators[i], "device")
        => Resolutions(s, i, inventory) # {}

\* compile_paths and resolve_effective: {} when the document is refused.
Effective(d) ==
  UNION { IF platform = {} THEN {e}
          ELSE LET inventory == A!ProbeInventory((CHOOSE p \in platform : TRUE).host)
               IN  IF \A id \in DOMAIN e.services : Resolvable(e.services[id], inventory)
                   THEN {[e EXCEPT !.services = [id \in DOMAIN @ |->
                            [@[id] EXCEPT !.accelerators = Materialized(e.services[id], inventory)]]]}
                   ELSE {}
          : e \in Compile(d, platform # {}, UNION { p.capabilities : p \in platform }) }

-----------------------------------------------------------------------------
(* The output files.  A file is <<kind, service>>. *)

Plan == <<"plan", "">>

Files(d, e) ==
  [f \in { <<kind, "">> : kind \in {"effective", "caddy", "portal", "backup", "firewall"} }
         \cup { <<"unit", id>> : id \in { x \in DOMAIN e.services : e.services[x].managed } } |->
     CASE f[1] = "effective" -> [source |-> d, services |-> e.services, runtime |-> e.runtime]
       [] f[1] = "caddy"     -> CaddyRoutes(e)
       [] f[1] = "portal"    -> PortalEntries(e)
       [] f[1] = "unit"      -> e.services[f[2]]
       [] f[1] = "backup"    -> e.backups
       [] f[1] = "firewall"  -> FirewallPolicies(e)]

\* The order in which a bundle's files are replaced: the plan comes last.
FileOrder == << "effective", "caddy", "portal", "unit", "backup", "firewall", "plan" >>

Precedes(f, g) == \E i, j \in DOMAIN FileOrder : i < j /\ FileOrder[i] = f[1] /\ FileOrder[j] = g[1]

\* The files whose turn it is.
InOrder(files) == { f \in files : ~ \E g \in files : Precedes(g, f) }

Differing(files) == { f \in DOMAIN files : f \notin DOMAIN out \/ out[f] # files[f] }

\* Units of services that the document no longer has.
Stale(files) == { f \in DOMAIN out : f[1] = "unit" } \ DOMAIN files

\* The plan lists the files the apply is about to change, itself included when
\* its text changes by that.
PlannedChanges(d, files) ==
  LET others == Differing(files) \cup Stale(files)
      same   == Plan \in DOMAIN out /\ out[Plan] = [source |-> d, changed |-> others]
  IN  IF same THEN others ELSE others \cup {Plan}

With(files, f, content) == [g \in DOMAIN files \cup {f} |-> IF g = f THEN content ELSE files[g]]

WithPlan(d, files) == With(files, Plan, [source |-> d, changed |-> PlannedChanges(d, files)])

Without(f) == [g \in DOMAIN out \ {f} |-> out[g]]

Idle == [pc |-> "idle"]

-----------------------------------------------------------------------------
(* The operator's commands. *)

Free == holder = Nobody

Read(c) ==
  /\ client[c].pc = "idle" /\ edits < MaxEdits
  /\ client' = [client EXCEPT ![c] = [pc |-> "read", seen |-> document]]
  /\ UNCHANGED <<document, platform, holder, wanted, apply, out, torn, edits, faults>>

\* The submitted text is validated before the lock is taken.
Submit(c, text) ==
  /\ client[c].pc = "read"
  /\ edits < MaxEdits
  /\ client' = [client EXCEPT ![c] = IF Editable(text)
                                     THEN [pc |-> "submitted", seen |-> @.seen, text |-> text] ELSE Idle]
  /\ edits' = edits + 1
  /\ UNCHANGED <<document, platform, holder, wanted, apply, out, torn, faults>>

\* The revision is not compared.
RevisionIgnored(c) == TRUE
RevisionMatches(c) == document = client[c].seen

\* _atomic_replace.  It may fail before the new text is in place, and the sync of
\* the directory after it: the command then reports an error and starts no
\* reconcile.
Write(c, text, then) ==
  \/ /\ document' = text
     /\ client' = [client EXCEPT ![c] = [pc |-> "written", then |-> then]]
     /\ UNCHANGED faults
  \/ /\ faults < MaxFaults /\ faults' = faults + 1
     /\ document' \in {document, text}
     /\ client' = [client EXCEPT ![c] = Idle]

Refuse(c) ==
  client' = [client EXCEPT ![c] = Idle] /\ UNCHANGED <<document, faults>>

\* Under the lock: compare the revision with the one that was read, write.
Replace(c) ==
  /\ client[c].pc = "submitted" /\ Free
  /\ \/ RevisionMatches(c) /\ Write(c, client[c].text, "idle")
     \/ ~RevisionMatches(c) /\ Refuse(c)
  /\ UNCHANGED <<platform, holder, wanted, apply, out, torn, edits>>

\* Setting modes reads, changes, validates and writes under one lock.
BeginModes(c, modes) ==
  /\ client[c].pc = "idle" /\ Free
  /\ edits < MaxEdits
  /\ holder' = c
  /\ client' = [client EXCEPT ![c] = [pc |-> "editing", seen |-> document, modes |-> modes]]
  /\ edits' = edits + 1
  /\ UNCHANGED <<document, platform, wanted, apply, out, torn, faults>>

ModesAccepted(c) ==
  LET d == client[c].seen
      modes == client[c].modes
  IN  /\ DOMAIN modes \subseteq DOMAIN d.services
      /\ \A id \in DOMAIN modes : ModeAllowed(d.services[id], modes[id])
      /\ Editable(SetModes(d, modes))

WriteModes(c) ==
  /\ client[c].pc = "editing"
  /\ holder' = Nobody
  /\ \/ ModesAccepted(c) /\ Write(c, SetModes(client[c].seen, client[c].modes), "status")
     \/ ~ModesAccepted(c) /\ Refuse(c)
  /\ UNCHANGED <<platform, wanted, apply, out, torn, edits>>

\* systemctl start of the reconcile unit, which joins one that is at work.
Reconcile(c) ==
  /\ client[c].pc = "written"
  /\ wanted' = (wanted \/ apply.pc = "idle")
  /\ client' = [client EXCEPT ![c] = IF @.then = "status" THEN [pc |-> "status"] ELSE Idle]
  /\ UNCHANGED <<document, platform, holder, apply, out, torn, edits, faults>>

\* status reads the document, then the effective state, under no lock.
StatusRead(c) ==
  /\ client[c].pc \in {"idle", "status"}
  /\ client' = [client EXCEPT ![c] = [pc |-> "observing", seen |-> document]]
  /\ UNCHANGED <<document, platform, holder, wanted, apply, out, torn, edits, faults>>

StatusReport(c) ==
  /\ client[c].pc = "observing"
  /\ client' = [client EXCEPT ![c] = Idle]
  /\ UNCHANGED <<document, platform, holder, wanted, apply, out, torn, edits, faults>>

KillClient(c) ==
  /\ client[c].pc # "idle" /\ faults < MaxFaults
  /\ faults' = faults + 1
  /\ client' = [client EXCEPT ![c] = Idle]
  /\ holder' = IF holder = c THEN Nobody ELSE holder
  /\ UNCHANGED <<document, platform, wanted, apply, out, torn, edits>>

-----------------------------------------------------------------------------
(* What status reports of a service. *)

\* Any compiled state of the same services counts, whatever it was made from.
EffectiveLoadedAny(seen) ==
  LET file == out[<<"effective", "">>]
  IN  <<"effective", "">> \in DOMAIN out /\ DOMAIN file.services = DOMAIN seen.services

EffectiveLoaded(seen) ==
  LET file == out[<<"effective", "">>]
  IN  /\ <<"effective", "">> \in DOMAIN out
      /\ file.source = seen
      /\ DOMAIN file.services = DOMAIN seen.services
      /\ DOMAIN file.runtime = DOMAIN seen.services


\* The compiled service holds all that the normalized one says, and its unit
\* is the one that stands for it.
EffectiveServiceValid(id, entry, desired, meta) ==
  /\ \A field \in DOMAIN desired : Has(entry, field) /\ entry[field] = desired[field]
  /\ entry.kind = "daemon" => entry.activation \in {"persistent", "on-demand"}
  /\ Has(entry, "activation") /\ entry.activation = "on-demand" => Has(entry, "idleSeconds")
  /\ entry.kind = "job" => Has(entry, "schedules")
  /\ meta.owner = OwnerUnit(id, entry) /\ meta.type = entry.runtime.type
  /\ meta.managed = entry.managed

Verified(seen, id) ==
  /\ EffectiveLoaded(seen)
  /\ LET file == out[<<"effective", "">>]
     IN  EffectiveServiceValid(id, file.services[id], Normalize(seen).services[id], file.runtime[id])

-----------------------------------------------------------------------------
(* The probe and the apply. *)

\* The path unit, the boot target or an operator starts the reconcile unit.
StartUnit ==
  /\ ~wanted /\ apply.pc = "idle"
  /\ wanted' = TRUE
  /\ UNCHANGED <<document, platform, holder, client, apply, out, torn, edits, faults>>

\* Its preStart probes the platform.
Probe(p) ==
  /\ wanted /\ apply.pc = "idle"
  /\ wanted' = FALSE
  /\ platform' = {p}
  /\ apply' = [pc |-> "probed"]
  /\ UNCHANGED <<document, holder, client, out, torn, edits, faults>>

\* Under the lock: compile, project, and find out which files differ.
ApplyBegin ==
  /\ apply.pc = "probed" /\ Free
  /\ LET accepted == { e \in Effective(document) : ProjectionAccepts(e, TRUE) }
     IN  IF accepted = {}
         THEN apply' = Idle /\ UNCHANGED holder
         ELSE LET files == Files(document, CHOOSE e \in accepted : TRUE)
                  all   == WithPlan(document, files)
              IN  /\ holder' = Applier
                  /\ apply' = [pc |-> "replacing", files |-> all,
                               todo |-> Differing(all), removals |-> Stale(files),
                               previous |-> out, mutated |-> <<>>,
                               planned |-> PlannedChanges(document, files)]
  /\ UNCHANGED <<document, platform, client, wanted, out, torn, edits, faults>>

\* One file is replaced, or one stale file removed once all are replaced.
ApplyFile ==
  /\ apply.pc = "replacing"
  /\ \/ \E f \in InOrder(apply.todo) :
          /\ out' = With(out, f, apply.files[f])
          /\ apply' = [apply EXCEPT !.todo = @ \ {f}, !.mutated = Append(@, f)]
     \/ \E f \in apply.removals :
          /\ apply.todo = {}
          /\ out' = Without(f)
          /\ apply' = [apply EXCEPT !.removals = @ \ {f}, !.mutated = Append(@, f)]
  /\ UNCHANGED <<document, platform, holder, client, wanted, torn, edits, faults>>

\* The plan is written again when it announced other files than were changed; a
\* failure of that write leaves the first plan.
ApplyDone ==
  /\ apply.pc = "replacing" /\ apply.todo = {} /\ apply.removals = {}
  /\ LET changed == Range(apply.mutated)
     IN  \/ /\ out' = IF changed = apply.planned THEN out
                       ELSE [out EXCEPT ![Plan] = [@ EXCEPT !.changed = changed]]
            /\ UNCHANGED faults
         \/ /\ changed # apply.planned /\ faults < MaxFaults
            /\ faults' = faults + 1
            /\ UNCHANGED out
  /\ apply' = Idle /\ holder' = Nobody /\ torn' = FALSE
  /\ UNCHANGED <<document, platform, client, wanted, edits>>

\* A replacement, a removal or a sync fails.
ApplyFail ==
  /\ apply.pc = "replacing" /\ faults < MaxFaults
  /\ faults' = faults + 1
  /\ apply' = [apply EXCEPT !.pc = "restoring"]
  /\ UNCHANGED <<document, platform, holder, client, wanted, out, torn, edits>>

\* What the file held before: a file the apply created stays.
RestoredKeepingNew(f) ==
  IF f \in DOMAIN apply.previous THEN With(out, f, apply.previous[f]) ELSE out

Restored(f) ==
  IF f \in DOMAIN apply.previous THEN With(out, f, apply.previous[f]) ELSE Without(f)

ApplyRestore ==
  /\ apply.pc = "restoring"
  /\ IF apply.mutated = <<>>
     THEN apply' = Idle /\ holder' = Nobody /\ UNCHANGED out
     ELSE /\ out' = Restored(Last(apply.mutated))
          /\ apply' = [apply EXCEPT !.mutated = Front(@)]
          /\ UNCHANGED holder
  /\ UNCHANGED <<document, platform, client, wanted, torn, edits, faults>>

\* A kill, or a restore that fails itself, leaves the files as they are.
ApplyStopped ==
  /\ apply.pc \in {"replacing", "restoring"} /\ faults < MaxFaults
  /\ faults' = faults + 1
  /\ torn' = (torn \/ apply.mutated # <<>>)
  /\ apply' = Idle /\ holder' = Nobody
  /\ UNCHANGED <<document, platform, client, wanted, out, edits>>

-----------------------------------------------------------------------------

Init ==
  /\ document = First
  /\ platform = {}
  /\ holder = Nobody
  /\ client = [c \in Clients |-> Idle]
  /\ wanted = FALSE
  /\ apply = Idle
  /\ out = <<>>
  /\ torn = FALSE
  /\ edits = 0 /\ faults = 0

Next ==
  \/ \E c \in Clients :
       \/ Read(c) \/ Replace(c) \/ WriteModes(c) \/ Reconcile(c)
       \/ StatusRead(c) \/ StatusReport(c) \/ KillClient(c)
       \/ \E text \in Candidates : Submit(c, text)
       \/ \E modes \in ModeRequests : BeginModes(c, modes)
  \/ \E p \in Inventories : Probe(p)
  \/ StartUnit \/ ApplyBegin \/ ApplyFile \/ ApplyDone \/ ApplyFail \/ ApplyRestore \/ ApplyStopped

Spec == Init /\ [][Next]_vars

-----------------------------------------------------------------------------
(* Properties of the shared document and the files made from it. *)

\* Type invariant: the lock's holder is in its critical section, and a plan
\* names only files.
TypeOK ==
  /\ holder \in Clients \cup {Nobody, Applier}
  /\ (holder = Applier) = (apply.pc \in {"replacing", "restoring"})
  /\ \A c \in Clients : (holder = c) = (client[c].pc = "editing")
  /\ \A f \in DOMAIN out : f[1] \in {"effective", "caddy", "portal", "unit", "backup", "firewall", "plan"}
  /\ wanted \in BOOLEAN /\ torn \in BOOLEAN
  /\ edits \in 0 .. MaxEdits /\ faults \in 0 .. MaxFaults

\* A step of a client's command changes only the services that are the author's.
KeepsOthers ==
  \A c \in Clients : document' # document /\ client'[c] # client[c] =>
    \A id \in DOMAIN document.services :
      LET mine == IF client[c].pc = "submitted"
                  THEN id \notin DOMAIN client[c].text.services
                       \/ id \notin DOMAIN client[c].seen.services
                       \/ client[c].text.services[id] # client[c].seen.services[id]
                  ELSE id \in DOMAIN client[c].modes
      IN  ~mine => id \in DOMAIN document'.services /\ document'.services[id] = document.services[id]

\* No lost update: a command that writes the document changes only what its
\* author changed.  A service that a submitted text leaves as its author read
\* it, and a service whose mode was not set, keep what others wrote meanwhile
\* (replace_document's revision check, set_service_modes' lock).
OthersKept == [][KeepsOthers]_document

\* The files are those of one document, as the compiler and the projections
\* make them, and the plan is of the same document.
WholeBundle(files) ==
  LET file == files[<<"effective", "">>]
  IN  /\ <<"effective", "">> \in DOMAIN files
      /\ \E e \in Compile(file.source, FALSE, {}) :
           LET whole == Files(file.source, [e EXCEPT !.services = file.services])
           IN  /\ DOMAIN files = DOMAIN whole \cup {Plan}
               /\ \A f \in DOMAIN whole : files[f] = whole[f]
      /\ files[Plan].source = file.source

\* Whoever reads while no apply is at work finds files of one document, whatever
\* write failed in between and was restored, except after a kill or a failed
\* restore and before the next apply that completes (_replace_bundle).
BundleWhole == holder # Applier /\ ~torn /\ out # <<>> => WholeBundle(out)

\* Status calls a service verified exactly when the compiled state it read was
\* made from the very text it read: never for an older or newer one, and always
\* once that text is applied (services that request accelerators aside: the
\* resolved requests are compared with the unresolved ones, so they are never
\* called verified after a probe).
StatusTruthful ==
  \A c \in Clients : client[c].pc = "observing" =>
    LET seen == client[c].seen
        made == <<"effective", "">> \in DOMAIN out /\ out[<<"effective", "">>].source = seen
    IN  \A id \in DOMAIN seen.services :
          /\ Verified(seen, id) => made
          /\ made /\ ~Has(seen.services[id], "accelerators") => Verified(seen, id)

=============================================================================
