--------------------------- MODULE SystemdReconcile ---------------------------
(***************************************************************************)
(* services/nas_v2_systemd_reconcile.py: links, activity and restoration   *)
(* of the units that a published projection asks for.                      *)
(*                                                                         *)
(* A reconcile reads the manifest of the published generation and the state*)
(* file of the last one that succeeded, stops, links, reloads, restarts and*)
(* starts, and writes the state file last.  A failing command makes it put *)
(* links and activity back; a kill (the rollback stops the unit) does not. *)
(* Meanwhile users open sessions and wake on-demand services.              *)
(*                                                                         *)
(* Each unit has at most one generated file, so a link is a generation, and*)
(* one content stands for the hash of the file and for the fingerprint.    *)
(* The code handles the units of a phase in the order of their names; here *)
(* they come in any order.                                                 *)
(***************************************************************************)
EXTENDS Naturals, Sequences, FiniteSets

CONSTANTS
    Services,       \* units that the reconciler starts and restarts
    Sessions,       \* session targets: their instances are started by users
    MaxContent,     \* versions of a unit's configuration
    Manifests,      \* projections that may be published
    Retain,         \* generations whose files are kept
    MaxGen,         \* bound on published generations
    MaxFaults       \* bound on failing calls and kills

Units    == Services \cup Sessions
Contents == 1..MaxContent
Modes    == {"absent", "disabled", "ondemand", "persistent"}

(* What generate_projection can emit: a session is never a start unit.     *)
Projections ==
    {m \in [mode : [Units -> Modes], content : [Units -> Contents]] :
        \A u \in Sessions : m.mode[u] # "persistent"}

ASSUME SystemdAssumption ==
    /\ Services \cap Sessions = {}
    /\ MaxContent \in Nat \ {0} /\ Retain \in Nat \ {0}
    /\ MaxGen \in Nat \ {0} /\ MaxFaults \in Nat
    /\ Manifests \subseteq Projections

VARIABLES
    manifests,  \* published manifests, the last is the current one
    link,       \* generation that each unit's link leads to, 0 without one
    loaded,     \* content of each unit that the manager has loaded
    running,    \* content each unit was started with, 0 when inactive
    recorded,   \* generation that the state file describes, 0 without one
    pc,         \* where the reconcile is
    todo,       \* units that the phase still has to handle
    snap,       \* active_snapshot: yes, no or unknown
    live,       \* links to restore
    plan,       \* topology_changed, and the targets of links
    disrupted,  \* disrupted_sessions
    outcome,    \* how the last reconcile of this generation ended
    faults,     \* faults so far
    before,     \* history: running when the reconcile began
    cured,      \* history: units the reconcile brought to their new state
    disturbed,  \* history: units left in a state that nobody recorded
    lost,       \* history: sessions ended by the reconcile
    failedAt    \* history: faults when the reconcile failed

disk    == <<manifests, link, recorded>>
attempt == <<snap, live, plan, disrupted, before, cured, lost, failedAt>>
vars    == <<disk, loaded, running, pc, todo, outcome, faults, disturbed, attempt>>

Points == {"idle", "stopping", "linking", "unlinking", "reloading", "restarting",
           "starting", "recording", "restoringLinks", "restoringReload",
           "restoringUnits"}

-----------------------------------------------------------------------------
(* The manifest of a generation, or of no state file.                      *)
gen == Len(manifests)

Nothing == [mode |-> [u \in Units |-> "absent"], content |-> [u \in Units |-> 1]]

M(g) == IF g = 0 THEN Nothing ELSE manifests[g]

cur  == M(gen)
prev == M(recorded)

Owned(m)      == {u \in Units : m.mode[u] # "absent"}
StartUnits(m) == {u \in Units : m.mode[u] = "persistent"}
StopUnits(m)  == {u \in Units : m.mode[u] = "disabled"}

(* A disabled service keeps its file, a disabled session has none.         *)
Linked(m) == Owned(m) \ (StopUnits(m) \cap Sessions)

(* What a manifest wants a unit that is up to run: 0 when it has no file.  *)
Wanted(m, u) == IF u \in Linked(m) THEN m.content[u] ELSE 0

(* The file a link leads to: none if its generation has been pruned.       *)
Resolves(g)    == g > 0 /\ g + Retain > gen
FileContent(u) == IF Resolves(link[u]) THEN M(link[u]).content[u] ELSE 0

(* Configuration that the manager would start a unit with.                 *)
Startable(u) == IF loaded[u] # 0 THEN loaded[u] ELSE FileContent(u)

Active(u) == running[u] # 0

(* Bug variant of StaleLinks: only recorded links are looked at.           *)
RecordedStaleLinks == Linked(prev) \ Linked(cur)

(* The part of reconcile that decides what to do.                          *)
StaleLinks == (Linked(prev) \cup {u \in Units : link[u] # 0}) \ Linked(cur)

TopologyChanged ==
    \/ Linked(cur) # Linked(prev)
    \/ Linked(cur) # {} /\ gen # recorded
    \/ StaleLinks # {}
    \/ \E u \in Linked(cur) : link[u] # gen

LifecycleChanged ==
    \/ Owned(cur) # Owned(prev)
    \/ StartUnits(cur) # StartUnits(prev)
    \/ StopUnits(cur) # StopUnits(prev)

(* Bug variant of Unchanged: links and files are not compared.             *)
UnchangedLifecycle == recorded # 0 /\ ~LifecycleChanged

Unchanged == recorded # 0 /\ ~TopologyChanged /\ ~LifecycleChanged

ChangedUnits ==
    {u \in Linked(cur) : u \in Linked(prev) => cur.content[u] # prev.content[u]}

ActiveUnlinkedSessions(s) ==
    {u \in (ChangedUnits \cap Sessions) \ Linked(prev) : s[u] = "yes"}

(* Bug variant of ChangedSessions: an installed session is restarted.      *)
UnlinkedSessionsOnly(s) == ActiveUnlinkedSessions(s)

ChangedSessions(s) ==
    (ChangedUnits \cap Sessions \cap Linked(prev)) \cup ActiveUnlinkedSessions(s)

UnitsToStop(s) ==
    (Owned(prev) \ Owned(cur)) \cup (StartUnits(prev) \ StartUnits(cur))
        \cup StopUnits(cur) \cup ChangedSessions(s)

(* A session without a target, old or new, has nothing to stop.            *)
Stopped(s) == UnitsToStop(s) \ (Sessions \ (Linked(prev) \cup Linked(cur)))

UnitsToRestart(s) == (ChangedUnits \cap Owned(cur)) \ ChangedSessions(s)

UnitsToStart(s) == (StartUnits(cur) \ StartUnits(prev)) \ UnitsToRestart(s)

-----------------------------------------------------------------------------
Init ==
    /\ manifests = <<>>
    /\ link = [u \in Units |-> 0]
    /\ loaded = [u \in Units |-> 0]
    /\ running = [u \in Units |-> 0]
    /\ recorded = 0
    /\ pc = "idle" /\ todo = {} /\ outcome = "none"
    /\ snap = [u \in Units |-> "no"]
    /\ live = [u \in Units |-> 0]
    /\ plan = [topology |-> FALSE, targets |-> {}]
    /\ disrupted = {} /\ faults = 0
    /\ before = running /\ cured = {} /\ disturbed = {} /\ lost = {} /\ failedAt = 0

(* What a reconcile keeps in memory is gone with its process.              *)
Forget ==
    /\ snap' = [u \in Units |-> "no"]
    /\ live' = [u \in Units |-> 0]
    /\ plan' = [topology |-> FALSE, targets |-> {}]
    /\ disrupted' = {} /\ before' = live' /\ cured' = {} /\ lost' = {} /\ failedAt' = 0

(* The compiler publishes another generation and prunes old ones.          *)
Publish(m) ==
    /\ pc = "idle" /\ gen < MaxGen
    /\ manifests' = Append(manifests, m)
    /\ outcome' = "none" /\ Forget
    /\ UNCHANGED <<link, recorded, loaded, running, pc, todo, faults, disturbed>>

-----------------------------------------------------------------------------
(* What users do: u comes up with content c.  When that is neither what the*)
(* current generation nor what the state file says, nobody recorded it.    *)
ComesUp(u, c) ==
    /\ ~Active(u) /\ c # 0
    /\ running' = [running EXCEPT ![u] = c]
    /\ LET stray == c # Wanted(cur, u) \/ (pc = "idle" /\ c # Wanted(prev, u))
       IN  /\ disturbed' = IF stray THEN disturbed \cup {u} ELSE disturbed
           /\ cured' = IF stray THEN cured \ {u} ELSE cured
    /\ UNCHANGED <<disk, loaded, pc, todo, outcome, faults, snap, live, plan,
                   disrupted, before, lost, failedAt>>

(* start_transient: the descriptor is read from the current projection, or *)
(* was read just before the switch.                                        *)
Launch(u) ==
    /\ u \in Sessions /\ Startable(u) # 0
    /\ \E g \in {gen - 1, gen} \cap 1..gen :
          u \in Linked(M(g)) /\ ComesUp(u, M(g).content[u])

(* The last instance ends.                                                 *)
Exit(u) ==
    /\ u \in Sessions /\ Active(u)
    /\ running' = [running EXCEPT ![u] = 0]
    /\ UNCHANGED <<disk, loaded, pc, todo, outcome, faults, disturbed, attempt>>

(* A connection wakes an on-demand service.                                *)
Activate(u) ==
    /\ u \in Services /\ cur.mode[u] = "ondemand"
    /\ ComesUp(u, Startable(u))

-----------------------------------------------------------------------------
(* Nothing is changed by an invalid manifest, an unreadable state file or a*)
(* file of another owner where a link should be.                           *)
Refuse ==
    /\ pc = "idle" /\ gen > 0 /\ faults < MaxFaults
    /\ faults' = faults + 1
    /\ outcome' = "refused" /\ Forget
    /\ UNCHANGED <<disk, loaded, running, pc, todo, disturbed>>

Noop ==
    /\ pc = "idle" /\ gen > 0 /\ Unchanged
    /\ outcome' = "ok" /\ Forget
    /\ UNCHANGED <<disk, loaded, running, pc, todo, faults, disturbed>>

(* The snapshots.  is-active may fail for a unit.                          *)
Begin ==
    /\ pc = "idle" /\ gen > 0 /\ ~Unchanged
    /\ \E unknown \in {{}} \cup {{u} : u \in Owned(prev) \cup Owned(cur)} :
          /\ faults + Cardinality(unknown) <= MaxFaults
          /\ faults' = faults + Cardinality(unknown)
          /\ snap' = [u \in Units |->
                IF u \in unknown THEN "unknown" ELSE IF Active(u) THEN "yes" ELSE "no"]
    /\ live' = [u \in Units |-> IF Resolves(link[u]) THEN link[u] ELSE 0]
    /\ plan' = [topology |-> TopologyChanged, targets |-> Linked(cur) \cup StaleLinks]
    /\ pc' = "stopping" /\ todo' = Stopped(snap')
    /\ outcome' = "none"
    /\ disrupted' = {} /\ before' = running /\ cured' = {} /\ lost' = {} /\ failedAt' = 0
    /\ UNCHANGED <<disk, loaded, running, disturbed>>

(* The next phase, with the units it has to handle.                        *)
NextPhase ==
    /\ todo = {}
    /\ \/ pc = "stopping"  /\ pc' = "linking"   /\ todo' = Linked(cur)
       \/ pc = "linking"   /\ pc' = "unlinking" /\ todo' = StaleLinks
       \/ pc = "unlinking" /\ pc' = "reloading" /\ todo' = {}
       \/ pc = "restarting" /\ pc' = "starting" /\ todo' = UnitsToStart(snap)
       \/ pc = "starting"  /\ pc' = "recording" /\ todo' = {}
       \/ pc = "restoringLinks" /\ pc' = "restoringReload" /\ todo' = {}
    /\ UNCHANGED <<disk, loaded, running, outcome, faults, disturbed, attempt>>

At(point, u) == pc = point /\ u \in todo

(* A command fails: the except branch begins.                              *)
Fails ==
    /\ faults < MaxFaults
    /\ faults' = faults + 1 /\ failedAt' = faults'
    /\ pc' = "restoringLinks" /\ todo' = plan.targets
    /\ UNCHANGED <<manifests, recorded, outcome, disturbed, snap, live, plan, before>>

Done(u) ==
    /\ todo' = todo \ {u}
    /\ UNCHANGED <<pc, outcome, faults, disturbed, snap, live, plan, before, failedAt>>

-----------------------------------------------------------------------------
(* systemctl stop.  A session that may have instances is noted first.      *)
NoteSession(u) ==
    disrupted' = IF u \in Sessions \cap (Owned(prev) \cup ActiveUnlinkedSessions(snap))
                 THEN disrupted \cup {u} ELSE disrupted

NoteLoss(u) ==
    lost' = IF u \in Sessions /\ Active(u) /\ snap[u] = "yes" /\ running'[u] = 0
            THEN lost \cup {u} ELSE lost

StopUnit(u) ==
    /\ At("stopping", u)
    /\ running' = [running EXCEPT ![u] = 0]
    /\ cured' = cured \cup {u}
    /\ NoteSession(u) /\ NoteLoss(u) /\ Done(u)
    /\ UNCHANGED <<disk, loaded>>

StopFails(u) ==
    /\ At("stopping", u)
    /\ \E c \in {0, running[u]} : running' = [running EXCEPT ![u] = c]
    /\ NoteSession(u) /\ NoteLoss(u) /\ Fails
    /\ UNCHANGED <<link, loaded, cured>>

(* _set_link.  An old link is removed before the new one is made.          *)
SetLink(u) ==
    /\ At("linking", u)
    /\ link' = [link EXCEPT ![u] = gen]
    /\ Done(u)
    /\ UNCHANGED <<manifests, recorded, loaded, running, disrupted, cured, lost>>

SetLinkFails(u) ==
    /\ At("linking", u)
    /\ \E g \in {0, link[u]} : link' = [link EXCEPT ![u] = g]
    /\ Fails
    /\ UNCHANGED <<loaded, running, disrupted, cured, lost>>

RemoveLink(u) ==
    /\ At("unlinking", u)
    /\ link' = [link EXCEPT ![u] = 0]
    /\ Done(u)
    /\ UNCHANGED <<manifests, recorded, loaded, running, disrupted, cured, lost>>

RemoveLinkFails(u) ==
    /\ At("unlinking", u)
    /\ Fails
    /\ UNCHANGED <<link, loaded, running, disrupted, cured, lost>>

(* daemon-reload, when the links changed.                                  *)
Reloaded == IF plan.topology THEN [u \in Units |-> FileContent(u)] ELSE loaded

Reload ==
    /\ pc = "reloading"
    /\ loaded' = Reloaded
    /\ pc' = "restarting" /\ todo' = UnitsToRestart(snap)
    /\ UNCHANGED <<disk, running, outcome, faults, disturbed, attempt>>

ReloadFails ==
    /\ pc = "reloading" /\ plan.topology
    /\ \E now \in {loaded, Reloaded} : loaded' = now
    /\ Fails
    /\ UNCHANGED <<link, running, disrupted, cured, lost>>

(* restart brings a start unit up; try-restart leaves an inactive unit     *)
(* alone.  Instances of a session come back with the arguments they had.   *)
RestartUnit(u) ==
    /\ At("restarting", u)
    /\ running' = [running EXCEPT ![u] =
          IF u \in Sessions \/ (u \notin StartUnits(cur) /\ ~Active(u)) THEN @ ELSE Startable(u)]
    /\ cured' = IF u \in Sessions THEN cured ELSE cured \cup {u}
    /\ Done(u)
    /\ UNCHANGED <<disk, loaded, disrupted, lost>>

RestartFails(u) ==
    /\ At("restarting", u)
    /\ \E c \in {0, running[u], IF u \in Sessions THEN running[u] ELSE Startable(u)} :
          running' = [running EXCEPT ![u] = c]
    /\ Fails
    /\ UNCHANGED <<link, loaded, disrupted, cured, lost>>

(* systemctl start has no effect on an active unit.                        *)
Started(u) == [running EXCEPT ![u] = IF @ # 0 THEN @ ELSE Startable(u)]

StartUnit(u) ==
    /\ At("starting", u)
    /\ running' = Started(u)
    /\ cured' = IF Active(u) THEN cured ELSE cured \cup {u}
    /\ Done(u)
    /\ UNCHANGED <<disk, loaded, disrupted, lost>>

StartFails(u) ==
    /\ At("starting", u)
    /\ \E now \in {running, Started(u)} : running' = now
    /\ Fails
    /\ UNCHANGED <<link, loaded, disrupted, cured, lost>>

(* _atomic_json of the new state ends a successful reconcile.              *)
Record ==
    /\ pc = "recording"
    /\ recorded' = gen
    /\ pc' = "idle" /\ outcome' = "ok"
    /\ disturbed' = disturbed \ cured /\ Forget
    /\ UNCHANGED <<manifests, link, loaded, running, todo, faults>>

RecordFails ==
    /\ pc = "recording"
    /\ Fails
    /\ UNCHANGED <<link, loaded, running, disrupted, cured, lost>>

-----------------------------------------------------------------------------
(* The reconcile ends without a state file of its own.                     *)
Ends(how) ==
    /\ pc' = "idle" /\ todo' = {} /\ outcome' = how
    /\ disturbed' = disturbed \cup {u \in Units : running[u] # before[u]}
    /\ UNCHANGED <<disk, loaded, running>>

(* rollback_links                                                          *)
RestoreLink(u) ==
    /\ At("restoringLinks", u)
    /\ link' = [link EXCEPT ![u] = live[u]]
    /\ Done(u)
    /\ UNCHANGED <<manifests, recorded, loaded, running, disrupted, cured, lost>>

RestoreLinksFails ==
    /\ pc \in {"restoringLinks", "restoringReload"}
    /\ pc = "restoringLinks" => todo # {}
    /\ pc = "restoringReload" => plan.topology
    /\ faults < MaxFaults /\ faults' = faults + 1
    /\ Ends("manual") /\ Forget

RestoreReload ==
    /\ pc = "restoringReload"
    /\ loaded' = Reloaded
    /\ pc' = "restoringUnits" /\ todo' = Owned(prev) \cup Owned(cur)
    /\ UNCHANGED <<disk, running, outcome, faults, disturbed, attempt>>

(* Bug variant of ToRestore: what came up in between is not stopped.       *)
ToRestart(u) == snap[u] = "yes" /\ u \notin disrupted /\ ~Active(u)

(* rollback_active_state: what is-active did not tell and sessions whose   *)
(* instances are gone are left alone.  A session target without instances  *)
(* does not stay up, so starting one changes nothing.                      *)
ToRestore(u) ==
    snap[u] # "unknown" /\ u \notin disrupted /\ Active(u) # (snap[u] = "yes")

RestoreUnit(u) ==
    /\ At("restoringUnits", u)
    /\ running' = IF ~ToRestore(u) \/ (u \in Sessions /\ ~Active(u)) THEN running
                  ELSE IF Active(u) THEN [running EXCEPT ![u] = 0] ELSE Started(u)
    /\ Done(u)
    /\ UNCHANGED <<disk, loaded, disrupted, cured, lost>>

(* A failing command is passed over.                                       *)
RestoreUnitFails(u) ==
    /\ At("restoringUnits", u) /\ ToRestore(u)
    /\ faults < MaxFaults /\ faults' = faults + 1
    /\ todo' = todo \ {u}
    /\ UNCHANGED <<disk, loaded, running, pc, outcome, disturbed, attempt>>

Report ==
    /\ pc = "restoringUnits" /\ todo = {}
    /\ Ends(IF disrupted # {} THEN "disrupted" ELSE "failed")
    /\ UNCHANGED <<faults, attempt>>

(* The rollback stops the unit, or the guard's timer does.                 *)
Kill ==
    /\ pc # "idle"
    /\ faults < MaxFaults /\ faults' = faults + 1
    /\ Ends("killed") /\ Forget

Next ==
    \/ \E m \in Manifests : Publish(m)
    \/ Refuse \/ Noop \/ Begin \/ NextPhase \/ Reload \/ ReloadFails
    \/ Record \/ RecordFails \/ RestoreLinksFails \/ RestoreReload \/ Report \/ Kill
    \/ \E u \in Units :
          \/ Launch(u) \/ Exit(u) \/ Activate(u)
          \/ StopUnit(u) \/ StopFails(u)
          \/ SetLink(u) \/ SetLinkFails(u) \/ RemoveLink(u) \/ RemoveLinkFails(u)
          \/ RestartUnit(u) \/ RestartFails(u) \/ StartUnit(u) \/ StartFails(u)
          \/ RestoreLink(u) \/ RestoreUnit(u) \/ RestoreUnitFails(u)

Spec == Init /\ [][Next]_vars

-----------------------------------------------------------------------------
(* Every variable has its type.                                            *)
TypeOK ==
    /\ manifests \in Seq(Projections) /\ gen <= MaxGen
    /\ link \in [Units -> 0..MaxGen] /\ live \in [Units -> 0..MaxGen]
    /\ loaded \in [Units -> 0..MaxContent]
    /\ running \in [Units -> 0..MaxContent] /\ before \in [Units -> 0..MaxContent]
    /\ recorded \in 0..MaxGen
    /\ pc \in Points
    /\ todo \subseteq Units
    /\ snap \in [Units -> {"yes", "no", "unknown"}]
    /\ plan \in [topology : BOOLEAN, targets : SUBSET Units]
    /\ disrupted \subseteq Sessions /\ lost \subseteq Sessions
    /\ cured \subseteq Units /\ disturbed \subseteq Units
    /\ outcome \in {"none", "ok", "refused", "failed", "disrupted", "manual", "killed"}
    /\ faults \in 0..MaxFaults /\ failedAt \in 0..MaxFaults

(* After a reconcile that reports success the runtime links are exactly    *)
(* those of the published manifest, whatever kills, half-made links, failed*)
(* restorations and pruned generations left behind (_discover_*_links, the *)
(* drift test of _parse_links).                                            *)
LinksMatch ==
    outcome = "ok" =>
        \A u \in Units : link[u] = (IF u \in Linked(cur) THEN gen ELSE 0)

(* After a reconcile that reports success every unit is as the state file  *)
(* says - start units up, stopped and retired units down, whatever runs    *)
(* runs the recorded configuration, instances of sessions included -       *)
(* except units that a start nobody recorded had already set apart.        *)
RecordedIsLive ==
    outcome = "ok" =>
        \A u \in Units \ disturbed :
            /\ u \in StartUnits(prev) => Active(u)
            /\ u \in StopUnits(prev) => ~Active(u)
            /\ Active(u) => running[u] = Wanted(prev, u)

(* A reconcile that fails without asking for manual recovery has ended no  *)
(* instance of a session, which it could not bring back; and if it meets   *)
(* no second fault while it restores, it puts every link back that led     *)
(* somewhere, removes the ones it made, and brings each service back up or *)
(* down that it had seen up with its file, or down.                        *)
FailureRestores ==
    outcome = "failed" =>
        /\ lost = {}
        /\ faults = failedAt =>
              /\ link = live
              /\ \A u \in Services : cur.mode[u] # "ondemand" =>
                    /\ snap[u] = "yes" /\ live[u] # 0 => Active(u)
                    /\ snap[u] = "no" => ~Active(u)

(* After a reconcile that reports success every persistent service runs    *)
(* with the configuration of the generation that is then marked applied.   *)
AppliedIsLive ==
    outcome = "ok" =>
        \A u \in StartUnits(cur) : running[u] = cur.content[u]
=============================================================================
