------------------------------- MODULE Backup -------------------------------
(***************************************************************************)
(* Backups of managed-service resources (services/nas_v2_backup.py): the    *)
(* Restic unit runs prepare before Restic and cleanup after it, whether     *)
(* they succeed or not.  prepare takes a ZFS snapshot or runs a dump job    *)
(* for every resource that needs one, and writes each down in a state file  *)
(* before it makes it, so that cleanup can take it back after a failure or  *)
(* a kill.  The state file is under /run: a reboot forgets it.              *)
(***************************************************************************)
EXTENDS Integers, FiniteSets

CONSTANTS
    Resources,      \* resources, numbered in the order of their identifiers
    Documents,      \* what effective documents say of the resources to back up
    Nowhere,        \* the path of no artifact
    MaxFaults       \* bound: failed commands, kills and reboots

\* Every document is about some of the resources, and a dump has an artifact.
ASSUME BackupAssumption ==
    /\ Resources \subseteq Nat /\ MaxFaults \in Nat
    /\ \A d \in Documents :
         /\ DOMAIN d \subseteq Resources
         /\ d = [r \in DOMAIN d |-> d[r]]
         /\ \A r \in DOMAIN d :
              /\ d[r].how \in {"direct", "zfs-snapshot", "native-dump"}
              /\ d[r].how = "native-dump" => d[r].artifact # Nowhere

VARIABLES
    inventory,      \* the compiled inventory
    unit,           \* the Restic unit: "idle", "prepare", "restic", "cleanup"
    pc,             \* where its running helper is
    plan,           \* the inventory that the last prepare read
    todo,           \* resources prepare has still to handle
    current,        \* the resource it handles, as a set of at most one
    memory,         \* the helper's list of snapshots and dumps
    failures,       \* an undo of the running helper failed
    state,          \* the state file
    snapshots,      \* the ZFS snapshots that exist
    running,        \* dump jobs that run
    artifacts,      \* the resources whose dumps the staged artifacts hold
    forgotten,      \* history: snapshots whose record a reboot took away
    saved,          \* what the last complete Restic run stored, and of which plan
    faults

vars == <<inventory, unit, pc, plan, todo, current, memory, failures, state, snapshots,
          running, artifacts, forgotten, saved, faults>>

machine == <<snapshots, running, artifacts>>
records == <<forgotten, saved>>

-----------------------------------------------------------------------------
(* The compiled inventory. A document maps a resource to how it is to be     *)
(* made consistent ("direct" for filesystem and none), its path, and for a   *)
(* dump the number of jobs that read it and the path of what they write.     *)

Resolvable(d) == d.jobs = 1 /\ d.artifact # d.path

\* compile_backup_projection: in the order of the identifiers, no path twice, and
\* no artifact where an earlier resource is or an earlier source of Restic.
Sources(inv, q) ==
    {inv[r].path : r \in {p \in DOMAIN inv : p < q /\ inv[p].how = "direct"}}
    \cup {inv[r].artifact : r \in {p \in DOMAIN inv : p < q /\ inv[p].how = "native-dump"}}

AnySources(inv) == TRUE

DistinctSources(inv) ==
    \A q \in DOMAIN inv :
       /\ inv[q].how = "direct" => inv[q].path \notin Sources(inv, q)
       /\ inv[q].how = "native-dump" =>
             /\ inv[q].artifact \notin Sources(inv, q)
             /\ \A r \in DOMAIN inv : r <= q => inv[r].path # inv[q].artifact

Projectable(inv) ==
    /\ \A r \in DOMAIN inv : inv[r].how = "native-dump" => Resolvable(inv[r])
    /\ \A r, q \in DOMAIN inv : r # q => inv[r].path # inv[q].path
    /\ DistinctSources(inv)

Inventories == {inv \in Documents : Projectable(inv)}

ArtifactPaths ==
    (UNION {{inv[r].artifact : r \in DOMAIN inv} : inv \in Documents}) \ {Nowhere}

Nothing == [snapshots |-> {}, dumps |-> {}]

Outstanding(s) == s.snapshots # {} \/ s.dumps # {}

\* Snapshot names are unique; the numbers tell the snapshots of a resource apart.
Snapshots == Resources \X (0..MaxFaults)

Fresh(r) ==
    <<r, CHOOSE n \in 0..MaxFaults :
            /\ <<r, n>> \notin snapshots
            /\ \A m \in 0..(n - 1) : <<r, m>> \in snapshots>>

\* The record of a dump: the job and where it writes.
Dump(r) == <<r, plan[r].artifact>>

Dumps == Resources \X ArtifactPaths

NoPlan == [r \in {} |-> r]

Init ==
    /\ inventory \in Inventories
    /\ unit = "idle" /\ pc = "none" /\ plan = NoPlan /\ todo = {} /\ current = {}
    /\ memory = Nothing /\ failures = FALSE /\ state = Nothing
    /\ snapshots = {} /\ running = {}
    /\ artifacts = [p \in ArtifactPaths |-> {}]
    /\ forgotten = {} /\ saved = [plan |-> NoPlan, good |-> {}]
    /\ faults = 0

Fault == faults < MaxFaults /\ faults' = faults + 1

-----------------------------------------------------------------------------
(* prepare. *)

\* The timer starts the unit.  State that an earlier run left is refused, and
\* the cleanup that follows every run takes it away.
StartUnit ==
    /\ unit = "idle"
    /\ memory' = Nothing /\ failures' = FALSE /\ current' = {}
    /\ IF Outstanding(state)
       THEN unit' = "cleanup" /\ pc' = "load" /\ todo' = {} /\ UNCHANGED plan
       ELSE /\ unit' = "prepare" /\ pc' = "next"
            /\ plan' = inventory /\ todo' = DOMAIN inventory
    /\ UNCHANGED <<inventory, state, machine, records, faults>>

\* The resource prepare turns to, and how it is made consistent.
Turn(r, how) ==
    /\ unit = "prepare" /\ pc = "next" /\ r \in todo /\ \A q \in todo : r <= q
    /\ plan[r].how = how
    /\ todo' = todo \ {r} /\ current' = {r}

PrepareDirect(r) ==
    /\ Turn(r, "direct")
    /\ UNCHANGED <<inventory, unit, pc, plan, memory, failures, state, machine, records,
                   faults>>

\* Written down first, made afterwards.
TrackLater(new) ==
    memory' = new /\ UNCHANGED state

Track(new) ==
    memory' = new /\ state' = new

PendSnapshot(r) ==
    /\ Turn(r, "zfs-snapshot")
    /\ Track([memory EXCEPT !.snapshots = @ \cup {Fresh(r)}])
    /\ pc' = "snapshot"
    /\ UNCHANGED <<inventory, unit, plan, failures, machine, records, faults>>

TakeSnapshot ==
    /\ unit = "prepare" /\ pc = "snapshot"
    /\ snapshots' = snapshots \cup memory.snapshots
    /\ pc' = "next"
    /\ UNCHANGED <<inventory, unit, plan, todo, current, memory, failures, state, running, artifacts,
                   records, faults>>

\* _native_dump_path: the artifact directory is emptied, the pending dump is
\* written down, the job is started.
PendDump(r) ==
    /\ Turn(r, "native-dump")
    /\ artifacts' = [artifacts EXCEPT ![plan[r].artifact] = {}]
    /\ Track([memory EXCEPT !.dumps = @ \cup {Dump(r)}])
    /\ pc' = "dump"
    /\ UNCHANGED <<inventory, unit, plan, failures, snapshots, running, records, faults>>

StartDump(r) ==
    /\ unit = "prepare" /\ pc = "dump" /\ r \in current
    /\ running' = running \cup {Dump(r)}
    /\ pc' = "dumping"
    /\ UNCHANGED <<inventory, unit, plan, todo, current, memory, failures, state, snapshots,
                   artifacts, records, faults>>

\* The job ends, with or without data, whether or not anybody waits for it.
DumpEnds(d) ==
    /\ d \in running
    /\ running' = running \ {d}
    /\ \/ artifacts' = [artifacts EXCEPT ![d[2]] = @ \cup {d[1]}] /\ UNCHANGED faults
       \/ Fault /\ UNCHANGED artifacts
    /\ UNCHANGED <<inventory, unit, pc, plan, todo, current, memory, failures, state, snapshots, records>>

\* systemctl restart returns; there must be data.
DumpDone(r) ==
    /\ unit = "prepare" /\ pc = "dumping" /\ r \in current /\ Dump(r) \notin running
    /\ pc' = IF artifacts[plan[r].artifact] # {} THEN "next" ELSE "undo"
    /\ UNCHANGED <<inventory, unit, plan, todo, current, memory, failures, state, machine, records,
                   faults>>

Prepared ==
    /\ unit = "prepare" /\ pc = "next" /\ todo = {}
    /\ unit' = "restic" /\ pc' = "none"
    /\ state' = memory
    /\ UNCHANGED <<inventory, plan, todo, current, memory, failures, machine, records, faults>>

\* A command of prepare fails or times out, done or not; a dump job may go on.
\* Everything written down so far is undone.
PrepareFails ==
    /\ unit = "prepare" /\ pc # "undo" /\ Fault
    /\ \/ UNCHANGED machine
       \/ /\ pc = "snapshot"
          /\ snapshots' = snapshots \cup memory.snapshots
          /\ UNCHANGED <<running, artifacts>>
       \/ \E r \in Resources :
          /\ pc = "dump" /\ r \in current
          /\ running' = running \cup {Dump(r)}
          /\ UNCHANGED <<snapshots, artifacts>>
    /\ pc' = "undo"
    /\ UNCHANGED <<inventory, unit, plan, todo, current, memory, failures, state, records>>

-----------------------------------------------------------------------------
(* Undoing, by the failure path of prepare and by cleanup alike. *)

\* cleanup works from the state file.
LoadState ==
    /\ unit = "cleanup" /\ pc = "load"
    /\ memory' = state /\ failures' = FALSE
    /\ pc' = "undo"
    /\ UNCHANGED <<inventory, unit, plan, todo, current, state, machine, records, faults>>

WithoutSnapshot(s, x) == [s EXCEPT !.snapshots = @ \ {x}]
WithoutDump(s, d) == [s EXCEPT !.dumps = @ \ {d}]

\* The order of undoing: every snapshot, then every dump.
UndoingSnapshot(x) ==
    /\ pc = "undo" /\ x \in memory.snapshots
    /\ memory' = WithoutSnapshot(memory, x)

UndoingDump(d) ==
    /\ pc = "undo" /\ d \in memory.dumps /\ memory.snapshots = {}
    /\ memory' = WithoutDump(memory, d)

\* zfs destroy, or the probe that finds the snapshot gone; then the record goes.
Destroy(x) ==
    /\ UndoingSnapshot(x)
    /\ snapshots' = snapshots \ {x}
    /\ state' = WithoutSnapshot(state, x)
    /\ UNCHANGED <<inventory, unit, pc, plan, todo, current, failures, running, artifacts, records,
                   faults>>

\* _stop_native_dump before _remove_staged_artifact: the job may still write.
Stopped(d) == running \ {d}

RemoveDump(d) ==
    /\ UndoingDump(d)
    /\ running' = Stopped(d)
    /\ artifacts' = [artifacts EXCEPT ![d[2]] = {}]
    /\ state' = WithoutDump(state, d)
    /\ UNCHANGED <<inventory, unit, pc, plan, todo, current, failures, snapshots, records, faults>>

\* What cannot be undone, or cannot be seen to be, stays written down, and the
\* rest is undone all the same.
DestroyFails(x) ==
    /\ UndoingSnapshot(x) /\ Fault
    /\ failures' = TRUE
    /\ snapshots' \in {snapshots, snapshots \ {x}}
    /\ UNCHANGED <<inventory, unit, pc, plan, todo, current, state, running, artifacts, records>>

RemoveDumpFails(d) ==
    /\ UndoingDump(d) /\ Fault
    /\ failures' = TRUE
    /\ running' \in {running, Stopped(d)}
    /\ UNCHANGED <<inventory, unit, pc, plan, todo, current, state, snapshots, artifacts, records>>

RemovedAlways == Nothing

\* The state file goes unless something failed.  After prepare the unit still
\* runs its cleanup.
StateLeft == IF failures THEN state ELSE Nothing

EndUndo ==
    /\ pc = "undo" /\ ~Outstanding(memory)
    /\ state' = StateLeft
    /\ IF unit = "prepare" THEN unit' = "cleanup" /\ pc' = "load"
       ELSE unit' = "idle" /\ pc' = "none"
    /\ memory' = Nothing /\ failures' = FALSE /\ todo' = {} /\ current' = {}
    /\ UNCHANGED <<inventory, plan, machine, records, faults>>

-----------------------------------------------------------------------------
(* Restic, kills, reboots, the reconciler and the restore drill. *)

\* What Restic finds at the source of a resource is that resource's data.
Good(r) ==
    CASE plan[r].how = "direct" -> TRUE
      [] plan[r].how = "zfs-snapshot" ->
            \E x \in state.snapshots : x[1] = r /\ x \in snapshots
      [] plan[r].how = "native-dump" ->
            r \in artifacts[plan[r].artifact] /\ \A d \in running : d[2] # plan[r].artifact

ResticEnds ==
    /\ unit = "restic"
    /\ unit' = "cleanup" /\ pc' = "load"
    /\ saved' = [plan |-> plan, good |-> {r \in DOMAIN plan : Good(r)}]
    /\ UNCHANGED <<inventory, plan, todo, current, memory, failures, state, machine, forgotten, faults>>

\* The running process is killed; systemd runs the cleanup after prepare and
\* after Restic, and nothing after the cleanup.
Kill ==
    /\ unit # "idle" /\ Fault
    /\ IF unit = "cleanup" THEN unit' = "idle" /\ pc' = "none"
       ELSE unit' = "cleanup" /\ pc' = "load"
    /\ memory' = Nothing /\ failures' = FALSE /\ todo' = {} /\ current' = {}
    /\ UNCHANGED <<inventory, plan, state, machine, records>>

\* /run is empty after a reboot, the snapshots are not gone.
Reboot ==
    /\ Fault
    /\ unit' = "idle" /\ pc' = "none" /\ todo' = {} /\ current' = {} /\ plan' = NoPlan
    /\ memory' = Nothing /\ failures' = FALSE /\ state' = Nothing
    /\ running' = {} /\ artifacts' = [p \in ArtifactPaths |-> {}]
    /\ forgotten' = snapshots
    /\ UNCHANGED <<inventory, snapshots, saved>>

\* A reconciliation publishes another inventory, at any time.
Republish ==
    /\ inventory' \in Inventories \ {inventory}
    /\ UNCHANGED <<unit, pc, plan, todo, current, memory, failures, state, machine, records, faults>>

\* verify: every resource of an inventory is found, whole, in a restore of what
\* is saved.
Found(r) == r \in saved.good

Verified(inv) == \A r \in DOMAIN inv : Found(r)

Helper ==
    \/ \E r \in Resources :
         \/ PrepareDirect(r) \/ PendSnapshot(r) \/ PendDump(r) \/ StartDump(r) \/ DumpDone(r)
    \/ TakeSnapshot \/ Prepared \/ LoadState \/ EndUndo
    \/ \E x \in Snapshots : Destroy(x)
    \/ \E d \in Dumps : RemoveDump(d)

Next ==
    \/ StartUnit \/ Helper \/ ResticEnds
    \/ \E d \in Dumps : DumpEnds(d)
    \/ PrepareFails
    \/ \E x \in Snapshots : DestroyFails(x)
    \/ \E d \in Dumps : RemoveDumpFails(d)
    \/ Kill \/ Reboot \/ Republish

Spec == Init /\ [][Next]_vars

\* The timer fires again, processes that are not killed go on, jobs end.
FairSpec ==
    /\ Spec
    /\ WF_vars(StartUnit) /\ WF_vars(Helper) /\ WF_vars(ResticEnds)
    /\ \A d \in Dumps : WF_vars(DumpEnds(d))

-----------------------------------------------------------------------------
\* Type invariant of the Restic unit, its helper and what they make.
TypeOK ==
    /\ inventory \in Inventories /\ plan \in Inventories \cup {NoPlan}
    /\ unit \in {"idle", "prepare", "restic", "cleanup"}
    /\ pc \in {"none", "next", "snapshot", "dump", "dumping", "load", "undo"}
    /\ todo \subseteq Resources /\ current \subseteq Resources /\ failures \in BOOLEAN
    /\ {memory, state} \subseteq [snapshots : SUBSET Snapshots, dumps : SUBSET Dumps]
    /\ snapshots \subseteq Snapshots /\ forgotten \subseteq Snapshots
    /\ running \subseteq Dumps /\ artifacts \in [ArtifactPaths -> SUBSET Resources]
    /\ faults \in 0..MaxFaults

\* Nothing is made that no record names: whatever prepare or cleanup is killed
\* in the middle of, and whatever command failed, a snapshot that exists, a job
\* that runs and an artifact that holds data are in the state file for the next
\* cleanup (prepare lines 515 and 580, the failure path from 592, cleanup from 650); only a snapshot
\* whose record was lost with /run in a reboot is not.
NothingUnrecorded ==
    /\ snapshots \ forgotten \subseteq state.snapshots
    /\ running \subseteq state.dumps
    /\ \A p \in ArtifactPaths :
         artifacts[p] # {} => \E d \in state.dumps : d[2] = p

\* A backup that Restic completes can be restored: a drill with the inventory
\* the backup was made from finds the data of every resource, whatever an earlier
\* run left behind and whatever reconciliation published meanwhile.
CompletedVerifies ==
    Verified(saved.plan)

\* The machine comes clean again and again: after the last failure a cleanup, or
\* the next run of the unit, has removed every snapshot and artifact of prepare.
ComesClean ==
    []<>(/\ unit = "idle" /\ state = Nothing /\ running = {}
         /\ snapshots \subseteq forgotten
         /\ \A p \in ArtifactPaths : artifacts[p] = {})
=============================================================================
