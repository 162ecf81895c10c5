----------------------------- MODULE StateRestore -----------------------------
(***************************************************************************)
(* services/nas_state.py: export of the state authorities into a bundle,   *)
(* and restoration of a bundle with a rollback bundle and a journal.       *)
(*                                                                         *)
(* Export and restore hold the appliance lock, so one of them runs at a    *)
(* time (OperationLock); the services that own the authorities keep writing*)
(* while their unit is active, prune-rollbacks takes no lock, and a kill   *)
(* may come between any two steps.                                         *)
(*                                                                         *)
(* A content stands for the digest of an authority; the service writes     *)
(* contents 2, 3, ... in the order of time, which tells a content that the *)
(* restore put there from one written later.  Stopping or starting several *)
(* units is one step: a write by a unit not yet stopped may as well come   *)
(* before the step.                                                        *)
(***************************************************************************)
EXTENDS Integers, Sequences, FiniteSets, SequencesExt

CONSTANTS
    Registry,       \* the authorities, in the order of the registry
    Databases,      \* authorities of kind "database"
    Optional,       \* path authorities that may be absent
    Sensitive,      \* authorities exported only on request
    RestoreUnits,   \* restore_units(), in order
    QuiesceUnits,   \* export_quiesce_units(), in order
    Postgres,       \* postgresql.service
    Owner,          \* the unit that writes an authority
    RetainCount,    \* ROLLBACK_RETAIN_COUNT
    MaxOps,         \* bound on exports and restores
    MaxWrites,      \* bound on writes of services
    MaxFaults       \* bound on failing calls and kills

Authorities == ToSet(Registry)
Units       == ToSet(RestoreUnits) \cup ToSet(QuiesceUnits) \cup {Postgres}
Absent      == 0            \* nothing at the path of the authority
Torn        == -1           \* a database after an unfinished pg_restore
Contents    == 1..(MaxWrites + 1)

ASSUME StateAssumption ==
    /\ Databases \subseteq Authorities /\ Sensitive \subseteq Authorities
    /\ Optional \subseteq Authorities \ Databases
    /\ Registry \in Seq(Authorities)
    /\ \A j, k \in DOMAIN Registry : Registry[j] = Registry[k] => j = k
    /\ RestoreUnits \in Seq(Units) /\ QuiesceUnits \in Seq(Units)
    /\ Owner \in [Authorities -> Units \ {Postgres}]    \* PostgreSQL writes for its clients
    /\ RetainCount \in Nat \ {0}
    /\ MaxOps \in Nat /\ MaxWrites \in Nat /\ MaxFaults \in Nat

Statuses == {"captured", "absent", "missing-required", "omitted-sensitive"}
Entries  == [status : Statuses, content : Contents \cup {Absent, Torn}]
NoEntry  == [status |-> "omitted-sensitive", content |-> Absent]
NoBundle == [a \in Authorities |-> NoEntry]

JournalStatuses ==
    {"none", "preparing", "failed", "skipped-unchanged", "rollback-captured",
     "quiesced", "state-applied", "committed", "failed-before-apply",
     "rolling-back", "failed-rolled-back", "manual-recovery-required"}

Steps == {"idle", "copy", "export-done", "check", "drift", "preflight", "quiesce",
          "abort", "apply", "verify", "reapply", "rollback", "requiesce", "undo"}

Idle == [pc |-> "idle", op |-> "none", i |-> 1, bundle |-> NoBundle,
         target |-> NoBundle, snap |-> [u \in Units |-> FALSE],
         sensitive |-> FALSE, absence |-> FALSE, aside |-> Absent]

VARIABLES
    live,       \* content of every authority
    units,      \* is the unit active
    saved,      \* the operator's bundle: entries, and whether it is intact
                \* and of this host
    store,      \* rollback bundles, numbered in the order of their times
    journal,    \* restore-operation.json: status, and the rollback bundle
    job,        \* the running export or restore
    clock,      \* last content written
    ops,        \* exports and restores so far
    faults,     \* faults so far
    before      \* history: live, units, clock, bundle and number of the last
                \* restore when it began, and the clock when it last stopped
                \* the units

vars == <<live, units, saved, store, journal, job, clock, ops, faults, before>>
-----------------------------------------------------------------------------
(* Units.                                                                  *)

(* One of a call's outcomes is a failure, as long as the bound allows.     *)
Fault == faults < MaxFaults /\ faults' = faults + 1

Active(u, seq) == [x \in Units |-> x \in ToSet(seq) /\ u[x]]

(* Bug variant: the units are only asked to stop.                          *)
StoppedLater(u, snap) == u

(* stop_active_units: every active unit of the snapshot is stopped.  When a*)
(* stop fails, with or without effect, the units attempted so far are      *)
(* started again; each of these starts may fail too.                       *)
Stopped(u, snap) == [x \in Units |-> u[x] /\ ~snap[x]]
StopFailed(u, snap) ==
    {[x \in Units |-> u[x] /\ x \notin down] :
        down \in SUBSET {x \in Units : snap[x]}}

(* restore_unit_state goes through the snapshot in order and brings each   *)
(* unit back to its recorded activity; a failure leaves the rest.          *)
UnitsRestored(u, snap, seq) ==
    [x \in Units |-> IF x \in ToSet(seq) THEN snap[x] ELSE u[x]]
UnitsRestoreFailed(u, snap, seq) ==
    {UnitsRestored(u, snap, SubSeq(seq, 1, k)) :
        k \in {n \in 0..(Len(seq) - 1) : u[seq[n + 1]] # snap[seq[n + 1]]}}
-----------------------------------------------------------------------------
(* Bundles.                                                                *)

(* What export_bundle records for an authority.                            *)
CaptureEntry(a, sensitive) ==
    IF a \in Sensitive /\ ~sensitive THEN NoEntry
    ELSE IF live[a] # Absent \/ a \in Databases
         THEN [status |-> "captured", content |-> live[a]]
         ELSE [status |-> IF a \in Optional THEN "absent"
                                            ELSE "missing-required",
               content |-> Absent]

Complete(b) == \A a \in Authorities :
    b[a].status \notin {"omitted-sensitive", "missing-required"}

(* load_extracted_manifest: the entries follow the registry.               *)
ManifestValid(b) == \A a \in Authorities :
    /\ b[a].status = "absent" => a \in Optional
    /\ b[a].status = "omitted-sensitive" => a \in Sensitive
    /\ b[a].status # "captured" => b[a].content = Absent

(* extract_bundle checks every member before it writes it, and removes what*)
(* it wrote when one is refused: only a whole archive is extracted.        *)
Archives == {"whole", "truncated", "unsafe", "oversized"}
Extracts(archive) == archive = "whole"

(* pg_dump needs the server.                                               *)
Dumps(a) == a \in Databases => units[Postgres]

(* restored_content_matches, and the comparison digest of a database: the  *)
(* content counts, not the owner and the mode.                             *)
Matches(a, e) == live[a] = e.content

(* The pre-check of restore_bundle: does an authority differ from the      *)
(* bundle?  A database that is down counts as different.                   *)
Drift(b) == \E a \in Authorities :
    \/ b[a].status = "captured" /\ ~(Dumps(a) /\ Matches(a, b[a]))
    \/ b[a].status = "absent" /\ live[a] # Absent

(* A row of nas-state diff.                                                *)
DiffRow(b, a) ==
    CASE b[a].status = "absent"   -> IF live[a] = Absent THEN "match-absent" ELSE "drift"
      [] b[a].status = "captured" -> IF Matches(a, b[a]) THEN "match" ELSE "drift"
      [] OTHER                    -> b[a].status

AbsenceConflict(b) == \E a \in Authorities :
    b[a].status = "absent" /\ live[a] # Absent

Newer(s, r) == {q \in s : q.id > r.id}

(* Bug variant: an off-by-one in the retention count.                      *)
PruneOneMore(s) == {r \in s : ~r.old /\ Cardinality(Newer(s, r)) < RetainCount - 1}

(* prune_rollbacks: the newest RetainCount stay unless they are too old.   *)
Prune(s) == {r \in s : ~r.old /\ Cardinality(Newer(s, r)) < RetainCount}

Log(status) == journal' = [journal EXCEPT !.status = status]
-----------------------------------------------------------------------------
Init ==
    /\ live \in {f \in [Authorities -> {Absent, 1}] :
                    \A a \in Authorities \ Optional : f[a] = 1}
    /\ units = [u \in Units |-> TRUE]
    /\ saved = [entries |-> NoBundle, ok |-> FALSE]
    /\ store = {}
    /\ journal = [status |-> "none", rollback |-> 0]
    /\ job = Idle
    /\ clock = 1 /\ ops = 0 /\ faults = 0
    /\ before = [live |-> live, units |-> units, clock |-> 1, mark |-> 1, target |-> NoBundle,
                  id |-> 0]

(* Services write, create or remove what they own; the operator or systemd *)
(* starts a unit that a killed operation left stopped.                     *)
ServiceWrites(a) ==
    /\ units[Owner[a]] /\ clock <= MaxWrites
    /\ a \in Databases => units[Postgres] /\ live[a] # Torn
    /\ clock' = clock + 1
    /\ live' = [live EXCEPT ![a] = clock + 1]
    /\ UNCHANGED <<units, saved, store, journal, job, ops, faults, before>>

ServiceRemoves(a) ==
    /\ units[Owner[a]] /\ a \in Optional /\ live[a] # Absent
    /\ clock <= MaxWrites /\ clock' = clock + 1
    /\ live' = [live EXCEPT ![a] = Absent]
    /\ UNCHANGED <<units, saved, store, journal, job, ops, faults, before>>

UnitStarts(u) ==
    /\ job.pc = "idle" /\ ~units[u]
    /\ units' = [units EXCEPT ![u] = TRUE]
    /\ before' = [before EXCEPT !.units[u] = TRUE]
    /\ UNCHANGED <<live, saved, store, journal, job, clock, ops, faults>>

BundlesAge ==
    /\ job.pc = "idle"
    /\ \E r \in store : ~r.old
    /\ store' = {[r EXCEPT !.old = TRUE] : r \in store}
    /\ UNCHANGED <<live, units, saved, journal, job, clock, ops, faults, before>>

(* nas-state prune-rollbacks, which takes no lock.                         *)
PruneCommand ==
    /\ Prune(store) # store
    /\ store' = Prune(store)
    /\ UNCHANGED <<live, units, saved, journal, job, clock, ops, faults, before>>
-----------------------------------------------------------------------------
(* export_bundle.  The operator's export stops the quiesce units first and *)
(* starts PostgreSQL again for the dump; the rollback capture of a restore *)
(* runs the same copies with every service up.                             *)
NeedsDatabase(b) == \E a \in Databases : b[a].status = "captured"

ExportBegins(sensitive) ==
    /\ job.pc = "idle" /\ ops < MaxOps /\ ops' = ops + 1
    /\ LET snap == Active(units, QuiesceUnits) IN
       \/ /\ units' = IF Databases # {} /\ snap[Postgres]
                      THEN [Stopped(units, snap) EXCEPT ![Postgres] = TRUE]
                      ELSE Stopped(units, snap)
          /\ job' = [Idle EXCEPT
                        !.pc = IF Databases # {} /\ QuiesceUnits # <<>> /\ ~snap[Postgres]
                               THEN "export-done" ELSE "copy",
                        !.op = "export", !.snap = snap, !.sensitive = sensitive]
          /\ UNCHANGED faults
       \/ Fault /\ units' \in StopFailed(units, snap) /\ job' = Idle
    /\ UNCHANGED <<live, saved, store, journal, clock, before>>

CopyFails == job' = [job EXCEPT !.pc = IF job.op = "export" THEN "export-done"
                                                          ELSE "abort"]

CopyAuthority ==
    /\ job.pc = "copy" /\ job.i <= Len(Registry)
    /\ LET a == Registry[job.i]
           dump == a \in Databases /\ (a \in Sensitive => job.sensitive) IN
       \/ /\ dump => Dumps(a)
          /\ job' = [job EXCEPT !.i = @ + 1,
                                !.bundle[a] = CaptureEntry(a, job.sensitive)]
          /\ UNCHANGED faults
       \/ dump /\ ~Dumps(a) /\ CopyFails /\ UNCHANGED faults
       \/ Fault /\ CopyFails
    /\ UNCHANGED <<live, units, saved, store, journal, clock, ops, before>>

(* The archive is renamed into place, then the finally clause brings the   *)
(* units back: the bundle stays even when that fails.                      *)
PublishExport ==
    /\ job.pc = "copy" /\ job.op = "export" /\ job.i > Len(Registry)
    /\ saved' = [entries |-> job.bundle, ok |-> TRUE]
    /\ job' = [job EXCEPT !.pc = "export-done"]
    /\ UNCHANGED <<live, units, store, journal, clock, ops, faults, before>>

ExportEnds ==
    /\ job.pc = "export-done"
    /\ \/ units' = UnitsRestored(units, job.snap, QuiesceUnits) /\ UNCHANGED faults
       \/ Fault /\ units' \in UnitsRestoreFailed(units, job.snap, QuiesceUnits)
    /\ job' = Idle
    /\ UNCHANGED <<live, saved, store, journal, clock, ops, before>>
-----------------------------------------------------------------------------
(* restore_bundle.                                                         *)

RestoreBegins(absence) ==
    /\ job.pc = "idle" /\ saved.ok /\ ops < MaxOps /\ ops' = ops + 1
    /\ journal' = [status |-> "preparing", rollback |-> 0]
    /\ job' = [Idle EXCEPT !.pc = "check", !.op = "restore", !.sensitive = TRUE,
                           !.target = saved.entries, !.absence = absence]
    /\ before' = [live |-> live, units |-> units, clock |-> clock, mark |-> clock,
                   target |-> saved.entries, id |-> ops + 1]
    /\ UNCHANGED <<live, units, saved, store, clock, faults>>

(* The archive extracts, the manifest is ours (the signature verifies and  *)
(* the host names agree) and valid, and the flags allow what it holds.     *)
CheckBundle(archive, ours, partial, sensitive) ==
    /\ job.pc = "check"
    /\ LET b == job.target IN
       IF /\ Extracts(archive) /\ ours /\ ManifestValid(b)
          /\ Complete(b) \/ partial
          /\ (\E a \in Sensitive : b[a].status = "captured") => sensitive
       THEN /\ store' = Prune(store)
            /\ job' = [job EXCEPT !.pc = "drift", !.snap = Active(units, RestoreUnits)]
            /\ UNCHANGED journal
       ELSE Log("failed") /\ job' = Idle /\ UNCHANGED store
    /\ UNCHANGED <<live, units, saved, clock, ops, faults, before>>

(* Nothing to do when the authorities match; a failing check is a drift.   *)
CheckDrift ==
    /\ job.pc = "drift"
    /\ \/ ~Drift(job.target) /\ Log("skipped-unchanged") /\ job' = Idle /\ UNCHANGED faults
       \/ /\ (Drift(job.target) /\ UNCHANGED faults) \/ Fault
          /\ job' = [job EXCEPT !.pc = "copy"] /\ UNCHANGED journal
    /\ UNCHANGED <<live, units, saved, store, clock, ops, before>>

KeepRollback ==
    /\ job.pc = "copy" /\ job.op = "restore" /\ job.i > Len(Registry)
    /\ store' = store \cup {[id |-> ops, entries |-> job.bundle, old |-> FALSE]}
    /\ job' = [job EXCEPT !.pc = "preflight"]
    /\ UNCHANGED <<live, units, saved, journal, clock, ops, faults, before>>

Preflight ==
    /\ job.pc = "preflight"
    /\ journal' = [status |-> "rollback-captured", rollback |-> ops]
    /\ job' = [job EXCEPT !.i = 1,
                  !.pc = IF AbsenceConflict(job.target) /\ ~job.absence
                         THEN "abort" ELSE "quiesce"]
    /\ UNCHANGED <<live, units, saved, store, clock, ops, faults, before>>

(* The units stop, and PostgreSQL starts for the databases of the bundle.  *)
(* The preflight of apply_extracted comes after: a service may have created*)
(* the path in between.                                                    *)
Quiesce ==
    /\ job.pc = "quiesce"
    /\ \/ /\ Log("quiesced") /\ UNCHANGED faults
          /\ units' = [u \in Units |-> \/ Stopped(units, job.snap)[u]
                                       \/ u = Postgres /\ NeedsDatabase(job.target)]
          /\ job' = [job EXCEPT !.pc = IF AbsenceConflict(job.target) /\ ~job.absence
                                       THEN "rollback" ELSE "apply"]
       \/ /\ Fault /\ units' \in StopFailed(units, job.snap) /\ UNCHANGED journal
          /\ job' = [job EXCEPT !.pc = "abort"]
       \/ /\ Fault /\ NeedsDatabase(job.target) /\ Log("quiesced")
          /\ units' = Stopped(units, job.snap)
          /\ job' = [job EXCEPT !.pc = "rollback"]
    /\ before' = [before EXCEPT !.mark = clock]
    /\ UNCHANGED <<live, saved, store, clock, ops>>

(* The handler of a failure before anything was applied.                   *)
Abort ==
    /\ job.pc = "abort"
    /\ \/ /\ units' = UnitsRestored(units, job.snap, RestoreUnits)
          /\ Log("failed-before-apply") /\ UNCHANGED faults
       \/ /\ Fault /\ units' \in UnitsRestoreFailed(units, job.snap, RestoreUnits)
          /\ Log("manual-recovery-required")
    /\ job' = Idle
    /\ UNCHANGED <<live, saved, store, clock, ops, before>>

(* apply_extracted, for the bundle (apply) and for the rollback (undo).  An*)
(* authority is first set aside, or torn while pg_restore runs, and then   *)
(* replaced: a kill in between leaves it missing or torn.                  *)
ApplyFails ==
    IF job.pc = "apply" THEN job' = [job EXCEPT !.pc = "rollback"] /\ UNCHANGED journal
                        ELSE job' = Idle /\ Log("manual-recovery-required")

(* Bug variant: recorded absence is never restored.                        *)
SetAsideOnly ==
    /\ job.pc \in {"apply", "undo"} /\ job.i <= Len(Registry) /\ job.aside = Absent
    /\ job' = IF job.target[Registry[job.i]].status = "captured"
              THEN [job EXCEPT !.aside = 1] ELSE [job EXCEPT !.i = @ + 1]
    /\ UNCHANGED <<live, units, saved, store, journal, clock, ops, faults, before>>

SetAside ==
    /\ job.pc \in {"apply", "undo"} /\ job.i <= Len(Registry) /\ job.aside = Absent
    /\ LET a == Registry[job.i]
           e == job.target[a] IN
       \/ /\ e.status # "captured" /\ UNCHANGED <<faults, journal>>
          /\ live' = IF e.status = "absent" /\ job.absence
                     THEN [live EXCEPT ![a] = Absent] ELSE live
          /\ job' = [job EXCEPT !.i = @ + 1]
       \/ /\ e.status = "captured" /\ UNCHANGED <<faults, journal>>
          /\ IF live[a] = Absent
             THEN live' = [live EXCEPT ![a] = e.content] /\ job' = [job EXCEPT !.i = @ + 1]
             ELSE /\ live' = [live EXCEPT ![a] = IF a \in Databases THEN Torn ELSE Absent]
                  /\ job' = [job EXCEPT !.aside = live[a]]
       \/ Fault /\ ApplyFails /\ UNCHANGED live
    /\ UNCHANGED <<units, saved, store, clock, ops, before>>

(* Bug variant: a payload that cannot be moved in is skipped.              *)
MoveInOrSkip ==
    /\ job.pc \in {"apply", "undo"} /\ job.aside # Absent
    /\ LET a == Registry[job.i] IN
       \/ live' = [live EXCEPT ![a] = job.target[a].content] /\ UNCHANGED faults
       \/ Fault /\ live' = [live EXCEPT ![a] = IF a \in Databases THEN Torn ELSE job.aside]
    /\ job' = [job EXCEPT !.i = @ + 1, !.aside = Absent]
    /\ UNCHANGED <<units, saved, store, journal, clock, ops, before>>

MoveIn ==
    /\ job.pc \in {"apply", "undo"} /\ job.aside # Absent
    /\ LET a == Registry[job.i] IN
       \/ /\ live' = [live EXCEPT ![a] = job.target[a].content]
          /\ job' = [job EXCEPT !.i = @ + 1, !.aside = Absent]
          /\ UNCHANGED <<faults, journal>>
       \/ /\ Fault /\ ApplyFails
          /\ live' = [live EXCEPT ![a] = IF a \in Databases THEN Torn ELSE job.aside]
    /\ UNCHANGED <<units, saved, store, clock, ops, before>>

StateApplied ==
    /\ job.pc = "apply" /\ job.i > Len(Registry)
    /\ Log("state-applied") /\ job' = [job EXCEPT !.pc = "verify"]
    /\ UNCHANGED <<live, units, saved, store, clock, ops, faults, before>>

(* verify_restored_state compares every captured authority.                *)
Verify ==
    /\ job.pc = "verify"
    /\ job' = [job EXCEPT !.pc =
                  IF \A a \in Authorities : job.target[a].status = "captured"
                                             => Matches(a, job.target[a])
                  THEN "reapply" ELSE "rollback"]
    /\ UNCHANGED <<live, units, saved, store, journal, clock, ops, faults, before>>

Commit ==
    /\ job.pc = "reapply"
    /\ \/ /\ units' = UnitsRestored(units, job.snap, RestoreUnits)
          /\ Log("committed") /\ store' = Prune(store)
          /\ job' = Idle /\ UNCHANGED faults
       \/ /\ Fault /\ units' \in UnitsRestoreFailed(units, job.snap, RestoreUnits)
          /\ job' = [job EXCEPT !.pc = "rollback"] /\ UNCHANGED <<journal, store>>
    /\ UNCHANGED <<live, saved, clock, ops, before>>

RollingBack ==
    /\ job.pc = "rollback"
    /\ Log("rolling-back")
    /\ job' = [job EXCEPT !.pc = "requiesce", !.aside = Absent]
    /\ UNCHANGED <<live, units, saved, store, clock, ops, faults, before>>

(* The units that run now are stopped again, and the rollback bundle is    *)
(* extracted from its file; the stop or the extraction may fail.           *)
Requiesce ==
    /\ job.pc = "requiesce"
    /\ \/ /\ \E r \in store : r.id = ops /\
                job' = [job EXCEPT !.pc = "undo", !.i = 1, !.absence = TRUE,
                                   !.target = r.entries]
          /\ units' = [u \in Units |->
                          \/ Stopped(units, Active(units, RestoreUnits))[u]
                          \/ u = Postgres /\ NeedsDatabase(job'.target)]
          /\ UNCHANGED <<journal, faults>>
       \/ /\ Fault /\ units' \in StopFailed(units, Active(units, RestoreUnits))
          /\ Log("manual-recovery-required") /\ job' = Idle
    /\ before' = [before EXCEPT !.mark = clock]
    /\ UNCHANGED <<live, saved, store, clock, ops>>

RolledBack ==
    /\ job.pc = "undo" /\ job.i > Len(Registry)
    /\ \/ /\ units' = UnitsRestored(units, job.snap, RestoreUnits)
          /\ Log("failed-rolled-back") /\ UNCHANGED faults
       \/ /\ Fault /\ units' \in UnitsRestoreFailed(units, job.snap, RestoreUnits)
          /\ Log("manual-recovery-required")
    /\ job' = Idle
    /\ UNCHANGED <<live, saved, store, clock, ops, before>>

(* A kill or a power loss.                                                 *)
Kill ==
    /\ job.pc # "idle" /\ Fault
    /\ job' = Idle
    /\ UNCHANGED <<live, units, saved, store, journal, clock, ops, before>>

Next ==
    \/ \E a \in Authorities : ServiceWrites(a) \/ ServiceRemoves(a)
    \/ \E u \in Units : UnitStarts(u)
    \/ BundlesAge \/ PruneCommand
    \/ \E sensitive \in BOOLEAN : ExportBegins(sensitive)
    \/ CopyAuthority \/ PublishExport \/ ExportEnds
    \/ \E absence \in BOOLEAN : RestoreBegins(absence)
    \/ \E archive \in Archives, ours, partial, sensitive \in BOOLEAN :
            CheckBundle(archive, ours, partial, sensitive)
    \/ CheckDrift \/ KeepRollback \/ Preflight \/ Quiesce \/ Abort
    \/ SetAside \/ MoveIn \/ StateApplied \/ Verify \/ Commit
    \/ RollingBack \/ Requiesce \/ RolledBack \/ Kill

Spec == Init /\ [][Next]_vars
-----------------------------------------------------------------------------
Live     == Contents \cup {Absent, Torn}
Bundles  == [Authorities -> Entries]
Stored   == [id : 0..MaxOps, entries : Bundles, old : BOOLEAN]
Journals == [status : JournalStatuses, rollback : 0..MaxOps]
Jobs     == [pc : Steps, op : {"none", "export", "restore"},
             i : 1..(Len(Registry) + 1), bundle : Bundles, target : Bundles,
             snap : [Units -> BOOLEAN], sensitive : BOOLEAN, absence : BOOLEAN, aside : Live]
Restores == [live : [Authorities -> Live], units : [Units -> BOOLEAN],
             clock : 1..(MaxWrites + 1), mark : 1..(MaxWrites + 1), target : Bundles,
             id : 0..MaxOps]

(* Type invariant of the authorities, the units, the bundles and the job.  *)
TypeOK ==
    /\ live \in [Authorities -> Live]
    /\ units \in [Units -> BOOLEAN]
    /\ saved \in [entries : Bundles, ok : BOOLEAN]
    /\ store \subseteq Stored
    /\ journal \in Journals
    /\ job \in Jobs
    /\ clock \in 1..(MaxWrites + 1) /\ ops \in 0..MaxOps /\ faults \in 0..MaxFaults
    /\ before \in Restores

(* The last operation was a restore, and it ended with one of these.       *)
Ended(statuses) == job.pc = "idle" /\ before.id = ops /\ journal.status \in statuses

Removed(a) == a \in Optional /\ live[a] = Absent

(* An export that stops the owners of its authorities is a snapshot of one *)
(* moment: when the bundle is published, what it holds of them is what is  *)
(* live (export_bundle copies only after stop_active_units).               *)
ExportConsistent ==
    job.pc = "copy" /\ job.op = "export" => \A k \in 1..(job.i - 1) :
        LET a == Registry[k] IN
        job.bundle[a].status = "captured" /\ Owner[a] \in ToSet(QuiesceUnits)
            => job.bundle[a].content = live[a]

(* After a committed restore nas-state diff shows no drift but what the    *)
(* services wrote since the restore stopped them, and the units run again. *)
CommittedHolds ==
    Ended({"committed"})
    => /\ \A a \in Authorities :
            DiffRow(before.target, a) = "drift" => live[a] > before.mark \/ Removed(a)
       /\ \A u \in ToSet(RestoreUnits) : before.units[u] => units[u]

(* A restore that reports failure before the apply, or that there was      *)
(* nothing to do, has changed nothing: the authorities hold what they held *)
(* or what their services wrote or removed since.                          *)
NothingTouched ==
    Ended({"failed", "skipped-unchanged", "failed-before-apply"})
    => \A a \in Authorities :
            live[a] = before.live[a] \/ live[a] > before.clock \/ Removed(a)

(* A restore reported as rolled back has put back everything its rollback  *)
(* bundle holds.                                                           *)
RolledBackHolds ==
    Ended({"failed-rolled-back"})
    => \A r \in store : r.id = journal.rollback =>
            \A a \in Authorities :
                LET e == r.entries[a] IN
                e.status \in {"captured", "absent"}
                => live[a] = e.content \/ live[a] > before.mark \/ Removed(a)

(* A restore that did not commit leaves no trace, whichever step failed:   *)
(* not in the authorities, and not in the units it stopped, which run      *)
(* again.                                                                  *)
FailedRestoreUndone ==
    /\ NothingTouched
    /\ RolledBackHolds
    /\ Ended({"failed", "skipped-unchanged", "failed-before-apply", "failed-rolled-back"})
       => \A u \in ToSet(RestoreUnits) : before.units[u] => units[u]

(* While a restore may still need its rollback bundle, no pruning, its own *)
(* or a concurrent prune-rollbacks, removes it.                            *)
RollbackKept ==
    job.pc \in {"preflight", "quiesce", "apply", "verify", "reapply", "rollback", "requiesce"}
    => \E r \in store : r.id = ops /\ ~r.old
=============================================================================
