------------------------- MODULE StateRestoreProofs -------------------------
(***************************************************************************)
(* Export and restore of the state authorities keep their promises for any *)
(* registry, any set of units and any number of operations, writes and     *)
(* faults.                                                                 *)
(*                                                                         *)
(* None of the four properties is inductive.  A claim about an ended       *)
(* restore needs to know, step by step, what its job has done so far:      *)
(* before the apply only the services change an authority (Untouched); the *)
(* authorities that the apply or the undo is past hold their entry, or     *)
(* something newer (Applied); the snapshot of the units is of the moment   *)
(* the restore began (Snapped); and the rollback bundle of the running     *)
(* restore is the newest of all, which is why no pruning takes it (Kept).  *)
(*                                                                         *)
(* An export or a restore runs under the appliance lock, which is why      *)
(* StateRestore has one job at a time; the second part of the module is    *)
(* about that lock, for any set of processes and classes and any bounds.   *)
(* MetadataTruthful rests on Locked: whoever stands between flock and      *)
(* LOCK_UN is the holder, so nobody else can write the file.  OneOperation *)
(* further needs Family: while nobody was killed, a nested worker has a    *)
(* live parent with its token that waits for it, and the parents are       *)
(* acyclic.  Following the parents from any nested worker then ends at a   *)
(* running owner with the worker's token, and there is only one owner.     *)
(***************************************************************************)
EXTENDS StateRestore, OperationLock, FiniteSetTheorems, WellFoundedInduction, TLAPS

\* Points of a restore before anything was applied.
Early == {"check", "drift", "preflight", "quiesce", "abort"}

\* Points of a restore that has its rollback bundle.
Covered == {"preflight", "quiesce", "apply", "verify", "reapply", "rollback", "requiesce"}

\* The program points, the kind of operation and the restore that is recorded agree.
Order ==
    /\ job.pc = "idle" <=> job.op = "none"
    /\ job.pc = "export-done" => job.op = "export"
    /\ job.pc \notin {"idle", "copy", "export-done"} => job.op = "restore"
    /\ job.op = "restore" =>
         /\ before.id = ops
         /\ job.pc # "undo" => job.target = before.target
         /\ journal.status \in {"preparing", "rollback-captured", "quiesced", "state-applied",
                                "rolling-back"}
    /\ job.pc \notin {"apply", "undo", "rollback"} => job.aside = Absent
    /\ job.pc \in {"apply", "undo"} /\ job.aside # Absent =>
         job.i <= Len(Registry) /\ job.target[Registry[job.i]].status = "captured"
    /\ job.pc = "quiesce" => job.i = 1
    /\ job.op = "export" => before.id < ops
    /\ before.id <= ops /\ before.clock <= clock /\ before.mark <= clock

\* The rollback bundles: the newest is the running restore's.
Kept ==
    /\ \A r \in store : r.id <= ops
    /\ \A r, q \in store : r.id = q.id => r.entries = q.entries
    /\ job.op = "restore" /\ job.pc \in {"check", "drift", "copy"} =>
         \A r \in store : r.id < ops
    /\ job.pc \in (Covered \ {"preflight"}) \cup {"undo"} => journal.rollback = ops
    /\ job.pc = "undo" => job.absence /\ \A r \in store : r.id = ops => r.entries = job.target
    /\ RollbackKept

\* An entry that is absent records no content.
AbsentEmpty(b) == \A a \in Authorities : b[a].status = "absent" => b[a].content = Absent

Captures ==
    /\ AbsentEmpty(job.bundle)
    /\ \A r \in store : AbsentEmpty(r.entries)
    /\ job.pc = "undo" => AbsentEmpty(job.target)

Quiet ==
    job.pc = "copy" /\ job.op = "export" =>
        \A u \in ToSet(QuiesceUnits) \ {Postgres} : ~units[u]

\* Before the apply nothing but the services changes an authority.
Untouched ==
    job.op = "restore" /\ job.pc \in Early \cup {"copy"} => \A a \in Authorities :
        live[a] = before.live[a] \/ live[a] > before.clock \/ Removed(a)

\* The snapshot of the units is of the moment the restore began.
Snapped ==
    job.op = "restore" =>
        /\ job.pc \in {"check", "drift"} => units = before.units
        /\ job.pc # "check" => \A u \in ToSet(RestoreUnits) : before.units[u] => job.snap[u]

\* An authority holds what an entry says, or what its service made of it since
\* the units were last stopped.
Holds(a, e) == live[a] = e.content \/ live[a] > before.mark \/ Removed(a)
Gone(a) == live[a] = Absent \/ live[a] > before.mark

Applied ==
    /\ job.pc = "apply" /\ ~job.absence => \A a \in Authorities :
         job.target[a].status = "absent" => Gone(a)
    /\ job.pc = "apply" => \A k \in 1..(job.i - 1) :
         job.target[Registry[k]].status = "absent" => Gone(Registry[k])
    /\ job.pc \in {"verify", "reapply"} => \A a \in Authorities :
         job.target[a].status = "absent" => Gone(a)
    /\ job.pc = "reapply" => \A a \in Authorities :
         job.target[a].status = "captured" => Holds(a, job.target[a])
    /\ job.pc = "undo" => \A k \in 1..(job.i - 1) :
         job.target[Registry[k]].status \in {"captured", "absent"}
         => Holds(Registry[k], job.target[Registry[k]])

IInv == /\ TypeOK /\ Order /\ Kept /\ Captures /\ Quiet /\ ExportConsistent
        /\ Untouched /\ Snapped /\ Applied /\ CommittedHolds /\ FailedRestoreUndone

-----------------------------------------------------------------------------
(* Types. *)

LEMMA EntryTypes ==
    /\ NoBundle \in Bundles
    /\ Live \subseteq Int /\ Absent \in Live /\ Torn \in Live /\ 1 \in Live
    /\ Len(Registry) \in Nat
BY StateAssumption
DEF NoBundle, Bundles, Entries, NoEntry, Statuses, Live, Contents, Absent, Torn

LEMMA IdleTyped ==
    /\ Idle \in Jobs
    /\ Idle.pc = "idle" /\ Idle.op = "none" /\ Idle.i = 1 /\ Idle.bundle = NoBundle
    /\ Idle.target = NoBundle /\ Idle.aside = Absent
BY EntryTypes DEF Idle, Jobs, Steps

LEMMA CaptureTyped ==
    ASSUME TypeOK, NEW a \in Authorities, NEW s \in BOOLEAN
    PROVE  CaptureEntry(a, s) \in Entries
BY DEF TypeOK, CaptureEntry, Entries, NoEntry, Statuses, Live, Contents, Absent

LEMMA UnitsTyped ==
    ASSUME NEW u \in [Units -> BOOLEAN], NEW snap \in [Units -> BOOLEAN], NEW seq \in Seq(Units)
    PROVE  /\ Active(u, seq) \in [Units -> BOOLEAN]
           /\ Stopped(u, snap) \in [Units -> BOOLEAN]
           /\ StopFailed(u, snap) \subseteq [Units -> BOOLEAN]
           /\ UnitsRestored(u, snap, seq) \in [Units -> BOOLEAN]
           /\ UnitsRestoreFailed(u, snap, seq) \subseteq [Units -> BOOLEAN]
BY DEF Active, Stopped, StopFailed, UnitsRestored, UnitsRestoreFailed

LEMMA RegistryTyped ==
    ASSUME NEW i \in Nat \ {0}, i <= Len(Registry)
    PROVE  Registry[i] \in Authorities
BY StateAssumption

\* What a write of the journal leaves.
LEMMA LogStep ==
    ASSUME TypeOK, NEW status \in JournalStatuses, Log(status)
    PROVE  /\ journal' \in Journals
           /\ journal'.status = status /\ journal'.rollback = journal.rollback
BY DEF TypeOK, Journals, Log

\* What a step leaves that only changes the program point.
LEMMA MoveStep ==
    ASSUME TypeOK, NEW step \in Steps, job' = [job EXCEPT !.pc = step]
    PROVE  /\ job' \in Jobs
           /\ job'.pc = step /\ job'.op = job.op /\ job'.i = job.i /\ job'.bundle = job.bundle
           /\ job'.target = job.target /\ job'.snap = job.snap /\ job'.absence = job.absence
           /\ job'.sensitive = job.sensitive /\ job'.aside = job.aside
BY DEF TypeOK, Jobs

LEMMA TypeInit == Init => TypeOK
<1> SUFFICES ASSUME Init PROVE TypeOK
  OBVIOUS
<1>1. /\ live \in [Authorities -> Live] /\ units \in [Units -> BOOLEAN]
  BY EntryTypes DEF Init
<1>2. saved \in [entries : Bundles, ok : BOOLEAN] /\ store \subseteq Stored
  BY EntryTypes DEF Init
<1>3. journal \in Journals
  BY StateAssumption DEF Init, Journals, JournalStatuses
<1>4. before \in Restores
  BY <1>1, EntryTypes, StateAssumption DEF Init, Restores
<1> QED
  BY <1>1, <1>2, <1>3, <1>4, IdleTyped, StateAssumption DEF Init, TypeOK

LEMMA TypeStep == TypeOK /\ Order /\ [Next]_vars => TypeOK'
<1> SUFFICES ASSUME TypeOK, Order, [Next]_vars PROVE TypeOK'
  OBVIOUS
<1> USE DEF TypeOK
<1>j. job.i \in Nat \ {0} /\ job.snap \in [Units -> BOOLEAN] /\ job.bundle \in Bundles
      /\ job.sensitive \in BOOLEAN /\ job.target \in Bundles
  BY EntryTypes DEF Jobs
<1>n. 1 \in 1..(Len(Registry) + 1)
  BY EntryTypes
<1>1. CASE UNCHANGED vars
  BY <1>1 DEF vars
<1>2. ASSUME NEW a \in Authorities, ServiceWrites(a) \/ ServiceRemoves(a) PROVE TypeOK'
  <2>1. clock' \in 1..(MaxWrites + 1) /\ live' \in [Authorities -> Live]
    <3>1. CASE ServiceWrites(a)
      BY <3>1, StateAssumption DEF ServiceWrites, Live, Contents
    <3>2. CASE ServiceRemoves(a)
      BY <3>2, StateAssumption, EntryTypes DEF ServiceRemoves
    <3> QED
      BY <1>2, <3>1, <3>2
  <2> QED
    BY <1>2, <2>1 DEF ServiceWrites, ServiceRemoves
<1>3. ASSUME NEW u \in Units, UnitStarts(u) PROVE TypeOK'
  <2>1. before' \in Restores
    BY <1>3 DEF UnitStarts, Restores
  <2> QED
    BY <1>3, <2>1 DEF UnitStarts
<1>4. CASE BundlesAge \/ PruneCommand
  <2>1. \A r \in Stored : [r EXCEPT !.old = TRUE] \in Stored
    BY DEF Stored
  <2> QED
    BY <1>4, <2>1 DEF BundlesAge, PruneCommand, Prune
<1>5. ASSUME NEW x \in BOOLEAN, ExportBegins(x) PROVE TypeOK'
  <2>1. Active(units, QuiesceUnits) \in [Units -> BOOLEAN] /\ Postgres \in Units
    BY UnitsTyped, StateAssumption DEF Units
  <2>2. units' \in [Units -> BOOLEAN]
    <3>1. units' \in {Stopped(units, Active(units, QuiesceUnits)),
                      [Stopped(units, Active(units, QuiesceUnits)) EXCEPT ![Postgres] = TRUE]}
                     \cup StopFailed(units, Active(units, QuiesceUnits))
      BY <1>5, Zenon DEF ExportBegins
    <3>2. /\ Stopped(units, Active(units, QuiesceUnits)) \in [Units -> BOOLEAN]
          /\ StopFailed(units, Active(units, QuiesceUnits)) \subseteq [Units -> BOOLEAN]
      BY <2>1, UnitsTyped, StateAssumption
    <3> QED
      BY <3>1, <3>2, <2>1
  <2>3. job' \in Jobs
    BY <1>5, <2>1, IdleTyped, ZenonT(40) DEF ExportBegins, Steps, Jobs
  <2>4. UNCHANGED <<live, saved, store, journal, clock, before>>
        /\ ops' \in 0..MaxOps /\ faults' \in 0..MaxFaults
    BY <1>5, StateAssumption DEF ExportBegins, Fault
  <2> QED
    BY <2>2, <2>3, <2>4
<1>6. CASE CopyAuthority
  <2>1. Registry[job.i] \in Authorities /\ job.i + 1 \in 1..(Len(Registry) + 1)
    <3>1. job.i <= Len(Registry)
      BY <1>6 DEF CopyAuthority
    <3> QED
      BY <3>1, <1>j, RegistryTyped, EntryTypes
  <2>2. CaptureEntry(Registry[job.i], job.sensitive) \in Entries
    BY <1>j, <2>1, CaptureTyped
  <2>3. ASSUME job' = [job EXCEPT !.i = @ + 1,
                       !.bundle[Registry[job.i]] = CaptureEntry(Registry[job.i], job.sensitive)]
        PROVE  job' \in Jobs
    BY <2>1, <2>2, <2>3 DEF Jobs, Bundles
  <2>4. ASSUME CopyFails PROVE job' \in Jobs
    BY <2>4 DEF CopyFails, Jobs, Steps
  <2> QED
    <3>1. job' \in Jobs
      BY <1>6, <2>3, <2>4, Zenon DEF CopyAuthority
    <3>2. UNCHANGED <<live, units, saved, store, journal, clock, ops, before>>
          /\ faults' \in 0..MaxFaults
      BY <1>6, StateAssumption DEF CopyAuthority, Fault
    <3> QED
      BY <3>1, <3>2
<1>7. CASE PublishExport
  <2>1. job' \in Jobs
    BY <1>7 DEF PublishExport, Jobs, Steps
  <2> QED
    BY <1>7, <2>1, <1>j DEF PublishExport
<1>8. CASE ExportEnds
  <2>1. /\ UnitsRestored(units, job.snap, QuiesceUnits) \in [Units -> BOOLEAN]
        /\ UnitsRestoreFailed(units, job.snap, QuiesceUnits) \subseteq [Units -> BOOLEAN]
    BY <1>j, UnitsTyped, StateAssumption
  <2> QED
    BY <1>8, <2>1, IdleTyped, StateAssumption DEF ExportEnds, Fault
<1>9. ASSUME NEW x \in BOOLEAN, RestoreBegins(x) PROVE TypeOK'
  <2>1. saved.entries \in Bundles /\ ops' \in 0..MaxOps
    BY <1>9, StateAssumption DEF RestoreBegins
  <2>2. job' \in Jobs
    BY <1>9, <2>1, IdleTyped DEF RestoreBegins, Jobs, Steps
  <2>3. before' \in Restores
    BY <1>9, <2>1 DEF RestoreBegins, Restores
  <2>4. journal' \in Journals
    BY <1>9, StateAssumption DEF RestoreBegins, Journals, JournalStatuses
  <2> QED
    BY <1>9, <2>1, <2>2, <2>3, <2>4 DEF RestoreBegins
<1>10. ASSUME NEW archive, NEW ours, NEW partial, NEW sensitive,
              CheckBundle(archive, ours, partial, sensitive)
       PROVE  TypeOK'
  <2>1. Active(units, RestoreUnits) \in [Units -> BOOLEAN]
    BY UnitsTyped, StateAssumption
  <2>2. job' \in Jobs
    BY <1>10, <2>1, IdleTyped, ZenonT(40) DEF CheckBundle, Jobs, Steps
  <2>3. journal' \in Journals /\ store' \subseteq Stored
    BY <1>10 DEF CheckBundle, Log, Journals, JournalStatuses, Prune
  <2> QED
    BY <1>10, <2>2, <2>3 DEF CheckBundle
<1>11. CASE CheckDrift
  <2>1. job' \in Jobs
    BY <1>11, IdleTyped, SMTT(30) DEF CheckDrift, Jobs, Steps
  <2>2. journal' \in Journals /\ faults' \in 0..MaxFaults
    BY <1>11, StateAssumption DEF CheckDrift, Log, Journals, JournalStatuses, Fault
  <2> QED
    BY <1>11, <2>1, <2>2 DEF CheckDrift
<1>12. CASE KeepRollback
  <2>1. store' \subseteq Stored
    <3>1. store' = store \cup {[id |-> ops, entries |-> job.bundle, old |-> FALSE]}
      BY <1>12 DEF KeepRollback
    <3>2. [id |-> ops, entries |-> job.bundle, old |-> FALSE] \in Stored
      BY <1>j DEF Stored
    <3> QED
      BY <3>1, <3>2
  <2>2. job' \in Jobs
    BY <1>12 DEF KeepRollback, Jobs, Steps
  <2> QED
    BY <1>12, <2>1, <2>2 DEF KeepRollback
<1>13. CASE Preflight
  <2>1. job' \in Jobs
    <3> DEFINE p == IF AbsenceConflict(job.target) /\ ~job.absence THEN "abort" ELSE "quiesce"
    <3>1. p \in Steps
      BY DEF Steps
    <3>2. job' = [job EXCEPT !.i = 1, !.pc = p]
      BY <1>13 DEF Preflight
    <3> HIDE DEF p
    <3> QED
      BY <3>1, <3>2, <1>n DEF Jobs
  <2>2. journal' \in Journals
    BY <1>13 DEF Preflight, Journals, JournalStatuses
  <2> QED
    BY <1>13, <2>1, <2>2 DEF Preflight
<1>14. CASE Quiesce
  <2>1. Stopped(units, job.snap) \in [Units -> BOOLEAN] /\ StopFailed(units, job.snap) \subseteq [Units -> BOOLEAN]
    BY <1>j, UnitsTyped, StateAssumption
  <2>2. units' \in [Units -> BOOLEAN]
    BY <1>14, <2>1 DEF Quiesce
  <2>3. job' \in Jobs
    <3>1. PICK p \in {"rollback", "apply", "abort"} : job' = [job EXCEPT !.pc = p]
      BY <1>14, Zenon DEF Quiesce
    <3> QED
      BY <3>1 DEF Jobs, Steps
  <2>4. journal' \in Journals /\ faults' \in 0..MaxFaults
    <3>1. "quiesced" \in JournalStatuses
      BY DEF JournalStatuses
    <3>2. faults' \in 0..MaxFaults
      BY <1>14, StateAssumption DEF Quiesce, Fault
    <3>3. Log("quiesced") \/ UNCHANGED journal
      BY <1>14, Zenon DEF Quiesce
    <3> QED
      BY <3>1, <3>2, <3>3, LogStep
  <2>5. before' \in Restores
    BY <1>14 DEF Quiesce, Restores
  <2> QED
    BY <1>14, <2>2, <2>3, <2>4, <2>5 DEF Quiesce
<1>15. CASE Abort \/ RolledBack
  <2>1. /\ UnitsRestored(units, job.snap, RestoreUnits) \in [Units -> BOOLEAN]
        /\ UnitsRestoreFailed(units, job.snap, RestoreUnits) \subseteq [Units -> BOOLEAN]
    BY <1>j, UnitsTyped, StateAssumption
  <2>2. journal' \in Journals /\ faults' \in 0..MaxFaults
    <3>1. {"failed-before-apply", "failed-rolled-back", "manual-recovery-required"}
            \subseteq JournalStatuses
      BY DEF JournalStatuses
    <3>2. faults' \in 0..MaxFaults
      BY <1>15, StateAssumption DEF Abort, RolledBack, Fault
    <3>3. Log("failed-before-apply") \/ Log("failed-rolled-back") \/ Log("manual-recovery-required")
      BY <1>15, Zenon DEF Abort, RolledBack
    <3> QED
      BY <3>1, <3>2, <3>3, LogStep
  <2>3. UNCHANGED <<live, saved, store, clock, ops, before>> /\ job' = Idle
        /\ units' \in {UnitsRestored(units, job.snap, RestoreUnits)}
                      \cup UnitsRestoreFailed(units, job.snap, RestoreUnits)
    BY <1>15 DEF Abort, RolledBack
  <2> QED
    BY <2>1, <2>2, <2>3, IdleTyped
<1>16. ASSUME Fault, ApplyFails
       PROVE  job' \in Jobs /\ journal' \in Journals /\ faults' \in 0..MaxFaults
  <2>1. "rollback" \in Steps /\ "manual-recovery-required" \in JournalStatuses
    BY DEF Steps, JournalStatuses
  <2>2. faults' \in 0..MaxFaults
    BY <1>16, StateAssumption DEF Fault
  <2>3. CASE job.pc = "apply"
    BY <1>16, <2>1, <2>2, <2>3, MoveStep DEF ApplyFails
  <2>4. CASE job.pc # "apply"
    BY <1>16, <2>1, <2>2, <2>4, LogStep, IdleTyped DEF ApplyFails
  <2> QED
    BY <2>3, <2>4
<1>17. CASE SetAside
  <2> DEFINE a == Registry[job.i]
  <2>1. a \in Authorities /\ job.i + 1 \in 1..(Len(Registry) + 1)
    <3>1. job.i <= Len(Registry)
      BY <1>17 DEF SetAside
    <3> QED
      BY <3>1, <1>j, RegistryTyped, EntryTypes
  <2>2. job.target[a].content \in Live
    BY <1>j, <2>1 DEF Bundles, Entries, Live
  <2>3. live' \in [Authorities -> Live]
    BY <1>17, <2>1, <2>2, EntryTypes DEF SetAside
  <2>4. ASSUME job' = [job EXCEPT !.i = @ + 1] PROVE job' \in Jobs
    BY <2>1, <2>4 DEF Jobs
  <2>5. ASSUME job' = [job EXCEPT !.aside = live[a]] PROVE job' \in Jobs
    BY <2>1, <2>5 DEF Jobs
  <2>6. job' \in Jobs /\ journal' \in Journals /\ faults' \in 0..MaxFaults
    BY <1>17, <1>16, <2>4, <2>5 DEF SetAside
  <2> QED
    BY <1>17, <2>3, <2>6 DEF SetAside
<1>18. CASE MoveIn
  <2> DEFINE a == Registry[job.i]
  <2>1. job.i <= Len(Registry)
    BY <1>18, Zenon DEF MoveIn, Order
  <2>2. a \in Authorities /\ job.i + 1 \in 1..(Len(Registry) + 1)
    BY <2>1, <1>j, RegistryTyped, EntryTypes
  <2>3. job.target[a].content \in Live /\ job.aside \in Live
    BY <1>j, <2>2 DEF Bundles, Entries, Live, Jobs
  <2>4. live' \in [Authorities -> Live]
    BY <1>18, <2>2, <2>3, EntryTypes DEF MoveIn
  <2>5. ASSUME job' = [job EXCEPT !.i = @ + 1, !.aside = Absent] PROVE job' \in Jobs
    BY <2>2, <2>5, EntryTypes DEF Jobs
  <2>6. job' \in Jobs /\ journal' \in Journals /\ faults' \in 0..MaxFaults
    BY <1>18, <1>16, <2>5 DEF MoveIn
  <2> QED
    BY <1>18, <2>4, <2>6 DEF MoveIn
<1>19. CASE StateApplied
  <2>1. "verify" \in Steps /\ "state-applied" \in JournalStatuses
    BY DEF Steps, JournalStatuses
  <2> QED
    BY <1>19, <2>1, MoveStep, LogStep DEF StateApplied
<1>20. CASE Verify
  <2> DEFINE p == IF \A a \in Authorities : job.target[a].status = "captured"
                                              => Matches(a, job.target[a])
                  THEN "reapply" ELSE "rollback"
  <2>1. p \in Steps
    BY DEF Steps
  <2>2. job' = [job EXCEPT !.pc = p]
    BY <1>20 DEF Verify
  <2> HIDE DEF p
  <2>3. job' \in Jobs
    BY <2>1, <2>2, MoveStep
  <2> QED
    BY <1>20, <2>3 DEF Verify
<1>21. CASE Commit
  <2>1. /\ UnitsRestored(units, job.snap, RestoreUnits) \in [Units -> BOOLEAN]
        /\ UnitsRestoreFailed(units, job.snap, RestoreUnits) \subseteq [Units -> BOOLEAN]
    BY <1>j, UnitsTyped, StateAssumption
  <2>2. "rollback" \in Steps /\ "committed" \in JournalStatuses /\ Prune(store) \subseteq Stored
    BY DEF Steps, JournalStatuses, Prune
  <2>3. CASE Log("committed") /\ job' = Idle /\ store' = Prune(store) /\ UNCHANGED faults
             /\ units' = UnitsRestored(units, job.snap, RestoreUnits)
    BY <1>21, <2>1, <2>2, <2>3, LogStep, IdleTyped DEF Commit
  <2>4. CASE Fault /\ units' \in UnitsRestoreFailed(units, job.snap, RestoreUnits)
             /\ job' = [job EXCEPT !.pc = "rollback"] /\ UNCHANGED <<journal, store>>
    <3>1. job' \in Jobs
      BY <2>2, <2>4, MoveStep
    <3>2. faults' \in 0..MaxFaults
      BY <2>4, StateAssumption DEF Fault
    <3> QED
      BY <1>21, <2>1, <2>4, <3>1, <3>2 DEF Commit
  <2> QED
    BY <1>21, <2>3, <2>4, Zenon DEF Commit
<1>22. CASE RollingBack
  <2>1. "requiesce" \in Steps /\ "rolling-back" \in JournalStatuses
    BY DEF Steps, JournalStatuses
  <2>2. job' \in Jobs
    BY <1>22, <2>1, EntryTypes DEF RollingBack, Jobs
  <2> QED
    BY <1>22, <2>1, <2>2, LogStep DEF RollingBack
<1>23. CASE Requiesce
  <2>1. Active(units, RestoreUnits) \in [Units -> BOOLEAN] /\ "undo" \in Steps
    BY UnitsTyped, StateAssumption DEF Steps
  <2>2. /\ Stopped(units, Active(units, RestoreUnits)) \in [Units -> BOOLEAN]
        /\ StopFailed(units, Active(units, RestoreUnits)) \subseteq [Units -> BOOLEAN]
    BY <2>1, UnitsTyped, StateAssumption
  <2>3. units' \in [Units -> BOOLEAN]
    BY <1>23, <2>2 DEF Requiesce
  <2>4. ASSUME NEW r \in store, job' = [job EXCEPT !.pc = "undo", !.i = 1, !.absence = TRUE,
                                                   !.target = r.entries]
        PROVE  job' \in Jobs
    <3>1. r.entries \in Bundles
      BY DEF Stored
    <3> QED
      BY <2>1, <2>4, <3>1, <1>n DEF Jobs
  <2>5. job' \in Jobs
    BY <1>23, <2>4, IdleTyped DEF Requiesce
  <2>6. "manual-recovery-required" \in JournalStatuses
    BY DEF JournalStatuses
  <2>7. journal' \in Journals /\ faults' \in 0..MaxFaults
    <3>1. Log("manual-recovery-required") \/ UNCHANGED journal
      BY <1>23, Zenon DEF Requiesce
    <3>2. faults' \in 0..MaxFaults
      <4>1. Fault \/ UNCHANGED faults
        BY <1>23, Zenon DEF Requiesce
      <4> QED
        BY <4>1, StateAssumption DEF Fault
    <3> QED
      BY <2>6, <3>1, <3>2, LogStep
  <2>8. before' \in Restores
    BY <1>23 DEF Requiesce, Restores
  <2> QED
    BY <1>23, <2>3, <2>5, <2>7, <2>8 DEF Requiesce
<1>24. CASE Kill
  BY <1>24, IdleTyped, StateAssumption DEF Kill, Fault
<1> QED
  BY <1>1, <1>2, <1>3, <1>4, <1>5, <1>6, <1>7, <1>8, <1>9, <1>10, <1>11, <1>12, <1>13, <1>14,
     <1>15, <1>17, <1>18, <1>19, <1>20, <1>21, <1>22, <1>23, <1>24 DEF Next

-----------------------------------------------------------------------------
(* What every step leaves alone. *)

LEMMA Numbers ==
    ASSUME TypeOK
    PROVE  /\ clock \in Int /\ ops \in Int /\ before.id \in Int /\ before.clock \in Int
           /\ before.mark \in Int /\ job.i \in Nat \ {0}
           /\ \A a \in Authorities : live[a] \in Int
<1>1. MaxWrites \in Int /\ MaxOps \in Int /\ Len(Registry) \in Int
  BY StateAssumption, EntryTypes
<1>2. clock \in Int /\ ops \in Int
  BY <1>1 DEF TypeOK
<1>3. before.id \in Int /\ before.clock \in Int /\ before.mark \in Int
  BY <1>1 DEF TypeOK, Restores
<1>4. job.i \in Nat \ {0}
  BY <1>1 DEF TypeOK, Jobs
<1>5. \A a \in Authorities : live[a] \in Int
  BY EntryTypes DEF TypeOK
<1> QED
  BY <1>2, <1>3, <1>4, <1>5

\* The authorities an export or an apply is past.
LEMMA Passed ==
    ASSUME TypeOK, NEW k \in 1..(job.i - 1)
    PROVE  Registry[k] \in Authorities /\ k \in 1..Len(Registry)
<1>1. job.i \in Nat /\ job.i <= Len(Registry) + 1
  BY EntryTypes DEF TypeOK, Jobs
<1> QED
  BY <1>1, RegistryTyped, EntryTypes

\* Nothing is claimed of a restore that has not ended, or is not the last operation.
LEMMA NotEnded ==
    ASSUME job'.pc # "idle" \/ before'.id # ops' \/
           journal'.status \notin {"committed", "failed", "skipped-unchanged",
                                   "failed-before-apply", "failed-rolled-back"}
    PROVE  CommittedHolds' /\ FailedRestoreUndone'
<1>1. /\ ~Ended({"committed"})'
      /\ ~Ended({"failed", "skipped-unchanged", "failed-before-apply"})'
      /\ ~Ended({"failed-rolled-back"})'
      /\ ~Ended({"failed", "skipped-unchanged", "failed-before-apply", "failed-rolled-back"})'
  BY DEF Ended
<1> QED
  BY <1>1, Zenon DEF CommittedHolds, FailedRestoreUndone, NothingTouched, RolledBackHolds

\* A job that ends claims nothing but what its journal says.
LEMMA JobEnds ==
    ASSUME IInv, job' = Idle, UNCHANGED clock, ops' \in {ops, ops + 1}, before'.id = before.id,
           before'.clock = before.clock, before'.mark <= clock,
           store' \subseteq store
    PROVE  /\ Order' /\ Kept' /\ Captures' /\ Quiet' /\ ExportConsistent'
           /\ Untouched' /\ Snapped' /\ Applied'
<1>1. job'.pc = "idle" /\ job'.op = "none" /\ job'.aside = Absent /\ job'.bundle = NoBundle
  BY IdleTyped
<1>2. AbsentEmpty(NoBundle)
  BY DEF AbsentEmpty, NoBundle, NoEntry
<1>3. Order'
  BY <1>1, Numbers DEF IInv, Order
<1>4. Kept'
  BY <1>1, Numbers DEF IInv, Kept, RollbackKept, Covered, TypeOK, Stored
<1>5. Captures'
  BY <1>1, <1>2 DEF IInv, Captures, AbsentEmpty
<1> QED
  BY <1>1, <1>3, <1>4, <1>5 DEF Quiet, ExportConsistent, Untouched, Snapped, Applied

LEMMA PruneKeeps ==
    ASSUME IInv
    PROVE  /\ Prune(store) \subseteq store
           /\ job.pc \in Covered => \E r \in Prune(store) : r.id = ops /\ ~r.old
<1>1. Prune(store) \subseteq store
  BY DEF Prune
<1>2. ASSUME job.pc \in Covered PROVE \E r \in Prune(store) : r.id = ops /\ ~r.old
  <2>1. PICK r \in store : r.id = ops /\ ~r.old
    BY <1>2 DEF IInv, Kept, RollbackKept, Covered
  <2>2. Newer(store, r) = {}
    <3>1. \A q \in store : q.id \in Int /\ q.id <= ops
      BY DEF IInv, Kept, TypeOK, Stored
    <3> QED
      BY <2>1, <3>1, Numbers DEF Newer, IInv
  <2>3. Cardinality(Newer(store, r)) = 0
    BY <2>2, FS_EmptySet
  <2> QED
    BY <2>1, <2>3, StateAssumption DEF Prune
<1> QED
  BY <1>1, <1>2

\* The services write or remove what they own, and nothing else changes.
LEMMA ServiceStep ==
    ASSUME IInv, NEW a \in Authorities, ServiceWrites(a) \/ ServiceRemoves(a)
    PROVE  /\ \A b \in Authorities :
                live'[b] = live[b] \/ live'[b] > clock \/ (b \in Optional /\ live'[b] = Absent)
           /\ \A b \in Authorities : live'[b] # live[b] => units[Owner[b]]
           /\ clock' = clock + 1 /\ clock \in Int
           /\ UNCHANGED <<units, saved, store, journal, job, ops, before>>
BY Numbers DEF IInv, TypeOK, ServiceWrites, ServiceRemoves

LEMMA ServiceKeeps ==
    ASSUME IInv, NEW a \in Authorities, ServiceWrites(a) \/ ServiceRemoves(a)
    PROVE  /\ Order' /\ Kept' /\ Captures' /\ Quiet' /\ ExportConsistent'
           /\ Untouched' /\ Snapped' /\ Applied' /\ CommittedHolds' /\ FailedRestoreUndone'
<1> USE DEF IInv
<1>1. /\ \A b \in Authorities :
           live'[b] = live[b] \/ live'[b] > clock \/ (b \in Optional /\ live'[b] = Absent)
      /\ \A b \in Authorities : live'[b] # live[b] => units[Owner[b]]
      /\ clock' = clock + 1
      /\ UNCHANGED <<units, saved, store, journal, job, ops, before>>
  BY ServiceStep
<1>2. \A b \in Authorities : live[b] \in Int /\ (live'[b] = live[b] \/ live'[b] \in Int)
  <2>1. \A b \in Authorities : live[b] \in Int
    BY Numbers
  <2>2. live' \in [Authorities -> Live]
    BY TypeStep DEF TypeOK, Next
  <2> QED
    BY <2>1, <2>2, EntryTypes
<1>3. before.mark \in Int /\ before.clock \in Int /\ clock \in Int
      /\ before.mark <= clock /\ before.clock <= clock
  BY Numbers DEF Order
<1>4. \A b \in Authorities : live'[b] = live[b]
         \/ (live'[b] > before.mark /\ live'[b] > before.clock) \/ Removed(b)'
  BY <1>1, <1>2, <1>3 DEF Removed
<1>5. Order'
  BY <1>1, <1>3, Numbers DEF Order
<1>6. Kept' /\ Captures' /\ Quiet' /\ Snapped'
  BY <1>1 DEF Kept, RollbackKept, Captures, AbsentEmpty, Quiet, Snapped
<1>7. ExportConsistent'
  <2> SUFFICES ASSUME job.pc = "copy", job.op = "export", NEW k \in 1..(job.i - 1),
                      job.bundle[Registry[k]].status = "captured",
                      Owner[Registry[k]] \in ToSet(QuiesceUnits)
               PROVE  job.bundle[Registry[k]].content = live'[Registry[k]]
    BY <1>1 DEF ExportConsistent
  <2>1. job.bundle[Registry[k]].content = live[Registry[k]]
    BY DEF ExportConsistent
  <2>2. Registry[k] \in Authorities
    BY Numbers, EntryTypes, StateAssumption DEF TypeOK, Jobs
  <2>3. ~units[Owner[Registry[k]]]
    BY <2>2, StateAssumption DEF Quiet
  <2> QED
    BY <1>1, <2>1, <2>2, <2>3
<1>8. Untouched'
  BY <1>1, <1>4 DEF Untouched, Removed
<1>9. \A b \in Authorities : \A e : (Holds(b, e) => Holds(b, e)') /\ (Gone(b) => Gone(b)')
  BY <1>1, <1>4 DEF Holds, Gone, Removed
<1>10. Applied'
  <2>1. \A k \in 1..(job.i - 1) : Registry[k] \in Authorities
    BY Passed
  <2>2. job.target' = job.target
    BY <1>1
  <2> QED
    BY <1>1, <1>9, <2>1, <2>2 DEF Applied
<1>11. \A b \in Authorities : live'[b] = live[b] =>
          DiffRow(before.target, b)' = DiffRow(before.target, b)
  BY <1>1 DEF DiffRow, Matches
<1>12. CommittedHolds'
  <2>1. Ended({"committed"})' = Ended({"committed"})
    BY <1>1 DEF Ended
  <2> QED
    BY <1>1, <1>4, <1>11, <2>1 DEF CommittedHolds, Removed
<1>13. FailedRestoreUndone'
  <2>1. NothingTouched'
    BY <1>1, <1>4 DEF FailedRestoreUndone, NothingTouched, Ended, Removed
  <2>2. RolledBackHolds'
    BY <1>1, <1>4 DEF FailedRestoreUndone, RolledBackHolds, Ended, Removed
  <2> QED
    BY <1>1, <2>1, <2>2 DEF FailedRestoreUndone, Ended
<1> QED
  BY <1>5, <1>6, <1>7, <1>8, <1>10, <1>12, <1>13

-----------------------------------------------------------------------------
(* The invariant is inductive. *)

LEMMA InvInit == Init => IInv
<1> SUFFICES ASSUME Init PROVE IInv
  OBVIOUS
<1>1. TypeOK
  BY TypeInit
<1>2. /\ job = Idle /\ store = {} /\ journal.status = "none" /\ ops = 0 /\ clock = 1
      /\ before.id = 0 /\ before.clock = 1 /\ before.mark = 1
  BY DEF Init
<1>3. job.pc = "idle" /\ job.op = "none" /\ job.bundle = NoBundle /\ job.aside = Absent
  BY <1>2, IdleTyped
<1>4. Order
  BY <1>2, <1>3 DEF Order
<1>5. Kept /\ Captures
  BY <1>2, <1>3 DEF Kept, RollbackKept, Covered, Captures, AbsentEmpty, NoBundle, NoEntry
<1>6. Quiet /\ ExportConsistent /\ Untouched /\ Snapped /\ Applied
  BY <1>3 DEF Quiet, ExportConsistent, Untouched, Snapped, Applied
<1>7. CommittedHolds /\ FailedRestoreUndone
  BY <1>2 DEF CommittedHolds, FailedRestoreUndone, NothingTouched, RolledBackHolds, Ended
<1> QED
  BY <1>1, <1>4, <1>5, <1>6, <1>7 DEF IInv

\* The operator, systemd and prune-rollbacks.
LEMMA OutsideKeeps ==
    ASSUME IInv, UNCHANGED vars \/ (\E u \in Units : UnitStarts(u)) \/ BundlesAge \/ PruneCommand
    PROVE  /\ Order' /\ Kept' /\ Captures' /\ Quiet' /\ ExportConsistent'
           /\ Untouched' /\ Snapped' /\ Applied' /\ CommittedHolds' /\ FailedRestoreUndone'
<1> USE DEF IInv
<1>1. CASE UNCHANGED vars
  <2>1. UNCHANGED <<live, units, saved, store, journal, job, clock, ops, faults, before>>
    BY <1>1 DEF vars
  <2>2. UNCHANGED Order /\ UNCHANGED Kept /\ UNCHANGED Captures /\ UNCHANGED Quiet
    BY <2>1 DEF Order, Kept, RollbackKept, Captures, AbsentEmpty, Quiet
  <2>3. UNCHANGED ExportConsistent /\ UNCHANGED Untouched /\ UNCHANGED Snapped /\ UNCHANGED Applied
    BY <2>1 DEF ExportConsistent, Untouched, Removed, Snapped, Applied, Holds, Gone
  <2>4. UNCHANGED CommittedHolds /\ UNCHANGED FailedRestoreUndone
    BY <2>1 DEF CommittedHolds, FailedRestoreUndone, NothingTouched, RolledBackHolds, Ended,
                DiffRow, Matches, Removed
  <2> QED
    BY <2>2, <2>3, <2>4
<1>2. ASSUME NEW u \in Units, UnitStarts(u)
      PROVE  /\ Order' /\ Kept' /\ Captures' /\ Quiet' /\ ExportConsistent'
             /\ Untouched' /\ Snapped' /\ Applied' /\ CommittedHolds' /\ FailedRestoreUndone'
  <2>1. /\ job.pc = "idle" /\ UNCHANGED <<live, saved, store, journal, job, clock, ops>>
        /\ units' = [units EXCEPT ![u] = TRUE]
    BY <1>2 DEF UnitStarts
  <2>2. /\ before'.id = before.id /\ before'.clock = before.clock /\ before'.mark = before.mark
        /\ before'.live = before.live /\ before'.target = before.target
        /\ before'.units = [before.units EXCEPT ![u] = TRUE] /\ before.units \in [Units -> BOOLEAN]
    BY <1>2 DEF UnitStarts, TypeOK, Restores
  <2>3. \A x \in ToSet(RestoreUnits) : (before.units[x] => units[x]) => (before'.units[x] => units'[x])
    BY <2>1, <2>2 DEF TypeOK, Units
  <2>4. job.op = "none"
    BY <2>1 DEF Order
  <2>5. Order'
    BY <2>1, <2>2 DEF Order
  <2>6. Kept' /\ Captures' /\ Quiet'
    BY <2>1 DEF Kept, RollbackKept, Captures, AbsentEmpty, Quiet
  <2>7. ExportConsistent' /\ Untouched' /\ Snapped' /\ Applied'
    BY <2>1, <2>4 DEF ExportConsistent, Untouched, Snapped, Applied
  <2>8. CommittedHolds'
    BY <2>1, <2>2, <2>3 DEF CommittedHolds, Ended, DiffRow, Matches, Removed
  <2>9. FailedRestoreUndone'
    BY <2>1, <2>2, <2>3 DEF FailedRestoreUndone, NothingTouched, RolledBackHolds, Ended, Removed
  <2> QED
    BY <2>5, <2>6, <2>7, <2>8, <2>9
<1>3. CASE BundlesAge
  <2>1. /\ job.pc = "idle" /\ UNCHANGED <<live, units, saved, journal, job, clock, ops, before>>
        /\ store' = {[r EXCEPT !.old = TRUE] : r \in store}
    BY <1>3 DEF BundlesAge
  <2>2. \A r \in store' : \E q \in store : r.id = q.id /\ r.entries = q.entries
    BY <2>1 DEF TypeOK, Stored
  <2>3. job.op = "none"
    BY <2>1 DEF Order
  <2>4. Order' /\ Quiet'
    BY <2>1 DEF Order, Quiet
  <2>5. Kept'
    BY <2>1, <2>2, <2>3 DEF Kept, RollbackKept, Covered
  <2>6. Captures'
    BY <2>1, <2>2 DEF Captures, AbsentEmpty
  <2>7. ExportConsistent' /\ Untouched' /\ Snapped' /\ Applied'
    BY <2>1, <2>3 DEF ExportConsistent, Untouched, Snapped, Applied
  <2>8. CommittedHolds'
    BY <2>1 DEF CommittedHolds, Ended, DiffRow, Matches, Removed
  <2>9. NothingTouched' /\ RolledBackHolds'
    BY <2>1, <2>2 DEF FailedRestoreUndone, NothingTouched, RolledBackHolds, Ended, Removed
  <2> QED
    BY <2>1, <2>4, <2>5, <2>6, <2>7, <2>8, <2>9 DEF FailedRestoreUndone, Ended
<1>4. CASE PruneCommand
  <2>1. /\ UNCHANGED <<live, units, saved, journal, job, clock, ops, before>>
        /\ store' = Prune(store)
    BY <1>4 DEF PruneCommand
  <2>2. Prune(store) \subseteq store /\ (job.pc \in Covered => \E r \in Prune(store) : r.id = ops /\ ~r.old)
    BY PruneKeeps
  <2>3. Order' /\ Quiet'
    BY <2>1 DEF Order, Quiet
  <2>4. Kept'
    BY <2>1, <2>2 DEF Kept, RollbackKept, Covered
  <2>5. Captures'
    BY <2>1, <2>2 DEF Captures, AbsentEmpty
  <2>6. ExportConsistent' /\ Untouched' /\ Snapped' /\ Applied'
    BY <2>1 DEF ExportConsistent, Untouched, Removed, Snapped, Applied, Holds, Gone
  <2>7. CommittedHolds'
    BY <2>1 DEF CommittedHolds, Ended, DiffRow, Matches, Removed
  <2>8. NothingTouched' /\ RolledBackHolds'
    BY <2>1, <2>2 DEF FailedRestoreUndone, NothingTouched, RolledBackHolds, Ended, Removed
  <2> QED
    BY <2>1, <2>3, <2>4, <2>5, <2>6, <2>7, <2>8 DEF FailedRestoreUndone, Ended
<1> QED
  BY <1>1, <1>2, <1>3, <1>4

\* export_bundle.
LEMMA ExportKeeps ==
    ASSUME IInv, (\E x \in BOOLEAN : ExportBegins(x)) \/ CopyAuthority \/ PublishExport \/ ExportEnds
    PROVE  /\ Order' /\ Kept' /\ Captures' /\ Quiet' /\ ExportConsistent'
           /\ Untouched' /\ Snapped' /\ Applied' /\ CommittedHolds' /\ FailedRestoreUndone'
<1> USE DEF IInv
<1>n. AbsentEmpty(NoBundle)
  BY DEF AbsentEmpty, NoBundle, NoEntry
<1>1. ASSUME NEW x \in BOOLEAN, ExportBegins(x)
      PROVE  /\ Order' /\ Kept' /\ Captures' /\ Quiet' /\ ExportConsistent'
             /\ Untouched' /\ Snapped' /\ Applied' /\ CommittedHolds' /\ FailedRestoreUndone'
  <2>1. job.pc = "idle" /\ ops' = ops + 1 /\ UNCHANGED <<live, saved, store, journal, clock, before>>
    BY <1>1 DEF ExportBegins
  <2>2. before'.id # ops'
    BY <2>1, Numbers DEF Order
  <2>3. CommittedHolds' /\ FailedRestoreUndone'
    BY <2>2, NotEnded
  <2>4. CASE job' = Idle
    BY <2>1, <2>3, <2>4, JobEnds, Numbers DEF Order
  <2>5. CASE job' # Idle
    <3> DEFINE snap == Active(units, QuiesceUnits)
    <3>1. PICK p \in {"export-done", "copy"} :
             job' = [Idle EXCEPT !.pc = p, !.op = "export", !.snap = snap, !.sensitive = x]
      BY <1>1, <2>5 DEF ExportBegins
    <3>2. job'.pc = p /\ job'.op = "export" /\ job'.bundle = NoBundle /\ job'.aside = Absent
          /\ job'.i = 1
      BY <3>1, IdleTyped DEF Jobs
    <3>3. \A u \in Units \ {Postgres} : units'[u] = Stopped(units, snap)[u]
      BY <1>1, <2>5 DEF ExportBegins, Stopped
    <3>4. \A u \in ToSet(QuiesceUnits) \ {Postgres} : ~units'[u]
      BY <3>3 DEF Stopped, Active, Units
    <3>5. Order'
      BY <2>1, <3>2, Numbers DEF Order
    <3>6. Kept'
      BY <2>1, <3>2, Numbers DEF Kept, RollbackKept, Covered, TypeOK, Stored
    <3>7. Captures'
      BY <2>1, <3>2, <1>n DEF Captures, AbsentEmpty
    <3>8. Quiet' /\ ExportConsistent' /\ Untouched' /\ Snapped' /\ Applied'
      BY <3>2, <3>4 DEF Quiet, ExportConsistent, Untouched, Snapped, Applied
    <3> QED
      BY <2>3, <3>5, <3>6, <3>7, <3>8
  <2> QED
    BY <2>4, <2>5
<1>2. CASE CopyAuthority
  <2> DEFINE a == Registry[job.i]
             e == CaptureEntry(a, job.sensitive)
  <2>1. /\ job.pc = "copy" /\ job.i <= Len(Registry)
        /\ UNCHANGED <<live, units, saved, store, journal, clock, ops, before>>
    BY <1>2 DEF CopyAuthority
  <2>2. a \in Authorities /\ job.op \in {"export", "restore"}
    BY <2>1, Numbers, RegistryTyped DEF TypeOK, Jobs, Order
  <2>3. CASE CopyFails
    <3>1. PICK p \in {"export-done", "abort"} :
             job' = [job EXCEPT !.pc = p] /\ p = (IF job.op = "export" THEN "export-done" ELSE "abort")
      BY <2>3 DEF CopyFails
    <3>2. /\ job'.pc = p /\ job'.op = job.op /\ job'.bundle = job.bundle /\ job'.target = job.target
          /\ job'.aside = job.aside /\ job'.snap = job.snap
      BY <3>1, MoveStep DEF Steps
    <3>3. CommittedHolds' /\ FailedRestoreUndone'
      BY <3>2, NotEnded
    <3>4. Order'
      BY <2>1, <2>2, <3>1, <3>2 DEF Order
    <3>5. Kept'
      BY <2>1, <3>2 DEF Kept, RollbackKept, Covered
    <3>6. Captures' /\ Quiet' /\ ExportConsistent' /\ Applied'
      BY <2>1, <3>2 DEF Captures, AbsentEmpty, Quiet, ExportConsistent, Applied
    <3>7. Untouched'
      BY <2>1, <3>2 DEF Untouched, Early, Removed
    <3>8. Snapped'
      BY <2>1, <3>2 DEF Snapped
    <3> QED
      BY <3>3, <3>4, <3>5, <3>6, <3>7, <3>8
  <2>4. CASE job' = [job EXCEPT !.i = @ + 1, !.bundle[a] = e]
    <3>1. /\ job'.pc = "copy" /\ job'.op = job.op /\ job'.target = job.target /\ job'.i = job.i + 1
          /\ job'.aside = job.aside /\ job'.snap = job.snap /\ job'.absence = job.absence
          /\ job'.bundle = [job.bundle EXCEPT ![a] = e] /\ job.bundle \in Bundles
      BY <2>1, <2>4 DEF TypeOK, Jobs
    <3>2. CommittedHolds' /\ FailedRestoreUndone'
      BY <3>1, NotEnded
    <3>3. Order'
      BY <2>1, <3>1 DEF Order
    <3>4. Kept'
      BY <2>1, <3>1 DEF Kept, RollbackKept, Covered
    <3>5. /\ e.status = "absent" => e.content = Absent
          /\ e.status = "captured" => e.content = live[a]
      BY DEF CaptureEntry, NoEntry
    <3>6. Captures'
      BY <2>1, <2>2, <3>1, <3>5 DEF Captures, AbsentEmpty, Bundles
    <3>7. Quiet' /\ Applied' /\ Snapped'
      BY <2>1, <3>1 DEF Quiet, Applied, Snapped
    <3>8. Untouched'
      BY <2>1, <3>1 DEF Untouched, Early, Removed
    <3>9. ExportConsistent'
      <4>0. job'.i - 1 = job.i
        BY <3>1, Numbers
      <4> SUFFICES ASSUME job.op = "export", NEW k \in 1..job.i,
                          job'.bundle[Registry[k]].status = "captured",
                          Owner[Registry[k]] \in ToSet(QuiesceUnits)
                   PROVE  job'.bundle[Registry[k]].content = live[Registry[k]]
        BY <2>1, <3>1, <4>0 DEF ExportConsistent
      <4>1. CASE Registry[k] = a
        BY <4>1, <3>1, <3>5, <2>2 DEF Bundles
      <4>2. CASE Registry[k] # a
        <5>1. k \in 1..(job.i - 1)
          BY <4>2, Numbers
        <5> QED
          BY <4>2, <5>1, <3>1, <2>1, <2>2 DEF Bundles, ExportConsistent
      <4> QED
        BY <4>1, <4>2
    <3> QED
      BY <3>2, <3>3, <3>4, <3>6, <3>7, <3>8, <3>9
  <2> QED
    BY <1>2, <2>3, <2>4, Zenon DEF CopyAuthority
<1>3. CASE PublishExport
  <2>1. /\ job.pc = "copy" /\ job.op = "export" /\ job' = [job EXCEPT !.pc = "export-done"]
        /\ UNCHANGED <<live, units, store, journal, clock, ops, before>>
    BY <1>3 DEF PublishExport
  <2>2. /\ job'.pc = "export-done" /\ job'.op = "export" /\ job'.bundle = job.bundle
        /\ job'.aside = job.aside
    BY <2>1, MoveStep DEF Steps
  <2>3. CommittedHolds' /\ FailedRestoreUndone'
    BY <2>2, NotEnded
  <2>4. Order' /\ Kept'
    BY <2>1, <2>2 DEF Order, Kept, RollbackKept, Covered
  <2>5. Captures' /\ Quiet' /\ ExportConsistent' /\ Applied' /\ Untouched' /\ Snapped'
    BY <2>1, <2>2 DEF Captures, AbsentEmpty, Quiet, ExportConsistent, Applied, Untouched, Snapped
  <2> QED
    BY <2>3, <2>4, <2>5
<1>4. CASE ExportEnds
  <2>1. job.op = "export" /\ job' = Idle /\ UNCHANGED <<store, clock, ops, before>>
    BY <1>4 DEF ExportEnds, Order
  <2>2. CommittedHolds' /\ FailedRestoreUndone'
    BY <2>1, NotEnded, Numbers DEF Order
  <2> QED
    BY <2>1, <2>2, JobEnds DEF Order
<1> QED
  BY <1>1, <1>2, <1>3, <1>4

\* restore_bundle up to the point where the units have stopped.
LEMMA RestoreKeeps ==
    ASSUME IInv,
           \/ \E x \in BOOLEAN : RestoreBegins(x)
           \/ \E archive \in Archives, ours, partial, sensitive \in BOOLEAN :
                 CheckBundle(archive, ours, partial, sensitive)
           \/ CheckDrift \/ KeepRollback \/ Preflight \/ Quiesce
    PROVE  /\ Order' /\ Kept' /\ Captures' /\ Quiet' /\ ExportConsistent'
           /\ Untouched' /\ Snapped' /\ Applied' /\ CommittedHolds' /\ FailedRestoreUndone'
<1> USE DEF IInv
<1>n. AbsentEmpty(NoBundle)
  BY DEF AbsentEmpty, NoBundle, NoEntry
<1>1. ASSUME NEW x \in BOOLEAN, RestoreBegins(x)
      PROVE  /\ Order' /\ Kept' /\ Captures' /\ Quiet' /\ ExportConsistent'
             /\ Untouched' /\ Snapped' /\ Applied' /\ CommittedHolds' /\ FailedRestoreUndone'
  <2>1. /\ job.pc = "idle" /\ ops' = ops + 1 /\ UNCHANGED <<live, units, saved, store, clock>>
        /\ journal'.status = "preparing"
    BY <1>1 DEF RestoreBegins
  <2>2. /\ job'.pc = "check" /\ job'.op = "restore" /\ job'.target = saved.entries
        /\ job'.bundle = NoBundle /\ job'.aside = Absent
    BY <1>1, IdleTyped DEF RestoreBegins, Jobs
  <2>3. /\ before'.id = ops + 1 /\ before'.live = live /\ before'.units = units
        /\ before'.clock = clock /\ before'.mark = clock /\ before'.target = saved.entries
    BY <1>1 DEF RestoreBegins
  <2>4. CommittedHolds' /\ FailedRestoreUndone'
    BY <2>2, NotEnded
  <2>5. Order'
    BY <2>1, <2>2, <2>3, Numbers DEF Order
  <2>6. Kept'
    BY <2>1, <2>2, Numbers DEF Kept, RollbackKept, Covered, TypeOK, Stored
  <2>7. Captures' /\ Quiet' /\ ExportConsistent' /\ Applied'
    BY <2>1, <2>2, <1>n DEF Captures, AbsentEmpty, Quiet, ExportConsistent, Applied
  <2>8. Untouched' /\ Snapped'
    BY <2>1, <2>2, <2>3 DEF Untouched, Snapped
  <2> QED
    BY <2>4, <2>5, <2>6, <2>7, <2>8
<1>2. ASSUME NEW archive, NEW ours, NEW partial, NEW sensitive,
             CheckBundle(archive, ours, partial, sensitive)
      PROVE  /\ Order' /\ Kept' /\ Captures' /\ Quiet' /\ ExportConsistent'
             /\ Untouched' /\ Snapped' /\ Applied' /\ CommittedHolds' /\ FailedRestoreUndone'
  <2>1. /\ job.pc = "check" /\ job.op = "restore"
        /\ UNCHANGED <<live, units, saved, clock, ops, before>>
    BY <1>2 DEF CheckBundle, Order
  <2>2. CASE /\ store' = Prune(store) /\ UNCHANGED journal
             /\ job' = [job EXCEPT !.pc = "drift", !.snap = Active(units, RestoreUnits)]
    <3>1. /\ job'.pc = "drift" /\ job'.op = "restore" /\ job'.bundle = job.bundle
          /\ job'.target = job.target /\ job'.aside = job.aside
          /\ job'.snap = Active(units, RestoreUnits)
      BY <2>1, <2>2 DEF TypeOK, Jobs
    <3>2. CommittedHolds' /\ FailedRestoreUndone'
      BY <3>1, NotEnded
    <3>3. Order'
      BY <2>1, <2>2, <3>1 DEF Order
    <3>4. Prune(store) \subseteq store
      BY PruneKeeps
    <3>5. Kept'
      BY <2>1, <2>2, <3>1, <3>4 DEF Kept, RollbackKept, Covered
    <3>6. Captures' /\ Quiet' /\ ExportConsistent' /\ Applied'
      BY <2>1, <2>2, <3>1, <3>4 DEF Captures, AbsentEmpty, Quiet, ExportConsistent, Applied
    <3>7. Untouched'
      BY <2>1, <3>1 DEF Untouched, Early, Removed
    <3>8. Snapped'
      BY <2>1, <3>1 DEF Snapped, Active, Units
    <3> QED
      BY <3>2, <3>3, <3>5, <3>6, <3>7, <3>8
  <2>3. CASE Log("failed") /\ job' = Idle /\ UNCHANGED store
    <3>1. journal'.status = "failed"
      BY <2>3, LogStep DEF JournalStatuses
    <3>2. job'.pc = "idle"
      BY <2>3, IdleTyped
    <3>3. units = before.units
      BY <2>1 DEF Snapped
    <3>4. CommittedHolds' /\ RolledBackHolds'
      BY <3>1 DEF CommittedHolds, RolledBackHolds, Ended
    <3>5. NothingTouched'
      BY <2>1 DEF NothingTouched, Untouched, Early, Removed
    <3>6. FailedRestoreUndone'
      BY <2>1, <3>3, <3>4, <3>5 DEF FailedRestoreUndone
    <3> QED
      BY <2>1, <2>3, <3>4, <3>6, JobEnds DEF Order
  <2> QED
    BY <1>2, <2>2, <2>3, Zenon DEF CheckBundle
<1>3. CASE CheckDrift
  <2>1. /\ job.pc = "drift" /\ job.op = "restore"
        /\ UNCHANGED <<live, units, saved, store, clock, ops, before>>
    BY <1>3 DEF CheckDrift, Order
  <2>2. CASE job' = [job EXCEPT !.pc = "copy"] /\ UNCHANGED journal
    <3>1. /\ job'.pc = "copy" /\ job'.op = "restore" /\ job'.bundle = job.bundle
          /\ job'.target = job.target /\ job'.aside = job.aside /\ job'.snap = job.snap
      BY <2>1, <2>2, MoveStep DEF Steps
    <3>2. CommittedHolds' /\ FailedRestoreUndone'
      BY <3>1, NotEnded
    <3>3. Order'
      BY <2>1, <2>2, <3>1 DEF Order
    <3>4. Kept'
      BY <2>1, <2>2, <3>1 DEF Kept, RollbackKept, Covered
    <3>5. Captures' /\ Quiet' /\ ExportConsistent' /\ Applied'
      BY <2>1, <2>2, <3>1 DEF Captures, AbsentEmpty, Quiet, ExportConsistent, Applied
    <3>6. Untouched' /\ Snapped'
      BY <2>1, <3>1 DEF Untouched, Early, Removed, Snapped
    <3> QED
      BY <3>2, <3>3, <3>4, <3>5, <3>6
  <2>3. CASE Log("skipped-unchanged") /\ job' = Idle
    <3>1. journal'.status = "skipped-unchanged"
      BY <2>3, LogStep DEF JournalStatuses
    <3>2. units = before.units
      BY <2>1 DEF Snapped
    <3>3. CommittedHolds' /\ RolledBackHolds'
      BY <3>1 DEF CommittedHolds, RolledBackHolds, Ended
    <3>4. NothingTouched'
      BY <2>1 DEF NothingTouched, Untouched, Early, Removed
    <3>5. FailedRestoreUndone'
      BY <2>1, <3>2, <3>3, <3>4 DEF FailedRestoreUndone
    <3> QED
      BY <2>1, <2>3, <3>3, <3>5, JobEnds DEF Order
  <2> QED
    BY <1>3, <2>2, <2>3, Zenon DEF CheckDrift
<1>4. CASE KeepRollback
  <2>1. /\ job.pc = "copy" /\ job.op = "restore" /\ job' = [job EXCEPT !.pc = "preflight"]
        /\ store' = store \cup {[id |-> ops, entries |-> job.bundle, old |-> FALSE]}
        /\ UNCHANGED <<live, units, saved, journal, clock, ops, before>>
    BY <1>4 DEF KeepRollback
  <2>2. /\ job'.pc = "preflight" /\ job'.op = "restore" /\ job'.bundle = job.bundle
        /\ job'.target = job.target /\ job'.aside = job.aside /\ job'.snap = job.snap
    BY <2>1, MoveStep DEF Steps
  <2>3. CommittedHolds' /\ FailedRestoreUndone'
    BY <2>2, NotEnded
  <2>4. Order'
    BY <2>1, <2>2 DEF Order
  <2>5. Kept'
    <3>1. \A r \in store : r.id \in Int /\ r.id < ops
      BY <2>1 DEF Kept, TypeOK, Stored
    <3> QED
      <4>1. \A r \in store' : r \in store \/ (r.id = ops /\ r.entries = job.bundle)
        BY <2>1
      <4>2. \E r \in store' : r.id = ops /\ ~r.old
        <5> DEFINE r == [id |-> ops, entries |-> job.bundle, old |-> FALSE]
        <5>1. r \in store' /\ r.id = ops /\ ~r.old
          BY <2>1
        <5> QED
          BY <5>1
      <4>3. \A r \in store' : r.id <= ops
        BY <3>1, <4>1, Numbers
      <4>4. \A r, q \in store' : r.id = q.id => r.entries = q.entries
        BY <3>1, <4>1, Numbers DEF Kept
      <4> QED
        BY <2>1, <2>2, <4>2, <4>3, <4>4 DEF Kept, RollbackKept, Covered
  <2>6. Captures' /\ Quiet' /\ ExportConsistent' /\ Applied'
    BY <2>1, <2>2 DEF Captures, AbsentEmpty, Quiet, ExportConsistent, Applied
  <2>7. Untouched' /\ Snapped'
    BY <2>1, <2>2 DEF Untouched, Early, Removed, Snapped
  <2> QED
    BY <2>3, <2>4, <2>5, <2>6, <2>7
<1>5. CASE Preflight
  <2> DEFINE p == IF AbsenceConflict(job.target) /\ ~job.absence THEN "abort" ELSE "quiesce"
  <2>1. /\ job.pc = "preflight" /\ job.op = "restore" /\ job' = [job EXCEPT !.i = 1, !.pc = p]
        /\ journal'.status = "rollback-captured" /\ journal'.rollback = ops
        /\ UNCHANGED <<live, units, saved, store, clock, ops, before>>
    BY <1>5 DEF Preflight, Order
  <2>2. p \in {"abort", "quiesce"}
    OBVIOUS
  <2> HIDE DEF p
  <2>3. /\ job'.pc = p /\ job'.op = "restore" /\ job'.bundle = job.bundle /\ job'.i = 1
        /\ job'.target = job.target /\ job'.aside = job.aside /\ job'.snap = job.snap
    BY <2>1 DEF TypeOK, Jobs
  <2>4. CommittedHolds' /\ FailedRestoreUndone'
    BY <2>2, <2>3, NotEnded
  <2>5. Order'
    BY <2>1, <2>2, <2>3 DEF Order
  <2>6. Kept'
    BY <2>1, <2>2, <2>3 DEF Kept, RollbackKept, Covered
  <2>7. Captures' /\ Quiet' /\ ExportConsistent' /\ Applied'
    BY <2>1, <2>2, <2>3 DEF Captures, AbsentEmpty, Quiet, ExportConsistent, Applied
  <2>8. Untouched' /\ Snapped'
    BY <2>1, <2>2, <2>3 DEF Untouched, Early, Removed, Snapped
  <2> QED
    BY <2>4, <2>5, <2>6, <2>7, <2>8
<1>6. CASE Quiesce
  <2>1. /\ job.pc = "quiesce" /\ job.op = "restore" /\ job.i = 1
        /\ UNCHANGED <<live, saved, store, clock, ops>>
    BY <1>6 DEF Quiesce, Order
  <2>2. /\ before'.mark = clock /\ before'.id = before.id /\ before'.clock = before.clock
        /\ before'.live = before.live /\ before'.units = before.units
        /\ before'.target = before.target
    BY <1>6 DEF Quiesce, TypeOK, Restores
  <2>3. /\ journal'.status \in {"quiesced", journal.status} /\ journal'.rollback = journal.rollback
    <3>1. Log("quiesced") \/ UNCHANGED journal
      BY <1>6, Zenon DEF Quiesce
    <3> QED
      BY <3>1, LogStep DEF JournalStatuses
  <2>4. PICK p \in {"rollback", "apply", "abort"} :
           /\ job' = [job EXCEPT !.pc = p]
           /\ p = "apply" => ~AbsenceConflict(job.target) \/ job.absence
    BY <1>6 DEF Quiesce
  <2>5. /\ job'.pc = p /\ job'.op = "restore" /\ job'.bundle = job.bundle /\ job'.i = 1
        /\ job'.target = job.target /\ job'.aside = job.aside /\ job'.snap = job.snap
        /\ job'.absence = job.absence
    BY <2>1, <2>4, MoveStep DEF Steps
  <2>6. CommittedHolds' /\ FailedRestoreUndone'
    BY <2>5, NotEnded
  <2>7. Order'
    BY <2>1, <2>2, <2>3, <2>5, Numbers DEF Order
  <2>8. Kept'
    BY <2>1, <2>3, <2>5 DEF Kept, RollbackKept, Covered
  <2>9. Captures' /\ Quiet' /\ ExportConsistent'
    BY <2>1, <2>5 DEF Captures, AbsentEmpty, Quiet, ExportConsistent
  <2>10. Untouched' /\ Snapped'
    BY <2>1, <2>2, <2>5 DEF Untouched, Early, Removed, Snapped
  <2>11. Applied'
    BY <2>1, <2>4, <2>5 DEF Applied, AbsenceConflict, Gone
  <2> QED
    BY <2>6, <2>7, <2>8, <2>9, <2>10, <2>11
<1> QED
  BY <1>1, <1>2, <1>3, <1>4, <1>5, <1>6

\* The units a restore stopped run again once its snapshot is restored.
LEMMA UnitsBack ==
    ASSUME IInv, job.op = "restore", job.pc # "check", UNCHANGED before,
           units' = UnitsRestored(units, job.snap, RestoreUnits)
    PROVE  \A u \in ToSet(RestoreUnits) : before'.units[u] => units'[u]
BY DEF IInv, Snapped, UnitsRestored, Units

\* The handlers of failures, and a kill.
LEMMA FailureKeeps ==
    ASSUME IInv, Abort \/ RollingBack \/ Requiesce \/ RolledBack \/ Kill
    PROVE  /\ Order' /\ Kept' /\ Captures' /\ Quiet' /\ ExportConsistent'
           /\ Untouched' /\ Snapped' /\ Applied' /\ CommittedHolds' /\ FailedRestoreUndone'
<1> USE DEF IInv
<1>m. ASSUME Log("manual-recovery-required")
      PROVE  CommittedHolds' /\ FailedRestoreUndone'
  BY <1>m, LogStep, NotEnded DEF JournalStatuses
<1>1. CASE Abort
  <2>1. /\ job.pc = "abort" /\ job.op = "restore" /\ job' = Idle
        /\ UNCHANGED <<live, saved, store, clock, ops, before>>
    BY <1>1 DEF Abort, Order
  <2>2. CASE /\ units' = UnitsRestored(units, job.snap, RestoreUnits)
             /\ Log("failed-before-apply")
    <3>1. journal'.status = "failed-before-apply"
      BY <2>2, LogStep DEF JournalStatuses
    <3>2. \A u \in ToSet(RestoreUnits) : before'.units[u] => units'[u]
      BY <2>1, <2>2, UnitsBack
    <3>3. CommittedHolds' /\ RolledBackHolds'
      BY <3>1 DEF CommittedHolds, RolledBackHolds, Ended
    <3>4. NothingTouched'
      BY <2>1 DEF NothingTouched, Untouched, Early, Removed
    <3> QED
      BY <2>1, <3>2, <3>3, <3>4, JobEnds DEF FailedRestoreUndone, Order
  <2> QED
    BY <1>1, <1>m, <2>1, <2>2, JobEnds DEF Abort, Order
<1>2. CASE RollingBack
  <2>1. /\ job.pc = "rollback" /\ job.op = "restore" /\ Log("rolling-back")
        /\ job' = [job EXCEPT !.pc = "requiesce", !.aside = Absent]
        /\ UNCHANGED <<live, units, saved, store, clock, ops, before>>
    BY <1>2 DEF RollingBack, Order
  <2>2. journal'.status = "rolling-back" /\ journal'.rollback = journal.rollback
    BY <2>1, LogStep DEF JournalStatuses
  <2>3. /\ job'.pc = "requiesce" /\ job'.op = "restore" /\ job'.bundle = job.bundle
        /\ job'.target = job.target /\ job'.aside = Absent /\ job'.snap = job.snap
    BY <2>1 DEF TypeOK, Jobs
  <2>4. CommittedHolds' /\ FailedRestoreUndone'
    BY <2>3, NotEnded
  <2>5. Order'
    BY <2>1, <2>2, <2>3 DEF Order
  <2>6. Kept'
    BY <2>1, <2>2, <2>3 DEF Kept, RollbackKept, Covered
  <2>7. Captures' /\ Quiet' /\ ExportConsistent' /\ Applied'
    BY <2>1, <2>3 DEF Captures, AbsentEmpty, Quiet, ExportConsistent, Applied
  <2>8. Untouched' /\ Snapped'
    BY <2>1, <2>3 DEF Untouched, Early, Snapped
  <2> QED
    BY <2>4, <2>5, <2>6, <2>7, <2>8
<1>3. CASE Requiesce
  <2>1. /\ job.pc = "requiesce" /\ job.op = "restore" /\ UNCHANGED <<live, saved, store, clock, ops>>
    BY <1>3 DEF Requiesce, Order
  <2>2. /\ before'.mark = clock /\ before'.id = before.id /\ before'.clock = before.clock
        /\ before'.live = before.live /\ before'.units = before.units
        /\ before'.target = before.target
    BY <1>3 DEF Requiesce, TypeOK, Restores
  <2>3. CASE Log("manual-recovery-required") /\ job' = Idle
    BY <1>m, <2>1, <2>2, <2>3, JobEnds, Numbers
  <2>4. ASSUME NEW r \in store, r.id = ops, UNCHANGED journal,
               job' = [job EXCEPT !.pc = "undo", !.i = 1, !.absence = TRUE, !.target = r.entries]
        PROVE  /\ Order' /\ Kept' /\ Captures' /\ Quiet' /\ ExportConsistent'
               /\ Untouched' /\ Snapped' /\ Applied' /\ CommittedHolds' /\ FailedRestoreUndone'
    <3>1. /\ job'.pc = "undo" /\ job'.op = "restore" /\ job'.bundle = job.bundle /\ job'.i = 1
          /\ job'.target = r.entries /\ job'.aside = job.aside /\ job'.snap = job.snap
          /\ job'.absence = TRUE
      BY <2>1, <2>4 DEF TypeOK, Jobs
    <3>2. CommittedHolds' /\ FailedRestoreUndone'
      BY <3>1, NotEnded
    <3>3. Order'
      BY <2>1, <2>2, <2>4, <3>1, Numbers DEF Order
    <3>4. Kept'
      BY <2>1, <2>4, <3>1 DEF Kept, RollbackKept, Covered
    <3>5. Captures' /\ Quiet' /\ ExportConsistent' /\ Applied'
      BY <2>1, <3>1 DEF Captures, AbsentEmpty, Quiet, ExportConsistent, Applied
    <3>6. Untouched' /\ Snapped'
      BY <2>1, <2>2, <3>1 DEF Untouched, Early, Snapped
    <3> QED
      BY <3>2, <3>3, <3>4, <3>5, <3>6
  <2> QED
    BY <1>3, <2>3, <2>4, Zenon DEF Requiesce
<1>4. CASE RolledBack
  <2>1. /\ job.pc = "undo" /\ job.op = "restore" /\ job.i > Len(Registry) /\ job' = Idle
        /\ UNCHANGED <<live, saved, store, clock, ops, before>>
    BY <1>4 DEF RolledBack, Order
  <2>2. CASE /\ units' = UnitsRestored(units, job.snap, RestoreUnits)
             /\ Log("failed-rolled-back")
    <3>1. journal'.status = "failed-rolled-back" /\ journal'.rollback = ops
      BY <2>1, <2>2, LogStep DEF JournalStatuses, Kept, Covered
    <3>2. \A u \in ToSet(RestoreUnits) : before'.units[u] => units'[u]
      BY <2>1, <2>2, UnitsBack
    <3>3. CommittedHolds' /\ NothingTouched'
      BY <3>1 DEF CommittedHolds, NothingTouched, Ended
    <3>4. ASSUME NEW a \in Authorities, job.target[a].status \in {"captured", "absent"}
          PROVE  Holds(a, job.target[a])
      <4>1. PICK k \in 1..Len(Registry) : Registry[k] = a
        BY StateAssumption DEF Authorities, ToSet
      <4>2. k \in 1..(job.i - 1)
        BY <2>1, <4>1, Numbers, EntryTypes
      <4> QED
        BY <2>1, <3>4, <4>1, <4>2 DEF Applied
    <3>5. RolledBackHolds'
      BY <2>1, <3>1, <3>4 DEF RolledBackHolds, Kept, Holds, Removed
    <3> QED
      BY <2>1, <3>2, <3>3, <3>5, JobEnds DEF FailedRestoreUndone, Order
  <2> QED
    BY <1>4, <1>m, <2>1, <2>2, JobEnds DEF RolledBack, Order
<1>5. CASE Kill
  <2>1. job.pc # "idle" /\ job' = Idle /\ UNCHANGED <<store, journal, clock, ops, before>>
    BY <1>5 DEF Kill
  <2>2. CommittedHolds' /\ FailedRestoreUndone'
    <3>1. job.op \in {"export", "restore"}
      BY <2>1 DEF Order, TypeOK, Jobs
    <3> QED
      BY <2>1, <3>1, NotEnded, Numbers DEF Order
  <2> QED
    BY <2>1, <2>2, JobEnds DEF Order
<1> QED
  BY <1>1, <1>2, <1>3, <1>4, <1>5

\* Every authority has a place in the registry, and one only.
LEMMA Place ==
    ASSUME NEW a \in Authorities
    PROVE  \E k \in 1..Len(Registry) : Registry[k] = a
BY StateAssumption DEF Authorities, ToSet

\* A failing apply goes to the rollback, a failing rollback to the operator.
LEMMA ApplyFailureKeeps ==
    ASSUME IInv, job.pc \in {"apply", "undo"}, ApplyFails,
           UNCHANGED <<units, saved, store, clock, ops, before>>
    PROVE  /\ Order' /\ Kept' /\ Captures' /\ Quiet' /\ ExportConsistent'
           /\ Untouched' /\ Snapped' /\ Applied' /\ CommittedHolds' /\ FailedRestoreUndone'
<1> USE DEF IInv
<1>1. CASE job.pc = "apply"
  <2>1. job.op = "restore" /\ job' = [job EXCEPT !.pc = "rollback"] /\ UNCHANGED journal
    BY <1>1 DEF ApplyFails, Order
  <2>2. /\ job'.pc = "rollback" /\ job'.op = "restore" /\ job'.bundle = job.bundle
        /\ job'.target = job.target /\ job'.snap = job.snap
    BY <2>1, MoveStep DEF Steps
  <2>3. CommittedHolds' /\ FailedRestoreUndone'
    BY <2>2, NotEnded
  <2>4. Order'
    BY <1>1, <2>1, <2>2 DEF Order
  <2>5. Kept'
    BY <1>1, <2>1, <2>2 DEF Kept, RollbackKept, Covered
  <2>6. Captures' /\ Quiet' /\ ExportConsistent' /\ Applied'
    BY <2>2 DEF Captures, AbsentEmpty, Quiet, ExportConsistent, Applied
  <2>7. Untouched' /\ Snapped'
    BY <1>1, <2>1, <2>2 DEF Untouched, Early, Snapped
  <2> QED
    BY <2>3, <2>4, <2>5, <2>6, <2>7
<1>2. CASE job.pc # "apply"
  <2>1. Log("manual-recovery-required") /\ job' = Idle
    BY <1>2 DEF ApplyFails
  <2>2. CommittedHolds' /\ FailedRestoreUndone'
    BY <2>1, LogStep, NotEnded DEF JournalStatuses
  <2> QED
    BY <2>1, <2>2, JobEnds DEF Order
<1> QED
  BY <1>1, <1>2

\* An apply goes on: the program point stays, the authorities before it are kept.
LEMMA ApplyGoesOn ==
    ASSUME IInv, job.pc \in {"apply", "undo"},
           job'.pc = job.pc, job'.op = job.op, job'.bundle = job.bundle,
           job'.target = job.target, job'.snap = job.snap, job'.absence = job.absence,
           job'.aside = Absent \/ (job'.i <= Len(Registry)
                                   /\ job.target[Registry[job'.i]].status = "captured"),
           UNCHANGED <<units, saved, store, journal, clock, ops, before>>
    PROVE  /\ Order' /\ Kept' /\ Captures' /\ Quiet' /\ ExportConsistent'
           /\ Untouched' /\ Snapped' /\ CommittedHolds' /\ FailedRestoreUndone'
<1> USE DEF IInv
<1>1. CommittedHolds' /\ FailedRestoreUndone'
  BY NotEnded
<1>2. Order'
  BY DEF Order
<1>3. Kept'
  BY DEF Kept, RollbackKept, Covered
<1>4. Captures' /\ Quiet' /\ ExportConsistent' /\ Untouched' /\ Snapped'
  BY DEF Captures, AbsentEmpty, Quiet, ExportConsistent, Untouched, Early, Snapped
<1> QED
  BY <1>1, <1>2, <1>3, <1>4

\* One authority is settled, or set aside, and no other is touched.
LEMMA AppliedNext ==
    ASSUME IInv, job.pc \in {"apply", "undo"}, job.i <= Len(Registry),
           job'.pc = job.pc, job'.target = job.target, job'.absence = job.absence,
           \A b \in Authorities : b # Registry[job.i] => live'[b] = live[b],
           UNCHANGED before,
           LET a == Registry[job.i]
               e == job.target[a] IN
           /\ e.status = "absent" => live'[a] = live[a] \/ live'[a] = Absent
           /\ \/ job'.i = job.i
              \/ /\ job'.i = job.i + 1
                 /\ e.status = "absent" => live'[a] = Absent \/ (~job.absence /\ live'[a] = live[a])
                 /\ e.status = "captured" => live'[a] = e.content
    PROVE  Applied'
<1> USE DEF IInv
<1>1. Registry[job.i] \in Authorities /\ job.i \in Nat \ {0}
  BY Numbers, RegistryTyped
<1>2. \A k \in 1..(job.i - 1) : Registry[k] \in Authorities /\ Registry[k] # Registry[job.i]
  BY <1>1, Passed, StateAssumption
<1>3. \A k \in 1..(job'.i - 1) : k \in 1..(job.i - 1) \/ (k = job.i /\ job'.i = job.i + 1)
  BY <1>1
<1>4. CASE job.pc = "apply"
  <2>1. ~job.absence => \A a \in Authorities : job.target[a].status = "absent" => Gone(a)'
    BY <1>4 DEF Applied, Gone
  <2>2. ASSUME NEW k \in 1..(job'.i - 1), job.target[Registry[k]].status = "absent"
        PROVE  Gone(Registry[k])'
    <3>1. CASE k \in 1..(job.i - 1)
      BY <1>2, <1>4, <2>2, <3>1 DEF Applied, Gone
    <3>2. CASE k = job.i /\ job'.i = job.i + 1
      <4>1. live'[Registry[k]] = Absent \/ ~job.absence
        BY <1>1, <2>2, <3>2
      <4> QED
        BY <1>1, <2>1, <2>2, <3>2, <4>1 DEF Gone
    <3> QED
      BY <1>3, <3>1, <3>2
  <2> QED
    BY <1>4, <2>1, <2>2 DEF Applied
<1>5. CASE job.pc = "undo"
  <2>1. ASSUME NEW k \in 1..(job'.i - 1), job.target[Registry[k]].status \in {"captured", "absent"}
        PROVE  Holds(Registry[k], job.target[Registry[k]])'
    <3>1. CASE k \in 1..(job.i - 1)
      BY <1>2, <1>5, <2>1, <3>1 DEF Applied, Holds, Removed
    <3>2. CASE k = job.i /\ job'.i = job.i + 1
      <4>1. job.absence /\ AbsentEmpty(job.target)
        BY <1>5 DEF Kept, Captures
      <4>2. live'[Registry[k]] = job.target[Registry[k]].content
        BY <1>1, <2>1, <3>2, <4>1 DEF AbsentEmpty
      <4> QED
        BY <4>2 DEF Holds
    <3> QED
      BY <1>3, <3>1, <3>2
  <2> QED
    BY <1>5, <2>1 DEF Applied
<1> QED
  BY <1>4, <1>5

\* apply_extracted, the verification and the commit.
LEMMA ApplyKeeps ==
    ASSUME IInv, SetAside \/ MoveIn \/ StateApplied \/ Verify \/ Commit
    PROVE  /\ Order' /\ Kept' /\ Captures' /\ Quiet' /\ ExportConsistent'
           /\ Untouched' /\ Snapped' /\ Applied' /\ CommittedHolds' /\ FailedRestoreUndone'
<1> USE DEF IInv
<1> DEFINE a == Registry[job.i]
           e == job.target[a]
<1>t. live \in [Authorities -> Live] /\ job.i \in Nat \ {0}
  BY Numbers DEF TypeOK
<1>1. CASE SetAside
  <2>1. /\ job.pc \in {"apply", "undo"} /\ job.i <= Len(Registry) /\ job.aside = Absent
        /\ UNCHANGED <<units, saved, store, clock, ops, before>>
    BY <1>1 DEF SetAside
  <2>2. a \in Authorities
    BY <2>1, <1>t, RegistryTyped
  <2>3. CASE /\ e.status # "captured" /\ UNCHANGED journal
             /\ live' = IF e.status = "absent" /\ job.absence
                        THEN [live EXCEPT ![a] = Absent] ELSE live
             /\ job' = [job EXCEPT !.i = @ + 1]
    <3>1. /\ job'.pc = job.pc /\ job'.op = job.op /\ job'.bundle = job.bundle
          /\ job'.target = job.target /\ job'.snap = job.snap /\ job'.absence = job.absence
          /\ job'.aside = Absent /\ job'.i = job.i + 1
      BY <2>1, <2>3 DEF TypeOK, Jobs
    <3>2. \A b \in Authorities : b # a => live'[b] = live[b]
      BY <2>2, <2>3, <1>t
    <3>3. e.status = "absent" => live'[a] = Absent \/ (~job.absence /\ live'[a] = live[a])
      BY <2>2, <2>3, <1>t
    <3> QED
      BY <2>1, <2>3, <3>1, <3>2, <3>3, ApplyGoesOn, AppliedNext
  <2>4. CASE /\ e.status = "captured" /\ UNCHANGED journal
             /\ live' = [live EXCEPT ![a] = e.content] /\ job' = [job EXCEPT !.i = @ + 1]
    <3>1. /\ job'.pc = job.pc /\ job'.op = job.op /\ job'.bundle = job.bundle
          /\ job'.target = job.target /\ job'.snap = job.snap /\ job'.absence = job.absence
          /\ job'.aside = Absent /\ job'.i = job.i + 1
      BY <2>1, <2>4 DEF TypeOK, Jobs
    <3>2. live'[a] = e.content /\ \A b \in Authorities : b # a => live'[b] = live[b]
      BY <2>2, <2>4, <1>t
    <3> QED
      BY <2>1, <2>4, <3>1, <3>2, ApplyGoesOn, AppliedNext
  <2>5. CASE /\ e.status = "captured" /\ UNCHANGED journal
             /\ live' = [live EXCEPT ![a] = IF a \in Databases THEN Torn ELSE Absent]
             /\ job' = [job EXCEPT !.aside = live[a]]
    <3>1. /\ job'.pc = job.pc /\ job'.op = job.op /\ job'.bundle = job.bundle
          /\ job'.target = job.target /\ job'.snap = job.snap /\ job'.absence = job.absence
          /\ job'.i = job.i
      BY <2>1, <2>5 DEF TypeOK, Jobs
    <3>2. \A b \in Authorities : b # a => live'[b] = live[b]
      BY <2>2, <2>5, <1>t
    <3> QED
      BY <2>1, <2>5, <3>1, <3>2, ApplyGoesOn, AppliedNext
  <2>6. CASE ApplyFails
    BY <2>1, <2>6, ApplyFailureKeeps
  <2> QED
    BY <1>1, <2>3, <2>4, <2>5, <2>6, Zenon DEF SetAside
<1>2. CASE MoveIn
  <2>1. /\ job.pc \in {"apply", "undo"} /\ job.aside # Absent
        /\ UNCHANGED <<units, saved, store, clock, ops, before>>
    BY <1>2 DEF MoveIn
  <2>2. job.i <= Len(Registry) /\ e.status = "captured"
    BY <2>1 DEF Order
  <2>3. a \in Authorities
    BY <2>2, <1>t, RegistryTyped
  <2>4. CASE /\ live' = [live EXCEPT ![a] = e.content] /\ UNCHANGED journal
             /\ job' = [job EXCEPT !.i = @ + 1, !.aside = Absent]
    <3>1. /\ job'.pc = job.pc /\ job'.op = job.op /\ job'.bundle = job.bundle
          /\ job'.target = job.target /\ job'.snap = job.snap /\ job'.absence = job.absence
          /\ job'.aside = Absent /\ job'.i = job.i + 1
      BY <2>4 DEF TypeOK, Jobs
    <3>2. live'[a] = e.content /\ \A b \in Authorities : b # a => live'[b] = live[b]
      BY <2>3, <2>4, <1>t
    <3> QED
      BY <2>1, <2>2, <2>4, <3>1, <3>2, ApplyGoesOn, AppliedNext
  <2>5. CASE ApplyFails
    BY <2>1, <2>5, ApplyFailureKeeps
  <2> QED
    BY <1>2, <2>4, <2>5, Zenon DEF MoveIn
<1>3. CASE StateApplied
  <2>1. /\ job.pc = "apply" /\ job.op = "restore" /\ job.i > Len(Registry) /\ Log("state-applied")
        /\ job' = [job EXCEPT !.pc = "verify"]
        /\ UNCHANGED <<live, units, saved, store, clock, ops, before>>
    BY <1>3 DEF StateApplied, Order
  <2>2. /\ job'.pc = "verify" /\ job'.op = "restore" /\ job'.bundle = job.bundle
        /\ job'.target = job.target /\ job'.snap = job.snap /\ job'.aside = job.aside
    BY <2>1, MoveStep DEF Steps
  <2>3. journal'.status = "state-applied" /\ journal'.rollback = journal.rollback
    BY <2>1, LogStep DEF JournalStatuses
  <2>4. job.aside = Absent
    BY <2>1, <1>t, EntryTypes DEF Order
  <2>5. ASSUME NEW b \in Authorities, job.target[b].status = "absent" PROVE Gone(b)
    <3>1. PICK k \in 1..Len(Registry) : Registry[k] = b
      BY Place
    <3>2. k \in 1..(job.i - 1)
      BY <2>1, <1>t, EntryTypes
    <3> QED
      BY <2>1, <2>5, <3>1, <3>2 DEF Applied
  <2>6. CommittedHolds' /\ FailedRestoreUndone'
    BY <2>2, NotEnded
  <2>7. Order'
    BY <2>1, <2>2, <2>3, <2>4 DEF Order
  <2>8. Kept'
    BY <2>1, <2>2, <2>3 DEF Kept, RollbackKept, Covered
  <2>9. Captures' /\ Quiet' /\ ExportConsistent' /\ Untouched' /\ Snapped'
    BY <2>1, <2>2 DEF Captures, AbsentEmpty, Quiet, ExportConsistent, Untouched, Early, Snapped
  <2>10. Applied'
    BY <2>1, <2>2, <2>5 DEF Applied, Gone
  <2> QED
    BY <2>6, <2>7, <2>8, <2>9, <2>10
<1>4. CASE Verify
  <2> DEFINE same == \A b \in Authorities : job.target[b].status = "captured"
                                              => Matches(b, job.target[b])
             p == IF same THEN "reapply" ELSE "rollback"
  <2>1. /\ job.pc = "verify" /\ job.op = "restore" /\ job' = [job EXCEPT !.pc = p]
        /\ UNCHANGED <<live, units, saved, store, journal, clock, ops, before>>
    BY <1>4 DEF Verify, Order
  <2>2. p \in {"reapply", "rollback"} /\ (p = "reapply" => same)
    OBVIOUS
  <2> HIDE DEF p
  <2>3. /\ job'.pc = p /\ job'.op = "restore" /\ job'.bundle = job.bundle
        /\ job'.target = job.target /\ job'.snap = job.snap /\ job'.aside = job.aside
    BY <2>1, <2>2, MoveStep DEF Steps
  <2>4. CommittedHolds' /\ FailedRestoreUndone'
    BY <2>2, <2>3, NotEnded
  <2>5. Order'
    BY <2>1, <2>2, <2>3 DEF Order
  <2>6. Kept'
    BY <2>1, <2>2, <2>3 DEF Kept, RollbackKept, Covered
  <2>7. Captures' /\ Quiet' /\ ExportConsistent' /\ Untouched' /\ Snapped'
    BY <2>1, <2>2, <2>3
    DEF Captures, AbsentEmpty, Quiet, ExportConsistent, Untouched, Early, Snapped
  <2>8. Applied'
    BY <2>1, <2>2, <2>3 DEF Applied, Gone, Holds, Matches
  <2> QED
    BY <2>4, <2>5, <2>6, <2>7, <2>8
<1>5. CASE Commit
  <2>1. /\ job.pc = "reapply" /\ job.op = "restore" /\ UNCHANGED <<live, saved, clock, ops, before>>
    BY <1>5 DEF Commit, Order
  <2>2. CASE /\ units' = UnitsRestored(units, job.snap, RestoreUnits) /\ Log("committed")
             /\ store' = Prune(store) /\ job' = Idle
    <3>1. journal'.status = "committed"
      BY <2>2, LogStep DEF JournalStatuses
    <3>2. \A u \in ToSet(RestoreUnits) : before'.units[u] => units'[u]
      BY <2>1, <2>2, UnitsBack
    <3>3. FailedRestoreUndone'
      BY <3>1 DEF FailedRestoreUndone, NothingTouched, RolledBackHolds, Ended
    <3>4. ASSUME NEW b \in Authorities, DiffRow(before.target, b) = "drift"
          PROVE  live[b] > before.mark \/ Removed(b)
      <4>1. before.target = job.target /\ job.target[b].status \in Statuses
        BY <2>1 DEF Order, TypeOK, Jobs, Bundles, Entries
      <4>2. CASE job.target[b].status = "absent"
        BY <2>1, <3>4, <4>1, <4>2 DEF DiffRow, Applied, Gone
      <4>3. CASE job.target[b].status = "captured"
        BY <2>1, <3>4, <4>1, <4>3 DEF DiffRow, Matches, Applied, Holds
      <4>4. CASE job.target[b].status \notin {"absent", "captured"}
        BY <3>4, <4>1, <4>4 DEF DiffRow, Statuses
      <4> QED
        BY <4>2, <4>3, <4>4
    <3>5. \A b \in Authorities : DiffRow(before.target, b)' = DiffRow(before.target, b)
                                 /\ Removed(b)' = Removed(b)
      BY <2>1 DEF DiffRow, Matches, Removed
    <3>6. CommittedHolds'
      BY <2>1, <3>2, <3>4, <3>5 DEF CommittedHolds
    <3>7. Prune(store) \subseteq store
      BY PruneKeeps
    <3> QED
      BY <2>1, <2>2, <3>3, <3>6, <3>7, JobEnds DEF Order
  <2>3. CASE job' = [job EXCEPT !.pc = "rollback"] /\ UNCHANGED <<journal, store>>
    <3>1. /\ job'.pc = "rollback" /\ job'.op = "restore" /\ job'.bundle = job.bundle
          /\ job'.target = job.target /\ job'.snap = job.snap /\ job'.aside = job.aside
      BY <2>1, <2>3, MoveStep DEF Steps
    <3>2. CommittedHolds' /\ FailedRestoreUndone'
      BY <3>1, NotEnded
    <3>3. Order'
      BY <2>1, <2>3, <3>1 DEF Order
    <3>4. Kept'
      BY <2>1, <2>3, <3>1 DEF Kept, RollbackKept, Covered
    <3>5. Captures' /\ Quiet' /\ ExportConsistent' /\ Untouched' /\ Snapped' /\ Applied'
      BY <2>1, <2>3, <3>1
      DEF Captures, AbsentEmpty, Quiet, ExportConsistent, Untouched, Early, Snapped, Applied
    <3> QED
      BY <3>2, <3>3, <3>4, <3>5
  <2> QED
    BY <1>5, <2>2, <2>3, Zenon DEF Commit
<1> QED
  BY <1>1, <1>2, <1>3, <1>4, <1>5

LEMMA InvStep == IInv /\ [Next]_vars => IInv'
<1> SUFFICES ASSUME IInv, [Next]_vars PROVE IInv'
  OBVIOUS
<1>1. TypeOK'
  BY TypeStep DEF IInv
<1>2. CASE \E a \in Authorities : ServiceWrites(a) \/ ServiceRemoves(a)
  BY <1>1, <1>2, ServiceKeeps, Zenon DEF IInv
<1>3. CASE UNCHANGED vars \/ (\E u \in Units : UnitStarts(u)) \/ BundlesAge \/ PruneCommand
  BY <1>1, <1>3, OutsideKeeps, Zenon DEF IInv
<1>4. CASE (\E x \in BOOLEAN : ExportBegins(x)) \/ CopyAuthority \/ PublishExport \/ ExportEnds
  BY <1>1, <1>4, ExportKeeps, Zenon DEF IInv
<1>5. CASE \/ \E x \in BOOLEAN : RestoreBegins(x)
           \/ \E archive \in Archives, ours, partial, sensitive \in BOOLEAN :
                 CheckBundle(archive, ours, partial, sensitive)
           \/ CheckDrift \/ KeepRollback \/ Preflight \/ Quiesce
  BY <1>1, <1>5, RestoreKeeps, Zenon DEF IInv
<1>6. CASE SetAside \/ MoveIn \/ StateApplied \/ Verify \/ Commit
  BY <1>1, <1>6, ApplyKeeps, Zenon DEF IInv
<1>7. CASE Abort \/ RollingBack \/ Requiesce \/ RolledBack \/ Kill
  BY <1>1, <1>7, FailureKeeps, Zenon DEF IInv
<1> QED
  BY <1>2, <1>3, <1>4, <1>5, <1>6, <1>7, Zenon DEF Next

\* The invariant of exports and restores holds in every behaviour.
THEOREM StateInvariant == Spec => []IInv
BY InvInit, InvStep, PTL DEF Spec

\* Type correctness: among others the position in the registry stays in bounds.
THEOREM StateTyped == Spec => []TypeOK
<1>1. IInv => TypeOK
  BY DEF IInv
<1> QED
  BY <1>1, StateInvariant, PTL

\* While export_bundle copies, what it has copied of the authorities whose owners it
\* stopped is what is live, so the published bundle is of one moment.
THEOREM StateExportConsistent == Spec => []ExportConsistent
<1>1. IInv => ExportConsistent
  BY DEF IInv
<1> QED
  BY <1>1, StateInvariant, PTL

\* A restore journalled as committed shows no drift but what services wrote later,
\* and the units that ran before it run again.
THEOREM StateCommittedHolds == Spec => []CommittedHolds
<1>1. IInv => CommittedHolds
  BY DEF IInv
<1> QED
  BY <1>1, StateInvariant, PTL

\* A restore journalled as failed, skipped or rolled back left no trace in the
\* authorities or the units, whichever step of restore_bundle failed.
THEOREM StateFailedRestoreUndone == Spec => []FailedRestoreUndone
<1>1. IInv => FailedRestoreUndone
  BY DEF IInv
<1> QED
  BY <1>1, StateInvariant, PTL

\* Neither prune_rollbacks of the restore nor a concurrent prune-rollbacks command
\* takes the rollback bundle that a running restore may still need.
THEOREM StateRollbackKept == Spec => []RollbackKept
<1>1. IInv => RollbackKept
  BY DEF IInv, Kept
<1> QED
  BY <1>1, StateInvariant, PTL

-----------------------------------------------------------------------------
(* The appliance lock.                                                     *)

(* Exactly the process between taking and releasing the flock holds it.    *)
Locked == \A p \in Procs : (holder = p) <=> pc[p] \in OwnerPoints \cup {"unprobing"}

(* A nested worker's parent is alive, works on, and shares the token.      *)
Adopted ==
    \A c \in Procs : pc[c] \in NestedPoints =>
        /\ parent[c] \in Procs
        /\ pc[parent[c]] \in {"running", "nested"}
        /\ token[parent[c]] = token[c]

(* Parents come before their children.                                     *)
Acyclic ==
    \E rank \in [Procs -> Nat] :
        \A c \in Procs : pc[c] \in NestedPoints => rank[parent[c]] < rank[c]

Family == crashes = 0 => Adopted /\ Acyclic

LockInv == LockTypeOK /\ Locked /\ MetadataTruthful /\ Family

-----------------------------------------------------------------------------
(* Type correctness of every action of the lock protocol.                  *)
LEMMA LockTypeInit == LockInit => LockTypeOK
BY OperationLockAssumption
DEF LockInit, LockTypeOK, Points, Metadata, NoMeta

LEMMA LockTypeStep == LockTypeOK /\ [LockNext]_lockVars => LockTypeOK'
<1> SUFFICES ASSUME LockTypeOK, [LockNext]_lockVars PROVE LockTypeOK'
  OBVIOUS
<1> USE OperationLockAssumption
    DEF LockTypeOK, Points, OwnerPoints, NestedPoints, Metadata, NoMeta, Go, Forget
<1>1. CASE UNCHANGED lockVars
  BY <1>1 DEF lockVars
<1>2. ASSUME NEW p \in Procs, Request(p) PROVE LockTypeOK'
  BY <1>2 DEF Request, Requests
<1>3. ASSUME NEW p \in Procs, Lock(p) PROVE LockTypeOK'
  BY <1>3 DEF Lock
<1>4. ASSUME NEW p \in Procs, LockBusy(p) \/ ReportBusy(p) PROVE LockTypeOK'
  BY <1>4 DEF LockBusy, ReportBusy
<1>5. ASSUME NEW p \in Procs, Truncate(p) \/ Publish(p) PROVE LockTypeOK'
  BY <1>5 DEF Truncate, Publish
<1>6. ASSUME NEW p \in Procs, PublishFails(p) PROVE LockTypeOK'
  BY <1>6 DEF PublishFails
<1>7. ASSUME NEW p \in Procs, Finish(p) \/ Erase(p) \/ Unlock(p) PROVE LockTypeOK'
  BY <1>7 DEF Finish, Erase, Unlock
<1>8. ASSUME NEW p \in Procs, NEW c \in Procs, Spawn(p, c) PROVE LockTypeOK'
  BY <1>8 DEF Spawn, Requests
<1>9. ASSUME NEW p \in Procs, ProbeFree(p) \/ ProbeHeld(p) \/ ReadAccept(p) PROVE LockTypeOK'
  BY <1>9 DEF ProbeFree, ProbeHeld, ReadAccept
<1>10. ASSUME NEW p \in Procs, ReadRefuse(p) \/ FinishNested(p) PROVE LockTypeOK'
  BY <1>10 DEF ReadRefuse, FinishNested
<1>11. ASSUME NEW p \in Procs, Probe(p) \/ Unprobe(p) PROVE LockTypeOK'
  BY <1>11 DEF Probe, Unprobe
<1>12. ASSUME NEW p \in Procs, Crash(p) PROVE LockTypeOK'
  BY <1>12 DEF Crash
<1> QED
  BY <1>1, <1>2, <1>3, <1>4, <1>5, <1>6, <1>7, <1>8, <1>9, <1>10, <1>11, <1>12
  DEF LockNext, Step

(* Every reachable state of the lock protocol is well typed.               *)
THEOREM LockTyped == LockSpec => []LockTypeOK
BY LockTypeInit, LockTypeStep, PTL DEF LockSpec

-----------------------------------------------------------------------------
(* The holder and the file: no step lets a second process into the section *)
(* between flock and LOCK_UN, and only the holder writes the file.         *)
LEMMA LockedStep ==
    LockTypeOK /\ Locked /\ MetadataTruthful /\ [LockNext]_lockVars => Locked' /\ MetadataTruthful'
<1> SUFFICES ASSUME LockTypeOK, Locked, MetadataTruthful, [LockNext]_lockVars
             PROVE  Locked' /\ MetadataTruthful'
  OBVIOUS
<1> USE OperationLockAssumption
    DEF LockTypeOK, Locked, MetadataTruthful, Points, OwnerPoints, NestedPoints, Go, Forget
<1>1. CASE UNCHANGED lockVars
  BY <1>1 DEF lockVars
<1>2. ASSUME NEW p \in Procs, Request(p) \/ Lock(p) \/ LockBusy(p) \/ ReportBusy(p)
      PROVE  Locked' /\ MetadataTruthful'
  BY <1>2 DEF Request, Lock, LockBusy, ReportBusy
<1>3. ASSUME NEW p \in Procs, Truncate(p) \/ Publish(p) PROVE Locked' /\ MetadataTruthful'
  BY <1>3 DEF Truncate, Publish
<1>4. ASSUME NEW p \in Procs, PublishFails(p) PROVE Locked' /\ MetadataTruthful'
  BY <1>4 DEF PublishFails
<1>5. ASSUME NEW p \in Procs, Finish(p) \/ Erase(p) \/ Unlock(p)
      PROVE  Locked' /\ MetadataTruthful'
  BY <1>5 DEF Finish, Erase, Unlock
<1>6. ASSUME NEW p \in Procs, NEW c \in Procs, Spawn(p, c)
      PROVE  Locked' /\ MetadataTruthful'
  BY <1>6 DEF Spawn
<1>7. ASSUME NEW p \in Procs, ProbeFree(p) \/ ProbeHeld(p) \/ ReadAccept(p)
      PROVE  Locked' /\ MetadataTruthful'
  BY <1>7 DEF ProbeFree, ProbeHeld, ReadAccept
<1>8. ASSUME NEW p \in Procs, ReadRefuse(p) \/ FinishNested(p)
      PROVE  Locked' /\ MetadataTruthful'
  BY <1>8 DEF ReadRefuse, FinishNested
<1>9. ASSUME NEW p \in Procs, Probe(p) \/ Unprobe(p)
      PROVE  Locked' /\ MetadataTruthful'
  BY <1>9 DEF Probe, Unprobe
<1>10. ASSUME NEW p \in Procs, Crash(p) PROVE Locked' /\ MetadataTruthful'
  BY <1>10 DEF Crash
<1> QED
  BY <1>1, <1>2, <1>3, <1>4, <1>5, <1>6, <1>7, <1>8, <1>9, <1>10 DEF LockNext, Step

-----------------------------------------------------------------------------
(* Nobody comes back from being killed.                                    *)
LEMMA CrashesGrow == LockTypeOK /\ [LockNext]_lockVars => crashes' = crashes \/ crashes' = crashes + 1
<1> SUFFICES ASSUME [LockNext]_lockVars PROVE crashes' = crashes \/ crashes' = crashes + 1
  OBVIOUS
<1>1. ASSUME NEW p \in Procs, Step(p) PROVE crashes' = crashes
  BY <1>1, Zenon DEF Step, Lock, LockBusy, ReportBusy, Truncate, Publish, PublishFails, Finish,
      Erase, Unlock, ProbeFree, ProbeHeld, ReadAccept, ReadRefuse, FinishNested, Unprobe
<1>2. ASSUME NEW p \in Procs, NEW c \in Procs, Request(p) \/ Probe(p) \/ Spawn(p, c)
      PROVE  crashes' = crashes
  BY <1>2 DEF Request, Probe, Spawn
<1>3. ASSUME NEW p \in Procs, Crash(p) PROVE crashes' = crashes + 1
  BY <1>3 DEF Crash
<1> QED
  BY <1>1, <1>2, <1>3 DEF LockNext, lockVars

(* While nobody was killed, a process that is not at work has no children. *)
LEMMA NoChildren ==
    ASSUME LockTypeOK, Adopted, NEW p \in Procs, pc[p] \notin {"running", "nested"}
    PROVE  \A c \in Procs : pc[c] \in NestedPoints => parent[c] # p
BY DEF Adopted, LockTypeOK

LEMMA FamilyStep == LockInv /\ [LockNext]_lockVars => Family'
<1> SUFFICES ASSUME LockInv, [LockNext]_lockVars, crashes' = 0 PROVE Adopted' /\ Acyclic'
  BY DEF Family
<1>0. crashes = 0 /\ Adopted /\ Acyclic
  <2>1. crashes = 0
    BY CrashesGrow DEF LockInv, LockTypeOK
  <2> QED
    BY <2>1 DEF LockInv, Family
<1> USE <1>0 DEF LockInv
<1>1. CASE UNCHANGED lockVars
  BY <1>1 DEF lockVars, Adopted, Acyclic
<1>2. ASSUME NEW p \in Procs, NEW c \in Procs, Spawn(p, c) PROVE Adopted' /\ Acyclic'
  <2>1. \A d \in Procs : pc[d] \in NestedPoints => parent[d] # c
    BY <1>2, NoChildren DEF Spawn
  <2>2. \A d \in Procs \ {c} : pc'[d] = pc[d] /\ token'[d] = token[d] /\ parent'[d] = parent[d]
    BY <1>2 DEF Spawn, Go, LockTypeOK
  <2>3. pc'[c] = "probing" /\ token'[c] = token[p] /\ parent'[c] = p /\ p # c
    BY <1>2 DEF Spawn, Go, LockTypeOK
  <2>4. Adopted'
    BY <1>2, <2>1, <2>2, <2>3 DEF Adopted, Spawn, NestedPoints
  <2>5. PICK rank \in [Procs -> Nat] :
            \A d \in Procs : pc[d] \in NestedPoints => rank[parent[d]] < rank[d]
    BY DEF Acyclic
  <2>6. DEFINE r == [rank EXCEPT ![c] = rank[p] + 1]
  <2>7. r \in [Procs -> Nat] /\ r[c] = rank[p] + 1 /\ \A d \in Procs \ {c} : r[d] = rank[d]
    BY <2>5
  <2>8. ASSUME NEW d \in Procs, pc'[d] \in NestedPoints PROVE r[parent'[d]] < r[d]
    <3>1. CASE d = c
      BY <3>1, <2>3, <2>7
    <3>2. CASE d # c
      <4>1. pc[d] \in NestedPoints /\ parent'[d] = parent[d] /\ parent[d] \in Procs \ {c}
        BY <3>2, <2>1, <2>2, <2>8 DEF Adopted
      <4> QED
        BY <4>1, <3>2, <2>5, <2>7
    <3> QED
      BY <3>1, <3>2
  <2>9. Acyclic'
    BY <2>7, <2>8 DEF Acyclic
  <2> QED
    BY <2>4, <2>9
<1>3. ASSUME NEW p \in Procs, Crash(p) PROVE FALSE
  BY <1>3 DEF Crash, LockTypeOK
<1>4. ASSUME NEW p \in Procs,
             \/ Request(p) \/ Lock(p) \/ LockBusy(p) \/ ReportBusy(p)
             \/ Truncate(p) \/ Publish(p) \/ Erase(p) \/ Unlock(p) \/ Probe(p)
             \/ PublishFails(p)
      PROVE  Adopted' /\ Acyclic'
  <2>1. pc[p] \notin NestedPoints \cup {"running"} /\ pc'[p] \notin NestedPoints
    BY <1>4 DEF Request, Lock, LockBusy, ReportBusy, Truncate, Publish, Erase, Unlock,
        Probe, PublishFails, Go, Forget, LockTypeOK, NestedPoints
  <2>2. \A c \in Procs : pc[c] \in NestedPoints => parent[c] # p
    BY <2>1, NoChildren DEF NestedPoints
  <2>3. \A c \in Procs \ {p} : pc'[c] = pc[c] /\ token'[c] = token[c]
    BY <1>4 DEF Request, Lock, LockBusy, ReportBusy, Truncate, Publish, Erase, Unlock,
        Probe, PublishFails, Go, Forget, LockTypeOK
  <2>4. parent' = parent
    BY <1>4 DEF Request, Lock, LockBusy, ReportBusy, Truncate, Publish, Erase, Unlock,
        Probe, PublishFails
  <2>5. Adopted'
    BY <2>1, <2>2, <2>3, <2>4 DEF Adopted
  <2>6. Acyclic'
    BY <2>1, <2>3, <2>4 DEF Acyclic
  <2> QED
    BY <2>5, <2>6
<1>5. ASSUME NEW p \in Procs, ReadAccept(p) \/ ProbeHeld(p) PROVE Adopted' /\ Acyclic'
  <2>1. pc[p] \in NestedPoints \ {"nested"} /\ pc'[p] \in NestedPoints
        /\ token' = token /\ parent' = parent
    BY <1>5 DEF ReadAccept, ProbeHeld, Go, LockTypeOK, NestedPoints
  <2>2. \A c \in Procs : pc[c] \in NestedPoints => parent[c] # p
    BY <2>1, NoChildren DEF NestedPoints
  <2>3. \A c \in Procs \ {p} : pc'[c] = pc[c]
    BY <1>5 DEF ReadAccept, ProbeHeld, Go, LockTypeOK
  <2> QED
    BY <2>1, <2>2, <2>3 DEF Adopted, Acyclic
<1>6. ASSUME NEW p \in Procs,
             Finish(p) \/ ReadRefuse(p) \/ FinishNested(p) \/ ProbeFree(p) \/ Unprobe(p)
      PROVE  Adopted' /\ Acyclic'
  <2>1. pc'[p] \notin NestedPoints
    BY <1>6 DEF Finish, ReadRefuse, FinishNested, ProbeFree, Unprobe, Go, Forget, LockTypeOK, NestedPoints
  <2>2. \A c \in Procs : pc[c] \in NestedPoints => parent[c] # p
    BY <1>6, NoChildren DEF Finish, ReadRefuse, FinishNested, ProbeFree, Unprobe, Children
  <2>3. \A c \in Procs \ {p} : pc'[c] = pc[c] /\ token'[c] = token[c] /\ parent'[c] = parent[c]
    BY <1>6 DEF Finish, ReadRefuse, FinishNested, ProbeFree, Unprobe, Go, Forget, LockTypeOK
  <2> QED
    BY <2>1, <2>2, <2>3 DEF Adopted, Acyclic
<1> QED
  BY <1>1, <1>2, <1>3, <1>4, <1>5, <1>6 DEF LockNext, Step

-----------------------------------------------------------------------------
(* From any nested worker the parents lead to a running owner of its token.*)
LEMMA RunningAncestor ==
    ASSUME LockTypeOK, Adopted, Acyclic, NEW c \in Procs, pc[c] \in NestedPoints
    PROVE  \E q \in Procs : pc[q] = "running" /\ token[q] = token[c]
<1>1. PICK rank \in [Procs -> Nat] :
          \A d \in Procs : pc[d] \in NestedPoints => rank[parent[d]] < rank[d]
  BY DEF Acyclic
<1>2. DEFINE kin == {d \in Procs : pc[d] \in NestedPoints /\ token[d] = token[c]}
             ranks == {rank[d] : d \in kin}
<1>3. ranks \subseteq Nat /\ ranks # {}
  BY <1>1
<1>4. \E x \in ranks : \A y \in ranks : ~(<<y, x>> \in OpToRel(<, Nat))
  BY <1>3, NatLessThanWellFounded, WFMin
<1>5. PICK d \in kin : \A e \in kin : ~(<<rank[e], rank[d]>> \in OpToRel(<, Nat))
  BY <1>4
<1>6. \A e \in kin : ~(rank[e] < rank[d])
  BY <1>1, <1>5 DEF OpToRel
<1>7. parent[d] \in Procs /\ parent[d] \notin kin /\ token[parent[d]] = token[c]
  BY <1>1, <1>6 DEF Adopted
<1> QED
  BY <1>7 DEF Adopted, NestedPoints

(* The inductive invariant of the lock protocol.                           *)
THEOREM LockInvariant == LockSpec => []LockInv
<1>1. LockInit => LockInv
  <2>1. LockInit => Locked /\ MetadataTruthful /\ Adopted
    BY OperationLockAssumption
    DEF LockInit, Locked, MetadataTruthful, Adopted, OwnerPoints, NestedPoints
  <2>2. LockInit => Acyclic
    <3> SUFFICES ASSUME LockInit PROVE Acyclic
      OBVIOUS
    <3>1. [p \in Procs |-> 0] \in [Procs -> Nat]
      OBVIOUS
    <3>2. \A c \in Procs : pc[c] \notin NestedPoints
      BY DEF LockInit, NestedPoints
    <3> QED
      BY <3>1, <3>2 DEF Acyclic
  <2> QED
    BY <2>1, <2>2, LockTypeInit DEF LockInv, Family
<1>2. LockInv /\ [LockNext]_lockVars => LockInv'
  BY LockTypeStep, LockedStep, FamilyStep DEF LockInv
<1> QED
  BY <1>1, <1>2, PTL DEF LockSpec

(* While an owner runs, the lock file shows its token and classes.         *)
THEOREM LockMetadataTruthful == LockSpec => []MetadataTruthful
<1>1. LockInv => MetadataTruthful
  BY DEF LockInv
<1> QED
  BY <1>1, LockInvariant, PTL

(* While nobody was killed, everyone who mutates works for one operation.  *)
THEOREM LockOneOperation == LockSpec => []OneOperation
<1>1. LockInv => OneOperation
  <2> SUFFICES ASSUME LockInv, crashes = 0,
                      NEW p \in Procs, NEW q \in Procs, Mutating(p), Mutating(q)
               PROVE  token[p] = token[q]
    BY DEF OneOperation
  <2>1. ASSUME NEW m \in Procs, Mutating(m)
        PROVE  \E o \in Procs : pc[o] = "running" /\ token[o] = token[m]
    BY <2>1, RunningAncestor DEF LockInv, Family, Mutating, NestedPoints
  <2>2. PICK o \in Procs : pc[o] = "running" /\ token[o] = token[p]
    BY <2>1
  <2>3. PICK r \in Procs : pc[r] = "running" /\ token[r] = token[q]
    BY <2>1
  <2>4. holder = o /\ holder = r
    BY <2>2, <2>3 DEF LockInv, Locked, OwnerPoints
  <2> QED
    BY <2>2, <2>3, <2>4
<1> QED
  BY <1>1, LockInvariant, PTL

=============================================================================
