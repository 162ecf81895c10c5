---------------------------- MODULE BackupProofs ----------------------------
(***************************************************************************)
(* What prepare makes is written down, and what Restic completes can be     *)
(* restored, for any resources, documents and number of faults.             *)
(*                                                                          *)
(* Recorded is the invariant of the state file.  NothingUnrecorded alone is *)
(* not inductive: the end of prepare and the end of an undo write the state *)
(* file from the helper's own lists, so as long as no undo has failed the   *)
(* lists and the file agree (InStep), and the dump that is about to be      *)
(* started is already on them.                                              *)
(*                                                                          *)
(* Ready is the invariant of a run: the resources behind prepare are good   *)
(* and stay good, since a dump writes only to its own artifact, which the   *)
(* compiler gave to no other resource, and no job of an earlier run is left *)
(* that could write there too.                                              *)
(***************************************************************************)
EXTENDS Backup, TLAPS

Working == {"next", "snapshot", "dump", "dumping"}

Lists(s) == s = [snapshots |-> s.snapshots, dumps |-> s.dumps]

Shape ==
    /\ Lists(memory) /\ Lists(state)
    /\ artifacts = [p \in ArtifactPaths |-> artifacts[p]]
    /\ unit = "prepare" => pc \in Working \cup {"undo"}
    /\ pc \in Working => unit = "prepare"
    /\ failures \in BOOLEAN

InStep ==
    /\ pc \in Working => ~failures
    /\ pc \in Working \cup {"undo"} /\ ~failures => memory = state
    /\ pc = "dump" => \A r \in current : Dump(r) \in memory.dumps

Recorded == Shape /\ InStep /\ NothingUnrecorded

\* The resources prepare has dealt with.
Behind == DOMAIN plan \ (todo \cup (IF pc = "next" THEN {} ELSE current))

\* The data of a resource is where Restic will find it.
There(r) ==
    /\ plan[r].how = "zfs-snapshot" =>
         \E x \in state.snapshots : x[1] = r /\ x \in snapshots
    /\ plan[r].how = "native-dump" => r \in artifacts[plan[r].artifact]

Making ==
    /\ plan \in Inventories
    /\ \A r, q \in current : r = q
    /\ current \subseteq DOMAIN plan /\ todo \subseteq DOMAIN plan
    /\ \A r \in Behind : There(r)
    /\ pc = "dumping" => running \subseteq {Dump(r) : r \in current}
    /\ pc # "dumping" => running = {}
    /\ pc = "snapshot" => \A r \in current :
         plan[r].how = "zfs-snapshot" /\ \E x \in memory.snapshots : x[1] = r
    /\ pc \in {"dump", "dumping"} => \A r \in current :
         plan[r].how = "native-dump" /\ artifacts[plan[r].artifact] \subseteq {r}

Made ==
    /\ plan \in Inventories /\ running = {}
    /\ \A r \in DOMAIN plan : There(r)

Ready ==
    /\ inventory \in Inventories
    /\ pc \in Working => Making
    /\ unit = "restic" => Made /\ pc = "none"
    /\ CompletedVerifies

-----------------------------------------------------------------------------
(* The state file. *)

LEMMA RecordedInit == Init => Recorded
BY DEF Init, Recorded, Shape, InStep, NothingUnrecorded, Lists, Nothing, Working

LEMMA RecordedStep == Recorded /\ [Next]_vars => Recorded'
<1> SUFFICES ASSUME Recorded, [Next]_vars PROVE Recorded'
  OBVIOUS
<1> USE DEF Recorded, Shape, InStep, NothingUnrecorded, Lists, Working, machine, records
<1>1. CASE UNCHANGED vars
  BY <1>1 DEF vars, Dump
<1>2. CASE StartUnit
  BY <1>2 DEF StartUnit, Outstanding, Nothing
<1>3. ASSUME NEW r \in Resources,
             PrepareDirect(r) \/ PendSnapshot(r) \/ PendDump(r) \/ StartDump(r) \/ DumpDone(r)
      PROVE  Recorded'
  <2>1. CASE PrepareDirect(r)
    BY <2>1 DEF PrepareDirect, Turn
  <2>2. CASE PendSnapshot(r)
    BY <2>2 DEF PendSnapshot, Turn, Track
  <2>3. CASE PendDump(r)
    BY <2>3 DEF PendDump, Turn, Track, Dump
  <2>4. CASE StartDump(r)
    BY <2>4 DEF StartDump, Dump
  <2>5. CASE DumpDone(r)
    BY <2>5 DEF DumpDone
  <2> QED
    BY <1>3, <2>1, <2>2, <2>3, <2>4, <2>5
<1>4. CASE TakeSnapshot \/ Prepared \/ LoadState
  <2>1. CASE TakeSnapshot
    BY <2>1 DEF TakeSnapshot
  <2>2. CASE Prepared
    BY <2>2 DEF Prepared
  <2>3. CASE LoadState
    BY <2>3 DEF LoadState
  <2> QED
    BY <1>4, <2>1, <2>2, <2>3
<1>5. CASE EndUndo
  BY <1>5 DEF EndUndo, StateLeft, Outstanding, Nothing
<1>6. ASSUME NEW x \in Snapshots, Destroy(x) \/ DestroyFails(x)
      PROVE  Recorded'
  BY <1>6 DEF Destroy, DestroyFails, UndoingSnapshot, WithoutSnapshot, Fault
<1>7. ASSUME NEW d \in Dumps, RemoveDump(d) \/ RemoveDumpFails(d) \/ DumpEnds(d)
      PROVE  Recorded'
  <2>1. d[2] \in ArtifactPaths
    BY DEF Dumps
  <2>2. CASE RemoveDump(d)
    BY <2>1, <2>2 DEF RemoveDump, UndoingDump, WithoutDump, Stopped
  <2>3. CASE RemoveDumpFails(d)
    BY <2>3 DEF RemoveDumpFails, UndoingDump, WithoutDump, Stopped, Fault
  <2>4. CASE DumpEnds(d)
    BY <2>1, <2>4 DEF DumpEnds, Fault, Dump
  <2> QED
    BY <1>7, <2>2, <2>3, <2>4
<1>8. CASE PrepareFails
  BY <1>8 DEF PrepareFails, Fault, Dump
<1>9. CASE ResticEnds \/ Kill \/ Republish
  <2>1. CASE ResticEnds
    BY <2>1 DEF ResticEnds
  <2>2. CASE Kill
    BY <2>2 DEF Kill, Fault, Nothing
  <2>3. CASE Republish
    BY <2>3 DEF Republish, Dump
  <2> QED
    BY <1>9, <2>1, <2>2, <2>3
<1>10. CASE Reboot
  BY <1>10 DEF Reboot, Fault, Nothing
<1> QED
  BY <1>1, <1>2, <1>3, <1>4, <1>5, <1>6, <1>7, <1>8, <1>9, <1>10 DEF Next, Helper

\* A kill, a failed command or a reboot at any point leaves no snapshot, job or
\* artifact that the state file of prepare and cleanup does not name.
THEOREM BackupNothingUnrecorded == Spec => []NothingUnrecorded
<1>1. Recorded => NothingUnrecorded
  BY DEF Recorded
<1> QED
  BY <1>1, RecordedInit, RecordedStep, PTL DEF Spec

-----------------------------------------------------------------------------
(* The run. *)

\* compile_backup_projection gives every dump an artifact of its own.
LEMMA DumpsApart ==
    ASSUME NEW inv \in Inventories, NEW r \in DOMAIN inv, NEW q \in DOMAIN inv,
           inv[r].how = "native-dump", inv[q].how = "native-dump",
           inv[r].artifact = inv[q].artifact
    PROVE  r = q
<1>1. r \in Nat /\ q \in Nat
  BY BackupAssumption DEF Inventories
<1>2. DistinctSources(inv)
  BY DEF Inventories, Projectable
<1>3. ASSUME NEW a \in DOMAIN inv, NEW b \in DOMAIN inv, a < b,
             inv[a].how = "native-dump", inv[b].how = "native-dump"
      PROVE  inv[a].artifact # inv[b].artifact
  <2>1. inv[a].artifact \in Sources(inv, b)
    BY <1>3 DEF Sources
  <2>2. inv[b].artifact \notin Sources(inv, b)
    BY <1>2, <1>3 DEF DistinctSources
  <2> QED
    BY <2>1, <2>2
<1> QED
  BY <1>1, <1>3

LEMMA DumpHasArtifact ==
    ASSUME NEW inv \in Inventories, NEW r \in DOMAIN inv, inv[r].how = "native-dump"
    PROVE  inv[r].artifact \in ArtifactPaths
<1>1. inv \in Documents /\ inv[r].artifact # Nowhere
  BY BackupAssumption DEF Inventories
<1>2. inv[r].artifact \in {inv[q].artifact : q \in DOMAIN inv}
  OBVIOUS
<1>3. {inv[q].artifact : q \in DOMAIN inv}
        \in {{i[q].artifact : q \in DOMAIN i} : i \in Documents}
  BY <1>1
<1>4. inv[r].artifact \in UNION {{i[q].artifact : q \in DOMAIN i} : i \in Documents}
  BY <1>2, <1>3, Zenon
<1> QED
  BY <1>1, <1>4 DEF ArtifactPaths

LEMMA ReadyInit == Init => Ready
<1> SUFFICES ASSUME Init PROVE Ready
  OBVIOUS
<1>1. saved.plan = NoPlan
  BY DEF Init
<1>2. CompletedVerifies
  BY <1>1 DEF CompletedVerifies, Verified, NoPlan
<1> QED
  BY <1>2 DEF Init, Ready, Working

\* A resource that is there is what Restic stores of it, when no job writes.
LEMMA MadeIsGood ==
    ASSUME Made, NEW r \in DOMAIN plan
    PROVE  Good(r)
<1>1. plan[r].how \in {"direct", "zfs-snapshot", "native-dump"}
  BY BackupAssumption DEF Made, Inventories
<1>2. There(r) /\ running = {}
  BY DEF Made
<1>3. CASE plan[r].how = "direct"
  BY <1>3 DEF Good
<1>4. CASE plan[r].how = "zfs-snapshot"
  BY <1>2, <1>4 DEF Good, There
<1>5. CASE plan[r].how = "native-dump"
  BY <1>2, <1>5 DEF Good, There
<1> QED
  BY <1>1, <1>3, <1>4, <1>5

LEMMA ReadyStep == Recorded /\ Ready /\ [Next]_vars => Ready'
<1> SUFFICES ASSUME Recorded, Ready, [Next]_vars PROVE Ready'
  OBVIOUS
<1> USE DEF Ready, Working, machine, records
<1>saved. ASSUME UNCHANGED saved PROVE CompletedVerifies'
  BY <1>saved DEF CompletedVerifies, Verified, Found
<1>1. CASE UNCHANGED vars
  <2>1. UNCHANGED <<inventory, unit, pc, plan, todo, current, memory, failures, state,
                    snapshots, running, artifacts, forgotten, saved, faults>>
    BY <1>1 DEF vars
  <2>2. UNCHANGED Making /\ UNCHANGED Made
    BY <2>1 DEF Making, Made, Behind, There, Dump
  <2> QED
    BY <2>1, <2>2, <1>saved
<1>2. CASE StartUnit
  <2>1. CASE Outstanding(state)
    BY <1>2, <2>1, <1>saved DEF StartUnit
  <2>2. CASE ~Outstanding(state)
    <3>1. running = {}
      BY <2>2 DEF Outstanding, Recorded, NothingUnrecorded
    <3>2. Behind' = {}
      BY <1>2, <2>2 DEF StartUnit, Behind
    <3>3. Making'
      BY <1>2, <2>2, <3>1, <3>2 DEF StartUnit, Making
    <3> QED
      BY <1>2, <2>2, <3>3, <1>saved DEF StartUnit
  <2> QED
    BY <2>1, <2>2
<1>3. ASSUME NEW r \in Resources, NEW how, Turn(r, how)
      PROVE  /\ unit = "prepare" /\ pc = "next" /\ Making
             /\ r \in DOMAIN plan /\ r \notin Behind /\ plan[r].how = how
             /\ memory = state /\ Lists(state)
             /\ current' = {r} /\ todo' = todo \ {r} /\ todo \subseteq DOMAIN plan
             /\ Behind = DOMAIN plan \ todo
  BY <1>3 DEF Turn, Making, Behind, Recorded, InStep, Shape
<1>4. ASSUME NEW r \in Resources, PrepareDirect(r)
      PROVE  Ready'
  <2>1. Turn(r, "direct")
        /\ UNCHANGED <<inventory, unit, pc, plan, memory, state, snapshots, running, artifacts, saved>>
    BY <1>4 DEF PrepareDirect
  <2>2. Behind' = Behind \cup {r}
    BY <2>1, <1>3 DEF Behind
  <2>3. \A q \in DOMAIN plan : There(q)' = There(q)
    BY <2>1 DEF There
  <2>4. There(r)
    BY <2>1, <1>3 DEF There
  <2>5. Making'
    BY <2>1, <2>2, <2>3, <2>4, <1>3 DEF Making
  <2> QED
    BY <2>1, <2>5, <1>3, <1>saved
<1>5. ASSUME NEW r \in Resources, PendSnapshot(r)
      PROVE  Ready'
  <2>1. /\ Turn(r, "zfs-snapshot") /\ pc' = "snapshot" /\ state' = memory'
        /\ memory' = [memory EXCEPT !.snapshots = @ \cup {Fresh(r)}]
        /\ UNCHANGED <<inventory, unit, plan, snapshots, running, artifacts, saved>>
    BY <1>5 DEF PendSnapshot, Track
  <2>2. memory'.snapshots = memory.snapshots \cup {Fresh(r)}
    BY <2>1, <1>3 DEF Lists
  <2>3. Behind' = Behind
    BY <2>1, <1>3 DEF Behind
  <2>4. \A q \in Behind : There(q)'
    BY <2>1, <2>2, <1>3 DEF There, Making
  <2>5. Fresh(r)[1] = r
    BY DEF Fresh
  <2>6. Making'
    BY <2>1, <2>2, <2>3, <2>4, <2>5, <1>3 DEF Making
  <2> QED
    BY <2>1, <2>6, <1>3, <1>saved
<1>6. CASE TakeSnapshot
  <2>1. /\ Making /\ pc = "snapshot" /\ pc' = "next" /\ memory = state
        /\ snapshots' = snapshots \cup memory.snapshots
        /\ UNCHANGED <<inventory, unit, plan, todo, current, memory, state, running, artifacts, saved>>
    BY <1>6 DEF TakeSnapshot, Recorded, InStep
  <2>2. Behind' \subseteq Behind \cup current
    BY <2>1 DEF Behind
  <2>3. \A q \in Behind \cup current : There(q)'
    BY <2>1 DEF There, Making
  <2>4. Making'
    BY <2>1, <2>2, <2>3 DEF Making
  <2> QED
    BY <1>6, <2>1, <2>4, <1>saved DEF TakeSnapshot
<1>7. ASSUME NEW r \in Resources, PendDump(r)
      PROVE  Ready'
  <2>1. /\ Turn(r, "native-dump") /\ pc' = "dump" /\ state' = memory'
        /\ memory' = [memory EXCEPT !.dumps = @ \cup {Dump(r)}]
        /\ artifacts' = [artifacts EXCEPT ![plan[r].artifact] = {}]
        /\ UNCHANGED <<inventory, unit, plan, snapshots, running, saved>>
    BY <1>7 DEF PendDump, Track
  <2>2. memory'.snapshots = memory.snapshots
    BY <2>1, <1>3 DEF Lists
  <2>3. Behind' = Behind
    BY <2>1, <1>3 DEF Behind
  <2>4. plan[r].artifact \in ArtifactPaths
    BY <2>1, <1>3, DumpHasArtifact DEF Making
  <2>5. /\ artifacts'[plan[r].artifact] = {}
        /\ \A p : p # plan[r].artifact => artifacts'[p] = artifacts[p]
    BY <2>1, <2>4 DEF Recorded, Shape
  <2>6. ASSUME NEW q \in Behind, plan[q].how = "native-dump"
        PROVE  plan[q].artifact # plan[r].artifact
    BY <2>1, <2>6, <1>3, DumpsApart DEF Making, Behind
  <2>7. \A q \in Behind : There(q)'
    BY <2>1, <2>2, <2>5, <2>6, <1>3 DEF There, Making
  <2>8. Making'
    BY <2>1, <2>3, <2>5, <2>7, <1>3 DEF Making
  <2> QED
    BY <2>1, <2>8, <1>3, <1>saved
<1>8. ASSUME NEW r \in Resources, StartDump(r)
      PROVE  Ready'
  <2>1. /\ Making /\ pc = "dump" /\ pc' = "dumping" /\ r \in current
        /\ running' = running \cup {Dump(r)}
        /\ UNCHANGED <<inventory, unit, plan, todo, current, memory, state, snapshots, artifacts, saved>>
    BY <1>8 DEF StartDump
  <2>2. Behind' = Behind /\ \A q : There(q)' = There(q)
    BY <2>1 DEF Behind, There
  <2>3. running' \subseteq {Dump(q)' : q \in current}
    BY <2>1 DEF Making, Dump
  <2>4. Making'
    BY <2>1, <2>2, <2>3 DEF Making
  <2> QED
    BY <1>8, <2>1, <2>4, <1>saved DEF StartDump
<1>9. ASSUME NEW r \in Resources, DumpDone(r)
      PROVE  Ready'
  <2>1. /\ Making /\ pc = "dumping" /\ r \in current /\ Dump(r) \notin running /\ unit = "prepare"
        /\ pc' = IF artifacts[plan[r].artifact] # {} THEN "next" ELSE "undo"
        /\ UNCHANGED <<inventory, unit, plan, todo, current, memory, state, snapshots, running,
                       artifacts, saved>>
    BY <1>9 DEF DumpDone
  <2>2. CASE artifacts[plan[r].artifact] = {}
    BY <2>1, <2>2, <1>saved
  <2>3. CASE artifacts[plan[r].artifact] # {}
    <3>1. running = {} /\ r \in artifacts[plan[r].artifact]
      BY <2>1, <2>3 DEF Making
    <3>2. Behind' \subseteq Behind \cup {r}
      BY <2>1, <2>3 DEF Behind, Making
    <3>3. \A q \in Behind \cup {r} : There(q)'
      BY <2>1, <3>1 DEF There, Making
    <3>4. Making'
      BY <2>1, <2>3, <3>1, <3>2, <3>3 DEF Making
    <3> QED
      BY <2>1, <2>3, <3>4, <1>saved
  <2> QED
    BY <2>2, <2>3
<1>10. CASE Prepared
  <2>1. /\ Making /\ pc = "next" /\ todo = {} /\ unit' = "restic" /\ pc' = "none"
        /\ state' = memory /\ memory = state
        /\ UNCHANGED <<inventory, plan, snapshots, running, artifacts, saved>>
    BY <1>10 DEF Prepared, Recorded, InStep
  <2>2. Made'
    BY <2>1 DEF Made, Making, Behind, There
  <2> QED
    BY <2>1, <2>2, <1>saved
<1>11. ASSUME NEW d \in Dumps, DumpEnds(d)
       PROVE  Ready'
  <2>1. /\ d \in running /\ running' = running \ {d}
        /\ artifacts' \in {artifacts, [artifacts EXCEPT ![d[2]] = @ \cup {d[1]}]}
        /\ UNCHANGED <<inventory, unit, pc, plan, todo, current, memory, state, snapshots, saved>>
    BY <1>11 DEF DumpEnds
  <2>2. d[2] \in ArtifactPaths
    BY DEF Dumps
  <2>3. \A p : p # d[2] => artifacts'[p] = artifacts[p]
    <3>1. CASE artifacts' = artifacts
      BY <3>1
    <3>2. CASE artifacts' = [artifacts EXCEPT ![d[2]] = @ \cup {d[1]}]
      BY <3>2, <2>2 DEF Recorded, Shape
    <3> QED
      BY <2>1, <3>1, <3>2
  <2>4. artifacts[d[2]] \subseteq artifacts'[d[2]] /\ artifacts'[d[2]] \subseteq artifacts[d[2]] \cup {d[1]}
    BY <2>1, <2>2 DEF Recorded, Shape
  <2>5. ASSUME Making, pc = "dumping" PROVE Making'
    <3>1. Behind' = Behind
      BY <2>1 DEF Behind
    <3>2. \A q : There(q) => There(q)'
      BY <2>1, <2>3, <2>4 DEF There
    <3>3. PICK r \in current : d = Dump(r)
      BY <2>1, <2>5 DEF Making
    <3>4. d[1] = r /\ d[2] = plan[r].artifact
      BY <3>3 DEF Dump
    <3>5. \A q \in current : artifacts'[plan[q].artifact] \subseteq {q}
      BY <2>4, <2>5, <3>3, <3>4 DEF Making
    <3> QED
      BY <2>1, <2>5, <3>1, <3>2, <3>5 DEF Making, Dump
  <2>6. pc \in Working => pc = "dumping"
    BY <2>1 DEF Making
  <2>7. unit # "restic"
    BY <2>1 DEF Made
  <2> QED
    BY <2>1, <2>5, <2>6, <2>7, <1>saved
<1>12. CASE PrepareFails \/ LoadState \/ EndUndo
  <2>1. pc' \notin Working /\ unit' # "restic" /\ UNCHANGED <<inventory, saved>>
    BY <1>12 DEF PrepareFails, LoadState, EndUndo
  <2> QED
    BY <2>1, <1>saved
<1>13. ASSUME NEW x \in Snapshots, Destroy(x) \/ DestroyFails(x)
       PROVE  Ready'
  <2>1. pc' \notin Working /\ unit' # "restic" /\ UNCHANGED <<inventory, saved>>
    BY <1>13 DEF Destroy, DestroyFails, UndoingSnapshot
  <2> QED
    BY <2>1, <1>saved
<1>14. ASSUME NEW d \in Dumps, RemoveDump(d) \/ RemoveDumpFails(d)
       PROVE  Ready'
  <2>1. pc' \notin Working /\ unit' # "restic" /\ UNCHANGED <<inventory, saved>>
    BY <1>14 DEF RemoveDump, RemoveDumpFails, UndoingDump
  <2> QED
    BY <2>1, <1>saved
<1>15. CASE ResticEnds
  <2>1. /\ Made /\ unit' = "cleanup" /\ pc' = "load" /\ UNCHANGED inventory
        /\ saved' = [plan |-> plan, good |-> {r \in DOMAIN plan : Good(r)}]
    BY <1>15 DEF ResticEnds
  <2>2. {r \in DOMAIN plan : Good(r)} = DOMAIN plan
    BY <2>1, MadeIsGood
  <2>3. CompletedVerifies'
    BY <2>1, <2>2 DEF CompletedVerifies, Verified, Found
  <2> QED
    BY <2>1, <2>3
<1>16. CASE Kill \/ Reboot
  <2>1. pc' \notin Working /\ unit' # "restic" /\ UNCHANGED <<inventory, saved>>
    BY <1>16 DEF Kill, Reboot
  <2> QED
    BY <2>1, <1>saved
<1>17. CASE Republish
  <2>1. /\ inventory' \in Inventories
        /\ UNCHANGED <<unit, pc, plan, todo, current, memory, state, snapshots, running, artifacts, saved>>
    BY <1>17 DEF Republish
  <2>2. UNCHANGED Making /\ UNCHANGED Made
    BY <2>1 DEF Making, Made, Behind, There, Dump
  <2> QED
    BY <2>1, <2>2, <1>saved
<1> QED
  BY <1>1, <1>2, <1>4, <1>5, <1>6, <1>7, <1>8, <1>9, <1>10, <1>11, <1>12, <1>13, <1>14,
     <1>15, <1>16, <1>17 DEF Next, Helper

\* A restore drill of what Restic completed finds the data of every resource of
\* the inventory it was made from (prepare, ResticEnds, verify), whatever earlier
\* runs left, whatever failed before, whatever is published meanwhile.
THEOREM BackupCompletedVerifies == Spec => []CompletedVerifies
<1>1. Recorded /\ Ready => CompletedVerifies
  BY DEF Ready
<1> QED
  BY <1>1, RecordedInit, RecordedStep, ReadyInit, ReadyStep, PTL DEF Spec
=============================================================================
