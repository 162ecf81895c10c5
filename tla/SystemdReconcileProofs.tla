----------------------- MODULE SystemdReconcileProofs -----------------------
(***************************************************************************)
(* Proofs about SystemdReconcile, for any units, any manifests and any     *)
(* number of generations and faults.                                       *)
(*                                                                         *)
(* The three safety properties rest on one invariant, IInv:                *)
(*  - Linking: what the phases of linking and unlinking still owe, so that *)
(*    the links are the manifest's from the reload on.                     *)
(*  - Returnable: the links that the reconcile may touch are its targets,  *)
(*    and the links it puts back still lead somewhere.                     *)
(*  - Noted, Returned: no session is ended that was not noted, and what    *)
(*    the restoration of activity still owes.                              *)
(*  - Kept, Brought: while the manager is idle a unit that nobody disturbed*)
(*    is as the state file says; during a reconcile it was so before, runs *)
(*    the old or the new configuration, and is as the manifest says once   *)
(*    it has been handled.                                                 *)
(***************************************************************************)
EXTENDS SystemdReconcile, FiniteSetTheorems, TLAPS

Forward   == {"stopping", "linking", "unlinking", "reloading", "restarting", "starting",
              "recording"}
Relinked  == {"reloading", "restarting", "starting", "recording"}
Restoring == {"restoringLinks", "restoringReload", "restoringUnits"}

(* The type invariant by parts.  Neither the state file nor a link is ahead *)
(* of the publication.                                                     *)
Booked ==
    /\ manifests \in Seq(Projections) /\ gen <= MaxGen
    /\ recorded \in 0..gen

Pointed == link \in [Units -> 0..gen] /\ live \in [Units -> 0..gen]

Placed ==
    /\ pc \in Points /\ todo \subseteq Units
    /\ outcome \in {"none", "ok", "refused", "failed", "disrupted", "manual", "killed"}
    /\ outcome # "none" => pc = "idle"
    /\ pc # "idle" => gen > 0

Loading ==
    /\ loaded \in [Units -> 0..MaxContent]
    /\ running \in [Units -> 0..MaxContent] /\ before \in [Units -> 0..MaxContent]

Remembered ==
    /\ snap \in [Units -> {"yes", "no", "unknown"}]
    /\ plan \in [topology : BOOLEAN, targets : SUBSET Units]
    /\ disrupted \subseteq Sessions /\ lost \subseteq Sessions
    /\ cured \subseteq Units /\ disturbed \subseteq Units

Counted == faults \in 0..MaxFaults /\ failedAt \in 0..MaxFaults

(* The link that the current manifest asks for.                            *)
Right(u) == link[u] = (IF u \in Linked(cur) THEN gen ELSE 0)

Linking ==
    /\ pc = "linking" => \A u \in Linked(cur) \ todo : link[u] = gen
    /\ pc = "unlinking" => /\ \A u \in Units : Right(u) \/ u \in todo
                           /\ todo \cap Linked(cur) = {}
    /\ pc \in Relinked \/ outcome = "ok" => \A u \in Units : Right(u)

Returnable ==
    /\ pc # "idle" =>
        /\ Linked(cur) \cup Linked(prev) \subseteq plan.targets
        /\ \A u \in Units \ plan.targets : link[u] = 0 /\ live[u] = 0
        /\ \A u \in Units : live[u] # 0 => Resolves(live[u])
    /\ pc \in {"linking", "unlinking"} => todo \subseteq plan.targets
    /\ pc = "restoringLinks" => \A u \in Units \ todo : link[u] = live[u]
    /\ pc \in {"restoringReload", "restoringUnits"} \/ outcome = "failed" => link = live

(* The units of each phase are among those that were decided on.           *)
Decided ==
    /\ pc = "stopping" => todo \subseteq Stopped(snap)
    /\ pc = "restarting" => todo \subseteq UnitsToRestart(snap)
    /\ pc = "starting" => todo \subseteq UnitsToStart(snap)

Noted ==
    /\ pc # "idle" => lost \subseteq disrupted
    /\ outcome = "failed" => lost = {}

Returns(u) ==
    faults = failedAt /\ cur.mode[u] # "ondemand" =>
        /\ snap[u] = "yes" /\ live[u] # 0 => Active(u)
        /\ snap[u] = "no" => ~Active(u)

(* A service of neither manifest is as the snapshot says.                  *)
Returned ==
    /\ pc # "idle" => \A u \in Services \ (Owned(prev) \cup Owned(cur)) :
                         snap[u] = (IF Active(u) THEN "yes" ELSE "no")
    /\ pc \in Restoring => failedAt <= faults
    /\ pc = "restoringUnits" => todo \subseteq Owned(prev) \cup Owned(cur)
    /\ pc = "restoringUnits" => \A u \in Services \ todo : Returns(u)
    /\ outcome = "failed" => \A u \in Services : Returns(u)

(* A unit that runs content c, or 0, is as the state file says.  A disabled*)
(* service may have been woken once another generation is published.       *)
AsRecorded(u, c) ==
    /\ u \in StartUnits(prev) => c # 0
    /\ recorded = gen /\ u \in StopUnits(prev) => c = 0
    /\ c # 0 => c = Wanted(prev, u)

Kept ==
    /\ pc = "idle" => \A u \in Units \ disturbed : AsRecorded(u, running[u])
    /\ pc # "idle" => \A u \in Units \ disturbed : AsRecorded(u, before[u])
    /\ outcome = "ok" => recorded = gen \/ Linked(prev) = {}

(* A unit is as the current manifest says.                                 *)
AsWanted(u) ==
    /\ u \in StartUnits(cur) => Active(u)
    /\ u \in StopUnits(cur) => ~Active(u)
    /\ Active(u) => running[u] = Wanted(cur, u)

PastStop    == Forward \ {"stopping"}
PastRestart == {"starting", "recording"}

(* Whether the phase of a point has already handled u.                     *)
HandledStop(u)    == pc \in PastStop \/ (pc = "stopping" /\ u \notin todo)
HandledRestart(u) == pc \in PastRestart \/ (pc = "restarting" /\ u \notin todo)
HandledStart(u)   == pc = "recording" \/ (pc = "starting" /\ u \notin todo)

(* How far the reconcile has brought a unit: its old or its new             *)
(* configuration, and its new state once it has been handled.              *)
BroughtUnit(u) ==
    /\ u \in cured => AsWanted(u)
    /\ u \notin disturbed =>
          /\ Active(u) => running[u] \in {Wanted(prev, u), Wanted(cur, u)}
          /\ u \in StartUnits(prev) \cap StartUnits(cur) => Active(u)
    /\ u \in Stopped(snap) /\ HandledStop(u) => u \in cured \cup disturbed
    /\ u \in Services \cap StopUnits(cur) /\ HandledStop(u) => ~Active(u)
    /\ u \in Services \cap UnitsToRestart(snap) /\ HandledRestart(u) => u \in cured \cup disturbed
    /\ u \in UnitsToStart(snap) /\ HandledStart(u) => Active(u)

Brought ==
    pc \in Forward =>
        /\ plan.topology \/ Linked(cur) = {} \/ recorded = gen
        /\ pc \in {"restarting", "starting", "recording"} /\ plan.topology =>
              \A u \in Linked(cur) : loaded[u] = cur.content[u]
        /\ \A u \in Units : BroughtUnit(u)

-----------------------------------------------------------------------------
(* A manifest is a projection, the empty one of a missing state file too.  *)
LEMMA Views ==
    ASSUME Booked
    PROVE  cur \in Projections /\ prev \in Projections /\ gen \in Nat /\ recorded \in Nat
<1>1. Nothing \in Projections
  BY SystemdAssumption DEF Nothing, Projections, Modes, Contents, Units
<1>2. gen \in Nat /\ \A g \in 1..gen : manifests[g] \in Projections
  BY DEF Booked, gen
<1>3. recorded \in 0..gen
  BY DEF Booked
<1> QED
  BY <1>1, <1>2, <1>3 DEF cur, prev, M

(* What was decided does not change while the manifests stay.              *)
LEMMA Frame ==
    ASSUME UNCHANGED <<manifests, recorded>>
    PROVE  /\ cur' = cur /\ prev' = prev /\ gen' = gen
           /\ Linked(cur)' = Linked(cur) /\ Linked(prev)' = Linked(prev)
           /\ Owned(cur)' = Owned(cur) /\ Owned(prev)' = Owned(prev)
           /\ StartUnits(cur)' = StartUnits(cur) /\ StartUnits(prev)' = StartUnits(prev)
           /\ StopUnits(cur)' = StopUnits(cur) /\ StopUnits(prev)' = StopUnits(prev)
           /\ \A u : Wanted(cur, u)' = Wanted(cur, u) /\ Wanted(prev, u)' = Wanted(prev, u)
<1>1. cur' = cur /\ prev' = prev /\ gen' = gen
  BY DEF cur, prev, M, gen
<1> QED
  BY <1>1 DEF Linked, Owned, StartUnits, StopUnits, Wanted

LEMMA FrameDecisions ==
    ASSUME UNCHANGED <<manifests, recorded, snap>>
    PROVE  /\ Stopped(snap)' = Stopped(snap)
           /\ UnitsToRestart(snap)' = UnitsToRestart(snap)
           /\ UnitsToStart(snap)' = UnitsToStart(snap)
           /\ ActiveUnlinkedSessions(snap)' = ActiveUnlinkedSessions(snap)
<1>1. cur' = cur
  BY DEF cur, M, gen
<1>2. prev' = prev
  BY DEF prev, M
<1>3. ChangedUnits' = ChangedUnits
  BY <1>1, <1>2 DEF ChangedUnits, Linked, Owned, StopUnits
<1>4. Linked(cur)' = Linked(cur) /\ Linked(prev)' = Linked(prev)
  BY Frame
<1>5. ActiveUnlinkedSessions(snap)' = ActiveUnlinkedSessions(snap)
  BY <1>3, <1>4 DEF ActiveUnlinkedSessions
<1>6. ChangedSessions(snap)' = ChangedSessions(snap)
  BY <1>3, <1>4, <1>5 DEF ChangedSessions
<1>7. UnitsToRestart(snap)' = UnitsToRestart(snap)
  BY <1>3, <1>6, Frame DEF UnitsToRestart
<1>8. UnitsToStart(snap)' = UnitsToStart(snap)
  BY <1>7, Frame DEF UnitsToStart
<1>9. UnitsToStop(snap)' = UnitsToStop(snap)
  BY <1>6, Frame DEF UnitsToStop
<1> QED
  BY <1>5, <1>7, <1>8, <1>9, <1>4 DEF Stopped

LEMMA FrameBegin ==
    ASSUME UNCHANGED <<manifests, recorded>> PROVE Stopped(snap') = Stopped(snap)'
<1>1. cur' = cur /\ prev' = prev
  BY Frame
<1>2. ChangedUnits' = ChangedUnits
  BY <1>1 DEF ChangedUnits, Linked, Owned, StopUnits
<1>3. ChangedSessions(snap)' = ChangedSessions(snap')
  BY <1>2, Frame DEF ChangedSessions, ActiveUnlinkedSessions
<1>4. UnitsToStop(snap)' = UnitsToStop(snap')
  BY <1>3, Frame DEF UnitsToStop
<1> QED
  BY <1>4, Frame DEF Stopped

-----------------------------------------------------------------------------
(* What users do, the steps of a reconcile on one unit, and all its others.*)
Visit(u)  == Launch(u) \/ Exit(u) \/ Activate(u)
Handle(u) == StopUnit(u) \/ SetLink(u) \/ RemoveLink(u) \/ RestartUnit(u) \/ StartUnit(u)
                \/ RestoreLink(u) \/ RestoreUnit(u)
FailsAt(u) == StopFails(u) \/ SetLinkFails(u) \/ RemoveLinkFails(u) \/ RestartFails(u)
                \/ StartFails(u)
Aborts == ReloadFails \/ RecordFails \/ \E u \in Units : FailsAt(u)
Quits  == RestoreLinksFails \/ Kill

(* The steps of the system, by what they do to a reconcile.                *)
LEMMA Steps ==
    ASSUME [Next]_vars
    PROVE  \/ UNCHANGED vars
           \/ \E m \in Manifests : Publish(m)
           \/ Refuse \/ Noop \/ Begin \/ NextPhase \/ Reload \/ Record \/ RestoreReload \/ Report
           \/ Aborts \/ Quits
           \/ \E u \in Units : Visit(u) \/ Handle(u) \/ RestoreUnitFails(u)
  BY Zenon DEF Next, Visit, Handle, FailsAt, Aborts, Quits

(* What a failing command and the end of an attempt have in common.        *)
LEMMA AbortsEffect ==
    ASSUME Aborts
    PROVE  /\ Fails
           /\ pc \in Forward
           /\ disrupted \subseteq disrupted' /\ cured' = cured
  BY DEF Aborts, FailsAt, ReloadFails, RecordFails, StopFails, SetLinkFails, RemoveLinkFails,
         RestartFails, StartFails, At, Forward, NoteSession

LEMMA VisitEffect ==
    ASSUME NEW u \in Units, Visit(u)
    PROVE  /\ UNCHANGED <<disk, loaded, pc, todo, outcome, faults, snap, live, plan, disrupted,
                          before, lost, failedAt>>
           /\ disturbed' \in {disturbed, disturbed \cup {u}} /\ cured' \in {cured, cured \ {u}}
  BY DEF Visit, Launch, Exit, Activate, ComesUp, attempt

LEMMA HandleEffect ==
    ASSUME NEW u \in Units, Handle(u)
    PROVE  /\ UNCHANGED <<manifests, recorded, loaded, pc, outcome, faults, disturbed, snap, live, plan,
                          before, failedAt>>
           /\ u \in todo /\ todo' = todo \ {u} /\ pc \in Points \ {"idle"}
  BY DEF Handle, StopUnit, SetLink, RemoveLink, RestartUnit, StartUnit, RestoreLink, RestoreUnit,
         Done, At, Points, disk

LEMMA BookedStays == Booked /\ [Next]_vars => Booked'
<1> SUFFICES ASSUME Booked, [Next]_vars PROVE Booked'
  OBVIOUS
<1>1. ASSUME UNCHANGED <<manifests, recorded>> PROVE Booked'
  BY <1>1 DEF Booked, gen
<1>2. CASE \E m \in Manifests : Publish(m)
  <2>1. PICK m \in Manifests : Publish(m)
    BY <1>2
  <2>2. m \in Projections /\ manifests' = Append(manifests, m) /\ gen < MaxGen /\ recorded' = recorded
    BY <2>1, SystemdAssumption DEF Publish
  <2> QED
    BY <2>2, SystemdAssumption DEF Booked, gen
<1>3. CASE Record
  BY <1>3 DEF Record, Booked, gen
<1>4. CASE Aborts
  BY <1>1, <1>4, AbortsEffect DEF Fails
<1>5. CASE \E u \in Units : Visit(u) \/ Handle(u) \/ RestoreUnitFails(u)
  BY <1>1, <1>5, VisitEffect, HandleEffect DEF RestoreUnitFails, disk
<1>6. CASE UNCHANGED vars \/ Refuse \/ Noop \/ Begin \/ NextPhase \/ Reload \/ RestoreReload \/ Report
             \/ Quits
  BY <1>1, <1>6 DEF vars, Refuse, Noop, Begin, NextPhase, Reload, RestoreReload, Report, Quits,
                    RestoreLinksFails, Kill, Ends, disk
<1> QED
  BY <1>2, <1>3, <1>4, <1>5, <1>6, Steps, Zenon

LEMMA PointedStays == Booked /\ Pointed /\ [Next]_vars => Pointed'
<1> SUFFICES ASSUME Booked, Pointed, [Next]_vars PROVE Pointed'
  OBVIOUS
<1>0. gen \in Nat
  BY Views
<1>1. ASSUME UNCHANGED <<link, live, manifests>> PROVE Pointed'
  BY <1>1 DEF Pointed, gen
<1>2. ASSUME UNCHANGED <<link, manifests>>, live' = [u \in Units |-> 0] PROVE Pointed'
  BY <1>0, <1>2 DEF Pointed, gen
<1>3. ASSUME UNCHANGED <<live, manifests>>, NEW u \in Units, NEW g \in 0..gen,
             link' = [link EXCEPT ![u] = g]
      PROVE  Pointed'
  BY <1>3 DEF Pointed, gen
<1>4. CASE \E m \in Manifests : Publish(m)
  <2>1. PICK m \in Manifests : Publish(m)
    BY <1>4
  <2>2. gen' = gen + 1
    BY <2>1 DEF Publish, gen, Booked
  <2>3. link' = link /\ live' = [u \in Units |-> 0]
    BY <2>1 DEF Publish, Forget
  <2> QED
    BY <1>0, <2>2, <2>3 DEF Pointed
<1>5. CASE Begin
  <2>1. UNCHANGED <<link, manifests>> /\ live' = [u \in Units |-> IF Resolves(link[u]) THEN link[u] ELSE 0]
    BY <1>5 DEF Begin, disk
  <2> QED
    BY <1>0, <2>1 DEF Pointed, gen
<1>6. CASE Refuse \/ Noop \/ Record \/ Quits
  BY <1>2, <1>6 DEF Refuse, Noop, Record, Quits, RestoreLinksFails, Kill, Ends, disk, Forget
<1>7. CASE Aborts
  <2>1. UNCHANGED <<live, manifests>>
    BY <1>7, AbortsEffect DEF Fails
  <2>2. CASE UNCHANGED link
    BY <1>1, <2>1, <2>2
  <2>3. CASE \E u \in Units : SetLinkFails(u)
    <3>1. PICK u \in Units : SetLinkFails(u)
      BY <2>3
    <3>2. PICK g \in {0, link[u]} : link' = [link EXCEPT ![u] = g]
      BY <3>1 DEF SetLinkFails
    <3>3. g \in 0..gen
      BY <1>0, <3>2 DEF Pointed
    <3> QED
      BY <1>3, <2>1, <3>2, <3>3
  <2> QED
    BY <1>7, <2>2, <2>3 DEF Aborts, FailsAt, ReloadFails, RecordFails, StopFails, RemoveLinkFails,
       RestartFails, StartFails
<1>8. CASE \E u \in Units : Handle(u)
  <2>1. PICK u \in Units : Handle(u)
    BY <1>8
  <2>2. UNCHANGED <<live, manifests>>
    BY <2>1, HandleEffect
  <2>3. live[u] \in 0..gen /\ gen \in 0..gen /\ 0 \in 0..gen
    BY <1>0 DEF Pointed
  <2>4. CASE SetLink(u) \/ RemoveLink(u) \/ RestoreLink(u)
    BY <1>3, <2>2, <2>3, <2>4 DEF SetLink, RemoveLink, RestoreLink
  <2>5. CASE UNCHANGED link
    BY <1>1, <2>2, <2>5
  <2> QED
    BY <2>1, <2>4, <2>5 DEF Handle, StopUnit, RestartUnit, StartUnit, RestoreUnit, disk
<1>9. CASE \E u \in Units : Visit(u) \/ RestoreUnitFails(u)
  BY <1>1, <1>9, VisitEffect DEF RestoreUnitFails, disk, attempt
<1>10. CASE UNCHANGED vars \/ NextPhase \/ Reload \/ RestoreReload \/ Report
  BY <1>1, <1>10 DEF vars, NextPhase, Reload, RestoreReload, Report, Ends, disk, attempt
<1> QED
  BY <1>4, <1>5, <1>6, <1>7, <1>8, <1>9, <1>10, Steps, Zenon

LEMMA PlacedStays == Booked /\ Remembered /\ Placed /\ [Next]_vars => Placed'
<1> SUFFICES ASSUME Booked, Remembered, Placed, [Next]_vars PROVE Placed'
  OBVIOUS
<1>0. gen \in Nat
  BY Views
<1>1. ASSUME manifests' = manifests, pc' = pc, todo' \subseteq todo, outcome' = outcome PROVE Placed'
  BY <1>1 DEF Placed, gen
<1>2. ASSUME manifests' = manifests, pc # "idle" \/ gen > 0, pc' \in Points, todo' \subseteq Units,
             pc = "idle" => outcome' = "none", outcome' \in {outcome, "none"}
      PROVE  Placed'
  BY <1>2 DEF Placed, gen, Points
<1>3. ASSUME todo' \subseteq todo, pc' = "idle",
             outcome' \in {"none", "ok", "refused", "failed", "disrupted", "manual", "killed"}
      PROVE  Placed'
  BY <1>3 DEF Placed, Points
<1>4. CASE (\E m \in Manifests : Publish(m)) \/ Refuse \/ Noop \/ Record \/ Quits \/ Report
  BY <1>3, <1>4 DEF Publish, Refuse, Noop, Record, Quits, Report, RestoreLinksFails, Kill, Ends
<1>5. Stopped(snap') \subseteq Units /\ Stopped(snap)' \subseteq Units
  BY DEF Stopped, UnitsToStop, Owned, StartUnits, StopUnits, ChangedSessions, ActiveUnlinkedSessions,
         ChangedUnits, Linked
<1>6. /\ Linked(cur) \subseteq Units /\ StaleLinks \subseteq Units /\ UnitsToStart(snap) \subseteq Units
      /\ UnitsToRestart(snap) \subseteq Units /\ Owned(prev) \cup Owned(cur) \subseteq Units
      /\ plan.targets \subseteq Units
  BY DEF Linked, Owned, StaleLinks, UnitsToStart, UnitsToRestart, StartUnits, ChangedUnits, Remembered
<1>7. CASE Begin
  BY <1>0, <1>2, <1>5, <1>7 DEF Begin, disk, Points
<1>8. CASE NextPhase
  BY <1>2, <1>6, <1>8 DEF NextPhase, disk, Points
<1>9. CASE Reload \/ RestoreReload
  BY <1>2, <1>6, <1>9 DEF Reload, RestoreReload, disk, Points
<1>10. CASE Aborts
  BY <1>2, <1>6, <1>10, AbortsEffect DEF Fails, Points, Forward
<1>11. CASE \E u \in Units : Visit(u) \/ Handle(u) \/ RestoreUnitFails(u)
  BY <1>1, <1>11, VisitEffect, HandleEffect DEF RestoreUnitFails, disk
<1>12. CASE UNCHANGED vars
  BY <1>1, <1>12 DEF vars, disk
<1> QED
  BY <1>4, <1>7, <1>8, <1>9, <1>10, <1>11, <1>12, Steps, Zenon

LEMMA CountedStays == Counted /\ [Next]_vars => Counted'
<1> SUFFICES ASSUME Counted, [Next]_vars PROVE Counted'
  OBVIOUS
<1>1. ASSUME UNCHANGED faults, failedAt' \in {failedAt, 0} PROVE Counted'
  BY <1>1, SystemdAssumption DEF Counted
<1>2. ASSUME faults < MaxFaults, faults' = faults + 1, failedAt' \in {failedAt, 0, faults'} PROVE Counted'
  BY <1>2, SystemdAssumption DEF Counted
<1>3. CASE Begin
  <2>1. PICK unknown \in {{}} \cup {{u} : u \in Owned(prev) \cup Owned(cur)} :
            faults + Cardinality(unknown) <= MaxFaults /\ faults' = faults + Cardinality(unknown)
    BY <1>3 DEF Begin
  <2>2. Cardinality(unknown) \in Nat
    <3>1. Cardinality({}) = 0
      BY FS_EmptySet
    <3>2. \A u : Cardinality({u}) = 1
      BY FS_Singleton
    <3> QED
      BY <2>1, <3>1, <3>2
  <2> QED
    BY <1>3, <2>1, <2>2, SystemdAssumption DEF Begin, Counted
<1>4. CASE Aborts
  BY <1>2, <1>4, AbortsEffect DEF Fails
<1>5. CASE \E u \in Units : Visit(u) \/ Handle(u)
  BY <1>1, <1>5, VisitEffect, HandleEffect
<1>6. CASE (\E u \in Units : RestoreUnitFails(u)) \/ Refuse \/ Quits
  BY <1>2, <1>6 DEF RestoreUnitFails, attempt, Refuse, Forget, Quits, RestoreLinksFails, Kill
<1>7. CASE UNCHANGED vars \/ (\E m \in Manifests : Publish(m)) \/ Noop \/ NextPhase \/ Reload \/ Record
             \/ RestoreReload \/ Report
  BY <1>1, <1>7 DEF vars, Publish, Forget, Noop, NextPhase, Reload, Record, RestoreReload, Report, attempt
<1> QED
  BY <1>3, <1>4, <1>5, <1>6, <1>7, Steps, Zenon

(* What a link leads to and what can be started is a content.              *)
LEMMA Startables ==
    ASSUME Booked, Pointed, Loading
    PROVE  /\ \A u \in Units : FileContent(u) \in 0..MaxContent /\ Startable(u) \in 0..MaxContent
           /\ Reloaded \in [Units -> 0..MaxContent]
           /\ \A m \in Projections, u \in Units : m.content[u] \in 1..MaxContent
<1>1. \A m \in Projections, u \in Units : m.content[u] \in 1..MaxContent
  BY DEF Projections, Contents
<1>2. ASSUME NEW u \in Units PROVE FileContent(u) \in 0..MaxContent
  <2>1. CASE Resolves(link[u])
    <3>1. link[u] \in 1..Len(manifests)
      BY <2>1 DEF Resolves, Pointed, gen
    <3>2. manifests[link[u]] \in Projections
      BY <3>1 DEF Booked
    <3> QED
      BY <1>1, <2>1, <3>1, <3>2 DEF FileContent, M
  <2>2. CASE ~Resolves(link[u])
    BY <2>2, SystemdAssumption DEF FileContent
  <2> QED
    BY <2>1, <2>2
<1> QED
  BY <1>1, <1>2 DEF Startable, Reloaded, Loading

LEMMA LoadingStays == Booked /\ Pointed /\ Loading /\ [Next]_vars => Loading'
<1> SUFFICES ASSUME Booked, Pointed, Loading, [Next]_vars PROVE Loading'
  OBVIOUS
<1>0. 0 \in 0..MaxContent /\ [u \in Units |-> 0] \in [Units -> 0..MaxContent]
  BY SystemdAssumption
<1>1. ASSUME loaded' \in {loaded, Reloaded}, before' \in {before, running, [u \in Units |-> 0]},
             running' \in [Units -> 0..MaxContent]
      PROVE  Loading'
  BY <1>0, <1>1, Startables DEF Loading
<1>2. running \in [Units -> 0..MaxContent]
  BY DEF Loading
<1>3. ASSUME NEW u \in Units, NEW c \in {0, running[u], Startable(u)}
      PROVE  [running EXCEPT ![u] = c] \in [Units -> 0..MaxContent]
  BY <1>0, <1>2, <1>3, Startables
<1>4. CASE \E u \in Units : Visit(u)
  <2>1. PICK u \in Units : Visit(u)
    BY <1>4
  <2>2. \A g \in 1..gen : M(g).content[u] \in 0..MaxContent
    BY Startables DEF Booked, gen, M
  <2>3. PICK c \in 0..MaxContent : running' = [running EXCEPT ![u] = c]
    BY <1>0, <2>1, <2>2, Startables DEF Visit, Launch, Exit, Activate, ComesUp
  <2>4. UNCHANGED <<loaded, before>>
    BY <2>1, VisitEffect
  <2> QED
    BY <1>1, <1>2, <2>3, <2>4
<1>5. ASSUME NEW u \in Units PROVE Started(u) \in [Units -> 0..MaxContent]
  <2>1. Started(u) = [running EXCEPT ![u] = IF running[u] # 0 THEN running[u] ELSE Startable(u)]
    BY <1>2 DEF Started
  <2> QED
    BY <1>3, <2>1
<1>6. CASE \E u \in Units : Handle(u)
  <2>1. PICK u \in Units : Handle(u)
    BY <1>6
  <2>2. UNCHANGED <<loaded, before>>
    BY <2>1, HandleEffect
  <2>3. CASE RestartUnit(u)
    <3>1. PICK c \in {running[u], Startable(u)} : running' = [running EXCEPT ![u] = c]
      BY <2>3, <1>2 DEF RestartUnit
    <3> QED
      BY <1>1, <1>3, <2>2, <3>1
  <2>4. running' \in {running, [running EXCEPT ![u] = 0], Started(u)} \/ RestartUnit(u)
    BY <2>1 DEF Handle, StopUnit, SetLink, RemoveLink, StartUnit, RestoreLink, RestoreUnit
  <2> QED
    BY <1>1, <1>2, <1>3, <1>5, <2>2, <2>3, <2>4
<1>7. CASE Aborts
  <2>1. before' = before
    BY <1>7, AbortsEffect DEF Fails
  <2>2. CASE \E u \in Units : StopFails(u) \/ RestartFails(u)
    <3>1. PICK u \in Units : StopFails(u) \/ RestartFails(u)
      BY <2>2
    <3>2. \E c \in {0, running[u], Startable(u)} : running' = [running EXCEPT ![u] = c]
      BY <3>1 DEF StopFails, RestartFails
    <3>3. loaded' = loaded
      BY <3>1 DEF StopFails, RestartFails
    <3> QED
      BY <1>1, <1>3, <2>1, <3>2, <3>3
  <2>3. CASE \E u \in Units : StartFails(u)
    BY <1>1, <1>2, <1>5, <2>1, <2>3 DEF StartFails
  <2>4. CASE ReloadFails \/ RecordFails \/ \E u \in Units : SetLinkFails(u) \/ RemoveLinkFails(u)
    BY <1>1, <1>2, <2>1, <2>4 DEF ReloadFails, RecordFails, SetLinkFails, RemoveLinkFails
  <2> QED
    BY <1>7, <2>2, <2>3, <2>4, Zenon DEF Aborts, FailsAt
<1>8. CASE (\E u \in Units : RestoreUnitFails(u)) \/ UNCHANGED vars \/ NextPhase \/ Reload \/ RestoreReload
             \/ Report
  BY <1>1, <1>2, <1>8 DEF RestoreUnitFails, vars, NextPhase, Reload, RestoreReload, Report, Ends, attempt
<1>9. CASE (\E m \in Manifests : Publish(m)) \/ Refuse \/ Noop \/ Record \/ Quits
  BY <1>1, <1>2, <1>9 DEF Publish, Refuse, Noop, Record, Quits, RestoreLinksFails, Kill, Ends, Forget
<1>10. CASE Begin
  BY <1>1, <1>2, <1>10 DEF Begin
<1> QED
  BY <1>4, <1>6, <1>7, <1>8, <1>9, <1>10, Steps, Zenon

LEMMA RememberedStays == Remembered /\ [Next]_vars => Remembered'
<1> SUFFICES ASSUME Remembered, [Next]_vars PROVE Remembered'
  OBVIOUS
<1>1. ASSUME UNCHANGED <<snap, plan>>, disrupted' \subseteq Sessions, lost' \subseteq Sessions,
             cured' \subseteq Units, disturbed' \subseteq Units
      PROVE  Remembered'
  BY <1>1 DEF Remembered
<1>2. ASSUME Forget, disturbed' \subseteq Units PROVE Remembered'
  BY <1>2 DEF Forget, Remembered
<1>3. CASE (\E m \in Manifests : Publish(m)) \/ Refuse \/ Noop \/ Record \/ Quits
  BY <1>2, <1>3 DEF Publish, Refuse, Noop, Record, Quits, RestoreLinksFails, Kill, Ends, Remembered
<1>4. CASE Begin
  <2>1. snap' \in [Units -> {"yes", "no", "unknown"}]
    BY <1>4 DEF Begin
  <2>2. Linked(cur) \cup StaleLinks \subseteq Units
    BY DEF Linked, Owned, StaleLinks
  <2>3. TopologyChanged \in BOOLEAN
    BY DEF TopologyChanged
  <2> QED
    BY <1>4, <2>1, <2>2, <2>3 DEF Begin, Remembered
<1>5. CASE (\E u \in Units : RestoreUnitFails(u)) \/ UNCHANGED vars \/ NextPhase \/ Reload \/ RestoreReload
             \/ Report
  BY <1>1, <1>5 DEF RestoreUnitFails, vars, NextPhase, Reload, RestoreReload, Report, Ends, attempt, Remembered
<1>6. CASE \E u \in Units : Visit(u)
  BY <1>1, <1>6, VisitEffect DEF Remembered
<1>7. ASSUME NEW u \in Units, NoteSession(u) \/ disrupted' = disrupted, NoteLoss(u) \/ lost' = lost
      PROVE  disrupted' \subseteq Sessions /\ lost' \subseteq Sessions
  BY <1>7 DEF NoteSession, NoteLoss, Remembered
<1>8. CASE \E u \in Units : Handle(u)
  <2>1. PICK u \in Units : Handle(u)
    BY <1>8
  <2>2. disrupted' \subseteq Sessions /\ lost' \subseteq Sessions
    BY <1>7, <2>1 DEF Handle, StopUnit, SetLink, RemoveLink, RestartUnit, StartUnit, RestoreLink, RestoreUnit
  <2>3. cured' \subseteq cured \cup {u}
    BY <2>1 DEF Handle, StopUnit, SetLink, RemoveLink, RestartUnit, StartUnit, RestoreLink, RestoreUnit
  <2> QED
    BY <1>1, <2>1, <2>2, <2>3, HandleEffect DEF Remembered
<1>9. CASE Aborts
  <2>1. disrupted' \subseteq Sessions /\ lost' \subseteq Sessions
    BY <1>7, <1>9 DEF Aborts, FailsAt, StopFails, SetLinkFails, RemoveLinkFails, RestartFails, StartFails,
                      ReloadFails, RecordFails, Remembered
  <2> QED
    BY <1>1, <1>9, <2>1, AbortsEffect DEF Remembered, Fails
<1> QED
  BY <1>3, <1>4, <1>5, <1>6, <1>8, <1>9, Steps, Zenon

-----------------------------------------------------------------------------
(* The links that a reconcile still has to make or remove.                 *)
LEMMA LinkingStays == Booked /\ Placed /\ Pointed /\ Linking /\ [Next]_vars => Linking'
<1> SUFFICES ASSUME Booked, Placed, Pointed, Linking, [Next]_vars PROVE Linking'
  OBVIOUS
<1>0. /\ gen \in Nat /\ link \in [Units -> 0..gen] /\ Linked(cur) \subseteq Units
      /\ outcome # "none" => pc = "idle"
  BY Views DEF Pointed, Linked, Owned, Placed
<1>1. ASSUME manifests' = manifests PROVE gen' = gen /\ Linked(cur)' = Linked(cur)
  BY <1>1 DEF gen, cur, M, Linked, Owned, StopUnits
<1>2. ASSUME manifests' = manifests, link' = link
      PROVE  \A u \in Units : Right(u) => Right(u)'
  BY <1>1, <1>2 DEF Right
<1>3. ASSUME UNCHANGED <<manifests, link, pc, todo, outcome>> PROVE Linking'
  BY <1>0, <1>1, <1>2, <1>3 DEF Linking
<1>4. ASSUME pc' \notin {"linking", "unlinking"} \cup Relinked, outcome' # "ok" PROVE Linking'
  BY <1>4 DEF Linking
<1>5. ASSUME \A u \in Units : Right(u), manifests' = manifests, link' = link,
             pc' \notin {"linking", "unlinking"}
      PROVE  Linking'
  BY <1>2, <1>5 DEF Linking
<1>6. CASE (\E m \in Manifests : Publish(m)) \/ Refuse \/ Begin \/ Quits \/ Report
  BY <1>4, <1>6 DEF Publish, Refuse, Begin, Quits, RestoreLinksFails, Kill, Report, Ends, Relinked
<1>7. CASE Aborts \/ RestoreReload
  BY <1>0, <1>4, <1>7, AbortsEffect DEF RestoreReload, Fails, Relinked, Forward
<1>8. CASE Noop
  <2>1. ~TopologyChanged /\ pc' = "idle" /\ UNCHANGED <<manifests, link>>
    BY <1>8 DEF Noop, Unchanged, disk
  <2>2. ASSUME NEW u \in Units PROVE Right(u)
    BY <2>1 DEF TopologyChanged, StaleLinks, Right
  <2> QED
    BY <1>5, <2>1, <2>2
<1>9. CASE Record
  BY <1>5, <1>9 DEF Record, Linking, Relinked
<1>10. CASE Reload
  BY <1>5, <1>10 DEF Reload, Linking, Relinked, disk
<1>11. CASE NextPhase
  <2>1. UNCHANGED <<manifests, link>> /\ outcome' = outcome /\ todo = {} /\ pc # "idle"
    BY <1>11 DEF NextPhase, disk
  <2>2. CASE pc' = "linking"
    <3>1. todo' = Linked(cur)
      BY <1>11, <2>2 DEF NextPhase
    <3> QED
      BY <1>0, <1>1, <2>1, <2>2, <3>1 DEF Linking, Relinked
  <2>3. CASE pc' = "unlinking"
    <3>1. pc = "linking" /\ todo' = StaleLinks
      BY <1>11, <2>3 DEF NextPhase
    <3>2. \A u \in Units : Right(u) \/ u \in StaleLinks
      BY <2>1, <3>1 DEF Linking, Right, StaleLinks
    <3>3. StaleLinks \cap Linked(cur) = {}
      BY DEF StaleLinks
    <3> QED
      BY <1>0, <1>1, <1>2, <2>1, <2>3, <3>1, <3>2, <3>3 DEF Linking, Relinked
  <2>4. CASE pc' \in Relinked
    <3>1. \A u \in Units : Right(u)
      BY <1>11, <2>1, <2>4 DEF NextPhase, Linking, Relinked
    <3> QED
      BY <1>5, <2>1, <2>4, <3>1 DEF Relinked
  <2> QED
    BY <1>0, <1>4, <2>1, <2>2, <2>3, <2>4
<1>12. CASE \E u \in Units : Handle(u)
  <2>1. PICK u \in Units : Handle(u)
    BY <1>12
  <2>2. /\ UNCHANGED <<manifests, recorded, pc, outcome>> /\ u \in todo /\ todo' = todo \ {u} /\ pc # "idle"
        /\ outcome = "none"
    BY <1>0, <2>1, HandleEffect
  <2>3. CASE SetLink(u)
    <3>1. pc = "linking" /\ link' = [link EXCEPT ![u] = gen]
      BY <2>3 DEF SetLink, At
    <3> QED
      BY <1>0, <1>1, <2>2, <3>1 DEF Linking, Relinked
  <2>4. CASE RemoveLink(u)
    <3>1. pc = "unlinking" /\ link' = [link EXCEPT ![u] = 0] /\ u \notin Linked(cur)
      BY <2>2, <2>4 DEF RemoveLink, At, Linking
    <3>2. Right(u)'
      BY <1>0, <1>1, <2>2, <3>1 DEF Right
    <3>3. \A x \in Units \ {u} : Right(x) => Right(x)'
      BY <1>0, <1>1, <2>2, <3>1 DEF Right
    <3> QED
      BY <1>0, <1>1, <2>2, <3>1, <3>2, <3>3 DEF Linking, Relinked
  <2>5. CASE RestoreLink(u) \/ RestoreUnit(u)
    BY <1>4, <2>2, <2>5 DEF RestoreLink, RestoreUnit, At, Relinked
  <2>6. CASE StopUnit(u)
    BY <1>4, <2>2, <2>6 DEF StopUnit, At, Relinked
  <2>7. CASE RestartUnit(u) \/ StartUnit(u)
    BY <1>5, <2>2, <2>7 DEF RestartUnit, StartUnit, At, Relinked, Linking, disk
  <2> QED
    BY <2>1, <2>3, <2>4, <2>5, <2>6, <2>7 DEF Handle
<1>13. CASE \E u \in Units : RestoreUnitFails(u)
  BY <1>0, <1>4, <1>13 DEF RestoreUnitFails, At, Relinked
<1>14. CASE (\E u \in Units : Visit(u)) \/ UNCHANGED vars
  BY <1>3, <1>14, VisitEffect DEF vars, disk
<1> QED
  BY <1>6, <1>7, <1>8, <1>9, <1>10, <1>11, <1>12, <1>13, <1>14, Steps, Zenon

-----------------------------------------------------------------------------
(* The links that a restoration still has to put back.                     *)
LEMMA ReturnableStays ==
    Booked /\ Placed /\ Pointed /\ Remembered /\ Returnable /\ [Next]_vars => Returnable'
<1> SUFFICES ASSUME Booked, Placed, Pointed, Remembered, Returnable, [Next]_vars PROVE Returnable'
  OBVIOUS
<1>0. /\ gen \in Nat /\ link \in [Units -> 0..gen] /\ live \in [Units -> 0..gen]
      /\ plan.targets \subseteq Units /\ Linked(cur) \subseteq Units /\ Linked(prev) \subseteq Units
      /\ outcome # "none" => pc = "idle"
  BY Views DEF Pointed, Remembered, Linked, Owned, Placed
<1>1. ASSUME UNCHANGED <<manifests, recorded>>
      PROVE  /\ Linked(cur)' = Linked(cur) /\ Linked(prev)' = Linked(prev)
             /\ \A g : Resolves(g)' = Resolves(g)
  BY <1>1, Frame DEF Resolves
<1>2. ASSUME pc' = "idle", outcome' # "failed" PROVE Returnable'
  BY <1>2 DEF Returnable
<1>3. ASSUME UNCHANGED <<manifests, recorded, link, live, plan, pc, outcome>>,
             todo' = todo \/ pc \notin {"linking", "unlinking", "restoringLinks"}
      PROVE  Returnable'
  BY <1>1, <1>3 DEF Returnable
<1>4. ASSUME UNCHANGED <<manifests, recorded, live, plan, outcome>>, pc # "idle",
             \A u \in Units \ plan.targets : link'[u] = link[u],
             pc' \in {"linking", "unlinking"} => todo' \subseteq plan.targets,
             pc' = "restoringLinks" => \A u \in Units \ todo' : link'[u] = live[u],
             pc' \in {"restoringReload", "restoringUnits"} => link' = live
      PROVE  Returnable'
  BY <1>0, <1>1, <1>4 DEF Returnable
<1>5. CASE (\E m \in Manifests : Publish(m)) \/ Refuse \/ Noop \/ Record \/ Quits
  BY <1>2, <1>5 DEF Publish, Refuse, Noop, Record, Quits, RestoreLinksFails, Kill, Ends
<1>6. CASE Report
  <2>1. pc = "restoringUnits" /\ pc' = "idle" /\ UNCHANGED <<link, live>>
    BY <1>6 DEF Report, Ends, disk, attempt
  <2> QED
    BY <2>1 DEF Returnable
<1>7. CASE Begin
  <2>1. /\ UNCHANGED <<manifests, recorded, link>> /\ pc' = "stopping" /\ outcome' = "none"
        /\ live' = [u \in Units |-> IF Resolves(link[u]) THEN link[u] ELSE 0]
        /\ plan'.targets = Linked(cur) \cup StaleLinks
    BY <1>7 DEF Begin, disk
  <2>2. Linked(cur) \cup Linked(prev) \subseteq plan'.targets
    BY <2>1 DEF StaleLinks
  <2>3. \A u \in Units \ plan'.targets : link[u] = 0
    BY <2>1 DEF StaleLinks
  <2>4. \A u \in Units \ plan'.targets : live'[u] = 0
    BY <2>1, <2>3
  <2>5. \A u \in Units : live'[u] # 0 => Resolves(live'[u])
    BY <2>1
  <2> QED
    BY <1>1, <2>1, <2>2, <2>3, <2>4, <2>5 DEF Returnable
<1>8. CASE NextPhase
  <2>1. UNCHANGED <<manifests, recorded, live, plan, outcome, link>> /\ pc # "idle" /\ todo = {}
    BY <1>8 DEF NextPhase, disk, attempt
  <2>2. Linked(cur) \subseteq plan.targets /\ StaleLinks \subseteq plan.targets
    BY <2>1 DEF Returnable, StaleLinks
  <2>3. pc' \in {"linking", "unlinking"} => todo' \subseteq plan.targets
    BY <2>2, <1>8 DEF NextPhase
  <2>4. pc' # "restoringLinks" /\ pc' # "restoringUnits" /\ (pc' = "restoringReload" => pc = "restoringLinks")
    BY <1>8 DEF NextPhase
  <2>5. pc = "restoringLinks" => link = live
    <3> SUFFICES ASSUME pc = "restoringLinks" PROVE link = live
      OBVIOUS
    <3>1. \A u \in Units : link[u] = live[u]
      BY <2>1 DEF Returnable
    <3> QED
      BY <1>0, <3>1
  <2> QED
    BY <1>4, <2>1, <2>3, <2>4, <2>5
<1>9. CASE Reload
  BY <1>4, <1>9 DEF Reload, disk, attempt
<1>10. CASE RestoreReload
  BY <1>4, <1>10 DEF RestoreReload, disk, attempt, Returnable
<1>11. CASE Aborts
  <2>1. /\ UNCHANGED <<manifests, recorded, live, plan, outcome>>
        /\ pc' = "restoringLinks" /\ todo' = plan.targets /\ pc \in Forward
    BY <1>11, AbortsEffect DEF Fails
  <2>2. pc # "idle"
    BY <2>1 DEF Forward
  <2>3. CASE link' = link
    BY <1>4, <2>1, <2>2, <2>3 DEF Returnable
  <2>4. CASE \E u \in Units : SetLinkFails(u)
    <3>1. PICK u \in Units : SetLinkFails(u)
      BY <2>4
    <3>2. u \in plan.targets
      BY <3>1 DEF SetLinkFails, At, Returnable
    <3>3. \A x \in Units \ {u} : link'[x] = link[x]
      BY <1>0, <3>1 DEF SetLinkFails
    <3> QED
      BY <1>4, <2>1, <2>2, <3>2, <3>3 DEF Returnable
  <2> QED
    BY <1>11, <2>3, <2>4 DEF Aborts, FailsAt, ReloadFails, RecordFails, StopFails, RemoveLinkFails,
       RestartFails, StartFails
<1>12. CASE \E u \in Units : Handle(u)
  <2>1. PICK u \in Units : Handle(u)
    BY <1>12
  <2>2. /\ UNCHANGED <<manifests, recorded, pc, outcome, live, plan>> /\ u \in todo /\ todo' = todo \ {u}
        /\ pc # "idle" /\ outcome = "none"
    BY <1>0, <2>1, HandleEffect
  <2>3. CASE SetLink(u) \/ RemoveLink(u)
    <3>1. pc \in {"linking", "unlinking"}
      BY <2>3 DEF SetLink, RemoveLink, At
    <3>2. \A x \in Units \ {u} : link'[x] = link[x]
      BY <1>0, <2>3 DEF SetLink, RemoveLink
    <3>3. todo \subseteq plan.targets
      BY <3>1 DEF Returnable
    <3> QED
      BY <1>4, <2>2, <3>1, <3>2, <3>3
  <2>4. CASE RestoreLink(u)
    <3>1. pc = "restoringLinks" /\ link' = [link EXCEPT ![u] = live[u]]
      BY <2>4 DEF RestoreLink, At
    <3>2. link'[u] = live[u] /\ \A x \in Units \ {u} : link'[x] = link[x]
      BY <1>0, <3>1
    <3>3. \A x \in Units \ todo' : link'[x] = live[x]
      BY <2>2, <3>1, <3>2 DEF Returnable
    <3>4. \A x \in Units \ plan.targets : link'[x] = link[x]
      BY <2>2, <3>2 DEF Returnable
    <3> QED
      BY <1>4, <2>2, <3>1, <3>3, <3>4
  <2>5. CASE StopUnit(u) \/ RestartUnit(u) \/ StartUnit(u) \/ RestoreUnit(u)
    BY <1>3, <2>2, <2>5 DEF StopUnit, RestartUnit, StartUnit, RestoreUnit, At, disk
  <2> QED
    BY <2>1, <2>3, <2>4, <2>5 DEF Handle
<1>13. CASE \E u \in Units : RestoreUnitFails(u)
  BY <1>3, <1>13 DEF RestoreUnitFails, At, disk, attempt
<1>14. CASE (\E u \in Units : Visit(u)) \/ UNCHANGED vars
  BY <1>3, <1>14, VisitEffect DEF vars, disk, attempt
<1> QED
  BY <1>5, <1>6, <1>7, <1>8, <1>9, <1>10, <1>11, <1>12, <1>13, <1>14, Steps, Zenon

(* The units of a phase are among those that were decided on.              *)
LEMMA DecidedStays == Decided /\ [Next]_vars => Decided'
<1> SUFFICES ASSUME Decided, [Next]_vars PROVE Decided'
  OBVIOUS
<1>1. ASSUME UNCHANGED <<manifests, recorded, snap, pc>>, todo' \subseteq todo PROVE Decided'
  BY <1>1, FrameDecisions DEF Decided
<1>2. ASSUME pc' \notin {"stopping", "restarting", "starting"} PROVE Decided'
  BY <1>2 DEF Decided
<1>3. CASE (\E m \in Manifests : Publish(m)) \/ Refuse \/ Noop \/ Record \/ Quits \/ Report \/ RestoreReload
  BY <1>2, <1>3 DEF Publish, Refuse, Noop, Record, Quits, RestoreLinksFails, Kill, Ends, Report, RestoreReload
<1>4. CASE Aborts
  BY <1>2, <1>4, AbortsEffect DEF Fails
<1>5. CASE Begin
  <2>1. UNCHANGED <<manifests, recorded>> /\ pc' = "stopping" /\ todo' = Stopped(snap')
    BY <1>5 DEF Begin, disk
  <2>2. Stopped(snap') = Stopped(snap)'
    BY <2>1, FrameBegin
  <2> QED
    BY <2>1, <2>2 DEF Decided
<1>6. CASE NextPhase
  BY <1>6, FrameDecisions DEF NextPhase, disk, attempt, Decided
<1>7. CASE Reload
  BY <1>7, FrameDecisions DEF Reload, disk, attempt, Decided
<1>8. CASE (\E u \in Units : Visit(u) \/ Handle(u) \/ RestoreUnitFails(u)) \/ UNCHANGED vars
  BY <1>1, <1>8, VisitEffect, HandleEffect DEF RestoreUnitFails, vars, disk, attempt
<1> QED
  BY <1>3, <1>4, <1>5, <1>6, <1>7, <1>8, Steps, Zenon

(* A session that the reconcile stops and may have ended is noted.         *)
LEMMA StoppedNoted ==
    ASSUME NEW u \in Sessions \cap Stopped(snap), snap[u] = "yes"
    PROVE  u \in Owned(prev) \cup ActiveUnlinkedSessions(snap)
  BY DEF Stopped, UnitsToStop, Owned, StartUnits, StopUnits, ChangedSessions, Linked

LEMMA NotedStays == Placed /\ Decided /\ Noted /\ [Next]_vars => Noted'
<1> SUFFICES ASSUME Placed, Decided, Noted, [Next]_vars PROVE Noted'
  OBVIOUS
<1>0. outcome # "none" => pc = "idle"
  BY DEF Placed
<1>1. ASSUME outcome' \in {outcome, "none"}, lost' = lost, pc = "idle" => pc' = "idle",
             disrupted \subseteq disrupted'
      PROVE  Noted'
  BY <1>1 DEF Noted
<1>2. ASSUME lost' = {} PROVE Noted'
  BY <1>2 DEF Noted
<1>3. CASE (\E m \in Manifests : Publish(m)) \/ Refuse \/ Noop \/ Record \/ Quits \/ Begin
  BY <1>2, <1>3 DEF Publish, Refuse, Noop, Record, Quits, RestoreLinksFails, Kill, Begin, Forget
<1>4. CASE Report
  BY <1>4 DEF Report, Ends, attempt, Noted
<1>5. CASE NextPhase \/ Reload \/ RestoreReload
  BY <1>1, <1>5 DEF NextPhase, Reload, RestoreReload, attempt
<1>6. ASSUME NEW u \in Units, StopUnit(u) \/ StopFails(u) PROVE Noted'
  <2>1. /\ u \in Stopped(snap) /\ NoteSession(u) /\ NoteLoss(u) /\ pc = "stopping" /\ outcome' = outcome
        /\ snap' = snap
    BY <1>6 DEF StopUnit, StopFails, At, Decided, Done, Fails
  <2>2. lost' = lost \/ (lost' = lost \cup {u} /\ u \in Sessions /\ snap[u] = "yes")
    BY <2>1 DEF NoteLoss
  <2>3. disrupted \subseteq disrupted'
    BY <2>1 DEF NoteSession
  <2>4. u \in Sessions /\ snap[u] = "yes" => u \in disrupted'
    BY <2>1, StoppedNoted DEF NoteSession
  <2> QED
    BY <1>0, <2>1, <2>2, <2>3, <2>4 DEF Noted
<1>7. CASE Aborts
  BY <1>0, <1>1, <1>6, <1>7, AbortsEffect
  DEF Aborts, FailsAt, SetLinkFails, RemoveLinkFails, RestartFails, StartFails, ReloadFails, RecordFails,
      Fails, Forward
<1>8. CASE \E u \in Units : Handle(u)
  BY <1>1, <1>6, <1>8, HandleEffect
  DEF Handle, SetLink, RemoveLink, RestartUnit, StartUnit, RestoreLink, RestoreUnit
<1>9. CASE (\E u \in Units : Visit(u) \/ RestoreUnitFails(u)) \/ UNCHANGED vars
  BY <1>1, <1>9, VisitEffect DEF RestoreUnitFails, vars, attempt
<1> QED
  BY <1>3, <1>4, <1>5, <1>7, <1>8, <1>9, Steps, Zenon

-----------------------------------------------------------------------------
(* A reconcile handles no service that neither manifest owns.              *)
LEMMA OwnedOnly ==
    /\ Stopped(snap) \cap Services \subseteq Owned(prev) \cup Owned(cur)
    /\ UnitsToRestart(snap) \subseteq Owned(cur)
    /\ UnitsToStart(snap) \subseteq Owned(cur)
<1>1. Services \cap Sessions = {}
  BY SystemdAssumption
<1> QED
  BY <1>1 DEF Stopped, UnitsToStop, UnitsToRestart, UnitsToStart, Owned, StartUnits, StopUnits,
              ChangedSessions, ActiveUnlinkedSessions

(* A unit whose link leads somewhere can be started.                       *)
LEMMA StartsFromLink ==
    ASSUME Booked, Pointed, Loading, NEW u \in Units, Resolves(link[u])
    PROVE  Startable(u) # 0
<1>1. link[u] \in 1..Len(manifests)
  BY DEF Resolves, Pointed, gen
<1>2. manifests[link[u]] \in Projections
  BY <1>1 DEF Booked
<1>3. M(link[u]).content[u] \in 1..MaxContent
  BY <1>1, <1>2, Startables DEF M
<1> QED
  BY <1>3 DEF Startable, FileContent

(* Activity that a restoration still has to put back.                      *)
LEMMA ReturnedStays ==
    Booked /\ Pointed /\ Placed /\ Loading /\ Remembered /\ Counted /\ Returnable /\ Decided /\ Returned
        /\ [Next]_vars => Returned'
<1> SUFFICES ASSUME Booked, Pointed, Placed, Loading, Remembered, Counted, Returnable, Decided, Returned,
                    [Next]_vars
             PROVE  Returned'
  OBVIOUS
<1> DEFINE Mine == Owned(prev) \cup Owned(cur)
<1>0. /\ running \in [Units -> 0..MaxContent] /\ faults \in Nat /\ failedAt \in Nat
      /\ Services \subseteq Units /\ Services \cap Sessions = {} /\ disrupted \subseteq Sessions
      /\ outcome # "none" => pc = "idle"
  BY SystemdAssumption DEF Loading, Counted, Units, Remembered, Placed
<1>1. ASSUME UNCHANGED <<manifests, recorded>> PROVE cur' = cur /\ Mine' = Mine
  BY <1>1, Frame
<1>2. ASSUME pc' = "idle", outcome' # "failed" PROVE Returned'
  BY <1>2 DEF Returned, Restoring
<1>3. ASSUME UNCHANGED <<manifests, recorded, snap, live, faults, failedAt>>, NEW u, running'[u] = running[u]
      PROVE  /\ Returns(u) => Returns(u)'
             /\ Active(u)' = Active(u)
  <2>1. Active(u)' = Active(u)
    BY <1>3 DEF Active
  <2> QED
    BY <1>1, <1>3, <2>1 DEF Returns
\* A service that is not handled keeps its state, and its record.
<1>4. ASSUME UNCHANGED <<manifests, recorded, snap, outcome>>, pc # "idle",
             pc' \notin Restoring,
             \A u \in Services \ Mine : running'[u] = running[u]
      PROVE  Returned'
  <2>1. \A u \in Services \ Mine : Active(u)' = Active(u)
    BY <1>4 DEF Active
  <2> QED
    BY <1>0, <1>1, <1>4, <2>1 DEF Returned, Restoring
<1>5. CASE (\E m \in Manifests : Publish(m)) \/ Refuse \/ Noop \/ Record \/ Quits
  BY <1>2, <1>5 DEF Publish, Refuse, Noop, Record, Quits, RestoreLinksFails, Kill, Ends
<1>6. CASE Begin
  <2>1. PICK unknown \in {{}} \cup {{u} : u \in Mine} :
          snap' = [u \in Units |-> IF u \in unknown THEN "unknown" ELSE IF Active(u) THEN "yes" ELSE "no"]
    BY <1>6 DEF Begin
  <2>2. UNCHANGED <<manifests, recorded, running>> /\ pc' = "stopping" /\ outcome' = "none"
    BY <1>6 DEF Begin, disk
  <2>3. \A u \in Services \ Mine : snap'[u] = (IF Active(u) THEN "yes" ELSE "no")
    BY <1>0, <2>1
  <2>4. \A u : Active(u)' = Active(u)
    BY <2>2 DEF Active
  <2> QED
    BY <1>1, <2>2, <2>3, <2>4 DEF Returned, Restoring
<1>7. CASE Reload
  BY <1>4, <1>7 DEF Reload, disk, attempt, Restoring
<1>8. CASE NextPhase
  <2>1. UNCHANGED <<manifests, recorded, snap, running, outcome, faults, failedAt>> /\ pc # "idle"
    BY <1>8 DEF NextPhase, disk, attempt
  <2>2. pc' \notin Restoring \/ (pc = "restoringLinks" /\ pc' = "restoringReload")
    BY <1>8 DEF NextPhase, Restoring
  <2>3. \A u : Active(u)' = Active(u)
    BY <2>1 DEF Active
  <2>4. CASE pc = "restoringLinks" /\ pc' = "restoringReload"
    BY <1>0, <1>1, <2>1, <2>3, <2>4 DEF Returned, Restoring
  <2> QED
    BY <1>4, <2>1, <2>2, <2>4
<1>9. CASE Aborts
  <2>1. /\ UNCHANGED <<manifests, recorded, outcome, snap, live>> /\ failedAt' = faults'
        /\ pc' = "restoringLinks" /\ pc \in Forward /\ faults' = faults + 1
    BY <1>9, AbortsEffect DEF Fails
  <2>2. \A u \in Services \ Mine : running'[u] = running[u]
    <3>1. CASE running' = running
      BY <3>1
    <3>2. CASE \E x \in Units : StopFails(x) \/ RestartFails(x) \/ StartFails(x)
      <4>1. PICK x \in Units : StopFails(x) \/ RestartFails(x) \/ StartFails(x)
        BY <3>2
      <4>2. x \in Stopped(snap) \cup UnitsToRestart(snap) \cup UnitsToStart(snap)
        BY <4>1 DEF StopFails, RestartFails, StartFails, At, Decided
      <4>3. x \notin Services \ Mine
        BY <4>2, OwnedOnly
      <4>4. \A u \in Units \ {x} : running'[u] = running[u]
        BY <1>0, <4>1 DEF StopFails, RestartFails, StartFails, Started
      <4> QED
        BY <1>0, <4>3, <4>4
    <3> QED
      BY <1>9, <3>1, <3>2 DEF Aborts, FailsAt, ReloadFails, RecordFails, SetLinkFails, RemoveLinkFails
  <2>3. \A u \in Services \ Mine : Active(u)' = Active(u)
    BY <2>2 DEF Active
  <2>4. pc # "idle"
    BY <2>1 DEF Forward
  <2> QED
    BY <1>0, <1>1, <2>1, <2>3, <2>4 DEF Returned, Restoring
<1>10. CASE RestoreReload
  <2>1. /\ UNCHANGED <<manifests, recorded, snap, live, running, outcome, faults, failedAt>>
        /\ pc = "restoringReload" /\ pc' = "restoringUnits" /\ todo' = Mine
    BY <1>10 DEF RestoreReload, disk, attempt
  <2>2. \A u \in Services \ Mine : Returns(u)
    BY <2>1 DEF Returned, Returns
  <2> QED
    BY <1>0, <1>1, <1>3, <2>1, <2>2 DEF Returned, Restoring
<1>11. CASE Report
  <2>1. /\ UNCHANGED <<manifests, recorded, snap, live, running, faults, failedAt>>
        /\ pc = "restoringUnits" /\ pc' = "idle" /\ todo = {}
    BY <1>11 DEF Report, Ends, disk, attempt
  <2>2. \A u \in Services : Returns(u)
    BY <2>1 DEF Returned
  <2> QED
    BY <1>3, <2>1, <2>2 DEF Returned, Restoring
<1>12. CASE \E u \in Units : RestoreUnitFails(u)
  <2>1. PICK u \in Units : RestoreUnitFails(u)
    BY <1>12
  <2>2. /\ UNCHANGED <<manifests, recorded, snap, running, outcome, failedAt, pc>> /\ todo' \subseteq todo
        /\ pc = "restoringUnits" /\ faults' = faults + 1
    BY <2>1 DEF RestoreUnitFails, disk, attempt, At
  <2>3. failedAt' # faults' /\ failedAt' <= faults'
    BY <1>0, <2>2 DEF Returned, Restoring
  <2>4. \A x : Returns(x)'
    BY <2>3 DEF Returns
  <2>5. \A x : Active(x)' = Active(x)
    BY <2>2 DEF Active
  <2> QED
    BY <1>0, <1>1, <2>2, <2>3, <2>4, <2>5 DEF Returned, Restoring
<1>13. CASE \E u \in Units : Visit(u)
  <2>1. PICK u \in Units : Visit(u)
    BY <1>13
  <2>2. UNCHANGED <<manifests, recorded, snap, live, outcome, faults, failedAt, pc, todo>>
    BY <2>1, VisitEffect DEF disk
  <2>3. \A x \in Units \ {u} : running'[x] = running[x]
    BY <1>0, <2>1 DEF Visit, Launch, Exit, Activate, ComesUp
  <2>4. u \in Sessions \/ (u \in Services /\ cur.mode[u] = "ondemand")
    BY <2>1 DEF Visit, Launch, Exit, Activate
  <2>5. u \in Services => u \in Mine /\ Returns(u)'
    BY <1>0, <1>1, <2>2, <2>4 DEF Owned, Units, Returns
  <2>6. \A x \in Services \ Mine : Active(x)' = Active(x)
    BY <1>0, <2>3, <2>5 DEF Active
  <2>7. \A x \in Services : Returns(x) => Returns(x)'
    BY <1>0, <1>3, <2>2, <2>3, <2>5
  <2> QED
    BY <1>0, <1>1, <2>2, <2>6, <2>7 DEF Returned
<1>14. CASE UNCHANGED vars
  <2>1. UNCHANGED <<manifests, recorded, snap, live, running, outcome, faults, failedAt, pc, todo>>
    BY <1>14 DEF vars, disk, attempt
  <2>2. \A u : Active(u)' = Active(u)
    BY <2>1 DEF Active
  <2> QED
    BY <1>1, <1>3, <2>1, <2>2 DEF Returned
<1>15. CASE \E u \in Units : Handle(u)
  <2>1. PICK u \in Units : Handle(u)
    BY <1>15
  <2>2. /\ UNCHANGED <<manifests, recorded, snap, live, outcome, faults, failedAt, pc>>
        /\ u \in todo /\ todo' = todo \ {u} /\ pc # "idle" /\ outcome = "none"
    BY <1>0, <2>1, HandleEffect
  <2>3. CASE SetLink(u) \/ RemoveLink(u)
    BY <1>4, <2>2, <2>3 DEF SetLink, RemoveLink, At, Restoring
  <2>4. CASE StopUnit(u) \/ RestartUnit(u) \/ StartUnit(u)
    <3>1. u \in Stopped(snap) \cup UnitsToRestart(snap) \cup UnitsToStart(snap)
      BY <2>2, <2>4 DEF StopUnit, RestartUnit, StartUnit, At, Decided
    <3>2. u \notin Services \ Mine
      BY <3>1, OwnedOnly
    <3>3. \A x \in Units \ {u} : running'[x] = running[x]
      BY <1>0, <2>4 DEF StopUnit, RestartUnit, StartUnit, Started
    <3> QED
      BY <1>0, <1>4, <2>2, <2>4, <3>2, <3>3 DEF StopUnit, RestartUnit, StartUnit, At, Restoring
  <2>5. CASE RestoreLink(u)
    <3>1. running' = running /\ pc = "restoringLinks"
      BY <2>5 DEF RestoreLink, At
    <3>2. \A x : Active(x)' = Active(x)
      BY <3>1 DEF Active
    <3> QED
      BY <1>0, <1>1, <2>2, <3>1, <3>2 DEF Returned, Restoring
  <2>6. CASE RestoreUnit(u)
    <3>1. /\ pc = "restoringUnits" /\ u \in Mine
          /\ running' = IF ~ToRestore(u) \/ (u \in Sessions /\ ~Active(u)) THEN running
                        ELSE IF Active(u) THEN [running EXCEPT ![u] = 0] ELSE Started(u)
      BY <2>2, <2>6 DEF RestoreUnit, At, Returned
    <3>2. \A x \in Units \ {u} : running'[x] = running[x]
      BY <1>0, <3>1 DEF Started
    <3>3. ASSUME u \in Services PROVE Returns(u)'
      <4>1. u \notin disrupted /\ u \notin Sessions
        BY <1>0, <3>3
      <4>2. live[u] # 0 => Startable(u) # 0
        <5>1. live[u] # 0 => Resolves(link[u])
          BY <3>1 DEF Returnable
        <5> QED
          BY <5>1, StartsFromLink
      <4>3. snap[u] = "yes" /\ live[u] # 0 => running'[u] # 0
        BY <1>0, <3>1, <4>1, <4>2 DEF ToRestore, Active, Started
      <4>4. snap[u] = "no" => running'[u] = 0
        BY <1>0, <3>1, <4>1 DEF ToRestore, Active
      <4> QED
        BY <2>2, <4>3, <4>4 DEF Returns, Active
    <3>4. \A x \in Services \ todo' : Returns(x)'
      BY <1>0, <1>3, <2>2, <3>1, <3>2, <3>3 DEF Returned
    <3>5. \A x \in Services \ Mine : Active(x)' = Active(x)
      BY <1>0, <3>1, <3>2 DEF Active
    <3> QED
      BY <1>0, <1>1, <2>2, <3>1, <3>4, <3>5 DEF Returned
  <2> QED
    BY <2>1, <2>3, <2>4, <2>5, <2>6 DEF Handle
<1> QED
  BY <1>5, <1>6, <1>7, <1>8, <1>9, <1>10, <1>11, <1>12, <1>13, <1>14, <1>15, Steps, Zenon

-----------------------------------------------------------------------------
(* What the decisions say of a unit.                                       *)
LEMMA Planned ==
    ASSUME cur \in Projections, prev \in Projections, NEW u \in Units
    PROVE  /\ u \in StartUnits(cur) => u \in Services /\ u \notin StopUnits(cur) /\ u \in Linked(cur)
           /\ u \in StartUnits(prev) => u \in Services
           /\ u \in Stopped(snap) => u \notin StartUnits(cur)
           /\ u \in StopUnits(cur) \cap Services => u \in Stopped(snap)
           /\ u \in StopUnits(cur) /\ u \notin Stopped(snap) => Wanted(prev, u) = 0 /\ Wanted(cur, u) = 0
           /\ u \in StartUnits(cur) \ StartUnits(prev) => u \in UnitsToStart(snap) \cup UnitsToRestart(snap)
           /\ Wanted(prev, u) # Wanted(cur, u) /\ Wanted(prev, u) # 0 =>
                 u \in Stopped(snap) \/ (u \in Services /\ u \in UnitsToRestart(snap))
           /\ u \in UnitsToRestart(snap) => u \in Linked(cur) /\ prev # cur
           /\ u \in UnitsToStart(snap) => u \in StartUnits(cur) \ StartUnits(prev)
<1>1. /\ Services \cap Sessions = {} /\ u \in Services \cup Sessions
      /\ u \in Sessions => cur.mode[u] # "persistent" /\ prev.mode[u] # "persistent"
  BY SystemdAssumption DEF Projections, Units
<1>2. /\ u \in StartUnits(cur) => u \in Services /\ u \notin StopUnits(cur) /\ u \in Linked(cur)
      /\ u \in StartUnits(prev) => u \in Services
  BY <1>1 DEF StartUnits, StopUnits, Linked, Owned
<1>3. ChangedSessions(snap) \subseteq Sessions
  BY DEF ChangedSessions, ActiveUnlinkedSessions
<1>4. u \in Stopped(snap) => u \notin StartUnits(cur)
  BY <1>1, <1>2, <1>3 DEF Stopped, UnitsToStop, StartUnits, Owned
<1>5. u \in StopUnits(cur) \cap Services => u \in Stopped(snap)
  BY <1>1 DEF Stopped, UnitsToStop
<1>6. u \in StopUnits(cur) /\ u \notin Stopped(snap) => Wanted(prev, u) = 0 /\ Wanted(cur, u) = 0
  BY <1>1 DEF Stopped, UnitsToStop, Wanted
<1>7. u \in StartUnits(cur) \ StartUnits(prev) => u \in UnitsToStart(snap) \cup UnitsToRestart(snap)
  BY DEF UnitsToStart
<1>8. ASSUME Wanted(prev, u) # Wanted(cur, u), Wanted(prev, u) # 0
      PROVE  u \in Stopped(snap) \/ (u \in Services /\ u \in UnitsToRestart(snap))
  <2>1. u \in Linked(prev)
    BY <1>8 DEF Wanted
  <2>2. CASE u \in Linked(cur)
    <3>1. u \in ChangedUnits /\ u \in Owned(cur)
      BY <1>8, <2>1, <2>2 DEF Wanted, ChangedUnits, Linked
    <3>2. CASE u \in Sessions
      BY <2>1, <3>1, <3>2 DEF ChangedSessions, UnitsToStop, Stopped
    <3>3. CASE u \in Services
      BY <1>1, <1>3, <3>1, <3>3 DEF UnitsToRestart
    <3> QED
      BY <1>1, <3>2, <3>3
  <2>3. CASE u \notin Linked(cur)
    BY <2>1, <2>3 DEF Linked, Owned, StopUnits, UnitsToStop, Stopped
  <2> QED
    BY <2>2, <2>3
<1>9. u \in UnitsToRestart(snap) => u \in Linked(cur) /\ prev # cur
  BY <1>1, <1>3 DEF UnitsToRestart, ChangedUnits, Linked, Owned
<1>10. u \in UnitsToStart(snap) => u \in StartUnits(cur) \ StartUnits(prev)
  BY DEF UnitsToStart
<1> QED
  BY <1>2, <1>4, <1>5, <1>6, <1>7, <1>8, <1>9, <1>10

(* What users do to a unit: an instance ends, the unit comes up as wanted, *)
(* or it is set apart.                                                     *)
LEMMA VisitKinds ==
    ASSUME cur \in Projections, running \in [Units -> 0..MaxContent], NEW u \in Units, Visit(u)
    PROVE  /\ \A x \in Units \ {u} : /\ running'[x] = running[x]
                                     /\ x \in cured' <=> x \in cured
                                     /\ x \in disturbed' <=> x \in disturbed
           /\ \/ /\ u \in Sessions /\ running'[u] = 0 /\ UNCHANGED <<disturbed, cured>>
              \/ /\ ~Active(u) /\ running'[u] # 0 /\ running'[u] = Wanted(cur, u) /\ u \notin StopUnits(cur)
                 /\ pc = "idle" => running'[u] = Wanted(prev, u)
                 /\ UNCHANGED <<disturbed, cured>>
              \/ u \in disturbed' /\ u \notin cured' /\ u \notin Services \cap StopUnits(cur)
                    /\ ~Active(u) /\ running'[u] # 0
<1>1. CASE Exit(u)
  BY <1>1 DEF Exit, attempt
<1>2. CASE Launch(u) \/ Activate(u)
  <2>1. PICK c : ComesUp(u, c)
    BY <1>2 DEF Launch, Activate
  <2>2. u \in Sessions \/ (u \in Services /\ cur.mode[u] = "ondemand")
    BY <1>2 DEF Launch, Activate
  <2>3. Services \cap Sessions = {}
    BY SystemdAssumption
  <2>4. running'[u] = c /\ c # 0 /\ ~Active(u) /\ \A x \in Units \ {u} : running'[x] = running[x]
    BY <2>1 DEF ComesUp
  <2>5. u \in Linked(cur) => u \notin StopUnits(cur)
    BY <2>2, <2>3 DEF Linked, StopUnits
  <2>6. u \notin Services \cap StopUnits(cur)
    BY <2>2, <2>3 DEF StopUnits
  <2>7. CASE c # Wanted(cur, u) \/ (pc = "idle" /\ c # Wanted(prev, u))
    <3>1. disturbed' = disturbed \cup {u} /\ cured' = cured \ {u}
      BY <2>1, <2>7 DEF ComesUp
    <3> QED
      BY <2>4, <2>6, <3>1
  <2>8. CASE c = Wanted(cur, u) /\ (pc = "idle" => c = Wanted(prev, u))
    <3>1. UNCHANGED <<disturbed, cured>>
      BY <2>1, <2>8 DEF ComesUp
    <3>2. u \in Linked(cur)
      BY <2>4, <2>8 DEF Wanted
    <3> QED
      BY <2>4, <2>5, <2>8, <3>1, <3>2
  <2> QED
    BY <2>7, <2>8
<1> QED
  BY <1>1, <1>2 DEF Visit

(* At the end of a reconcile every unit that was handled, or that nobody   *)
(* disturbed, is as the manifest wants it.                                 *)
LEMMA Finished ==
    ASSUME cur \in Projections, prev \in Projections, Brought, pc = "recording",
           NEW u \in Units, u \in cured \/ u \notin disturbed
    PROVE  AsWanted(u)
<1>1. BroughtUnit(u) /\ HandledStop(u) /\ HandledRestart(u) /\ HandledStart(u)
  BY DEF Brought, Forward, HandledStop, HandledRestart, HandledStart, PastStop, PastRestart
<1>2. CASE u \in cured
  BY <1>1, <1>2 DEF BroughtUnit
<1>3. CASE u \notin disturbed /\ u \notin cured
  <2>1. /\ u \notin Stopped(snap) /\ ~(u \in Services /\ u \in UnitsToRestart(snap))
        /\ u \in UnitsToStart(snap) => Active(u)
        /\ Active(u) => running[u] \in {Wanted(prev, u), Wanted(cur, u)}
        /\ u \in StartUnits(prev) \cap StartUnits(cur) => Active(u)
    BY <1>1, <1>3 DEF BroughtUnit
  <2>2. u \in StartUnits(cur) => Active(u)
    BY <2>1, Planned
  <2>3. u \in StopUnits(cur) => ~Active(u)
    BY <2>1, Planned DEF Active
  <2>4. Active(u) => running[u] = Wanted(cur, u)
    BY <2>1, Planned DEF Active
  <2> QED
    BY <2>2, <2>3, <2>4 DEF AsWanted
<1> QED
  BY <1>2, <1>3

-----------------------------------------------------------------------------
(* A unit that nobody disturbed is, or was, as the state file says.        *)
LEMMA KeptStays ==
    Booked /\ Placed /\ Loading /\ Brought /\ Kept /\ [Next]_vars => Kept'
<1> SUFFICES ASSUME Booked, Placed, Loading, Brought, Kept, [Next]_vars PROVE Kept'
  OBVIOUS
<1>0. /\ cur \in Projections /\ prev \in Projections /\ gen \in Nat /\ recorded \in 0..gen
      /\ running \in [Units -> 0..MaxContent]
      /\ outcome # "none" => pc = "idle"
  BY Views DEF Booked, Loading, Placed
<1>1. ASSUME UNCHANGED <<manifests, recorded>>
      PROVE  \A u, c : AsRecorded(u, c) = AsRecorded(u, c)'
  BY <1>1, Frame DEF AsRecorded
<1>2. ASSUME UNCHANGED <<manifests, recorded, before, disturbed>>, pc # "idle", pc' # "idle",
             outcome' = outcome
      PROVE  Kept'
  BY <1>0, <1>1, <1>2 DEF Kept
<1>3. ASSUME UNCHANGED <<manifests, recorded, running, disturbed, pc>>, pc = "idle",
             outcome' = "ok" => recorded = gen \/ Linked(prev) = {}
      PROVE  Kept'
  BY <1>1, <1>3, Frame DEF Kept
<1>4. CASE \E m \in Manifests : Publish(m)
  <2>1. PICK m \in Manifests : Publish(m)
    BY <1>4
  <2>2. /\ manifests' = Append(manifests, m) /\ UNCHANGED <<recorded, running, disturbed, pc>>
        /\ pc = "idle" /\ outcome' = "none"
    BY <2>1 DEF Publish
  <2>3. gen' = gen + 1
    BY <2>2 DEF gen, Booked
  <2>4. prev' = prev
    <3>1. recorded \in 1..Len(manifests) => manifests'[recorded] = manifests[recorded]
      BY <2>2 DEF Booked
    <3> QED
      BY <1>0, <2>2, <3>1 DEF prev, M, gen
  <2>5. StartUnits(prev)' = StartUnits(prev) /\ \A u : Wanted(prev, u)' = Wanted(prev, u)
    BY <2>4 DEF StartUnits, Wanted, Linked, Owned, StopUnits
  <2>6. recorded' # gen'
    BY <1>0, <2>2, <2>3
  <2>7. \A u \in Units : AsRecorded(u, running[u]) => AsRecorded(u, running[u])'
    BY <2>2, <2>5, <2>6 DEF AsRecorded
  <2> QED
    BY <2>2, <2>7 DEF Kept
<1>5. CASE Refuse
  BY <1>3, <1>5 DEF Refuse, disk
<1>6. CASE Noop
  <2>1. ~TopologyChanged /\ UNCHANGED <<manifests, recorded, running, disturbed, pc>> /\ pc = "idle"
    BY <1>6 DEF Noop, Unchanged, disk
  <2>2. recorded = gen \/ Linked(prev) = {}
    BY <2>1 DEF TopologyChanged
  <2> QED
    BY <1>3, <2>1, <2>2
<1>7. CASE Begin
  <2>1. /\ UNCHANGED <<manifests, recorded, disturbed>> /\ pc = "idle" /\ pc' = "stopping"
        /\ outcome' = "none" /\ before' = running
    BY <1>7 DEF Begin, disk
  <2> QED
    BY <1>1, <2>1 DEF Kept
<1>8. CASE Record
  <2>1. /\ pc = "recording" /\ recorded' = gen /\ UNCHANGED <<manifests, running>> /\ pc' = "idle"
        /\ disturbed' = disturbed \ cured
    BY <1>8 DEF Record
  <2>2. prev' = cur /\ gen' = gen
    BY <2>1 DEF prev, cur, M, gen
  <2>3. /\ StartUnits(prev)' = StartUnits(cur) /\ StopUnits(prev)' = StopUnits(cur)
        /\ \A u : Wanted(prev, u)' = Wanted(cur, u)
    BY <2>2 DEF StartUnits, StopUnits, Wanted, Linked, Owned
  <2>4. \A u \in Units \ disturbed' : AsWanted(u)
    BY <1>0, <2>1, Finished
  <2>5. \A u \in Units \ disturbed' : AsRecorded(u, running[u])'
    BY <2>1, <2>3, <2>4 DEF AsWanted, AsRecorded, Active
  <2> QED
    BY <2>1, <2>2, <2>5 DEF Kept
<1>9. CASE Quits \/ Report
  <2>1. /\ UNCHANGED <<manifests, recorded, running>> /\ pc' = "idle" /\ outcome' # "ok"
        /\ disturbed' = disturbed \cup {u \in Units : running[u] # before[u]} /\ pc # "idle"
    BY <1>9 DEF Quits, Report, RestoreLinksFails, Kill, Ends, disk
  <2>2. \A u \in Units \ disturbed' : AsRecorded(u, running[u])
    BY <2>1 DEF Kept
  <2> QED
    BY <1>1, <2>1, <2>2 DEF Kept
<1>10. CASE Aborts
  BY <1>2, <1>10, AbortsEffect DEF Fails, Forward
<1>11. CASE NextPhase \/ Reload \/ RestoreReload
  BY <1>2, <1>11 DEF NextPhase, Reload, RestoreReload, disk, attempt
<1>12. CASE \E u \in Units : Handle(u) \/ RestoreUnitFails(u)
  BY <1>2, <1>12, HandleEffect DEF RestoreUnitFails, disk, attempt, At
<1>13. CASE \E u \in Units : Visit(u)
  <2>1. PICK u \in Units : Visit(u)
    BY <1>13
  <2>2. UNCHANGED <<manifests, recorded, before, pc, outcome>>
    BY <2>1, VisitEffect DEF disk
  <2>3. \A x \in Units \ {u} : running'[x] = running[x] /\ (x \in disturbed' <=> x \in disturbed)
    BY <1>0, <2>1, VisitKinds
  <2>4. disturbed \subseteq disturbed'
    BY <2>1, VisitEffect
  <2>5. ASSUME pc = "idle", u \notin disturbed' PROVE AsRecorded(u, running'[u])
    <3>1. \/ u \in Sessions /\ running'[u] = 0
          \/ /\ running'[u] = Wanted(cur, u) /\ running'[u] = Wanted(prev, u) /\ running'[u] # 0
             /\ u \notin StopUnits(cur)
      BY <1>0, <2>1, <2>5, VisitKinds
    <3>2. u \in StartUnits(prev) => u \in Services
      BY <1>0, Planned
    <3>3. recorded = gen => prev = cur
      BY DEF prev, cur
    <3>4. Services \cap Sessions = {}
      BY SystemdAssumption
    <3> QED
      BY <3>1, <3>2, <3>3, <3>4 DEF AsRecorded
  <2>6. pc = "idle" => \A x \in Units \ disturbed' : AsRecorded(x, running'[x])
    BY <2>3, <2>5 DEF Kept
  <2>7. /\ pc = "idle" => \A x \in Units \ disturbed' : AsRecorded(x, running[x])'
        /\ pc # "idle" => \A x \in Units \ disturbed' : AsRecorded(x, before[x])'
    BY <1>1, <2>2, <2>4, <2>6 DEF Kept
  <2> QED
    BY <2>2, <2>7, Frame DEF Kept
<1>14. CASE UNCHANGED vars
  <2>1. UNCHANGED <<manifests, recorded, before, running, disturbed, pc, outcome>>
    BY <1>14 DEF vars, disk, attempt
  <2> QED
    BY <1>1, <2>1, Frame DEF Kept
<1> QED
  BY <1>4, <1>5, <1>6, <1>7, <1>8, <1>9, <1>10, <1>11, <1>12, <1>13, <1>14, Steps, Zenon

(* The reconcile brings its units step by step to their new state.         *)
LEMMA BroughtStays ==
    Booked /\ Pointed /\ Placed /\ Loading /\ Remembered /\ Linking /\ Decided /\ Kept /\ Brought
        /\ [Next]_vars => Brought'
<1> SUFFICES ASSUME Booked, Pointed, Placed, Loading, Remembered, Linking, Decided, Kept, Brought,
                    [Next]_vars
             PROVE  Brought'
  OBVIOUS
<1>0. /\ cur \in Projections /\ prev \in Projections /\ gen \in Nat
      /\ running \in [Units -> 0..MaxContent] /\ Services \subseteq Units /\ Services \cap Sessions = {}
      /\ Linked(cur) \subseteq Units
  BY Views, SystemdAssumption DEF Loading, Units, Linked, Owned
<1>1. ASSUME pc' \notin Forward PROVE Brought'
  BY <1>1 DEF Brought
<1>2. ASSUME UNCHANGED <<manifests, recorded, snap>>, NEW x, BroughtUnit(x), running'[x] = running[x],
             x \in cured' <=> x \in cured, x \in disturbed' <=> x \in disturbed,
             HandledStop(x)' => HandledStop(x), HandledRestart(x)' => HandledRestart(x),
             HandledStart(x)' => HandledStart(x)
      PROVE  BroughtUnit(x)'
  <2>1. Active(x)' = Active(x)
    BY <1>2 DEF Active
  <2>2. AsWanted(x)' = AsWanted(x)
    BY <1>2, <2>1, Frame DEF AsWanted
  <2> QED
    BY <1>2, <2>1, <2>2, Frame, FrameDecisions DEF BroughtUnit
<1>3. ASSUME UNCHANGED <<manifests, recorded, plan>>, pc \in Forward,
             pc' \in {"restarting", "starting", "recording"} =>
                pc \in {"restarting", "starting", "recording"} /\ loaded' = loaded,
             \A u \in Units : BroughtUnit(u)'
      PROVE  Brought'
  <2>1. plan.topology \/ Linked(cur) = {} \/ recorded = gen
    BY <1>3 DEF Brought
  <2>2. pc' \in {"restarting", "starting", "recording"} /\ plan.topology =>
              \A u \in Linked(cur) : loaded'[u] = cur.content[u]
    BY <1>3 DEF Brought
  <2> QED
    BY <1>3, <2>1, <2>2, Frame DEF Brought
<1>4. CASE (\E m \in Manifests : Publish(m)) \/ Refuse \/ Noop \/ Record \/ Quits \/ Report \/ RestoreReload
  BY <1>1, <1>4 DEF Publish, Refuse, Noop, Record, Quits, RestoreLinksFails, Kill, Ends, Report, RestoreReload,
                    Forward
<1>5. CASE Aborts
  BY <1>1, <1>5, AbortsEffect DEF Fails, Forward
<1>6. CASE Begin
  <2>1. /\ UNCHANGED <<manifests, recorded, running, disturbed>> /\ pc = "idle" /\ pc' = "stopping"
        /\ plan'.topology = TopologyChanged /\ todo' = Stopped(snap') /\ cured' = {}
    BY <1>6 DEF Begin, disk
  <2>2. Stopped(snap)' \subseteq todo'
    BY <2>1, FrameBegin
  <2>3. plan'.topology \/ Linked(cur) = {} \/ recorded = gen
    BY <2>1 DEF TopologyChanged
  <2>4. ASSUME NEW u \in Units PROVE BroughtUnit(u)'
    <3>1. ~HandledRestart(u)' /\ ~HandledStart(u)' /\ (u \in Stopped(snap)' => ~HandledStop(u)')
      BY <2>1, <2>2 DEF HandledStop, HandledRestart, HandledStart, PastRestart, PastStop, Forward
    <3>2. u \in Services \cap StopUnits(cur)' => u \in Stopped(snap)'
      BY <1>0, <2>1, Frame DEF Stopped, UnitsToStop
    <3>3. u \notin disturbed' => AsRecorded(u, running[u])
      BY <2>1 DEF Kept
    <3>4. u \notin disturbed' =>
             /\ Active(u)' => running'[u] \in {Wanted(prev, u)', Wanted(cur, u)'}
             /\ u \in StartUnits(prev)' \cap StartUnits(cur)' => Active(u)'
      BY <2>1, <3>3, Frame DEF AsRecorded, Active
    <3> QED
      BY <2>1, <3>1, <3>2, <3>4 DEF BroughtUnit
  <2> QED
    BY <2>1, <2>3, <2>4, Frame DEF Brought
<1>7. CASE NextPhase
  <2>1. UNCHANGED <<manifests, recorded, snap, plan, running, cured, disturbed, loaded>> /\ todo = {}
    BY <1>7 DEF NextPhase, disk, attempt
  <2>2. CASE pc' \in Forward
    <3>1. /\ pc \in Forward
          /\ pc' \in {"restarting", "starting", "recording"} => pc \in {"restarting", "starting", "recording"}
      BY <1>7, <2>2 DEF NextPhase, Forward
    <3>2. ASSUME NEW u \in Units PROVE BroughtUnit(u)'
      <4>1. BroughtUnit(u)
        BY <3>1 DEF Brought
      <4>2. HandledStop(u) /\ (HandledRestart(u)' => HandledRestart(u))
        BY <1>7, <2>1, <2>2, <3>1 DEF NextPhase, HandledStop, HandledRestart, PastStop, PastRestart, Forward
      <4>3. CASE pc' # "starting"
        <5>1. HandledStart(u)' => HandledStart(u)
          BY <1>7, <2>1, <4>3 DEF NextPhase, HandledStart
        <5> QED
          BY <1>2, <2>1, <4>1, <4>2, <5>1
      <4>4. CASE pc' = "starting"
        <5>1. todo' = UnitsToStart(snap)
          BY <1>7, <4>4 DEF NextPhase
        <5>2. u \in UnitsToStart(snap)' => ~HandledStart(u)'
          BY <2>1, <4>4, <5>1, FrameDecisions DEF HandledStart
        <5>3. Active(u)' = Active(u)
          BY <2>1 DEF Active
        <5>4. AsWanted(u)' = AsWanted(u)
          BY <2>1, <5>3, Frame DEF AsWanted
        <5> QED
          BY <2>1, <4>1, <4>2, <5>2, <5>3, <5>4, Frame, FrameDecisions DEF BroughtUnit
      <4> QED
        BY <4>3, <4>4
    <3> QED
      BY <1>3, <2>1, <3>1, <3>2
  <2> QED
    BY <1>1, <2>2
<1>8. CASE Reload
  <2>1. /\ UNCHANGED <<manifests, recorded, snap, plan, running, cured, disturbed>> /\ pc = "reloading"
        /\ pc' = "restarting" /\ loaded' = Reloaded /\ todo' = UnitsToRestart(snap) /\ link' = link
    BY <1>8 DEF Reload, disk, attempt
  <2>2. ASSUME plan.topology, NEW u \in Linked(cur) PROVE loaded'[u] = cur.content[u]
    <3>1. u \in Units /\ link[u] = gen /\ gen > 0
      BY <1>0, <2>1, <2>2 DEF Linking, Right, Relinked, Placed
    <3>2. Resolves(link[u])
      BY <1>0, <3>1, SystemdAssumption DEF Resolves
    <3> QED
      BY <2>1, <2>2, <3>1, <3>2 DEF Reloaded, FileContent, cur
  <2>3. ASSUME NEW u \in Units PROVE BroughtUnit(u)'
    <3>1. BroughtUnit(u) /\ HandledStop(u)
      BY <2>1 DEF Brought, Forward, HandledStop, PastStop
    <3>2. u \in UnitsToRestart(snap)' => ~HandledRestart(u)'
      BY <2>1, FrameDecisions DEF HandledRestart, PastRestart
    <3>3. ~HandledStart(u)'
      BY <2>1 DEF HandledStart
    <3>4. Active(u)' = Active(u)
      BY <2>1 DEF Active
    <3>5. AsWanted(u)' = AsWanted(u)
      BY <2>1, <3>4, Frame DEF AsWanted
    <3> QED
      BY <2>1, <3>1, <3>2, <3>3, <3>4, <3>5, Frame, FrameDecisions DEF BroughtUnit
  <2>4. plan.topology \/ Linked(cur) = {} \/ recorded = gen
    BY <2>1 DEF Brought, Forward
  <2> QED
    BY <2>1, <2>2, <2>3, <2>4, Frame DEF Brought
<1>9. CASE \E u \in Units : Visit(u)
  <2>1. PICK u \in Units : Visit(u)
    BY <1>9
  <2>2. UNCHANGED <<manifests, recorded, snap, plan, loaded, pc, todo>>
    BY <2>1, VisitEffect DEF disk
  <2>3. CASE pc \in Forward
    <3>1. \A x : /\ HandledStop(x)' = HandledStop(x) /\ HandledRestart(x)' = HandledRestart(x)
                 /\ HandledStart(x)' = HandledStart(x)
      BY <2>2 DEF HandledStop, HandledRestart, HandledStart
    <3>2. \A x \in Units \ {u} : BroughtUnit(x)'
      BY <1>0, <1>2, <2>1, <2>2, <2>3, <3>1, VisitKinds DEF Brought
    <3>3. BroughtUnit(u)
      BY <2>3 DEF Brought
    <3>4. u \in Sessions => u \notin Services /\ u \notin StartUnits(cur) /\ u \notin StartUnits(prev)
      BY <1>0, Planned
    <3>5. u \in UnitsToStart(snap) => u \in StartUnits(cur)
      BY <1>0, Planned
    <3>6. ASSUME u \in Sessions /\ running'[u] = 0 /\ UNCHANGED <<disturbed, cured>>
          PROVE  BroughtUnit(u)'
      <4>1. ~Active(u)'
        BY <3>6 DEF Active
      <4>2. AsWanted(u)'
        BY <2>2, <3>4, <3>6, <4>1, Frame DEF AsWanted
      <4> QED
        BY <2>2, <3>1, <3>3, <3>4, <3>5, <3>6, <4>1, <4>2, Frame, FrameDecisions DEF BroughtUnit
    <3>7. ASSUME /\ ~Active(u) /\ running'[u] # 0 /\ running'[u] = Wanted(cur, u) /\ u \notin StopUnits(cur)
                 /\ UNCHANGED <<disturbed, cured>>
          PROVE  BroughtUnit(u)'
      <4>1. Active(u)'
        BY <3>7 DEF Active
      <4>2. AsWanted(u)'
        BY <2>2, <3>7, <4>1, Frame DEF AsWanted
      <4> QED
        BY <2>2, <3>1, <3>3, <3>7, <4>1, <4>2, Frame, FrameDecisions DEF BroughtUnit
    <3>8. ASSUME /\ u \in disturbed' /\ u \notin cured' /\ u \notin Services \cap StopUnits(cur)
                 /\ running'[u] # 0
          PROVE  BroughtUnit(u)'
      <4>1. Active(u)'
        BY <3>8 DEF Active
      <4> QED
        BY <2>2, <3>8, <4>1, Frame, FrameDecisions DEF BroughtUnit
    <3>9. BroughtUnit(u)'
      BY <1>0, <2>1, <3>6, <3>7, <3>8, VisitKinds
    <3> QED
      BY <1>3, <2>2, <2>3, <3>2, <3>9
  <2> QED
    BY <1>1, <2>2, <2>3
<1>10. CASE UNCHANGED vars
  <2>1. UNCHANGED <<manifests, recorded, snap, plan, loaded, running, cured, disturbed, pc, todo>>
    BY <1>10 DEF vars, disk, attempt
  <2>2. \A x : /\ HandledStop(x)' = HandledStop(x) /\ HandledRestart(x)' = HandledRestart(x)
               /\ HandledStart(x)' = HandledStart(x)
    BY <2>1 DEF HandledStop, HandledRestart, HandledStart
  <2>3. CASE pc \in Forward
    BY <1>2, <1>3, <2>1, <2>2, <2>3 DEF Brought
  <2> QED
    BY <1>1, <2>1, <2>3
<1>11. CASE \E u \in Units : RestoreUnitFails(u)
  BY <1>1, <1>11 DEF RestoreUnitFails, At, Forward
<1>12. CASE \E u \in Units : Handle(u)
  <2>1. PICK u \in Units : Handle(u)
    BY <1>12
  <2>2. /\ UNCHANGED <<manifests, recorded, loaded, pc, disturbed, snap, plan>>
        /\ u \in todo /\ todo' = todo \ {u}
    BY <2>1, HandleEffect
  <2>3. CASE RestoreLink(u) \/ RestoreUnit(u)
    BY <1>1, <2>2, <2>3 DEF RestoreLink, RestoreUnit, At, Forward
  <2>4. ASSUME pc \in Forward, \A x \in Units \ {u} : running'[x] = running[x],
               cured' \in {cured, cured \cup {u}}
        PROVE  \A x \in Units \ {u} : BroughtUnit(x)'
    <3>1. ASSUME NEW x \in Units \ {u}
          PROVE  /\ HandledStop(x)' => HandledStop(x)
                 /\ HandledRestart(x)' => HandledRestart(x)
                 /\ HandledStart(x)' => HandledStart(x)
      BY <2>2 DEF HandledStop, HandledRestart, HandledStart
    <3>2. \A x \in Units \ {u} : BroughtUnit(x) /\ (x \in cured' <=> x \in cured)
      BY <2>4 DEF Brought
    <3>3. ASSUME NEW x \in Units \ {u} PROVE BroughtUnit(x)'
      BY <1>2, <2>2, <2>4, <3>1, <3>2
    <3> QED
      BY <3>3
  <2>5. CASE SetLink(u) \/ RemoveLink(u)
    <3>1. pc \in {"linking", "unlinking"} /\ UNCHANGED <<running, cured>>
      BY <2>5 DEF SetLink, RemoveLink, At
    <3>2. HandledStop(u) /\ ~HandledRestart(u)' /\ ~HandledStart(u)'
      BY <2>2, <3>1 DEF HandledStop, HandledRestart, HandledStart, PastStop, PastRestart, Forward
    <3>3. pc \in Forward
      BY <3>1 DEF Forward
    <3>4. BroughtUnit(u)
      BY <3>3 DEF Brought
    <3>5. BroughtUnit(u)'
      BY <1>2, <2>2, <3>1, <3>2, <3>4
    <3> QED
      BY <1>3, <2>2, <2>4, <3>1, <3>3, <3>5
  <2>6. CASE StopUnit(u)
    <3>1. /\ pc = "stopping" /\ running' = [running EXCEPT ![u] = 0] /\ cured' = cured \cup {u}
          /\ u \in Stopped(snap)
      BY <2>2, <2>6 DEF StopUnit, At, Decided
    <3>2. u \notin StartUnits(cur) /\ u \notin UnitsToStart(snap)
      BY <1>0, <3>1, Planned
    <3>3. ~Active(u)'
      BY <1>0, <3>1 DEF Active
    <3>4. AsWanted(u)'
      BY <2>2, <3>2, <3>3, Frame DEF AsWanted
    <3>5. BroughtUnit(u)'
      BY <2>2, <3>1, <3>2, <3>3, <3>4, Frame, FrameDecisions DEF BroughtUnit
    <3>6. pc \in Forward /\ \A x \in Units \ {u} : running'[x] = running[x]
      BY <1>0, <3>1 DEF Forward
    <3> QED
      BY <1>3, <2>2, <2>4, <3>1, <3>5, <3>6
  \* What a restart or a start brings up runs the current content.
  <2>7. ASSUME pc \in {"restarting", "starting"} PROVE
          /\ pc \in Forward /\ BroughtUnit(u) /\ HandledStop(u)
          /\ Startable(u) = Wanted(cur, u) /\ Startable(u) # 0
    <3>1. u \in Linked(cur) /\ prev # cur
      BY <1>0, <2>2, <2>7, Planned DEF Decided
    <3>2. recorded # gen
      BY <3>1 DEF prev, cur
    <3>3. loaded[u] = cur.content[u]
      BY <2>7, <3>1, <3>2 DEF Brought, Forward
    <3>4. cur.content[u] \in 1..MaxContent
      BY <1>0, <3>1, Startables
    <3>5. Startable(u) = Wanted(cur, u) /\ Startable(u) # 0
      BY <3>1, <3>3, <3>4 DEF Startable, Wanted
    <3> QED
      BY <2>7, <3>5 DEF Brought, Forward, HandledStop, PastStop
  <2>8. CASE RestartUnit(u)
    <3>1. /\ pc = "restarting" /\ u \in UnitsToRestart(snap)
          /\ running' = [running EXCEPT ![u] =
                IF u \in Sessions \/ (u \notin StartUnits(cur) /\ ~Active(u)) THEN running[u]
                ELSE Startable(u)]
          /\ cured' = IF u \in Sessions THEN cured ELSE cured \cup {u}
      BY <1>0, <2>2, <2>8 DEF RestartUnit, At, Decided
    <3>2. /\ pc \in Forward /\ BroughtUnit(u) /\ HandledStop(u)
          /\ Startable(u) = Wanted(cur, u) /\ Startable(u) # 0
      BY <2>7, <3>1
    <3>3. ~HandledStart(u)'
      BY <2>2, <3>1 DEF HandledStart
    <3>4. ASSUME u \in Sessions PROVE BroughtUnit(u)'
      <4>1. running'[u] = running[u] /\ cured' = cured /\ u \notin Services
        BY <1>0, <3>1, <3>4
      <4>2. Active(u)' = Active(u)
        BY <4>1 DEF Active
      <4>3. AsWanted(u)' = AsWanted(u)
        BY <2>2, <4>1, <4>2, Frame DEF AsWanted
      <4> QED
        BY <2>2, <3>2, <3>3, <4>1, <4>2, <4>3, Frame, FrameDecisions DEF BroughtUnit
    <3>5. ASSUME u \notin Sessions PROVE BroughtUnit(u)'
      <4>1. u \in Services /\ u \in cured'
        BY <3>1, <3>5 DEF Units
      <4>2. \/ running'[u] = Wanted(cur, u) /\ running'[u] # 0 /\ u \notin StopUnits(cur)
            \/ running'[u] = 0 /\ u \notin StartUnits(cur)
        BY <1>0, <3>1, <3>2, <3>5, <4>1, Planned DEF BroughtUnit, Active
      <4>3. AsWanted(u)'
        BY <2>2, <4>2, Frame DEF AsWanted, Active
      <4>4. u \in StopUnits(cur) => ~Active(u)'
        BY <4>2 DEF Active
      <4>5. /\ Active(u)' => running'[u] = Wanted(cur, u)
            /\ u \in StartUnits(cur) => Active(u)'
        BY <4>2 DEF Active
      <4> QED
        BY <2>2, <3>3, <4>1, <4>3, <4>4, <4>5, Frame, FrameDecisions DEF BroughtUnit
    <3>6. \A x \in Units \ {u} : running'[x] = running[x]
      BY <1>0, <3>1
    <3> QED
      BY <1>3, <2>2, <2>4, <3>1, <3>2, <3>4, <3>5, <3>6
  <2>9. CASE StartUnit(u)
    <3>1. /\ pc = "starting" /\ u \in UnitsToStart(snap) /\ running' = Started(u)
          /\ cured' = IF Active(u) THEN cured ELSE cured \cup {u}
      BY <2>2, <2>9 DEF StartUnit, At, Decided
    <3>2. /\ pc \in Forward /\ BroughtUnit(u) /\ HandledStop(u)
          /\ Startable(u) = Wanted(cur, u) /\ Startable(u) # 0
      BY <2>7, <3>1
    <3>3. u \in StartUnits(cur) /\ u \notin StopUnits(cur) /\ u \notin UnitsToRestart(snap)
      BY <1>0, <3>1, Planned DEF UnitsToStart
    <3>4. ASSUME Active(u) PROVE BroughtUnit(u)'
      <4>1. running'[u] = running[u] /\ cured' = cured
        BY <1>0, <3>1, <3>4 DEF Started, Active
      <4>2. Active(u)'
        BY <3>4, <4>1 DEF Active
      <4>3. AsWanted(u) => AsWanted(u)'
        BY <2>2, <3>4, <4>1, <4>2, Frame DEF AsWanted
      <4> QED
        BY <2>2, <3>2, <3>3, <3>4, <4>1, <4>2, <4>3, Frame, FrameDecisions DEF BroughtUnit
    <3>5. ASSUME ~Active(u) PROVE BroughtUnit(u)'
      <4>1. running'[u] = Wanted(cur, u) /\ u \in cured' /\ running'[u] # 0
        BY <1>0, <3>1, <3>2, <3>5 DEF Started, Active
      <4>2. Active(u)'
        BY <4>1 DEF Active
      <4>3. AsWanted(u)'
        BY <2>2, <3>3, <4>1, <4>2, Frame DEF AsWanted
      <4> QED
        BY <2>2, <3>3, <4>1, <4>2, <4>3, Frame, FrameDecisions DEF BroughtUnit
    <3>6. \A x \in Units \ {u} : running'[x] = running[x]
      BY <1>0, <3>1 DEF Started
    <3> QED
      BY <1>3, <2>2, <2>4, <3>1, <3>2, <3>4, <3>5, <3>6
  <2> QED
    BY <2>1, <2>3, <2>5, <2>6, <2>8, <2>9 DEF Handle
<1> QED
  BY <1>4, <1>5, <1>6, <1>7, <1>8, <1>9, <1>10, <1>11, <1>12, Steps, Zenon

-----------------------------------------------------------------------------
IInv ==
    /\ Booked /\ Pointed /\ Placed /\ Loading /\ Remembered /\ Counted
    /\ Linking /\ Returnable /\ Decided /\ Noted /\ Returned /\ Kept /\ Brought

LEMMA InitHolds == Init => IInv
<1> SUFFICES ASSUME Init PROVE IInv
  OBVIOUS
<1>1. gen = 0 /\ recorded = 0 /\ cur = Nothing /\ prev = Nothing
  BY DEF Init, gen, cur, prev, M
<1>2. Booked /\ Pointed /\ Placed /\ Loading /\ Remembered /\ Counted
  BY <1>1, SystemdAssumption
  DEF Init, Booked, Pointed, Placed, Loading, Remembered, Counted, Points
<1>3. Linking /\ Returnable /\ Decided /\ Noted /\ Returned /\ Brought
  BY DEF Init, Linking, Returnable, Decided, Noted, Returned, Brought, Relinked, Restoring, Forward
<1>4. StartUnits(prev) = {} /\ StopUnits(prev) = {}
  BY <1>1 DEF StartUnits, StopUnits, Nothing
<1>5. Kept
  BY <1>4 DEF Init, Kept, AsRecorded
<1> QED
  BY <1>2, <1>3, <1>5 DEF IInv

(* IInv is an invariant of the reconciler.                                 *)
THEOREM SystemdInvariant == Spec => []IInv
<1>1. ASSUME IInv, [Next]_vars PROVE IInv'
  BY <1>1, BookedStays, PointedStays, PlacedStays, LoadingStays, RememberedStays, CountedStays,
     LinkingStays, ReturnableStays, DecidedStays, NotedStays, ReturnedStays, KeptStays, BroughtStays
  DEF IInv
<1> QED
  BY <1>1, InitHolds, PTL DEF Spec

(* The variables of the reconciler keep their types.                       *)
THEOREM SystemdTyped == Spec => []TypeOK
<1>1. IInv => TypeOK
  <2> SUFFICES ASSUME IInv PROVE TypeOK
    OBVIOUS
  <2>1. gen \in Nat /\ gen <= MaxGen /\ MaxGen \in Nat
    BY Views, SystemdAssumption DEF IInv, Booked
  <2>2. recorded \in 0..MaxGen /\ link \in [Units -> 0..MaxGen] /\ live \in [Units -> 0..MaxGen]
    BY <2>1 DEF IInv, Booked, Pointed
  <2> QED
    BY <2>2 DEF IInv, TypeOK, Booked, Placed, Loading, Remembered, Counted
<1> QED
  BY <1>1, SystemdInvariant, PTL

(* After a reconcile that reports success the runtime links are exactly    *)
(* those of the published manifest, whatever earlier kills, half-made      *)
(* links and failed restorations have left (_discover_*_links, _set_link). *)
THEOREM SystemdLinksMatch == Spec => []LinksMatch
<1>1. IInv => LinksMatch
  BY DEF IInv, Linking, Right, LinksMatch
<1> QED
  BY <1>1, SystemdInvariant, PTL

(* After a reconcile that reports success every unit that nobody disturbed *)
(* is as the state file says (reconcile: stop, restart, start, record).    *)
THEOREM SystemdRecordedIsLive == Spec => []RecordedIsLive
<1>1. IInv => RecordedIsLive
  <2> SUFFICES ASSUME IInv, outcome = "ok", NEW u \in Units \ disturbed
               PROVE  /\ u \in StartUnits(prev) => Active(u)
                      /\ u \in StopUnits(prev) => ~Active(u)
                      /\ Active(u) => running[u] = Wanted(prev, u)
    BY DEF RecordedIsLive
  <2>1. pc = "idle"
    BY DEF IInv, Placed
  <2>2. AsRecorded(u, running[u]) /\ (recorded = gen \/ Linked(prev) = {})
    BY <2>1 DEF IInv, Kept
  <2>3. Linked(prev) = {} => Wanted(prev, u) = 0
    BY DEF Wanted
  <2> QED
    BY <2>2, <2>3 DEF AsRecorded, Active
<1> QED
  BY <1>1, SystemdInvariant, PTL

(* A reconcile that fails without asking for manual recovery has ended no  *)
(* session, and if it meets no second fault while it restores it puts back *)
(* the links and the activity of services (rollback_links and              *)
(* rollback_active_state).                                                 *)
THEOREM SystemdFailureRestores == Spec => []FailureRestores
<1>1. IInv => FailureRestores
  BY DEF IInv, Noted, Returnable, Returned, Returns, FailureRestores
<1> QED
  BY <1>1, SystemdInvariant, PTL

=============================================================================
