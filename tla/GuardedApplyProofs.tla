------------------------ MODULE GuardedApplyProofs ------------------------
(***************************************************************************)
(* GuardedApply implements GuardOutcome, for any number of processes and   *)
(* of faults.                                                              *)
(*                                                                         *)
(* The invariant says what the lock is for: exactly the process inside a   *)
(* locked block holds it, so the state it read still stands when it writes *)
(* (Fresh); whoever runs the rollback claimed the guard and is alone       *)
(* (OneRoller); and the service unit is active while its process lives     *)
(* (Shown), so an elapsing timer never disturbs a running rollback.        *)
(***************************************************************************)
EXTENDS GuardedApply, TLAPS

Held == \A p \in Actors : lock = p <=> pc[p] \in LockedPoints

Fresh ==
    \A p \in Actors :
        /\ pc[p] \in {"armStop", "armService", "armTimer"} =>
               record \in {"none", "cancelled", "collected"}
        /\ pc[p] \in {"cancelCheck", "cancelStop", "cancelVerify"} => record = "armed"
        /\ pc[p] = "collectStop" => record \in {"completed", "failed", "cancelled"}

OneRoller ==
    \A p \in Actors : pc[p] = "rolling" =>
        record = "claimed" /\ \A q \in Actors : pc[q] = "rolling" => q = p

Shown == pc[Svc] # "idle" => service = "active"

IInv == TypeOK /\ Held /\ Fresh /\ OneRoller /\ Shown


-----------------------------------------------------------------------------
(* The invariant of the lock, the record and the rollback is inductive.    *)
LEMMA InvInit == Init => IInv
BY GuardedApplyAssumption
DEF Init, IInv, TypeOK, Held, Fresh, OneRoller, Shown, Actors, Points, LockedPoints, States

LEMMA InvStep == IInv /\ [Next]_vars => IInv'
<1> SUFFICES ASSUME IInv, [Next]_vars PROVE IInv'
  OBVIOUS
<1> USE GuardedApplyAssumption
    DEF IInv, TypeOK, Held, Fresh, OneRoller, Shown, Actors, Points, LockedPoints, States,
        Go, Enter, Leave, Brief, Exit, Fault
<1>1. CASE UNCHANGED vars
  BY <1>1 DEF vars
<1>2. ASSUME NEW p \in Procs, NEW n \in {"arm", "cancel", "fired", "collect"}, Command(p, n)
      PROVE  IInv'
  BY <1>2 DEF Command
<1>3. ASSUME NEW p \in Actors, ArmSteps(p) PROVE IInv'
  <2>1. CASE Arm(p)
    BY <2>1 DEF Arm
  <2>2. CASE ArmStop(p) \/ ArmService(p)
    BY <2>2 DEF ArmStop, ArmService
  <2>3. CASE ArmTimer(p)
    BY <2>3 DEF ArmTimer
  <2>4. CASE ArmRun(p) \/ ArmUndo(p)
    BY <2>4 DEF ArmRun, ArmUndo
  <2> QED
    BY <1>3, <2>1, <2>2, <2>3, <2>4 DEF ArmSteps
<1>4. ASSUME NEW p \in Actors, CancelSteps(p) PROVE IInv'
  <2>1. CASE Cancel(p)
    BY <2>1 DEF Cancel
  <2>2. CASE CancelCheck(p)
    BY <2>2, ZenonT(40) DEF CancelCheck, Unfired
  <2>3. CASE CancelStop(p)
    BY <2>3 DEF CancelStop
  <2>4. CASE CancelVerify(p)
    BY <2>4, ZenonT(40) DEF CancelVerify, Unfired
  <2> QED
    BY <1>4, <2>1, <2>2, <2>3, <2>4 DEF CancelSteps
<1>5. ASSUME NEW p \in Actors, FiredSteps(p) PROVE IInv'
  <2>1. CASE Fired(p)
    BY <2>1 DEF Fired
  <2>2. CASE Settle(p)
    BY <2>2 DEF Settle
  <2> QED
    BY <1>5, <2>1, <2>2 DEF FiredSteps
<1>6. ASSUME NEW p \in Actors, Collect(p) \/ CollectStop(p) PROVE IInv'
  BY <1>6 DEF Collect, CollectStop
<1>7. ASSUME NEW p \in Actors, Raise(p) \/ RunFails(p) \/ UndoFails(p) \/ Kill(p) PROVE IInv'
  <2>1. CASE Raise(p)
    BY <2>1 DEF Raise
  <2>2. CASE RunFails(p) \/ UndoFails(p)
    BY <2>2 DEF RunFails, UndoFails
  <2>3. CASE Kill(p)
    BY <2>3 DEF Kill
  <2> QED
    BY <1>7, <2>1, <2>2, <2>3
<1>8. CASE Elapse \/ Unload
  BY <1>8 DEF Elapse, Unload
<1>9. Next => IInv'
  <2> HAVE Next
  <2> HIDE DEF IInv
  <2> QED
    BY <1>2, <1>3, <1>4, <1>5, <1>6, <1>7, <1>8, Zenon DEF Next, Step
<1> QED
  BY <1>1, <1>9

(* Every reachable state of the guard is well typed, and what a process    *)
(* read of the record under the lock still holds when it writes it.        *)
THEOREM GuardInvariant == Spec => []IInv
BY InvInit, InvStep, PTL DEF Spec

(* Every reachable state of the guard is well typed.                       *)
THEOREM GuardTyped == Spec => []TypeOK
<1>1. IInv => TypeOK
  BY DEF IInv
<1> QED
  BY <1>1, GuardInvariant, PTL

-----------------------------------------------------------------------------
(* Each step is one of GuardOutcome's or leaves the outcome alone.         *)
LEMMA StepSimulation == IInv /\ [Next]_vars => [Outcome!Next]_(Outcome!vars)
<1> SUFFICES ASSUME IInv, [Next]_vars PROVE [Outcome!Next]_(Outcome!vars)
  OBVIOUS
<1> DEFINE Quiet == record' = record /\ Rolling' = Rolling
           G == Quiet \/ Outcome!Next
<1> USE GuardedApplyAssumption DEF Actors, LockedPoints
<1>q. ASSUME NEW p \in Actors, NEW x, pc' = [pc EXCEPT ![p] = x],
             pc[p] # "rolling", x # "rolling"
      PROVE  Rolling' = Rolling
  BY <1>q DEF IInv, TypeOK, Rolling
<1>n. ASSUME record # "claimed" PROVE ~Rolling
  BY <1>n DEF IInv, OneRoller, Rolling
<1>1. CASE UNCHANGED vars
  BY <1>1 DEF vars, Rolling, Outcome!vars
<1>2. ASSUME NEW p \in Procs, NEW n \in {"arm", "cancel", "fired", "collect"}, Command(p, n)
      PROVE  G
  BY <1>2, <1>q DEF Command, Go
<1>3. ASSUME NEW p \in Actors, ArmSteps(p) PROVE G
  <2>1. Rolling' = Rolling
    BY <1>3, <1>q DEF ArmSteps, Arm, ArmStop, ArmService, ArmTimer, ArmRun, ArmUndo,
        Go, Enter, Leave, Brief
  <2>2. CASE ArmTimer(p)
    BY <2>1, <2>2, <1>n DEF ArmTimer, IInv, Fresh, Outcome!Next, Outcome!Arm, Outcome!Reusable
  <2>3. CASE ArmUndo(p)
    BY <2>1, <2>3 DEF ArmUndo, Outcome!Next, Outcome!Disarm
  <2> QED
    BY <1>3, <2>1, <2>2, <2>3 DEF ArmSteps, Arm, ArmStop, ArmService, ArmRun
<1>4. ASSUME NEW p \in Actors, CancelSteps(p) PROVE G
  <2>1. Rolling' = Rolling
    BY <1>4, <1>q DEF CancelSteps, Cancel, CancelCheck, CancelStop, CancelVerify, Unfired,
        Go, Enter, Leave, Brief, IInv, TypeOK
  <2>2. CASE CancelCheck(p) \/ CancelVerify(p)
    BY <2>1, <2>2 DEF CancelCheck, CancelVerify, Unfired, IInv, Fresh, TypeOK,
        Outcome!Next, Outcome!Cancel, Outcome!Spoil
  <2> QED
    BY <1>4, <2>1, <2>2 DEF CancelSteps, Cancel, CancelStop
<1>5. ASSUME NEW p \in Actors, FiredSteps(p) PROVE G
  <2>1. CASE Fired(p) /\ record \in {"none", "armed"}
    <3>1. pc'[p] = "rolling"
      BY <2>1 DEF Fired, Brief, Go, IInv, TypeOK
    <3> QED
      BY <2>1, <3>1, <1>n DEF Fired, Rolling, Outcome!Next, Outcome!Claim
  <2>2. CASE Fired(p) /\ record \notin {"none", "armed"}
    BY <2>2, <1>q DEF Fired, Brief, Go
  <2>3. CASE Settle(p)
    <3>1. Rolling /\ record = "claimed"
      BY <2>3 DEF Settle, Rolling, IInv, OneRoller
    <3>2. ~Rolling'
      BY <2>3 DEF Settle, Brief, Go, Rolling, IInv, OneRoller, TypeOK
    <3>3. record' \in {"completed", "failed"}
      BY <2>3 DEF Settle
    <3>4. Outcome!Settle
      BY <3>1, <3>2, <3>3, Zenon DEF Outcome!Settle, Rolling
    <3> QED
      BY <3>4 DEF Outcome!Next
  <2> QED
    BY <1>5, <2>1, <2>2, <2>3 DEF FiredSteps
<1>6. ASSUME NEW p \in Actors, Collect(p) \/ CollectStop(p) PROVE G
  <2>1. Rolling' = Rolling
    BY <1>6, <1>q DEF Collect, CollectStop, Enter, Leave, Brief, Go
  <2> QED
    BY <1>6, <2>1 DEF Collect, CollectStop, IInv, Fresh, Outcome!Next, Outcome!Collect, Outcome!Settled
<1>7. ASSUME NEW p \in Actors, Raise(p) \/ RunFails(p) \/ UndoFails(p) \/ Kill(p) PROVE G
  <2>1. record' = record
    BY <1>7 DEF Raise, RunFails, UndoFails, Kill
  <2>2. CASE pc[p] # "rolling"
    BY <1>7, <2>1, <2>2, <1>q DEF Raise, RunFails, UndoFails, Kill, Leave, Brief, Go
  <2>3. CASE pc[p] = "rolling"
    <3>1. Kill(p)
      BY <1>7, <2>3 DEF Raise, RunFails, UndoFails
    <3>2. Rolling /\ record = "claimed" /\ ~Rolling'
      BY <2>3, <3>1 DEF Kill, Go, Rolling, IInv, OneRoller, TypeOK
    <3>3. Outcome!Abandon
      BY <2>1, <3>2, Zenon DEF Outcome!Abandon, Rolling
    <3> QED
      BY <3>3 DEF Outcome!Next
  <2> QED
    BY <2>2, <2>3
<1>8. ASSUME Elapse \/ Unload PROVE G
  <2>1. CASE Elapse
    BY <2>1, <1>q DEF Elapse, Go, IInv, Shown
  <2>2. CASE Unload
    BY <2>2 DEF Unload, Rolling
  <2> QED
    BY <1>8, <2>1, <2>2
<1>9. Next => G
  <2> HIDE DEF G
  <2> QED
    BY <1>2, <1>3, <1>4, <1>5, <1>6, <1>7, <1>8, Zenon DEF Next, Step
<1> QED
  BY <1>1, <1>9 DEF Outcome!vars

(* The guard of nas_guarded_apply.py keeps the promise of GuardOutcome: a  *)
(* rollback starts only with the claim, once, and never after a successful *)
(* cancel, whatever the timer, the callers and their deaths do.            *)
THEOREM GuardImplementsOutcome == Spec => OneOutcomeWins
<1>1. Init => Outcome!Init
  BY DEF Init, Outcome!Init, Rolling
<1> QED
  BY <1>1, GuardInvariant, StepSimulation, PTL DEF Spec, OneOutcomeWins, Outcome!Spec

-----------------------------------------------------------------------------
(* No armed record is forgotten.  What the claim needs beyond the lock is  *)
(* that the service is active only while its process lives (Awake): a      *)
(* cancellation that a live service refuses leaves the record to it.       *)
Awake ==
    /\ pc[Svc] \in {"idle", "fired", "rolling"}
    /\ service = "active" => pc[Svc] # "idle"

TInv == Awake /\ ArmedIsTriggered

LEMMA TriggerInit == Init => TInv
BY DEF Init, TInv, Awake, ArmedIsTriggered, Actors

(* Awake: only the timer and the kernel touch the service and its process. *)
LEMMA AwakeStep == IInv /\ Awake /\ [Next]_vars => Awake'
<1> SUFFICES ASSUME IInv, Awake, [Next]_vars PROVE Awake'
  OBVIOUS
<1> USE GuardedApplyAssumption DEF Awake, IInv, TypeOK, Actors, Go, Enter, Leave, Brief, Exit
<1>1. CASE UNCHANGED vars
  BY <1>1 DEF vars
<1>2. ASSUME NEW p \in Procs, NEW n \in {"arm", "cancel", "fired", "collect"}, Command(p, n)
      PROVE  Awake'
  BY <1>2 DEF Command
<1>3. ASSUME NEW p \in Actors, Step(p) PROVE Awake'
  <2>1. CASE p = Svc
    BY <1>3, <2>1 DEF Step, ArmSteps, Arm, ArmStop, ArmService, ArmTimer, ArmRun, ArmUndo,
        CancelSteps, Cancel, CancelCheck, CancelStop, CancelVerify, FiredSteps, Fired, Settle,
        Collect, CollectStop
  <2>2. CASE p # Svc
    BY <1>3, <2>2 DEF Step, ArmSteps, Arm, ArmStop, ArmService, ArmTimer, ArmRun, ArmUndo,
        CancelSteps, Cancel, CancelCheck, CancelStop, CancelVerify, Unfired, FiredSteps, Fired,
        Settle, Collect, CollectStop
  <2> QED
    BY <2>1, <2>2
<1>4. ASSUME NEW p \in Actors, Raise(p) \/ RunFails(p) \/ UndoFails(p) \/ Kill(p) PROVE Awake'
  BY <1>4 DEF Raise, RunFails, UndoFails, Kill, LockedPoints
<1>5. CASE Elapse \/ Unload
  BY <1>5 DEF Elapse, Unload
<1> QED
  BY <1>1, <1>2, <1>3, <1>4, <1>5 DEF Next

LEMMA TriggerStep == IInv /\ TInv /\ [Next]_vars => ArmedIsTriggered'
<1> SUFFICES ASSUME IInv, TInv, [Next]_vars, record' = "armed", faults' = 0
             PROVE  ArmedIsTriggered'
  BY DEF ArmedIsTriggered
<1> USE GuardedApplyAssumption
    DEF TInv, Awake, ArmedIsTriggered, IInv, TypeOK, Actors, Go, Enter, Leave, Brief, Exit
<1>0. record = "armed" /\ faults = 0 =>
        \/ timer = "active" \/ pc[Svc] = "fired"
        \/ \E q \in Procs : pc[q] \in {"armRun", "armUndo", "cancelVerify", "fired"}
  OBVIOUS
<1>1. CASE UNCHANGED vars
  BY <1>1 DEF vars
<1>2. ASSUME NEW p \in Procs, NEW n \in {"arm", "cancel", "fired", "collect"}, Command(p, n)
      PROVE  ArmedIsTriggered'
  BY <1>2 DEF Command
<1>3. ASSUME NEW p \in Actors, ArmSteps(p) PROVE ArmedIsTriggered'
  <2>1. CASE ArmStop(p)
    BY <2>1 DEF ArmStop, Fresh
  <2>2. CASE ArmTimer(p)
    BY <2>2 DEF ArmTimer
  <2>3. CASE Arm(p) \/ ArmService(p) \/ ArmRun(p) \/ ArmUndo(p)
    BY <2>3 DEF Arm, ArmService, ArmRun, ArmUndo
  <2> QED
    BY <1>3, <2>1, <2>2, <2>3 DEF ArmSteps
<1>4. ASSUME NEW p \in Actors, CancelSteps(p) PROVE ArmedIsTriggered'
  <2>1. CASE Cancel(p) \/ CancelCheck(p) \/ CancelStop(p)
    BY <2>1 DEF Cancel, CancelCheck, CancelStop, Unfired
  <2>2. CASE CancelVerify(p)
    <3>1. service = "active" /\ UNCHANGED <<record, timer>> /\ pc' = [pc EXCEPT ![p] = "idle"]
      BY <2>2 DEF CancelVerify, Unfired
    <3>2. pc[Svc] = "fired" /\ p # Svc
      BY <2>2, <3>1 DEF CancelVerify, OneRoller
    <3> QED
      BY <3>1, <3>2
  <2> QED
    BY <1>4, <2>1, <2>2 DEF CancelSteps
<1>5. ASSUME NEW p \in Actors, FiredSteps(p) PROVE ArmedIsTriggered'
  BY <1>5 DEF FiredSteps, Fired, Settle
<1>6. ASSUME NEW p \in Actors, Collect(p) \/ CollectStop(p) PROVE ArmedIsTriggered'
  BY <1>6 DEF Collect, CollectStop
<1>7. ASSUME NEW p \in Actors, Raise(p) \/ RunFails(p) \/ UndoFails(p) \/ Kill(p) PROVE FALSE
  BY <1>7 DEF Raise, RunFails, UndoFails, Kill, Fault
<1>8. CASE Elapse \/ Unload
  BY <1>8 DEF Elapse, Unload
<1> QED
  BY <1>1, <1>2, <1>3, <1>4, <1>5, <1>6, <1>7, <1>8 DEF Next, Step

(* As long as no call failed and nobody was killed, every armed guard of   *)
(* nas_guarded_apply.py has something that will fire it or take it back,   *)
(* for any number of callers.                                              *)
THEOREM GuardArmedIsTriggered == Spec => []ArmedIsTriggered
<1>1. TInv /\ IInv /\ [Next]_vars => TInv'
  BY AwakeStep, TriggerStep DEF TInv
<1>2. TInv => ArmedIsTriggered
  BY DEF TInv
<1> QED
  BY <1>1, <1>2, TriggerInit, GuardInvariant, PTL DEF Spec

=============================================================================
