--------------------- MODULE ReconcileTransactionProofs ---------------------
(***************************************************************************)
(* Proofs about ReconcileTransaction, for any documents and any number of  *)
(* invocations, requests and faults.                                       *)
(*                                                                         *)
(* The four safety properties rest on one invariant, IInv:                 *)
(*  - Sound, Working, Goals: the history only grows, so a revision keeps   *)
(*    its document; what refs/nas/applied, previous-applied and the target *)
(*    of a rollback name has been built and run.                           *)
(*  - Marked: whoever changes the file after an invocation has compiled it *)
(*    leaves a mark, and the acknowledgement takes only the mark of what   *)
(*    was applied.                                                         *)
(*  - Watched: from arming on the guard record of the last invocation is   *)
(*    not settled until the invocation itself cancels it, because every    *)
(*    rollback that reports waits for a later invocation than the one it   *)
(*    rolls back (RollsOK).                                                *)
(*  - Blamed: whoever left the runtime mixed has a guard record that is    *)
(*    not settled, and nobody has projected since; a rollback completes    *)
(*    that record only once a later invocation has ended well, that is,    *)
(*    has projected.                                                       *)
(*                                                                         *)
(* The last part shows that the guard records go through the outcomes of   *)
(* GuardOutcome (ReconcileGuardsPromised): whoever rolls back has claimed  *)
(* its guard and is alone with it (OneRollback).  And no step rewrites the *)
(* history (ReconcileHistoryKept).                                         *)
(***************************************************************************)
EXTENDS ReconcileTransaction, TLAPS

(* Before the compile loop has an answer, an attempt is left.              *)
Unanswered == {"removing", "bootstrapping", "bootstrapping2", "naming", "arming", "recording",
               "compiling"}

UnitOK ==
    /\ unit \in Phases \cup Ended
    /\ unit # "inactive" => run >= 1
    /\ run \in 0..MaxRuns
    /\ lost \subseteq 1..run
    /\ attempt \in 0..Attempts
    /\ unit \in Unanswered => attempt >= 1

GuardStates == {"none", "armed", "claimed", "completed", "failed", "cancelled"}

(* No guard belongs to an invocation that is still to come.                *)
GuardsOK ==
    /\ guardFile \in 0..run
    /\ guard \in [Runs -> GuardStates]
    /\ timers \subseteq 1..run
    /\ \A i \in Runs : i > run => guard[i] = "none"

Jobs == [guard : Rollers, failed : Nat, seen : Nat, goal : Nat, run : Nat]

(* A rollback waits for an invocation after the one it rolls back.         *)
RollsOK ==
    /\ roll \in [Rollers -> RollPoints]
    /\ job \in [Rollers -> Jobs]
    /\ \A r \in Rollers :
        /\ job[r].guard <= run
        /\ roll[r] = "waiting" => job[r].guard < job[r].run /\ job[r].run <= run

HistoryOK ==
    /\ file \in Docs
    /\ log \in Seq(Docs)
    /\ {applied, previous, native, current, target, old, committed} \subseteq Revisions

(* A revision in a history that compiles, and that projects as well.       *)
Builds(l, c) == c \in 1..Len(l) /\ l[c] \notin Unbuildable
Works(l, c)  == Builds(l, c) /\ l[c] \notin Unrunnable

(* What refs and links name has been built, what is live has been run.     *)
Sound ==
    /\ applied # 0 => Works(log, applied)
    /\ previous # 0 => Works(log, previous)
    /\ native # 0 => Works(log, native)
    /\ current # 0 => Builds(log, current)

(* From the compiled generation on, and from the projected one on.         *)
Projected == {"marking", "marking2", "acking", "cancelling", "unnaming", "clearing"}
Published == {"linking", "switching", "pinning", "projecting"} \cup Projected

(* What an invocation knows of the revision it works on.  Nobody commits   *)
(* from its compilation on but a rollback, and that commits a document     *)
(* that works.                                                             *)
Working ==
    /\ unit = "bootstrapping2" => log = <<Base>>
    /\ unit \in Published => Builds(log, target) /\ (target = HEAD \/ Works(log, HEAD))
    /\ unit \in {"pinning", "projecting"} => target = current
    /\ unit \in Projected => Works(log, target) /\ Works(log, HEAD) /\ native = target /\ ~mixed

(* A rollback goes back to a revision that works.                          *)
Goals == \A r \in Rollers : roll[r] = "referring" => Works(log, job[r].goal)

(* From arming to cancelling, the invocation's guard record stands; if the *)
(* invocation fails later, what it compiled or restored works.             *)
Armed == {"recording", "compiling", "linking", "switching", "pinning", "projecting", "marking",
          "marking2", "acking", "cancelling"}

Unarmed == {"removing", "bootstrapping", "bootstrapping2", "naming", "arming"}

Watched ==
    /\ unit \in Armed => Unsettled(run)
    /\ unit \in Unarmed => Unsettled(run) \/ guard[run] = "none"
    /\ unit = "failed" => Unsettled(run) \/ guard[run] = "none" \/ Works(log, HEAD)

(* Whoever changes the file after the compilation leaves a mark.           *)
Marked ==
    /\ unit \in Published => file = log[target] \/ dirty \/ pending
    /\ unit = "inactive" =>
           wanted \/ (~mixed /\ native # 0 /\ (file = log[native] \/ dirty \/ pending))

Unprojected == {"removing", "bootstrapping", "bootstrapping2", "naming", "arming", "recording",
                "compiling", "linking", "switching", "pinning"}

(* No invocation after w has projected anything.                           *)
StillMixed(w) == \A k \in (w + 1)..run : k \in lost \/ (k = run /\ unit \in Unprojected)

(* A mixed runtime is the work of an invocation whose guard record is not  *)
(* settled, and nobody has projected since.                                *)
Blamed ==
    mixed => /\ unit \in Unprojected \cup {"projecting", "failed"}
             /\ \E w \in 1..run : Unsettled(w) /\ StillMixed(w)

-----------------------------------------------------------------------------
(* The reconcile unit, its guards and the rollbacks are well typed.        *)
LEMMA UnitStays == UnitOK /\ [Next]_vars => UnitOK'
<1> SUFFICES ASSUME UnitOK, [Next]_vars PROVE UnitOK'
  OBVIOUS
<1>1. ASSUME UNCHANGED <<unit, run, lost, attempt>> PROVE UnitOK'
  BY <1>1 DEF UnitOK
<1>2. CASE UNCHANGED vars \/ (\E d \in Docs : Edit(d)) \/ TouchPending \/ HandlerStep
  BY <1>1, <1>2
  DEF vars, unitv, Edit, TouchPending, HandlerStep, HandlerStarts, ReadGuardFile, HandlerEnds
<1>3. CASE Start \/ StartRequest
  <2>1. run < MaxRuns /\ run' = run + 1 /\ unit' = "removing" /\ attempt' = Attempts /\ lost' = lost
    BY <1>3 DEF Start, StartRequest, StartUnit
  <2> QED
    BY <2>1, ReconcileAssumption DEF UnitOK, Phases, Ended, Unanswered
<1>4. ASSUME run' = run, attempt' = attempt, lost' = lost, UnitOK,
             unit # "inactive",
             unit' \in Phases \cup Ended, unit' \in Unanswered => unit \in Unanswered
      PROVE  UnitOK'
  BY <1>4 DEF UnitOK
<1>5. ASSUME run' = run, attempt' \in 0..Attempts, unit' = "failed", lost' = lost \cup {run},
             unit \in Phases
      PROVE  UnitOK'
  BY <1>5 DEF UnitOK, Phases, Ended, Unanswered
<1> attempt \in 0..Attempts
  BY DEF UnitOK
<1>6. CASE CommandFails
  BY <1>5, <1>6 DEF CommandFails, FailUnit
<1>7. CASE UnitStep
  <2>1. CASE RemovePlan \/ BootstrapApplied \/ NameGuard \/ Record \/ LinkPlan
    BY <1>4, <2>1 DEF RemovePlan, BootstrapApplied, NameGuard, Record, LinkPlan, Proceed,
       Phases, Ended, Unanswered
  <2>2. CASE SwitchCurrent \/ MarkPrevious \/ AckPending \/ UnnameGuard \/ ClearPrevious
    BY <1>4, <2>2 DEF SwitchCurrent, MarkPrevious, AckPending, UnnameGuard, ClearPrevious, Proceed,
       Phases, Ended, Unanswered
  <2>3. CASE BootstrapHead \/ ArmGuard
    BY <1>4, <1>5, <2>3 DEF BootstrapHead, ArmGuard, FailUnit, Phases, Ended, Unanswered
  <2>4. CASE PinRevision \/ Project \/ MarkApplied \/ CancelGuard
    BY <1>4, <1>5, <2>4 DEF PinRevision, Project, MarkApplied, CancelGuard, FailUnit, Phases, Ended, Unanswered
  <2>5. CASE Compile
    <3>1. /\ unit = "compiling" /\ run' = run /\ attempt' = attempt - 1
          /\ \/ unit' = "linking" /\ lost' = lost
             \/ attempt > 1 /\ unit' = "recording" /\ lost' = lost
             \/ unit' = "failed" /\ lost' = lost \cup {run}
      BY <2>5 DEF Compile, FailUnit
    <3>2. attempt \in 1..Attempts /\ attempt' \in 0..Attempts /\ (attempt > 1 => attempt' >= 1)
      BY <3>1, ReconcileAssumption DEF UnitOK, Unanswered
    <3> QED
      BY <1>5, <3>1, <3>2 DEF UnitOK, Phases, Ended, Unanswered
  <2> QED
    BY <1>7, <2>1, <2>2, <2>3, <2>4, <2>5, Zenon DEF UnitStep
<1>8. CASE \E i \in Runs : Elapse(i)
  BY <1>1, <1>8 DEF Elapse, unitv
<1>9. ASSUME NEW r \in Rollers, RollStep(r) \/ RollDies(r) PROVE UnitOK'
  <2>1. CASE Claim(r) \/ StopTimers(r) \/ Identify(r) \/ LeaveAlone(r) \/ Restore(r)
    BY <1>1, <2>1 DEF Claim, StopTimers, Identify, LeaveAlone, Restore, unitv
  <2>2. CASE RestoreRefuses(r) \/ RestoreRefs(r) \/ Settle(r) \/ RollDies(r)
    BY <1>1, <2>2 DEF RestoreRefuses, RestoreRefs, Settle, RollDies, unitv
  <2>3. CASE StopUnit(r)
    BY <1>1, <1>5, <2>3 DEF StopUnit
  <2>4. CASE Restart(r)
    BY <2>4, ReconcileAssumption DEF Restart, StartUnit, UnitOK, Phases, Ended, Unanswered
  <2> QED
    BY <1>9, <2>1, <2>2, <2>3, <2>4, Zenon DEF RollStep
<1>10. CASE Reboot
  BY <1>10 DEF Reboot, UnitOK, Phases, Ended, Unanswered
<1> QED
  BY <1>2, <1>3, <1>6, <1>7, <1>8, <1>9, <1>10 DEF Next

(* An invocation starts, or the numbers stay.                              *)
LEMMA RunCounts == UnitOK /\ [Next]_vars => run' = run \/ (run' = run + 1 /\ run < MaxRuns)
<1> SUFFICES ASSUME UnitOK, [Next]_vars PROVE run' = run \/ (run' = run + 1 /\ run < MaxRuns)
  OBVIOUS
<1>1. CASE UNCHANGED vars \/ (\E d \in Docs : Edit(d)) \/ TouchPending \/ HandlerStep \/ Reboot
  BY <1>1
  DEF vars, unitv, Edit, TouchPending, HandlerStep, HandlerStarts, ReadGuardFile, HandlerEnds, Reboot
<1>2. CASE Start \/ StartRequest \/ CommandFails
  BY <1>2 DEF Start, StartRequest, StartUnit, CommandFails
<1>3. CASE UnitStep
  BY <1>3 DEF UnitStep, RemovePlan, BootstrapHead, BootstrapApplied, NameGuard, ArmGuard, Record,
     Compile, LinkPlan, SwitchCurrent, PinRevision, Project, MarkPrevious, MarkApplied, AckPending,
     CancelGuard, UnnameGuard, ClearPrevious
<1>4. CASE \E i \in Runs : Elapse(i)
  BY <1>4 DEF Elapse, unitv
<1>5. CASE \E r \in Rollers : RollStep(r) \/ RollDies(r)
  BY <1>5 DEF RollStep, RollDies, Claim, StopUnit, StopTimers, Identify, LeaveAlone, Restore,
     RestoreRefuses, RestoreRefs, Restart, StartUnit, Settle, unitv
<1> QED
  BY <1>1, <1>2, <1>3, <1>4, <1>5 DEF Next

LEMMA GuardsStay == UnitOK /\ GuardsOK /\ RollsOK /\ [Next]_vars => GuardsOK'
<1> SUFFICES ASSUME UnitOK, GuardsOK, RollsOK, [Next]_vars PROVE GuardsOK'
  OBVIOUS
<1> run \in Nat /\ run' \in Nat /\ run' >= run
  BY RunCounts, ReconcileAssumption DEF UnitOK
<1>1. ASSUME guardFile' \in {guardFile, 0}, UNCHANGED <<guard, timers>> PROVE GuardsOK'
  BY <1>1 DEF GuardsOK, Runs
<1>2. CASE UNCHANGED vars \/ (\E d \in Docs : Edit(d)) \/ TouchPending \/ Start \/ StartRequest \/ CommandFails
  BY <1>1, <1>2
  DEF vars, guards, Edit, TouchPending, Start, StartRequest, CommandFails
<1>3. CASE HandlerStep
  BY <1>1, <1>3 DEF HandlerStep, HandlerStarts, ReadGuardFile, HandlerEnds, guards
<1>4. CASE UnitStep
  <2>1. CASE RemovePlan \/ BootstrapHead \/ BootstrapApplied \/ Record \/ Compile \/ LinkPlan
             \/ SwitchCurrent \/ PinRevision \/ Project \/ MarkPrevious \/ MarkApplied
             \/ AckPending \/ ClearPrevious
    BY <1>1, <2>1 DEF RemovePlan, BootstrapHead, BootstrapApplied, Record, Compile, LinkPlan,
       SwitchCurrent, PinRevision, Project, MarkPrevious, MarkApplied, AckPending, ClearPrevious, guards
  <2>2. CASE NameGuard \/ UnnameGuard
    <3>1. guardFile' \in {run, 0} /\ UNCHANGED <<guard, timers, run>>
      BY <2>2 DEF NameGuard, UnnameGuard
    <3> QED
      BY <3>1 DEF GuardsOK
  <2>3. CASE ArmGuard \/ CancelGuard
    <3>1. run \in Runs /\ run \in 1..run /\ run' = run
      BY <2>3, ReconcileAssumption DEF ArmGuard, CancelGuard, UnitOK, Runs
    <3>2. /\ guardFile' = guardFile
          /\ timers' \in {timers, timers \cup {run}, timers \ {run}}
          /\ guard' = guard \/ \E state \in GuardStates : guard' = [guard EXCEPT ![run] = state]
      BY <2>3 DEF ArmGuard, CancelGuard, GuardStates
    <3> QED
      <4>1. guard' \in [Runs -> GuardStates]
        BY <3>1, <3>2 DEF GuardsOK
      <4>2. ASSUME NEW i \in Runs, i > run PROVE guard'[i] = "none"
        <5>1. i # run /\ guard[i] = "none"
          BY <3>1, <4>2 DEF GuardsOK, Runs
        <5> QED
          BY <3>2, <5>1 DEF GuardsOK
      <4>3. timers' \subseteq 1..run
        BY <3>1, <3>2 DEF GuardsOK
      <4> QED
        BY <3>1, <3>2, <4>1, <4>2, <4>3 DEF GuardsOK
  <2> QED
    BY <1>4, <2>1, <2>2, <2>3, Zenon DEF UnitStep
<1>5. ASSUME NEW i \in Runs, Elapse(i) PROVE GuardsOK'
  BY <1>5 DEF Elapse, GuardsOK, Runs
<1>6. ASSUME NEW r \in Rollers, RollStep(r) \/ RollDies(r) PROVE GuardsOK'
  <2>1. CASE StopUnit(r) \/ Identify(r) \/ LeaveAlone(r) \/ Restore(r) \/ Restart(r) \/ RollDies(r)
    BY <1>1, <2>1 DEF StopUnit, Identify, LeaveAlone, Restore, Restart, RollDies, guards
  <2>2. ASSUME NEW state \in GuardStates, Outcome(r, state)
        PROVE  /\ guard' \in [Runs -> GuardStates]
               /\ \A i \in Runs : i > run' => guard'[i] = "none"
    <3>1. job[r].guard \in Nat /\ job[r].guard <= run
      BY ReconcileAssumption DEF RollsOK, Jobs, Rollers
    <3> QED
      <4>1. guard' \in [Runs -> GuardStates]
        BY <2>2 DEF Outcome, GuardsOK
      <4>2. ASSUME NEW i \in Runs, i > run' PROVE guard'[i] = "none"
        <5>1. i > run /\ i # job[r].guard /\ i \in Nat
          BY <3>1, <4>2 DEF Runs
        <5>2. guard[i] = "none"
          BY <5>1 DEF GuardsOK
        <5> QED
          BY <2>2, <5>1, <5>2 DEF Outcome, GuardsOK
      <4> QED
        BY <4>1, <4>2
  <2>3. CASE Claim(r) \/ RestoreRefuses(r) \/ RestoreRefs(r) \/ Settle(r)
    <3>1. \/ guard' = guard
          \/ \E state \in GuardStates : Outcome(r, state)
      BY <2>3 DEF Claim, RestoreRefuses, RestoreRefs, Settle, GuardStates
    <3>2. /\ guard' \in [Runs -> GuardStates]
          /\ \A i \in Runs : i > run' => guard'[i] = "none"
      <4>1. CASE guard' = guard
        BY <4>1 DEF GuardsOK, Runs
      <4> QED
        BY <2>2, <3>1, <4>1
    <3>3. UNCHANGED <<guardFile, timers>>
      BY <2>3 DEF Claim, RestoreRefuses, RestoreRefs, Settle
    <3> QED
      BY <3>2, <3>3 DEF GuardsOK
  <2>4. CASE StopTimers(r)
    BY <2>4 DEF StopTimers, GuardsOK, Runs
  <2> QED
    BY <1>6, <2>1, <2>3, <2>4, Zenon DEF RollStep
<1>7. CASE Reboot
  BY <1>7 DEF Reboot, GuardsOK, GuardStates
<1> QED
  BY <1>2, <1>3, <1>4, <1>5, <1>6, <1>7 DEF Next

LEMMA RollsStay == UnitOK /\ GuardsOK /\ RollsOK /\ HistoryOK /\ [Next]_vars => RollsOK'
<1> SUFFICES ASSUME UnitOK, GuardsOK, RollsOK, HistoryOK, [Next]_vars PROVE RollsOK'
  OBVIOUS
<1> DEFINE Fits(point, j) ==
      /\ point \in RollPoints /\ j \in Jobs /\ j.guard <= run'
      /\ point = "waiting" => j.guard < j.run /\ j.run <= run'
<1> run \in Nat /\ run' \in Nat /\ run' >= run
  BY RunCounts, ReconcileAssumption DEF UnitOK
<1>1. \A r \in Rollers : Fits(roll[r], job[r])
  BY DEF RollsOK, Jobs, Rollers
<1>2. ASSUME UNCHANGED job,
             roll' = roll \/ (\E r \in Rollers, point \in RollPoints \ {"waiting"} :
                                 roll' = [roll EXCEPT ![r] = point])
      PROVE  RollsOK'
  BY <1>1, <1>2 DEF RollsOK
<1>3. ASSUME NEW r \in Rollers, NEW point \in RollPoints, NEW j \in Jobs, Fits(point, j),
             roll' = [roll EXCEPT ![r] = point], job' = [job EXCEPT ![r] = j]
      PROVE  RollsOK'
  BY <1>1, <1>3 DEF RollsOK
<1> applied \in Nat /\ previous \in Nat /\ current \in Nat /\ HEAD \in Nat
  BY DEF HistoryOK, Revisions, HEAD
<1> NoJob \in Jobs /\ Handler \in Rollers
  BY ReconcileAssumption DEF NoJob, Jobs, Rollers, Handler
<1>4. Notified(roll) = roll \/ Notified(roll) = [roll EXCEPT ![Handler] = "queued"]
  BY DEF Notified
<1>5. CASE UNCHANGED vars \/ (\E d \in Docs : Edit(d)) \/ TouchPending \/ Start \/ StartRequest
  BY <1>2, <1>5 DEF vars, rolls, Edit, TouchPending, Start, StartRequest
<1>6. CASE CommandFails
  BY <1>2, <1>4, <1>6 DEF CommandFails, FailUnit, RollPoints
<1>7. CASE UnitStep
  <2>1. job' = job /\ (roll' = roll \/ roll' = Notified(roll))
    BY <1>7 DEF UnitStep, RemovePlan, BootstrapHead, BootstrapApplied, NameGuard, ArmGuard, Record,
       Compile, LinkPlan, SwitchCurrent, PinRevision, Project, MarkPrevious, MarkApplied, AckPending,
       CancelGuard, UnnameGuard, ClearPrevious, FailUnit, rolls
  <2> QED
    BY <1>2, <1>4, <2>1 DEF RollPoints
<1>8. ASSUME NEW i \in Runs, Elapse(i) PROVE RollsOK'
  <2>1. i \in Rollers /\ i <= run'
    BY <1>8, ReconcileAssumption DEF Elapse, Runs, Rollers, GuardsOK
  <2>2. [NoJob EXCEPT !.guard = i] \in Jobs /\ Fits("claiming", [NoJob EXCEPT !.guard = i])
    BY <2>1, ReconcileAssumption DEF NoJob, Jobs, RollPoints, Rollers
  <2> QED
    BY <1>3, <1>8, <2>1, <2>2 DEF Elapse, GoRoll, RollPoints
<1>9. CASE HandlerStarts \/ HandlerEnds
  BY <1>2, <1>9 DEF HandlerStarts, HandlerEnds, GoRoll, RollPoints
<1>10. CASE ReadGuardFile
  <2>1. guardFile \in Rollers /\ guardFile <= run'
    BY ReconcileAssumption DEF Rollers, GuardsOK, UnitOK
  <2>2. \A point \in {"stopping", "claiming"} :
            /\ [NoJob EXCEPT !.guard = guardFile] \in Jobs
            /\ Fits(point, [NoJob EXCEPT !.guard = guardFile])
    BY <2>1, ReconcileAssumption DEF NoJob, Jobs, RollPoints, Rollers
  <2> QED
    BY <1>3, <1>10, <2>1, <2>2 DEF ReadGuardFile, GoRoll, RollPoints
<1>11. ASSUME NEW r \in Rollers, RollStep(r) \/ RollDies(r) PROVE RollsOK'
  <2>0. job[r] \in Jobs /\ Fits(roll[r], job[r])
    BY <1>1 DEF RollsOK
  <2>1. ASSUME Retire(r) PROVE RollsOK'
    <3>1. \A point \in {"unnaming", "idle"} : Fits(point, NoJob)
      BY DEF NoJob, Jobs, RollPoints
    <3> QED
      BY <1>3, <2>1, <3>1 DEF Retire, GoRoll, RollPoints
  <2>2. CASE Claim(r)
    BY <1>2, <2>1, <2>2 DEF Claim, GoRoll, RollPoints
  <2>3. CASE StopTimers(r) \/ LeaveAlone(r)
    BY <1>2, <2>3 DEF StopTimers, LeaveAlone, GoRoll, RollPoints
  <2>4. CASE RestoreRefuses(r) \/ Settle(r)
    BY <2>1, <2>4 DEF RestoreRefuses, Settle
  <2>5. CASE RestoreRefs(r)
    BY <1>2, <2>1, <2>5 DEF RestoreRefs, GoRoll, RollPoints
  <2>6. CASE RollDies(r)
    <3>1. Fits("idle", NoJob)
      BY DEF NoJob, Jobs, RollPoints
    <3> QED
      BY <1>3, <2>6, <3>1 DEF RollDies, GoRoll, RollPoints
  <2>7. CASE StopUnit(r)
    <3>1. roll' = [roll EXCEPT ![r] = "stoppingTimers"]
          \/ roll' = [[roll EXCEPT ![r] = "stoppingTimers"] EXCEPT ![Handler] = "queued"]
      BY <2>7 DEF StopUnit, Notified, GoRoll
    <3> QED
      BY <1>1, <2>7, <3>1 DEF StopUnit, RollsOK, RollPoints
  <2>8. CASE Identify(r)
    <3>1. PICK f \in Nat : job' = [job EXCEPT ![r].failed = f]
      <4>1. (IF PlanRevision # 0 THEN PlanRevision ELSE HEAD) \in Nat
        BY DEF PlanRevision
      <4> QED
        BY <2>8, <4>1 DEF Identify
    <3>2. [job[r] EXCEPT !.failed = f] \in Jobs /\ Fits("restoring", [job[r] EXCEPT !.failed = f])
      BY <2>0 DEF Jobs, RollPoints
    <3>3. job' = [job EXCEPT ![r] = [job[r] EXCEPT !.failed = f]]
      BY <3>1
    <3> QED
      BY <1>3, <2>8, <3>2, <3>3 DEF Identify, GoRoll, RollPoints
  <2>9. CASE Restore(r)
    <3>1. PICK g \in Nat : job' = [job EXCEPT ![r].seen = applied, ![r].goal = g]
      <4>1. RollbackTarget(r) \in Nat
        BY DEF RollbackTarget
      <4> QED
        BY <2>9, <4>1 DEF Restore
    <3>2. /\ [job[r] EXCEPT !.seen = applied, !.goal = g] \in Jobs
          /\ Fits("referring", [job[r] EXCEPT !.seen = applied, !.goal = g])
      BY <2>0 DEF Jobs, RollPoints
    <3>3. job' = [job EXCEPT ![r] = [job[r] EXCEPT !.seen = applied, !.goal = g]]
      BY <3>1 DEF RollsOK, Jobs
    <3> QED
      BY <1>3, <2>9, <3>2, <3>3 DEF Restore, GoRoll, RollPoints
  <2>10. CASE Restart(r)
    <3>1. /\ run' = run + 1 /\ job' = [job EXCEPT ![r] = [job[r] EXCEPT !.run = run']]
          /\ \/ roll' = [roll EXCEPT ![r] = "waiting"]
             \/ roll' = [[roll EXCEPT ![r] = "waiting"] EXCEPT ![Handler] = "queued"]
      BY <2>10 DEF Restart, StartUnit, Notified
    <3>2. /\ [job[r] EXCEPT !.run = run'] \in Jobs
          /\ Fits("waiting", [job[r] EXCEPT !.run = run'])
          /\ Fits("queued", [job[r] EXCEPT !.run = run'])
      <4>1. job[r].guard \in Nat /\ job[r].guard < run'
        <5>1. job[r].guard \in Rollers /\ job[r].guard <= run
          BY <2>0 DEF Jobs, RollsOK
        <5> QED
          BY <3>1, <5>1, ReconcileAssumption DEF Rollers
      <4> QED
        BY <2>0, <3>1, <4>1 DEF Jobs, RollPoints
    <3> QED
      BY <1>1, <3>1, <3>2 DEF RollsOK, RollPoints
  <2> QED
    BY <1>11, <2>2, <2>3, <2>4, <2>5, <2>6, <2>7, <2>8, <2>9, <2>10, Zenon DEF RollStep
<1>12. CASE Reboot
  BY <1>12 DEF Reboot, RollsOK, RollPoints, NoJob
<1> QED
  BY <1>5, <1>6, <1>7, <1>8, <1>9, <1>10, <1>11, <1>12 DEF Next, HandlerStep

-----------------------------------------------------------------------------
(* The history only grows, so a revision keeps its document.               *)
LEMMA CommittedFacts ==
    ASSUME HistoryOK
    PROVE  /\ Committed \in Seq(Docs)
           /\ Len(Committed) >= Len(log) /\ Len(Committed) >= 1
           /\ \A c \in 1..Len(log) : Committed[c] = log[c]
           /\ Committed[Len(Committed)] = file
<1>1. CASE log # <<>> /\ log[HEAD] = file
  BY <1>1 DEF Committed, HEAD, HistoryOK
<1>2. CASE ~(log # <<>> /\ log[HEAD] = file)
  BY <1>2 DEF Committed, HEAD, HistoryOK
<1> QED
  BY <1>1, <1>2

(* A rollback goes back to a revision that works, and commits its document *)
(* unless HEAD has it.                                                     *)
LEMMA RestoreFacts ==
    ASSUME HistoryOK, Sound, NEW r \in Rollers, Restore(r)
    PROVE  /\ Works(log, RollbackTarget(r))
           /\ file' = log[RollbackTarget(r)] /\ file' \in Docs
           /\ log' \in Seq(Docs)
           /\ Len(log') >= Len(log) /\ \A c \in 1..Len(log) : log'[c] = log[c]
           /\ Works(log', Len(log'))
<1> log \in Seq(Docs) /\ Len(log) \in Nat /\ applied \in 0..Len(log) /\ previous \in 0..Len(log)
  BY DEF HistoryOK, Revisions
<1>1. Works(log, RollbackTarget(r))
  BY DEF Restore, RollbackTarget, Sound
<1>2. file' = log[RollbackTarget(r)]
  BY DEF Restore
<1>3. file' \in Docs /\ file' \notin Unbuildable /\ file' \notin Unrunnable
  BY <1>1, <1>2 DEF Works, Builds
<1>4. log' = IF log[HEAD] = file' THEN log ELSE Append(log, file')
  BY DEF Restore
<1>5. Len(log) >= 1
  BY <1>1 DEF Works, Builds
<1>6. CASE log[HEAD] = file'
  BY <1>1, <1>2, <1>3, <1>4, <1>5, <1>6 DEF Works, Builds, HEAD
<1>7. CASE log[HEAD] # file'
  BY <1>1, <1>2, <1>3, <1>4, <1>5, <1>7 DEF Works, Builds, HEAD
<1> QED
  BY <1>6, <1>7

LEMMA HistoryGrows ==
    ASSUME HistoryOK, Sound, [Next]_vars
    PROVE  /\ log' \in Seq(Docs) /\ file' \in Docs
           /\ Len(log') >= Len(log) /\ \A c \in 1..Len(log) : log'[c] = log[c]
<1> DEFINE Grown == /\ log' \in Seq(Docs) /\ file' \in Docs
                    /\ Len(log') >= Len(log) /\ \A c \in 1..Len(log) : log'[c] = log[c]
<1> SUFFICES Grown
  OBVIOUS
<1> log \in Seq(Docs) /\ Len(log) \in Nat /\ file \in Docs
  BY DEF HistoryOK
<1>1. ASSUME log' = log, file' \in Docs PROVE Grown
  BY <1>1
<1>2. ASSUME log' = Committed, file' = file PROVE Grown
  BY <1>2, CommittedFacts
<1> HIDE DEF Grown
<1>3. CASE UNCHANGED vars \/ (\E d \in Docs : Edit(d)) \/ TouchPending \/ Start \/ StartRequest
           \/ CommandFails \/ Reboot \/ HandlerStep
  BY <1>1, <1>3 DEF vars, refs, Edit, TouchPending, Start, StartRequest, CommandFails, Reboot,
     HandlerStep, HandlerStarts, ReadGuardFile, HandlerEnds
<1>4. CASE UnitStep
  <2>1. CASE RemovePlan \/ BootstrapApplied \/ NameGuard \/ ArmGuard \/ LinkPlan \/ SwitchCurrent
             \/ PinRevision \/ Project
    BY <1>1, <2>1 DEF RemovePlan, BootstrapApplied, NameGuard, ArmGuard, LinkPlan, SwitchCurrent,
       PinRevision, Project, refs
  <2>2. CASE MarkPrevious \/ MarkApplied \/ AckPending \/ CancelGuard \/ UnnameGuard \/ ClearPrevious
    BY <1>1, <2>2 DEF MarkPrevious, MarkApplied, AckPending, CancelGuard, UnnameGuard,
       ClearPrevious, refs
  <2>3. CASE Record \/ Compile
    BY <1>2, <2>3 DEF Record, Compile
  <2>4. CASE BootstrapHead
    <3>1. file' = file /\ (log' = log \/ (log = <<>> /\ log' = <<Base>>))
      BY <2>4 DEF BootstrapHead
    <3>2. ASSUME log = <<>>, log' = <<Base>> PROVE Grown
      BY <3>1, <3>2, ReconcileAssumption DEF Grown
    <3> QED
      BY <1>1, <3>1, <3>2
  <2> QED
    BY <1>4, <2>1, <2>2, <2>3, <2>4, Zenon DEF UnitStep
<1>5. CASE \E i \in Runs : Elapse(i)
  BY <1>1, <1>5 DEF Elapse, refs
<1>6. ASSUME NEW r \in Rollers, RollStep(r) \/ RollDies(r) PROVE Grown
  <2>1. CASE Restore(r)
    BY <2>1, RestoreFacts DEF Grown
  <2>2. CASE Claim(r) \/ StopUnit(r) \/ StopTimers(r) \/ Identify(r) \/ LeaveAlone(r)
    BY <1>1, <2>2 DEF Claim, StopUnit, StopTimers, Identify, LeaveAlone, refs
  <2>3. CASE RestoreRefuses(r) \/ RestoreRefs(r) \/ Restart(r) \/ Settle(r) \/ RollDies(r)
    BY <1>1, <2>3 DEF RestoreRefuses, RestoreRefs, Restart, Settle, RollDies, refs
  <2> QED
    BY <1>6, <2>1, <2>2, <2>3, Zenon DEF RollStep
<1> QED
  BY <1>3, <1>4, <1>5, <1>6 DEF Next

LEMMA RevisionsKeep ==
    ASSUME HistoryOK, Sound, [Next]_vars
    PROVE  /\ \A c : Builds(log, c) => Builds(log', c)
           /\ \A c : Works(log, c) => Works(log', c)
           /\ \A c \in Revisions : c \in Revisions'
<1> Len(log) \in Nat /\ Len(log') \in Nat
  BY HistoryGrows DEF HistoryOK
<1> QED
  BY HistoryGrows DEF Builds, Works, Revisions

-----------------------------------------------------------------------------
(* What the refs name has worked.                                          *)
LEMMA SoundStays ==
    HistoryOK /\ Sound /\ Working /\ Goals /\ [Next]_vars => HistoryOK' /\ Sound'
<1> SUFFICES ASSUME HistoryOK, Sound, Working, Goals, [Next]_vars PROVE HistoryOK' /\ Sound'
  OBVIOUS
<1> DEFINE Kept(x, y) == y = x \/ y = 0
<1>1. ASSUME Kept(applied, applied') \/ Works(log', applied'),
             Kept(previous, previous') \/ Works(log', previous'),
             Kept(native, native') \/ Works(log', native'),
             Kept(current, current') \/ Builds(log', current'),
             Kept(target, target') \/ target' \in Revisions',
             Kept(old, old') \/ old' \in Revisions',
             Kept(committed, committed') \/ committed' \in Revisions'
      PROVE  HistoryOK' /\ Sound'
  <2>1. \A c : Builds(log', c) \/ Works(log', c) => c \in Revisions'
    BY HistoryGrows DEF Builds, Works, Revisions
  <2>2. 0 \in Revisions'
    BY HistoryGrows DEF Revisions
  <2>3. /\ applied' \in Revisions' /\ previous' \in Revisions' /\ native' \in Revisions'
        /\ current' \in Revisions' /\ target' \in Revisions' /\ old' \in Revisions'
        /\ committed' \in Revisions'
    BY <1>1, <2>1, <2>2, RevisionsKeep DEF HistoryOK
  <2>4. HistoryOK'
    BY <2>3, HistoryGrows DEF HistoryOK
  <2>5. Sound'
    BY <1>1, RevisionsKeep DEF Sound
  <2> QED
    BY <2>4, <2>5
<1>2. CASE UNCHANGED vars \/ (\E d \in Docs : Edit(d)) \/ TouchPending \/ HandlerStep
           \/ CommandFails \/ (\E i \in Runs : Elapse(i))
  BY <1>1, <1>2 DEF vars, refs, runtime, unitv, guards, Edit, TouchPending, CommandFails, Elapse,
     HandlerStep, HandlerStarts, ReadGuardFile, HandlerEnds
<1>3. CASE Start \/ StartRequest
  BY <1>1, <1>3 DEF Start, StartRequest, StartUnit, refs, runtime, guards
<1>4. CASE Reboot
  BY <1>1, <1>4 DEF Reboot, refs
<1>5. CASE UnitStep
  <2>1. CASE RemovePlan \/ BootstrapHead \/ NameGuard \/ ArmGuard \/ LinkPlan
    BY <1>1, <2>1 DEF RemovePlan, BootstrapHead, NameGuard, ArmGuard, LinkPlan, refs, runtime, guards
  <2>2. CASE AckPending \/ UnnameGuard \/ ClearPrevious
    BY <1>1, <2>2 DEF AckPending, UnnameGuard, ClearPrevious, refs, runtime, guards
  <2>3. CASE BootstrapApplied
    <3>1. applied' = Len(log) /\ log' = log /\ log = <<Base>>
      BY <2>3 DEF BootstrapApplied, Proceed, HEAD, Working
    <3>2. Works(log', applied')
      BY <3>1, ReconcileAssumption DEF Works, Builds
    <3> QED
      BY <1>1, <2>3, <3>2 DEF BootstrapApplied, runtime, guards
  <2>4. CASE Record \/ Compile
    <3>1. Len(Committed) \in Revisions' /\ log' = Committed
      BY <2>4, CommittedFacts DEF Record, Compile, Revisions
    <3> QED
      BY <1>1, <2>4, <3>1 DEF Record, Compile, runtime, guards
  <2>5. CASE SwitchCurrent
    <3>1. Builds(log', current')
      BY <2>5, RevisionsKeep DEF SwitchCurrent, Proceed, Working, Published
    <3> QED
      BY <1>1, <2>5, <3>1 DEF SwitchCurrent, refs, guards
  <2>6. CASE PinRevision
    <3>1. target' \in {target, current} /\ current \in Revisions'
      BY <2>6, RevisionsKeep DEF PinRevision, HistoryOK
    <3> QED
      BY <1>1, <2>6, <3>1 DEF PinRevision, refs, guards
  <2>7. CASE Project
    <3>1. native' = native \/ Works(log', native')
      BY <2>7, RevisionsKeep DEF Project, Working, Published, Works
    <3> QED
      BY <1>1, <2>7, <3>1 DEF Project, refs, guards
  <2>8. CASE MarkPrevious
    <3>1. old' \in Revisions' /\ previous' = applied /\ (applied = 0 \/ Works(log', applied))
      BY <2>8, RevisionsKeep DEF MarkPrevious, HistoryOK, Sound
    <3> QED
      BY <1>1, <2>8, <3>1 DEF MarkPrevious, runtime, guards
  <2>9. CASE MarkApplied
    <3>1. applied' = applied \/ Works(log', applied')
      BY <2>9, RevisionsKeep DEF MarkApplied, Working, Projected
    <3> QED
      BY <1>1, <2>9, <3>1 DEF MarkApplied, runtime, guards
  <2>10. CASE CancelGuard
    <3>1. committed' = committed \/ committed' \in Revisions'
      BY <2>10, RevisionsKeep DEF CancelGuard, HistoryOK
    <3> QED
      BY <1>1, <2>10, <3>1 DEF CancelGuard, refs, runtime
  <2> QED
    BY <1>5, <2>1, <2>2, <2>3, <2>4, <2>5, <2>6, <2>7, <2>8, <2>9, <2>10, Zenon DEF UnitStep
<1>6. ASSUME NEW r \in Rollers, RollStep(r) \/ RollDies(r) PROVE HistoryOK' /\ Sound'
  <2>1. CASE Claim(r) \/ StopUnit(r) \/ StopTimers(r) \/ Identify(r) \/ LeaveAlone(r)
    BY <1>1, <2>1 DEF Claim, StopUnit, StopTimers, Identify, LeaveAlone, refs, runtime, unitv, guards
  <2>2. CASE Restore(r) \/ RestoreRefuses(r) \/ Settle(r) \/ RollDies(r)
    BY <1>1, <2>2 DEF Restore, RestoreRefuses, Settle, RollDies, refs, runtime, unitv, guards
  <2>3. CASE Restart(r)
    BY <1>1, <2>3 DEF Restart, StartUnit, refs, runtime, guards
  <2>4. CASE RestoreRefs(r)
    <3>1. applied' = applied \/ Works(log', applied')
      BY <2>4, RevisionsKeep DEF RestoreRefs, Goals
    <3>2. Kept(previous, previous')
      BY <2>4 DEF RestoreRefs
    <3> QED
      BY <1>1, <2>4, <3>1, <3>2 DEF RestoreRefs, runtime, unitv
  <2> QED
    BY <1>6, <2>1, <2>2, <2>3, <2>4, Zenon DEF RollStep
<1> QED
  BY <1>2, <1>3, <1>4, <1>5, <1>6 DEF Next

(* Rollbacks know a revision that works to go back to.                     *)
LEMMA GoalsStay == RollsOK /\ HistoryOK /\ Sound /\ Goals /\ [Next]_vars => Goals'
<1> SUFFICES ASSUME RollsOK, HistoryOK, Sound, Goals, [Next]_vars PROVE Goals'
  OBVIOUS
<1> roll \in [Rollers -> RollPoints] /\ job \in [Rollers -> Jobs] /\ Handler \in Rollers
  BY ReconcileAssumption DEF RollsOK, Handler, Rollers
<1>1. ASSUME \A q \in Rollers : roll'[q] = "referring" => roll[q] = "referring" /\ job'[q] = job[q]
      PROVE  Goals'
  BY <1>1, RevisionsKeep DEF Goals
<1>2. ASSUME job' = job,
             roll' = roll \/ (\E r \in Rollers, point \in RollPoints \ {"referring"} :
                                 roll' = [roll EXCEPT ![r] = point])
      PROVE  Goals'
  BY <1>1, <1>2
<1>3. ASSUME NEW r \in Rollers, NEW point \in RollPoints \ {"referring"}, NEW j,
             roll' = [roll EXCEPT ![r] = point], job' = [job EXCEPT ![r] = j]
      PROVE  Goals'
  BY <1>1, <1>3
<1>4. Notified(roll) = roll \/ Notified(roll) = [roll EXCEPT ![Handler] = "queued"]
  BY DEF Notified
<1>5. CASE UNCHANGED vars \/ (\E d \in Docs : Edit(d)) \/ TouchPending \/ Start \/ StartRequest
  BY <1>2, <1>5 DEF vars, rolls, Edit, TouchPending, Start, StartRequest
<1>6. CASE CommandFails
  BY <1>2, <1>4, <1>6 DEF CommandFails, FailUnit, RollPoints
<1>7. CASE UnitStep
  <2>1. job' = job /\ (roll' = roll \/ roll' = Notified(roll))
    BY <1>7 DEF UnitStep, RemovePlan, BootstrapHead, BootstrapApplied, NameGuard, ArmGuard, Record,
       Compile, LinkPlan, SwitchCurrent, PinRevision, Project, MarkPrevious, MarkApplied, AckPending,
       CancelGuard, UnnameGuard, ClearPrevious, FailUnit, rolls
  <2> QED
    BY <1>2, <1>4, <2>1 DEF RollPoints
<1>8. ASSUME NEW i \in Runs, Elapse(i) PROVE Goals'
  <2>1. i \in Rollers
    BY ReconcileAssumption DEF Runs, Rollers
  <2> QED
    BY <1>3, <1>8, <2>1 DEF Elapse, GoRoll, RollPoints
<1>9. CASE HandlerStep
  BY <1>2, <1>3, <1>9 DEF HandlerStep, HandlerStarts, ReadGuardFile, HandlerEnds, GoRoll, RollPoints
<1>10. ASSUME NEW r \in Rollers, RollStep(r) \/ RollDies(r) PROVE Goals'
  <2>1. ASSUME Retire(r) PROVE Goals'
    BY <1>3, <2>1 DEF Retire, GoRoll, RollPoints
  <2>2. CASE Claim(r) \/ RestoreRefuses(r) \/ RestoreRefs(r) \/ Settle(r) \/ StopTimers(r) \/ LeaveAlone(r)
    <3>1. Retire(r) \/ (job' = job /\ \E point \in RollPoints \ {"referring"} : GoRoll(r, point))
      BY <2>2 DEF Claim, RestoreRefuses, RestoreRefs, Settle, StopTimers, LeaveAlone, RollPoints
    <3> QED
      BY <1>2, <2>1, <3>1 DEF GoRoll
  <2>3. CASE RollDies(r)
    BY <1>3, <2>3 DEF RollDies, GoRoll, RollPoints
  <2>4. CASE StopUnit(r)
    <3>1. roll' = [roll EXCEPT ![r] = "stoppingTimers"]
          \/ roll' = [[roll EXCEPT ![r] = "stoppingTimers"] EXCEPT ![Handler] = "queued"]
      BY <2>4 DEF StopUnit, Notified, GoRoll
    <3> QED
      BY <1>1, <2>4, <3>1 DEF StopUnit
  <2>5. CASE Identify(r)
    <3>1. roll' = [roll EXCEPT ![r] = "restoring"] /\ \A q \in Rollers \ {r} : job'[q] = job[q]
      BY <2>5 DEF Identify, GoRoll
    <3> QED
      BY <1>1, <3>1
  <2>6. CASE Restore(r)
    <3>1. /\ \A q \in Rollers \ {r} : job'[q] = job[q] /\ roll'[q] = roll[q]
          /\ job'[r].goal = RollbackTarget(r)
      BY <2>6 DEF Restore, GoRoll, Jobs
    <3>2. Works(log', job'[r].goal)
      BY <2>6, <3>1, RestoreFacts, RevisionsKeep
    <3> QED
      BY <3>1, <3>2, RevisionsKeep DEF Goals
  <2>7. CASE Restart(r)
    <3>1. /\ \A q \in Rollers \ {r} : job'[q] = job[q]
          /\ \/ roll' = [roll EXCEPT ![r] = "waiting"]
             \/ roll' = [[roll EXCEPT ![r] = "waiting"] EXCEPT ![Handler] = "queued"]
      BY <2>7 DEF Restart, Notified
    <3> QED
      BY <1>1, <3>1
  <2> QED
    BY <1>10, <2>2, <2>3, <2>4, <2>5, <2>6, <2>7, Zenon DEF RollStep
<1>11. CASE Reboot
  BY <1>11 DEF Reboot, Goals
<1> QED
  BY <1>5, <1>6, <1>7, <1>8, <1>9, <1>10, <1>11 DEF Next

(* The unit works on a revision that builds, then on one that works.       *)
LEMMA WorkingStays == HistoryOK /\ Sound /\ Working /\ [Next]_vars => Working'
<1> SUFFICES ASSUME HistoryOK, Sound, Working, [Next]_vars PROVE Working'
  OBVIOUS
<1>1. ASSUME UNCHANGED <<unit, log, target, current, native, mixed>> PROVE Working'
  BY <1>1 DEF Working, HEAD
<1>2. ASSUME unit' \notin Published \cup {"bootstrapping2"} PROVE Working'
  BY <1>2 DEF Working, Published, Projected
<1>3. CASE UNCHANGED vars \/ (\E d \in Docs : Edit(d)) \/ TouchPending \/ HandlerStep
           \/ (\E i \in Runs : Elapse(i))
  BY <1>1, <1>3 DEF vars, refs, runtime, unitv, Edit, TouchPending, Elapse,
     HandlerStep, HandlerStarts, ReadGuardFile, HandlerEnds
<1>4. CASE Start \/ StartRequest \/ CommandFails \/ Reboot
  BY <1>2, <1>4 DEF Start, StartRequest, StartUnit, CommandFails, FailUnit, Reboot, Published, Projected
<1>5. CASE UnitStep
  <2>1. CASE RemovePlan \/ BootstrapApplied \/ NameGuard \/ ArmGuard \/ Record \/ ClearPrevious
    BY <1>2, <2>1 DEF RemovePlan, BootstrapApplied, NameGuard, ArmGuard, Record, ClearPrevious,
       Proceed, FailUnit, Published, Projected
  <2>2. CASE BootstrapHead
    BY <1>2, <2>2 DEF BootstrapHead, FailUnit, Working, Published, Projected
  <2>3. CASE Compile
    <3>1. log' = Committed /\ target' = target
      BY <2>3 DEF Compile
    <3>2. CASE unit' = "linking" /\ file \notin Unbuildable /\ Len(Committed) = target
      BY <3>1, <3>2, CommittedFacts DEF Working, Builds, HEAD, Published, Projected
    <3> QED
      BY <1>2, <2>3, <3>2 DEF Compile, FailUnit, Published, Projected
  <2>4. CASE LinkPlan
    BY <2>4 DEF LinkPlan, Proceed, refs, Working, HEAD, Published, Projected
  <2>5. CASE SwitchCurrent
    BY <2>5 DEF SwitchCurrent, Proceed, refs, Working, HEAD, Published, Projected
  <2>6. CASE PinRevision
    BY <1>2, <2>6 DEF PinRevision, FailUnit, refs, Working, HEAD, Published, Projected
  <2>7. CASE Project
    <3>1. CASE log[target] \notin Unrunnable
      <4>1. /\ unit = "projecting" /\ unit' = "marking" /\ native' = target /\ mixed' = FALSE
            /\ UNCHANGED <<log, target, current>>
        BY <2>7, <3>1 DEF Project, refs
      <4>2. Works(log, target) /\ Works(log, HEAD)
        BY <3>1, <4>1 DEF Working, Published, Works
      <4> QED
        BY <4>1, <4>2 DEF Working, HEAD, Works, Published, Projected
    <3> QED
      BY <1>2, <2>7, <3>1 DEF Project, FailUnit, Published, Projected
  <2>8. CASE MarkPrevious \/ AckPending \/ UnnameGuard
    BY <2>8 DEF MarkPrevious, AckPending, UnnameGuard, Proceed, refs, runtime, Working, HEAD, Published, Projected
  <2>9. CASE MarkApplied \/ CancelGuard
    BY <1>2, <2>9 DEF MarkApplied, CancelGuard, FailUnit, refs, runtime, Working, HEAD, Published, Projected
  <2> QED
    BY <1>5, <2>1, <2>2, <2>3, <2>4, <2>5, <2>6, <2>7, <2>8, <2>9, Zenon DEF UnitStep
<1>6. ASSUME NEW r \in Rollers, RollStep(r) \/ RollDies(r) PROVE Working'
  <2>1. CASE Claim(r) \/ StopTimers(r) \/ Identify(r) \/ LeaveAlone(r)
    BY <1>1, <2>1 DEF Claim, StopTimers, Identify, LeaveAlone, refs, runtime, unitv
  <2>2. CASE RestoreRefuses(r) \/ RestoreRefs(r) \/ Settle(r) \/ RollDies(r)
    BY <1>1, <2>2 DEF RestoreRefuses, RestoreRefs, Settle, RollDies, refs, runtime, unitv
  <2>3. CASE StopUnit(r) \/ Restart(r)
    BY <1>1, <1>2, <2>3 DEF StopUnit, Restart, StartUnit, refs, runtime, Published, Projected
  <2>4. CASE Restore(r)
    <3>1. unit # "bootstrapping2" /\ UNCHANGED <<unit, target, current, native, mixed>>
      BY <2>4 DEF Restore, Locked, runtime, unitv
    <3>2. Works(log', HEAD')
      BY <2>4, RestoreFacts DEF HEAD
    <3> QED
      BY <3>1, <3>2, RevisionsKeep DEF Working, Works
  <2> QED
    BY <1>6, <2>1, <2>2, <2>3, <2>4, Zenon DEF RollStep
<1> QED
  BY <1>3, <1>4, <1>5, <1>6 DEF Next

-----------------------------------------------------------------------------
(* A guard record that is not settled stays so, unless the invocation      *)
(* cancels it, a rollback that claimed it has completed, or power is lost. *)
LEMMA RecordStays ==
    ASSUME UnitOK, GuardsOK, RollsOK, [Next]_vars,
           NEW S, {"armed", "claimed", "failed"} \subseteq S,
           NEW w \in Runs, guard[w] \in S,
           ~Reboot, w = run => ~CancelGuard,
           \A r \in Rollers : Settle(r) => w # job[r].guard \/ job[r].run \in lost
    PROVE  guard'[w] \in S
<1> guard \in [Runs -> GuardStates]
  BY DEF GuardsOK
<1>1. ASSUME guard' = guard PROVE guard'[w] \in S
  BY <1>1
<1>2. CASE UNCHANGED vars \/ (\E d \in Docs : Edit(d)) \/ TouchPending \/ Start \/ StartRequest
           \/ CommandFails \/ HandlerStep \/ (\E i \in Runs : Elapse(i))
  BY <1>1, <1>2 DEF vars, guards, Edit, TouchPending, Start, StartRequest, CommandFails, Elapse,
     HandlerStep, HandlerStarts, ReadGuardFile, HandlerEnds
<1>3. CASE UnitStep
  <2>1. CASE RemovePlan \/ BootstrapHead \/ BootstrapApplied \/ NameGuard \/ Record \/ Compile \/ LinkPlan
             \/ SwitchCurrent
    BY <1>1, <2>1 DEF RemovePlan, BootstrapHead, BootstrapApplied, NameGuard, Record, Compile,
       LinkPlan, SwitchCurrent, guards
  <2>2. CASE PinRevision \/ Project \/ MarkPrevious \/ MarkApplied \/ AckPending \/ UnnameGuard
             \/ ClearPrevious
    BY <1>1, <2>2 DEF PinRevision, Project, MarkPrevious, MarkApplied, AckPending, UnnameGuard,
       ClearPrevious, guards
  <2>3. CASE ArmGuard \/ CancelGuard
    BY <1>1, <2>3 DEF ArmGuard, CancelGuard
  <2> QED
    BY <1>3, <2>1, <2>2, <2>3, Zenon DEF UnitStep
<1>4. ASSUME NEW r \in Rollers, RollStep(r) \/ RollDies(r) PROVE guard'[w] \in S
  <2>1. CASE StopUnit(r) \/ StopTimers(r) \/ Identify(r) \/ LeaveAlone(r) \/ Restore(r) \/ Restart(r)
             \/ RollDies(r)
    BY <1>1, <2>1 DEF StopUnit, StopTimers, Identify, LeaveAlone, Restore, Restart, RollDies, guards
  <2>2. CASE Claim(r) \/ RestoreRefuses(r) \/ RestoreRefs(r)
    <3>1. guard' = guard \/ Outcome(r, "claimed") \/ Outcome(r, "failed")
      BY <2>2 DEF Claim, RestoreRefuses, RestoreRefs
    <3> QED
      BY <1>1, <3>1 DEF Outcome
  <2>3. CASE Settle(r)
    <3>1. CASE job[r].run \in lost
      BY <1>1, <2>3, <3>1 DEF Settle, Outcome
    <3>2. CASE w # job[r].guard
      BY <1>1, <2>3, <3>2 DEF Settle, Outcome
    <3> QED
      BY <2>3, <3>1, <3>2
  <2> QED
    BY <1>4, <2>1, <2>2, <2>3, Zenon DEF RollStep
<1> QED
  BY <1>2, <1>3, <1>4 DEF Next

(* In particular, no rollback settles the record of the last invocation.   *)
LEMMA LastRecordStays ==
    ASSUME UnitOK, GuardsOK, RollsOK, [Next]_vars, run \in Runs, ~Reboot, ~CancelGuard,
           NEW S, {"armed", "claimed", "failed"} \subseteq S, guard[run] \in S
    PROVE  guard'[run] \in S
<1>1. \A r \in Rollers : Settle(r) => run # job[r].guard
  BY DEF Settle, RollsOK, Jobs, Rollers, UnitOK
<1> QED
  BY <1>1, RecordStays

(* The guard record of the last invocation tells of its failure.           *)
LEMMA WatchedStays ==
    UnitOK /\ GuardsOK /\ RollsOK /\ HistoryOK /\ Sound /\ Working /\ Watched /\ [Next]_vars
        => Watched'
<1> SUFFICES ASSUME UnitOK, GuardsOK, RollsOK, HistoryOK, Sound, Working, Watched, [Next]_vars
             PROVE  Watched'
  OBVIOUS
<1> DEFINE Open == {"none", "armed", "claimed", "failed"}
<1> HIDE DEF Open
<1>1. unit # "inactive" => run \in Runs
  BY ReconcileAssumption DEF UnitOK, Runs
<1>2. ASSUME unit' \notin Armed \cup Unarmed \cup {"failed"} PROVE Watched'
  BY <1>2 DEF Watched
<1>13. CASE Reboot
  BY <1>2, <1>13 DEF Reboot, Armed, Unarmed
<1>3. ASSUME run' = run, unit' = unit, log' = log \/ Works(log', HEAD') PROVE Watched'
  <2> SUFFICES ASSUME ~Reboot, ~CancelGuard PROVE Watched'
    <3>1. CancelGuard => unit' # unit
      BY DEF CancelGuard, FailUnit
    <3> QED
      BY <1>3, <1>13, <3>1
  <2>1. CASE unit \in Armed
    <3>1. guard'[run] \in {"armed", "claimed", "failed"}
      BY <1>1, <1>3, <2>1, LastRecordStays DEF Watched, Unsettled, Armed
    <3> QED
      BY <1>3, <2>1, <3>1 DEF Watched, Unsettled, Armed, Unarmed
  <2>2. CASE unit \in Unarmed \cup {"failed"}
    <3>1. guard[run] \in Open => guard'[run] \in Open
      BY <1>1, <1>3, <2>2, LastRecordStays DEF Open, Unarmed
    <3>2. guard[run] \in Open \/ (unit = "failed" /\ Works(log, HEAD))
      BY <2>2 DEF Watched, Unsettled, Open
    <3>3. guard'[run'] \in Open \/ (unit = "failed" /\ Works(log', HEAD'))
      BY <1>3, <3>1, <3>2 DEF HEAD
    <3> QED
      BY <1>3, <2>2, <3>3 DEF Watched, Unsettled, Open, Armed, Unarmed
  <2> QED
    BY <1>2, <1>3, <2>1, <2>2
<1>5. ASSUME run' = run, unit \in Phases, unit' = "failed", guard' = guard, log' = log \/ unit \in Armed \cup Unarmed
      PROVE Watched'
  <2>1. CASE unit \in Armed \cup Unarmed
    BY <1>5, <2>1 DEF Watched, Unsettled, Armed, Unarmed
  <2>2. CASE unit \in {"unnaming", "clearing"}
    BY <1>5, <2>2 DEF Working, Watched, HEAD, Projected, Armed, Unarmed
  <2> QED
    BY <1>5, <2>1, <2>2 DEF Phases, Armed, Unarmed
<1>6. ASSUME run' = run, unit' \in Unarmed, unit \in Unarmed, guard' = guard PROVE Watched'
  BY <1>6 DEF Watched, Unsettled, Armed, Unarmed
<1>7. ASSUME run' = run + 1, run < MaxRuns, unit' \in Unarmed, guard' = guard PROVE Watched'
  BY <1>7, ReconcileAssumption DEF Watched, Armed, Unarmed, GuardsOK, Runs, UnitOK
<1>8. CASE UNCHANGED vars \/ (\E d \in Docs : Edit(d)) \/ TouchPending \/ HandlerStep
           \/ (\E i \in Runs : Elapse(i))
  <2>1. run' = run /\ unit' = unit /\ log' = log
    BY <1>8 DEF vars, refs, unitv, Edit, TouchPending, Elapse,
       HandlerStep, HandlerStarts, ReadGuardFile, HandlerEnds
  <2>2. guard' = guard
    BY <1>8 DEF vars, guards, Edit, TouchPending, Elapse,
       HandlerStep, HandlerStarts, ReadGuardFile, HandlerEnds
  <2> QED
    BY <2>1, <2>2 DEF Watched, Unsettled, HEAD
<1>9. CASE Start \/ StartRequest
  BY <1>7, <1>9 DEF Start, StartRequest, StartUnit, guards, Unarmed
<1>10. CASE CommandFails
  BY <1>5, <1>10 DEF CommandFails, FailUnit, refs, guards
<1>11. CASE UnitStep
  <2>1. CASE RemovePlan \/ BootstrapHead \/ BootstrapApplied \/ NameGuard
    BY <1>5, <1>6, <2>1 DEF RemovePlan, BootstrapHead, BootstrapApplied, NameGuard, Proceed,
       FailUnit, Phases, Unarmed, guards
  <2>2. CASE ArmGuard
    <3>1. CASE guard[run] = "none"
      BY <1>1, <2>2, <3>1 DEF ArmGuard, Watched, Unsettled, Armed, Unarmed, GuardsOK
    <3>2. CASE guard[run] # "none"
      BY <1>5, <2>2, <3>2 DEF ArmGuard, FailUnit, refs, Phases
    <3> QED
      BY <3>1, <3>2
  <2>3. CASE Record \/ LinkPlan \/ SwitchCurrent \/ MarkPrevious \/ AckPending
    <3>1. run' = run /\ unit' \in Armed /\ unit \in Armed /\ unit \notin {"cancelling", "inactive"}
      BY <2>3 DEF Record, LinkPlan, SwitchCurrent, MarkPrevious, AckPending, Proceed, Armed
    <3>2. guard' = guard
      BY <2>3 DEF Record, LinkPlan, SwitchCurrent, MarkPrevious, AckPending, guards
    <3> QED
      BY <3>1, <3>2 DEF Watched, Unsettled, Armed, Unarmed
  <2>4. CASE Compile \/ PinRevision \/ Project \/ MarkApplied
    <3>1. run' = run /\ unit' \in Armed \cup {"failed"} /\ unit \in Armed
      BY <2>4 DEF Compile, PinRevision, Project, MarkApplied, FailUnit, Armed
    <3>2. guard' = guard
      BY <2>4 DEF Compile, PinRevision, Project, MarkApplied, guards
    <3> QED
      BY <3>1, <3>2 DEF Watched, Unsettled, Armed, Unarmed
  <2>5. CASE CancelGuard
    BY <1>2, <1>5, <2>5 DEF CancelGuard, FailUnit, refs, Phases, Armed, Unarmed
  <2>6. CASE UnnameGuard \/ ClearPrevious
    BY <1>2, <2>6 DEF UnnameGuard, ClearPrevious, Proceed, Armed, Unarmed
  <2> QED
    BY <1>11, <2>1, <2>2, <2>3, <2>4, <2>5, <2>6, Zenon DEF UnitStep
<1>12. ASSUME NEW r \in Rollers, RollStep(r) \/ RollDies(r) PROVE Watched'
  <2>1. CASE Restart(r)
    BY <1>7, <2>1 DEF Restart, StartUnit, guards, Unarmed
  <2>2. CASE StopUnit(r)
    <3>1. CASE unit \in Phases
      BY <1>5, <2>2, <3>1 DEF StopUnit, refs, guards
    <3>2. CASE unit \notin Phases
      BY <2>2, <3>2 DEF StopUnit, refs, guards, Watched, Unsettled, HEAD
    <3> QED
      BY <3>1, <3>2
  <2>3. CASE Restore(r)
    <3>1. run' = run /\ unit' = unit /\ Works(log', HEAD')
      BY <2>3, RestoreFacts DEF Restore, unitv, HEAD
    <3> QED
      BY <1>3, <3>1
  <2>4. CASE Claim(r) \/ StopTimers(r) \/ Identify(r) \/ LeaveAlone(r) \/ RestoreRefuses(r)
             \/ RestoreRefs(r) \/ Settle(r) \/ RollDies(r)
    <3>1. run' = run /\ unit' = unit /\ log' = log
      BY <2>4 DEF Claim, StopTimers, Identify, LeaveAlone, RestoreRefuses, RestoreRefs, Settle,
         RollDies, refs, unitv
    <3> QED
      BY <1>3, <3>1
  <2> QED
    BY <1>12, <2>1, <2>2, <2>3, <2>4, Zenon DEF RollStep
<1> QED
  BY <1>8, <1>9, <1>10, <1>11, <1>12, <1>13 DEF Next

-----------------------------------------------------------------------------
(* An edit leaves a mark until an invocation has applied it.               *)
LEMMA MarkedStays == HistoryOK /\ Sound /\ Working /\ Marked /\ [Next]_vars => Marked'
<1> SUFFICES ASSUME HistoryOK, Sound, Working, Marked, [Next]_vars PROVE Marked'
  OBVIOUS
<1> DEFINE Known(c) == c \in 1..Len(log)
<1>0. /\ unit \in Published => Known(target)
      /\ native # 0 => Known(native)
  BY DEF Working, Sound, Builds, Works
<1>1. ASSUME UNCHANGED <<unit, target, native, mixed, wanted>>,
             file' = file \/ dirty', dirty \/ pending => dirty' \/ pending'
      PROVE  Marked'
  <2>1. \A c \in 1..Len(log) : log'[c] = log[c]
    BY HistoryGrows
  <2> QED
    BY <1>0, <1>1, <2>1 DEF Marked
<1>2. ASSUME unit' \notin Published \cup {"inactive"} PROVE Marked'
  BY <1>2 DEF Marked
<1>3. ASSUME unit \in Published, unit' \in Published, file' = file, log' = log, target' = target,
             dirty \/ pending => dirty' \/ pending'
      PROVE  Marked'
  BY <1>3 DEF Marked, Published, Projected
<1>4. CASE UNCHANGED vars \/ HandlerStep \/ (\E i \in Runs : Elapse(i))
  BY <1>1, <1>4 DEF vars, runtime, unitv, marks, Elapse, HandlerStep, HandlerStarts, ReadGuardFile,
     HandlerEnds
<1>5. CASE (\E d \in Docs : Edit(d)) \/ TouchPending
  BY <1>1, <1>5 DEF runtime, unitv, Edit, TouchPending
<1>6. CASE Start \/ StartRequest \/ CommandFails
  BY <1>2, <1>6 DEF Start, StartRequest, StartUnit, CommandFails, FailUnit, Published, Projected
<1>7. CASE UnitStep
  <2>1. CASE RemovePlan \/ BootstrapHead \/ BootstrapApplied \/ NameGuard \/ ArmGuard \/ Record
    BY <1>2, <2>1 DEF RemovePlan, BootstrapHead, BootstrapApplied, NameGuard, ArmGuard, Record,
       Proceed, FailUnit, Published, Projected
  <2>2. CASE Compile
    <3>1. CASE unit' = "linking" /\ Len(Committed) = target
      <4>1. log'[target'] = file'
        BY <2>2, <3>1, CommittedFacts DEF Compile
      <4> QED
        BY <3>1, <4>1 DEF Marked
    <3> QED
      BY <1>2, <2>2, <3>1 DEF Compile, FailUnit, Published, Projected
  <2>3. CASE LinkPlan \/ SwitchCurrent \/ MarkPrevious \/ UnnameGuard
    BY <1>3, <2>3 DEF LinkPlan, SwitchCurrent, MarkPrevious, UnnameGuard, Proceed, refs, marks,
       Published, Projected
  <2>4. CASE PinRevision
    <3>1. unit' = "failed" \/ (unit' = "projecting" /\ target' = target)
      BY <2>4 DEF PinRevision, FailUnit, Working
    <3> QED
      BY <1>2, <1>3, <2>4, <3>1 DEF PinRevision, refs, marks, Published, Projected
  <2>5. CASE Project \/ MarkApplied \/ CancelGuard
    <3>1. unit' = "failed" \/ (unit' \in Published /\ unit \in Published)
      BY <2>5 DEF Project, MarkApplied, CancelGuard, FailUnit, Published, Projected
    <3>2. file' = file /\ log' = log /\ target' = target /\ UNCHANGED <<dirty, pending>>
      BY <2>5 DEF Project, MarkApplied, CancelGuard, refs, marks
    <3> QED
      BY <1>2, <1>3, <3>1, <3>2 DEF Published, Projected
  <2>6. CASE AckPending
    <3>1. /\ unit = "acking" /\ unit' = "cancelling" /\ UNCHANGED <<file, log, target, dirty>>
          /\ pending' = (pending /\ file # log[target])
      BY <2>6 DEF AckPending, Proceed, refs
    <3>2. unit \in Published
      BY <3>1 DEF Published, Projected
    <3> QED
      BY <3>1, <3>2 DEF Marked
  <2>7. CASE ClearPrevious
    <3>1. /\ unit = "clearing" /\ unit' = "inactive"
          /\ UNCHANGED <<file, log, target, dirty, pending, native, mixed>>
      BY <2>7 DEF ClearPrevious, Proceed, runtime, marks
    <3>2. native = target /\ ~mixed /\ native # 0 /\ unit \in Published
      BY <3>1 DEF Working, Works, Builds, Published, Projected
    <3> QED
      BY <3>1, <3>2 DEF Marked, Published, Projected
  <2> QED
    BY <1>7, <2>1, <2>2, <2>3, <2>4, <2>5, <2>6, <2>7, Zenon DEF UnitStep
<1>8. ASSUME NEW r \in Rollers, RollStep(r) \/ RollDies(r) PROVE Marked'
  <2>1. CASE Claim(r) \/ StopTimers(r) \/ Identify(r) \/ LeaveAlone(r)
    BY <1>1, <2>1 DEF Claim, StopTimers, Identify, LeaveAlone, runtime, unitv, marks
  <2>2. CASE RestoreRefuses(r) \/ RestoreRefs(r) \/ Settle(r) \/ RollDies(r)
    BY <1>1, <2>2 DEF RestoreRefuses, RestoreRefs, Settle, RollDies, runtime, unitv, marks
  <2>3. CASE Restore(r)
    <3>1. UNCHANGED <<unit, target, native, mixed, wanted, pending>> /\ dirty' = (dirty \/ file' # file)
      BY <2>3 DEF Restore, runtime, unitv
    <3> QED
      BY <1>1, <3>1
  <2>4. CASE StopUnit(r)
    BY <1>1, <1>2, <2>4 DEF StopUnit, runtime, marks, Published, Projected
  <2>5. CASE Restart(r)
    BY <1>2, <2>5 DEF Restart, StartUnit, Published, Projected
  <2> QED
    BY <1>8, <2>1, <2>2, <2>3, <2>4, <2>5, Zenon DEF RollStep
<1>9. CASE Reboot
  BY <1>9 DEF Reboot, Marked, Published, Projected
<1> QED
  BY <1>4, <1>5, <1>6, <1>7, <1>8, <1>9 DEF Next

-----------------------------------------------------------------------------
(* A mixed runtime can be traced to a guard record that is not settled.    *)
LEMMA BlamedStays ==
    UnitOK /\ GuardsOK /\ RollsOK /\ Watched /\ Blamed /\ [Next]_vars => Blamed'
<1> SUFFICES ASSUME UnitOK, GuardsOK, RollsOK, Watched, Blamed, [Next]_vars PROVE Blamed'
  OBVIOUS
<1>1. CASE Reboot
  BY <1>1 DEF Reboot, Blamed
<1>2. ASSUME mixed' = FALSE PROVE Blamed'
  BY <1>2 DEF Blamed
<1> run \in Nat /\ run' \in Nat /\ run' >= run
  BY RunCounts, ReconcileAssumption DEF UnitOK
<1> DEFINE Mixing == Unprojected \cup {"projecting", "failed"}
           Still(w, l, n, u) == \A k \in (w + 1)..n : k \in l \/ (k = n /\ u \in Unprojected)
<1>3. ASSUME mixed, ~Reboot, unit' \in Mixing,
             \A w \in 1..run : Still(w, lost, run, unit) => Still(w, lost', run', unit')
      PROVE  Blamed'
  <2>1. unit \in Mixing
    BY <1>3 DEF Blamed
  <2>2. PICK w \in 1..run : Unsettled(w) /\ Still(w, lost, run, unit)
    BY <1>3 DEF Blamed, StillMixed
  <2>3. w \in Runs /\ w \in 1..run' /\ w \in Nat
    BY <2>2, ReconcileAssumption DEF Runs, UnitOK
  <2>4. ~CancelGuard
    BY <2>1 DEF CancelGuard, Unprojected
  <2>5. ASSUME NEW r \in Rollers, Settle(r) PROVE w # job[r].guard \/ job[r].run \in lost
    <3> SUFFICES ASSUME w = job[r].guard PROVE job[r].run \in lost
      OBVIOUS
    <3>1. job[r].run \in Nat /\ w < job[r].run /\ job[r].run <= run
      BY <2>5 DEF Settle, RollsOK, Jobs
    <3>2. job[r].run \in (w + 1)..run
      BY <2>3, <3>1
    <3>3. job[r].run # run \/ unit \notin Unprojected
      BY <2>5, <3>1 DEF Settle, Ended, Unprojected
    <3> QED
      BY <2>2, <3>2, <3>3
  <2>6. guard'[w] \in {"armed", "claimed", "failed"}
    BY <1>3, <2>2, <2>3, <2>4, <2>5, RecordStays DEF Unsettled
  <2> QED
    BY <1>3, <2>2, <2>3, <2>6 DEF Blamed, Unsettled, StillMixed
<1> HIDE DEF Still
<1>4. ASSUME UNCHANGED <<mixed, unit, run, lost>> PROVE Blamed'
  <2>1. CASE mixed /\ ~Reboot
    BY <1>3, <1>4, <2>1 DEF Blamed
  <2> QED
    BY <1>1, <1>2, <1>4, <2>1 DEF Blamed
<1>5. ASSUME UNCHANGED <<mixed, run, lost>>, unit' \in Unprojected PROVE Blamed'
  <2>1. CASE mixed /\ ~Reboot
    <3>1. \A w \in 1..run : Still(w, lost, run, unit) => Still(w, lost', run', unit')
      BY <1>5 DEF Still
    <3> QED
      BY <1>3, <1>5, <2>1, <3>1
  <2> QED
    BY <1>1, <1>5, <2>1 DEF Blamed
<1>6. ASSUME UNCHANGED <<mixed, run>>, unit' = "failed", lost' = lost \cup {run} PROVE Blamed'
  <2>1. CASE mixed /\ ~Reboot
    <3>1. \A w \in 1..run : Still(w, lost, run, unit) => Still(w, lost', run', unit')
      BY <1>6 DEF Still
    <3> QED
      BY <1>3, <1>6, <2>1, <3>1
  <2> QED
    BY <1>1, <1>6, <2>1 DEF Blamed
<1>7. ASSUME mixed' = mixed, run' = run + 1, unit' = "removing",
             lost' = lost \cup {run} \/ (unit \in Ended /\ lost' = lost)
      PROVE  Blamed'
  <2>1. CASE mixed /\ ~Reboot
    <3>1. ASSUME NEW w \in 1..run, Still(w, lost, run, unit) PROVE Still(w, lost', run', unit')
      <4>1. ASSUME NEW k \in (w + 1)..run PROVE k \in lost'
        BY <1>7, <3>1, <4>1 DEF Still, Ended, Unprojected
      <4>2. \A k \in (w + 1)..run' : k = run' \/ k \in (w + 1)..run
        BY <1>7
      <4> QED
        BY <1>7, <4>1, <4>2 DEF Still, Unprojected
    <3> QED
      BY <1>3, <1>7, <2>1, <3>1 DEF Unprojected
  <2> QED
    BY <1>1, <1>7, <2>1 DEF Blamed
<1>8. ASSUME mixed' = mixed, unit \notin Mixing PROVE Blamed'
  BY <1>8 DEF Blamed
<1>9. CASE UNCHANGED vars \/ (\E d \in Docs : Edit(d)) \/ TouchPending \/ HandlerStep
           \/ (\E i \in Runs : Elapse(i))
  BY <1>4, <1>9 DEF vars, runtime, unitv, Edit, TouchPending, Elapse,
     HandlerStep, HandlerStarts, ReadGuardFile, HandlerEnds
<1>10. CASE Start \/ StartRequest
  BY <1>7, <1>10 DEF Start, StartRequest, StartUnit, runtime
<1>11. CASE CommandFails
  BY <1>6, <1>11 DEF CommandFails, FailUnit, runtime
<1>12. CASE UnitStep
  <2>1. CASE RemovePlan \/ BootstrapApplied \/ NameGuard \/ Record \/ LinkPlan \/ SwitchCurrent
    BY <1>5, <2>1 DEF RemovePlan, BootstrapApplied, NameGuard, Record, LinkPlan, SwitchCurrent,
       Proceed, runtime, Unprojected
  <2>2. CASE BootstrapHead \/ ArmGuard \/ Compile
    BY <1>5, <1>6, <2>2 DEF BootstrapHead, ArmGuard, Compile, FailUnit, runtime, Unprojected
  <2>3. CASE PinRevision
    <3>1. CASE planLink /\ current # 0
      <4>1. unit = "pinning" /\ unit' = "projecting" /\ UNCHANGED <<run, guard>>
        BY <2>3, <3>1 DEF PinRevision, guards
      <4>2. Unsettled(run) /\ run \in 1..run
        BY <4>1 DEF Watched, Armed, UnitOK
      <4>3. \E w \in 1..run' : guard'[w] \in {"armed", "claimed", "failed"} /\ (w + 1)..run' = {}
        BY <4>1, <4>2 DEF Unsettled
      <4> QED
        BY <4>1, <4>3 DEF Blamed, StillMixed, Unsettled
    <3>2. CASE ~(planLink /\ current # 0)
      BY <1>6, <2>3, <3>2 DEF PinRevision, FailUnit
    <3> QED
      BY <3>1, <3>2
  <2>4. CASE Project
    BY <1>2, <1>6, <2>4 DEF Project, FailUnit
  <2>5. CASE MarkPrevious \/ MarkApplied \/ AckPending \/ CancelGuard \/ UnnameGuard \/ ClearPrevious
    BY <1>8, <2>5 DEF MarkPrevious, MarkApplied, AckPending, CancelGuard, UnnameGuard, ClearPrevious,
       Proceed, runtime, Unprojected
  <2> QED
    BY <1>12, <2>1, <2>2, <2>3, <2>4, <2>5, Zenon DEF UnitStep
<1>13. ASSUME NEW r \in Rollers, RollStep(r) \/ RollDies(r) PROVE Blamed'
  <2>1. CASE Claim(r) \/ StopTimers(r) \/ Identify(r) \/ LeaveAlone(r) \/ Restore(r)
    BY <1>4, <2>1 DEF Claim, StopTimers, Identify, LeaveAlone, Restore, runtime, unitv
  <2>2. CASE RestoreRefuses(r) \/ RestoreRefs(r) \/ Settle(r) \/ RollDies(r)
    BY <1>4, <2>2 DEF RestoreRefuses, RestoreRefs, Settle, RollDies, runtime, unitv
  <2>3. CASE StopUnit(r)
    BY <1>4, <1>6, <2>3 DEF StopUnit, runtime
  <2>4. CASE Restart(r)
    <3>1. unit \in Phases \/ unit \in Ended
      BY DEF UnitOK
    <3> QED
      BY <1>7, <2>4, <3>1 DEF Restart, StartUnit, runtime
  <2> QED
    BY <1>13, <2>1, <2>2, <2>3, <2>4, Zenon DEF RollStep
<1> QED
  BY <1>1, <1>9, <1>10, <1>11, <1>12, <1>13 DEF Next

-----------------------------------------------------------------------------
(* The marker, the links and the queue are flags.                          *)
FlagsOK ==
    /\ mixed \in BOOLEAN /\ planLink \in BOOLEAN
    /\ pending \in BOOLEAN /\ dirty \in BOOLEAN /\ wanted \in BOOLEAN

LEMMA FlagsStay == FlagsOK /\ [Next]_vars => FlagsOK'
<1> SUFFICES ASSUME FlagsOK, [Next]_vars PROVE FlagsOK'
  OBVIOUS
<1>1. ASSUME UNCHANGED <<mixed, planLink, pending, dirty, wanted>> PROVE FlagsOK'
  BY <1>1 DEF FlagsOK
<1>2. CASE UNCHANGED vars \/ HandlerStep \/ (\E i \in Runs : Elapse(i)) \/ StartRequest \/ CommandFails
  BY <1>1, <1>2 DEF vars, runtime, marks, Elapse, StartRequest, CommandFails, HandlerStep,
     HandlerStarts, ReadGuardFile, HandlerEnds
<1>3. CASE (\E d \in Docs : Edit(d)) \/ TouchPending \/ Start \/ Reboot
  BY <1>3 DEF Edit, TouchPending, Start, Reboot, runtime, FlagsOK
<1>4. CASE UnitStep
  <2>1. CASE BootstrapHead \/ BootstrapApplied \/ NameGuard \/ ArmGuard \/ Record \/ Compile
    BY <1>1, <2>1 DEF BootstrapHead, BootstrapApplied, NameGuard, ArmGuard, Record, Compile, runtime, marks
  <2>2. CASE SwitchCurrent \/ MarkPrevious \/ MarkApplied \/ CancelGuard \/ UnnameGuard \/ ClearPrevious
    BY <1>1, <2>2 DEF SwitchCurrent, MarkPrevious, MarkApplied, CancelGuard, UnnameGuard,
       ClearPrevious, runtime, marks
  <2>3. CASE RemovePlan \/ LinkPlan \/ PinRevision \/ Project
    BY <2>3 DEF RemovePlan, LinkPlan, PinRevision, Project, marks, FlagsOK
  <2>4. CASE AckPending
    BY <2>4 DEF AckPending, runtime, FlagsOK
  <2> QED
    BY <1>4, <2>1, <2>2, <2>3, <2>4, Zenon DEF UnitStep
<1>5. ASSUME NEW r \in Rollers, RollStep(r) \/ RollDies(r) PROVE FlagsOK'
  <2>1. CASE Claim(r) \/ StopUnit(r) \/ StopTimers(r) \/ Identify(r) \/ LeaveAlone(r)
    BY <1>1, <2>1 DEF Claim, StopUnit, StopTimers, Identify, LeaveAlone, runtime, marks
  <2>2. CASE RestoreRefuses(r) \/ RestoreRefs(r) \/ Settle(r) \/ RollDies(r)
    BY <1>1, <2>2 DEF RestoreRefuses, RestoreRefs, Settle, RollDies, runtime, marks
  <2>3. CASE Restore(r) \/ Restart(r)
    BY <2>3 DEF Restore, Restart, runtime, FlagsOK
  <2> QED
    BY <1>5, <2>1, <2>2, <2>3, Zenon DEF RollStep
<1> QED
  BY <1>2, <1>3, <1>4, <1>5 DEF Next

-----------------------------------------------------------------------------
IInv ==
    /\ UnitOK /\ GuardsOK /\ RollsOK /\ HistoryOK /\ FlagsOK
    /\ Sound /\ Working /\ Goals /\ Watched /\ Marked /\ Blamed

LEMMA InvInit == Init => IInv
<1> SUFFICES ASSUME Init PROVE IInv
  OBVIOUS
<1> USE ReconcileAssumption DEF Init
<1>1. UnitOK /\ GuardsOK
  BY DEF UnitOK, GuardsOK, GuardStates, Phases, Ended, Unanswered, Runs
<1>2. RollsOK /\ Goals
  BY DEF RollsOK, Goals, Jobs, NoJob, Rollers, RollPoints
<1>3. HistoryOK
  <2>1. log \in Seq(Docs) /\ Revisions = {0}
    BY DEF Revisions
  <2> QED
    BY <2>1 DEF HistoryOK
<1>4. FlagsOK
  BY Zenon DEF FlagsOK
<1>5. Sound
  BY DEF Sound
<1>6. Working /\ Watched /\ Marked /\ Blamed
  BY DEF Working, Watched, Marked, Blamed, Published, Projected, Armed, Unarmed
<1> QED
  BY <1>1, <1>2, <1>3, <1>4, <1>5, <1>6 DEF IInv

LEMMA InvStep == IInv /\ [Next]_vars => IInv'
BY UnitStays, GuardsStay, RollsStay, FlagsStay, SoundStays, WorkingStays, GoalsStay, WatchedStays,
   MarkedStays, BlamedStays
DEF IInv

(* The invariant of the transaction holds in every reachable state.        *)
THEOREM ReconcileInvariant == Spec => []IInv
BY InvInit, InvStep, PTL DEF Spec

(* Every reachable state of the transaction is well typed.                 *)
THEOREM ReconcileTyped == Spec => []TypeOK
<1>1. IInv => TypeOK
  <2> SUFFICES ASSUME IInv PROVE TypeOK
    OBVIOUS
  <2>1. lost \subseteq Runs /\ timers \subseteq Runs /\ guardFile \in 0..MaxRuns
    BY ReconcileAssumption DEF IInv, UnitOK, GuardsOK, Runs
  <2>2. {mixed, planLink, pending, dirty, wanted} \subseteq BOOLEAN
    BY Zenon DEF IInv, FlagsOK
  <2> QED
    BY <2>1, <2>2 DEF IInv, TypeOK, UnitOK, GuardsOK, GuardStates, RollsOK, HistoryOK
<1> QED
  BY <1>1, ReconcileInvariant, PTL

(* A rollback never goes back to a document that fails: refs/nas/applied   *)
(* and previous-applied only ever name what mark_applied, a rollback or    *)
(* the bootstrap put there, and that has been compiled and projected.      *)
THEOREM ReconcileTargetsWork == Spec => []RollbackTargetsWork
<1>1. IInv => RollbackTargetsWork
  BY DEF IInv, Sound, RollbackTargetsWork, Works, Builds
<1> QED
  BY <1>1, ReconcileInvariant, PTL

(* No edit is lost, however edits, invocations, rollbacks, faults and      *)
(* reboots interleave: once everything is quiet after a successful run,    *)
(* the appliance runs the document in the file.                            *)
THEOREM ReconcileNoLostEdit == Spec => []NoLostEdit
<1>1. IInv => NoLostEdit
  BY DEF IInv, Marked, NoLostEdit, Quiet
<1> QED
  BY <1>1, ReconcileInvariant, PTL

(* A half-projected runtime that nobody works on any more shows in a guard *)
(* record: none was completed or cancelled for want of a look.             *)
THEOREM ReconcileNoneLeftMixed == Spec => []NoneLeftMixed
<1>1. IInv => NoneLeftMixed
  <2> SUFFICES ASSUME IInv, Quiet, mixed PROVE unit = "failed" /\ Reported
    BY DEF NoneLeftMixed
  <2>1. unit = "failed"
    BY DEF IInv, Blamed, Quiet, Ended, Unprojected
  <2>2. 1..run \subseteq Runs
    BY ReconcileAssumption DEF IInv, UnitOK, Runs
  <2> QED
    BY <2>1, <2>2 DEF IInv, Blamed, Reported
<1> QED
  BY <1>1, ReconcileInvariant, PTL

(* A recorded document that cannot be applied does not stay desired in     *)
(* silence: the last invocation failed and its own guard record says so,   *)
(* or it failed before it had a guard.                                     *)
THEOREM ReconcileFailingEditUndone == Spec => []FailingEditUndone
<1>1. IInv => FailingEditUndone
  <2> SUFFICES ASSUME IInv, Quiet, log # <<>>, log[HEAD] = file,
                      file \in Unbuildable \cup Unrunnable
               PROVE  unit = "failed" /\ (Unsettled(run) \/ guard[run] = "none")
    BY DEF FailingEditUndone
  <2>1. unit # "inactive"
    BY DEF IInv, Marked, Sound, Works, Builds, Quiet
  <2>2. ~Works(log, HEAD)
    BY DEF Works, Builds
  <2> QED
    BY <2>1, <2>2 DEF IInv, Watched, Quiet, Ended
<1> QED
  BY <1>1, ReconcileInvariant, PTL

-----------------------------------------------------------------------------
(* Every guard record of the transaction is a guard of GuardOutcome.       *)

RollingPoints == {"stopping", "stoppingTimers", "identifying", "restoring", "referring",
                  "restarting", "waiting"}

(* The rollback r runs for the guard it has claimed.                       *)
Rolls(r)       == roll[r] \in RollingPoints /\ job[r].guard # 0
RollingBack(i) == \E r \in Rollers : Rolls(r) /\ job[r].guard = i

Promised(i) == INSTANCE GuardOutcome WITH record <- guard[i], running <- RollingBack(i)

(* Until power is lost, which takes the records in /run with it, every     *)
(* guard record goes through the outcomes of GuardOutcome, one atomic step *)
(* at a time, however the unit, the failure handler and the timers of all  *)
(* invocations interleave: a rollback runs only for a guard that it has    *)
(* claimed, alone, and a settled guard stays settled.                      *)
GuardsPromised ==
    /\ \A i \in Runs : Promised(i)!Init
    /\ [][Reboot \/ \A i \in Runs : Promised(i)!Next \/ UNCHANGED Promised(i)!vars]_vars

(* Whoever rolls back has claimed its guard and is alone with it.          *)
OneRollback ==
    /\ \A r \in Rollers : roll[r] = "claiming" => job[r].guard # 0
    /\ \A r \in Rollers : Rolls(r) =>
         /\ guard[job[r].guard] = "claimed"
         /\ \A q \in Rollers : Rolls(q) /\ job[q].guard = job[r].guard => q = r

(* A step that leaves the guards and the rollbacks of them as they are.    *)
SameRollbacks ==
    /\ guard' = guard
    /\ \A r \in Rollers :
         /\ Rolls(r)' <=> Rolls(r)
         /\ Rolls(r) => job'[r].guard = job[r].guard
         /\ roll'[r] = "claiming" =>
              (roll[r] = "claiming" /\ job'[r].guard = job[r].guard) \/ job'[r].guard # 0

Kept(i) == guard'[i] = guard[i] /\ RollingBack(i)' = RollingBack(i)

LEMMA SameMeans ==
    ASSUME RollsOK, OneRollback, SameRollbacks
    PROVE  OneRollback' /\ \A i \in Runs : Kept(i)
<1>1. \A r \in Rollers : Rolls(r)' => Rolls(r) /\ job'[r].guard = job[r].guard
  BY DEF SameRollbacks
<1>2. \A r \in Rollers : Rolls(r) => Rolls(r)' /\ job'[r].guard = job[r].guard
  BY DEF SameRollbacks
<1>3. OneRollback'
  <2>1. ASSUME NEW r \in Rollers, roll'[r] = "claiming" PROVE job'[r].guard # 0
    BY <2>1 DEF SameRollbacks, OneRollback
  <2>2. ASSUME NEW r \in Rollers, Rolls(r)'
        PROVE  /\ guard'[job'[r].guard] = "claimed"
               /\ \A q \in Rollers : Rolls(q)' /\ job'[q].guard = job'[r].guard => q = r
    BY <2>2, <1>1 DEF SameRollbacks, OneRollback
  <2> QED
    BY <2>1, <2>2 DEF OneRollback
<1>4. \A i \in Runs : RollingBack(i)' = RollingBack(i)
  BY <1>1, <1>2 DEF RollingBack
<1> QED
  BY <1>3, <1>4 DEF Kept, SameRollbacks

Advances == \A i \in Runs : Promised(i)!Next \/ UNCHANGED Promised(i)!vars

LEMMA SameAdvances ==
    ASSUME RollsOK, OneRollback, SameRollbacks PROVE OneRollback' /\ Advances
<1>1. \A i \in Runs : UNCHANGED Promised(i)!vars
  BY SameMeans DEF Kept, Promised!vars
<1> QED
  BY <1>1, SameMeans DEF Advances

(* The rollback r is through: with an outcome, killed, or refused.         *)
LEMMA RetireAdvances ==
    ASSUME GuardsOK, RollsOK, OneRollback, NEW r \in Rollers, NEW p \in {"idle", "unnaming"},
           roll' = [roll EXCEPT ![r] = p], job' = [job EXCEPT ![r] = NoJob],
           \/ guard' = guard
           \/ \E s \in {"completed", "failed"} :
                Rolls(r) /\ guard' = [guard EXCEPT ![job[r].guard] = s]
    PROVE  OneRollback' /\ Advances
<1>1. \A q \in Rollers \ {r} : roll'[q] = roll[q] /\ job'[q] = job[q]
  BY DEF RollsOK
<1>2. roll'[r] = p /\ job'[r].guard = 0
  BY DEF RollsOK, NoJob
<1>3. ~Rolls(r)' /\ \A q \in Rollers \ {r} : Rolls(q)' <=> Rolls(q)
  BY <1>1, <1>2 DEF Rolls
<1>4. CASE ~Rolls(r)
  <2>1. SameRollbacks
    BY <1>1, <1>2, <1>3, <1>4 DEF SameRollbacks
  <2> QED
    BY <2>1, SameAdvances
<1>5. CASE Rolls(r)
  <2>1. PICK g \in Runs : g = job[r].guard
    BY <1>5 DEF Rolls, RollsOK, Jobs, Runs, Rollers
  <2>2. guard[g] = "claimed" /\ \A q \in Rollers : Rolls(q) /\ job[q].guard = g => q = r
    BY <1>5, <2>1 DEF OneRollback
  <2>3. RollingBack(g) /\ ~RollingBack(g)'
    BY <1>1, <1>3, <1>5, <2>1, <2>2 DEF RollingBack
  <2>4. \A i \in Runs \ {g} : guard'[i] = guard[i]
    BY <2>1 DEF GuardsOK
  <2>5. guard'[g] \in {"claimed", "completed", "failed"}
    BY <2>1, <2>2 DEF GuardsOK
  <2>6. \A i \in Runs \ {g} : RollingBack(i)' = RollingBack(i)
    <3>1. \A q \in Rollers \ {r} : Rolls(q)' <=> Rolls(q)
      BY <1>3
    <3>2. \A i \in Runs \ {g} : job[r].guard # i
      BY <2>1
    <3> QED
      BY <1>1, <1>3, <3>1, <3>2 DEF RollingBack
  <2>7. Promised(g)!Next
    <3>1. CASE guard'[g] = "claimed"
      BY <3>1, <2>2, <2>3 DEF Promised!Next, Promised!Abandon
    <3>2. CASE guard'[g] \in {"completed", "failed"}
      BY <3>2, <2>2, <2>3 DEF Promised!Next, Promised!Settle
    <3> QED
      BY <3>1, <3>2, <2>5
  <2>8. Advances
    <3>1. \A i \in Runs \ {g} : UNCHANGED Promised(i)!vars
      BY <2>4, <2>6 DEF Promised!vars
    <3> QED
      BY <2>7, <3>1 DEF Advances
  <2>9. OneRollback'
    <3>1. ASSUME NEW q \in Rollers, roll'[q] = "claiming" PROVE job'[q].guard # 0
      BY <3>1, <1>1, <1>2 DEF OneRollback
    <3>2. ASSUME NEW q \in Rollers, Rolls(q)'
          PROVE  /\ guard'[job'[q].guard] = "claimed"
                 /\ \A x \in Rollers : Rolls(x)' /\ job'[x].guard = job'[q].guard => x = q
      <4>1. q # r /\ Rolls(q) /\ job'[q] = job[q]
        BY <3>2, <1>1, <1>3
      <4>2. job[q].guard \in Runs \ {g}
        BY <4>1, <2>2 DEF Rolls, RollsOK, Jobs, Runs, Rollers
      <4>3. guard'[job'[q].guard] = "claimed"
        BY <4>1, <4>2, <2>4 DEF OneRollback
      <4>4. ASSUME NEW x \in Rollers, Rolls(x)', job'[x].guard = job'[q].guard PROVE x = q
        <5>1. x # r /\ Rolls(x) /\ job'[x] = job[x]
          BY <4>4, <1>1, <1>3
        <5> QED
          BY <5>1, <4>1, <4>4 DEF OneRollback
      <4> QED
        BY <4>3, <4>4
    <3> QED
      BY <3>1, <3>2 DEF OneRollback
  <2> QED
    BY <2>8, <2>9
<1> QED
  BY <1>4, <1>5

(* The record of one guard moves while no rollback of it runs.             *)
LEMMA RecordAdvances ==
    ASSUME GuardsOK, RollsOK, OneRollback, NEW g \in Runs,
           guard' = [guard EXCEPT ![g] = guard'[g]], guard[g] \in {"none", "armed"},
           guard[g] = "none" => guard'[g] = "armed",
           guard[g] = "armed" => guard'[g] = "cancelled",
           roll' = roll, job' = job
    PROVE  OneRollback' /\ Advances
<1>1. \A i \in Runs \ {g} : guard'[i] = guard[i]
  BY DEF GuardsOK
<1>2. \A r \in Rollers : Rolls(r)' <=> Rolls(r)
  BY DEF Rolls
<1>3. \A r \in Rollers : Rolls(r) => job[r].guard \in Runs \ {g}
  BY SMTT(30) DEF OneRollback, Rolls, RollsOK, Jobs, Runs, Rollers
<1>4. OneRollback'
  BY <1>1, <1>2, <1>3 DEF OneRollback
<1>5. ~RollingBack(g) /\ \A i \in Runs : RollingBack(i)' = RollingBack(i)
  BY <1>2, <1>3 DEF RollingBack
<1>6. Promised(g)!Next
  <2>1. CASE guard[g] = "none"
    BY <2>1, <1>5 DEF Promised!Next, Promised!Arm, Promised!Reusable
  <2>2. CASE guard[g] = "armed"
    BY <2>2, <1>5 DEF Promised!Next, Promised!Cancel
  <2> QED
    BY <2>1, <2>2
<1>7. \A i \in Runs \ {g} : UNCHANGED Promised(i)!vars
  BY <1>1, <1>5 DEF Promised!vars
<1> QED
  BY <1>4, <1>6, <1>7 DEF Advances

(* The rollback r claims its guard.                                        *)
LEMMA ClaimAdvances ==
    ASSUME GuardsOK, RollsOK, OneRollback, NEW r \in Rollers, Claim(r),
           guard[job[r].guard] \in {"none", "armed"}
    PROVE  OneRollback' /\ Advances
<1>1. PICK g \in Runs : g = job[r].guard
  BY DEF OneRollback, Claim, RollsOK, Jobs, Runs, Rollers
<1>2. guard' = [guard EXCEPT ![g] = "claimed"] /\ roll' = [roll EXCEPT ![r] = "stopping"] /\ job' = job
  <2>1. g # 0
    BY DEF Runs
  <2> QED
    BY <1>1, <2>1 DEF Claim, Outcome, GoRoll
<1>3. guard'[g] = "claimed" /\ \A i \in Runs \ {g} : guard'[i] = guard[i]
  BY <1>2 DEF GuardsOK
<1>4. Rolls(r)' /\ ~Rolls(r) /\ \A q \in Rollers \ {r} : Rolls(q)' <=> Rolls(q)
  BY <1>1, <1>2 DEF Rolls, RollsOK, Claim, RollingPoints, Runs
<1>5. \A q \in Rollers : Rolls(q) => job[q].guard \in Runs \ {g}
  <2> SUFFICES ASSUME NEW q \in Rollers, Rolls(q) PROVE job[q].guard \in Runs /\ job[q].guard # g
    OBVIOUS
  <2>1. guard[job[q].guard] = "claimed"
    BY DEF OneRollback
  <2>2. job[q].guard \in Runs
    BY DEF Rolls, RollsOK, Jobs, Runs, Rollers
  <2> QED
    BY <1>1, <2>1, <2>2
<1>6. OneRollback'
  <2>1. ASSUME NEW q \in Rollers, roll'[q] = "claiming" PROVE job'[q].guard # 0
    <3>1. roll[q] = "claiming"
      BY <2>1, <1>2 DEF RollsOK
    <3> QED
      BY <3>1, <1>2 DEF OneRollback
  <2>2. ASSUME NEW q \in Rollers, Rolls(q)'
        PROVE  /\ guard'[job'[q].guard] = "claimed"
               /\ \A x \in Rollers : Rolls(x)' /\ job'[x].guard = job'[q].guard => x = q
    <3>1. CASE q = r
      BY <3>1, <1>1, <1>2, <1>3, <1>4, <1>5
    <3>2. CASE q # r
      BY <3>2, <2>2, <1>1, <1>2, <1>3, <1>4, <1>5 DEF OneRollback
    <3> QED
      BY <3>1, <3>2
  <2> QED
    BY <2>1, <2>2 DEF OneRollback
<1>7. ~RollingBack(g) /\ RollingBack(g)'
  BY <1>1, <1>2, <1>4, <1>5 DEF RollingBack
<1>8. \A i \in Runs \ {g} : RollingBack(i)' = RollingBack(i)
  BY <1>1, <1>2, <1>4 DEF RollingBack
<1>9. Promised(g)!Next
  BY <1>1, <1>3, <1>7 DEF Promised!Next, Promised!Claim
<1>10. \A i \in Runs \ {g} : UNCHANGED Promised(i)!vars
  BY <1>3, <1>8 DEF Promised!vars
<1> QED
  BY <1>6, <1>9, <1>10 DEF Advances


LEMMA RollbackStep ==
    UnitOK /\ GuardsOK /\ RollsOK /\ OneRollback /\ [Next]_vars
        => OneRollback' /\ (Reboot \/ Advances)
<1> SUFFICES ASSUME UnitOK, GuardsOK, RollsOK, OneRollback, [Next]_vars
             PROVE  OneRollback' /\ (Reboot \/ Advances)
  OBVIOUS
<1>1. ASSUME guard' = guard, job' = job, roll' \in {roll, Notified(roll)}
      PROVE  OneRollback' /\ Advances
  <2>1. \A r \in Rollers : roll'[r] = roll[r] \/ (roll[r] = "idle" /\ roll'[r] = "queued")
    BY <1>1 DEF RollsOK, Notified, Rollers, Handler
  <2>2. \A r \in Rollers : Rolls(r)' <=> Rolls(r)
    BY <1>1, <2>1 DEF Rolls, RollingPoints
  <2>3. SameRollbacks
    BY <1>1, <2>1, <2>2 DEF SameRollbacks
  <2> QED
    BY <2>3, SameAdvances
<1>2. CASE UNCHANGED vars \/ (\E d \in Docs : Edit(d)) \/ TouchPending \/ Start \/ StartRequest
  BY <1>1, <1>2 DEF vars, guards, rolls, Edit, TouchPending, Start, StartRequest
<1>3. CASE CommandFails
  BY <1>1, <1>3 DEF CommandFails, FailUnit, guards
<1>4. CASE UnitStep
  <2>1. CASE RemovePlan \/ BootstrapApplied \/ NameGuard \/ Record \/ LinkPlan \/ SwitchCurrent
             \/ MarkPrevious \/ AckPending \/ UnnameGuard \/ ClearPrevious
    BY <1>1, <2>1 DEF RemovePlan, BootstrapApplied, NameGuard, Record, LinkPlan, SwitchCurrent,
        MarkPrevious, AckPending, UnnameGuard, ClearPrevious, guards, rolls
  <2>2. CASE BootstrapHead \/ Compile \/ PinRevision \/ Project \/ MarkApplied
    BY <1>1, <2>2 DEF BootstrapHead, Compile, PinRevision, Project, MarkApplied, FailUnit, guards
  <2>3. CASE ArmGuard
    <3>1. CASE guard[run] = "none"
      <4>1. run \in Runs
        BY <2>3 DEF UnitOK, ArmGuard, Runs
      <4>2. guard' = [guard EXCEPT ![run] = "armed"] /\ roll' = roll /\ job' = job
        BY <2>3, <3>1 DEF ArmGuard
      <4>3. guard'[run] = "armed"
        BY <4>1, <4>2 DEF GuardsOK
      <4> QED
        BY <3>1, <4>1, <4>2, <4>3, RecordAdvances
    <3>2. CASE guard[run] # "none"
      BY <1>1, <2>3, <3>2 DEF ArmGuard, FailUnit
    <3> QED
      BY <3>1, <3>2
  <2>4. CASE CancelGuard
    <3>1. CASE guard[run] = "armed" /\ roll[run] = "idle"
      <4>1. run \in Runs
        BY <2>4 DEF UnitOK, CancelGuard, Runs
      <4>2. guard' = [guard EXCEPT ![run] = "cancelled"] /\ roll' = roll /\ job' = job
        BY <2>4, <3>1 DEF CancelGuard
      <4>3. guard'[run] = "cancelled"
        BY <4>1, <4>2 DEF GuardsOK
      <4> QED
        BY <3>1, <4>1, <4>2, <4>3, RecordAdvances
    <3>2. CASE ~(guard[run] = "armed" /\ roll[run] = "idle")
      BY <1>1, <2>4, <3>2 DEF CancelGuard, FailUnit
    <3> QED
      BY <3>1, <3>2
  <2> QED
    BY <1>4, <2>1, <2>2, <2>3, <2>4 DEF UnitStep
<1>5. ASSUME NEW i \in Runs, Elapse(i) PROVE OneRollback' /\ Advances
  <2>1. i \in Rollers /\ i # 0
    BY DEF Runs, Rollers
  <2>2. roll[i] = "idle" /\ roll'[i] = "claiming" /\ job'[i].guard = i /\ guard' = guard
    BY <1>5, <2>1 DEF Elapse, GoRoll, RollsOK, NoJob
  <2>3. \A r \in Rollers \ {i} : roll'[r] = roll[r] /\ job'[r] = job[r]
    BY <1>5 DEF Elapse, GoRoll, RollsOK
  <2>4. SameRollbacks
    BY <2>1, <2>2, <2>3 DEF SameRollbacks, Rolls, RollingPoints
  <2> QED
    BY <2>4, SameAdvances
<1>6. CASE HandlerStep
  <2> USE DEF Handler, GoRoll, RollsOK, SameRollbacks, Rolls, RollingPoints, Rollers
  <2>1. CASE HandlerStarts
    <3>1. SameRollbacks
      BY <2>1, ReconcileAssumption DEF HandlerStarts, guards
    <3> QED
      BY <3>1, SameAdvances
  <2>2. CASE ReadGuardFile
    <3>1. job'[Handler].guard = guardFile /\ guard' = guard
      BY <2>2, ReconcileAssumption DEF ReadGuardFile, NoJob, guards
    <3>2. SameRollbacks
      BY <3>1, <2>2, ReconcileAssumption DEF ReadGuardFile
    <3> QED
      BY <3>2, SameAdvances
  <2>3. CASE HandlerEnds
    <3>1. SameRollbacks
      BY <2>3, ReconcileAssumption DEF HandlerEnds
    <3> QED
      BY <3>1, SameAdvances
  <2> QED
    BY <1>6, <2>1, <2>2, <2>3 DEF HandlerStep
<1>7. ASSUME NEW r \in Rollers, RollStep(r) \/ RollDies(r) PROVE OneRollback' /\ Advances
  <2>1. ASSUME Retire(r), guard' = guard PROVE OneRollback' /\ Advances
    BY <2>1, RetireAdvances DEF Retire, GoRoll
  <2>2. ASSUME Retire(r), NEW s \in {"completed", "failed"}, Outcome(r, s), roll[r] \in RollingPoints
        PROVE  OneRollback' /\ Advances
    <3>1. guard' = guard \/ (Rolls(r) /\ guard' = [guard EXCEPT ![job[r].guard] = s])
      BY <2>2 DEF Outcome, Rolls
    <3> QED
      BY <2>2, <3>1, RetireAdvances DEF Retire, GoRoll
  <2>3. CASE Claim(r)
    <3>1. CASE guard[job[r].guard] \in {"none", "armed"}
      BY <2>3, <3>1, ClaimAdvances
    <3>2. CASE guard[job[r].guard] \notin {"none", "armed"}
      BY <2>1, <2>3, <3>2 DEF Claim
    <3> QED
      BY <3>1, <3>2
  <2>4. CASE RestoreRefuses(r)
    BY <2>2, <2>4 DEF RestoreRefuses, RollingPoints
  <2>5. CASE Settle(r)
    BY <2>2, <2>5 DEF Settle, RollingPoints
  <2>6. CASE RollDies(r)
    BY <2>6, RetireAdvances DEF RollDies, GoRoll, guards
  <2>7. ASSUME NEW p \in RollingPoints, roll[r] \in RollingPoints,
               roll' = [roll EXCEPT ![r] = p] \/ roll' = Notified([roll EXCEPT ![r] = p]),
               guard' = guard, \A q \in Rollers : job'[q].guard = job[q].guard
        PROVE  OneRollback' /\ Advances
    <3>1. \A q \in Rollers : (roll'[q] \in RollingPoints <=> roll[q] \in RollingPoints)
                               /\ (roll'[q] = "claiming" => roll[q] = "claiming")
      BY <2>7 DEF RollsOK, Notified, Rollers, Handler, RollingPoints
    <3>2. SameRollbacks
      BY <2>7, <3>1 DEF SameRollbacks, Rolls
    <3> QED
      BY <3>2, SameAdvances
  <2>8. CASE StopUnit(r)
    <3>1. guard' = guard /\ job' = job /\ roll[r] \in RollingPoints
      BY <2>8 DEF StopUnit, guards, RollingPoints
    <3> QED
      BY <2>7, <2>8, <3>1 DEF StopUnit, GoRoll, RollingPoints
  <2>9. CASE StopTimers(r) \/ LeaveAlone(r)
    <3>1. guard' = guard /\ job' = job /\ roll[r] \in RollingPoints
      BY <2>9 DEF StopTimers, LeaveAlone, guards, RollingPoints
    <3> QED
      BY <2>7, <2>9, <3>1 DEF StopTimers, LeaveAlone, GoRoll, RollingPoints
  <2>10. CASE Identify(r)
    <3>1. guard' = guard /\ roll[r] \in RollingPoints /\ \A q \in Rollers : job'[q].guard = job[q].guard
      BY <2>10 DEF Identify, guards, RollingPoints, RollsOK, Jobs
    <3> QED
      BY <2>7, <2>10, <3>1 DEF Identify, GoRoll, RollingPoints
  <2>11. CASE Restore(r)
    <3>1. guard' = guard /\ roll[r] \in RollingPoints /\ \A q \in Rollers : job'[q].guard = job[q].guard
      <4>1. job' = [job EXCEPT ![r].seen = applied, ![r].goal = RollbackTarget(r)]
        BY <2>11 DEF Restore
      <4>2. \A q \in Rollers : job'[q].guard = job[q].guard
        BY <4>1 DEF RollsOK, Jobs
      <4> QED
        BY <2>11, <4>2 DEF Restore, guards, RollingPoints
    <3> QED
      BY <2>7, <2>11, <3>1 DEF Restore, GoRoll, RollingPoints
  <2>12. CASE RestoreRefs(r)
    <3>1. CASE job[r].goal # job[r].seen /\ applied # job[r].seen
      BY <2>2, <2>12, <3>1 DEF RestoreRefs, RollingPoints
    <3>2. CASE ~(job[r].goal # job[r].seen /\ applied # job[r].seen)
      BY <2>7, <2>12, <3>2 DEF RestoreRefs, GoRoll, RollingPoints
    <3> QED
      BY <3>1, <3>2
  <2>13. CASE Restart(r)
    <3>1. guard' = guard /\ roll[r] \in RollingPoints /\ \A q \in Rollers : job'[q].guard = job[q].guard
      BY <2>13 DEF Restart, guards, RollingPoints, RollsOK, Jobs
    <3> QED
      BY <2>7, <2>13, <3>1 DEF Restart, RollingPoints
  <2> QED
    BY <1>7, <2>3, <2>4, <2>5, <2>6, <2>8, <2>9, <2>10, <2>11, <2>12, <2>13 DEF RollStep
<1>8. CASE Reboot
  <2>1. \A r \in Rollers : roll'[r] = "idle"
    BY <1>8 DEF Reboot
  <2> QED
    BY <1>8, <2>1 DEF OneRollback, Rolls, RollingPoints
<1> QED
  BY <1>2, <1>3, <1>4, <1>5, <1>6, <1>7, <1>8 DEF Next

(* Each invocation's guard keeps the promise of GuardOutcome: the rollback *)
(* that its failure handler and its timer race for runs at most once for a *)
(* claim, never for a guard that was cancelled, and nobody overwrites an   *)
(* outcome.                                                                *)
THEOREM ReconcileGuardsPromised == Spec => GuardsPromised
<1>1. Init => OneRollback /\ \A i \in Runs : Promised(i)!Init
  BY DEF Init, OneRollback, Rolls, RollingPoints, RollingBack, Promised!Init
<1>2. IInv /\ OneRollback /\ [Next]_vars
          => OneRollback' /\ [Reboot \/ Advances]_vars
  BY RollbackStep DEF IInv
<1>3. (\A i \in Runs : Promised(i)!Init) /\ [][Reboot \/ Advances]_vars => GuardsPromised
  BY PTL DEF GuardsPromised, Advances
<1> QED
  BY <1>1, <1>2, <1>3, ReconcileInvariant, PTL DEF Spec

-----------------------------------------------------------------------------
(* Revisions are only ever added to the history, by rollbacks too: a        *)
(* revision keeps its document for as long as a ref may name it.            *)
HistoryKept == [][Len(log') >= Len(log) /\ \A c \in 1..Len(log) : log'[c] = log[c]]_vars

(* No recording, bootstrap, rollback or reboot rewrites history:            *)
(* restore_applied commits the old document again and moves no branch back. *)
THEOREM ReconcileHistoryKept == Spec => HistoryKept
<1>1. IInv /\ [Next]_vars => [Len(log') >= Len(log) /\ \A c \in 1..Len(log) : log'[c] = log[c]]_vars
  BY HistoryGrows DEF IInv
<1> QED
  BY <1>1, ReconcileInvariant, PTL DEF Spec, HistoryKept

=============================================================================
