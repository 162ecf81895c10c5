---------------------------- MODULE GuardedApply ----------------------------
(***************************************************************************)
(* The rollback guard of services/nas_guarded_apply.py for one guard unit: *)
(* commands arm, cancel, fired and collect run by any number of processes, *)
(* the transient timer and service that systemd keeps for the unit, and    *)
(* the durable record they coordinate on under the guard's flock.          *)
(*                                                                         *)
(* A step is one locked read or write of the record or one systemctl call; *)
(* systemd's own events fall between any two of them.  status reads only.  *)
(***************************************************************************)
EXTENDS Naturals

CONSTANTS
    Procs,      \* processes that run the command line
    Svc,        \* the process of the transient service
    NoProc,     \* no process
    MaxFaults   \* bound on kills, failing system calls and timeouts

ASSUME GuardedApplyAssumption ==
    /\ Svc \notin Procs
    /\ NoProc \notin Procs \cup {Svc}
    /\ MaxFaults \in Nat

VARIABLES
    record,     \* state of the durable record; "none" when there is no file
    lock,       \* holder of the guard's flock
    pc,         \* where each process is
    timer,      \* the transient timer: "none" or "active"
    service,    \* the transient service: "dead", "active" or "failed"
    faults      \* faults so far

vars == <<record, lock, pc, timer, service, faults>>

Actors == Procs \cup {Svc}

LockedPoints == {"armStop", "armService", "armTimer",
                 "cancelCheck", "cancelStop", "cancelVerify", "collectStop"}
Points == {"idle", "arm", "armRun", "armUndo", "cancel", "fired", "rolling", "collect"}
          \cup LockedPoints

States == {"none", "armed", "claimed", "completed", "failed", "cancelled", "collected"}

Init ==
    /\ record = "none"
    /\ lock = NoProc
    /\ pc = [p \in Actors |-> "idle"]
    /\ timer = "none"
    /\ service = "dead"
    /\ faults = 0

-----------------------------------------------------------------------------
Go(p, point) == pc' = [pc EXCEPT ![p] = point]

(* flock(LOCK_EX), and the first read under it.                            *)
Enter(p, point) == lock = NoProc /\ lock' = p /\ Go(p, point)

(* Leaving the locked block, with or without an error.                     *)
Leave(p, point) == lock' = NoProc /\ Go(p, point)

(* A locked block without a systemctl call in it is one step.              *)
Brief(p, point) == lock = NoProc /\ UNCHANGED lock /\ Go(p, point)

(* Someone starts one of the commands.                                     *)
Command(p, name) ==
    /\ pc[p] = "idle"
    /\ Go(p, name)
    /\ UNCHANGED <<record, lock, timer, service, faults>>

-----------------------------------------------------------------------------
(* arm                                                                     *)

Arm(p) ==
    /\ pc[p] = "arm"
    /\ IF record \in {"armed", "claimed", "completed", "failed"}
         THEN Brief(p, "idle")
         ELSE Enter(p, "armStop")
    /\ UNCHANGED <<record, timer, service, faults>>

(* The result of this stop is not looked at.                               *)
ArmStop(p) ==
    /\ pc[p] = "armStop"
    /\ timer' \in {timer, "none"}
    /\ Go(p, "armService")
    /\ UNCHANGED <<record, lock, service, faults>>

ArmService(p) ==
    /\ pc[p] = "armService"
    /\ IF service = "dead" THEN Go(p, "armTimer") /\ UNCHANGED lock ELSE Leave(p, "idle")
    /\ UNCHANGED <<record, timer, service, faults>>

ArmTimer(p) ==
    /\ pc[p] = "armTimer"
    /\ IF timer = "none"
         THEN record' = "armed" /\ Leave(p, "armRun")
         ELSE UNCHANGED record /\ Leave(p, "idle")
    /\ UNCHANGED <<timer, service, faults>>

(* systemd-run, after the lock is released; it refuses a unit name that is *)
(* in use.                                                                 *)
ArmRun(p) ==
    /\ pc[p] = "armRun"
    /\ IF timer = "none" /\ service = "dead"
         THEN timer' = "active" /\ Go(p, "idle")
         ELSE UNCHANGED timer /\ Go(p, "armUndo")
    /\ UNCHANGED <<record, lock, service, faults>>

ArmUndo(p) ==
    /\ pc[p] = "armUndo"
    /\ Brief(p, "idle")
    /\ record' = IF record = "armed" THEN "none" ELSE record
    /\ UNCHANGED <<timer, service, faults>>

-----------------------------------------------------------------------------
(* cancel                                                                  *)

Cancel(p) ==
    /\ pc[p] = "cancel"
    /\ IF record = "armed" THEN Enter(p, "cancelCheck") ELSE Brief(p, "idle")
    /\ UNCHANGED <<record, timer, service, faults>>

(* A live service refuses the cancellation, a failed one is recorded.      *)
Unfired(p, verdict) ==
    CASE service = "active" -> UNCHANGED record /\ Leave(p, "idle")
      [] service = "failed" -> record' = "failed" /\ Leave(p, "idle")
      [] service = "dead"   -> verdict

CancelCheck(p) ==
    /\ pc[p] = "cancelCheck"
    /\ Unfired(p, UNCHANGED <<record, lock>> /\ Go(p, "cancelStop"))
    /\ UNCHANGED <<timer, service, faults>>

(* Bug variant of CancelStop: a stopped timer is taken for the whole job.  *)
CancelStopReturns(p) ==
    /\ pc[p] = "cancelStop"
    /\ timer' = "none"
    /\ Leave(p, "idle")
    /\ UNCHANGED <<record, service, faults>>

(* A stop that reports an error is accepted when the timer is gone anyway. *)
CancelStop(p) ==
    /\ pc[p] = "cancelStop"
    /\ \/ timer' = "none" /\ Go(p, "cancelVerify") /\ UNCHANGED lock
       \/ timer = "active" /\ UNCHANGED timer /\ Leave(p, "idle")
    /\ UNCHANGED <<record, service, faults>>

CancelVerify(p) ==
    /\ pc[p] = "cancelVerify"
    /\ Unfired(p, record' = "cancelled" /\ Leave(p, "idle"))
    /\ UNCHANGED <<timer, service, faults>>

-----------------------------------------------------------------------------
(* fired, by the transient service or directly by the failure handler; the *)
(* service unit ends with the process's exit code.                         *)

Exit(p, ok) ==
    service' = IF p = Svc THEN IF ok THEN "dead" ELSE "failed" ELSE service

(* Bug variant of Fired: a cancelled guard is claimed as well.             *)
FiredAfterCancel(p) ==
    /\ pc[p] = "fired"
    /\ IF record \in {"none", "armed", "cancelled"}
         THEN record' = "claimed" /\ Brief(p, "rolling") /\ UNCHANGED service
         ELSE UNCHANGED record /\ Brief(p, "idle") /\ Exit(p, record \notin {"claimed", "failed"})
    /\ UNCHANGED <<timer, faults>>

Fired(p) ==
    /\ pc[p] = "fired"
    /\ IF record \in {"none", "armed"}
         THEN record' = "claimed" /\ Brief(p, "rolling") /\ UNCHANGED service
         ELSE UNCHANGED record /\ Brief(p, "idle") /\ Exit(p, record \notin {"claimed", "failed"})
    /\ UNCHANGED <<timer, faults>>

(* Bug variant of Settle: the outcome is not written.                      *)
SettleUnrecorded(p) ==
    /\ pc[p] = "rolling"
    /\ Brief(p, "idle")
    /\ Exit(p, TRUE)
    /\ UNCHANGED <<record, timer, faults>>

(* The rollback command ends, is timed out or cannot run; its outcome is   *)
(* written over whatever the record says by then.                          *)
Settle(p) ==
    /\ pc[p] = "rolling"
    /\ Brief(p, "idle")
    /\ record' \in {"completed", "failed"}
    /\ Exit(p, record' = "completed")
    /\ UNCHANGED <<timer, faults>>

-----------------------------------------------------------------------------
(* collect                                                                 *)

Collect(p) ==
    /\ pc[p] = "collect"
    /\ IF record \in {"none", "armed", "claimed", "collected"}
         THEN Brief(p, "idle")
         ELSE Enter(p, "collectStop")
    /\ UNCHANGED <<record, timer, service, faults>>

CollectStop(p) ==
    /\ pc[p] = "collectStop"
    /\ timer' \in {timer, "none"}
    /\ record' = "collected"
    /\ Leave(p, "idle")
    /\ UNCHANGED <<service, faults>>

-----------------------------------------------------------------------------
(* systemd                                                                 *)

(* --on-active elapses once: the timer goes and the service starts.        *)
Elapse ==
    /\ timer = "active"
    /\ service # "active"
    /\ timer' = "none"
    /\ service' = "active"
    /\ Go(Svc, "fired")
    /\ UNCHANGED <<record, lock, faults>>

(* --collect unloads the failed service.                                   *)
Unload ==
    /\ service = "failed"
    /\ service' = "dead"
    /\ UNCHANGED <<record, lock, pc, timer, faults>>

-----------------------------------------------------------------------------
(* Faults: a systemctl call that times out raises out of the locked block, *)
(* whatever systemd still does with it; systemd-run fails, or times out    *)
(* with the timer made or not; the record cannot be unlinked; a process is *)
(* killed and the kernel drops its flock.                                  *)

Fault == faults < MaxFaults /\ faults' = faults + 1

Raise(p) ==
    /\ pc[p] \in LockedPoints
    /\ Fault
    /\ IF pc[p] \in {"armStop", "cancelStop", "collectStop"}
         THEN timer' \in {timer, "none"}
         ELSE UNCHANGED timer
    /\ Leave(p, "idle")
    /\ UNCHANGED <<record, service>>

RunFails(p) ==
    /\ pc[p] = "armRun"
    /\ Fault
    /\ \/ UNCHANGED timer /\ Go(p, "armUndo")
       \/ /\ timer' \in {timer, IF service = "dead" THEN "active" ELSE timer}
          /\ Go(p, "idle")
    /\ UNCHANGED <<record, lock, service>>

UndoFails(p) ==
    /\ pc[p] = "armUndo"
    /\ Fault
    /\ Brief(p, "idle")
    /\ UNCHANGED <<record, timer, service>>

Kill(p) ==
    /\ pc[p] # "idle"
    /\ Fault
    /\ lock' = IF lock = p THEN NoProc ELSE lock
    /\ Go(p, "idle")
    /\ Exit(p, FALSE)
    /\ UNCHANGED <<record, timer>>

-----------------------------------------------------------------------------
ArmSteps(p)    == Arm(p) \/ ArmStop(p) \/ ArmService(p) \/ ArmTimer(p) \/ ArmRun(p) \/ ArmUndo(p)
CancelSteps(p) == Cancel(p) \/ CancelCheck(p) \/ CancelStop(p) \/ CancelVerify(p)
FiredSteps(p)  == Fired(p) \/ Settle(p)

Step(p) ==
    \/ ArmSteps(p) \/ CancelSteps(p) \/ FiredSteps(p)
    \/ Collect(p) \/ CollectStop(p)

Next ==
    \/ \E p \in Procs, name \in {"arm", "cancel", "fired", "collect"} : Command(p, name)
    \/ \E p \in Actors :
          Step(p) \/ Raise(p) \/ RunFails(p) \/ UndoFails(p) \/ Kill(p)
    \/ Elapse \/ Unload

Spec == Init /\ [][Next]_vars

(* Commands end, systemd's timer elapses, and flock queues its waiters, so *)
(* nobody is overtaken at the lock for ever; stopping the timer or making  *)
(* it anew is up to the callers.                                           *)
Fairness ==
    /\ \A p \in Actors : SF_vars(Step(p))
    /\ WF_vars(Elapse)

FairSpec == Spec /\ Fairness

-----------------------------------------------------------------------------
(* Properties.                                                             *)

TypeOK ==
    /\ record \in States
    /\ lock \in Actors \cup {NoProc}
    /\ pc \in [Actors -> Points]
    /\ timer \in {"none", "active"}
    /\ service \in {"dead", "active", "failed"}
    /\ faults \in Nat

Rolling == \E p \in Actors : pc[p] = "rolling"

(* However arm, cancel, fired and collect interleave with each other, with *)
(* the timer and with kills, the record goes through the outcomes of       *)
(* GuardOutcome: the rollback runs only for whoever claimed the guard, at  *)
(* most once per claim, never after a cancel that reported success, and no *)
(* cancel or collect succeeds while it runs.                               *)
Outcome == INSTANCE GuardOutcome WITH running <- Rolling

OneOutcomeWins == Outcome!Spec

(* Unless a call failed or a process was killed, an armed record is never  *)
(* left behind without something that will still fire it or take it back:  *)
(* the timer, the service on its way to the claim, or a command at work.   *)
ArmedIsTriggered ==
    record = "armed" /\ faults = 0 =>
        \/ timer = "active"
        \/ pc[Svc] = "fired"
        \/ \E p \in Procs : pc[p] \in {"armRun", "armUndo", "cancelVerify", "fired"}

(* Unless something fails, an armed guard is cancelled or rolled back, and *)
(* a claimed one gets its outcome: nobody waits for a dead timer.          *)
GuardSettles ==
    record \in {"armed", "claimed"} ~> record \notin {"armed", "claimed"} \/ faults > 0

=============================================================================
