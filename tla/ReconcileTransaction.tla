------------------------ MODULE ReconcileTransaction ------------------------
(***************************************************************************)
(* The guarded apply transaction of Managed Services V2: the reconcile     *)
(* unit of modules/nas/config/managed-services-transactions.nix with the   *)
(* Git history of services/nas_v2_history.py, the compile loop of          *)
(* services/nas_v2_entry.py, the level-triggered pending marker, and the   *)
(* rollback that the failed unit or the guard's timer runs.                *)
(*                                                                         *)
(* Each invocation of the unit has its own rollback guard, which behaves   *)
(* as GuardOutcome says.  Actors interleave between any two commands of a  *)
(* script.  A revision is the position of a commit in the branch of HEAD.  *)
(***************************************************************************)
EXTENDS Naturals, Sequences, FiniteSets

CONSTANTS
    Docs,         \* contents services.yaml may have
    Base,         \* the empty document: seed and bootstrap baseline
    Unbuildable,  \* documents that do not compile
    Unrunnable,   \* documents whose native projection fails
    Attempts,     \* compile attempts of one invocation: 3 in the code
    MaxRuns,      \* bound on invocations of the reconcile unit
    MaxRequests,  \* bound on edits and on starts of the unit by others
    MaxFaults,    \* bound on failing or wedged commands, killed rollbacks, reboots
    MaxEvents     \* bound on both together

ASSUME ReconcileAssumption ==
    /\ Base \in Docs
    /\ Unbuildable \subseteq Docs \ {Base}
    /\ Unrunnable \subseteq Docs \ {Base}
    /\ Attempts \in Nat \ {0}
    /\ MaxRuns \in Nat /\ MaxRequests \in Nat /\ MaxFaults \in Nat
    /\ MaxEvents \in Nat

VARIABLES
    file,       \* content of services.yaml
    log,        \* contents of the commits of HEAD, oldest first
    applied,    \* refs/nas/applied, 0 if there is none
    previous,   \* refs/nas/previous-applied, 0 if there is none
    native,     \* revision the network, the firewall, the units and Caddy follow
    mixed,      \* they follow parts of more than one
    current,    \* revision of the generation selected by /run/nas-control/current
    planLink,   \* /run/nas-control/plan.json exists and leads through current
    pending,    \* reconcile.pending exists
    dirty,      \* a change of services.yaml the dirty unit has yet to mark
    wanted,     \* the start of the unit at boot is queued
    unit,       \* the reconcile unit: where its scripts are, or how they ended
    run,        \* number of its current or last invocation
    target,     \* revision the invocation works on
    old,        \* refs/nas/applied as mark-applied read it
    attempt,    \* compile attempts left
    lost,       \* invocations that failed or were stopped
    guardFile,  \* invocation named by current-guard-unit, 0 if the file is missing
    guard,      \* durable guard record of each invocation
    timers,     \* invocations whose rollback timer is running
    committed,  \* history: last revision whose guard was cancelled
    roll,       \* where the failure handler (0) and each timer's service are
    job,        \* what each of them has found out
    requests,   \* requests so far
    faults      \* faults so far

refs    == <<log, applied, previous>>
runtime == <<native, mixed, current, planLink>>
marks   == <<pending, dirty, wanted>>
unitv   == <<unit, run, target, old, attempt, lost>>
guards  == <<guardFile, guard, timers, committed>>
rolls   == <<roll, job>>
bounds  == <<requests, faults>>
vars    == <<file, refs, runtime, marks, unitv, guards, rolls, bounds>>

Runs    == 1..MaxRuns
Handler == 0
Rollers == 0..MaxRuns

Phases == {"removing", "bootstrapping", "bootstrapping2", "naming", "arming", "recording",
           "compiling", "linking", "switching", "pinning", "projecting", "marking",
           "marking2", "acking", "cancelling", "unnaming", "clearing"}
Ended  == {"inactive", "failed"}

RollPoints == {"idle", "queued", "reading", "claiming", "stopping", "stoppingTimers",
               "identifying", "restoring", "referring", "restarting", "waiting", "unnaming"}

HEAD == Len(log)

(* Guard claimed, revision taken for the failed one, refs/nas/applied as   *)
(* read, revision to go back to, invocation waited for.                    *)
NoJob == [guard |-> 0, failed |-> 0, seen |-> 0, goal |-> 0, run |-> 0]

(* Someone stands between two writes under the authority lock.             *)
Locked == unit = "bootstrapping2" \/ \E r \in Rollers : roll[r] = "referring"

(* The appliance as shipped: seeded, without history, about to start.      *)
Init ==
    /\ file = Base
    /\ log = <<>> /\ applied = 0 /\ previous = 0
    /\ native = 0 /\ mixed = FALSE /\ current = 0 /\ planLink = FALSE
    /\ pending = FALSE /\ dirty = FALSE /\ wanted = TRUE
    /\ unit = "inactive" /\ run = 0 /\ target = 0 /\ old = 0 /\ attempt = 0 /\ lost = {}
    /\ guardFile = 0 /\ guard = [i \in Runs |-> "none"] /\ timers = {} /\ committed = 0
    /\ roll = [r \in Rollers |-> "idle"]
    /\ job = [r \in Rollers |-> NoJob]
    /\ requests = 0 /\ faults = 0

-----------------------------------------------------------------------------
MoreEvents == requests + faults < MaxEvents

(* Edits and the marker.                                                   *)

(* replace_document and set_service_modes, under the authority lock.       *)
Edit(d) ==
    /\ requests < MaxRequests /\ MoreEvents
    /\ ~Locked
    /\ d # file
    /\ file' = d
    /\ dirty' = TRUE
    /\ requests' = requests + 1
    /\ UNCHANGED <<refs, runtime, pending, wanted, unitv, guards, rolls, faults>>

(* nas-managed-services-dirty: PathChanged becomes the marker.             *)
TouchPending ==
    /\ dirty
    /\ dirty' = FALSE
    /\ pending' = TRUE
    /\ UNCHANGED <<file, refs, runtime, wanted, unitv, guards, rolls, bounds>>

-----------------------------------------------------------------------------
(* The reconcile unit.                                                     *)

StartUnit ==
    /\ run < MaxRuns
    /\ run' = run + 1
    /\ unit' = "removing"
    /\ target' = 0 /\ old' = 0 /\ attempt' = Attempts

(* The path unit finds PathExists, again after every end, or a job starts. *)
Start ==
    /\ unit \in Ended
    /\ pending \/ wanted
    /\ wanted' = FALSE
    /\ StartUnit
    /\ UNCHANGED <<file, refs, runtime, pending, dirty, lost, guards, rolls, bounds>>

(* A watched source changed, caddy-bootstrap or an operator starts it; a   *)
(* start of a running unit does nothing.                                   *)
StartRequest ==
    /\ unit \in Ended
    /\ requests < MaxRequests /\ MoreEvents
    /\ requests' = requests + 1
    /\ StartUnit
    /\ UNCHANGED <<file, refs, runtime, marks, lost, guards, rolls, faults>>

Proceed(from, to) == unit = from /\ unit' = to

(* OnFailure starts the handler, unless that is active already.            *)
Notified(r) == IF r[Handler] = "idle" THEN [r EXCEPT ![Handler] = "queued"] ELSE r

FailUnit ==
    /\ unit' = "failed"
    /\ lost' = lost \cup {run}
    /\ roll' = Notified(roll)

RemovePlan ==
    /\ Proceed("removing", "bootstrapping")
    /\ planLink' = FALSE
    /\ UNCHANGED <<file, refs, native, mixed, current, marks, run, target, old, attempt, lost, guards, rolls, bounds>>

(* _bootstrap_baseline_locked: the branch first, then refs/nas/applied.    *)
BootstrapHead ==
    /\ unit = "bootstrapping"
    /\ ~Locked
    /\ \/ applied # 0 /\ unit' = "naming" /\ UNCHANGED <<log, roll, lost>>
       \/ applied = 0 /\ log = <<>> /\ log' = <<Base>> /\ unit' = "bootstrapping2" /\ UNCHANGED <<roll, lost>>
       \/ applied = 0 /\ log # <<>> /\ FailUnit /\ UNCHANGED log
    /\ UNCHANGED <<file, applied, previous, runtime, marks, run, target, old, attempt,
                   guards, job, bounds>>

BootstrapApplied ==
    /\ Proceed("bootstrapping2", "naming")
    /\ applied' = HEAD
    /\ UNCHANGED <<file, log, previous, runtime, marks, run, target, old, attempt, lost, guards, rolls, bounds>>

NameGuard ==
    /\ Proceed("naming", "arming")
    /\ guardFile' = run
    /\ UNCHANGED <<file, refs, runtime, marks, run, target, old, attempt, lost, guard, timers, rolls, bounds, committed>>

(* nas_guarded_apply arm; a guard that a rollback has claimed is refused.  *)
ArmGuard ==
    /\ unit = "arming"
    /\ IF guard[run] = "none"
         THEN /\ unit' = "recording"
              /\ guard' = [guard EXCEPT ![run] = "armed"]
              /\ timers' = timers \cup {run}
              /\ UNCHANGED <<roll, lost>>
         ELSE FailUnit /\ UNCHANGED <<guard, timers>>
    /\ UNCHANGED <<file, refs, runtime, marks, run, target, old, attempt, guardFile,
                   job, bounds, committed>>

(* record_desired_locked: commit the file unless HEAD already has it.      *)
Committed == IF log # <<>> /\ log[HEAD] = file THEN log ELSE Append(log, file)

Record ==
    /\ Proceed("recording", "compiling")
    /\ ~Locked
    /\ log' = Committed
    /\ target' = Len(Committed)
    /\ UNCHANGED <<file, applied, previous, runtime, marks, run, old, attempt, lost, guards, rolls, bounds>>

(* apply records again under the lock and compiles what it recorded; a     *)
(* revision other than the one allocated for is discarded and retried.     *)
Compile ==
    /\ unit = "compiling"
    /\ ~Locked
    /\ log' = Committed
    /\ attempt' = attempt - 1
    /\ \/ /\ file \notin Unbuildable
          /\ Len(Committed) = target
          /\ unit' = "linking" /\ UNCHANGED <<roll, lost>>
       \/ /\ file \notin Unbuildable
          /\ Len(Committed) # target
          /\ IF attempt > 1 THEN unit' = "recording" /\ UNCHANGED <<roll, lost>> ELSE FailUnit
       \/ file \in Unbuildable /\ FailUnit
    /\ UNCHANGED <<file, applied, previous, runtime, marks, run, target, old, guards, job, bounds>>

(* publish_generation: the stable links first, the current link last.      *)
LinkPlan ==
    /\ Proceed("linking", "switching")
    /\ planLink' = TRUE
    /\ UNCHANGED <<file, refs, native, mixed, current, marks, run, target, old, attempt, lost, guards, rolls, bounds>>

SwitchCurrent ==
    /\ Proceed("switching", "pinning")
    /\ current' = target
    /\ UNCHANGED <<file, refs, native, mixed, planLink, marks, run, target, old, attempt, lost, guards, rolls, bounds>>

(* postStart pins the revision of plan.json and begins to change the       *)
(* network, the firewall, the units and Caddy.                             *)
PinRevision ==
    /\ unit = "pinning"
    /\ IF planLink /\ current # 0
         THEN target' = current /\ unit' = "projecting" /\ mixed' = TRUE /\ UNCHANGED <<roll, lost>>
         ELSE FailUnit /\ UNCHANGED <<target, mixed>>
    /\ UNCHANGED <<file, refs, native, current, planLink, marks, run, old, attempt, guards, job, bounds>>

(* Bug variant of Project: a failing projection goes unnoticed.            *)
ProjectUnchecked ==
    /\ Proceed("projecting", "marking")
    /\ native' = target
    /\ mixed' = (log[target] \in Unrunnable)
    /\ UNCHANGED <<file, refs, current, planLink, marks, run, target, old, attempt, lost, guards, rolls, bounds>>

Project ==
    /\ unit = "projecting"
    /\ IF log[target] \in Unrunnable
         THEN FailUnit /\ UNCHANGED <<native, mixed>>
         ELSE unit' = "marking" /\ native' = target /\ mixed' = FALSE /\ UNCHANGED <<roll, lost>>
    /\ UNCHANGED <<file, refs, current, planLink, marks, run, target, old, attempt, guards, job, bounds>>

(* mark_applied takes no lock: previous-applied, then applied if it still  *)
(* is what was read.                                                       *)
MarkPrevious ==
    /\ Proceed("marking", "marking2")
    /\ old' = applied
    /\ previous' = applied
    /\ UNCHANGED <<file, log, applied, runtime, marks, run, target, attempt, lost, guards, rolls, bounds>>

MarkApplied ==
    /\ unit = "marking2"
    /\ IF applied = old
         THEN applied' = target /\ unit' = "acking" /\ UNCHANGED <<roll, lost>>
         ELSE FailUnit /\ UNCHANGED applied
    /\ old' = 0
    /\ UNCHANGED <<file, log, previous, runtime, marks, run, target, attempt, guards, job, bounds>>

(* Bug variant of AckPending: the marker goes whatever the file says.      *)
AckPendingAlways ==
    /\ Proceed("acking", "cancelling")
    /\ ~Locked
    /\ pending' = FALSE
    /\ UNCHANGED <<file, refs, runtime, dirty, wanted, run, target, old, attempt, lost, guards, rolls, bounds>>

(* acknowledge_pending, under the authority lock.                          *)
AckPending ==
    /\ Proceed("acking", "cancelling")
    /\ ~Locked
    /\ pending' = (pending /\ file # log[target])
    /\ UNCHANGED <<file, refs, runtime, dirty, wanted, run, target, old, attempt, lost, guards, rolls, bounds>>

CancelGuard ==
    /\ unit = "cancelling"
    /\ IF guard[run] = "armed" /\ roll[run] = "idle"
         THEN /\ unit' = "unnaming"
              /\ guard' = [guard EXCEPT ![run] = "cancelled"]
              /\ timers' = timers \ {run}
              /\ committed' = target
              /\ UNCHANGED <<roll, lost>>
         ELSE FailUnit /\ UNCHANGED <<guard, timers, committed>>
    /\ UNCHANGED <<file, refs, runtime, marks, run, target, old, attempt, guardFile,
                   job, bounds>>

UnnameGuard ==
    /\ Proceed("unnaming", "clearing")
    /\ guardFile' = 0
    /\ UNCHANGED <<file, refs, runtime, marks, run, target, old, attempt, lost, guard, timers, rolls, bounds, committed>>

ClearPrevious ==
    /\ Proceed("clearing", "inactive")
    /\ previous' = 0
    /\ UNCHANGED <<file, log, applied, runtime, marks, run, target, old, attempt, lost, guards, rolls, bounds>>

(* Any command of the unit may fail, before it changed anything.           *)
CommandFails ==
    /\ unit \in Phases
    /\ faults < MaxFaults /\ MoreEvents
    /\ faults' = faults + 1
    /\ FailUnit
    /\ UNCHANGED <<file, refs, runtime, marks, run, target, old, attempt, guards, job, requests>>

UnitStep ==
    \/ RemovePlan \/ BootstrapHead \/ BootstrapApplied \/ NameGuard \/ ArmGuard
    \/ Record \/ Compile \/ LinkPlan \/ SwitchCurrent
    \/ PinRevision \/ Project \/ MarkPrevious \/ MarkApplied \/ AckPending
    \/ CancelGuard \/ UnnameGuard \/ ClearPrevious

-----------------------------------------------------------------------------
(* Rollback: the handler of the failed unit, and the services of timers.   *)

GoRoll(r, point) == roll' = [roll EXCEPT ![r] = point]

(* A guard's timer elapses; under a running invocation, it is wedged.      *)
Elapse(i) ==
    /\ i \in timers
    /\ roll[i] = "idle"
    /\ \/ unit \in Ended /\ UNCHANGED faults
       \/ unit \in Phases /\ faults < MaxFaults /\ MoreEvents /\ faults' = faults + 1
    /\ timers' = timers \ {i}
    /\ GoRoll(i, "claiming")
    /\ job' = [job EXCEPT ![i] = [NoJob EXCEPT !.guard = i]]
    /\ UNCHANGED <<file, refs, runtime, marks, unitv, guardFile, guard, requests, committed>>

(* ConditionPathExists of nas-v2-apply-failed.                             *)
HandlerStarts ==
    /\ roll[Handler] = "queued"
    /\ GoRoll(Handler, IF guardFile = 0 THEN "idle" ELSE "reading")
    /\ UNCHANGED <<file, refs, runtime, marks, unitv, guards, job, bounds>>

(* rollbackWithGuard reads the name; without one it rolls back unguarded.  *)
ReadGuardFile ==
    /\ roll[Handler] = "reading"
    /\ job' = [job EXCEPT ![Handler] = [NoJob EXCEPT !.guard = guardFile]]
    /\ GoRoll(Handler, IF guardFile = 0 THEN "stopping" ELSE "claiming")
    /\ UNCHANGED <<file, refs, runtime, marks, unitv, guards, bounds>>

(* A guarded handler still has to remove the name when it is through.      *)
Retire(r) ==
    /\ GoRoll(r, IF r = Handler /\ job[r].guard # 0 THEN "unnaming" ELSE "idle")
    /\ job' = [job EXCEPT ![r] = NoJob]

Outcome(r, state) ==
    guard' = IF job[r].guard = 0 THEN guard ELSE [guard EXCEPT ![job[r].guard] = state]

(* Bug variant of Claim: the outcome is recorded before the rollback ran.  *)
ClaimPremature(r) ==
    /\ roll[r] = "claiming"
    /\ IF guard[job[r].guard] \in {"none", "armed"}
         THEN Outcome(r, "completed") /\ GoRoll(r, "stopping") /\ UNCHANGED job
         ELSE UNCHANGED guard /\ Retire(r)
    /\ UNCHANGED <<file, refs, runtime, marks, unitv, guardFile, timers, bounds, committed>>

(* nas_guarded_apply fired.                                                *)
Claim(r) ==
    /\ roll[r] = "claiming"
    /\ IF guard[job[r].guard] \in {"none", "armed"}
         THEN Outcome(r, "claimed") /\ GoRoll(r, "stopping") /\ UNCHANGED job
         ELSE UNCHANGED guard /\ Retire(r)
    /\ UNCHANGED <<file, refs, runtime, marks, unitv, guardFile, timers, bounds, committed>>

(* systemctl stop of the unit; a oneshot that is killed has failed.        *)
StopUnit(r) ==
    /\ roll[r] = "stopping"
    /\ IF unit \in Phases
         THEN /\ unit' = "failed" /\ lost' = lost \cup {run}
              /\ roll' = Notified([roll EXCEPT ![r] = "stoppingTimers"])
         ELSE UNCHANGED <<unit, lost>> /\ GoRoll(r, "stoppingTimers")
    /\ UNCHANGED <<file, refs, runtime, marks, run, target, old, attempt, guards, job, bounds>>

StopTimers(r) ==
    /\ roll[r] = "stoppingTimers"
    /\ timers' = {}
    /\ GoRoll(r, "identifying")
    /\ UNCHANGED <<file, refs, runtime, marks, unitv, guardFile, guard, job, bounds, committed>>

(* The revision that plan.json leads to, 0 if it leads nowhere.            *)
PlanRevision == IF planLink THEN current ELSE 0

Identify(r) ==
    /\ roll[r] = "identifying"
    /\ job' = [job EXCEPT ![r].failed = IF PlanRevision # 0 THEN PlanRevision ELSE HEAD]
    /\ GoRoll(r, "restoring")
    /\ UNCHANGED <<file, refs, runtime, marks, unitv, guards, bounds>>

(* restore_applied: superseded when the file is no longer the failed one.  *)
Superseded(r) == job[r].failed # 0 /\ log[job[r].failed] # file

(* The revision to go back to, 0 when there is none.                       *)
RollbackTarget(r) ==
    IF applied # job[r].failed THEN applied
    ELSE IF previous # 0 THEN previous
    ELSE IF applied # 0 /\ log[applied] = Base THEN applied
    ELSE 0

LeaveAlone(r) ==
    /\ roll[r] = "restoring" /\ ~Locked
    /\ applied # 0 /\ Superseded(r)
    /\ GoRoll(r, "restarting")
    /\ UNCHANGED <<file, refs, runtime, marks, unitv, guards, job, bounds>>

Restore(r) ==
    /\ roll[r] = "restoring" /\ ~Locked
    /\ applied # 0 /\ ~Superseded(r) /\ RollbackTarget(r) # 0
    /\ file' = log[RollbackTarget(r)]
    /\ dirty' = (dirty \/ file' # file)
    /\ log' = IF log[HEAD] = file' THEN log ELSE Append(log, file')
    /\ job' = [job EXCEPT ![r].seen = applied, ![r].goal = RollbackTarget(r)]
    /\ GoRoll(r, "referring")
    /\ UNCHANGED <<applied, previous, runtime, pending, wanted, unitv, guards, bounds>>

RestoreRefuses(r) ==
    /\ roll[r] = "restoring" /\ ~Locked
    /\ applied = 0 \/ (~Superseded(r) /\ RollbackTarget(r) = 0)
    /\ Outcome(r, "failed")
    /\ Retire(r)
    /\ UNCHANGED <<file, refs, runtime, marks, unitv, guardFile, timers, bounds, committed>>

(* The refs of restore_applied, under the same lock; applied moves only if *)
(* it still is what was read.                                              *)
RestoreRefs(r) ==
    /\ roll[r] = "referring"
    /\ IF job[r].goal # job[r].seen /\ applied # job[r].seen
         THEN Outcome(r, "failed") /\ Retire(r) /\ UNCHANGED <<applied, previous>>
         ELSE /\ applied' = IF job[r].goal # job[r].seen THEN job[r].goal ELSE applied
              /\ previous' = 0
              /\ GoRoll(r, "restarting")
              /\ UNCHANGED <<guard, job>>
    /\ UNCHANGED <<file, log, runtime, marks, unitv, guardFile, timers, bounds, committed>>

(* systemctl restart stops a running unit, which then has failed.          *)
Restart(r) ==
    /\ roll[r] = "restarting"
    /\ StartUnit
    /\ wanted' = FALSE
    /\ lost' = IF unit \in Phases THEN lost \cup {run} ELSE lost
    /\ job' = [job EXCEPT ![r].run = run']
    /\ LET waits == [roll EXCEPT ![r] = "waiting"]
       IN roll' = IF unit \in Phases THEN Notified(waits) ELSE waits
    /\ UNCHANGED <<file, refs, runtime, pending, dirty, guards, bounds>>

(* Bug variant of Settle: the result of the restart is not looked at.      *)
SettleUnchecked(r) ==
    /\ roll[r] = "waiting"
    /\ run > job[r].run \/ unit \in Ended
    /\ Outcome(r, "completed")
    /\ Retire(r)
    /\ UNCHANGED <<file, refs, runtime, marks, unitv, guardFile, timers, bounds, committed>>

(* restart returns when the invocation it started has ended, with its      *)
(* result: one that was stopped or made way for another has failed.        *)
Settle(r) ==
    /\ roll[r] = "waiting"
    /\ run > job[r].run \/ unit \in Ended
    /\ Outcome(r, IF job[r].run \in lost THEN "failed" ELSE "completed")
    /\ Retire(r)
    /\ UNCHANGED <<file, refs, runtime, marks, unitv, guardFile, timers, bounds, committed>>

(* rollbackWithGuard removes the name, whoever wrote it.                   *)
HandlerEnds ==
    /\ roll[Handler] = "unnaming"
    /\ guardFile' = 0
    /\ GoRoll(Handler, "idle")
    /\ UNCHANGED <<file, refs, runtime, marks, unitv, guard, timers, job, bounds, committed>>

(* A rollback is killed: its guard stays claimed.                          *)
RollDies(r) ==
    /\ roll[r] \notin {"idle", "queued"}
    /\ faults < MaxFaults /\ MoreEvents
    /\ faults' = faults + 1
    /\ GoRoll(r, "idle")
    /\ job' = [job EXCEPT ![r] = NoJob]
    /\ UNCHANGED <<file, refs, runtime, marks, unitv, guards, requests>>

RollStep(r) ==
    \/ Claim(r) \/ StopUnit(r) \/ StopTimers(r) \/ Identify(r)
    \/ LeaveAlone(r) \/ Restore(r) \/ RestoreRefuses(r) \/ RestoreRefs(r)
    \/ Restart(r) \/ Settle(r)

HandlerStep == HandlerStarts \/ ReadGuardFile \/ HandlerEnds

-----------------------------------------------------------------------------
(* Power loss: services.yaml and its history are on disk, the rest is in   *)
(* /run and memory; boot starts the unit.                                  *)
Reboot ==
    /\ faults < MaxFaults /\ MoreEvents
    /\ faults' = faults + 1
    /\ native' = 0 /\ mixed' = FALSE /\ current' = 0 /\ planLink' = FALSE
    /\ pending' = FALSE /\ dirty' = FALSE /\ wanted' = TRUE
    /\ unit' = "inactive" /\ lost' = {}
    /\ guardFile' = 0 /\ guard' = [i \in Runs |-> "none"] /\ timers' = {}
    /\ roll' = [r \in Rollers |-> "idle"]
    /\ job' = [r \in Rollers |-> NoJob]
    /\ UNCHANGED <<file, refs, run, target, old, attempt, requests, committed>>

Next ==
    \/ \E d \in Docs : Edit(d)
    \/ TouchPending \/ Start \/ StartRequest \/ UnitStep \/ CommandFails
    \/ \E i \in Runs : Elapse(i)
    \/ HandlerStep
    \/ \E r \in Rollers : RollStep(r) \/ RollDies(r)
    \/ Reboot

Spec == Init /\ [][Next]_vars

-----------------------------------------------------------------------------
(* Properties.                                                             *)

Revisions == 0..Len(log)

TypeOK ==
    /\ file \in Docs
    /\ log \in Seq(Docs)
    /\ {applied, previous, native, current, target, old, committed} \subseteq Revisions
    /\ {mixed, planLink, pending, dirty, wanted} \subseteq BOOLEAN
    /\ unit \in Phases \cup Ended
    /\ run \in 0..MaxRuns /\ lost \subseteq Runs /\ attempt \in 0..Attempts
    /\ guardFile \in 0..MaxRuns
    /\ guard \in [Runs -> {"none", "armed", "claimed", "completed", "failed", "cancelled"}]
    /\ timers \subseteq Runs
    /\ roll \in [Rollers -> RollPoints]

(* Nothing is running and nothing is left that would start anything.       *)
Quiet ==
    /\ unit \in Ended
    /\ ~pending /\ ~dirty /\ ~wanted
    /\ timers = {}
    /\ \A r \in Rollers : roll[r] = "idle"

(* A guard record shows neither a commit nor a completed rollback.         *)
Unsettled(i) == guard[i] \in {"armed", "claimed", "failed"}
Reported == \E i \in Runs : Unsettled(i)

(* An edit is never lost: once nothing is running or queued after a         *)
(* successful run, the appliance runs the document that is in the file.      *)
NoLostEdit == Quiet /\ unit = "inactive" => ~mixed /\ native # 0 /\ log[native] = file

(* A half-projected runtime is left behind only by an invocation that failed, *)
(* and a guard record says so: no rollback has been recorded as completed, and *)
(* no guard cancelled, for everything that could have repaired it.             *)
NoneLeftMixed == Quiet /\ mixed => unit = "failed" /\ Reported

(* Every rollback target has been built and projected once: a rollback never *)
(* goes back to a document that fails.                                       *)
RollbackTargetsWork ==
    \A c \in {applied, previous} \ {0} : log[c] \notin Unbuildable \cup Unrunnable

(* A document that an invocation has recorded and that cannot be applied does *)
(* not stay desired in silence: the last invocation has failed, and its own    *)
(* guard record is not settled, or it failed before it had a guard.            *)
FailingEditUndone ==
    Quiet /\ log # <<>> /\ log[HEAD] = file /\ file \in Unbuildable \cup Unrunnable
        => unit = "failed" /\ (Unsettled(run) \/ guard[run] = "none")

(* A revision whose guard was cancelled is not rolled back any more:         *)
(* restore_applied goes back to the last applied revision, not past it.      *)
CommittedStays == applied >= committed

(* History without an applied revision is unreachable, whenever the          *)
(* appliance loses power: the bootstrap creates both refs.                   *)
BootstrapComplete == log # <<>> /\ ~Locked => applied # 0

=============================================================================
