-------------------------- MODULE OperationJournal --------------------------
(***************************************************************************)
(* The durable step journal (services/nas_operation_journal.py) that the   *)
(* first-run setup and the account plan resume from.  A journal is a value *)
(* - every method ends in save(), one atomic, synced replacement of the    *)
(* file - so each operator maps the file's content to its next content.    *)
(* Timestamps, messages, metadata and step results are left out, the       *)
(* workflow and schema version too: one journal file serves one workflow.  *)
(***************************************************************************)
CONSTANTS
    Steps,          \* the names of the workflow's steps
    NoStep          \* the current step when there is none

Statuses == {"pending", "resuming", "running", "failed", "reconciled",
             "manual-recovery-required", "complete", "cancelled"}

StepStatuses ==
    {"none", "running", "complete", "failed", "manual-recovery-required"}

NoJournal == [status |-> "absent"]

\* The journal records over a set of fingerprints.
Journals(fingerprints) ==
    [status : Statuses, fingerprint : fingerprints,
     steps : [Steps -> StepStatuses], current : Steps \cup {NoStep}]

Finished(j) == j.status \in {"absent", "complete", "cancelled"}

\* OperationJournal.open: an unfinished journal is only resumed by the same
\* operation, and never while it waits for an acknowledgement.
CanOpen(j, fingerprint) ==
    IF Finished(j) THEN TRUE
    ELSE j.fingerprint = fingerprint /\ j.status # "manual-recovery-required"

Open(j, fingerprint) ==
    IF Finished(j)
    THEN [status |-> "pending", fingerprint |-> fingerprint,
          steps |-> [s \in Steps |-> "none"], current |-> NoStep]
    ELSE [j EXCEPT !.status = "resuming"]

\* acknowledge_manual_recovery.
CanAcknowledge(j) == j.status = "manual-recovery-required"

Acknowledged(j) == [j EXCEPT !.status = "reconciled"]

\* complete_verified_recovery_step.
AwaitsRecoveryOf(j, step) ==
    /\ j.status = "manual-recovery-required"
    /\ j.current = step
    /\ j.steps[step] = "failed"

RecoveredStep(j, step, fingerprint) ==
    [j EXCEPT !.steps[step] = "complete", !.current = NoStep,
              !.status = "reconciled", !.fingerprint = fingerprint]

StepComplete(j, step) == j.status # "absent" /\ j.steps[step] = "complete"

StartStep(j, step) ==
    [j EXCEPT !.steps[step] = "running", !.status = "running", !.current = step]

CompleteStep(j, step) ==
    [j EXCEPT !.steps[step] = "complete", !.current = NoStep]

FailStep(j, step, manual) ==
    [j EXCEPT !.steps[step] = "failed", !.current = step,
              !.status = IF manual THEN "manual-recovery-required" ELSE "failed"]

\* fail: the operation fails outside any step.
Fail(j, manual) ==
    [j EXCEPT !.status = IF manual THEN "manual-recovery-required" ELSE "failed"]

Complete(j) == [j EXCEPT !.status = "complete", !.current = NoStep]
=============================================================================
