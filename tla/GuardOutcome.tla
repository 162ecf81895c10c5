---------------------------- MODULE GuardOutcome ----------------------------
(***************************************************************************)
(* What the rollback guard of services/nas_guarded_apply.py promises about *)
(* one guard unit: "Exactly one outcome wins: armed, claimed, completed,   *)
(* failed, cancelled, or collected."  Every change is one atomic step, and *)
(* the rollback command starts only in the step that claims the guard.     *)
(***************************************************************************)

VARIABLES
    record,     \* the outcome in the durable record; "none" without a record
    running     \* the rollback command is running

vars == <<record, running>>

Outcomes == {"none", "armed", "claimed", "completed", "failed", "cancelled", "collected"}

(* An outcome nobody has to settle any more: the unit may be armed again.  *)
Reusable == {"none", "cancelled", "collected"}
Settled  == {"completed", "failed", "cancelled"}

Init == record = "none" /\ running = FALSE

Arm     == record \in Reusable /\ ~running /\ record' = "armed" /\ UNCHANGED running
Disarm  == record = "armed" /\ record' = "none" /\ UNCHANGED running
Cancel  == record = "armed" /\ record' = "cancelled" /\ UNCHANGED running
Spoil   == record = "armed" /\ record' = "failed" /\ UNCHANGED running
Claim   == record \in {"none", "armed"} /\ ~running /\ record' = "claimed" /\ running' = TRUE
Settle  == record = "claimed" /\ running /\ record' \in {"completed", "failed"} /\ running' = FALSE
Abandon == record = "claimed" /\ running /\ running' = FALSE /\ UNCHANGED record
Collect == record \in Settled /\ record' = "collected" /\ UNCHANGED running

Next == Arm \/ Disarm \/ Cancel \/ Spoil \/ Claim \/ Settle \/ Abandon \/ Collect

Spec == Init /\ [][Next]_vars

=============================================================================
