---------------------------- MODULE MCReconcile ----------------------------
(* Instances of ReconcileTransaction for TLC.                              *)
EXTENDS ReconcileTransaction

CONSTANTS base, good, unbuildable, unrunnable

MCDocs == {base, good, unbuildable, unrunnable}
MCWorking == {base, good}
MCNone == {}
MCUnbuildable == {unbuildable}
MCUnrunnable == {unrunnable}
=============================================================================
