------------------------- MODULE MCOperationLock -------------------------
(* Instances of OperationLock for TLC: three processes are enough for an   *)
(* owner, a child of it and a competitor.                                  *)
EXTENDS OperationLock

CONSTANTS p1, p2, p3, appliance, runtime

MCProcs == {p1, p2, p3}
MCClasses == {appliance, runtime}
=============================================================================
