--------------------------- MODULE MCGuardedApply ---------------------------
(* Instances of GuardedApply for TLC: two command line processes beside    *)
(* the service, so that each pair of commands meets the timer.             *)
EXTENDS GuardedApply

CONSTANTS p1, p2

MCProcs == {p1, p2}
=============================================================================
