\* Two callers, the service and the timer; two faults.  No symmetry: TLC's
\* liveness check is not sound under it.
CONSTANTS
    p1 = p1  p2 = p2
    Procs <- MCProcs
    Svc = Svc
    NoProc = NoProc
    MaxFaults = 2
SPECIFICATION FairSpec
INVARIANT ArmedIsTriggered
PROPERTIES OneOutcomeWins GuardSettles
