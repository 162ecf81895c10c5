\* An owner, a nested worker and a competitor; one of them may be killed.  No
\* symmetry: TLC's liveness check is not sound under it.
CONSTANTS
    p1 = p1  p2 = p2  p3 = p3
    appliance = appliance  runtime = runtime
    Procs <- MCProcs
    Classes <- MCClasses
    Appliance = appliance
    NoProc = NoProc
    MaxTokens = 2
    MaxCrashes = 1
SPECIFICATION LockFairSpec
INVARIANTS OneOperation MetadataTruthful
PROPERTY LockReleased
