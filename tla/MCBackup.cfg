SPECIFICATION FairSpec
CONSTANTS
    Resources = {1, 2, 3}
    Documents <- MCDocuments
    Nowhere = Nowhere
    p = p
    q = q
    z = z
    s = s
    t = t
    MaxFaults = 3
INVARIANTS
    NothingUnrecorded
    CompletedVerifies
PROPERTY
    ComesClean
