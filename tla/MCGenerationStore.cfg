\* The unit beside a publisher of an operator: what they leave behind.
CONSTANTS
    p1 = p1  p2 = p2
    Procs <- MCPair
    NoDir = NoDir
    Attempts = 2
    Retain = 1
    MaxIndex = 3
    MaxRevisions = 2
    MaxStarts = 4
    MaxFailures = 1
SPECIFICATION StoreSpec
SYMMETRY ProcSymmetry
INVARIANT PublicationSound
CHECK_DEADLOCK FALSE
