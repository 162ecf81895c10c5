SPECIFICATION Spec
CONSTANTS
    Clients = {c1, c2}
    Nobody = Nobody
    Applier = Applier
    Fold <- MCFold
    Reserved = "outpost"
    Refusals = {".."}
    LanHost = "nas"
    First <- MCFirst
    Candidates <- MCCandidates
    ModeRequests <- MCModeRequests
    Inventories <- MCInventories
    MaxEdits = 2
    MaxFaults = 1
SYMMETRY Symmetric
INVARIANTS
    BundleWhole
    StatusTruthful
PROPERTIES
    OthersKept
CHECK_DEADLOCK FALSE
