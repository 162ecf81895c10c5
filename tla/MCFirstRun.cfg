SPECIFICATION FairSpec
CONSTANTS
    Plans = {"p", "q"}
    Optional <- MCOptional
    MaxFaults = 3
INVARIANTS
    KeyKept
    CompletionHonest
    NeverLockedOut

    
CHECK_DEADLOCK FALSE
