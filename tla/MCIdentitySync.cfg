SPECIFICATION Spec
CONSTANTS
    Accounts = {"a", "b"}
    FirstUsers = {"a"}
    Passwords = {"x", "y"}
    Plans <- MCPlans
    Attempts = 2
    MaxFaults = 2
    MaxEdits = 1
    MaxCommands = 3
INVARIANTS
    CancelCertain
    RollbackExact
    OwnedTracked
    SyncResumable
PROPERTIES
    AdminRemains
    DoneAsPlanned
CHECK_DEADLOCK FALSE
