\* Two edits or starts race the transaction and its rollback, with documents
\* that do not build or run; one edit meets two faults, so that the rollback
\* itself fails or dies.
CONSTANTS
    base = base  good = good  unbuildable = unbuildable  unrunnable = unrunnable
    Docs <- MCDocs
    Base = base
    Unbuildable <- MCUnbuildable
    Unrunnable <- MCUnrunnable
    Attempts = 2
    MaxRuns = 2
    MaxRequests = 2
    MaxFaults = 2
    MaxEvents = 3
SPECIFICATION Spec
INVARIANTS NoLostEdit RollbackTargetsWork NoneLeftMixed FailingEditUndone
CHECK_DEADLOCK FALSE
