\* Three operations, two writes, two faults: every failure path of a restore,
\* the rollback it leads to, and a fault in the rollback as well.
CONSTANTS
    Registry <- MCRegistry
    Databases <- MCDatabases
    Optional <- MCOptional
    Sensitive <- MCSensitive
    RestoreUnits <- MCRestore
    QuiesceUnits <- MCQuiesce
    Postgres = "postgres"
    Owner <- MCOwner
    RetainCount = 1
    MaxOps = 3
    MaxWrites = 2
    MaxFaults = 2
SPECIFICATION Spec
CHECK_DEADLOCK FALSE
INVARIANTS
    ExportConsistent
    CommittedHolds
    FailedRestoreUndone
    RollbackKept
