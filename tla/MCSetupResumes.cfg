SPECIFICATION InterruptedSpec
CONSTANTS
    Plans = {"p", "q"}
    Optional <- MCOptional
    MaxFaults = 1
PROPERTY
    SetupResumes
CHECK_DEADLOCK FALSE
