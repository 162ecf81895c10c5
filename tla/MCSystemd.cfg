\* One service beside one session.
CONSTANTS
    s1 = s1  x1 = x1
    Services <- MCService
    Sessions <- MCSession
    MaxContent = 2
    Manifests <- MCManifests
    Retain = 2
    MaxGen = 3
    MaxFaults = 2
SPECIFICATION Spec
INVARIANTS LinksMatch RecordedIsLive FailureRestores
CHECK_DEADLOCK FALSE
