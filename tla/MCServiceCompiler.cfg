SPECIFICATION CompilerSpec
CONSTANTS
    Fold <- MCFold
    Reserved = "outpost"
    Refusals = {".."}
    LanHost = "nas"
    Graphs <- MCGraphs
    Sites <- MCSites
    Requests <- MCRequests
    Ports <- MCPorts
    Hosts <- MCHosts
INVARIANTS
    UnitsOrdered
    DisabledStaysDown
    RoutesReachable
    RoutePortsExclusive
    RoutesOpen
    GpusDistinct
CHECK_DEADLOCK FALSE
