CONSTANTS
    Limit = 8
    NWindows = 4
    Never = {4}
    Scenarios <- MCScenarios
    Spots <- MCSpots
    MonitorLists <- MCMonitorLists
    Away <- MCAway
SPECIFICATION Spec
INVARIANTS
    Reachable
    StaysPut
    Accounted
    Placed
    BringsBack
PROPERTIES
    Untouched
