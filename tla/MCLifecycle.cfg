CONSTANTS
    MaxProcs = 3
    MaxIncidents = 6
    MaxQueue = 1
SPECIFICATION LifeSpec
CHECK_DEADLOCK FALSE
INVARIANTS
    OneRunning
    NoGhostIcon
    HandoverClean
PROPERTIES
    IconReturns
    QuitEnds
