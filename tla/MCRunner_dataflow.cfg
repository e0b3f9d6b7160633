SPECIFICATION MCSpec
CHECK_DEADLOCK FALSE
INVARIANTS
    ReplayVerdict
    DataflowSemantics
    FailFast
    EventsAgree
PROPERTIES
    RunTerminates
CONSTANTS
    MissingChoices <- MCMissing
    MaxReplayed = 1
    a = a
    b = b
    c = c
    MaxEdges = 4
    NodeOrder <- Order3
    Absent = Absent
    Ports <- MCPorts
    PortOrder <- MCPortOrder
    Values <- MCValues
    OutputChoices <- MCOutputs
    Openings <- SmallOpenings
    MaxAttempts <- Twice
    NodeTimeout <- NoTimeouts
    PolicyTimeout = 0
    DefaultTimeout = 1
    Success <- SuccessOfLast
    MaxTime = 0
