SPECIFICATION FairSpec
CONSTANTS
    r1 = r1
    r2 = r2
    t1 = t1
    t2 = t2
    NoProc = NoProc
    Requests <- OneRequest
    Tasks <- OneTask
    Plans <- EveryPlan
    Ops <- PauseAndGates
    MaxCalls = 2
    MaxFaults = 0
    MaxCrashes = 0
INVARIANT PauseReachesGraph
PROPERTIES
    DrivesEnd
    RequestsAnswered
CHECK_DEADLOCK FALSE
