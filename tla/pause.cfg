SPECIFICATION Spec
CONSTANTS
    r1 = r1
    r2 = r2
    t1 = t1
    t2 = t2
    NoProc = NoProc
    Requests <- TwoRequests
    Tasks <- TwoTasks
    Plans <- PausePlans
    Ops <- PauseAndAccept
    MaxCalls = 2
    MaxFaults = 2
    MaxCrashes = 1
SYMMETRY Symmetric
VIEW LiveView
INVARIANTS
    OneNodeAtATime
    PauseStopsTheDrive
CHECK_DEADLOCK FALSE
