SPECIFICATION Spec
CONSTANTS
    r1 = r1
    r2 = r2
    t1 = t1
    t2 = t2
    NoProc = NoProc
    Requests <- OneRequest
    Tasks <- TwoTasks
    Plans <- PausePlans
    Ops <- PauseOps
    MaxCalls = 2
    MaxFaults = 0
    MaxCrashes = 0
SYMMETRY Symmetric
VIEW LiveView
INVARIANT NoStrandedRun
CHECK_DEADLOCK FALSE
