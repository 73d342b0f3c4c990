SPECIFICATION Spec
CONSTANTS
    r1 = r1
    r2 = r2
    t1 = t1
    t2 = t2
    NoProc = NoProc
    Requests <- OneRequest
    Tasks <- OneTask
    Plans <- GatePlans
    Ops <- GateOps
    MaxCalls = 2
    MaxFaults = 0
    MaxCrashes = 0
SYMMETRY Symmetric
VIEW LiveView
INVARIANT FactCheckBeforeCompleted
CHECK_DEADLOCK FALSE
