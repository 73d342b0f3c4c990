SPECIFICATION Spec
CONSTANTS
    r1 = r1
    r2 = r2
    t1 = t1
    t2 = t2
    NoProc = NoProc
    Requests <- TwoRequests
    Tasks <- OneTask
    Plans <- GatePlans
    Ops <- GateOps
    MaxCalls = 3
    MaxFaults = 0
    MaxCrashes = 0
SYMMETRY Symmetric
VIEW LiveView
INVARIANTS
    TypeOK
    NodeInputsPresent
    ContentOnlyAfterAcceptance
    NoStrandedRun
PROPERTIES
    CompletedIsFinal
    ImplementsReviewedRun
CHECK_DEADLOCK FALSE
