SPECIFICATION Spec
CONSTANTS
    Callees <- MCCallees
    MaxCCalls = 3
    ExtraCCalls = 1
    MaxCalls = 3
    BasicCI = 2
    MinStack = 5
    Extra = 5
    Handlers = {"none", "ok"}
    MaxSize = 40
    MaxWork = 4
    MaxFails = 1
    MaxUdata = 1
    Reused = FALSE
CHECK_DEADLOCK FALSE
INVARIANTS
    FramesMatch
    CCallsCount
    YieldUnwinds
    UpvalsOwned
    
