SPECIFICATION Spec
CONSTANTS
    Family = "matches"
    MaxDepth = 5
    CallRegs = 2
    MethodRegs = 1
    Budget = 100
    Quota = 4
    Functions <- MCFunctions
    Chunks <- MCChunks
    Entry <- MCEntry
INVARIANTS
    MatchPicksArm
CHECK_DEADLOCK FALSE
