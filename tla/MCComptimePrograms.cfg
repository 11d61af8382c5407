SPECIFICATION FairSpec
CONSTANTS
    Family = "programs"
    MaxDepth = 5
    CallRegs = 2
    MethodRegs = 1
    Budget = 401
    Quota = 6
    Functions <- MCFunctions
    Chunks <- MCChunks
    Entry <- MCEntry
INVARIANTS
    RegisterWindows
    CompiledMeansSource
PROPERTIES
    CallersUntouched
    Terminates
CHECK_DEADLOCK FALSE
