SPECIFICATION Spec
CONSTANTS
    Names <- LoopNames
    Refers <- Loop
    Question = "a"
    LongNames = {}
    Types = {"A"}
    MAX_ITERATIONS = 7
    MAX_SERVER_TRIES = 2
    MAX_TOTAL_FAILURES = 5
    Roots = 1
    MaxRecords = 1
    MaxDepth = 8
    MayFail = FALSE
INVARIANT IterationsLimited
CHECK_DEADLOCK FALSE
