SPECIFICATION FairSpec
CONSTANTS
    Names <- ChainNames
    Refers <- Chain
    Question = "www"
    LongNames = {"long"}
    Types = {"AAAA", "CNAME"}
    MAX_ITERATIONS = 7
    MAX_SERVER_TRIES = 2
    MAX_TOTAL_FAILURES = 5
    Roots = 4
    MaxRecords = 2
    MaxDepth = 3
    MayFail = TRUE
INVARIANTS
    IInv
    ResultsOfQuestion
    TriesBounded
PROPERTY Terminates
CHECK_DEADLOCK FALSE
