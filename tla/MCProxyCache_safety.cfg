SPECIFICATION FairSpec
CONSTANTS
    Clients = {c1, c2}
    Keys <- ThreeKeys
    FileOf <- OwnFiles
    MetaOf <- OwnMetas
    HostOf <- TwoHosts
    Methods = {"GET", "POST"}
    Parts = 2
    MayBreak = TRUE
    MayFail = TRUE
    MaxStops = 1
INVARIANTS
    IInv
    FilesAreFetched
    OnlySuccessCached
    ServedOwnKey
PROPERTY Answered
CHECK_DEADLOCK FALSE
