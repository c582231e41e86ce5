SPECIFICATION Spec
CONSTANTS
    Clients = {c1, c2, c3}
    Keys <- OneKey
    FileOf <- OneFile
    MetaOf <- OneMetaOf
    HostOf <- OneHost
    Methods = {"GET"}
    Parts = 2
    MayBreak = FALSE
    MayFail = FALSE
    MaxStops = 0
SYMMETRY ClientSymmetry
INVARIANT HitIsOneResponse
CHECK_DEADLOCK FALSE
