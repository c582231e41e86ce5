SPECIFICATION Spec
CONSTANTS
    Clients = {c1, c2}
    Count = 2
    Timeout = 1
    Interval = 1
    Second = 2
    Delays = {0, 2}
    HeartbeatTimeout = 1
    MaxTime = 6
    MaxStrays = 1
SYMMETRY ClientSymmetry
INVARIANTS
    IInv
    RttOfItsPing
    ReportedInTime
    DeadIsSilent
CHECK_DEADLOCK FALSE
