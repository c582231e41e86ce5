SPECIFICATION FairSpec
CONSTANTS
    c1 = c1
    c2 = c2
    c3 = c3
    Clients = {c1, c2, c3}
    Requests <- FewRequests
    Content <- Site
    Climbing = {"/a..b"}
    MaxFds = 2
INVARIANTS
    IInv
    AnswerFits
    LostHasReason
PROPERTY Answered
CHECK_DEADLOCK FALSE
