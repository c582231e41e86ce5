SPECIFICATION FairSpec
CONSTANTS
    Replies <- FewReplies
    Domains <- ShortDomains
    Base = 32
    Ptr = 30
    Letters = {1, 2}
    MAX_JUMPS = 3
    MaxLabel = 2
    MaxDomain = 3
    AddressLen <- Lengths
INVARIANTS
    IInv
    ParsesWhatIsMeant
    QueryAsksDomain
PROPERTY ParsingEnds
CHECK_DEADLOCK FALSE
