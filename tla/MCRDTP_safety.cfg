SPECIFICATION FairSpec
CONSTANTS
    FileLen = 3
    Window = 2
    SeqMod = 8
    Addrs = {a1, a2}
    NoPeer = NoPeer
INVARIANTS
    PrefixDelivered
    WindowHoldsUnacked
    DoneMeansDelivered
    IInv
PROPERTIES
    ImplementsReliableTransfer
    AcksNeverGoBack
    ReceiverCompletes
CHECK_DEADLOCK FALSE
