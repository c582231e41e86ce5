SPECIFICATION FairSpec
CONSTANTS
    FileLen = 1
    Window = 1
    SeqMod = 8
    Addrs = {a1}
    NoPeer = NoPeer
PROPERTY SenderCompletes
CHECK_DEADLOCK FALSE
