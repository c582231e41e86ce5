SPECIFICATION FairSpec
CONSTANT Clients = {c1, c2, c3}
INVARIANTS
    IInv
    AtMostOneMoreAccept
PROPERTY NoZombieStays
CHECK_DEADLOCK FALSE
