SPECIFICATION FairExchange
CONSTANTS
    c1 = c1
    c2 = c2
    Clients = {c1, c2}
    Inputs <- FewInputs
INVARIANTS
    ExchangeTypeOK
    ShutdownIsAskedFor
PROPERTIES
    OutOfRangeShutsDown
    ClientsEnd
CHECK_DEADLOCK FALSE
