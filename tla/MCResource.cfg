SPECIFICATION Spec
CONSTANTS
    d1 = d1
    d2 = d2
    d3 = d3
    Count = 3
    Data <- Objects
    data <- InOrder
    Keys = {0, 1, 2, 3}
    Clients = {c1, c2, c3}
    NULL = NULL
INVARIANTS
    TypeOK
    OneSlotPerKey
    HoldersKeepTheirs
PROPERTIES
    ImplementsLeases
