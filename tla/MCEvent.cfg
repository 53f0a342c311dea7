SPECIFICATION Spec
CONSTANTS
    Lists = {e1, e2}
    Nodes = {c1, c2, c3}
    NULL = NULL
    Late = {c3}
    MaxDepth = 2
    MaxActs = 2
INVARIANTS
    TypeOK
    ServedInOrder
    NextIsListener
PROPERTIES
    ImplementsList
    PassEnds
