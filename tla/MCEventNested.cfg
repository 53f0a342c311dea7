SPECIFICATION DocumentedSpec
CONSTANTS
    Lists = {e1}
    Nodes = {c1, c2, c3}
    NULL = NULL
    Late = {}
    MaxDepth = 2
    MaxActs = 1
INVARIANTS
    ServedInOrder
