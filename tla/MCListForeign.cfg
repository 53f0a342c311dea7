SPECIFICATION TrustingSpec
CONSTANTS
    Lists = {l1, l2}
    Nodes = {n1, n2, n3, n4}
    NULL = NULL
PROPERTIES
    AbortIsNoOp
