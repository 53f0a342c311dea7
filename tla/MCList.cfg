SPECIFICATION Spec
CONSTANTS
    Lists = {l1, l2}
    Nodes = {n1, n2, n3, n4}
    NULL = NULL
SYMMETRY Symmetry
INVARIANTS
    TypeOK
    WellLinked
PROPERTIES
    ImplementsSequences
