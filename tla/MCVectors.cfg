SPECIFICATION Spec
CONSTANTS
    Digitals = {"pin"}
    Analogs = {"ax", "ay", "az"}
    Vectors = {"vec"}
    Axes <- VectorAxes
    Levels = {0, 2}
    Switched = {"pin", "ay"}
    Faults = {"TIMEOUT"}
INVARIANTS
    TypeOK
PROPERTIES
    LockedIsKept
    VectorStatusIsTrue
