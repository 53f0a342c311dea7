SPECIFICATION Spec
CONSTANTS
    Digitals = {"pin"}
    Analogs = {"sensor"}
    Vectors = {}
    Axes <- NoAxes
    Levels = {0, 2}
    Switched = {"pin", "sensor"}
    Faults = {"TIMEOUT"}
    DigitalSystems = {"lamp", "spare"}
    AnalogSystems = {"level"}
    Device <- Wiring
    Composites = {"board", "pair"}
    Kids <- Tree
    Tops = {"board", "level"}
    MaxSent = 3
INVARIANTS
    TypeOK
    InputsAreWritable
    AliasesAgree
PROPERTIES
    OkMeansApplied
    IdsShiftOnlyBehind
    ImplementsFlat
