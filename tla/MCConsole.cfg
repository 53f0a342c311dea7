SPECIFICATION ConsoleSpec
CONSTANTS
    Digitals = {"pin"}
    Analogs = {}
    Vectors = {}
    Axes <- NoAxes
    Levels = {0, 2}
    Switched = {"pin"}
    Faults = {"TIMEOUT"}
    DigitalSystems = {"lamp", "spare"}
    AnalogSystems = {}
    Device <- Wiring
    Composites = {"board"}
    Kids <- Tree
    Tops = {"board"}
    MaxSent = 2
    Entries <- Registered
    Names <- LeafNames
    HeaderCount = 1
    ArgsCount = 1
    Lines <- UserLines
INVARIANTS
    ConsoleTypeOK
    FramesAreWhole
    HelpIsTrue
PROPERTIES
    InvalidMeansUntouched
    EveryLineIsServed
