SPECIFICATION FirmwareSpec
CONSTANTS
    RxLen = 2
    HwStates <- ArduinoStates
    NL = NL
    NUL = NUL
    POLL = POLL
    Digitals = {"pin"}
    Analogs = {}
    Vectors = {}
    Axes <- NoAxes
    Levels = {0, 1}
    Switched = {}
    Faults = {}
    DigitalSystems = {"lamp"}
    AnalogSystems = {}
    Device <- Wiring
    Composites = {}
    Kids <- NoTree
    Tops = {"lamp"}
    MaxSent = 0
    Entries <- Registered
    Names <- LampNames
    HeaderCount = 1
    ArgsCount = 1
    Lines <- UserLines
    Sent <- Text
    LogLevels = {1, 6}
    MaxAhead = 2
    Parse <- ParseText
INVARIANTS
    LogIsWhole
    FirmwareTypeOK
    FramesStayWhole
    CutLinesGetNoAnswer
    NextLinesAreAnswered
    OnlyReadyPartsWork
PROPERTIES
    InputIsServed
