SPECIFICATION Spec
CONSTANTS
    RxLen = 3
    Modes = {"TEXT_LINE", "BINARY_STREAM"}
    HwStates <- ArduinoStates
    NL = NL
    NUL = NUL
    POLL = POLL
    MaxArrivals = 5
INVARIANTS
    TypeOK
    MessagesAreLines
    CutIsFlagged
    DropIsReported
    TextIsTerminated
PROPERTIES
    RecoversFromOverflow
    InputIsRead
