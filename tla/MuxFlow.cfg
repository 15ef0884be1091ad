SPECIFICATION Spec
CONSTANTS
    Window = 2
    MaxFrame = 2
    WriteCap = 1
    WireCap = 1
    SignalCap = 1
    RecvCap = 1
    maxRetransmitQ = 1
    maxRetries = 2
    MaxWrites = 3
    MaxNoise = 1
    MaxFails = 3
CHECK_DEADLOCK FALSE
INVARIANTS
    InOrderIfNoSendFails
PROPERTIES
    ImplementsCredit WriterReleased WrittenArrives
