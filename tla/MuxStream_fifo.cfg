SPECIFICATION Spec
CONSTANTS
    Window = 2
    MaxFrame = 1
    ChanCap = 1
    MaxFrames = 3
CHECK_DEADLOCK FALSE
INVARIANTS
    FIFO
