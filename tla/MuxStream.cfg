SPECIFICATION Spec
CONSTANTS
    Window = 2
    MaxFrame = 2
    ChanCap = 1
    MaxFrames = 6
CHECK_DEADLOCK FALSE
INVARIANTS
    MemoryBounded NoFalseViolation ExactlyOnce ClosedAfterDrain
PROPERTIES
    DoneReleasesReader
