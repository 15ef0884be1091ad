SPECIFICATION Spec
CONSTANTS
    Worker = {w1, w2}
    NoWorker = NoWorker
    Resumer = {r1, r2}
    FileSize = 2
    MaxAttempts = 2
    Placeholder = 1
    MaxRequests = 2
    MaxFaults = 1
SYMMETRY Symmetry
CHECK_DEADLOCK FALSE
INVARIANTS
    OneWriter
    ScopeCoversDisk
    NoDoubleRelease
    AbandonedIsFree
    CompletedHasFile
PROPERTIES
    TerminalKept
