SPECIFICATION Spec
CONSTANTS
    Task = {t1, t2}
    Request = {r1, r2}
    NoTask = NoTask
    MaxConcurrent = 2
    MaxOther = 1
    MaxRetries = 1
    Placeholder = 1
    BytesDone = {0, 2}
    MaxRequests = 3
    MaxFaults = 1
INVARIANTS
    BookedExact
    NothingPinned
    OneRunPerKey
SYMMETRY Symmetry
CHECK_DEADLOCK FALSE
