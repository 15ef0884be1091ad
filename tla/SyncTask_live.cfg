SPECIFICATION Spec
CONSTANTS
    Task = {t1, t2}
    Request = {r1}
    NoTask = NoTask
    MaxConcurrent = 1
    MaxOther = 1
    MaxRetries = 1
    Placeholder = 1
    BytesDone = {0, 2}
    MaxRequests = 3
    MaxFaults = 1
PROPERTY
    Settles
CHECK_DEADLOCK FALSE
