SPECIFICATION Spec
CONSTANTS
    FirstID = 1
    MaxID = 7
    PeerIDs = {2, 4}
    MaxObjs = 4
    maxStreams = 2
    AcceptCap = 1
CHECK_DEADLOCK FALSE
INVARIANTS
    CountExact EndsOnlyIfAsked UnregisteredIsClosed
