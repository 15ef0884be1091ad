SPECIFICATION Spec
CONSTANTS
    Client = {p1, p2}
    NoClient = NoClient
    Chunk = {1}
    MaxGen = 2
    MaxFaults = 1
    MayCrash = TRUE
SYMMETRY Symmetry
CHECK_DEADLOCK FALSE
INVARIANTS
    VerifiedLands
    ReservationOwned
    RecordOwned
    MergingOwned
PROPERTIES
    TempKept
    AckSurvives
    SessionKept
