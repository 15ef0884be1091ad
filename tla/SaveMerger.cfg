SPECIFICATION FairSpec
CONSTANTS
    Writer = {w1, w2}
    Flusher = {f1, f2}
    None = None
    Serialised = TRUE
    MaxChanges = 2
    MaxFails = 2
    MaxCrashes = 1
CHECK_DEADLOCK FALSE
INVARIANTS SavedIsStored ReturnedIsStored
PROPERTIES StoredNeverShrinks StoredEventually
