SPECIFICATION Spec
CONSTANTS
    Keys = {k1}
    NoKey = NoKey
    Vals = {v1}
    Tombstone = Tombstone
    None = None
    MaxOffset = 3
    MaxCrashes = 2
    CrashDuring = {"roll", "delete", "compact"}
    PowerLoss = TRUE
    CompactPolicy = TRUE
INVARIANTS
    OnlyKnownOpenErrors
CHECK_DEADLOCK FALSE
