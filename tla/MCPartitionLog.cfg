SPECIFICATION Spec
CONSTANTS
    Keys = {k1}
    NoKey = NoKey
    Vals = {v1}
    Tombstone = Tombstone
    None = None
    MaxOffset = 4
    MaxCrashes = 1
    CrashDuring = {"roll"}
    PowerLoss = TRUE
    CompactPolicy = TRUE
INVARIANTS
    TypeOK
    OffsetsNotReused
    DurableSurvives
    DiskMatchesMemory
    CompactedIsMinimal
CHECK_DEADLOCK FALSE
