SPECIFICATION Spec
CHECK_DEADLOCK FALSE
CONSTANTS
    Brokers <- const_2
    Replicas <- const_replicas_21
    MinIsr = 1
    MaxLag = 0
    TimeLag = TRUE
    MetaLeader = 0
    Unreliable = TRUE
    Crashable = {2}
    Restartable = {2}
    MaxRecords = 1
    MaxCrashes = 1
    MaxTopics = 1
    MaxGeneration = 2
    None = None
INVARIANTS
    HwmWithinLog
PROPERTIES
    HwmMonotone
