SPECIFICATION Spec
CHECK_DEADLOCK FALSE
CONSTANTS
    Brokers <- const_3
    Replicas <- const_replicas_231
    MinIsr = 2
    MaxLag = 0
    TimeLag = FALSE
    MetaLeader = 0
    Unreliable = FALSE
    Crashable = {2}
    Restartable = {}
    MaxRecords = 2
    MaxCrashes = 1
    MaxTopics = 0
    MaxGeneration = 3
    None = None
INVARIANTS
    AckedOnLeader
