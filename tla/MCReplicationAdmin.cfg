SPECIFICATION Spec
CHECK_DEADLOCK FALSE
CONSTANTS
    Brokers <- const_2
    Replicas <- const_replicas_21
    MinIsr = 1
    MaxLag = 0
    TimeLag = FALSE
    MetaLeader = 0
    Unreliable = FALSE
    Crashable = {1, 2}
    Restartable = {1, 2}
    MaxRecords = 1
    MaxCrashes = 2
    MaxTopics = 0
    MaxGeneration = 4
    None = None
INVARIANTS
    OneLeaderPerEpoch

    
