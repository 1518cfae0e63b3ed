SPECIFICATION FairSpec
CHECK_DEADLOCK FALSE
CONSTANTS
    Brokers <- const_3
    Replicas <- const_replicas_213
    MinIsr = 1
    MaxLag = 1
    TimeLag = FALSE
    MetaLeader = 0
    Unreliable = FALSE
    Crashable = {1, 2}
    Restartable = {}
    MaxRecords = 1
    MaxCrashes = 1
    MaxTopics = 0
    MaxGeneration = 5
    None = None
PROPERTIES
    ProduceDecided
    LeadersConverge
