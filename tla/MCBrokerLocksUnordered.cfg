SPECIFICATION Spec
CONSTANTS
    Threads <- const_Threads_2
    ScriptsOf <- const_ScriptsOf_unordered
    OpenraftMetadata = FALSE
    ClusterMetadataTopic = TRUE
    GroupCommit = TRUE
INVARIANTS
    NoDeadlock
