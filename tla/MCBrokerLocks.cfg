SPECIFICATION Spec
CONSTANTS
    Threads <- const_Threads_3
    ScriptsOf <- const_ScriptsOf_ordered
    OpenraftMetadata = FALSE
    ClusterMetadataTopic = TRUE
    GroupCommit = TRUE
INVARIANTS
    NoDeadlock
