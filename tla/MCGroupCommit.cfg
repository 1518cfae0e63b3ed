SPECIFICATION Spec
CONSTANTS
    Threads = {t1, t2, t3}
    Exclusive = {t3}
    MaxRecords = 2
    MaxLeo = 3
    MaxCalls = 4
    MidBatchErrors = FALSE
    NoThread = NoThread
SYMMETRY Symmetry
INVARIANTS
    TypeOK
    OkMeansDurable
    DirtyIsCounted
CHECK_DEADLOCK FALSE
