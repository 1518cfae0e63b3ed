SPECIFICATION FairSpec
CONSTANTS
    Threads = {t1, t2, t3}
    Exclusive = {}
    MaxRecords = 2
    MaxLeo = 3
    MaxCalls = 3
    MidBatchErrors = TRUE
    NoThread = NoThread
INVARIANTS
    OneLeader
    ParkedHasWaker
    WaitersCounted
PROPERTIES
    CallsReturn
