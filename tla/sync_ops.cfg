SPECIFICATION SyncSpec
CONSTANTS
    MaxLines = 0
    DataMax = 2
    MaxBytes = 3
    MaxEntries = 2
    FirstOps = {"stat", "readdir", "push"}
    LaterOps = {"stat", "readdir"}
    MaxOps = 2
INVARIANTS
    OpFollowsAnswer
    EndMeansStored
    ProgressAddsUp
PROPERTIES
    OpsSettle
    ImplementsPushTransfer
CHECK_DEADLOCK FALSE
