SPECIFICATION FairSpec
CONSTANTS
    MaxChunks = 2
    MaxLen = 2
INVARIANTS
    BytesIntact
PROPERTIES
    ImplementsPullTransfer
    CompleteEnds
    FailureSettles
CHECK_DEADLOCK FALSE
