SPECIFICATION FairSpec
CONSTANTS
    MaxChunks = 1
    MaxLen = 1
PROPERTIES
    FailureReported
CHECK_DEADLOCK FALSE
