SPECIFICATION FairSpec
CONSTANTS
    NumKeys = 1
    MaxPackets = 3
    MaxStray = 0
    ErrorHeard = FALSE
PROPERTIES
    FailureEnds
CHECK_DEADLOCK FALSE
