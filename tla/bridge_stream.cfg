SPECIFICATION FairSpec
CONSTANTS
    MaxOpens = 1
    IdMax = 3
    MaxPayload = 2
    MaxDev = 3
    MaxWrites = 2
    MaxStray = 0
INVARIANTS
    FlowControl
    NothingLost
PROPERTIES
    ImplementsAdbStream
    OpenAnswered
    BytesArrive
    EofCloses
    EndedReleases
CHECK_DEADLOCK FALSE
