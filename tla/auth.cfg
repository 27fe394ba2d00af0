SPECIFICATION FairSpec
CONSTANTS
    NumKeys = 2
    MaxPackets = 6
    MaxStray = 2
    ErrorHeard = TRUE
INVARIANTS
    AuthorizedKey
    TokenIsLastChallenge
    Dialogue
    ConformingMatches
PROPERTIES
    FailureEnds
    HandshakeSettles
CHECK_DEADLOCK FALSE
