SPECIFICATION FairSpec
CONSTANTS
    HeaderLen = 2
    MaxBody = 2
    MaxPackets = 2
INVARIANTS
    PacketsIntact
    NothingHeldBack
PROPERTIES
    ImplementsPacketChannel
    PacketsHandled
CHECK_DEADLOCK FALSE
