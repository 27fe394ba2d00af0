SPECIFICATION Spec
CONSTANTS
    MaxOpens = 2
    IdMax = 2
    MaxPayload = 1
    MaxDev = 0
    MaxWrites = 0
    MaxStray = 1
INVARIANTS
    NoTransportLeft
    CloseOnce
CHECK_DEADLOCK FALSE
