SPECIFICATION Spec
CONSTANTS
    MaxOpens = 2
    IdMax = 3
    MaxPayload = 1
    MaxDev = 1
    MaxWrites = 0
    MaxStray = 0
INVARIANTS
    ServiceMapConsistent
    CloseIsLast
    ServicesEndBeforeFin
CHECK_DEADLOCK FALSE
