SPECIFICATION ClientSpec
CONSTANTS
    MaxLines = 2
    Serials = {"d1", "d2"}
    Types = {"device", "offline"}
    MaxLists = 2
INVARIANTS
    OwnAnswer
    OutcomeFollowsAnswer
    ConnectionAccounted
    ViewIsLastList
PROPERTIES
    TrackerServes
    CallSettles
CHECK_DEADLOCK FALSE
