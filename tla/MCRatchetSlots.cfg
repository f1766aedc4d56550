SPECIFICATION MCSpec
CONSTANTS
    Slots <- LowSlots
    MaxIds = 3
    MaxVer = 3
    Exclusive = TRUE
    HostOf <- TwoServers
    NumFds = 4
INVARIANTS
    UsesOwnRatchet
    KeysSurvive
    NothingLeft
    RightServer
PROPERTIES
    OwnSocketOnly
CHECK_DEADLOCK FALSE
