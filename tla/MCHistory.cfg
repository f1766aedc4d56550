SPECIFICATION MCSpec
CONSTANTS
    NumSlots = 2
    CountMod = 8
    Window = 2
    MaxLives = 3
    MaxMsgs = 3
    MaxCrashes = 1
    Reuse = TRUE
    Exclusive = TRUE
    CardOut = FALSE
    FreshStart = FALSE
    Chats = {1, 2}
    NoChat = NoChat
    TextQueue = 1
    StatusQueue = 2
    NumTracked = 2
    NumMappings = 2
    MaxTexts = 3
    MaxOpens = 2
    MaxRedrawn = 1
INVARIANTS
    NonceFresh
    ShownAndCounted
    OwnHistory
    TickTrue
PROPERTIES
    DeliveredStays
    TickComes
CHECK_DEADLOCK FALSE
