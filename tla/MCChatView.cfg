SPECIFICATION MCSpec
CONSTANTS
    Contacts = {1, 2, 3}
    None = None
    MaxLoad = 3
    CacheSize = 4
    WindowSize = 2
    ScrollCount = 1
    Chunk = 1
    Pool = 3
    UiQueue = 3
    KbdQueue = 1
    Old <- ThreeNoneOne
    MaxNew = 3
INVARIANTS
    OwnChat
    WindowTrue
CHECK_DEADLOCK FALSE
PROPERTIES
    Drawn
