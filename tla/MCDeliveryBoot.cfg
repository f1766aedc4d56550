SPECIFICATION Spec
CONSTANTS
    NumQueues = 2
    RingCap = 2
    CmdCap = 3
    MaxMsgs <- OneEach
    MaxDrops = 0
    MaxExtras = 0
    BootQueue = 1
    Overtaken <- KeyOnly
    Backlog = TRUE
INVARIANTS
    NoneStranded
CHECK_DEADLOCK FALSE
