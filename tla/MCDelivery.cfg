SPECIFICATION FairSpec
CONSTANTS
    NumQueues = 2
    RingCap = 1
    CmdCap = 2
    MaxMsgs <- TwoAndOne
    MaxDrops = 1
    MaxExtras = 1
    BootQueue = 1
    Overtaken <- Both
    Backlog = TRUE
INVARIANTS
    ProcessedFirst
    StrandedOnlyByLoss
PROPERTIES
    Emptied
CHECK_DEADLOCK FALSE
