SPECIFICATION FairSpec
CONSTANTS
    NumContacts = 2
    Server <- TwoServers
    KbdCap = 1
    MaxTexts = 2
    MaxOthers = 1
    Faults <- AnyFault
    MaxFaults = 3
    Patient = TRUE
INVARIANTS
    ResultTrue
    RecordedThere
    ChainHolds
PROPERTIES
    EveryTextSettles
CHECK_DEADLOCK FALSE
