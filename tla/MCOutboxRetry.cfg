SPECIFICATION Spec
CONSTANTS
    NumContacts = 2
    Server <- OneServer
    KbdCap = 1
    MaxTexts = 2
    MaxOthers = 0
    Faults <- Refused
    MaxFaults = 3
    Patient = TRUE
INVARIANTS
    SentIsAccepted
CHECK_DEADLOCK FALSE
