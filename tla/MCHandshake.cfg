CONSTANTS
    NumSlots = 2
    MaxIds = 2
    MaxFaults = 1
    Faults <- Expected
SPECIFICATION FairSpec
INVARIANTS OwnKey Paired StatusTrue
PROPERTY Completes
CHECK_DEADLOCK FALSE
