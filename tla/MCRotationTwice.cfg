SPECIFICATION MCSpec
CONSTANTS
    Contacts <- One
    Paired <- One
    None = None
    MaxRotations = 2
    MaxTexts = 1
    MaxFaults = 0
    MaxDrops = 0
    MaxCrashes = 0
    MaxChurn = 0
    MaxTroubles = 0
INVARIANTS
    NeverCutOff
CHECK_DEADLOCK FALSE
