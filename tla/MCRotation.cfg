SPECIFICATION MCSpec
CONSTANTS
    Contacts <- Two
    Paired <- Two
    None = None
    MaxRotations = 1
    MaxTexts = 1
    MaxFaults = 2
    MaxDrops = 2
    MaxCrashes = 2
    MaxChurn = 1
    MaxTroubles = 2
INVARIANTS
    OnceNeverCutOff
    PeerKeysOriginal
PROPERTIES
    OnceCompletes
CHECK_DEADLOCK FALSE
