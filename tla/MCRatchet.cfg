SPECIFICATION MCSpec
CONSTANTS
    Faults <- Benign
    CrashPoints <- Committed
    MaxFaults = 2
    MaxDev = 4
    MaxPeer = 3
INVARIANTS
    StaysInStep
    KeysFresh
PROPERTIES
    DeviceRefines
    Drained
CHECK_DEADLOCK FALSE
