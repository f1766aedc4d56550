CONSTANTS
    Hosts = {h1, h2}
    KnownHosts = {h1}
    BootHost = h1
    MaxSwitches = 2
    MaxFaults = 2
    Nets = {"a", "b"}
    MaxRetries = 2
    MaxDrops = 1
    MaxTaps = 3
SPECIFICATION MCSpec
INVARIANTS ExclusiveUse UsableContext OwnSession PinnedServer NoSocketLeak
PROPERTIES Reconnects StaysOff ComesBack
CHECK_DEADLOCK FALSE
