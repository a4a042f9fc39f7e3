CONSTANTS
    Vpas = {v1, v2}
    Containers = {c1, c2, c3}
    VpaOf <- MCVpaOf
    v1 = v1
    v2 = v2
    c1 = c1
    c2 = c2
    c3 = c3
    Interval = 2
    Request = 1
    OOMBumpUp = 1
    MinCheckpoints = 1
    ChannelSize = 1
    MemorySaveMode = FALSE
    Metered = {}
    Killed = {c1}
    MaxUsage = 0
    MaxTime = 1
    MaxLag = 0
    MaxEvents = 2
    MaxFaults = 1
SPECIFICATION FairSpec
PROPERTIES
    CheckpointsGoOn
    ObserverUnblocked
