CONSTANTS
    Vpas = {v1}
    Containers = {c1}
    VpaOf <- MCVpaOf1
    v1 = v1
    v2 = v2
    c1 = c1
    c2 = c2
    c3 = c3
    Interval = 2
    Request = 1
    OOMBumpUp = 1
    MinCheckpoints = 1
    ChannelSize = 1
    MemorySaveMode = FALSE
    Metered = {c1}
    Killed = {c1}
    MaxUsage = 2
    MaxTime = 3
    MaxLag = 1
    MaxEvents = 1
    MaxFaults = 2
SPECIFICATION Spec
INVARIANTS
    OnePeakPerInterval
    OOMCounted
PROPERTIES
    HistoryKept
