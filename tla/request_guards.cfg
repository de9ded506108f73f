SPECIFICATION GuardsSpec
CONSTANTS
    Keys = {k1, k2}
    Max = 2
    Window = 3
    MaxBuckets = 1
    MaxHits = 5
    n1 = n1
    n2 = n2
    n3 = n3
    Nonces = {n1, n2, n3}
    Stamp <- StampOf
    ReplayWindow = 3
    MaxEntries = 1
    MaxRequests = 5
    Horizon = 6
INVARIANTS
    ReplaysRefused
PROPERTIES
    LimitsTheWindow
    PromiseKept
CHECK_DEADLOCK FALSE
