SPECIFICATION FairSpec
CONSTANTS
    Workers = {w1, w2, w3}
    Threshold = 2
    WindowTtl = 2
    OpenTtl = 3
    ProbeTtl = 1
    RoundsToZero = 1
    MaxCall = 2
    MaxDeaths = 1
INVARIANTS
    OutageActedUpon
    NoOrphanLock
PROPERTIES
    BreakerRecovers
    OpenHolds
