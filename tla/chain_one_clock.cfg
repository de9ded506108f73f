SPECIFICATION ChainSpec
CONSTANTS
    Writers = {w1, w2}
    TenantIds = {t1, t2}
    Ids = {1, 2, 3, 4}
    NoWriter = NoWriter
    MaxSkew = 0
    MaxTime = 5
CONSTRAINT ClockBound
SYMMETRY Symmetry
INVARIANTS
    ChainVerifies
PROPERTIES
    ChainGrows
