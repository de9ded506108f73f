SPECIFICATION FairSpec
CONSTANTS
    Turns = {t1, t2}
    Clears = {w1, w2}
    Nobody = nobody
    DailyCap = 1
    MaxRounds = 2
INVARIANTS
    Inv
    ClearedIsGone
    MarginOfCrowd
PROPERTIES
    RequestsEnd
CHECK_DEADLOCK FALSE
