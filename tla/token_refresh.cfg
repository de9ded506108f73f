SPECIFICATION FairSpec
CONSTANTS
    Callers = {c1, c2}
    Sweep = sweep
    User = user
    Threshold = 3
    MaxPolls = 2
    MaxCalls = 3
    MaxGen = 3
    MaxRefusals = 2
    MaxLapses = 1
    MaxExpiries = 1
    MaxFaults = 1
INVARIANTS
    Inv
    TokenKept
PROPERTIES
    RowNeverGoesBack
    DeadIsDeserved
    RequestsAnswered
CHECK_DEADLOCK FALSE
