SPECIFICATION FairSpec
CONSTANTS
    Requests = {r1, r2, r3}
    Codes = {k1}
    Nobody = nobody
    NoRow = no_row
    MaxTokens = 3
INVARIANTS
    Inv
    RefreshTokenKept
PROPERTIES
    RequestsEnd
CHECK_DEADLOCK FALSE
