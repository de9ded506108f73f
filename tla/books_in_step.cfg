SPECIFICATION Spec
CONSTANTS
    Docs = {d1}
    Jobs = {j1, j2}
    Nobody = Nobody
    MaxRetries = 1
    MaxCommands = 3
    MaxFaults = 1
SYMMETRY Symmetry
INVARIANTS
    Inv
    UnsyncedIsExplained
    BookedIsRecorded
    ApprovedIsBooked
    PaymentsAnswered
    DuplicatesBounded
CHECK_DEADLOCK FALSE
