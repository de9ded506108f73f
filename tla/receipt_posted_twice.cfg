SPECIFICATION Spec
CONSTANTS
    Docs = {d1}
    Jobs = {j1, j2}
    Nobody = Nobody
    MaxRetries = 1
    MaxCommands = 3
    MaxFaults = 1
PROPERTIES
    RecordedReceiptNotPosted

CHECK_DEADLOCK FALSE
