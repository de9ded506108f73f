SPECIFICATION FairSpec
CONSTANTS
    Tasks = {t1}
    MaxRetries = 1
    MaxFaults = 0
    MaxLapses = 0
    MaxClicks = 1
PROPERTIES
    ApprovedIsExecuted
CHECK_DEADLOCK FALSE
