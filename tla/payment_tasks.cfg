SPECIFICATION FairSpec
CONSTANTS
    Tasks = {t1, t2}
    MaxRetries = 1
    MaxFaults = 2
    MaxLapses = 1
    MaxClicks = 1
INVARIANTS
    RunsExclude
    DuplicateIsProcessed
PROPERTIES
    SpentOncePerApproval
    TasksEnd
CHECK_DEADLOCK FALSE
