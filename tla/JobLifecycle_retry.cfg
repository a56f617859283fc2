SPECIFICATION FairSpec
CONSTANTS
    j1 = j1
    j2 = j2
    Jobs <- OneJob
    MaxJobs = 1
    MaxParallelJobs = 1
    MaxRepairAttempts = 1
    MaxTransitions = 2
    Callers = {"repair", "help"}
PROPERTIES
    RecoveredIsRetried
CHECK_DEADLOCK FALSE
