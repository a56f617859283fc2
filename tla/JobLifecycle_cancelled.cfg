SPECIFICATION Spec
CONSTANTS
    j1 = j1
    j2 = j2
    Jobs <- OneJob
    MaxJobs = 1
    MaxParallelJobs = 1
    MaxRepairAttempts = 1
    MaxTransitions = 2
    Callers = {"cancel_job", "help"}
PROPERTIES
    CancelledIsFinal
CHECK_DEADLOCK FALSE
