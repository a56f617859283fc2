SPECIFICATION ShutdownSpec
CONSTANTS
    j1 = j1
    j2 = j2
    Jobs <- TwoJobs
    MaxJobs = 2
    MaxParallelJobs = 2
    MaxRepairAttempts = 1
    MaxTransitions = 2
    Callers = {"stop_all"}
INVARIANTS
    ShutdownStopsWork
PROPERTIES
    ShutdownReturns
CHECK_DEADLOCK FALSE
