SPECIFICATION FairSpec
CONSTANTS
    j1 = j1
    j2 = j2
    Jobs <- OneJob
    MaxJobs = 1
    MaxParallelJobs = 1
    MaxRepairAttempts = 1
    MaxTransitions = 2
    Callers = {"stop", "stop_all", "cancel_job", "help", "repair"}
INVARIANTS
    TypeOK
    HistoryConsistent
    WorkerTracked
    DurableOutcome
PROPERTIES
    NoDuplicateExecution
    OutcomeFinal
    SlotReleased
    ImplementsContract
CHECK_DEADLOCK FALSE
