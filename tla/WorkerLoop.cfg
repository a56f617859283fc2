SPECIFICATION FairSpec
CONSTANTS
    ChannelCapacity = 3
    MaxIterations = 4
    MaxNudges = 2
    MaxRateLimits = 3
    MaxTokens = 1
    Usage <- MCUsage
    MaxPlan = 2
    MaxBatch = 2
    MaxMessages = 2
INVARIANTS
    TypeOK
    StopBoundsWork
    CancelBoundsTools
    ExitHasCause
    CallsAnswered
    FirstMessageKept
PROPERTIES
    LoopEnds
CHECK_DEADLOCK FALSE
