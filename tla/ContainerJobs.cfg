SPECIFICATION FairSpec
CONSTANTS
    MaxCrashes <- OneCrash
INVARIANTS
    AccessRevoked
    StopSticks
    NoStaleRow
PROPERTIES
    ResultKept
    CreatorReturns
    ContainersReaped
CHECK_DEADLOCK FALSE
