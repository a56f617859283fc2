SPECIFICATION Spec
CONSTANTS
    MaxSessions = 3
    MaxThreads = 3
INVARIANTS
    ChannelIsolation
PROPERTIES
    LandsInItsThread
CHECK_DEADLOCK FALSE
