SPECIFICATION ChainFairSpec
CONSTANTS
    c1 = c1
    c2 = c2
    Calls <- MCCalls
    Threshold = 2
    SuccessesNeeded = 1
    NumProviders = 2
    CooldownThreshold = 2
INVARIANTS
    ClosedCountsStreak
    ChainTypeOK
    GivesUpOnlyIfAllFailed
PROPERTIES
    TripsOnlyOnStreak
    OpenUntilElapsed
    ComesBack
