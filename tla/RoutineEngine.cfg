SPECIFICATION FairSpec
CONSTANTS
    c1 = c1
    c2 = c2
    e1 = e1
    f1 = f1
    f2 = f2
    CronRoutines <- TwoCrons
    EventRoutines <- OneEvent
    Fires <- TwoFires
    MaxRoutines <- One
    MaxConcurrent <- One
    MaxRequests <- One
    MaxFaults <- One
INVARIANTS
    SlotsAccounted
    TriggersWithinLimit
    RowsAccounted
PROPERTIES
    TickerKeepsFiring
CHECK_DEADLOCK FALSE
