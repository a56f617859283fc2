SPECIFICATION Spec
CONSTANTS
    MaxTurns = 4
    MaxRequests = 3
    MaxCheckpoints = 2
INVARIANTS
    TypeOK
    SettledBetweenMessages
    ClosedNeverRuns
    HistoryOrdered
