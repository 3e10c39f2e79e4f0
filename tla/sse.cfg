SPECIFICATION FairSpec
CONSTANTS
    UserWrites = {"ready", "cancelled"}
    MaxRequests = 2
    MaxRounds = 1
INVARIANTS
    TypeOK
    LeaksOnlyAfterFailedCleanUp
    AcceptedRunIsComplete
    ReaderOutlivesOnlyTimeout
PROPERTIES
    RunEnds
CHECK_DEADLOCK FALSE
