CONSTANTS
    Jobs = {a, b, c, d}
    MaxSize = 3
    Threshold = 1
    Count = 2
    TaskPeriod = "task"
    NormalPeriod = "normal"
    IdlePeriod = "idle"
    MaxRetry = 3
SPECIFICATION FairSpec
INVARIANTS
    TypeOK
    RoomForBatch
    PeriodFollowsMisses
PROPERTIES
    KeepsAsking
