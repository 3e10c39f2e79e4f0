CONSTANTS
    a = a
    b = b
    c = c
    NoJob = NoJob
    Jobs = {a, b}
    KindOf <- PairKinds
    MaxSize = 1
    MaxRounds = 2
SPECIFICATION FairSpec
INVARIANTS
    FinishedIsReported
    HistoryLegal
PROPERTIES
    VerdictSpec
    PipelineSpec
    EveryJobSettles
