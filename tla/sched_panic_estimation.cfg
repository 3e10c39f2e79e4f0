CONSTANTS
    a = a
    b = b
    c = c
    NoJob = NoJob
    Jobs = {a, b}
    KindOf <- PanicKinds
    MaxSize = 2
    MaxRounds = 1
SPECIFICATION Spec
INVARIANTS
    PanicEndsFailed
