CONSTANTS
    a = a
    b = b
    c = c
    NoJob = NoJob
    Jobs = {a, b, c}
    KindOf <- ThreeKinds
    MaxSize = 1
    MaxRounds = 1
SYMMETRY ThreeSymmetry
SPECIFICATION Spec
INVARIANTS
    TypeOK
    JobDataHasOneOwner
    NoHandlerStranded
    QueueBounded
    PanicEndsFailed
