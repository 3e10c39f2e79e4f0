SPECIFICATION SpecIntake
CONSTANTS
    MaxBatch = 2
    Options = {"absent", "nullLib", "otherLib"}
INVARIANTS
    BatchIsHandedOver
    OnlyValidJobsRun
\* A call of Task ends.
CHECK_DEADLOCK FALSE
