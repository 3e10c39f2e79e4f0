SPECIFICATION Spec
CONSTANTS
    CircuitLists <- Lists
    Options <- OneOfEach
    MaxQubits = 4
    MaxShots = 2
    Physical = 5
INVARIANTS
    ServedWithoutTranspiler
\* A job ends.
CHECK_DEADLOCK FALSE
