SPECIFICATION Spec
CONSTANT MaxGroups = 3
INVARIANTS
    TypeOK
    RanAsAsked
    MitigatedExactlyWhenAsked
    ValueFromEveryGroup
\* A job ends.
CHECK_DEADLOCK FALSE
