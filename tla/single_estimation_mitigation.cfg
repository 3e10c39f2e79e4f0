SPECIFICATION Spec
CONSTANT MaxGroups = 1
INVARIANT EstimationMitigatedWhenAsked
\* A job ends.
CHECK_DEADLOCK FALSE
