\* A quarter is compacted again.
CONSTANTS
    Jobs = {c1}
    LastDay = 5
    QuarterDays = 2
    Retention = 1
    Cutoff = 2
    Disturbances = {"again"}
    MaxDisturbances = 1
SPECIFICATION Spec
INVARIANT AlwaysArchived
\* Nobody has to press the button.
CHECK_DEADLOCK FALSE
