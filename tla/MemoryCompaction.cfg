\* Every disturbance.
CONSTANTS
    Jobs = {c1, c2}
    LastDay = 5
    QuarterDays = 2
    Retention = 1
    Cutoff = 2
    Disturbances = {"again", "twice", "unreadable", "diskFull", "undeletable", "crash"}
    MaxDisturbances = 2
SPECIFICATION Spec
INVARIANTS
    TypeOK
    RecentKept
    Archived
PROPERTY
    NothingOldLeft
\* Nobody has to press the button.
CHECK_DEADLOCK FALSE
