\* Only the disturbance crashInWrite.
CONSTANTS
    Threads = {t1, t2}
    Items = {i1, i2}
    MaxLength = 2
    Disturbances = {"crashInWrite"}
    MaxDisturbances = 2
SPECIFICATION Spec
INVARIANT AlwaysDurable
\* Nobody has to call, and the bound on the lists ends the calls.
CHECK_DEADLOCK FALSE
