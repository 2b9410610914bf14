\* Only the disturbance overlap.
CONSTANTS
    Threads = {t1, t2}
    Items = {i1, i2}
    MaxLength = 2
    Disturbances = {"overlap"}
    MaxDisturbances = 2
SPECIFICATION Spec
INVARIANT SavedWhenQuiet
\* Nobody has to call, and the bound on the lists ends the calls.
CHECK_DEADLOCK FALSE
