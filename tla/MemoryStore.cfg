\* Every disturbance.
CONSTANTS
    Threads = {t1, t2}
    Items = {i1, i2}
    MaxLength = 2
    Disturbances = {"overlap", "race", "diskFull", "crash", "crashInWrite"}
    MaxDisturbances = 2
SPECIFICATION Spec
INVARIANTS
    TypeOK
    Durable
    SoloSaves
    Counts
\* Nobody has to call, and the bound on the lists ends the calls.
CHECK_DEADLOCK FALSE
