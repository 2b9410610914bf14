\* Every disturbance.
CONSTANTS
    Jobs = {j1, j2}
    Files = {f1, f2, f3, f4}
    NoJob = NoJob
    NoFile = NoFile
    Size = 2
    Enough = 1
    MaxAttempts = 2
    Disturbances = {"serverFails", "noRange", "noLength", "noTotal", "renameFails", "deleteFails", "noSize", "crash", "reopen", "cancel", "delete", "lateClear"}
    MaxDisturbances = 2
SPECIFICATION FairSpec
INVARIANTS
    TypeOK
    FinalComplete
    ScreenTellsTruth
PROPERTIES
    SuccessMeansFile
    DownloadEnds
\* Nobody has to press a button.
CHECK_DEADLOCK FALSE
