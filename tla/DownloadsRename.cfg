\* The temporary file cannot be renamed.
CONSTANTS
    Jobs = {j1, j2}
    Files = {f1, f2, f3, f4}
    NoJob = NoJob
    NoFile = NoFile
    Size = 2
    Enough = 1
    MaxAttempts = 3
    Disturbances = {"renameFails"}
    MaxDisturbances = 1
SPECIFICATION Spec
PROPERTY SuccessAlwaysReal
\* Nobody has to press a button.
CHECK_DEADLOCK FALSE
