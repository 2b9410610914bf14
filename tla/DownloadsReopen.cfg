\* The screen is left and entered during a download.
CONSTANTS
    Jobs = {j1, j2}
    Files = {f1, f2, f3, f4}
    NoJob = NoJob
    NoFile = NoFile
    Size = 2
    Enough = 1
    MaxAttempts = 3
    Disturbances = {"reopen"}
    MaxDisturbances = 1
SPECIFICATION Spec
INVARIANT CompletionIsShown
\* Nobody has to press a button.
CHECK_DEADLOCK FALSE
