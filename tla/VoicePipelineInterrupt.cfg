\* X is pressed while a question is transcribed.
CONSTANTS
    SttJobs = {s1, s2}
    LlmJobs = {l1, l2}
    TtsJobs = {k1, k2}
    NoJob = NoJob
    Disturbances = {"interrupt"}
    MaxDisturbances = 1
    MaxSpoken = 1
SPECIFICATION FairSpec
PROPERTY RestartListens
\* Nobody has to speak again.
CHECK_DEADLOCK FALSE
