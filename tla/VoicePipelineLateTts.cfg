\* The speech engine has to be initialised again.
CONSTANTS
    SttJobs = {s1, s2}
    LlmJobs = {l1, l2}
    TtsJobs = {k1, k2}
    NoJob = NoJob
    Disturbances = {"ttsNotReady"}
    MaxDisturbances = 1
    MaxSpoken = 2
SPECIFICATION FairSpec
PROPERTY PipelineListens
\* Nobody has to speak again.
CHECK_DEADLOCK FALSE
