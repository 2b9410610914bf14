\* Failures of the parts, and timers.
CONSTANTS
    SttJobs = {s1, s2}
    LlmJobs = {l1, l2}
    TtsJobs = {k1, k2}
    NoJob = NoJob
    Disturbances = {"tap", "micFails", "llmFails", "waitTimeout", "listeningTimeout", "slowClear", "race"}
    MaxDisturbances = 2
    MaxSpoken = 3
SPECIFICATION FairSpec
PROPERTY PipelineListens
\* Nobody has to speak again.
CHECK_DEADLOCK FALSE
