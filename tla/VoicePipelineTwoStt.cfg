\* Segments end while a restart clears the context.
CONSTANTS
    SttJobs = {s1, s2}
    LlmJobs = {l1, l2}
    TtsJobs = {k1, k2}
    NoJob = NoJob
    Disturbances = {"slowClear"}
    MaxDisturbances = 1
    MaxSpoken = 3
SPECIFICATION Spec
INVARIANTS
    AlwaysOneTranscription
\* Nobody has to speak again.
CHECK_DEADLOCK FALSE
