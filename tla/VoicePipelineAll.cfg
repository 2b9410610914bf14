\* Every disturbance.
CONSTANTS
    SttJobs = {s1, s2}
    LlmJobs = {l1, l2}
    TtsJobs = {k1, k2}
    NoJob = NoJob
    Disturbances = {"interrupt", "tap", "leave", "listeningTimeout", "waitTimeout", "llmFails", "micFails", "micBreaks", "race", "slowClear", "ttsNotReady"}
    MaxDisturbances = 2
    MaxSpoken = 2
SPECIFICATION Spec
INVARIANTS
    TypeOK
    SttFlagHasJob
    OneTranscription
    NoFeedbackLoop
\* Nobody has to speak again.
CHECK_DEADLOCK FALSE
