\* Voice mode is left while a question is on its way.
CONSTANTS
    SttJobs = {s1, s2}
    LlmJobs = {l1, l2}
    TtsJobs = {k1, k2}
    NoJob = NoJob
    Disturbances = {"leave"}
    MaxDisturbances = 1
    MaxSpoken = 1
SPECIFICATION Spec
INVARIANTS
    LeftStaysStopped
\* Nobody has to speak again.
CHECK_DEADLOCK FALSE
