\* A frame is handled while the answer to the segment before is asked for.
CONSTANTS
    SttJobs = {s1, s2}
    LlmJobs = {l1, l2}
    TtsJobs = {k1, k2}
    NoJob = NoJob
    Disturbances = {"race"}
    MaxDisturbances = 1
    MaxSpoken = 3
SPECIFICATION Spec
INVARIANTS
    NeverCollectsItself
\* Nobody has to speak again.
CHECK_DEADLOCK FALSE
