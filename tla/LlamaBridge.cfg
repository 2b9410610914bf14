\* Every disturbance.
CONSTANTS
    Requests = {r1, r2}
    NoRequest = NoRequest
    MaxTokens = 2
    Disturbances = {"overlap", "stop", "cancel", "slow", "back", "loadFails"}
    MaxDisturbances = 2
SPECIFICATION FairSpec
INVARIANTS
    TypeOK
    Undisturbed
PROPERTIES
    AskEnds
    StateRecovers
\* Nobody has to ask.
CHECK_DEADLOCK FALSE
