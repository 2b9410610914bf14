\* A request that finds the bridge BUSY.
CONSTANTS
    Requests = {r1, r2}
    NoRequest = NoRequest
    MaxTokens = 2
    Disturbances = {"overlap"}
    MaxDisturbances = 2
SPECIFICATION FairSpec
PROPERTY ErrorEnds
CHECK_DEADLOCK FALSE
