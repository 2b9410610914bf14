\* A request while the work of another goes on.
CONSTANTS
    Requests = {r1, r2}
    NoRequest = NoRequest
    MaxTokens = 2
    Disturbances = {"overlap"}
    MaxDisturbances = 3
SPECIFICATION Spec
PROPERTY PreviousStopped
CHECK_DEADLOCK FALSE
