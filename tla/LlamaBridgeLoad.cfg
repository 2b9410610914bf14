\* A model cannot be loaded.
CONSTANTS
    Requests = {r1, r2}
    NoRequest = NoRequest
    MaxTokens = 2
    Disturbances = {"loadFails"}
    MaxDisturbances = 3
SPECIFICATION Spec
INVARIANT LoadIsPossible
CHECK_DEADLOCK FALSE
