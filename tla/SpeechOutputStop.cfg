\* The user stops the speech.
CONSTANTS
    Durations = {4, 6}
    Cap = 4
    Grace = 1
    Echo = 1
    Timeout = 8
    MaxSentences = 2
    Disturbances = {"stop"}
    MaxDisturbances = 1
SPECIFICATION OutputSpec
INVARIANT StopMeansSilent
