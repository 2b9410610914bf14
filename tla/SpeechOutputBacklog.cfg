\* Nothing goes wrong, but two sentences are queued.
CONSTANTS
    Durations = {4}
    Cap = 4
    Grace = 1
    Echo = 1
    Timeout = 8
    MaxSentences = 2
    Disturbances = {}
    MaxDisturbances = 0
SPECIFICATION OutputSpec
INVARIANT WaitedForAll
