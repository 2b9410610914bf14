\* The engine fails.
CONSTANTS
    Durations = {4, 6}
    Cap = 4
    Grace = 1
    Echo = 1
    Timeout = 8
    MaxSentences = 2
    Disturbances = {"throws", "error", "lost"}
    MaxDisturbances = 2
SPECIFICATION OutputFairSpec
PROPERTY MicrophoneAlwaysReturns
