\* A sentence as long as the cap, one beyond it, every disturbance.
CONSTANTS
    Durations = {4, 6}
    Cap = 4
    Grace = 1
    Echo = 1
    Timeout = 8
    MaxSentences = 2
    Disturbances = {"lost", "stop", "error", "throws"}
    MaxDisturbances = 2
SPECIFICATION OutputFairSpec
INVARIANTS
    OutputTypeOK
    ReportedMeansSilent
    PlayingIsNoticed
PROPERTY
    MicrophoneReturns
