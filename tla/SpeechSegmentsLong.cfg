\* Noises that are never confirmed.
CONSTANTS
    MinSpeech = 2
    MinSilence = 5
    Trailing = 3
    MinSegment = 5
    MaxSegment = 9
    MaxLag = 1
    Horizon = 10
SPECIFICATION SegmentsSpec
INVARIANT NeverTooLong
