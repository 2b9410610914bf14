\* Durations in the order of the code's: 7, 25, 18, 25 and 313 frames.
CONSTANTS
    MinSpeech = 2
    MinSilence = 5
    Trailing = 3
    MinSegment = 5
    MaxSegment = 9
    MaxLag = 1
    Horizon = 10
SPECIFICATION SegmentsFairSpec
INVARIANTS
    SegmentsTypeOK
    NoiseIsDropped
    EndsWithSilence
    SpeechIsCollected
PROPERTY CollectionEnds
