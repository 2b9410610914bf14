---------------------------- MODULE SpeechSegments ----------------------------
(***************************************************************************)
(* How frames become segments: VADProcessor of VADBridge.kt and the        *)
(* collection of VoicePipelineManager.processAudioWithVAD.  VoicePipeline  *)
(* abstracts both to "a segment begins" and "a segment ends".              *)
(*                                                                         *)
(* Frames are delivered one at a time on the main thread; each is reduced  *)
(* to whether the VAD hears speech in it.  Durations are measured with the *)
(* wall clock while silence is also counted in frames: the recorder reads  *)
(* several frames at once, so a frame is handled with a lag that varies,   *)
(* and the time between two frames is 1 + lag' - lag, never negative.  A   *)
(* timestamp is kept as its age, in frames, while it may still be read.    *)
(*                                                                         *)
(* "AWAY" stands for every state in which a frame is dropped (THINKING,    *)
(* SPEAKING, IDLE, ERROR, and LISTENING while the loudspeaker sounds):     *)
(* each way back resets all of this module's state.  What the pre-speech   *)
(* buffer holds at a tap is a choice.                                      *)
(***************************************************************************)
EXTENDS Integers

CONSTANTS
    MinSpeech,   \* VADConfig.minSpeechDurationMs, in frames
    MinSilence,  \* VADConfig.minSilenceDurationMs
    Trailing,    \* TRAILING_SILENCE_FRAMES
    MinSegment,  \* MIN_SPEECH_MS
    MaxSegment,  \* MAX_SPEECH_MS
    MaxLag,      \* by how much a frame may be handled later than another
    Horizon      \* ages are not told apart from here on

ASSUME SegmentAssumption ==
    /\ {MinSpeech, MinSilence, Trailing, MinSegment, MaxSegment, Horizon} \subseteq Nat \ {0}
    /\ MaxLag \in Nat
    /\ Horizon > MaxSegment
    /\ MinSegment <= MaxSegment
    /\ Trailing + MaxLag < MinSegment

VARIABLES
    currentState,             \* of the pipeline
    vadState, speechAge,      \* VADProcessor: the state, the age of
    silenceAge,               \* speechStartTime (read in SPEECH_START) and of
                              \* silenceStartTime, from 1, or 0 for none
    isCollectingSpeech,
    segmentAge,               \* the age of the pipeline's speechStartTime
    consecutiveSilenceFrames,
    isProcessingSTT,
    lag,                      \* of the last frame
    voiced,                   \* how many voiced frames the segment has, up to MinSegment
    quiet,                    \* how many quiet frames came last, up to MinSilence
    cutShort,                 \* a tap dropped the segment while the VAD heard speech
    sent                      \* the last segment that was sent

vad == <<vadState, speechAge, silenceAge>>
segment == <<isCollectingSpeech, segmentAge, consecutiveSilenceFrames, voiced>>
segmentsVars == <<currentState, vad, segment, isProcessingSTT, lag, quiet, cutShort, sent>>

VADState == {"SILENCE", "SPEECH_START", "SPEECH", "SPEECH_END"}
Senders == {"nobody", "end", "forced", "tap", "stop"}

SegmentsInit ==
    /\ currentState = "LISTENING"
    /\ vadState = "SILENCE" /\ speechAge = 0 /\ silenceAge = 0
    /\ isCollectingSpeech = FALSE /\ segmentAge = 0
    /\ consecutiveSilenceFrames = 0 /\ voiced = 0
    /\ isProcessingSTT = FALSE
    /\ lag = 0 /\ quiet = 0 /\ cutShort = FALSE
    /\ sent = [by |-> "nobody", voiced |-> 0, quiet |-> 0]

UpTo(bound, n) == IF n > bound THEN bound ELSE n

Listening == currentState \in {"LISTENING", "SPEECH_DETECTED"}
-----------------------------------------------------------------------------
(* VADProcessor.process *)

Vad(state, speech, silence) ==
    [state |-> state, speechAge |-> UpTo(Horizon, speech), silenceAge |-> UpTo(MinSilence, silence)]

(* Mutant: speech that resumes does not clear the silence. *)
Resumed_KeepsSilence(dt) == Vad("SPEECH", 0, IF silenceAge = 0 THEN 0 ELSE silenceAge + dt)

(* Speech goes on, or resumes within the silence window. *)
Resumed(dt) == Vad("SPEECH", 0, 0)

(* The silence of a quiet frame in SPEECH, this frame included. *)
Silence(dt) == IF silenceAge = 0 THEN 1 ELSE silenceAge + dt

(* What a frame makes of the VAD; the new state is also what it returns. *)
Heard(speech, dt) ==
    CASE vadState = "SILENCE" -> Vad(IF speech THEN "SPEECH_START" ELSE "SILENCE", 0, 0)
      [] vadState = "SPEECH_START" ->
            IF ~speech THEN Vad("SILENCE", 0, 0)
            ELSE IF speechAge + dt >= MinSpeech THEN Vad("SPEECH", 0, 0)
            ELSE Vad("SPEECH_START", speechAge + dt, 0)
      [] vadState = "SPEECH" ->
            IF speech THEN Resumed(dt)
            ELSE IF Silence(dt) > MinSilence THEN Vad("SPEECH_END", 0, 0)
            ELSE Vad("SPEECH", 0, Silence(dt))
      [] OTHER -> Vad("SILENCE", 0, 0)

VadBecomes(next) ==
    /\ vadState' = next.state
    /\ speechAge' = next.speechAge
    /\ silenceAge' = next.silenceAge

VadReset == VadBecomes(Vad("SILENCE", 0, 0))
-----------------------------------------------------------------------------
(* Segments *)

(* processSpeechSegment: the buffer goes to a new STT job, unless one is   *)
(* still at work.  The collection goes on as it was.                       *)
ProcessSegment(by) ==
    IF isProcessingSTT THEN UNCHANGED <<isProcessingSTT, sent>>
    ELSE /\ isProcessingSTT' = TRUE
         /\ sent' = [by |-> by, voiced |-> voiced', quiet |-> quiet']

(* Mutant: the silence counted so far is kept. *)
DropSegment_KeepsCount ==
    /\ isCollectingSpeech' = FALSE
    /\ segmentAge' = 0
    /\ UNCHANGED consecutiveSilenceFrames

(* What is collected is given up. *)
DropSegment ==
    /\ isCollectingSpeech' = FALSE
    /\ segmentAge' = 0
    /\ consecutiveSilenceFrames' = 0

(* Mutant: the minimum duration is not looked at. *)
ForceEnd_AnyLength(by, age, silent) ==
    /\ ProcessSegment(by)
    /\ UNCHANGED isCollectingSpeech
    /\ segmentAge' = age
    /\ consecutiveSilenceFrames' = IF isProcessingSTT THEN silent ELSE 0
    /\ currentState' = IF isProcessingSTT THEN currentState ELSE "TRANSCRIBING"

(* forceEndSpeechSegment of a segment that is age old. *)
ForceEnd(by, age, silent) ==
    \/ /\ age >= MinSegment
       /\ ProcessSegment(by)
       /\ UNCHANGED isCollectingSpeech
       /\ segmentAge' = age
       /\ consecutiveSilenceFrames' = IF isProcessingSTT THEN silent ELSE 0
       /\ currentState' = IF isProcessingSTT THEN currentState ELSE "TRANSCRIBING"
    \/ /\ age < MinSegment
       /\ DropSegment
       /\ currentState' = "LISTENING"
       /\ UNCHANGED <<isProcessingSTT, sent>>
-----------------------------------------------------------------------------
(* processAudioWithVAD, by what the VAD returns *)

Age(dt) == UpTo(Horizon, segmentAge + dt)

(* SPEECH_START: a collection begins, or goes on with its own start time. *)
OnSpeechStart(dt) ==
    /\ isCollectingSpeech' = TRUE
    /\ consecutiveSilenceFrames' = 0
    /\ IF isCollectingSpeech
       THEN /\ segmentAge' = Age(dt)
            /\ voiced' = UpTo(MinSegment, voiced + 1)
            /\ UNCHANGED currentState
       ELSE /\ segmentAge' = 0
            /\ voiced' = 1
            /\ currentState' = "SPEECH_DETECTED"
    /\ UNCHANGED <<isProcessingSTT, sent>>

(* SPEECH: the segment grows, until it is too long. *)
OnSpeech(speech, dt) ==
    IF isCollectingSpeech
    THEN /\ voiced' = IF speech THEN UpTo(MinSegment, voiced + 1) ELSE voiced
         /\ \/ /\ Age(dt) > MaxSegment
               /\ ForceEnd("forced", Age(dt), 0)
            \/ /\ Age(dt) <= MaxSegment
               /\ segmentAge' = Age(dt)
               /\ consecutiveSilenceFrames' = 0
               /\ UNCHANGED <<currentState, isCollectingSpeech, isProcessingSTT, sent>>
    ELSE UNCHANGED <<currentState, segment, isProcessingSTT, sent>>

(* SPEECH_END: the segment is sent if it is long enough, then all is reset *)
(* and the pipeline listens on.                                            *)
OnSpeechEnd(dt) ==
    IF isCollectingSpeech
    THEN /\ UNCHANGED voiced
         /\ IF Age(dt) >= MinSegment THEN ProcessSegment("end")
            ELSE UNCHANGED <<isProcessingSTT, sent>>
         /\ DropSegment
         /\ currentState' = "LISTENING"
    ELSE UNCHANGED <<currentState, segment, isProcessingSTT, sent>>

(* Mutant: silence is not counted. *)
OnSilence_Waits(speech, dt) == UNCHANGED <<currentState, segment, isProcessingSTT, sent>>

(* SILENCE: enough of it in a row ends a collection that was never         *)
(* confirmed.                                                              *)
OnSilence(speech, dt) ==
    IF isCollectingSpeech
    THEN LET silent == UpTo(Trailing, consecutiveSilenceFrames + 1) IN
         /\ UNCHANGED voiced
         /\ \/ /\ silent >= Trailing
               /\ ForceEnd("forced", Age(dt), silent)
            \/ /\ silent < Trailing
               /\ segmentAge' = Age(dt)
               /\ consecutiveSilenceFrames' = silent
               /\ UNCHANGED <<currentState, isCollectingSpeech, isProcessingSTT, sent>>
    ELSE UNCHANGED <<currentState, segment, isProcessingSTT, sent>>

(* SPEECH_END of a collection resets the VAD at once. *)
AfterFrame(next) ==
    IF next.state = "SPEECH_END" /\ isCollectingSpeech THEN VadReset ELSE VadBecomes(next)

(* One frame, handled while the pipeline listens. *)
Frame(speech) ==
    /\ Listening
    /\ quiet' = IF speech THEN 0 ELSE UpTo(MinSilence, quiet + 1)
    /\ \E late \in {l \in 0 .. MaxLag : l + 1 >= lag} :
          LET dt == 1 + late - lag
              next == Heard(speech, dt)
          IN  /\ lag' = late
              /\ AfterFrame(next)
              /\ \/ next.state = "SPEECH_START" /\ OnSpeechStart(dt)
                 \/ next.state = "SPEECH" /\ OnSpeech(speech, dt)
                 \/ next.state = "SPEECH_END" /\ OnSpeechEnd(dt)
                 \/ next.state = "SILENCE" /\ OnSilence(speech, dt)
    /\ cutShort' = (cutShort /\ vadState' \in {"SPEECH_START", "SPEECH"})

Voiced == Frame(TRUE)
Quiet == Frame(FALSE)
-----------------------------------------------------------------------------
(* What else happens to a collection *)

(* forceStopAndProcess of a collection: the segment is ended as it is.     *)
TapCollecting ==
    /\ Listening /\ isCollectingSpeech
    /\ UNCHANGED <<vad, lag, voiced, quiet>>
    /\ ForceEnd("tap", segmentAge, consecutiveSilenceFrames)
    /\ cutShort' = (vadState \in {"SPEECH_START", "SPEECH"} /\ ~isCollectingSpeech')

(* Without one, the audio heard last is sent. *)
TapWaiting ==
    /\ Listening /\ ~isCollectingSpeech
    /\ UNCHANGED <<vad, segment, lag, quiet, cutShort>>
    /\ ProcessSegment("tap")
    /\ currentState' = IF isProcessingSTT THEN currentState ELSE "TRANSCRIBING"

(* stopConversation, also for a tap with too little audio: a collection is *)
(* sent as it is.  The VAD is not reset.                                   *)
Stop ==
    /\ Listening
    /\ IF isCollectingSpeech /\ ~isProcessingSTT
       THEN sent' = [by |-> "stop", voiced |-> voiced, quiet |-> quiet]
       ELSE UNCHANGED sent
    /\ isProcessingSTT' = FALSE
    /\ DropSegment
    /\ currentState' = "AWAY"
    /\ UNCHANGED <<vad, lag, voiced, quiet, cutShort>>

(* The STT job has text, or fails: the pipeline thinks, or shows the error. *)
SttEnds ==
    /\ isProcessingSTT
    /\ isProcessingSTT' = FALSE
    /\ currentState' = "AWAY"
    /\ UNCHANGED <<vad, segment, lag, quiet, cutShort, sent>>

(* Mutant: the VAD goes on where it was. *)
Listen_KeepsVad ==
    /\ UNCHANGED vad
    /\ DropSegment
    /\ voiced' = 0
    /\ isProcessingSTT' = FALSE
    /\ cutShort' = FALSE
    /\ currentState' = "LISTENING"
    /\ UNCHANGED <<lag, quiet, sent>>

(* restartListening (after blank text or the listening timeout), the end   *)
(* of awaitCompletionAndListen, restartForNewQuestion and                  *)
(* startVoiceConversation: all is reset and the pipeline listens.          *)
Listen ==
    /\ VadReset
    /\ DropSegment
    /\ voiced' = 0
    /\ isProcessingSTT' = FALSE
    /\ cutShort' = FALSE
    /\ currentState' = "LISTENING"
    /\ UNCHANGED <<lag, quiet, sent>>

SegmentsNext ==
    \/ Voiced \/ Quiet
    \/ TapCollecting \/ TapWaiting \/ Stop
    \/ SttEnds \/ Listen

SegmentsSpec == SegmentsInit /\ [][SegmentsNext]_segmentsVars

(* Frames keep coming while the pipeline listens, a transcription ends,    *)
(* and every way out of listening leads back (VoicePipeline).              *)
SegmentsFairSpec ==
    /\ SegmentsSpec
    /\ WF_segmentsVars(Voiced \/ Quiet)
    /\ WF_segmentsVars(SttEnds)
    /\ WF_segmentsVars(~Listening /\ Listen)
-----------------------------------------------------------------------------
(* Every variable is of its type, and silence is counted for a collection only. *)
SegmentsTypeOK ==
    /\ currentState \in {"LISTENING", "SPEECH_DETECTED", "TRANSCRIBING", "AWAY"}
    /\ vadState \in VADState
    /\ speechAge \in 0 .. Horizon /\ silenceAge \in 0 .. MinSilence
    /\ isCollectingSpeech \in BOOLEAN
    /\ segmentAge \in 0 .. Horizon
    /\ consecutiveSilenceFrames \in 0 .. Trailing
    /\ isProcessingSTT \in BOOLEAN
    /\ lag \in 0 .. MaxLag
    /\ voiced \in 0 .. MinSegment /\ quiet \in 0 .. MinSilence
    /\ cutShort \in BOOLEAN
    /\ sent \in [by : Senders, voiced : 0 .. MinSegment, quiet : 0 .. MinSilence]
    /\ isCollectingSpeech \/ consecutiveSilenceFrames = 0

(* What the pipeline sends by itself holds more than one voiced frame: a   *)
(* single noise is dropped, whichever of the two automata ends the segment *)
(* and however late its frames are handled, up to MaxLag: the assumption   *)
(* keeps it below MinSegment - Trailing, which the code does not enforce.  *)
NoiseIsDropped == sent.by \in {"end", "forced"} => sent.voiced >= 2

(* A segment ended by the VAD ends with uninterrupted silence; the clock   *)
(* may count the lag of the frames as silence.                             *)
EndsWithSilence == sent.by = "end" => sent.quiet >= MinSilence - MaxLag

(* The two automata stay in step: speech the VAD hears is being collected, *)
(* unless a tap has dropped the segment it belongs to.                     *)
SpeechIsCollected ==
    Listening /\ vadState \in {"SPEECH_START", "SPEECH"} /\ ~cutShort => isCollectingSpeech

(* What the two clocks, wall clock and frames, have to do with each other: *)
(* a segment of one voiced frame is no older than its silence and the lag, *)
(* and a silence is as old as its frames and the lag.                      *)
Clocks ==
    /\ isCollectingSpeech => voiced >= 1
    /\ isCollectingSpeech /\ vadState \in {"SPEECH", "SPEECH_END"} => voiced >= 2
    /\ isCollectingSpeech /\ voiced = 1 =>
          consecutiveSilenceFrames < Trailing /\ segmentAge <= consecutiveSilenceFrames + lag
    /\ vadState = "SPEECH" => quiet = MinSilence \/ silenceAge <= quiet + lag

(* The inductive invariant. *)
SegmentInv == SegmentsTypeOK /\ Clocks /\ SpeechIsCollected /\ NoiseIsDropped /\ EndsWithSilence

(* A collection ends, unless the VAD hears speech again and again. *)
CollectionEnds == []<>~isCollectingSpeech \/ []<><<Voiced>>_segmentsVars

(* "MIN_SPEECH_MS: Minimum 0.8 seconds of speech": the clock also counts  *)
(* the silence, so a short noise that is confirmed, or repeated, is sent.  *)
MinimumSpeech == sent.by \in {"end", "forced"} => sent.voiced >= MinSegment - MaxLag

(* "MAX_SPEECH_MS: Force stop after 10 seconds": noises that are never     *)
(* confirmed prolong a collection for ever.                                *)
NeverTooLong == isCollectingSpeech /\ Listening /\ ~isProcessingSTT => segmentAge <= MaxSegment
=============================================================================
