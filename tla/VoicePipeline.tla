---------------------------- MODULE VoicePipeline ----------------------------
(***************************************************************************)
(* VoicePipelineManager.kt with an LLMProvider: microphone and VAD, the    *)
(* transcription (STT), generation (LLM) and speech (TTS) jobs of a        *)
(* question, and the coroutines that bring the pipeline back to LISTENING. *)
(*                                                                         *)
(* Audio callbacks and the user interface run on the main thread; jobs and *)
(* coroutines run on a pool, without a lock.  A step is the code between   *)
(* two suspension points of a coroutine, or a whole callback, with two     *)
(* exceptions, where other threads may go on in the middle: the blocking   *)
(* clearContext in restartListening, with the microphone still on          *)
(* ("slowClear"), and a frame that has passed the checks of                *)
(* processAudioWithVAD ("race").  Cancelling a job takes effect at its     *)
(* next suspension point, where its catch and finally blocks run; a job    *)
(* cancelled before it was dispatched runs nothing.                        *)
(*                                                                         *)
(* Audio is abstracted to whether a segment is being collected (the speech *)
(* buffer is then not empty), text to whether the answer is blank, and     *)
(* times to choices: a segment is long enough or not, a timer fires or     *)
(* not.  isComplete is the last element of the provider's flow.  The short *)
(* delay(50) of startRecording and the user interface callbacks after a    *)
(* token or an answer are not steps, a coroutine that is launched again    *)
(* before it began counts once, and X is not pressed again before the      *)
(* restart of the last X has opened the microphone.  Barge-in cannot       *)
(* happen: SPEAKING returns before it is looked at.  The queue path        *)
(* without a provider is not modelled.                                     *)
(***************************************************************************)
EXTENDS Integers, FiniteSets

CONSTANTS
    SttJobs, LlmJobs, TtsJobs,  \* job objects, reused once they have ended
    NoJob,
    Disturbances,               \* what may come between, see AllDisturbances
    MaxDisturbances,            \* and how often
    MaxSpoken                   \* how often somebody speaks

AllDisturbances ==
    {"interrupt",         \* the user presses X
     "tap",               \* the user taps the orb
     "leave",             \* the user leaves voice mode, or audio focus is lost
     "listeningTimeout",  \* MAX_LISTENING_TIME_MS passes without speech
     "waitTimeout",       \* 90 s pass in awaitCompletionAndListen
     "llmFails",          \* the provider throws or reports an error
     "micFails",          \* the recorder cannot be started
     "micBreaks",         \* a read error ends the recorder's loop
     "race",              \* a frame is handled while the pool goes on
     "slowClear",         \* clearContext of a restart takes its time
     "ttsNotReady"}       \* the TTS engine has to be initialised again

Jobs == SttJobs \cup LlmJobs \cup TtsJobs

ASSUME JobsAssumption ==
    /\ SttJobs \cap LlmJobs = {} /\ SttJobs \cap TtsJobs = {} /\ LlmJobs \cap TtsJobs = {}
    /\ NoJob \notin Jobs
    /\ Disturbances \subseteq AllDisturbances
    /\ MaxDisturbances \in Nat /\ MaxSpoken \in Nat

VARIABLES
    voiceMode,              \* isVoiceModeActive of the activity
    isRunning,
    currentState,           \* the PipelineState
    recording,              \* isRecording of the audio recorder
    broken,                 \* its loop has ended all the same
    frame,                  \* a frame that has passed the checks ("passed"),
                            \* or has sent its segment ("ending")
    openers,                \* launched coroutines that will turn it on: the one
                            \* pipelineJob names ("tracked"), others ("lost")
    isCollectingSpeech,
    isProcessingSTT,
    phase,                  \* where each job is
    cancelled,              \* jobs that were cancelled and have not ended
    crossed,                \* a segment crossed a restart, see Crosses
    sttJob, llmProviderJob, streamingTTSJob,
    isStreamingTTSActive,
    isLLMResponseComplete,
    answered,               \* finalBubbleText is not blank
    sounding,               \* kokoroTTS.isSpeaking()
    starting,               \* startVoiceConversation's coroutine is launched
    reopening,              \* restartForNewQuestion's: "none", "begin", "open"
    restarting,             \* a restartListening of its own: "none",
                            \* "launched", "clearing", "delay"
    waiting,                \* completionWaitJob is active
    reinitialising,         \* ensureReady runs before startStreamingTTS
    spoken, left,           \* how often somebody has spoken, and the
                            \* disturbances still to come (bounds)
    orderly                 \* none has come that is not Harmless

disturbed == <<left, orderly>>
user == <<voiceMode, spoken, disturbed>>
mic == <<recording, openers, broken>>
speech == <<isCollectingSpeech, isProcessingSTT>>
jobs == <<phase, cancelled, crossed>>
pointers == <<sttJob, llmProviderJob, streamingTTSJob>>
flags == <<isStreamingTTSActive, isLLMResponseComplete>>
output == <<answered, sounding>>
coroutines == <<starting, reopening, restarting, waiting, reinitialising>>
vars == <<user, isRunning, currentState, mic, frame, speech, jobs, pointers, flags,
          output, coroutines>>

SttPhases == {"none", "launched", "transcribing", "heard", "clearing", "restarting"}
LlmPhases == {"none", "launched", "streaming", "backoff", "clearing", "clearingLast",
              "restarting", "restartingLast"}
TtsPhases == {"none", "launched", "talking", "draining"}

Init ==
    /\ voiceMode = FALSE /\ isRunning = FALSE /\ currentState = "IDLE"
    /\ recording = FALSE /\ openers = {} /\ broken = FALSE /\ frame = "none"
    /\ isCollectingSpeech = FALSE /\ isProcessingSTT = FALSE
    /\ phase = [j \in Jobs |-> "none"] /\ cancelled = {} /\ crossed = FALSE
    /\ sttJob = NoJob /\ llmProviderJob = NoJob /\ streamingTTSJob = NoJob
    /\ isStreamingTTSActive = FALSE /\ isLLMResponseComplete = FALSE
    /\ answered = FALSE /\ sounding = FALSE
    /\ starting = FALSE /\ reopening = "none" /\ restarting = "none"
    /\ waiting = FALSE /\ reinitialising = FALSE
    /\ spoken = 0 /\ left = MaxDisturbances /\ orderly = TRUE

(* Taps, a recorder that fails, and a restart that is slow. *)
Harmless == {"tap", "micFails", "micBreaks", "slowClear"}

Disturb(d) ==
    /\ d \in Disturbances
    /\ left > 0 /\ left' = left - 1
    /\ orderly' = (orderly /\ d \in Harmless)

-----------------------------------------------------------------------------
(* Jobs *)

(* Some restartListening is in clearContext. *)
Clearing == restarting = "clearing" \/ \E j \in Jobs : phase[j] \in {"clearing", "clearingLast"}

(* isRestarting: some restartListening is past its compareAndSet. *)
IsRestarting ==
    Clearing \/ restarting = "delay" \/ \E j \in Jobs : phase[j] \in {"restarting", "restartingLast"}

(* A segment is sent during a restart, or its text while the context is    *)
(* being cleared.                                                          *)
Crosses(moves) ==
    \E j \in DOMAIN moves :
        /\ moves[j] = "launched"
        /\ (j \in SttJobs /\ IsRestarting) \/ (j \in LlmJobs /\ Clearing)

(* Mutant: a job cancelled before it was dispatched is kept. *)
JobStep_KeepsLaunched(S, moves) ==
    /\ phase' = [j \in Jobs |-> IF j \in DOMAIN moves THEN moves[j] ELSE phase[j]]
    /\ cancelled' = {j \in cancelled \cup S : phase'[j] # "none"}
    /\ crossed' = (crossed \/ Crosses(moves))

(* Cancel the jobs of S and move those of the function moves. *)
JobStep(S, moves) ==
    /\ phase' = [j \in Jobs |->
                   IF j \in DOMAIN moves THEN moves[j]
                   ELSE IF j \in S /\ phase[j] = "launched" THEN "none"
                   ELSE phase[j]]
    /\ cancelled' = {j \in cancelled \cup S : phase'[j] # "none"}
    /\ crossed' = (crossed \/ Crosses(moves))

Move(j, to) == [k \in {j} |-> to]
NoMoves == [k \in {} |-> "none"]
(* A job object for a new job; it does not matter which. *)
New(S) == {j \in S : phase[j] = "none" /\ j = CHOOSE k \in S : phase[k] = "none"}
Runs(j, at) == phase[j] = at /\ j \notin cancelled
(* A frame is handled, and a job cancelled in a delay ends, before a call  *)
(* of the recogniser or of the provider returns and before somebody has    *)
(* spoken a segment; a job cancelled inside such a call, or in             *)
(* clearContext, waits for it.                                             *)
Prompt ==
    /\ frame = "none"
    /\ \A j \in cancelled : phase[j] \in {"transcribing", "streaming", "clearing", "clearingLast"}
Returns(j, at) == Runs(j, at) /\ Prompt
Active(j) == j # NoJob /\ phase[j] # "none" /\ j \notin cancelled

-----------------------------------------------------------------------------
(* The pieces the handlers are made of *)

(* transitionToListening and transitionToListeningImmediate. *)
ToListening(running) ==
    /\ isStreamingTTSActive' = FALSE /\ isLLMResponseComplete' = FALSE
    /\ currentState' = IF running THEN "LISTENING" ELSE currentState

StopRecording == recording' = FALSE /\ broken' = FALSE /\ openers' = openers \ {"tracked"}

Untracked == IF ~recording /\ "tracked" \in openers THEN {"lost"} ELSE openers \ {"tracked"}

(* startRecording: a recorder that is on is stopped with its coroutine,    *)
(* and a new coroutine launched that turns it on.                          *)
LaunchOpener ==
    /\ recording' = FALSE /\ broken' = FALSE
    /\ openers' = {"tracked"} \cup Untracked

StartRecording ==
    /\ LaunchOpener
    /\ IF currentState = "LISTENING" THEN UNCHANGED <<currentState, flags>>
       ELSE ToListening(isRunning)

(* startVoiceConversation *)
StartVoice ==
    IF isRunning
    THEN UNCHANGED <<isRunning, currentState, isCollectingSpeech, flags, starting>>
    ELSE /\ isRunning' = TRUE
         /\ isCollectingSpeech' = FALSE
         /\ ToListening(TRUE)
         /\ starting' = TRUE

(* Mutant: isProcessingSTT is not looked at. *)
SendToSTT_Always ==
    \E j \in New(SttJobs) :
        /\ JobStep({}, Move(j, "launched"))
        /\ sttJob' = j

(* processSpeechSegment: a segment is ignored while another is transcribed. *)
SendToSTT ==
    IF isProcessingSTT THEN UNCHANGED <<jobs, sttJob>>
    ELSE \E j \in New(SttJobs) :
            /\ JobStep({}, Move(j, "launched"))
            /\ sttJob' = j

Transcribing == IF isProcessingSTT THEN currentState ELSE "TRANSCRIBING"

(* forceEndSpeechSegment of a segment that is long enough: what was        *)
(* collected stays.                                                        *)
ForceEndLong ==
    /\ SendToSTT
    /\ currentState' = Transcribing
    /\ isProcessingSTT' = TRUE
    /\ UNCHANGED <<isCollectingSpeech, flags>>

ForceEndShort ==
    /\ isCollectingSpeech' = FALSE
    /\ ToListening(isRunning)
    /\ UNCHANGED <<isProcessingSTT, jobs, sttJob>>

(* stopConversation, with what was collected sent to the STT first. *)
StopConversation ==
    IF ~isRunning
    THEN UNCHANGED <<isRunning, currentState, mic, speech, jobs, sttJob, flags>>
    ELSE /\ isRunning' = FALSE
         /\ IF isCollectingSpeech /\ ~isProcessingSTT
            THEN SendToSTT /\ currentState' = "TRANSCRIBING"
            ELSE UNCHANGED <<jobs, sttJob>> /\ currentState' = "IDLE"
         /\ isCollectingSpeech' = FALSE /\ isProcessingSTT' = FALSE
         /\ isLLMResponseComplete' = FALSE
         /\ StopRecording
         /\ UNCHANGED isStreamingTTSActive

(* The first part of restartListening, up to clearContext. *)
ResetForRestart(moves) ==
    /\ waiting' = FALSE
    /\ JobStep({streamingTTSJob} \ {NoJob}, moves)
    /\ streamingTTSJob' = NoJob
    /\ isStreamingTTSActive' = FALSE /\ isLLMResponseComplete' = FALSE
    /\ isCollectingSpeech' = FALSE /\ isProcessingSTT' = FALSE

MayRestart == ~IsRestarting /\ isRunning

(* restartListening in the job j, up to delay(200): the recorder is        *)
(* stopped once the context is clear, which others may not wait for.       *)
BeginRestart(j, to) ==
    \/ /\ ResetForRestart(Move(j, to))
       /\ StopRecording
       /\ UNCHANGED disturbed
    \/ /\ Disturb("slowClear")
       /\ ResetForRestart(Move(j, IF to = "restarting" THEN "clearing" ELSE "clearingLast"))
       /\ UNCHANGED mic

RestartStops(j) ==
    /\ \/ phase[j] = "clearing" /\ JobStep({}, Move(j, "restarting"))
       \/ phase[j] = "clearingLast" /\ JobStep({}, Move(j, "restartingLast"))
    /\ StopRecording
    /\ UNCHANGED <<user, isRunning, currentState, frame, speech, pointers, flags,
                   output, coroutines>>

(* The last part: startRecording and transitionToListening. *)
EndRestart == LaunchOpener /\ ToListening(isRunning)

TtsIdle == ~isStreamingTTSActive /\ ~Active(streamingTTSJob)

(* Mutant: what was being collected goes on being collected. *)
StartSpeaking_KeepsCollecting(moves) ==
    \E k \in New(TtsJobs) :
        /\ JobStep({}, [j \in {k} \cup DOMAIN moves |-> IF j = k THEN "launched" ELSE moves[j]])
        /\ streamingTTSJob' = k
        /\ isStreamingTTSActive' = TRUE
        /\ currentState' = "SPEAKING"
        /\ UNCHANGED <<isCollectingSpeech, reinitialising, disturbed>>

(* startStreamingTTS with a ready engine, in a step that also moves the    *)
(* calling job.                                                            *)
StartSpeaking(moves) ==
    \E k \in New(TtsJobs) :
        /\ JobStep({}, [j \in {k} \cup DOMAIN moves |-> IF j = k THEN "launched" ELSE moves[j]])
        /\ streamingTTSJob' = k
        /\ isStreamingTTSActive' = TRUE
        /\ currentState' = "SPEAKING"
        /\ isCollectingSpeech' = FALSE
        /\ UNCHANGED <<reinitialising, disturbed>>

(* Nothing is spoken in this step; the caller leaves the given state. *)
NotSpeaking(moves, state) ==
    /\ JobStep({}, moves)
    /\ currentState' = state
    /\ UNCHANGED <<streamingTTSJob, isStreamingTTSActive, isCollectingSpeech>>

(* startStreamingTTS of an engine that may first have to be initialised. *)
StartTTS(moves, state) ==
    \/ StartSpeaking(moves)
    \/ /\ Disturb("ttsNotReady")
       /\ NotSpeaking(moves, state)
       /\ reinitialising' = TRUE

-----------------------------------------------------------------------------
(* The user *)

(* Entering voice mode: startVoiceConversation. *)
EnterVoiceMode ==
    /\ ~voiceMode /\ frame = "none"
    /\ voiceMode' = TRUE
    /\ StartVoice
    /\ UNCHANGED <<spoken, disturbed, mic, frame, isProcessingSTT, jobs, pointers,
                   output, reopening, restarting, waiting, reinitialising>>

(* Leaving voice mode, by the orb or otherwise. *)
LeaveVoiceMode ==
    /\ Disturb("leave")
    /\ voiceMode /\ frame = "none"
    /\ voiceMode' = FALSE
    /\ StopConversation
    /\ UNCHANGED <<spoken, frame, llmProviderJob, streamingTTSJob, output, coroutines>>

(* AUDIOFOCUS_LOSS *)
LoseAudioFocus ==
    /\ Disturb("leave")
    /\ isRunning /\ frame = "none"
    /\ StopConversation
    /\ UNCHANGED <<voiceMode, spoken, frame, llmProviderJob, streamingTTSJob, output,
                   coroutines>>

(* A tap on the orb while it listens: forceStopAndProcess. *)
TapOrb ==
    /\ Disturb("tap")
    /\ voiceMode /\ frame = "none"
    /\ currentState \in {"LISTENING", "SPEECH_DETECTED"}
    /\ \/ /\ isCollectingSpeech
          /\ ForceEndLong \/ ForceEndShort
          /\ UNCHANGED <<isRunning, mic>>
       \/ /\ ~isCollectingSpeech /\ recording
          /\ ForceEndLong
          /\ UNCHANGED <<isRunning, mic>>
       \/ /\ ~isCollectingSpeech
          /\ StopConversation
    /\ UNCHANGED <<voiceMode, spoken, frame, llmProviderJob, streamingTTSJob, output,
                   coroutines>>

(* Mutant: isProcessingSTT is not reset. *)
Interrupt_KeepsFlag ==
    /\ Disturb("interrupt")
    /\ voiceMode /\ frame = "none"
    /\ reopening = "none"
    /\ JobStep({sttJob, llmProviderJob, streamingTTSJob} \ {NoJob}, NoMoves)
    /\ sttJob' = NoJob /\ llmProviderJob' = NoJob /\ streamingTTSJob' = NoJob
    /\ isStreamingTTSActive' = FALSE /\ isLLMResponseComplete' = FALSE
    /\ isCollectingSpeech' = FALSE
    /\ reopening' = "begin"
    /\ UNCHANGED <<voiceMode, spoken, isRunning, currentState, mic, frame,
                   isProcessingSTT, output, starting, restarting, waiting,
                   reinitialising>>

(* The X button: restartForNewQuestion cancels the jobs, resets the flags  *)
(* and launches a coroutine that opens the microphone again.               *)
Interrupt ==
    /\ Disturb("interrupt")
    /\ voiceMode /\ frame = "none"
    /\ reopening = "none"
    /\ JobStep({sttJob, llmProviderJob, streamingTTSJob} \ {NoJob}, NoMoves)
    /\ sttJob' = NoJob /\ llmProviderJob' = NoJob /\ streamingTTSJob' = NoJob
    /\ isStreamingTTSActive' = FALSE /\ isLLMResponseComplete' = FALSE
    /\ isCollectingSpeech' = FALSE /\ isProcessingSTT' = FALSE
    /\ reopening' = "begin"
    /\ UNCHANGED <<voiceMode, spoken, isRunning, currentState, mic, frame, output,
                   starting, restarting, waiting, reinitialising>>

-----------------------------------------------------------------------------
(* The microphone *)

(* Frames come, and pass the checks of processAudioWithVAD. *)
Heard ==
    /\ recording /\ ~broken /\ isRunning /\ ~sounding
    /\ currentState \in {"LISTENING", "SPEECH_DETECTED"}

(* A frame passes the checks, and the rest of it is handled later. *)
FramePasses ==
    /\ Disturb("race")
    /\ frame = "none" /\ Heard
    /\ frame' = "passed"
    /\ UNCHANGED <<voiceMode, spoken, isRunning, currentState, mic, speech, jobs,
                   pointers, flags, output, coroutines>>

(* A frame reaches the VAD. *)
Frame == frame = "passed" \/ (frame = "none" /\ Heard)

SpeechStart ==
    /\ Frame
    /\ ~isCollectingSpeech
    /\ spoken < MaxSpoken
    /\ spoken' = spoken + 1
    /\ isCollectingSpeech' = TRUE
    /\ currentState' = "SPEECH_DETECTED"
    /\ frame' = "none"
    /\ UNCHANGED <<voiceMode, disturbed, isRunning, mic, isProcessingSTT, jobs,
                   pointers, flags, output, coroutines>>

(* A frame ends the segment that is collected. *)
LastFrame == Frame /\ isCollectingSpeech /\ (frame = "none" => Prompt)

(* SPEECH_END: the segment is sent, or is too short, and the pipeline      *)
(* returns to LISTENING at once, or later if others go on meanwhile.       *)
SpeechEnd ==
    /\ LastFrame
    /\ \/ /\ SendToSTT /\ isProcessingSTT' = TRUE
          /\ frame = "passed"
          /\ frame' = "ending"
          /\ currentState' = Transcribing
          /\ UNCHANGED <<isCollectingSpeech, flags>>
       \/ /\ \/ SendToSTT /\ isProcessingSTT' = TRUE
             \/ UNCHANGED <<jobs, sttJob, isProcessingSTT>>
          /\ frame' = "none"
          /\ isCollectingSpeech' = FALSE
          /\ ToListening(isRunning)
    /\ UNCHANGED <<user, isRunning, mic, llmProviderJob, streamingTTSJob, output,
                   coroutines>>

SegmentEnds ==
    /\ frame = "ending"
    /\ frame' = "none"
    /\ isCollectingSpeech' = FALSE
    /\ ToListening(isRunning)
    /\ UNCHANGED <<user, isRunning, mic, isProcessingSTT, jobs, pointers, output,
                   coroutines>>

(* Trailing silence, or MAX_SPEECH_MS: forceEndSpeechSegment. *)
SpeechForcedToEnd ==
    /\ LastFrame
    /\ frame' = "none"
    /\ ForceEndLong \/ ForceEndShort
    /\ UNCHANGED <<user, isRunning, mic, llmProviderJob, streamingTTSJob, output,
                   coroutines>>

(* A frame that neither begins nor ends a segment. *)
FrameChangesNothing ==
    /\ frame = "passed"
    /\ frame' = "none"
    /\ UNCHANGED <<user, isRunning, currentState, mic, speech, jobs, pointers, flags,
                   output, coroutines>>

(* MAX_LISTENING_TIME_MS without speech: a restart is launched. *)
ListeningTimeout ==
    /\ Disturb("listeningTimeout")
    /\ frame = "none" /\ Heard
    /\ currentState = "LISTENING" /\ ~isCollectingSpeech /\ ~IsRestarting
    /\ restarting' = "launched"
    /\ UNCHANGED <<voiceMode, spoken, isRunning, currentState, mic, frame, speech, jobs,
                   pointers, flags, output, starting, reopening, waiting,
                   reinitialising>>

(* The coroutine of startRecording: the recorder starts, or is on already, *)
(* or fails and the pipeline stops running.                                *)
OpenMic(o) ==
    /\ o \in openers
    /\ openers' = openers \ {o}
    /\ \/ recording' = TRUE /\ UNCHANGED <<isRunning, disturbed>>
       \/ /\ Disturb("micFails")
          /\ ~recording
          /\ isRunning' = FALSE /\ UNCHANGED recording
    /\ UNCHANGED <<voiceMode, spoken, currentState, broken, frame, speech, jobs,
                   pointers, flags, output, coroutines>>

(* A read error ends the loop of the recorder, which still says that it is *)
(* recording.                                                              *)
MicBreaks ==
    /\ Disturb("micBreaks")
    /\ recording /\ ~broken
    /\ broken' = TRUE
    /\ UNCHANGED <<voiceMode, spoken, isRunning, currentState, recording, openers,
                   frame, speech, jobs, pointers, flags, output, coroutines>>

-----------------------------------------------------------------------------
(* The coroutines that open the microphone *)

(* startVoiceConversation's: startRecording, whether still running or not. *)
RunStarting ==
    /\ starting
    /\ starting' = FALSE
    /\ StartRecording
    /\ UNCHANGED <<user, frame, isRunning, speech, jobs, pointers, output, reopening,
                   restarting, waiting, reinitialising>>

(* restartForNewQuestion's: the recorder is stopped, ... *)
ReopenStops ==
    /\ reopening = "begin"
    /\ reopening' = "open"
    /\ recording' = FALSE /\ broken' = FALSE
    /\ UNCHANGED <<user, frame, isRunning, currentState, openers, speech, jobs,
                   pointers, flags, output, starting, restarting, waiting,
                   reinitialising>>

(* ... then started again and the state set to LISTENING; a pipeline that  *)
(* has been stopped meanwhile is started.                                  *)
ReopenStarts ==
    /\ reopening = "open"
    /\ reopening' = "none"
    /\ IF isRunning
       THEN /\ LaunchOpener
            /\ IF currentState = "LISTENING" THEN UNCHANGED flags
               ELSE isStreamingTTSActive' = FALSE /\ isLLMResponseComplete' = FALSE
            /\ currentState' = "LISTENING"
            /\ UNCHANGED <<isRunning, isCollectingSpeech, starting>>
       ELSE StartVoice /\ UNCHANGED mic
    /\ UNCHANGED <<user, frame, isProcessingSTT, jobs, pointers, output, restarting,
                   waiting, reinitialising>>

(* A restartListening launched on its own. *)
RestartBegins ==
    /\ restarting = "launched"
    /\ \/ MayRestart /\ ResetForRestart(NoMoves) /\ StopRecording
          /\ restarting' = "delay"
          /\ UNCHANGED disturbed
       \/ MayRestart /\ ResetForRestart(NoMoves) /\ UNCHANGED mic
          /\ restarting' = "clearing"
          /\ Disturb("slowClear")
       \/ ~MayRestart
          /\ restarting' = "none"
          /\ UNCHANGED <<disturbed, mic, speech, jobs, streamingTTSJob, flags, waiting>>
    /\ UNCHANGED <<voiceMode, spoken, frame, isRunning, currentState, sttJob,
                   llmProviderJob, output, starting, reopening, reinitialising>>

RestartGoesOn ==
    /\ restarting = "clearing"
    /\ restarting' = "delay"
    /\ StopRecording
    /\ UNCHANGED <<user, frame, isRunning, currentState, speech, jobs, pointers, flags,
                   output, starting, reopening, waiting, reinitialising>>

RestartEnds ==
    /\ restarting = "delay"
    /\ restarting' = "none"
    /\ EndRestart
    /\ UNCHANGED <<user, frame, isRunning, speech, jobs, pointers, output, starting,
                   reopening, waiting, reinitialising>>

(* awaitCompletionAndListen: generation and speech are over, or 90 s have  *)
(* passed, at the latest once no job is left; a pipeline that still runs   *)
(* listens again.                                                          *)
CompletionAwaited ==
    /\ waiting
    /\ \/ isLLMResponseComplete /\ TtsIdle /\ ~sounding /\ UNCHANGED disturbed
       \/ (\A j \in LlmJobs \cup TtsJobs : phase[j] = "none") /\ UNCHANGED disturbed
       \/ Disturb("waitTimeout")
    /\ waiting' = FALSE
    /\ IF isRunning
       THEN /\ isCollectingSpeech' = FALSE /\ isProcessingSTT' = FALSE
            /\ currentState' = "LISTENING"
            /\ IF recording THEN UNCHANGED mic ELSE LaunchOpener
       ELSE UNCHANGED <<speech, currentState, mic>>
    /\ UNCHANGED <<voiceMode, spoken, frame, isRunning, jobs, pointers, flags, output,
                   starting, reopening, restarting, reinitialising>>

(* ensureReady has ended: startStreamingTTS is called again, or the user   *)
(* is told.                                                                *)
Reinitialised ==
    /\ reinitialising
    /\ reinitialising' = FALSE
    /\ \/ /\ TtsIdle
          /\ \E k \in New(TtsJobs) :
                /\ JobStep({}, Move(k, "launched"))
                /\ streamingTTSJob' = k
          /\ isStreamingTTSActive' = TRUE
          /\ currentState' = "SPEAKING"
          /\ isCollectingSpeech' = FALSE
       \/ UNCHANGED <<jobs, streamingTTSJob, isStreamingTTSActive, currentState,
                      isCollectingSpeech>>
    /\ UNCHANGED <<user, frame, isRunning, mic, isProcessingSTT, sttJob, llmProviderJob,
                   isLLMResponseComplete, output, starting, reopening, restarting,
                   waiting>>

-----------------------------------------------------------------------------
(* The STT job *)

SttDispatch(j) ==
    /\ phase[j] = "launched"
    /\ JobStep({}, Move(j, "transcribing"))
    /\ UNCHANGED <<user, frame, isRunning, currentState, mic, speech, pointers, flags,
                   output, coroutines>>

(* nativeTranscribe returns a text, which is shown on the main thread. *)
SttText(j) ==
    /\ Returns(j, "transcribing")
    /\ JobStep({}, Move(j, "heard"))
    /\ UNCHANGED <<user, frame, isRunning, currentState, mic, speech, pointers, flags,
                   output, coroutines>>

(* processWithLLMProvider: the generation of the previous question is      *)
(* cancelled and one for this text launched; then the job's finally block. *)
SttAnswer(j) ==
    /\ Runs(j, "heard")
    /\ \E l \in New(LlmJobs) :
          /\ JobStep({llmProviderJob} \ {NoJob},
                     [k \in {j, l} |-> IF k = l THEN "launched" ELSE "none"])
          /\ llmProviderJob' = l
    /\ currentState' = "THINKING"
    /\ isProcessingSTT' = FALSE /\ sttJob' = NoJob
    /\ UNCHANGED <<user, frame, isRunning, mic, isCollectingSpeech, streamingTTSJob,
                   flags, output, coroutines>>

(* The provider is not available. *)
SttNoProvider(j) ==
    /\ Runs(j, "heard")
    /\ JobStep({}, Move(j, "none"))
    /\ currentState' = "ERROR"
    /\ restarting' = IF restarting = "none" THEN "launched" ELSE restarting
    /\ isProcessingSTT' = FALSE /\ sttJob' = NoJob
    /\ UNCHANGED <<user, frame, isRunning, mic, isCollectingSpeech, llmProviderJob,
                   streamingTTSJob, flags, output, starting, reopening, waiting,
                   reinitialising>>

(* Mutant: the job ends without restartListening. *)
SttBlank_Forgets(j) ==
    /\ phase[j] = "transcribing" /\ Prompt
    /\ JobStep({}, Move(j, "none"))
    /\ isProcessingSTT' = FALSE /\ sttJob' = NoJob
    /\ UNCHANGED <<user, frame, isRunning, currentState, mic, isCollectingSpeech,
                   llmProviderJob, streamingTTSJob, flags, output, coroutines>>

(* nativeTranscribe returns nothing: restartListening in the job itself,   *)
(* which it begins though it was cancelled.                                *)
SttBlank(j) ==
    /\ phase[j] = "transcribing" /\ Prompt
    /\ IF MayRestart
       THEN BeginRestart(j, "restarting") /\ UNCHANGED sttJob
       ELSE /\ JobStep({}, Move(j, "none"))
            /\ isProcessingSTT' = FALSE /\ sttJob' = NoJob
            /\ UNCHANGED <<disturbed, mic, isCollectingSpeech, streamingTTSJob, flags,
                           waiting>>
    /\ UNCHANGED <<voiceMode, spoken, frame, isRunning, currentState, llmProviderJob,
                   output, starting, reopening, restarting, reinitialising>>

SttRestarted(j) ==
    /\ Runs(j, "restarting")
    /\ JobStep({}, Move(j, "none"))
    /\ EndRestart
    /\ isProcessingSTT' = FALSE /\ sttJob' = NoJob
    /\ UNCHANGED <<user, frame, isRunning, isCollectingSpeech, llmProviderJob,
                   streamingTTSJob, output, coroutines>>

(* The CancellationException of a cancelled job, in withContext or delay,  *)
(* is caught as an Exception: ERROR, then the finally block.               *)
SttCancelledEnds(j) ==
    /\ j \in cancelled
    /\ phase[j] \in {"transcribing", "heard", "restarting"}
    /\ JobStep({}, Move(j, "none"))
    /\ currentState' = "ERROR"
    /\ isProcessingSTT' = FALSE /\ sttJob' = NoJob
    /\ UNCHANGED <<user, frame, isRunning, mic, isCollectingSpeech, llmProviderJob,
                   streamingTTSJob, flags, output, coroutines>>

Stt(j) ==
    \/ SttDispatch(j) \/ SttText(j) \/ SttAnswer(j) \/ SttNoProvider(j) \/ SttBlank(j)
    \/ RestartStops(j) \/ SttRestarted(j) \/ SttCancelledEnds(j)

-----------------------------------------------------------------------------
(* The LLM job *)

(* The state of the previous question is reset and the stream requested. *)
LlmDispatch(j) ==
    /\ phase[j] = "launched"
    /\ JobStep({}, Move(j, "streaming"))
    /\ answered' = FALSE
    /\ isStreamingTTSActive' = FALSE /\ isLLMResponseComplete' = FALSE
    /\ UNCHANGED <<user, frame, isRunning, currentState, mic, speech, pointers,
                   sounding, coroutines>>

(* A token: speech starts with the first complete sentence. *)
LlmToken(j) ==
    /\ Returns(j, "streaming")
    /\ answered' \in {answered, TRUE}
    /\ \/ NotSpeaking(NoMoves, "SPEAKING") /\ UNCHANGED <<reinitialising, disturbed>>
       \/ TtsIdle /\ answered' /\ StartTTS(NoMoves, "SPEAKING")
    /\ UNCHANGED <<voiceMode, spoken, frame, isRunning, mic, isProcessingSTT, sttJob,
                   llmProviderJob, isLLMResponseComplete, sounding, starting, reopening,
                   restarting, waiting>>

(* An error response; the flow goes on to its end. *)
LlmError(j) ==
    /\ Disturb("llmFails")
    /\ Returns(j, "streaming")
    /\ currentState' = "ERROR"
    /\ UNCHANGED <<voiceMode, spoken, frame, isRunning, mic, speech, jobs, pointers,
                   flags, output, coroutines>>

(* The end of an answer with text: speech starts if it has not, the job    *)
(* calls awaitCompletionAndListen and ends.                                *)
EndAnswered(j, state) ==
    /\ answered
    /\ IF TtsIdle
       THEN StartTTS(Move(j, "none"), state)
       ELSE NotSpeaking(Move(j, "none"), state) /\ UNCHANGED <<reinitialising, disturbed>>
    /\ isLLMResponseComplete' = TRUE
    /\ llmProviderJob' = NoJob
    /\ waiting' = TRUE
    /\ UNCHANGED mic /\ UNCHANGED isProcessingSTT

(* The end of an answer without text: restartListening, unless somebody    *)
(* else restarts or the pipeline was stopped.                              *)
EndBlank(j, to, state) ==
    /\ ~answered
    /\ currentState' = state
    /\ IF MayRestart
       THEN BeginRestart(j, to) /\ UNCHANGED llmProviderJob
       ELSE /\ JobStep({}, Move(j, "none"))
            /\ isLLMResponseComplete' = TRUE
            /\ llmProviderJob' = NoJob
            /\ UNCHANGED <<disturbed, mic, speech, streamingTTSJob,
                           isStreamingTTSActive, waiting>>
    /\ UNCHANGED reinitialising

(* isComplete: SPEAKING. *)
LlmComplete(j) ==
    /\ Returns(j, "streaming")
    /\ EndAnswered(j, "SPEAKING") \/ EndBlank(j, "restarting", "SPEAKING")
    /\ UNCHANGED <<voiceMode, spoken, frame, isRunning, sttJob, output, starting,
                   reopening, restarting>>

(* The flow ends without isComplete (75 s, an error): the safety net       *)
(* completes it.                                                           *)
LlmStreamEnds(j) ==
    /\ Returns(j, "streaming")
    /\ EndAnswered(j, currentState) \/ EndBlank(j, "restartingLast", currentState)
    /\ UNCHANGED <<voiceMode, spoken, frame, isRunning, sttJob, output, starting,
                   reopening, restarting>>

(* The provider throws: ERROR, and a restart after a second. *)
LlmFails(j) ==
    /\ Disturb("llmFails")
    /\ Returns(j, "streaming")
    /\ JobStep({}, Move(j, "backoff"))
    /\ currentState' = "ERROR"
    /\ UNCHANGED <<voiceMode, spoken, frame, isRunning, mic, speech, pointers, flags,
                   output, coroutines>>

LlmBackoffEnds(j) ==
    /\ Runs(j, "backoff")
    /\ IF MayRestart
       THEN BeginRestart(j, "restartingLast") /\ UNCHANGED llmProviderJob
       ELSE /\ JobStep({}, Move(j, "none"))
            /\ llmProviderJob' = NoJob
            /\ UNCHANGED <<disturbed, mic, speech, streamingTTSJob, flags, waiting>>
    /\ UNCHANGED <<voiceMode, spoken, frame, isRunning, currentState, sttJob, output,
                   starting, reopening, restarting, reinitialising>>

LlmRestarted(j) ==
    /\ Runs(j, "restartingLast")
    /\ JobStep({}, Move(j, "none"))
    /\ llmProviderJob' = NoJob
    /\ EndRestart
    /\ UNCHANGED <<user, frame, isRunning, speech, sttJob, streamingTTSJob, output,
                   coroutines>>

(* After the restart of a blank answer the flow ends with                  *)
(* isLLMResponseComplete reset, so the safety net restarts once more, which *)
(* cancels the coroutine just launched.                                    *)
LlmRestartsAgain(j) ==
    /\ Runs(j, "restarting")
    /\ \/ /\ isRunning
          /\ currentState' = "LISTENING"
          /\ \/ /\ ResetForRestart(Move(j, "restartingLast"))
                /\ recording' = FALSE /\ broken' = FALSE /\ openers' = Untracked
                /\ UNCHANGED disturbed
             \/ /\ Disturb("slowClear")
                /\ ResetForRestart(Move(j, "clearingLast"))
                /\ LaunchOpener
          /\ UNCHANGED llmProviderJob
       \/ /\ ~isRunning
          /\ JobStep({}, Move(j, "none"))
          /\ llmProviderJob' = NoJob
          /\ LaunchOpener
          /\ isStreamingTTSActive' = FALSE /\ isLLMResponseComplete' = TRUE
          /\ UNCHANGED <<disturbed, currentState, speech, streamingTTSJob, waiting>>
    /\ UNCHANGED <<voiceMode, spoken, frame, isRunning, sttJob, output, starting,
                   reopening, restarting, reinitialising>>

(* A cancelled job rethrows, and its finally block clears llmProviderJob. *)
LlmCancelledEnds(j) ==
    /\ j \in cancelled
    /\ phase[j] \notin {"clearing", "clearingLast"}
    /\ JobStep({}, Move(j, "none"))
    /\ llmProviderJob' = NoJob
    /\ UNCHANGED <<user, frame, isRunning, currentState, mic, speech, sttJob,
                   streamingTTSJob, flags, output, coroutines>>

LlmEnds(j) ==
    \/ LlmComplete(j) \/ LlmStreamEnds(j) \/ LlmFails(j) \/ LlmBackoffEnds(j)
    \/ RestartStops(j) \/ LlmRestarted(j) \/ LlmRestartsAgain(j) \/ LlmCancelledEnds(j)

Llm(j) == LlmDispatch(j) \/ LlmToken(j) \/ LlmError(j) \/ LlmEnds(j)

-----------------------------------------------------------------------------
(* The TTS job *)

TtsDispatch(j) ==
    /\ phase[j] = "launched"
    /\ JobStep({}, Move(j, "talking"))
    /\ UNCHANGED <<user, frame, isRunning, currentState, mic, speech, pointers, flags,
                   output, coroutines>>

(* A sentence of the answer is queued. *)
TtsSpeak(j) ==
    /\ Runs(j, "talking")
    /\ answered
    /\ sounding' = TRUE
    /\ UNCHANGED <<user, frame, isRunning, currentState, mic, speech, jobs, pointers,
                   flags, answered, coroutines>>

(* The answer is complete: the remainder is queued and awaited. *)
TtsDrain(j) ==
    /\ Runs(j, "talking")
    /\ isLLMResponseComplete
    /\ JobStep({}, Move(j, "draining"))
    /\ sounding' \in {sounding, answered}
    /\ UNCHANGED <<user, frame, isRunning, currentState, mic, speech, pointers, flags,
                   answered, coroutines>>

(* The finally block, after the last utterance or a cancellation: the      *)
(* speech state is reset, isRunning set and awaitCompletionAndListen       *)
(* called.                                                                 *)
TtsEnds(j) ==
    /\ Runs(j, "draining") \/ j \in cancelled
    /\ JobStep({}, Move(j, "none"))
    /\ isStreamingTTSActive' = FALSE
    /\ streamingTTSJob' = NoJob
    /\ isCollectingSpeech' = FALSE /\ isProcessingSTT' = FALSE
    /\ isRunning' = TRUE
    /\ waiting' = TRUE
    /\ UNCHANGED <<user, frame, currentState, mic, sttJob, llmProviderJob,
                   isLLMResponseComplete, output, starting, reopening, restarting,
                   reinitialising>>

Tts(j) == TtsDispatch(j) \/ TtsSpeak(j) \/ TtsDrain(j) \/ TtsEnds(j)

(* The engine has spoken what was queued. *)
Quiet ==
    /\ sounding
    /\ sounding' = FALSE
    /\ UNCHANGED <<user, frame, isRunning, currentState, mic, speech, jobs, pointers,
                   flags, answered, coroutines>>

-----------------------------------------------------------------------------
User == EnterVoiceMode \/ LeaveVoiceMode \/ LoseAudioFocus \/ TapOrb \/ Interrupt

Microphone ==
    \/ FramePasses \/ SpeechStart \/ SpeechEnd \/ SegmentEnds \/ SpeechForcedToEnd
    \/ FrameChangesNothing \/ ListeningTimeout \/ MicBreaks
    \/ \E o \in openers : OpenMic(o)

Coroutine ==
    \/ RunStarting \/ ReopenStops \/ ReopenStarts \/ RestartBegins \/ RestartGoesOn
    \/ RestartEnds \/ CompletionAwaited \/ Reinitialised

Next ==
    \/ User \/ Microphone \/ Coroutine \/ Quiet
    \/ \E j \in SttJobs : Stt(j)
    \/ \E j \in LlmJobs : Llm(j)
    \/ \E j \in TtsJobs : Tts(j)

Spec == Init /\ [][Next]_vars

(* Launched coroutines run, nativeTranscribe and the provider's flow end   *)
(* (75 s), utterances end (30 s), and frames keep coming while recording,  *)
(* so a segment ends once the room is quiet (SpeechSegments!CollectionEnds).*)
(* Nothing makes the user act or speak.                                    *)
FairSpec ==
    /\ Spec
    /\ WF_vars(SpeechEnd \/ SegmentEnds \/ SpeechForcedToEnd \/ FrameChangesNothing)
    /\ WF_vars(\E o \in openers : OpenMic(o))
    /\ WF_vars(RunStarting) /\ WF_vars(ReopenStops \/ ReopenStarts)
    /\ WF_vars(RestartBegins \/ RestartGoesOn \/ RestartEnds)
    /\ WF_vars(CompletionAwaited) /\ WF_vars(Reinitialised)
    /\ WF_vars(Quiet)
    /\ \A j \in SttJobs : WF_vars(Stt(j))
    /\ \A j \in LlmJobs : WF_vars(LlmDispatch(j)) /\ WF_vars(LlmEnds(j))
    /\ \A j \in TtsJobs : WF_vars(TtsDispatch(j) \/ TtsDrain(j) \/ TtsEnds(j))

-----------------------------------------------------------------------------
(* Properties *)

(* Every variable has its type, and no cancelled job waits for dispatch. *)
TypeOK ==
    /\ {voiceMode, isRunning, recording, isCollectingSpeech, isProcessingSTT,
        isStreamingTTSActive, isLLMResponseComplete, answered, sounding, starting,
        waiting, reinitialising, broken, crossed, orderly} \subseteq BOOLEAN
    /\ currentState \in {"IDLE", "LISTENING", "SPEECH_DETECTED", "TRANSCRIBING",
                          "THINKING", "SPEAKING", "ERROR"}
    /\ openers \subseteq {"tracked", "lost"}
    /\ frame \in {"none", "passed", "ending"}
    /\ DOMAIN phase = Jobs
    /\ \A j \in SttJobs : phase[j] \in SttPhases
    /\ \A j \in LlmJobs : phase[j] \in LlmPhases
    /\ \A j \in TtsJobs : phase[j] \in TtsPhases
    /\ cancelled \subseteq {j \in Jobs : phase[j] \notin {"none", "launched"}}
    /\ sttJob \in SttJobs \cup {NoJob}
    /\ llmProviderJob \in LlmJobs \cup {NoJob}
    /\ streamingTTSJob \in TtsJobs \cup {NoJob}
    /\ reopening \in {"none", "begin", "open"}
    /\ restarting \in {"none", "launched", "clearing", "delay"}
    /\ spoken \in 0..MaxSpoken
    /\ left \in 0..MaxDisturbances

(* isProcessingSTT "was getting stuck": while it is set there is a job     *)
(* whose end will reset it, whoever cancelled what.                        *)
SttFlagHasJob == isProcessingSTT => \E j \in SttJobs : phase[j] # "none"

Transcribers == {j \in SttJobs : phase[j] = "transcribing"}

(* No timer has fired, nobody has pressed X or left, the provider did not  *)
(* fail, the speech engine was always ready, every frame was handled whole *)
(* between two steps of the pool, and no segment crossed a restart.        *)
Undisturbed == orderly /\ ~crossed

(* Multiple simultaneous STT processing is prevented: taps, a failing      *)
(* recorder and slow restarts never bring two threads into                 *)
(* nativeTranscribe, unless a segment is sent during a restart.            *)
OneTranscription == Undisturbed => Cardinality(Transcribers) <= 1

(* The same whatever happens. *)
AlwaysOneTranscription == Cardinality(Transcribers) <= 1

Talking == {j \in TtsJobs : Runs(j, "talking") \/ Runs(j, "draining")}

(* The pipeline does not listen to itself: while a speech job talks no     *)
(* speech is collected and the microphone is not listened to, and there is *)
(* one such job.                                                           *)
NoFeedbackLoop ==
    Undisturbed =>
        /\ Cardinality(Talking) <= 1
        /\ Talking # {} => ~isCollectingSpeech /\ currentState \notin {"LISTENING", "SPEECH_DETECTED"}

(* The same whatever happens: what is played is not collected. *)
NeverCollectsItself == Talking # {} => ~isCollectingSpeech

Listening == recording /\ ~broken /\ currentState \in {"LISTENING", "SPEECH_DETECTED"}

(* restartListening, awaitCompletionAndListen: a running pipeline comes    *)
(* back to listening with the microphone on, whatever became of the        *)
(* question, or stops.                                                     *)
PipelineListens == isRunning ~> (Listening \/ ~isRunning \/ crossed)

(* restartForNewQuestion: after X the pipeline is returned to LISTENING. *)
RestartListens == reopening = "begin" ~> Listening

(* stopConversation: a conversation the user has left stays stopped. *)
LeftStaysStopped == ~voiceMode => ~isRunning
=============================================================================
