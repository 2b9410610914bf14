------------------------- MODULE VoicePipelineProofs -------------------------
(***************************************************************************)
(* Proofs about VoicePipeline, for any numbers of jobs, disturbances and   *)
(* questions: the flag of the transcription has a job behind it whatever   *)
(* happens, and while only taps, the recorder and slow restarts come       *)
(* between and no segment is sent during a restart, the pipeline works on  *)
(* one question at a time.                                                 *)
(***************************************************************************)
EXTENDS VoicePipeline, FiniteSetTheorems, TLAPS

-----------------------------------------------------------------------------
(* The invariants *)

Bools ==
    /\ voiceMode \in BOOLEAN /\ isRunning \in BOOLEAN /\ recording \in BOOLEAN
    /\ isCollectingSpeech \in BOOLEAN /\ isProcessingSTT \in BOOLEAN
    /\ isStreamingTTSActive \in BOOLEAN /\ isLLMResponseComplete \in BOOLEAN
    /\ answered \in BOOLEAN /\ sounding \in BOOLEAN /\ starting \in BOOLEAN
    /\ waiting \in BOOLEAN /\ reinitialising \in BOOLEAN /\ broken \in BOOLEAN

(* What Undisturbed looks at. *)
MarksOK == orderly \in BOOLEAN /\ crossed \in BOOLEAN

States == {"IDLE", "LISTENING", "SPEECH_DETECTED", "TRANSCRIBING", "THINKING", "SPEAKING", "ERROR"}

PhaseType(j, p) ==
    /\ j \in SttJobs => p \in SttPhases
    /\ j \in LlmJobs => p \in LlmPhases
    /\ j \in TtsJobs => p \in TtsPhases

(* A job that was cancelled before it was dispatched is gone. *)
JobsOK ==
    /\ DOMAIN phase = Jobs
    /\ \A j \in Jobs : PhaseType(j, phase[j])
    /\ cancelled \subseteq {j \in Jobs : phase[j] \notin {"none", "launched"}}

(* llmProviderJob names a job that has not ended, so that the next         *)
(* question never cancels the job it launches.                             *)
PointersOK ==
    /\ sttJob \in SttJobs \cup {NoJob}
    /\ llmProviderJob \in LlmJobs \cup {NoJob}
    /\ streamingTTSJob \in TtsJobs \cup {NoJob}
    /\ llmProviderJob # NoJob => phase[llmProviderJob] # "none"

ValuesOK ==
    /\ currentState \in States
    /\ openers \subseteq {"tracked", "lost"}
    /\ frame \in {"none", "passed", "ending"}
    /\ reopening \in {"none", "begin", "open"}
    /\ restarting \in {"none", "launched", "clearing", "delay"}

BoundsOK ==
    /\ spoken \in 0 .. MaxSpoken
    /\ left \in 0 .. MaxDisturbances

VoiceInv == Bools /\ MarksOK /\ ValuesOK /\ BoundsOK /\ JobsOK /\ PointersOK

(* No frame comes and none is waited for. *)
Deaf == ~recording /\ openers = {} /\ ~isCollectingSpeech

(* Nothing is done about a question. *)
Resting ==
    /\ sttJob = NoJob /\ llmProviderJob = NoJob /\ streamingTTSJob = NoJob
    /\ ~waiting /\ restarting = "none"

(* The jobs that have not ended are those that are named. *)
JobsNamed ==
    /\ cancelled = {} /\ reopening = "none" /\ ~reinitialising
    /\ \A j \in Jobs : phase[j] # "none" <=> j \in {sttJob, llmProviderJob, streamingTTSJob}
    /\ isStreamingTTSActive <=> streamingTTSJob # NoJob

Restarts == {"clearing", "clearingLast", "restarting", "restartingLast"}

(* A question is heard, ... *)
SttStage ==
    sttJob # NoJob =>
        /\ llmProviderJob = NoJob /\ streamingTTSJob = NoJob
        /\ ~waiting /\ restarting = "none"
        /\ isProcessingSTT \/ currentState = "IDLE" \/ phase[sttJob] \in Restarts

(* ... thought about ... *)
LlmStage ==
    llmProviderJob # NoJob =>
        /\ ~waiting /\ restarting = "none"
        /\ \/ /\ phase[llmProviderJob] \in {"launched", "streaming"}
              /\ currentState \in {"THINKING", "SPEAKING"}
           \/ phase[llmProviderJob] \in Restarts
        /\ phase[llmProviderJob] = "streaming" => ~isLLMResponseComplete

(* ... and answered, and only then is there listening again. *)
TtsStage ==
    /\ streamingTTSJob # NoJob =>
          /\ currentState = "SPEAKING" /\ answered /\ ~isCollectingSpeech
          /\ restarting = "none"
          /\ llmProviderJob # NoJob => /\ phase[llmProviderJob] = "streaming"
                                       /\ phase[streamingTTSJob] # "draining"
    /\ waiting => currentState = "SPEAKING" /\ restarting = "none"

(* Nobody listens before voice mode is entered, nor after a failure; what  *)
(* is said during a restart is collected, and only sent if it crosses it.  *)
MicStage ==
    /\ frame = "none"
    /\ restarting # "none" => currentState = "ERROR"
    /\ starting \/ ~voiceMode => Resting /\ Deaf
    /\ ~voiceMode => ~starting

OneQuestion == JobsNamed /\ SttStage /\ LlmStage /\ TtsStage /\ MicStage

CalmInv == Undisturbed => OneQuestion

-----------------------------------------------------------------------------
(* Jobs that are cancelled and moved *)

LEMMA JobStepTypes ==
    ASSUME JobsOK, NEW S, S \subseteq Jobs, NEW moves, DOMAIN moves \subseteq Jobs,
           JobStep(S, moves),
           \A j \in DOMAIN moves : /\ PhaseType(j, moves[j])
                                   /\ moves[j] = "launched" => j \notin cancelled \cup S
    PROVE  /\ JobsOK'
           /\ \A j \in Jobs : phase'[j] = IF j \in DOMAIN moves THEN moves[j]
                                         ELSE IF j \in S /\ phase[j] = "launched" THEN "none"
                                         ELSE phase[j]
           /\ cancelled' \subseteq cancelled \cup S
<1>1. /\ DOMAIN phase' = Jobs
      /\ \A j \in Jobs : phase'[j] = IF j \in DOMAIN moves THEN moves[j]
                                     ELSE IF j \in S /\ phase[j] = "launched" THEN "none"
                                     ELSE phase[j]
      /\ cancelled' = {j \in cancelled \cup S : phase'[j] # "none"}
  BY DEF JobStep
<1>2. \A j \in Jobs : PhaseType(j, "none")
  BY DEF PhaseType, SttPhases, LlmPhases, TtsPhases
<1>3. \A j \in Jobs : PhaseType(j, phase'[j])
  BY <1>1, <1>2 DEF JobsOK
<1>4. \A j \in Jobs : PhaseType(j, phase[j])'
  BY <1>3 DEF PhaseType
<1>5. cancelled' \subseteq {j \in Jobs : phase'[j] \notin {"none", "launched"}}
  BY <1>1 DEF JobsOK
<1> QED
  BY <1>1, <1>4, <1>5 DEF JobsOK

LEMMA Moving ==
    ASSUME JobsOK, NEW S, S \subseteq Jobs, NEW j \in Jobs, NEW to, PhaseType(j, to),
           to = "launched" => j \notin cancelled \cup S, JobStep(S, Move(j, to))
    PROVE  /\ JobsOK' /\ phase'[j] = to
           /\ \A k \in Jobs : k # j => phase'[k] = IF k \in S /\ phase[k] = "launched" THEN "none"
                                                ELSE phase[k]
           /\ cancelled' \subseteq cancelled \cup S
<1>1. DOMAIN Move(j, to) = {j} /\ Move(j, to)[j] = to
  BY DEF Move
<1> QED
  BY <1>1, JobStepTypes

LEMMA Cancelling ==
    ASSUME JobsOK, NEW S, S \subseteq Jobs, JobStep(S, NoMoves)
    PROVE  /\ JobsOK'
           /\ \A k \in Jobs : phase'[k] = IF k \in S /\ phase[k] = "launched" THEN "none"
                                         ELSE phase[k]
           /\ cancelled' \subseteq cancelled \cup S
<1>1. DOMAIN NoMoves = {}
  BY DEF NoMoves
<1> QED
  BY <1>1, JobStepTypes

-----------------------------------------------------------------------------
(* Types *)

(* Somebody may speak, and something may come between. *)
Counted ==
    /\ spoken' = spoken \/ (spoken < MaxSpoken /\ spoken' = spoken + 1)
    /\ UNCHANGED disturbed \/ \E d : Disturb(d)

(* Jobs are cancelled and moved together. *)
Moved == UNCHANGED jobs \/ \E S, moves : JobStep(S, moves)

LEMMA MarksStep ==
    ASSUME MarksOK, Counted, Moved
    PROVE  MarksOK' /\ (orderly' => orderly) /\ (crossed => crossed')
<1>1. orderly' \in BOOLEAN /\ (orderly' => orderly)
  <2>1. CASE UNCHANGED disturbed
    BY <2>1 DEF MarksOK, disturbed
  <2>2. ASSUME NEW d, Disturb(d) PROVE orderly' \in {FALSE, orderly}
    <3>1. orderly' = (orderly /\ d \in Harmless)
      BY <2>2 DEF Disturb
    <3>2. CASE d \in Harmless
      BY <3>1, <3>2, Zenon DEF MarksOK
    <3>3. CASE d \notin Harmless
      BY <3>1, <3>3, Zenon
    <3> QED
      BY <3>2, <3>3
  <2> QED
    BY <2>1, <2>2 DEF MarksOK, Counted
<1>2. crossed' \in BOOLEAN /\ (crossed => crossed')
  BY DEF MarksOK, Moved, JobStep, jobs
<1> QED
  BY <1>1, <1>2 DEF MarksOK

LEMMA BoolsStep ==
    ASSUME Bools, [Next]_vars
    PROVE  Bools' /\ Counted
<1> USE DEF Bools, Counted, user, mic, speech, jobs, pointers, flags,
            output, coroutines
<1>1. ASSUME EnterVoiceMode PROVE Bools' /\ Counted
  BY <1>1, ZenonT(60) DEF EnterVoiceMode, StartVoice, ToListening
<1>2. ASSUME LeaveVoiceMode PROVE Bools' /\ Counted
  BY <1>2, ZenonT(60) DEF LeaveVoiceMode, StopConversation, StopRecording
<1>3. ASSUME LoseAudioFocus PROVE Bools' /\ Counted
  BY <1>3, ZenonT(60) DEF LoseAudioFocus, StopConversation, StopRecording
<1>4. ASSUME TapOrb PROVE Bools' /\ Counted
  BY <1>4, ZenonT(60) DEF TapOrb, StopConversation, StopRecording, ForceEndLong,
                     ForceEndShort, ToListening
<1>5. ASSUME Interrupt PROVE Bools' /\ Counted
  BY <1>5, ZenonT(60) DEF Interrupt
<1>6. ASSUME SpeechStart PROVE Bools' /\ Counted
  BY <1>6, ZenonT(60) DEF SpeechStart
<1>7. ASSUME SpeechEnd PROVE Bools' /\ Counted
  BY <1>7, ZenonT(60) DEF SpeechEnd, ToListening, Transcribing
<1>8. ASSUME SpeechForcedToEnd PROVE Bools' /\ Counted
  BY <1>8, ZenonT(60) DEF SpeechForcedToEnd, ForceEndLong, ForceEndShort, ToListening
<1>9. ASSUME ListeningTimeout PROVE Bools' /\ Counted
  BY <1>9, ZenonT(60) DEF ListeningTimeout
<1>10. ASSUME NEW o, OpenMic(o) PROVE Bools' /\ Counted
  BY <1>10, ZenonT(60) DEF OpenMic
<1>11. ASSUME RunStarting PROVE Bools' /\ Counted
  BY <1>11, ZenonT(60) DEF RunStarting, StartRecording, LaunchOpener, Untracked, ToListening
<1>12. ASSUME ReopenStops PROVE Bools' /\ Counted
  BY <1>12, ZenonT(60) DEF ReopenStops
<1>13. ASSUME ReopenStarts PROVE Bools' /\ Counted
  BY <1>13, ZenonT(60) DEF ReopenStarts, LaunchOpener, Untracked, StartVoice, ToListening
<1>14. ASSUME RestartBegins PROVE Bools' /\ Counted
  <2>3. /\ recording' \in BOOLEAN /\ broken' \in BOOLEAN
        /\ isCollectingSpeech' \in BOOLEAN /\ isProcessingSTT' \in BOOLEAN
        /\ isStreamingTTSActive' \in BOOLEAN /\ isLLMResponseComplete' \in BOOLEAN
        /\ waiting' \in BOOLEAN
    BY <1>14, ZenonT(60) DEF RestartBegins, ResetForRestart, StopRecording
  <2>4. UNCHANGED <<voiceMode, isRunning, answered, sounding, starting, reinitialising>>
    BY <1>14, ZenonT(60) DEF RestartBegins
  <2>1. Bools'
    BY <2>3, <2>4, ZenonT(60)
  <2>2. Counted
    BY <1>14, ZenonT(60) DEF RestartBegins, ResetForRestart, StopRecording
  <2> HIDE DEF Bools, Counted
  <2> QED
    BY <2>1, <2>2
<1>15. ASSUME RestartEnds PROVE Bools' /\ Counted
  BY <1>15, ZenonT(60) DEF RestartEnds, EndRestart, LaunchOpener, Untracked, ToListening
<1>16. ASSUME CompletionAwaited PROVE Bools' /\ Counted
  BY <1>16, ZenonT(60) DEF CompletionAwaited, LaunchOpener, Untracked
<1>17. ASSUME Reinitialised PROVE Bools' /\ Counted
  BY <1>17, ZenonT(60) DEF Reinitialised
<1>18. ASSUME Quiet PROVE Bools' /\ Counted
  BY <1>18, ZenonT(60) DEF Quiet
<1>19. ASSUME NEW j \in SttJobs, SttDispatch(j) PROVE Bools' /\ Counted
  BY <1>19, ZenonT(60) DEF SttDispatch
<1>20. ASSUME NEW j \in SttJobs, SttText(j) PROVE Bools' /\ Counted
  BY <1>20, ZenonT(60) DEF SttText
<1>21. ASSUME NEW j \in SttJobs, SttAnswer(j) PROVE Bools' /\ Counted
  BY <1>21, ZenonT(60) DEF SttAnswer
<1>22. ASSUME NEW j \in SttJobs, SttNoProvider(j) PROVE Bools' /\ Counted
  BY <1>22, ZenonT(60) DEF SttNoProvider
<1>23. ASSUME NEW j \in SttJobs, SttBlank(j) PROVE Bools' /\ Counted
  BY <1>23, ZenonT(60) DEF SttBlank, BeginRestart, ResetForRestart, StopRecording
<1>24. ASSUME NEW j \in SttJobs, SttRestarted(j) PROVE Bools' /\ Counted
  BY <1>24, ZenonT(60) DEF SttRestarted, EndRestart, LaunchOpener, Untracked, ToListening
<1>25. ASSUME NEW j \in SttJobs, SttCancelledEnds(j) PROVE Bools' /\ Counted
  BY <1>25, ZenonT(60) DEF SttCancelledEnds
<1>26. ASSUME NEW j \in LlmJobs, LlmDispatch(j) PROVE Bools' /\ Counted
  BY <1>26, ZenonT(60) DEF LlmDispatch
<1>27. ASSUME NEW j \in LlmJobs, LlmToken(j) PROVE Bools' /\ Counted
  <2>3. /\ isStreamingTTSActive' \in BOOLEAN /\ isCollectingSpeech' \in BOOLEAN
        /\ reinitialising' \in BOOLEAN
    BY <1>27, ZenonT(60) DEF LlmToken, StartTTS, StartSpeaking, NotSpeaking
  <2>4. /\ answered' \in BOOLEAN
        /\ UNCHANGED <<voiceMode, isRunning, recording, broken, isProcessingSTT,
                       isLLMResponseComplete, sounding, starting, waiting>>
    BY <1>27, ZenonT(60) DEF LlmToken
  <2>1. Bools'
    BY <2>3, <2>4, ZenonT(60)
  <2>2. Counted
    BY <1>27, ZenonT(60) DEF LlmToken, StartTTS, StartSpeaking, NotSpeaking
  <2> HIDE DEF Bools, Counted
  <2> QED
    BY <2>1, <2>2
<1>28. ASSUME NEW j \in LlmJobs, LlmError(j) PROVE Bools' /\ Counted
  BY <1>28, ZenonT(60) DEF LlmError
<1>29. ASSUME NEW j \in LlmJobs, LlmComplete(j) PROVE Bools' /\ Counted
  BY <1>29, ZenonT(60) DEF LlmComplete, EndAnswered, EndBlank, StartTTS, StartSpeaking,
                      NotSpeaking, BeginRestart, ResetForRestart, StopRecording
<1>30. ASSUME NEW j \in LlmJobs, LlmStreamEnds(j) PROVE Bools' /\ Counted
  BY <1>30, ZenonT(60) DEF LlmStreamEnds, EndAnswered, EndBlank, StartTTS, StartSpeaking,
                      NotSpeaking, BeginRestart, ResetForRestart, StopRecording
<1>31. ASSUME NEW j \in LlmJobs, LlmFails(j) PROVE Bools' /\ Counted
  BY <1>31, ZenonT(60) DEF LlmFails
<1>32. ASSUME NEW j \in LlmJobs, LlmBackoffEnds(j) PROVE Bools' /\ Counted
  <2>3. /\ recording' \in BOOLEAN /\ broken' \in BOOLEAN
        /\ isCollectingSpeech' \in BOOLEAN /\ isProcessingSTT' \in BOOLEAN
        /\ isStreamingTTSActive' \in BOOLEAN /\ isLLMResponseComplete' \in BOOLEAN
        /\ waiting' \in BOOLEAN
    BY <1>32, ZenonT(60) DEF LlmBackoffEnds, BeginRestart, ResetForRestart, StopRecording
  <2>4. UNCHANGED <<voiceMode, isRunning, answered, sounding, starting, reinitialising>>
    BY <1>32, ZenonT(60) DEF LlmBackoffEnds
  <2>1. Bools'
    BY <2>3, <2>4, ZenonT(60)
  <2>2. Counted
    BY <1>32, ZenonT(60) DEF LlmBackoffEnds, BeginRestart, ResetForRestart, StopRecording
  <2> HIDE DEF Bools, Counted
  <2> QED
    BY <2>1, <2>2
<1>33. ASSUME NEW j \in LlmJobs, LlmRestarted(j) PROVE Bools' /\ Counted
  BY <1>33, ZenonT(60) DEF LlmRestarted, EndRestart, LaunchOpener, Untracked, ToListening
<1>34. ASSUME NEW j \in LlmJobs, LlmRestartsAgain(j) PROVE Bools' /\ Counted
  BY <1>34, ZenonT(60) DEF LlmRestartsAgain, ResetForRestart, LaunchOpener, Untracked
<1>35. ASSUME NEW j \in LlmJobs, LlmCancelledEnds(j) PROVE Bools' /\ Counted
  BY <1>35, ZenonT(60) DEF LlmCancelledEnds
<1>36. ASSUME NEW j \in TtsJobs, TtsDispatch(j) PROVE Bools' /\ Counted
  BY <1>36, ZenonT(60) DEF TtsDispatch
<1>37. ASSUME NEW j \in TtsJobs, TtsSpeak(j) PROVE Bools' /\ Counted
  BY <1>37, ZenonT(60) DEF TtsSpeak
<1>38. ASSUME NEW j \in TtsJobs, TtsDrain(j) PROVE Bools' /\ Counted
  BY <1>38, ZenonT(60) DEF TtsDrain
<1>39. ASSUME NEW j \in TtsJobs, TtsEnds(j) PROVE Bools' /\ Counted
  BY <1>39, ZenonT(60) DEF TtsEnds
<1>40. ASSUME UNCHANGED vars PROVE Bools' /\ Counted
  <2>1. Bools'
    BY <1>40, ZenonT(60) DEF vars
  <2>2. Counted
    BY <1>40, ZenonT(60) DEF vars
  <2> HIDE DEF Bools, Counted
  <2> QED
    BY <2>1, <2>2
<1>41. ASSUME FramePasses PROVE Bools' /\ Counted
  BY <1>41, ZenonT(60) DEF FramePasses
<1>42. ASSUME SegmentEnds PROVE Bools' /\ Counted
  BY <1>42, ZenonT(60) DEF SegmentEnds, ToListening
<1>43. ASSUME FrameChangesNothing PROVE Bools' /\ Counted
  BY <1>43, ZenonT(60) DEF FrameChangesNothing
<1>44. ASSUME MicBreaks PROVE Bools' /\ Counted
  BY <1>44, ZenonT(60) DEF MicBreaks
<1>45. ASSUME RestartGoesOn PROVE Bools' /\ Counted
  BY <1>45, ZenonT(60) DEF RestartGoesOn, StopRecording
<1>46. ASSUME NEW j, RestartStops(j) PROVE Bools' /\ Counted
  BY <1>46, ZenonT(60) DEF RestartStops, StopRecording
<1> QED
  BY <1>1, <1>2, <1>3, <1>4, <1>5, <1>6, <1>7, <1>8, <1>9, <1>10, <1>11, <1>12, <1>13,
     <1>14, <1>15, <1>16, <1>17, <1>18, <1>19, <1>20, <1>21, <1>22, <1>23, <1>24, <1>25,
     <1>26, <1>27, <1>28, <1>29, <1>30, <1>31, <1>32, <1>33, <1>34, <1>35, <1>36, <1>37,
     <1>38, <1>39, <1>40, <1>41, <1>42, <1>43, <1>44, <1>45, <1>46, ZenonT(60) DEF Next, User, Microphone, Coroutine, Stt, Llm,
     LlmEnds, Tts

LEMMA ValuesStep ==
    ASSUME Bools, ValuesOK, [Next]_vars
    PROVE  ValuesOK'
<1> USE DEF Bools, ValuesOK, States, user, disturbed, mic, speech, jobs, pointers, flags,
            output, coroutines
<1>1. ASSUME EnterVoiceMode PROVE ValuesOK'
  BY <1>1, Zenon DEF EnterVoiceMode, StartVoice, ToListening
<1>2. ASSUME LeaveVoiceMode PROVE ValuesOK'
  BY <1>2, Zenon DEF LeaveVoiceMode, StopConversation, StopRecording
<1>3. ASSUME LoseAudioFocus PROVE ValuesOK'
  BY <1>3, Zenon DEF LoseAudioFocus, StopConversation, StopRecording
<1>4. ASSUME TapOrb PROVE ValuesOK'
  BY <1>4, Zenon DEF TapOrb, StopConversation, StopRecording, ForceEndLong,
                     ForceEndShort, ToListening, Transcribing
<1>5. ASSUME Interrupt PROVE ValuesOK'
  BY <1>5, Zenon DEF Interrupt
<1>6. ASSUME SpeechStart PROVE ValuesOK'
  BY <1>6, Zenon DEF SpeechStart
<1>7. ASSUME SpeechEnd PROVE ValuesOK'
  BY <1>7, Zenon DEF SpeechEnd, ToListening, Transcribing
<1>8. ASSUME SpeechForcedToEnd PROVE ValuesOK'
  BY <1>8, Zenon DEF SpeechForcedToEnd, ForceEndLong, ForceEndShort, ToListening,
                     Transcribing
<1>9. ASSUME ListeningTimeout PROVE ValuesOK'
  BY <1>9, Zenon DEF ListeningTimeout
<1>10. ASSUME NEW o, OpenMic(o) PROVE ValuesOK'
  BY <1>10, Zenon DEF OpenMic
<1>11. ASSUME RunStarting PROVE ValuesOK'
  BY <1>11, Zenon DEF RunStarting, StartRecording, LaunchOpener, Untracked, ToListening
<1>12. ASSUME ReopenStops PROVE ValuesOK'
  BY <1>12, Zenon DEF ReopenStops
<1>13. ASSUME ReopenStarts PROVE ValuesOK'
  BY <1>13, Zenon DEF ReopenStarts, LaunchOpener, Untracked, StartVoice, ToListening
<1>14. ASSUME RestartBegins PROVE ValuesOK'
  BY <1>14, Zenon DEF RestartBegins, ResetForRestart, StopRecording
<1>15. ASSUME RestartEnds PROVE ValuesOK'
  BY <1>15, Zenon DEF RestartEnds, EndRestart, LaunchOpener, Untracked, ToListening
<1>16. ASSUME CompletionAwaited PROVE ValuesOK'
  BY <1>16, Zenon DEF CompletionAwaited, LaunchOpener, Untracked
<1>17. ASSUME Reinitialised PROVE ValuesOK'
  BY <1>17, Zenon DEF Reinitialised
<1>18. ASSUME Quiet PROVE ValuesOK'
  BY <1>18, Zenon DEF Quiet
<1>19. ASSUME NEW j \in SttJobs, SttDispatch(j) PROVE ValuesOK'
  BY <1>19, Zenon DEF SttDispatch
<1>20. ASSUME NEW j \in SttJobs, SttText(j) PROVE ValuesOK'
  BY <1>20, Zenon DEF SttText
<1>21. ASSUME NEW j \in SttJobs, SttAnswer(j) PROVE ValuesOK'
  BY <1>21, Zenon DEF SttAnswer
<1>22. ASSUME NEW j \in SttJobs, SttNoProvider(j) PROVE ValuesOK'
  BY <1>22, Zenon DEF SttNoProvider
<1>23. ASSUME NEW j \in SttJobs, SttBlank(j) PROVE ValuesOK'
  BY <1>23, Zenon DEF SttBlank, BeginRestart, ResetForRestart, StopRecording
<1>24. ASSUME NEW j \in SttJobs, SttRestarted(j) PROVE ValuesOK'
  BY <1>24, Zenon DEF SttRestarted, EndRestart, LaunchOpener, Untracked, ToListening
<1>25. ASSUME NEW j \in SttJobs, SttCancelledEnds(j) PROVE ValuesOK'
  BY <1>25, Zenon DEF SttCancelledEnds
<1>26. ASSUME NEW j \in LlmJobs, LlmDispatch(j) PROVE ValuesOK'
  BY <1>26, Zenon DEF LlmDispatch
<1>27. ASSUME NEW j \in LlmJobs, LlmToken(j) PROVE ValuesOK'
  BY <1>27, Zenon DEF LlmToken, StartTTS, StartSpeaking, NotSpeaking
<1>28. ASSUME NEW j \in LlmJobs, LlmError(j) PROVE ValuesOK'
  BY <1>28, Zenon DEF LlmError
<1>29. ASSUME NEW j \in LlmJobs, LlmComplete(j) PROVE ValuesOK'
  BY <1>29, Zenon DEF LlmComplete, EndAnswered, EndBlank, StartTTS, StartSpeaking,
                      NotSpeaking, BeginRestart, ResetForRestart, StopRecording
<1>30. ASSUME NEW j \in LlmJobs, LlmStreamEnds(j) PROVE ValuesOK'
  BY <1>30, Zenon DEF LlmStreamEnds, EndAnswered, EndBlank, StartTTS, StartSpeaking,
                      NotSpeaking, BeginRestart, ResetForRestart, StopRecording
<1>31. ASSUME NEW j \in LlmJobs, LlmFails(j) PROVE ValuesOK'
  BY <1>31, Zenon DEF LlmFails
<1>32. ASSUME NEW j \in LlmJobs, LlmBackoffEnds(j) PROVE ValuesOK'
  BY <1>32, Zenon DEF LlmBackoffEnds, BeginRestart, ResetForRestart, StopRecording
<1>33. ASSUME NEW j \in LlmJobs, LlmRestarted(j) PROVE ValuesOK'
  BY <1>33, Zenon DEF LlmRestarted, EndRestart, LaunchOpener, Untracked, ToListening
<1>34. ASSUME NEW j \in LlmJobs, LlmRestartsAgain(j) PROVE ValuesOK'
  BY <1>34, Zenon DEF LlmRestartsAgain, ResetForRestart, LaunchOpener, Untracked
<1>35. ASSUME NEW j \in LlmJobs, LlmCancelledEnds(j) PROVE ValuesOK'
  BY <1>35, Zenon DEF LlmCancelledEnds
<1>36. ASSUME NEW j \in TtsJobs, TtsDispatch(j) PROVE ValuesOK'
  BY <1>36, Zenon DEF TtsDispatch
<1>37. ASSUME NEW j \in TtsJobs, TtsSpeak(j) PROVE ValuesOK'
  BY <1>37, Zenon DEF TtsSpeak
<1>38. ASSUME NEW j \in TtsJobs, TtsDrain(j) PROVE ValuesOK'
  BY <1>38, Zenon DEF TtsDrain
<1>39. ASSUME NEW j \in TtsJobs, TtsEnds(j) PROVE ValuesOK'
  BY <1>39, Zenon DEF TtsEnds
<1>40. ASSUME UNCHANGED vars PROVE ValuesOK'
  BY <1>40, Zenon DEF vars
<1>41. ASSUME FramePasses PROVE ValuesOK'
  BY <1>41, Zenon DEF FramePasses
<1>42. ASSUME SegmentEnds PROVE ValuesOK'
  BY <1>42, Zenon DEF SegmentEnds, ToListening
<1>43. ASSUME FrameChangesNothing PROVE ValuesOK'
  BY <1>43, Zenon DEF FrameChangesNothing
<1>44. ASSUME MicBreaks PROVE ValuesOK'
  BY <1>44, Zenon DEF MicBreaks
<1>45. ASSUME RestartGoesOn PROVE ValuesOK'
  BY <1>45, Zenon DEF RestartGoesOn, StopRecording
<1>46. ASSUME NEW j, RestartStops(j) PROVE ValuesOK'
  BY <1>46, Zenon DEF RestartStops, StopRecording
<1> HIDE DEF Bools, ValuesOK, States
<1> QED
  BY <1>1, <1>2, <1>3, <1>4, <1>5, <1>6, <1>7, <1>8, <1>9, <1>10, <1>11, <1>12, <1>13,
     <1>14, <1>15, <1>16, <1>17, <1>18, <1>19, <1>20, <1>21, <1>22, <1>23, <1>24, <1>25,
     <1>26, <1>27, <1>28, <1>29, <1>30, <1>31, <1>32, <1>33, <1>34, <1>35, <1>36, <1>37,
     <1>38, <1>39, <1>40, <1>41, <1>42, <1>43, <1>44, <1>45, <1>46, Zenon DEF Next, User, Microphone, Coroutine, Stt, Llm,
     LlmEnds, Tts

-----------------------------------------------------------------------------
(* Jobs and what points to them *)

LEMMA BoundsStep ==
    ASSUME BoundsOK, Counted
    PROVE  BoundsOK'
<1>1. spoken' \in 0 .. MaxSpoken
  BY JobsAssumption DEF BoundsOK, Counted
<1>2. left' \in 0 .. MaxDisturbances
  BY JobsAssumption DEF BoundsOK, Counted, Disturb, disturbed
<1> QED
  BY <1>1, <1>2 DEF BoundsOK

(* Each job stays where it is or goes on. *)
Kept(S) == \A j \in S : phase[j] # "none" => phase'[j] # "none"

LEMMA Launching ==
    ASSUME JobsOK, NEW k \in Jobs, phase[k] = "none", PhaseType(k, "launched"),
           NEW moves, DOMAIN moves \subseteq Jobs,
           \A j \in DOMAIN moves : PhaseType(j, moves[j]) /\ moves[j] # "launched",
           JobStep({}, [j \in {k} \cup DOMAIN moves |-> IF j = k THEN "launched" ELSE moves[j]])
    PROVE  /\ JobsOK' /\ phase'[k] = "launched"
           /\ \A j \in Jobs : j # k => phase'[j] = IF j \in DOMAIN moves THEN moves[j] ELSE phase[j]
           /\ cancelled' \subseteq cancelled
<1> DEFINE m == [j \in {k} \cup DOMAIN moves |-> IF j = k THEN "launched" ELSE moves[j]]
<1>1. DOMAIN m = {k} \cup DOMAIN moves /\ DOMAIN m \subseteq Jobs
  OBVIOUS
<1>2. k \notin cancelled
  BY DEF JobsOK
<1>3. \A j \in DOMAIN m : /\ PhaseType(j, m[j])
                          /\ m[j] = "launched" => j \notin cancelled \cup {}
  BY <1>1, <1>2
<1>4. m[k] = "launched" /\ \A j \in DOMAIN moves : j # k => m[j] = moves[j]
  OBVIOUS
<1>5. JobStep({}, m)
  OBVIOUS
<1> HIDE DEF m
<1>6. /\ JobsOK' /\ cancelled' \subseteq cancelled \cup {}
      /\ \A j \in Jobs : phase'[j] = IF j \in DOMAIN m THEN m[j]
                                     ELSE IF j \in {} /\ phase[j] = "launched" THEN "none"
                                     ELSE phase[j]
  BY <1>1, <1>3, <1>5, JobStepTypes
<1> QED
  BY <1>1, <1>4, <1>6

(* A segment is sent to the STT unless one is being processed. *)
LEMMA Sending ==
    ASSUME JobsOK, SendToSTT
    PROVE  /\ JobsOK' /\ Kept(Jobs)
           /\ isProcessingSTT => UNCHANGED sttJob
           /\ ~isProcessingSTT => sttJob' \in SttJobs /\ phase'[sttJob'] # "none"
<1>1. CASE isProcessingSTT
  BY <1>1 DEF SendToSTT, jobs, JobsOK, PhaseType, Kept
<1>2. CASE ~isProcessingSTT
  <2>1. PICK j \in SttJobs : phase[j] = "none" /\ JobStep({}, Move(j, "launched")) /\ sttJob' = j
    BY <1>2 DEF SendToSTT, New
  <2>2. PhaseType(j, "launched") /\ j \in Jobs /\ j \notin cancelled \cup {}
    BY <2>1, JobsAssumption DEF PhaseType, Jobs, SttPhases, JobsOK
  <2>3. /\ JobsOK' /\ phase'[j] = "launched"
        /\ \A k \in Jobs : k # j => phase'[k] = IF k \in {} /\ phase[k] = "launched" THEN "none"
                                                ELSE phase[k]
    BY <2>1, <2>2, Moving
  <2>4. Kept(Jobs)
    BY <2>1, <2>3 DEF Kept
  <2> QED
    BY <1>2, <2>1, <2>3, <2>4
<1> QED
  BY <1>1, <1>2

LEMMA Going ==
    ASSUME JobsOK, NEW j \in Jobs, NEW to, PhaseType(j, to), to # "launched",
           JobStep({}, Move(j, to))
    PROVE  /\ JobsOK' /\ phase'[j] = to /\ cancelled' \subseteq cancelled
           /\ \A k \in Jobs : k # j => phase'[k] = phase[k]
<1>1. {} \subseteq Jobs
  OBVIOUS
<1> QED
  BY <1>1, Moving

(* A restart takes the speech job away and nothing else. *)
LEMMA Restarting ==
    ASSUME JobsOK, PointersOK, NEW moves, DOMAIN moves \subseteq SttJobs \cup LlmJobs,
           \A j \in DOMAIN moves : PhaseType(j, moves[j]) /\ moves[j] # "launched",
           ResetForRestart(moves)
    PROVE  /\ JobsOK' /\ streamingTTSJob' = NoJob /\ isProcessingSTT' = FALSE
           /\ cancelled' \subseteq cancelled \cup ({streamingTTSJob} \ {NoJob})
           /\ \A k \in SttJobs \cup LlmJobs :
                 phase'[k] = IF k \in DOMAIN moves THEN moves[k] ELSE phase[k]
           /\ \A k \in TtsJobs :
                 phase'[k] = IF k = streamingTTSJob /\ phase[k] = "launched" THEN "none" ELSE phase[k]
<1> DEFINE S == {streamingTTSJob} \ {NoJob}
<1>1. S \subseteq TtsJobs /\ S \subseteq Jobs /\ DOMAIN moves \subseteq Jobs
  BY DEF PointersOK, Jobs
<1>2. /\ JobStep(S, moves) /\ streamingTTSJob' = NoJob /\ isProcessingSTT' = FALSE
  BY DEF ResetForRestart
<1>3. /\ JobsOK' /\ cancelled' \subseteq cancelled \cup S
      /\ \A j \in Jobs : phase'[j] = IF j \in DOMAIN moves THEN moves[j]
                                     ELSE IF j \in S /\ phase[j] = "launched" THEN "none"
                                     ELSE phase[j]
  <2> HIDE DEF S
  <2> QED
    BY <1>1, <1>2, JobStepTypes
<1> QED
  BY <1>1, <1>2, <1>3, JobsAssumption DEF Jobs

LEMMA RestartingOne ==
    ASSUME JobsOK, PointersOK, NEW j \in SttJobs \cup LlmJobs, NEW to, PhaseType(j, to),
           to # "launched", ResetForRestart(Move(j, to))
    PROVE  /\ JobsOK' /\ streamingTTSJob' = NoJob /\ isProcessingSTT' = FALSE
           /\ cancelled' \subseteq cancelled \cup ({streamingTTSJob} \ {NoJob})
           /\ phase'[j] = to
           /\ \A k \in SttJobs \cup LlmJobs : k # j => phase'[k] = phase[k]
           /\ \A k \in TtsJobs :
                 phase'[k] = IF k = streamingTTSJob /\ phase[k] = "launched" THEN "none" ELSE phase[k]
<1>1. DOMAIN Move(j, to) = {j} /\ Move(j, to)[j] = to
  BY DEF Move
<1> QED
  BY <1>1, Restarting

(* A speech job is launched, and the calling job may end. *)
LEMMA Speaking ==
    ASSUME JobsOK, NEW moves, DOMAIN moves \subseteq LlmJobs,
           \A j \in DOMAIN moves : moves[j] = "none",
           StartSpeaking(moves)
    PROVE  /\ JobsOK' /\ cancelled' \subseteq cancelled
           /\ streamingTTSJob' \in TtsJobs /\ phase[streamingTTSJob'] = "none"
           /\ phase'[streamingTTSJob'] = "launched"
           /\ \A k \in Jobs : k # streamingTTSJob' =>
                 phase'[k] = IF k \in DOMAIN moves THEN "none" ELSE phase[k]
<1>1. PICK k \in TtsJobs :
          /\ phase[k] = "none" /\ streamingTTSJob' = k
          /\ JobStep({}, [j \in {k} \cup DOMAIN moves |-> IF j = k THEN "launched" ELSE moves[j]])
  BY DEF StartSpeaking, New
<1>2. k \in Jobs /\ PhaseType(k, "launched") /\ DOMAIN moves \subseteq Jobs
  BY JobsAssumption DEF Jobs, PhaseType, TtsPhases
<1>3. \A j \in DOMAIN moves : PhaseType(j, moves[j]) /\ moves[j] # "launched"
  BY DEF PhaseType, SttPhases, LlmPhases, TtsPhases
<1>4. /\ JobsOK' /\ phase'[k] = "launched" /\ cancelled' \subseteq cancelled
      /\ \A j \in Jobs : j # k => phase'[j] = IF j \in DOMAIN moves THEN moves[j] ELSE phase[j]
  BY <1>1, <1>2, <1>3, Launching
<1> QED
  BY <1>1, <1>4

LEMMA MovesOne ==
    ASSUME NEW j, NEW to
    PROVE  DOMAIN Move(j, to) = {j} /\ Move(j, to)[j] = to /\ DOMAIN NoMoves = {}
BY DEF Move, NoMoves

(* The question of an STT job. *)
LEMMA Answering ==
    ASSUME JobsOK, PointersOK, NEW j \in SttJobs, SttAnswer(j)
    PROVE  /\ JobsOK' /\ phase'[j] = "none" /\ llmProviderJob' \in LlmJobs
           /\ phase[llmProviderJob'] = "none" /\ phase'[llmProviderJob'] = "launched"
           /\ cancelled' \subseteq cancelled \cup ({llmProviderJob} \ {NoJob})
           /\ \A k \in SttJobs \cup TtsJobs : k # j => phase'[k] = phase[k]
           /\ llmProviderJob = NoJob =>
                 \A k \in LlmJobs : k # llmProviderJob' => phase'[k] = phase[k]
<1> DEFINE S == {llmProviderJob} \ {NoJob}
           moves(l) == [k \in {j, l} |-> IF k = l THEN "launched" ELSE "none"]
<1>1. PICK l \in LlmJobs : phase[l] = "none" /\ JobStep(S, moves(l)) /\ llmProviderJob' = l
  BY DEF SttAnswer, New
<1>2. S \subseteq LlmJobs /\ S \subseteq Jobs /\ l \in Jobs /\ j \in Jobs /\ j # l
  BY JobsAssumption DEF Jobs, PointersOK
<1>3. l \notin cancelled \cup S
  BY <1>1, <1>2 DEF JobsOK, PointersOK
<1>4. DOMAIN moves(l) = {j, l} /\ moves(l)[l] = "launched" /\ moves(l)[j] = "none"
  BY <1>2
<1>5. PhaseType(l, "launched") /\ PhaseType(j, "none")
  BY JobsAssumption DEF PhaseType, SttPhases, LlmPhases, TtsPhases
<1>6. /\ JobsOK' /\ cancelled' \subseteq cancelled \cup S
      /\ \A k \in Jobs : phase'[k] = IF k \in DOMAIN moves(l) THEN moves(l)[k]
                                     ELSE IF k \in S /\ phase[k] = "launched" THEN "none"
                                     ELSE phase[k]
  <2>1. \A k \in DOMAIN moves(l) : /\ PhaseType(k, moves(l)[k])
                                   /\ moves(l)[k] = "launched" => k \notin cancelled \cup S
    BY <1>3, <1>4, <1>5
  <2>2. DOMAIN moves(l) \subseteq Jobs
    BY <1>2, <1>4
  <2> HIDE DEF S, moves
  <2> QED
    BY <1>1, <1>2, <2>1, <2>2, JobStepTypes
<1> QED
  BY <1>1, <1>2, <1>4, <1>6, JobsAssumption DEF Jobs

JobsInv == JobsOK /\ PointersOK /\ SttFlagHasJob

(* What leaves jobs and pointers alone, but may reset isProcessingSTT. *)
Still == UNCHANGED <<jobs, pointers>> /\ isProcessingSTT' \in {FALSE, isProcessingSTT}

StillActions ==
    \/ EnterVoiceMode \/ SpeechStart \/ ListeningTimeout \/ (\E o \in openers : OpenMic(o))
    \/ FramePasses \/ SegmentEnds \/ FrameChangesNothing \/ MicBreaks
    \/ RunStarting \/ ReopenStops \/ ReopenStarts \/ RestartGoesOn \/ RestartEnds
    \/ CompletionAwaited
    \/ (\E j \in LlmJobs : LlmError(j)) \/ (\E j \in TtsJobs : TtsSpeak(j)) \/ Quiet
    \/ UNCHANGED vars

LEMMA StillStep == StillActions => Still
<1> USE DEF Still, user, disturbed, mic, speech, jobs, pointers, flags, output, coroutines
<1>1. ASSUME EnterVoiceMode PROVE Still
  BY <1>1, Zenon DEF EnterVoiceMode, StartVoice, ToListening
<1>2. ASSUME SpeechStart PROVE Still
  BY <1>2, Zenon DEF SpeechStart
<1>3. ASSUME ListeningTimeout PROVE Still
  BY <1>3, Zenon DEF ListeningTimeout
<1>4. ASSUME NEW o, OpenMic(o) PROVE Still
  BY <1>4, Zenon DEF OpenMic
<1>5. ASSUME RunStarting PROVE Still
  BY <1>5, Zenon DEF RunStarting, StartRecording, LaunchOpener
<1>6. ASSUME ReopenStops PROVE Still
  BY <1>6, Zenon DEF ReopenStops
<1>7. ASSUME ReopenStarts PROVE Still
  BY <1>7, Zenon DEF ReopenStarts, StartVoice, LaunchOpener
<1>8. ASSUME RestartEnds PROVE Still
  BY <1>8, Zenon DEF RestartEnds, EndRestart, LaunchOpener
<1>9. ASSUME CompletionAwaited PROVE Still
  BY <1>9, Zenon DEF CompletionAwaited
<1>10. ASSUME NEW j, LlmError(j) PROVE Still
  BY <1>10, Zenon DEF LlmError
<1>11. ASSUME NEW j, TtsSpeak(j) PROVE Still
  BY <1>11, Zenon DEF TtsSpeak
<1>12. ASSUME Quiet PROVE Still
  BY <1>12, Zenon DEF Quiet
<1>13. ASSUME UNCHANGED vars PROVE Still
  BY <1>13, Zenon DEF vars
<1>14. ASSUME FramePasses PROVE Still
  BY <1>14, Zenon DEF FramePasses
<1>15. ASSUME SegmentEnds PROVE Still
  BY <1>15, Zenon DEF SegmentEnds
<1>16. ASSUME FrameChangesNothing PROVE Still
  BY <1>16, Zenon DEF FrameChangesNothing
<1>17. ASSUME MicBreaks PROVE Still
  BY <1>17, Zenon DEF MicBreaks
<1>18. ASSUME RestartGoesOn PROVE Still
  BY <1>18, Zenon DEF RestartGoesOn
<1> HIDE DEF Still
<1> QED
  BY <1>1, <1>2, <1>3, <1>4, <1>5, <1>6, <1>7, <1>8, <1>9, <1>10, <1>11, <1>12, <1>13,
     <1>14, <1>15, <1>16, <1>17, <1>18,
     Zenon DEF StillActions

LEMMA StillKeeps ==
    ASSUME JobsInv, Still
    PROVE  JobsInv'
<1>1. /\ phase' = phase /\ cancelled' = cancelled /\ sttJob' = sttJob
      /\ llmProviderJob' = llmProviderJob /\ streamingTTSJob' = streamingTTSJob
      /\ isProcessingSTT' \in {FALSE, isProcessingSTT}
  BY DEF Still, jobs, pointers
<1>2. JobsOK'
  BY <1>1 DEF JobsInv, JobsOK, PhaseType
<1>3. PointersOK'
  BY <1>1 DEF JobsInv, PointersOK
<1>4. SttFlagHasJob'
  BY <1>1 DEF JobsInv, SttFlagHasJob
<1> QED
  BY <1>2, <1>3, <1>4 DEF JobsInv

(* The flag is set only while its job is kept. *)
LEMMA FlagKept ==
    ASSUME SttFlagHasJob, Kept(SttJobs), isProcessingSTT' => isProcessingSTT
    PROVE  SttFlagHasJob'
BY DEF SttFlagHasJob, Kept

(* The provider's job is kept where it is named still. *)
LEMMA PointersKept ==
    ASSUME PointersOK, sttJob' \in SttJobs \cup {NoJob}, llmProviderJob' \in {NoJob, llmProviderJob},
           streamingTTSJob' \in TtsJobs \cup {NoJob},
           llmProviderJob' # NoJob => Kept(LlmJobs)
    PROVE  PointersOK'
BY JobsAssumption DEF PointersOK, Kept

(* A segment may be sent. *)
Sends ==
    /\ UNCHANGED <<llmProviderJob, streamingTTSJob>>
    /\ \/ SendToSTT
       \/ UNCHANGED <<jobs, sttJob>> /\ (isProcessingSTT' => isProcessingSTT)

SendActions == LeaveVoiceMode \/ LoseAudioFocus \/ TapOrb \/ SpeechEnd \/ SpeechForcedToEnd

LEMMA SendStep == SendActions => Sends
<1>1. ASSUME StopConversation, UNCHANGED <<llmProviderJob, streamingTTSJob>> PROVE Sends
  BY <1>1, Zenon DEF StopConversation, Sends, speech
<1>2. ASSUME ForceEndLong, UNCHANGED <<llmProviderJob, streamingTTSJob>> PROVE Sends
  BY <1>2 DEF ForceEndLong, Sends
<1>3. ASSUME ForceEndShort, UNCHANGED <<llmProviderJob, streamingTTSJob>> PROVE Sends
  BY <1>3 DEF ForceEndShort, Sends
<1>4. ASSUME SpeechEnd PROVE Sends
  BY <1>4 DEF SpeechEnd, Sends
<1>5. TapOrb => /\ StopConversation \/ ForceEndLong \/ ForceEndShort
                /\ UNCHANGED <<llmProviderJob, streamingTTSJob>>
  BY DEF TapOrb
<1>6. LeaveVoiceMode \/ LoseAudioFocus =>
         StopConversation /\ UNCHANGED <<llmProviderJob, streamingTTSJob>>
  BY DEF LeaveVoiceMode, LoseAudioFocus
<1>7. SpeechForcedToEnd => /\ ForceEndLong \/ ForceEndShort
                           /\ UNCHANGED <<llmProviderJob, streamingTTSJob>>
  BY DEF SpeechForcedToEnd
<1> QED
  BY <1>1, <1>2, <1>3, <1>4, <1>5, <1>6, <1>7 DEF SendActions

LEMMA SendKeeps ==
    ASSUME JobsInv, Sends
    PROVE  JobsInv'
<1>1. CASE SendToSTT
  <2>1. /\ JobsOK' /\ Kept(Jobs)
        /\ isProcessingSTT => UNCHANGED sttJob
        /\ ~isProcessingSTT => sttJob' \in SttJobs /\ phase'[sttJob'] # "none"
    BY <1>1, Sending DEF JobsInv
  <2>2. Kept(SttJobs) /\ Kept(LlmJobs)
    BY <2>1 DEF Kept, Jobs
  <2>3. UNCHANGED <<llmProviderJob, streamingTTSJob>>
    BY DEF Sends
  <2>4. PointersOK'
    BY <2>1, <2>2, <2>3, PointersKept DEF JobsInv, PointersOK
  <2>5. SttFlagHasJob'
    BY <2>1, <2>2 DEF JobsInv, SttFlagHasJob, Kept
  <2> QED
    BY <2>1, <2>4, <2>5 DEF JobsInv
<1>2. CASE UNCHANGED <<jobs, sttJob>> /\ (isProcessingSTT' => isProcessingSTT)
  <2>1. /\ phase' = phase /\ cancelled' = cancelled /\ sttJob' = sttJob
        /\ llmProviderJob' = llmProviderJob /\ streamingTTSJob' = streamingTTSJob
        /\ isProcessingSTT' => isProcessingSTT
    BY <1>2 DEF Sends, jobs
  <2>2. JobsOK'
    BY <2>1 DEF JobsInv, JobsOK, PhaseType
  <2>3. PointersOK'
    BY <2>1 DEF JobsInv, PointersOK
  <2>4. SttFlagHasJob'
    BY <2>1 DEF JobsInv, SttFlagHasJob
  <2> QED
    BY <2>2, <2>3, <2>4 DEF JobsInv
<1> QED
  BY <1>1, <1>2 DEF Sends

(* A job goes on or ends: an STT job ends with the flag, an LLM job with   *)
(* its pointer.                                                            *)
LEMMA GoingKeeps ==
    ASSUME JobsInv, NEW j \in Jobs, NEW to, PhaseType(j, to), to # "launched",
           JobStep({}, Move(j, to)),
           sttJob' \in {NoJob, sttJob}, streamingTTSJob' \in {NoJob, streamingTTSJob},
           llmProviderJob' \in {NoJob, llmProviderJob}, isProcessingSTT' => isProcessingSTT,
           j \in SttJobs /\ to = "none" => ~isProcessingSTT',
           j \in LlmJobs /\ to = "none" => llmProviderJob' = NoJob
    PROVE  JobsInv'
<1>1. /\ JobsOK' /\ phase'[j] = to
      /\ \A k \in Jobs : k # j => phase'[k] = phase[k]
  BY Going DEF JobsInv
<1>2. llmProviderJob' # NoJob => Kept(LlmJobs)
  BY <1>1 DEF Kept, Jobs
<1>3. PointersOK'
  BY <1>2, PointersKept DEF JobsInv, PointersOK
<1>4. SttFlagHasJob'
  <2>1. CASE ~isProcessingSTT'
    BY <2>1 DEF SttFlagHasJob
  <2>2. CASE isProcessingSTT'
    <3>1. Kept(SttJobs)
      BY <1>1, <2>2 DEF Kept, Jobs
    <3> QED
      BY <2>2, <3>1, FlagKept DEF JobsInv
  <2> QED
    BY <2>1, <2>2
<1> QED
  BY <1>1, <1>3, <1>4 DEF JobsInv

LEMMA RestartingKeeps ==
    ASSUME JobsInv, NEW j \in SttJobs \cup LlmJobs, NEW to, PhaseType(j, to), to # "launched",
           ResetForRestart(Move(j, to)),
           sttJob' \in {NoJob, sttJob}, llmProviderJob' = llmProviderJob,
           j \in LlmJobs => to # "none"
    PROVE  JobsInv'
<1>1. /\ JobsOK' /\ streamingTTSJob' = NoJob /\ isProcessingSTT' = FALSE
      /\ phase'[j] = to
      /\ \A k \in SttJobs \cup LlmJobs : k # j => phase'[k] = phase[k]
  BY RestartingOne DEF JobsInv
<1>2. Kept(LlmJobs)
  BY <1>1, JobsAssumption DEF Kept
<1>3. PointersOK'
  BY <1>1, <1>2, PointersKept DEF JobsInv, PointersOK
<1>4. SttFlagHasJob'
  BY <1>1 DEF SttFlagHasJob
<1> QED
  BY <1>1, <1>3, <1>4 DEF JobsInv

LEMMA SpeakingKeeps ==
    ASSUME JobsInv, NEW moves, DOMAIN moves \subseteq LlmJobs,
           \A j \in DOMAIN moves : moves[j] = "none",
           StartSpeaking(moves), UNCHANGED <<isProcessingSTT, sttJob>>,
           llmProviderJob' \in {NoJob, llmProviderJob},
           DOMAIN moves # {} => llmProviderJob' = NoJob
    PROVE  JobsInv'
<1>1. /\ JobsOK' /\ streamingTTSJob' \in TtsJobs /\ phase[streamingTTSJob'] = "none"
      /\ \A k \in Jobs : k # streamingTTSJob' =>
            phase'[k] = IF k \in DOMAIN moves THEN "none" ELSE phase[k]
  BY Speaking DEF JobsInv
<1>2. Kept(SttJobs)
  BY <1>1, JobsAssumption DEF Kept, Jobs
<1>3. DOMAIN moves = {} => Kept(LlmJobs)
  BY <1>1, JobsAssumption DEF Kept, Jobs
<1>4. PointersOK'
  BY <1>1, <1>3, PointersKept DEF JobsInv, PointersOK
<1>5. SttFlagHasJob'
  BY <1>2, FlagKept DEF JobsInv
<1> QED
  BY <1>1, <1>4, <1>5 DEF JobsInv

LEMMA NothingMoves ==
    ASSUME JobsInv, JobStep({}, NoMoves),
           UNCHANGED <<sttJob, llmProviderJob, streamingTTSJob, isProcessingSTT>>
    PROVE  JobsInv'
<1>1. {} \subseteq Jobs
  OBVIOUS
<1>2. JobsOK' /\ \A j \in Jobs : phase'[j] = phase[j]
  BY <1>1, Cancelling DEF JobsInv
<1>3. Kept(SttJobs) /\ Kept(LlmJobs)
  BY <1>2 DEF Kept, Jobs
<1> QED
  BY <1>2, <1>3, PointersKept, FlagKept DEF JobsInv, PointersOK

LEMMA JobsStep ==
    ASSUME JobsInv, [Next]_vars
    PROVE  JobsInv'
<1> USE DEF speech, jobs, pointers, flags
<1>1. ASSUME StillActions PROVE JobsInv'
  BY <1>1, StillStep, StillKeeps
<1>0. ASSUME SendActions PROVE JobsInv'
  BY <1>0, SendStep, SendKeeps
<1>2. ASSUME Interrupt PROVE JobsInv'
  <2>1. {sttJob, llmProviderJob, streamingTTSJob} \ {NoJob} \subseteq Jobs
    BY DEF JobsInv, PointersOK, Jobs
  <2>2. JobsOK'
    BY <1>2, <2>1, Cancelling DEF Interrupt, JobsInv
  <2>3. PointersOK' /\ SttFlagHasJob'
    BY <1>2 DEF Interrupt, PointersOK, SttFlagHasJob
  <2> QED
    BY <2>2, <2>3 DEF JobsInv
<1>3. ASSUME RestartBegins PROVE JobsInv'
  <2>1. CASE ResetForRestart(NoMoves)
    <3>1. ResetForRestart(NoMoves) /\ UNCHANGED <<sttJob, llmProviderJob>>
      BY <1>3, <2>1 DEF RestartBegins
    <3>2. /\ JobsOK' /\ streamingTTSJob' = NoJob /\ isProcessingSTT' = FALSE
          /\ \A k \in SttJobs \cup LlmJobs : phase'[k] = phase[k]
      BY <3>1, Restarting, MovesOne DEF JobsInv
    <3>3. PointersOK'
      BY <3>1, <3>2, PointersKept DEF JobsInv, PointersOK, Kept
    <3> QED
      BY <3>2, <3>3 DEF JobsInv, SttFlagHasJob
  <2>2. CASE UNCHANGED <<jobs, streamingTTSJob, speech>>
    BY <1>3, <2>2, StillKeeps DEF RestartBegins, Still
  <2> QED
    BY <1>3, <2>1, <2>2 DEF RestartBegins
<1>4. ASSUME Reinitialised PROVE JobsInv'
  <2>1. CASE UNCHANGED <<jobs, streamingTTSJob>>
    BY <1>4, <2>1, StillKeeps DEF Reinitialised, Still
  <2>2. ASSUME NEW k \in New(TtsJobs), JobStep({}, Move(k, "launched")), streamingTTSJob' = k
        PROVE  JobsInv'
    <3>0. k \in TtsJobs /\ phase[k] = "none"
      BY DEF New
    <3>1. k \in Jobs /\ {} \subseteq Jobs /\ PhaseType(k, "launched") /\ k \notin cancelled \cup {}
      BY <3>0, JobsAssumption DEF Jobs, PhaseType, TtsPhases, JobsInv, JobsOK
    <3>2. JobsOK' /\ \A j \in Jobs : j # k => phase'[j] = phase[j]
      BY <2>2, <3>1, Moving DEF JobsInv
    <3>3. Kept(SttJobs) /\ Kept(LlmJobs)
      BY <3>0, <3>2, JobsAssumption DEF Kept, Jobs
    <3>4. UNCHANGED <<sttJob, llmProviderJob, isProcessingSTT>>
      BY <1>4 DEF Reinitialised
    <3>5. PointersOK' /\ SttFlagHasJob'
      BY <2>2, <3>0, <3>3, <3>4, PointersKept, FlagKept DEF JobsInv, PointersOK
    <3> QED
      BY <3>2, <3>5 DEF JobsInv
  <2> QED
    BY <1>4, <2>1, <2>2 DEF Reinitialised
<1>8. ASSUME NEW j \in SttJobs \cup LlmJobs, RestartStops(j) PROVE JobsInv'
  <2>1. j \in Jobs /\ UNCHANGED <<sttJob, llmProviderJob, streamingTTSJob, isProcessingSTT>>
    BY <1>8 DEF Jobs, RestartStops
  <2>2. PICK to \in {"restarting", "restartingLast"} :
            /\ JobStep({}, Move(j, to))
            /\ to = "restartingLast" => phase[j] = "clearingLast"
    BY <1>8 DEF RestartStops
  <2>3. PhaseType(j, to)
    BY <2>1, <2>2, JobsAssumption DEF JobsInv, JobsOK, PhaseType, SttPhases, LlmPhases, TtsPhases
  <2> QED
    BY <2>1, <2>2, <2>3, GoingKeeps
<1>5. ASSUME NEW j \in SttJobs, Stt(j) PROVE JobsInv'
  <2>1. j \in Jobs /\ j \notin LlmJobs
    BY JobsAssumption DEF Jobs
  <2>2. \A p \in SttPhases : PhaseType(j, p)
    BY JobsAssumption DEF PhaseType
  <2>3. CASE SttDispatch(j)
    BY <2>1, <2>2, <2>3, GoingKeeps DEF SttDispatch, SttPhases
  <2>4. CASE SttText(j)
    BY <2>1, <2>2, <2>4, GoingKeeps DEF SttText, SttPhases
  <2>5. CASE SttNoProvider(j)
    BY <2>1, <2>2, <2>5, GoingKeeps DEF SttNoProvider, SttPhases
  <2>6. CASE SttRestarted(j)
    BY <2>1, <2>2, <2>6, GoingKeeps DEF SttRestarted, SttPhases
  <2>7. CASE SttBlank(j)
    <3>1. CASE MayRestart
      <4>1. PICK at \in {"clearing", "restarting"} : ResetForRestart(Move(j, at))
        BY <2>7, <3>1 DEF SttBlank, BeginRestart
      <4>2. PhaseType(j, at) /\ at # "launched" /\ UNCHANGED <<sttJob, llmProviderJob>>
        BY <2>2, <2>7, <3>1, <4>1 DEF SttBlank, SttPhases
      <4> QED
        BY <2>1, <4>1, <4>2, RestartingKeeps
    <3>2. CASE ~MayRestart
      BY <2>1, <2>2, <2>7, <3>2, GoingKeeps DEF SttBlank, SttPhases
    <3> QED
      BY <3>1, <3>2
  <2>8. CASE SttCancelledEnds(j)
    BY <2>1, <2>2, <2>8, GoingKeeps DEF SttCancelledEnds, SttPhases
  <2>9. CASE SttAnswer(j)
    <3>1. /\ JobsOK' /\ llmProviderJob' \in LlmJobs /\ phase'[llmProviderJob'] = "launched"
      BY <2>9, Answering DEF JobsInv
    <3>2. isProcessingSTT' = FALSE /\ sttJob' = NoJob /\ UNCHANGED streamingTTSJob
      BY <2>9 DEF SttAnswer
    <3> QED
      BY <3>1, <3>2 DEF JobsInv, PointersOK, SttFlagHasJob
  <2> QED
    BY <1>5, <1>8, <2>3, <2>4, <2>5, <2>6, <2>7, <2>8, <2>9 DEF Stt
<1>6. ASSUME NEW j \in LlmJobs, Llm(j), ~LlmError(j) PROVE JobsInv'
  <2>1. j \in Jobs /\ j \notin SttJobs
    BY JobsAssumption DEF Jobs
  <2>2. \A p \in LlmPhases : PhaseType(j, p)
    BY JobsAssumption DEF PhaseType
  <2>3. CASE LlmDispatch(j)
    BY <2>1, <2>2, <2>3, GoingKeeps DEF LlmDispatch, LlmPhases
  <2>4. CASE LlmToken(j)
    <3>1. UNCHANGED <<isProcessingSTT, sttJob, llmProviderJob>>
      BY <2>4 DEF LlmToken
    <3>2. CASE StartSpeaking(NoMoves)
      BY <3>1, <3>2, SpeakingKeeps, MovesOne
    <3>3. CASE NotSpeaking(NoMoves, "SPEAKING")
      BY <3>1, <3>3, NothingMoves DEF NotSpeaking
    <3> QED
      BY <2>4, <3>2, <3>3 DEF LlmToken, StartTTS
  <2>5. ASSUME NEW state, EndAnswered(j, state), UNCHANGED sttJob PROVE JobsInv'
    <3>1. UNCHANGED <<isProcessingSTT, sttJob>> /\ llmProviderJob' = NoJob
      BY <2>5 DEF EndAnswered
    <3>2. CASE StartSpeaking(Move(j, "none"))
      <4> DEFINE m == Move(j, "none")
      <4>1. DOMAIN m = {j} /\ m[j] = "none"
        BY MovesOne
      <4>2. StartSpeaking(m)
        BY <3>2
      <4> HIDE DEF m
      <4>3. DOMAIN m \subseteq LlmJobs /\ \A k \in DOMAIN m : m[k] = "none"
        BY <4>1
      <4>4. /\ UNCHANGED <<isProcessingSTT, sttJob>>
            /\ llmProviderJob' \in {NoJob, llmProviderJob}
            /\ DOMAIN m # {} => llmProviderJob' = NoJob
        BY <3>1
      <4> QED
        BY <4>2, <4>3, <4>4, SpeakingKeeps
    <3>3. CASE NotSpeaking(Move(j, "none"), state)
      BY <2>1, <2>2, <3>1, <3>3, GoingKeeps DEF NotSpeaking, LlmPhases
    <3> QED
      BY <2>5, <3>2, <3>3 DEF EndAnswered, StartTTS
  <2>0. ASSUME NEW at \in {"clearing", "clearingLast", "restarting", "restartingLast"},
               ResetForRestart(Move(j, at)), UNCHANGED <<sttJob, llmProviderJob>>
        PROVE  JobsInv'
    <3>1. PhaseType(j, at) /\ at \notin {"launched", "none"}
      BY <2>2 DEF LlmPhases
    <3> QED
      BY <2>0, <2>1, <3>1, RestartingKeeps
  <2>6. ASSUME NEW to \in {"restarting", "restartingLast"}, NEW state,
               EndBlank(j, to, state), UNCHANGED sttJob
        PROVE  JobsInv'
    <3>1. CASE MayRestart
      BY <2>0, <2>6, <3>1 DEF EndBlank, BeginRestart
    <3>2. CASE ~MayRestart
      BY <2>1, <2>2, <2>6, <3>2, GoingKeeps DEF EndBlank, LlmPhases
    <3> QED
      BY <3>1, <3>2
  <2>7. CASE LlmComplete(j) \/ LlmStreamEnds(j)
    <3>2. /\ UNCHANGED sttJob
          /\ \/ EndAnswered(j, "SPEAKING") \/ EndBlank(j, "restarting", "SPEAKING")
             \/ EndAnswered(j, currentState) \/ EndBlank(j, "restartingLast", currentState)
      BY <2>7 DEF LlmComplete, LlmStreamEnds
    <3> QED
      BY <2>5, <2>6, <3>2
  <2>8. CASE LlmFails(j)
    BY <2>1, <2>2, <2>8, GoingKeeps DEF LlmFails, LlmPhases
  <2>9. CASE LlmBackoffEnds(j)
    <3>1. CASE MayRestart
      BY <2>0, <2>9, <3>1 DEF LlmBackoffEnds, BeginRestart
    <3>2. CASE ~MayRestart
      BY <2>1, <2>2, <2>9, <3>2, GoingKeeps DEF LlmBackoffEnds, LlmPhases
    <3> QED
      BY <3>1, <3>2
  <2>10. CASE LlmRestarted(j)
    BY <2>1, <2>2, <2>10, GoingKeeps DEF LlmRestarted, LlmPhases
  <2>11. CASE LlmRestartsAgain(j)
    <3>1. CASE isRunning
      BY <2>0, <2>11, <3>1 DEF LlmRestartsAgain
    <3>2. CASE ~isRunning
      BY <2>1, <2>2, <2>11, <3>2, GoingKeeps DEF LlmRestartsAgain, LlmPhases
    <3> QED
      BY <3>1, <3>2
  <2>12. CASE LlmCancelledEnds(j)
    BY <2>1, <2>2, <2>12, GoingKeeps DEF LlmCancelledEnds, LlmPhases
  <2> QED
    BY <1>6, <1>8, <2>3, <2>4, <2>7, <2>8, <2>9, <2>10, <2>11, <2>12 DEF Llm, LlmEnds
<1>7. ASSUME NEW j \in TtsJobs, Tts(j), ~TtsSpeak(j) PROVE JobsInv'
  <2>1. j \in Jobs /\ j \notin SttJobs /\ j \notin LlmJobs
    BY JobsAssumption DEF Jobs
  <2>2. \A p \in TtsPhases : PhaseType(j, p)
    BY JobsAssumption DEF PhaseType
  <2>3. CASE TtsDispatch(j)
    BY <2>1, <2>2, <2>3, GoingKeeps DEF TtsDispatch, TtsPhases
  <2>4. CASE TtsDrain(j)
    BY <2>1, <2>2, <2>4, GoingKeeps DEF TtsDrain, TtsPhases
  <2>5. CASE TtsEnds(j)
    BY <2>1, <2>2, <2>5, GoingKeeps DEF TtsEnds, TtsPhases
  <2> QED
    BY <1>7, <2>3, <2>4, <2>5 DEF Tts
<1> HIDE DEF speech, jobs, pointers, flags
<1> QED
  BY <1>0, <1>1, <1>2, <1>3, <1>4, <1>5, <1>6, <1>7
     DEF Next, User, Microphone, Coroutine, StillActions, SendActions

(* Every step leaves the jobs alone or is a JobStep. *)
LEMMA MovedStep ==
    ASSUME [Next]_vars
    PROVE  Moved
<1>1. ASSUME Still PROVE Moved
  BY <1>1 DEF Still, Moved
<1>2. ASSUME SendToSTT PROVE Moved
  BY <1>2, Zenon DEF SendToSTT, Moved
<1>3. ASSUME NEW moves, ResetForRestart(moves) PROVE Moved
  BY <1>3, Zenon DEF ResetForRestart, Moved
<1>4. ASSUME NEW moves, NEW state, StartTTS(moves, state) PROVE Moved
  BY <1>4, Zenon DEF StartTTS, StartSpeaking, NotSpeaking, Moved
<1>5. ASSUME NEW moves, NEW state, NotSpeaking(moves, state) PROVE Moved
  BY <1>5, Zenon DEF NotSpeaking, Moved
<1>6. ASSUME NEW moves, NEW S, JobStep(S, moves) PROVE Moved
  BY <1>6, Zenon DEF Moved
<1>7. ASSUME StillActions PROVE Moved
  BY <1>1, <1>7, StillStep
<1>8. ASSUME SendActions PROVE Moved
  BY <1>2, <1>8, SendStep DEF Sends, Moved
<1>9. ASSUME Interrupt PROVE Moved
  BY <1>6, <1>9, Zenon DEF Interrupt
<1>10. ASSUME RestartBegins PROVE Moved
  BY <1>3, <1>10, Zenon DEF RestartBegins, Moved
<1>11. ASSUME Reinitialised PROVE Moved
  BY <1>6, <1>11, Zenon DEF Reinitialised, Moved
<1>12. ASSUME NEW j, Stt(j) PROVE Moved
  BY <1>3, <1>6, <1>12, Zenon
     DEF Stt, SttDispatch, SttText, SttAnswer, SttNoProvider, SttBlank, RestartStops, SttRestarted,
         SttCancelledEnds, BeginRestart
<1>13. ASSUME NEW j, LlmComplete(j) \/ LlmStreamEnds(j) PROVE Moved
  BY <1>3, <1>4, <1>5, <1>6, <1>13, Zenon
     DEF LlmComplete, LlmStreamEnds, EndAnswered, EndBlank, BeginRestart
<1>14. ASSUME NEW j, Llm(j) PROVE Moved
  BY <1>3, <1>4, <1>5, <1>6, <1>13, <1>14, Zenon
     DEF Llm, LlmEnds, LlmDispatch, LlmToken, LlmError, LlmFails, LlmBackoffEnds, RestartStops,
         LlmRestarted, LlmRestartsAgain, LlmCancelledEnds, BeginRestart, Moved
<1>15. ASSUME NEW j, Tts(j) PROVE Moved
  BY <1>6, <1>15, Zenon DEF Tts, TtsDispatch, TtsSpeak, TtsDrain, TtsEnds, Moved
<1> QED
  BY <1>7, <1>8, <1>9, <1>10, <1>11, <1>12, <1>14, <1>15
     DEF Next, User, Microphone, Coroutine, StillActions, SendActions

LEMMA VoiceInit == Init => VoiceInv /\ SttFlagHasJob
<1> SUFFICES ASSUME Init PROVE VoiceInv /\ SttFlagHasJob
  OBVIOUS
<1>1. Bools
  BY DEF Init, Bools
<1>2. ValuesOK /\ BoundsOK
  BY JobsAssumption DEF Init, ValuesOK, BoundsOK, States
<1>3. JobsOK
  BY JobsAssumption DEF Init, JobsOK, PhaseType, SttPhases, LlmPhases, TtsPhases
<1>4. PointersOK /\ SttFlagHasJob /\ MarksOK
  BY DEF Init, PointersOK, SttFlagHasJob, MarksOK
<1> QED
  BY <1>1, <1>2, <1>3, <1>4 DEF VoiceInv

LEMMA VoiceStep == VoiceInv /\ SttFlagHasJob /\ [Next]_vars => VoiceInv' /\ SttFlagHasJob'
<1> SUFFICES ASSUME VoiceInv, SttFlagHasJob, [Next]_vars PROVE VoiceInv' /\ SttFlagHasJob'
  OBVIOUS
<1>1. Bools' /\ Counted
  BY BoolsStep DEF VoiceInv
<1>2. ValuesOK'
  BY ValuesStep DEF VoiceInv
<1>3. BoundsOK'
  BY <1>1, BoundsStep DEF VoiceInv
<1>4. JobsInv'
  BY JobsStep DEF VoiceInv, JobsInv
<1>5. MarksOK'
  BY <1>1, MovedStep, MarksStep DEF VoiceInv
<1> QED
  BY <1>1, <1>2, <1>3, <1>4, <1>5 DEF VoiceInv, JobsInv

LEMMA VoiceAlways == Spec => [](VoiceInv /\ SttFlagHasJob)
BY VoiceInit, VoiceStep, PTL DEF Spec

(* Every variable of the pipeline has its type, no job waits for dispatch  *)
(* once it was cancelled (launch of a coroutine that is cancelled before   *)
(* it began), and the pointers sttJob, llmProviderJob and streamingTTSJob  *)
(* name jobs of their kind.                                                *)
THEOREM PipelineTyped == Spec => []TypeOK
<1>1. VoiceInv => TypeOK
  <2> SUFFICES ASSUME VoiceInv PROVE TypeOK
    OBVIOUS
  <2>1. /\ \A j \in SttJobs : phase[j] \in SttPhases
        /\ \A j \in LlmJobs : phase[j] \in LlmPhases
        /\ \A j \in TtsJobs : phase[j] \in TtsPhases
    BY DEF VoiceInv, JobsOK, PhaseType, Jobs
  <2>2. {voiceMode, isRunning, recording, isCollectingSpeech, isProcessingSTT,
         isStreamingTTSActive, isLLMResponseComplete, answered, sounding, starting,
         waiting, reinitialising, broken, crossed, orderly} \subseteq BOOLEAN
    BY Zenon DEF VoiceInv, Bools, MarksOK
  <2> QED
    BY <2>1, <2>2 DEF TypeOK, VoiceInv, ValuesOK, States, BoundsOK, JobsOK, PointersOK
<1> QED
  BY <1>1, VoiceAlways, PTL

(* isProcessingSTT never stays set on its own: it blocks every later       *)
(* segment, so while it is set there is a transcription job whose end will *)
(* reset it, whatever X, a restart, a timeout or a failure has cancelled.  *)
THEOREM FlagHasJob == Spec => []SttFlagHasJob
BY VoiceAlways, PTL

-----------------------------------------------------------------------------
(* One question at a time *)

Calm == VoiceInv /\ OneQuestion /\ Undisturbed'

(* Only taps, the recorder and slow restarts come between. *)
LEMMA Disturbing ==
    ASSUME NEW d, Disturb(d), Undisturbed'
    PROVE  d \in Harmless
BY DEF Disturb, Undisturbed

LEMMA CalmStill == ASSUME Calm, StillActions PROVE OneQuestion'
<1>0. /\ ~Disturb("waitTimeout") /\ ~Disturb("listeningTimeout") /\ ~Disturb("llmFails")
      /\ ~Disturb("race")
  BY Disturbing DEF Calm, Harmless
<1> USE DEF Calm, OneQuestion, JobsNamed, SttStage, LlmStage, TtsStage, MicStage, Deaf, Resting,
            user, disturbed, mic, speech, jobs, pointers, flags, output, coroutines
<1>1. ASSUME EnterVoiceMode PROVE OneQuestion'
  BY <1>1 DEF EnterVoiceMode, StartVoice, ToListening
<1>2. ASSUME SpeechStart PROVE OneQuestion'
  BY <1>2 DEF SpeechStart, Frame, Heard
<1>3. ASSUME NEW o \in openers, OpenMic(o) PROVE OneQuestion'
  BY <1>3 DEF OpenMic
<1>4. ASSUME RunStarting PROVE OneQuestion'
  BY <1>4 DEF RunStarting, StartRecording, LaunchOpener, Untracked, ToListening
<1>5. ASSUME RestartEnds PROVE OneQuestion'
  BY <1>5 DEF RestartEnds, EndRestart, LaunchOpener, Untracked, ToListening
<1>6. ASSUME CompletionAwaited PROVE OneQuestion'
  <2>2. waiting /\ sttJob = NoJob /\ llmProviderJob = NoJob /\ ~starting /\ voiceMode
    BY <1>6 DEF CompletionAwaited
  <2>3. streamingTTSJob = NoJob
    <3>1. CASE ~isStreamingTTSActive
      BY <3>1
    <3>2. CASE \A j \in TtsJobs : phase[j] = "none"
      BY <3>2, JobsAssumption DEF VoiceInv, PointersOK, Jobs
    <3> QED
      BY <1>0, <1>6, <3>1, <3>2 DEF CompletionAwaited, TtsIdle
  <2>5. JobsNamed' /\ SttStage' /\ LlmStage' /\ TtsStage'
    BY <1>6, <2>2, <2>3 DEF CompletionAwaited
  <2>6. MicStage'
    BY <1>6, <2>2, <2>3 DEF CompletionAwaited, LaunchOpener, Untracked
  <2> QED
    BY <2>5, <2>6
<1>7. ASSUME NEW j \in TtsJobs, TtsSpeak(j) PROVE OneQuestion'
  BY <1>7 DEF TtsSpeak
<1>8. ASSUME Quiet PROVE OneQuestion'
  BY <1>8 DEF Quiet
<1>9. ASSUME ListeningTimeout PROVE FALSE
  BY <1>0, <1>9 DEF ListeningTimeout
<1>10. ASSUME NEW j \in LlmJobs, LlmError(j) PROVE FALSE
  BY <1>0, <1>10 DEF LlmError
<1>11. ASSUME ReopenStops \/ ReopenStarts PROVE FALSE
  BY <1>11 DEF ReopenStops, ReopenStarts
<1>12. ASSUME UNCHANGED vars PROVE OneQuestion'
  BY <1>12 DEF vars
<1>13. ASSUME FramePasses \/ SegmentEnds \/ FrameChangesNothing PROVE FALSE
  BY <1>0, <1>13 DEF FramePasses, SegmentEnds, FrameChangesNothing
<1>14. ASSUME MicBreaks PROVE OneQuestion'
  BY <1>14 DEF MicBreaks
<1>15. ASSUME RestartGoesOn PROVE OneQuestion'
  BY <1>15 DEF RestartGoesOn, StopRecording
<1> HIDE DEF Calm, OneQuestion
<1> QED
  BY <1>1, <1>2, <1>3, <1>4, <1>5, <1>6, <1>7, <1>8, <1>9, <1>10, <1>11, <1>12, <1>13, <1>14,
     <1>15 DEF StillActions

(* While a segment may end nothing is done about an earlier one, unless it *)
(* is being transcribed or some restart is under way.                      *)
Hearing ==
    /\ streamingTTSJob = NoJob /\ ~waiting /\ restarting = "none" /\ ~starting /\ voiceMode
    /\ sttJob # NoJob => isProcessingSTT \/ phase[sttJob] \in Restarts
    /\ llmProviderJob # NoJob => phase[llmProviderJob] \in Restarts

LEMMA CalmHears ==
    ASSUME Calm, currentState \in {"LISTENING", "SPEECH_DETECTED"}, recording \/ isCollectingSpeech
    PROVE  Hearing
BY DEF Calm, OneQuestion, SttStage, LlmStage, TtsStage, MicStage, Deaf, Hearing

(* A segment sent during a restart crosses it. *)
LEMMA CalmCrosses ==
    ASSUME Calm, NEW k \in Jobs, phase[k] \in Restarts, NEW j \in SttJobs,
           JobStep({}, Move(j, "launched"))
    PROVE  FALSE
<1>1. IsRestarting
  BY DEF IsRestarting, Clearing, Restarts
<1>2. Crosses(Move(j, "launched"))
  BY <1>1, MovesOne DEF Crosses
<1> QED
  BY <1>2 DEF JobStep, Calm, Undisturbed

LEMMA CalmSends ==
    ASSUME Calm, Hearing, SendToSTT, isProcessingSTT' = TRUE,
           UNCHANGED <<llmProviderJob, streamingTTSJob, coroutines, frame, voiceMode>>,
           isStreamingTTSActive' => isStreamingTTSActive
    PROVE  OneQuestion'
<1> USE DEF Calm, OneQuestion, JobsNamed, SttStage, LlmStage, TtsStage, MicStage, Hearing, coroutines
<1>1. CASE isProcessingSTT
  <2>1. UNCHANGED <<jobs, sttJob>>
    BY <1>1 DEF SendToSTT
  <2>2. llmProviderJob # NoJob => phase[llmProviderJob] \notin {"launched", "streaming"}
    BY DEF Restarts
  <2> QED
    BY <2>1, <2>2 DEF jobs
<1>2. CASE ~isProcessingSTT
  <2>1. PICK j \in SttJobs : phase[j] = "none" /\ JobStep({}, Move(j, "launched")) /\ sttJob' = j
    BY <1>2 DEF SendToSTT, New
  <2>2. PhaseType(j, "launched") /\ j \in Jobs /\ j \notin cancelled \cup {} /\ {} \subseteq Jobs
    BY JobsAssumption DEF PhaseType, Jobs, SttPhases
  <2>3. /\ phase'[j] = "launched" /\ cancelled' = {}
        /\ \A k \in Jobs : k # j => phase'[k] = phase[k]
    <3>1. JobsOK /\ cancelled = {}
      BY DEF VoiceInv
    <3> HIDE DEF Calm, OneQuestion, JobsNamed, SttStage, LlmStage, TtsStage, MicStage, Hearing
    <3> QED
      BY <2>1, <2>2, <3>1, Moving
  <2>4. sttJob = NoJob /\ llmProviderJob = NoJob
    <3>1. sttJob # NoJob => sttJob \in Jobs /\ phase[sttJob] \in Restarts
      BY <1>2 DEF VoiceInv, PointersOK, Jobs
    <3>2. llmProviderJob # NoJob => llmProviderJob \in Jobs /\ phase[llmProviderJob] \in Restarts
      BY DEF VoiceInv, PointersOK, Jobs
    <3> HIDE DEF Calm, Hearing
    <3> QED
      BY <2>1, <3>1, <3>2, CalmCrosses
  <2>5. JobsNamed'
    BY <1>2, <2>1, <2>2, <2>3, <2>4, JobsAssumption
  <2>6. SttStage' /\ LlmStage' /\ TtsStage' /\ MicStage'
    BY <2>1, <2>3, <2>4
  <2> QED
    BY <2>5, <2>6
<1> QED
  BY <1>1, <1>2

LEMMA CalmSend == ASSUME Calm, SendActions PROVE OneQuestion'
<1> USE DEF user, disturbed, mic, speech, jobs, pointers, flags, output
<1>1. ASSUME LeaveVoiceMode \/ LoseAudioFocus PROVE FALSE
  BY <1>1, Disturbing DEF LeaveVoiceMode, LoseAudioFocus, Calm, Harmless
<1>2. ASSUME ForceEndLong \/ ForceEndShort, currentState \in {"LISTENING", "SPEECH_DETECTED"},
             recording \/ isCollectingSpeech,
             UNCHANGED <<voiceMode, frame, llmProviderJob, streamingTTSJob, coroutines>>
      PROVE  OneQuestion'
  <2>1. Hearing
    BY <1>2, CalmHears
  <2>2. CASE ForceEndLong
    BY <1>2, <2>1, <2>2, CalmSends DEF ForceEndLong
  <2>3. CASE ForceEndShort
    BY <1>2, <2>1, <2>3 DEF ForceEndShort, ToListening, Calm, OneQuestion, JobsNamed, SttStage,
                            LlmStage, TtsStage, MicStage, Hearing, coroutines
  <2> QED
    BY <1>2, <2>2, <2>3
<1>3. ASSUME SpeechEnd PROVE OneQuestion'
  <2>0. frame = "none"
    BY DEF Calm, OneQuestion, MicStage
  <2>1. /\ currentState \in {"LISTENING", "SPEECH_DETECTED"} /\ recording
        /\ UNCHANGED <<voiceMode, frame, llmProviderJob, streamingTTSJob, coroutines>>
        /\ isStreamingTTSActive' = FALSE /\ isCollectingSpeech' = FALSE
    BY <1>3, <2>0 DEF SpeechEnd, LastFrame, Frame, Heard, ToListening
  <2>2. Hearing
    BY <2>1, CalmHears
  <2>3. CASE SendToSTT /\ isProcessingSTT' = TRUE
    BY <2>1, <2>2, <2>3, CalmSends
  <2>4. CASE UNCHANGED <<jobs, sttJob, isProcessingSTT>>
    BY <2>1, <2>2, <2>4 DEF Calm, OneQuestion, JobsNamed, SttStage, LlmStage, TtsStage, MicStage,
                            Hearing, Restarts, coroutines
  <2> QED
    BY <1>3, <2>0, <2>3, <2>4 DEF SpeechEnd
<1>4. ASSUME SpeechForcedToEnd PROVE OneQuestion'
  <2>1. frame = "none"
    BY DEF Calm, OneQuestion, MicStage
  <2> QED
    BY <1>2, <1>4, <2>1 DEF SpeechForcedToEnd, LastFrame, Frame, Heard
<1>5. ASSUME TapOrb PROVE OneQuestion'
  <2>1. /\ currentState \in {"LISTENING", "SPEECH_DETECTED"}
        /\ UNCHANGED <<voiceMode, frame, llmProviderJob, streamingTTSJob, coroutines>>
    BY <1>5 DEF TapOrb
  <2>2. CASE /\ ForceEndLong \/ ForceEndShort
             /\ recording \/ isCollectingSpeech
             /\ UNCHANGED mic
    BY <1>2, <2>1, <2>2
  <2>3. CASE ~isCollectingSpeech /\ StopConversation
    <3>1. CASE isRunning
      BY <2>1, <2>3, <3>1 DEF StopConversation, StopRecording, Calm, OneQuestion, JobsNamed, SttStage,
                              LlmStage, TtsStage, MicStage, Deaf, Resting, coroutines
    <3>2. CASE ~isRunning
      BY <2>1, <2>3, <3>2 DEF StopConversation, Calm, OneQuestion, JobsNamed, SttStage,
                              LlmStage, TtsStage, MicStage, Deaf, Resting, coroutines
    <3> QED
      BY <3>1, <3>2
  <2> QED
    BY <1>5, <2>2, <2>3 DEF TapOrb
<1> QED
  BY <1>1, <1>3, <1>4, <1>5 DEF SendActions

(* The job of a kind that has not ended is the one that is named. *)
LEMMA CalmNames ==
    ASSUME Calm
    PROVE  /\ \A j \in SttJobs : phase[j] # "none" => j = sttJob
           /\ \A j \in LlmJobs : phase[j] # "none" => j = llmProviderJob
           /\ \A j \in TtsJobs : phase[j] # "none" => j = streamingTTSJob
           /\ sttJob # NoJob => sttJob \in SttJobs /\ sttJob \in Jobs /\ phase[sttJob] # "none"
           /\ llmProviderJob # NoJob => /\ llmProviderJob \in LlmJobs /\ llmProviderJob \in Jobs
                                        /\ phase[llmProviderJob] # "none"
           /\ streamingTTSJob # NoJob => /\ streamingTTSJob \in TtsJobs /\ streamingTTSJob \in Jobs
                                         /\ phase[streamingTTSJob] # "none"
           /\ NoJob \notin Jobs /\ cancelled = {}
BY JobsAssumption DEF Calm, VoiceInv, PointersOK, OneQuestion, JobsNamed, Jobs

LEMMA CalmGoes ==
    ASSUME Calm, NEW j \in Jobs, NEW to, PhaseType(j, to), to # "launched",
           JobStep({}, Move(j, to))
    PROVE  /\ cancelled' = {} /\ phase'[j] = to
           /\ \A k \in Jobs : k # j => phase'[k] = phase[k]
BY Going, CalmNames DEF Calm, VoiceInv

(* A restart when nothing is spoken cancels nothing. *)
LEMMA CalmRestarts ==
    ASSUME Calm, NEW j \in SttJobs \cup LlmJobs, NEW to, PhaseType(j, to), to # "launched",
           streamingTTSJob = NoJob, ResetForRestart(Move(j, to))
    PROVE  /\ cancelled' = {} /\ streamingTTSJob' = NoJob /\ phase'[j] = to
           /\ \A k \in Jobs : k # j => phase'[k] = phase[k]
           /\ ~waiting' /\ ~isStreamingTTSActive' /\ ~isLLMResponseComplete'
           /\ ~isCollectingSpeech'
<1>1. /\ streamingTTSJob' = NoJob /\ cancelled' \subseteq cancelled \cup ({streamingTTSJob} \ {NoJob})
      /\ phase'[j] = to
      /\ \A k \in SttJobs \cup LlmJobs : k # j => phase'[k] = phase[k]
      /\ \A k \in TtsJobs :
            phase'[k] = IF k = streamingTTSJob /\ phase[k] = "launched" THEN "none" ELSE phase[k]
  BY RestartingOne DEF Calm, VoiceInv
<1>2. cancelled' = {}
  BY <1>1, CalmNames
<1>3. \A k \in Jobs : k # j => phase'[k] = phase[k]
  BY <1>1, CalmNames DEF Jobs
<1> QED
  BY <1>1, <1>2, <1>3 DEF ResetForRestart

LEMMA CalmStt == ASSUME Calm, NEW j \in SttJobs, Stt(j) PROVE OneQuestion'
<1> USE DEF user, disturbed, mic, speech, jobs, pointers, flags, output, coroutines
<1>1. j \in Jobs /\ \A p \in SttPhases : PhaseType(j, p)
  BY JobsAssumption DEF Jobs, PhaseType
<1>2. j = sttJob /\ phase[j] # "none" /\ cancelled = {}
  BY CalmNames DEF Stt, SttDispatch, SttText, SttAnswer, SttNoProvider, SttBlank, RestartStops,
                   SttRestarted, SttCancelledEnds, Runs, Returns
<1>3. /\ NoJob \notin Jobs /\ j # NoJob /\ llmProviderJob = NoJob /\ streamingTTSJob = NoJob /\ ~isStreamingTTSActive
      /\ ~waiting /\ restarting = "none" /\ ~starting /\ voiceMode /\ frame = "none"
      /\ reopening = "none" /\ ~reinitialising
      /\ \A k \in Jobs : k # j => phase[k] = "none"
      /\ isProcessingSTT \/ currentState = "IDLE" \/ phase[j] \in Restarts
  BY <1>1, <1>2, CalmNames DEF Calm, OneQuestion, JobsNamed, SttStage, MicStage, Resting
<1> DEFINE Goes(to) == /\ cancelled' = {} /\ phase'[j] = to
                       /\ \A k \in Jobs : k # j => phase'[k] = phase[k]
<1>4. CASE SttDispatch(j)
  <2>1. Goes("transcribing")
    BY <1>1, <1>4, CalmGoes DEF SttDispatch, SttPhases
  <2> QED
    BY <1>2, <1>3, <1>4, <2>1
       DEF Restarts, SttDispatch, OneQuestion, JobsNamed, SttStage, LlmStage, TtsStage, MicStage
<1>5. CASE SttText(j)
  <2>1. Goes("heard")
    BY <1>1, <1>5, CalmGoes DEF SttText, SttPhases
  <2> QED
    BY <1>2, <1>3, <1>5, <2>1
       DEF Restarts, SttText, Runs, Returns, OneQuestion, JobsNamed, SttStage, LlmStage, TtsStage, MicStage
<1>6. CASE SttAnswer(j)
  <2>1. /\ phase'[j] = "none" /\ llmProviderJob' \in LlmJobs /\ llmProviderJob' \in Jobs
        /\ phase'[llmProviderJob'] = "launched" /\ llmProviderJob' # j
        /\ cancelled' = {}
        /\ \A k \in Jobs : k # j /\ k # llmProviderJob' => phase'[k] = phase[k]
    BY <1>2, <1>3, <1>6, Answering, JobsAssumption DEF Calm, VoiceInv, Jobs
  <2> QED
    BY <1>2, <1>3, <1>6, <2>1
       DEF SttAnswer, OneQuestion, JobsNamed, SttStage, LlmStage, TtsStage, MicStage
<1>7. CASE SttNoProvider(j)
  <2>1. Goes("none")
    BY <1>1, <1>7, CalmGoes DEF SttNoProvider, SttPhases
  <2> QED
    BY <1>2, <1>3, <1>7, <2>1
       DEF SttNoProvider, OneQuestion, JobsNamed, SttStage, LlmStage, TtsStage, MicStage
<1>8. CASE SttBlank(j)
  <2>1. CASE MayRestart
    <3>1. PICK to \in {"clearing", "restarting"} : ResetForRestart(Move(j, to))
      BY <1>8, <2>1 DEF SttBlank, BeginRestart
    <3>2. Goes(to) /\ streamingTTSJob' = NoJob /\ ~waiting' /\ ~isStreamingTTSActive'
      BY <1>1, <1>3, <3>1, CalmRestarts DEF SttPhases
    <3>3. to \in Restarts /\ to # "none"
      BY DEF Restarts
    <3>4. UNCHANGED <<voiceMode, frame, sttJob, llmProviderJob, starting, restarting, reopening,
                      reinitialising>>
      BY <1>8, <2>1 DEF SttBlank
    <3> QED
      BY <1>2, <1>3, <3>2, <3>3, <3>4
         DEF OneQuestion, JobsNamed, SttStage, LlmStage, TtsStage, MicStage
  <2>2. CASE ~MayRestart
    <3>1. Goes("none")
      BY <1>1, <1>8, <2>2, CalmGoes DEF SttBlank, SttPhases
    <3> QED
      BY <1>2, <1>3, <1>8, <2>2, <3>1
         DEF SttBlank, OneQuestion, JobsNamed, SttStage, LlmStage, TtsStage, MicStage
  <2> QED
    BY <2>1, <2>2
<1>9. CASE SttRestarted(j)
  <2>1. Goes("none")
    BY <1>1, <1>9, CalmGoes DEF SttRestarted, SttPhases
  <2> QED
    BY <1>2, <1>3, <1>9, <2>1
       DEF SttRestarted, EndRestart, ToListening,
           OneQuestion, JobsNamed, SttStage, LlmStage, TtsStage, MicStage
<1>10. ~SttCancelledEnds(j)
  BY <1>2 DEF SttCancelledEnds
<1>11. CASE RestartStops(j)
  <2>1. PICK to \in {"restarting", "restartingLast"} : JobStep({}, Move(j, to))
    BY <1>11 DEF RestartStops
  <2>2. phase[j] # "clearingLast"
    BY JobsAssumption DEF Calm, VoiceInv, JobsOK, PhaseType, SttPhases, Jobs
  <2>3. Goes("restarting")
    BY <1>1, <1>11, <2>2, CalmGoes DEF RestartStops, SttPhases
  <2> QED
    BY <1>2, <1>3, <1>11, <2>3
       DEF RestartStops, Restarts, OneQuestion, JobsNamed, SttStage, LlmStage, TtsStage, MicStage
<1> QED
  BY <1>4, <1>5, <1>6, <1>7, <1>8, <1>9, <1>10, <1>11 DEF Stt

(* The speech of an answer starts. *)
LEMMA CalmSpeaks ==
    ASSUME Calm, NEW moves, DOMAIN moves \subseteq LlmJobs,
           \A j \in DOMAIN moves : moves[j] = "none",
           StartSpeaking(moves)
    PROVE  /\ cancelled' = {} /\ ~reinitialising' /\ isStreamingTTSActive'
           /\ currentState' = "SPEAKING" /\ ~isCollectingSpeech'
           /\ streamingTTSJob' \in TtsJobs /\ streamingTTSJob' \in Jobs
           /\ phase[streamingTTSJob'] = "none" /\ phase'[streamingTTSJob'] = "launched"
           /\ \A k \in Jobs : k # streamingTTSJob' =>
                 phase'[k] = IF k \in DOMAIN moves THEN "none" ELSE phase[k]
<1>1. /\ cancelled' \subseteq cancelled
      /\ streamingTTSJob' \in TtsJobs /\ phase[streamingTTSJob'] = "none"
      /\ phase'[streamingTTSJob'] = "launched"
      /\ \A k \in Jobs : k # streamingTTSJob' =>
            phase'[k] = IF k \in DOMAIN moves THEN "none" ELSE phase[k]
  BY Speaking DEF Calm, VoiceInv
<1>2. ~reinitialising /\ cancelled = {}
  BY DEF Calm, OneQuestion, JobsNamed
<1> QED
  BY <1>1, <1>2 DEF StartSpeaking, Jobs

LEMMA CalmLlm == ASSUME Calm, NEW j \in LlmJobs, Llm(j) PROVE OneQuestion'
<1> USE DEF user, disturbed, mic, speech, jobs, pointers, flags, output, coroutines
<1>1. j \in Jobs /\ j \notin TtsJobs /\ \A p \in LlmPhases : PhaseType(j, p)
  BY JobsAssumption DEF Jobs, PhaseType
<1>2. j = llmProviderJob /\ phase[j] # "none" /\ cancelled = {}
  BY CalmNames DEF Llm, LlmEnds, LlmDispatch, LlmToken, LlmError, LlmComplete, LlmStreamEnds, LlmFails,
                   LlmBackoffEnds, RestartStops, LlmRestarted, LlmRestartsAgain, LlmCancelledEnds,
                   Runs, Returns
<1>3. /\ NoJob \notin Jobs /\ j # NoJob /\ sttJob = NoJob
      /\ ~waiting /\ restarting = "none" /\ ~starting /\ voiceMode /\ frame = "none"
      /\ reopening = "none" /\ ~reinitialising
      /\ \A k \in Jobs : k # j /\ k # streamingTTSJob => phase[k] = "none"
      /\ isStreamingTTSActive <=> streamingTTSJob # NoJob
  BY <1>1, <1>2, CalmNames DEF Calm, OneQuestion, JobsNamed, SttStage, LlmStage, MicStage, Resting
<1>4. /\ \/ phase[j] \in {"launched", "streaming"} /\ currentState \in {"THINKING", "SPEAKING"}
         \/ phase[j] \in Restarts
      /\ phase[j] = "streaming" => ~isLLMResponseComplete
  BY <1>2, <1>3 DEF Calm, OneQuestion, LlmStage
<1>5. streamingTTSJob # NoJob =>
         /\ streamingTTSJob \in TtsJobs /\ streamingTTSJob \in Jobs /\ streamingTTSJob # j
         /\ currentState = "SPEAKING" /\ answered /\ ~isCollectingSpeech
         /\ phase[j] = "streaming" /\ phase[streamingTTSJob] \notin {"none", "draining"}
  BY <1>1, <1>2, <1>3, CalmNames DEF Calm, OneQuestion, TtsStage
<1>6. ~TtsIdle => streamingTTSJob # NoJob
  BY <1>3 DEF TtsIdle, Active
<1>7. TtsIdle => streamingTTSJob = NoJob
  BY <1>3 DEF TtsIdle
<1>8. ~Disturb("llmFails") /\ ~Disturb("ttsNotReady")
  BY Disturbing DEF Calm, Harmless
<1> DEFINE Goes(to) == /\ cancelled' = {} /\ phase'[j] = to
                       /\ \A k \in Jobs : k # j => phase'[k] = phase[k]
<1>9. CASE LlmDispatch(j)
  <2>1. Goes("streaming")
    BY <1>1, <1>9, CalmGoes DEF LlmDispatch, LlmPhases
  <2> QED
    BY <1>2, <1>3, <1>4, <1>5, <1>9, <2>1
       DEF Restarts, LlmDispatch, OneQuestion, JobsNamed, SttStage, LlmStage, TtsStage, MicStage
<1>10. CASE LlmToken(j)
  <2>1. CASE NotSpeaking(NoMoves, "SPEAKING") /\ UNCHANGED reinitialising
    <3>1. {} \subseteq Jobs
      OBVIOUS
    <3>2. cancelled' = {} /\ \A k \in Jobs : phase'[k] = phase[k]
      BY <1>2, <2>1, <3>1, Cancelling DEF NotSpeaking, Calm, VoiceInv
    <3>3. answered => answered'
      BY <1>10, Zenon DEF LlmToken
    <3> QED
      BY <1>1, <1>2, <1>3, <1>4, <1>5, <1>10, <2>1, <3>2, <3>3
         DEF LlmToken, NotSpeaking, Runs, Returns, OneQuestion, JobsNamed, SttStage, LlmStage,
             TtsStage, MicStage
  <2>2. CASE TtsIdle /\ answered' /\ StartTTS(NoMoves, "SPEAKING")
    <3>1. StartSpeaking(NoMoves) /\ streamingTTSJob = NoJob
      BY <1>7, <1>8, <2>2 DEF StartTTS
    <3>2. /\ cancelled' = {} /\ ~reinitialising' /\ isStreamingTTSActive'
          /\ currentState' = "SPEAKING" /\ ~isCollectingSpeech'
          /\ streamingTTSJob' \in TtsJobs /\ streamingTTSJob' \in Jobs
          /\ phase[streamingTTSJob'] = "none" /\ phase'[streamingTTSJob'] = "launched"
          /\ \A k \in Jobs : k # streamingTTSJob' => phase'[k] = phase[k]
      BY <3>1, CalmSpeaks, MovesOne
    <3> QED
      BY <1>1, <1>2, <1>3, <1>4, <1>10, <2>2, <3>1, <3>2
         DEF LlmToken, Runs, Returns, OneQuestion, JobsNamed, SttStage, LlmStage, TtsStage, MicStage
  <2> QED
    BY <1>10, <2>1, <2>2 DEF LlmToken
<1>11. ASSUME NEW state, EndAnswered(j, state), phase[j] = "streaming",
              state \in {"SPEAKING", currentState},
              UNCHANGED <<voiceMode, spoken, frame, isRunning, sttJob, output, starting, reopening,
                          restarting>>
       PROVE  OneQuestion'
  <2>1. CASE TtsIdle
    <3>1. StartSpeaking(Move(j, "none")) /\ streamingTTSJob = NoJob
      BY <1>7, <1>8, <1>11, <2>1 DEF EndAnswered, StartTTS
    <3>2. /\ cancelled' = {} /\ ~reinitialising' /\ isStreamingTTSActive'
          /\ currentState' = "SPEAKING" /\ ~isCollectingSpeech'
          /\ streamingTTSJob' \in TtsJobs /\ streamingTTSJob' \in Jobs
          /\ phase[streamingTTSJob'] = "none" /\ phase'[streamingTTSJob'] = "launched"
          /\ \A k \in Jobs : k # streamingTTSJob' =>
                phase'[k] = IF k = j THEN "none" ELSE phase[k]
      <4> DEFINE m == Move(j, "none")
      <4>1. DOMAIN m = {j} /\ m[j] = "none" /\ StartSpeaking(m)
        BY <3>1, MovesOne
      <4> HIDE DEF m
      <4>2. DOMAIN m \subseteq LlmJobs /\ \A k \in DOMAIN m : m[k] = "none"
        BY <4>1
      <4> QED
        BY <4>1, <4>2, CalmSpeaks
    <3> QED
      BY <1>1, <1>2, <1>3, <1>11, <3>1, <3>2
         DEF EndAnswered, OneQuestion, JobsNamed, SttStage, LlmStage, TtsStage, MicStage
  <2>2. CASE ~TtsIdle
    <3>1. NotSpeaking(Move(j, "none"), state) /\ UNCHANGED reinitialising /\ streamingTTSJob # NoJob
      BY <1>6, <1>11, <2>2 DEF EndAnswered
    <3>2. Goes("none")
      BY <1>1, <3>1, CalmGoes DEF NotSpeaking, LlmPhases
    <3> QED
      BY <1>1, <1>2, <1>3, <1>5, <1>11, <3>1, <3>2
         DEF EndAnswered, NotSpeaking, OneQuestion, JobsNamed, SttStage, LlmStage, TtsStage, MicStage
  <2> QED
    BY <2>1, <2>2
(* A restart of the job's own goes on to any of its phases. *)
<1>17. ASSUME NEW to \in Restarts, ResetForRestart(Move(j, to)), streamingTTSJob = NoJob,
              UNCHANGED <<voiceMode, frame, sttJob, llmProviderJob, starting, reopening, restarting,
                          reinitialising>>
       PROVE  OneQuestion'
  <2>1. /\ Goes(to) /\ streamingTTSJob' = NoJob /\ ~waiting' /\ ~isStreamingTTSActive'
        /\ ~isLLMResponseComplete'
    BY <1>1, <1>17, CalmRestarts DEF LlmPhases, Restarts
  <2>2. to # "none"
    BY DEF Restarts
  <2> QED
    BY <1>1, <1>2, <1>3, <1>17, <2>1, <2>2
       DEF OneQuestion, JobsNamed, SttStage, LlmStage, TtsStage, MicStage
<1>12. ASSUME NEW to, to \in {"restarting", "restartingLast"}, NEW state, EndBlank(j, to, state),
              UNCHANGED <<voiceMode, spoken, frame, isRunning, sttJob, output, starting, reopening,
                          restarting>>
       PROVE  OneQuestion'
  <2>1. streamingTTSJob = NoJob
    BY <1>5, <1>12 DEF EndBlank
  <2>2. CASE MayRestart
    <3>1. \E at \in Restarts : ResetForRestart(Move(j, at))
      BY <1>12, <2>2 DEF EndBlank, BeginRestart, Restarts
    <3> QED
      BY <1>12, <1>17, <2>1, <2>2, <3>1 DEF EndBlank
  <2>3. CASE ~MayRestart
    <3>1. Goes("none")
      BY <1>1, <1>12, <2>3, CalmGoes DEF EndBlank, LlmPhases
    <3> QED
      BY <1>1, <1>2, <1>3, <1>12, <2>1, <2>3, <3>1
         DEF EndBlank, OneQuestion, JobsNamed, SttStage, LlmStage, TtsStage, MicStage
  <2> QED
    BY <2>2, <2>3
<1>13. CASE LlmComplete(j) \/ LlmStreamEnds(j)
  <2>1. /\ UNCHANGED <<voiceMode, spoken, frame, isRunning, sttJob, output, starting, reopening,
                          restarting>>
        /\ phase[j] = "streaming"
        /\ \/ EndAnswered(j, "SPEAKING") \/ EndBlank(j, "restarting", "SPEAKING")
           \/ EndAnswered(j, currentState) \/ EndBlank(j, "restartingLast", currentState)
    BY <1>13 DEF LlmComplete, LlmStreamEnds, Runs, Returns
  <2> QED
    BY <1>11, <1>12, <2>1
<1>14. CASE LlmRestarted(j)
  <2>1. Goes("none")
    BY <1>1, <1>14, CalmGoes DEF LlmRestarted, LlmPhases
  <2>2. streamingTTSJob = NoJob
    BY <1>5, <1>14 DEF LlmRestarted, Runs
  <2> QED
    BY <1>1, <1>2, <1>3, <1>14, <2>1, <2>2
       DEF LlmRestarted, EndRestart, ToListening,
           OneQuestion, JobsNamed, SttStage, LlmStage, TtsStage, MicStage
<1>15. CASE LlmRestartsAgain(j)
  <2>1. streamingTTSJob = NoJob
    BY <1>5, <1>15 DEF LlmRestartsAgain, Runs
  <2>2. CASE isRunning
    <3>1. \E at \in Restarts : ResetForRestart(Move(j, at))
      BY <1>15, <2>2 DEF LlmRestartsAgain, Restarts
    <3> QED
      BY <1>15, <1>17, <2>1, <2>2, <3>1 DEF LlmRestartsAgain
  <2>3. CASE ~isRunning
    <3>1. Goes("none")
      BY <1>1, <1>15, <2>3, CalmGoes DEF LlmRestartsAgain, LlmPhases
    <3> QED
      BY <1>1, <1>2, <1>3, <1>15, <2>1, <2>3, <3>1
         DEF LlmRestartsAgain, OneQuestion, JobsNamed, SttStage, LlmStage, TtsStage, MicStage
  <2> QED
    BY <2>2, <2>3
<1>16. ~LlmError(j) /\ ~LlmFails(j) /\ ~LlmBackoffEnds(j) /\ ~LlmCancelledEnds(j)
  BY <1>2, <1>4, <1>8 DEF LlmError, LlmFails, LlmBackoffEnds, LlmCancelledEnds, Runs, Restarts
<1>18. CASE RestartStops(j)
  <2>1. PICK to \in {"restarting", "restartingLast"} : JobStep({}, Move(j, to))
    BY <1>18 DEF RestartStops
  <2>2. Goes(to)
    BY <1>1, <2>1, CalmGoes DEF LlmPhases
  <2>3. streamingTTSJob = NoJob
    BY <1>5, <1>18 DEF RestartStops
  <2>4. to \in Restarts /\ to \notin {"none", "streaming"}
    BY DEF Restarts
  <2> QED
    BY <1>1, <1>2, <1>3, <1>18, <2>2, <2>3, <2>4
       DEF RestartStops, OneQuestion, JobsNamed, SttStage, LlmStage, TtsStage, MicStage
<1> QED
  BY <1>9, <1>10, <1>13, <1>14, <1>15, <1>16, <1>18 DEF Llm, LlmEnds

LEMMA CalmTts == ASSUME Calm, NEW j \in TtsJobs, Tts(j) PROVE OneQuestion'
<1> USE DEF user, disturbed, mic, speech, jobs, pointers, flags, output, coroutines
<1>1. j \in Jobs /\ j \notin LlmJobs /\ \A p \in TtsPhases : PhaseType(j, p)
  BY JobsAssumption DEF Jobs, PhaseType
<1>2. cancelled = {}
  BY CalmNames
<1>3. j = streamingTTSJob /\ phase[j] # "none"
  BY <1>2, CalmNames DEF Tts, TtsDispatch, TtsSpeak, TtsDrain, TtsEnds, Runs
<1>4. /\ NoJob \notin Jobs /\ j # NoJob /\ sttJob = NoJob
      /\ restarting = "none" /\ ~starting /\ voiceMode /\ frame = "none"
      /\ reopening = "none" /\ ~reinitialising
      /\ \A k \in Jobs : k # j /\ k # llmProviderJob => phase[k] = "none"
      /\ isStreamingTTSActive
  BY <1>1, <1>2, <1>3, CalmNames
     DEF Calm, OneQuestion, JobsNamed, SttStage, LlmStage, TtsStage, MicStage, Resting
<1>5. /\ currentState = "SPEAKING" /\ answered /\ ~isCollectingSpeech
      /\ llmProviderJob # NoJob =>
            /\ llmProviderJob \in LlmJobs /\ llmProviderJob \in Jobs /\ llmProviderJob # j
            /\ phase[llmProviderJob] = "streaming" /\ phase[j] # "draining"
            /\ ~isLLMResponseComplete /\ ~waiting
  BY <1>1, <1>3, <1>4, CalmNames DEF Calm, OneQuestion, LlmStage, TtsStage
<1> DEFINE Goes(to) == /\ cancelled' = {} /\ phase'[j] = to
                       /\ \A k \in Jobs : k # j => phase'[k] = phase[k]
<1>6. CASE TtsDispatch(j)
  <2>1. Goes("talking")
    BY <1>1, <1>6, CalmGoes DEF TtsDispatch, TtsPhases
  <2> QED
    BY <1>1, <1>3, <1>4, <1>5, <1>6, <2>1
       DEF TtsDispatch, OneQuestion, JobsNamed, SttStage, LlmStage, TtsStage, MicStage
<1>7. CASE TtsDrain(j)
  <2>1. Goes("draining")
    BY <1>1, <1>7, CalmGoes DEF TtsDrain, TtsPhases
  <2>2. llmProviderJob = NoJob
    BY <1>5, <1>7 DEF TtsDrain
  <2> QED
    BY <1>1, <1>3, <1>4, <1>5, <1>7, <2>1, <2>2
       DEF TtsDrain, OneQuestion, JobsNamed, SttStage, LlmStage, TtsStage, MicStage
<1>8. CASE TtsEnds(j)
  <2>1. Goes("none")
    BY <1>1, <1>8, CalmGoes DEF TtsEnds, TtsPhases
  <2>2. llmProviderJob = NoJob
    BY <1>2, <1>5, <1>8 DEF TtsEnds, Runs
  <2> QED
    BY <1>1, <1>3, <1>4, <1>5, <1>8, <2>1, <2>2
       DEF TtsEnds, OneQuestion, JobsNamed, SttStage, LlmStage, TtsStage, MicStage
<1> QED
  BY <1>6, <1>7, <1>8, CalmStill DEF Tts, StillActions

LEMMA CalmRestartBegins == ASSUME Calm, RestartBegins PROVE OneQuestion'
<1> USE DEF user, disturbed, mic, speech, jobs, pointers, flags, output, coroutines
<1>1. /\ sttJob = NoJob /\ llmProviderJob = NoJob /\ streamingTTSJob = NoJob
      /\ ~isStreamingTTSActive /\ ~waiting /\ ~starting /\ voiceMode /\ frame = "none"
      /\ reopening = "none" /\ ~reinitialising /\ currentState = "ERROR"
  BY DEF RestartBegins, Calm, OneQuestion, JobsNamed, SttStage, LlmStage, TtsStage, MicStage, Resting
<1>2. /\ NoJob \notin Jobs /\ cancelled = {} /\ \A k \in Jobs : phase[k] = "none"
  BY <1>1, CalmNames DEF Jobs
<1>3. CASE ResetForRestart(NoMoves)
  <2>2. cancelled' = {} /\ \A k \in Jobs : phase'[k] = "none"
    <3>1. /\ cancelled' \subseteq cancelled \cup ({streamingTTSJob} \ {NoJob})
          /\ \A k \in SttJobs \cup LlmJobs : phase'[k] = phase[k]
          /\ \A k \in TtsJobs :
                phase'[k] = IF k = streamingTTSJob /\ phase[k] = "launched" THEN "none" ELSE phase[k]
      BY <1>3, Restarting, MovesOne DEF Calm, VoiceInv
    <3> QED
      BY <1>1, <1>2, <3>1 DEF Jobs
  <2> QED
    BY <1>1, <1>2, <1>3, <2>2
       DEF RestartBegins, ResetForRestart, OneQuestion, JobsNamed, SttStage, LlmStage, TtsStage,
           MicStage
<1>4. CASE UNCHANGED <<jobs, streamingTTSJob, flags, waiting>> /\ restarting' = "none"
  BY <1>1, <1>2, <1>4
     DEF RestartBegins, OneQuestion, JobsNamed, SttStage, LlmStage, TtsStage, MicStage
<1> QED
  BY <1>3, <1>4 DEF RestartBegins

LEMMA CalmStep == VoiceInv /\ CalmInv /\ [Next]_vars => CalmInv'
<1> SUFFICES ASSUME VoiceInv, CalmInv, [Next]_vars, Undisturbed' PROVE OneQuestion'
  BY DEF CalmInv
<1>1. Undisturbed
  <2>1. (orderly' => orderly) /\ (crossed => crossed')
    BY BoolsStep, MovedStep, MarksStep DEF VoiceInv
  <2> QED
    BY <2>1 DEF Undisturbed
<1>2. Calm
  BY <1>1 DEF Calm, CalmInv
<1>3. ~Interrupt
  BY Disturbing DEF Interrupt, Harmless
<1>4. ~Reinitialised
  BY <1>2 DEF Calm, OneQuestion, JobsNamed, Reinitialised
<1> QED
  BY <1>2, <1>3, <1>4, CalmStill, CalmSend, CalmRestartBegins, CalmStt, CalmLlm, CalmTts
     DEF Next, User, Microphone, Coroutine, StillActions, SendActions

LEMMA CalmInit == Init => CalmInv
BY JobsAssumption DEF Init, CalmInv, OneQuestion, JobsNamed, SttStage, LlmStage, TtsStage, MicStage,
                      Deaf, Resting

LEMMA CalmAlways == Spec => [](VoiceInv /\ CalmInv)
<1>1. Spec => [](VoiceInv /\ SttFlagHasJob)
  BY VoiceAlways
<1> QED
  BY <1>1, CalmInit, CalmStep, PTL DEF Spec

(* A set whose only possible element is x has at most one. *)
LEMMA AtMostOne ==
    ASSUME NEW x, NEW S, S \subseteq {x}
    PROVE  Cardinality(S) <= 1
<1>1. CASE S = {}
  BY <1>1, FS_EmptySet
<1>2. CASE S = {x}
  BY <1>2, FS_Singleton
<1> QED
  BY <1>1, <1>2

(* processSpeechSegment, forceEndSpeechSegment and stopConversation look   *)
(* at isProcessingSTT before they launch a job, and the ends of the jobs,  *)
(* restartListening and awaitCompletionAndListen reset it.  restartListening *)
(* resets it before the recorder is stopped; still, as long as no segment  *)
(* is sent in that window, no order of taps, recorder failures, slow       *)
(* restarts and ends of jobs brings a second thread into nativeTranscribe. *)
(* With such a segment the code does (VoicePipelineTwoStt).                *)
THEOREM TranscribesOnce == Spec => []OneTranscription
<1>1. VoiceInv /\ CalmInv => OneTranscription
  <2> SUFFICES ASSUME VoiceInv, OneQuestion PROVE Cardinality(Transcribers) <= 1
    BY DEF CalmInv, OneTranscription
  <2>1. Transcribers \subseteq {sttJob}
    BY JobsAssumption DEF VoiceInv, PointersOK, OneQuestion, JobsNamed, Transcribers, Jobs
  <2> QED
    BY <2>1, AtMostOne
<1> QED
  BY <1>1, CalmAlways, PTL

(* startStreamingTTS, the ends of an answer and of its speech, and the     *)
(* coroutines that open the microphone: the pipeline never listens or      *)
(* collects while it speaks, and never speaks twice at once, as long as    *)
(* frames are handled whole between the steps of the pool and no segment   *)
(* crosses a restart, whatever taps, recorder failures and slow restarts   *)
(* come between.  A frame that races with the end of a transcription       *)
(* breaks it (VoicePipelineRace).                                          *)
THEOREM NeverHearsItself == Spec => []NoFeedbackLoop
<1>1. VoiceInv /\ CalmInv => NoFeedbackLoop
  <2> SUFFICES ASSUME VoiceInv, OneQuestion
               PROVE  /\ Cardinality(Talking) <= 1
                      /\ Talking # {} => /\ ~isCollectingSpeech
                                         /\ currentState \notin {"LISTENING", "SPEECH_DETECTED"}
    BY DEF CalmInv, NoFeedbackLoop
  <2>1. Talking \subseteq {streamingTTSJob} /\ NoJob \notin Talking
    BY JobsAssumption DEF VoiceInv, PointersOK, OneQuestion, JobsNamed, Talking, Jobs, Runs
  <2>2. Cardinality(Talking) <= 1
    BY <2>1, AtMostOne
  <2>3. Talking # {} => currentState = "SPEAKING" /\ ~isCollectingSpeech
    BY <2>1 DEF OneQuestion, TtsStage
  <2> QED
    BY <2>2, <2>3
<1> QED
  BY <1>1, CalmAlways, PTL
=============================================================================
