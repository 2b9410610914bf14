----------------------------- MODULE SpeechOutput -----------------------------
(***************************************************************************)
(* Speaking an answer: KokoroTTSBridge.kt over the system's TextToSpeech   *)
(* engine, and the job of VoicePipelineManager.startStreamingTTS, which    *)
(* queues sentences while the answer grows and then waits for the last.    *)
(*                                                                         *)
(* The engine plays its queue in order and reports each end by a callback, *)
(* which may come late or never (the code's comments name a device).  The  *)
(* job, the callbacks, and the main thread, which stops the speech, run    *)
(* concurrently; a step is one call of the bridge.  Time is counted in     *)
(* ticks; a sentence takes no longer than 70 ms per character, which is    *)
(* what the code expects of it up to a cap.  Polls may be late by any      *)
(* time.  A job that was cancelled has ended before the next answer is     *)
(* spoken.                                                                 *)
(***************************************************************************)
EXTENDS Integers, Sequences

CONSTANTS
    Durations,        \* of sentences at 70 ms per character, in ticks
    Cap,              \* the longest duration the code expects
    Grace,            \* of waitForCompletion's bailout by time
    Echo,             \* of isSpeaking's fallback by time
    Timeout,          \* of waitForCompletion
    MaxSentences,     \* in an answer (bound)
    Disturbances,     \* what may come between, see AllDisturbances
    MaxDisturbances   \* and how often

AllDisturbances ==
    {"lost",    \* a callback never comes
     "stop",    \* the user stops the speech
     "error",   \* the engine refuses an utterance
     "throws"}  \* the engine throws

Longest == CHOOSE d \in Durations : \A e \in Durations : e <= d
Forever == Cap + Grace + Echo + 1  \* ages are not told apart from here on

ASSUME SpeechAssumption ==
    /\ Durations \subseteq Nat \ {0}
    /\ \E d \in Durations : \A e \in Durations : e <= d
    /\ {Cap, Grace, Echo, Timeout, MaxSentences, MaxDisturbances} \subseteq Nat
    /\ Disturbances \subseteq AllDisturbances

VARIABLES
    isReady,
    pendingUtterances,   \* numbers of sentences of this answer
    sinceLast, expected, \* the age of lastUtteranceStartTime, and
                         \* lastUtteranceExpectedDurationMs
    playing,             \* the engine's queue: numbers and ticks still to play
    reports,             \* callbacks on their way
    job,                 \* streamingTTSJob
    waited,              \* the age of waitForCompletion's startTime
    spoken,              \* how many sentences of the answer were queued
    outran,              \* a sentence was queued while another played, or is
                         \* longer than expected
    ended,               \* how the last job ended
    happened, left       \* disturbances that came, and how many may still

bridge == <<isReady, pendingUtterances, sinceLast, expected>>
engine == <<playing, reports>>
response == <<spoken, outran>>
bounds == <<happened, left>>
outputVars == <<bridge, engine, job, waited, response, ended, bounds>>

Sentences == 1 .. MaxSentences

OutputInit ==
    /\ isReady = TRUE /\ pendingUtterances = {}
    /\ sinceLast = Forever /\ expected = 0
    /\ playing = <<>> /\ reports = {}
    /\ job = "none" /\ waited = 0
    /\ spoken = 0 /\ outran = FALSE
    /\ ended = "no"
    /\ happened = {} /\ left = MaxDisturbances

Disturb(d) ==
    /\ d \in Disturbances /\ left > 0
    /\ left' = left - 1 /\ happened' = happened \cup {d}

AtMost(bound, n) == IF n > bound THEN bound ELSE n
-----------------------------------------------------------------------------
(* The engine *)

(* Time passes: the head of the queue is played, and its end reported.     *)
Tick ==
    /\ sinceLast' = AtMost(Forever, sinceLast + 1)
    /\ waited' = IF job = "waiting" THEN AtMost(Timeout, waited + 1) ELSE waited
    /\ IF playing = <<>> THEN UNCHANGED <<engine, bounds>>
       ELSE LET head == Head(playing) IN
            IF head.left > 1
            THEN /\ playing' = [playing EXCEPT ![1].left = @ - 1]
                 /\ UNCHANGED <<reports, bounds>>
            ELSE /\ playing' = Tail(playing)
                 /\ \/ reports' = reports \cup ({head.sentence} \cap pendingUtterances)
                       /\ UNCHANGED bounds
                    \/ Disturb("lost") /\ UNCHANGED reports
    /\ UNCHANGED <<isReady, pendingUtterances, expected, job, response, ended>>

(* onDone, onError and onStop; an id that is not pending is ignored. *)
Callback ==
    /\ \E s \in reports :
          /\ reports' = reports \ {s}
          /\ pendingUtterances' = pendingUtterances \ {s}
    /\ UNCHANGED <<isReady, sinceLast, expected, playing, job, waited, response, ended, bounds>>
-----------------------------------------------------------------------------
(* KokoroTTSBridge *)

(* Mutant: the utterance is not tracked. *)
Accepted_Untracked(s, d) ==
    /\ playing' = (IF spoken = 0 THEN <<>> ELSE playing) \o <<[sentence |-> s, left |-> d]>>
    /\ UNCHANGED <<isReady, pendingUtterances>>

(* The engine takes the utterance; the first of an answer flushes what is  *)
(* left in the queue.                                                      *)
Accepted(s, d) ==
    /\ playing' = (IF spoken = 0 THEN <<>> ELSE playing) \o <<[sentence |-> s, left |-> d]>>
    /\ pendingUtterances' = pendingUtterances \cup {s}
    /\ UNCHANGED isReady

(* It returns ERROR: the utterance is forgotten. *)
Refused ==
    /\ isReady' = FALSE
    /\ UNCHANGED <<playing, pendingUtterances>>

(* It throws: the utterance stays pending. *)
Thrown(s) ==
    /\ isReady' = FALSE
    /\ pendingUtterances' = pendingUtterances \cup {s}
    /\ UNCHANGED playing

(* Mutant: every sentence is expected to be as short as can be. *)
Expected_Least(d) == 1

Expected(d) == AtMost(Cap, d)

(* speakQueued of the next sentence. *)
SpeakQueued ==
    LET s == spoken + 1 IN
    /\ spoken < MaxSentences
    /\ spoken' = s
    /\ IF ~isReady
       THEN UNCHANGED <<bridge, playing, outran, bounds>>
       ELSE /\ sinceLast' = 0
            /\ \E d \in Durations :
                  /\ expected' = Expected(d)
                  /\ outran' = (outran \/ playing # <<>> \/ d > Cap)
                  /\ \/ \E real \in 1 .. d : Accepted(s, real) /\ UNCHANGED bounds
                     \/ Disturb("error") /\ Refused
                     \/ Disturb("throws") /\ Thrown(s)
    /\ UNCHANGED reports

(* stop: the queue is dropped, then everything pending. *)
StopTts ==
    /\ playing' = <<>>
    /\ pendingUtterances' = {}
    /\ reports' = {}

(* The bailout of waitForCompletion: by now the last sentence must be over. *)
Overdue == sinceLast > expected + Grace

(* isSpeaking without the system's own answer, ... *)
SpeakingByBridge == pendingUtterances # {} \/ sinceLast < expected + Echo

(* ... and with it. *)
IsSpeaking == playing # <<>> \/ SpeakingByBridge
-----------------------------------------------------------------------------
(* VoicePipelineManager *)

(* startStreamingTTS: the engine is ready again, or the answer is not      *)
(* spoken; what is still being spoken is stopped.                          *)
StartStreamingTTS ==
    /\ job = "none"
    /\ job' = "talking"
    /\ isReady' = TRUE
    /\ StopTts
    /\ spoken' = 0 /\ outran' = FALSE /\ ended' = "no"
    /\ UNCHANGED <<sinceLast, expected, waited, bounds>>

(* A sentence is complete. *)
Talk ==
    /\ job = "talking"
    /\ SpeakQueued
    /\ UNCHANGED <<job, waited, ended>>

(* Mutant: a failed engine is waited for. *)
AnswerComplete_Anyway ==
    /\ job = "talking"
    /\ job' = "waiting" /\ waited' = 0
    /\ UNCHANGED <<bridge, engine, response, ended, bounds>>

(* The answer is complete: wait, unless the engine has failed. *)
AnswerComplete ==
    /\ job = "talking"
    /\ IF isReady THEN job' = "waiting" /\ waited' = 0 /\ UNCHANGED ended
       ELSE job' = "none" /\ ended' = "unready" /\ UNCHANGED waited
    /\ UNCHANGED <<bridge, engine, response, bounds>>

(* Callbacks of utterances that are no longer pending have no effect.      *)
EndJob(how) ==
    /\ job' = "none"
    /\ ended' = how
    /\ reports' = reports \cap pendingUtterances'
    /\ UNCHANGED <<isReady, sinceLast, expected, playing, waited, response, bounds>>

(* A poll of waitForCompletion that ends it.  The delay of 200 ms after it *)
(* is left out.                                                            *)
AllReported ==
    /\ job = "waiting" /\ waited < Timeout
    /\ pendingUtterances = {}
    /\ UNCHANGED pendingUtterances
    /\ EndJob("reported")

(* Mutant: what did not end in time stays pending. *)
GivenUp_KeepsPending ==
    /\ job = "waiting" /\ waited < Timeout
    /\ pendingUtterances # {} /\ Overdue
    /\ UNCHANGED pendingUtterances
    /\ EndJob("byTime")

GivenUp ==
    /\ job = "waiting" /\ waited < Timeout
    /\ pendingUtterances # {} /\ Overdue
    /\ pendingUtterances' = {}
    /\ EndJob("byTime")

(* Polls so late that 30 s have passed.  The caller's timeout was started   *)
(* before the wait and cancels it in its delay, so that what is pending    *)
(* stays; the wait's own, which clears it, is reached only by a poll that  *)
(* is made just then.                                                      *)
TimedOut ==
    /\ job = "waiting" /\ waited >= Timeout
    /\ pendingUtterances' \in {pendingUtterances, {}}
    /\ EndJob("timeout")

WaitEnds == AllReported \/ GivenUp \/ TimedOut

(* stopTTS: the speech is stopped, then the job is cancelled, which takes  *)
(* effect where it is suspended next.                                      *)
StopTTS ==
    /\ Disturb("stop")
    /\ StopTts
    /\ job' = CASE job = "talking" -> "cancelled"
                [] job = "waiting" -> "none"
                [] OTHER -> job
    /\ ended' = IF job = "none" THEN ended ELSE "stopped"
    /\ UNCHANGED <<isReady, sinceLast, expected, waited, response>>

(* The cancelled job gets as far as one more sentence, or not. *)
CancelledJobEnds ==
    /\ job = "cancelled"
    /\ job' = "none"
    /\ \/ SpeakQueued
       \/ UNCHANGED <<bridge, engine, response, bounds>>
    /\ UNCHANGED <<waited, ended>>

OutputNext ==
    \/ Tick \/ Callback
    \/ StartStreamingTTS \/ Talk \/ AnswerComplete
    \/ WaitEnds
    \/ StopTTS \/ CancelledJobEnds

OutputSpec == OutputInit /\ [][OutputNext]_outputVars

(* Time passes, callbacks that come come in the end, and the job polls.     *)
(* That an answer is complete in the end is not assumed: the job may talk  *)
(* for ever (VoicePipeline, LateTts).                                      *)
OutputFairSpec ==
    /\ OutputSpec
    /\ WF_outputVars(Tick) /\ WF_outputVars(Callback)
    /\ WF_outputVars(WaitEnds)
    /\ WF_outputVars(CancelledJobEnds)
-----------------------------------------------------------------------------
Ends == {"no", "reported", "byTime", "timeout", "unready", "stopped"}

(* Every variable is of its type; only pending utterances are reported,    *)
(* and only an engine that works is waited for.                            *)
OutputTypeOK ==
    /\ isReady \in BOOLEAN
    /\ pendingUtterances \subseteq Sentences
    /\ sinceLast \in 0 .. Forever /\ expected \in 0 .. Cap
    /\ playing \in Seq([sentence : Sentences, left : 1 .. Longest])
    /\ reports \subseteq pendingUtterances
    /\ job \in {"none", "talking", "waiting", "cancelled"}
    /\ job = "waiting" => isReady
    /\ waited \in 0 .. Timeout
    /\ spoken \in 0 .. MaxSentences /\ outran \in BOOLEAN
    /\ ended \in Ends
    /\ happened \subseteq Disturbances /\ left \in 0 .. MaxDisturbances

(* A wait that ends because every utterance was reported ends in silence,  *)
(* however the callbacks are delayed.                                      *)
ReportedMeansSilent == ended = "reported" => playing = <<>>

(* What is played is known to the bridge, without the system's isSpeaking, *)
(* which its comments call broken: also when callbacks are lost and the    *)
(* wait was given up, unless a sentence had to queue or is too long.       *)
PlayingIsNoticed == playing # <<>> /\ ~outran => SpeakingByBridge

(* An utterance may be left that nobody waits for: after a timeout, or      *)
(* where the job ended without a wait and no callback comes.               *)
Unwaited ==
    \/ ended = "timeout"
    \/ ended \in {"unready", "stopped"} /\ happened \cap {"lost", "throws"} # {}

(* The microphone is not kept deaf: a wait ends, and so does a cancelled    *)
(* job, and then isSpeaking becomes false or another answer is spoken,     *)
(* also when callbacks are lost.                                           *)
MicrophoneReturns ==
    /\ job \in {"waiting", "cancelled"} ~> job = "none"
    /\ []<>(job # "none" \/ ~IsSpeaking \/ Unwaited)

(* "Wait for all pending TTS utterances to complete": the bailout looks at *)
(* the last sentence only, which may still be waiting for the others.      *)
WaitedForAll == ended = "byTime" => playing = <<>>

(* "Stop TTS immediately": the cancelled job may still speak. *)
StopMeansSilent == ended = "stopped" /\ job = "none" => playing = <<>>

(* The second part of it without Unwaited: "Use time-based fallback when    *)
(* Android TTS API is unreliable" only adds to the reasons for which       *)
(* isSpeaking is true.                                                     *)
MicrophoneAlwaysReturns == []<>(job # "none" \/ ~IsSpeaking)
=============================================================================
