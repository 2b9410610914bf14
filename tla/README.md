# A verification project for Hey Nilo

Hey Nilo is an Android voice assistant that runs a language model on the
device. Kotlin code (`src/native_android/app/src/main/java`) drives C++ code
(`src/native_android/app/src/main/cpp`) through JNI. This directory holds TLA+
models of the parts of it that are hard to test (threads, locks, coroutines,
cancellation), the TLC configurations that check them on small instances and
TLAPS proofs for every value of the constants.

`PROJECT.json` maps every definition to the lines it stands for, and lists the
components, the runs, a mutant per property, the hazards and the theorems.

## 1. The system

| Component | State | Operations | Interacts with | Hard behaviour | What makes it correct |
|---|---|---|---|---|---|
| Native engine `ai_chat_jni.cpp`, `bridge_jni.cpp` | one global `g_state`: context, KV cache, history, `last_prompt_tokens`, `should_stop`, a timed mutex | loadModel, prepareContext, nativeGenerateStream, stopGeneration, nativeAddToHistory, nativeClearContext, unload | called from IO threads and the main thread through `LlamaBridge` | lock timeouts, lock-free stop, freeing a shared object, prefix reuse | the context is never freed under a generation; tokens are sampled from the prompt; a stop stops; every call returns |
| `LlamaBridge.kt`, `BaseBridge.kt`, `llm/OfflineLLMProvider.kt` | bridge state, `isLoadingModel`, `currentGenerationJob` (one each), a channel for each request | load, unload, stream, stop, cancel | the engine; the voice pipeline | two jobs per request of which one only starts the other, timeouts, a state nobody owns | a request alone gets its whole answer; every request ends; a state other than READY does not last |
| `InferenceQueue.kt` | `requestQueue`, `isPaused`, response flow | enqueue (NORMAL, HIGH), cancel, clear, pause, resume, the processor coroutine | `LlamaBridge.generateStream`, `addToHistory` | a concurrent queue rebuilt in steps, a stop at any moment | an accepted request is run once or withdrawn, never lost |
| `VoicePipelineManager.kt` | pipeline state, speech buffers, an STT, an LLM and a TTS job, flags | start, stop, restart, stopTTS, stopGeneration, audio frames | recorder, VAD, STT, provider or queue, TTS | a job's `finally` that runs after what replaced it | a stopped conversation stays stopped; the pipeline always listens again |
| `VADBridge.kt`, and the collection in `processAudioWithVAD` | two automata of one utterance, clocks in time and in frames | a frame, a tap, stop, listen again | the recorder, the STT job | thresholds of two clocks, a state reset in six places | noise is dropped, a sentence ends with silence, what is heard is collected |
| `KokoroTTSBridge.kt` and the speaking job | `pendingUtterances`, the last utterance's start and expected duration, `isReady` | speakQueued, waitForCompletion, stop, isSpeaking, the engine's callbacks | the system's engine, the pipeline | callbacks late or lost, a wait that gives up | a wait that ends by reports ends in silence; what plays is noticed; the microphone comes back |
| `MemoryManager.kt`, `FileSystemManager.kt`, `MemoryInitialization.kt`, `MemoryExtractionHelper.kt` | cached documents and statistics, JSON files | add, remove, extract and save, initialize | pipeline | no lock, a file written in place, a kill | what was acknowledged is read back; an operation alone leaves the file equal to memory |
| `MemoryCompaction.kt` | conversation files, quarterly summaries | run a compaction | memory store | failure or kill between summary and deletion | nothing is deleted that is not summarised, nothing recent is touched |
| `ui/OfflineModelPickerScreen.kt` (`downloadWithRetry`, `downloadOnce`, `DownloadManager`) | `.tmp` and final file, jobs, download states, what the screen shows | start, cancel, delete, leave and reopen | HTTP server, UI | resume and retry over one file, two jobs, a kill | a file with the model's name is the model; success means there is one |
| `util/ModelDownloader.kt`, `AudioBridge.kt`, `audio_jni.cpp`, `TTSBridge.kt`, `SherpaTTSBridge.kt` and the Moonshine and Sherpa recognisers | | | nobody in the application calls them | | not modelled |
| STT bridges, recorder, configuration, search, prompt text, data classes, UI | handles, tables and views | | | | not modelled: wrappers, or no interacting state |

A question takes this way: the recorder's frames go through the VAD and the
collection (`SpeechSegments`) to an STT job, whose text goes to a provider
(`LlamaBridge`) or the queue (`InferenceQueue`) and on to the engine
(`LlamaEngine`); the answer is spoken sentence by sentence (`SpeechOutput`), a
memory is extracted from it (`MemoryStore`), and the pipeline listens again
(`VoicePipeline`). Downloads and compactions are started from the user interface.

Behaviour that is hard to test is listed line by line under `hazards`.

## 2. Plan

In this order, the most important behaviour first:

1. **LlamaEngine** with its proofs (done).
2. **InferenceQueue** over the bridge, shown to implement **RequestLifecycle**, with
   proofs (done).
3. **VoicePipeline**: its jobs, its coroutines and what may come between, with
   proofs (done).
4. **LlamaBridge** with `OfflineLLMProvider`, with proofs (done); `complete`,
   `release` and the error recovery are left.
5. **Downloads**, with proofs (done).
6. **MemoryStore** and **MemoryCompaction**, with proofs (done); a
   transaction-like abstract store for the first is left.
7. **SpeechSegments** and **SpeechOutput**, with proofs (done).
8. Left: an abstract specification of a conversation turn that VoicePipeline
   implements; `nativeOptimizeMemory`.

How the modules depend on one another: InferenceQueue INSTANCEs
RequestLifecycle; the other modules are separate, and each relies on another
only through a fairness assumption that the other module states as a property.
These are named under *Fairness* below.

## 3. Modules

### LlamaEngine

`LlamaEngine.tla` models the global `LlamaState` and every JNI call on it that
changes state. Each thread has a program counter; a call is cut where another
thread can observe it, that is, at the mutex and between lock-free accesses.

* `engine` is what `g_state` points to: nothing, an object without model, with
  a model, with a context, or one that `cleanup()` has emptied and nobody has
  replaced yet ("freed"). `dangling` are the threads inside a call whose object
  was destroyed meanwhile; what they do is undefined, and the model lets them
  return. A thread that prefills or samples can be one only after a load has
  begun during an unload (`crossed`): this is the theorem `ContextSafe`.
* `nativeGenerateStream` is `EnterGenerate` (context check), then either
  `GiveUpGenerate` (5 s timeout), `TokenizeFails`, or `BeginPrefill` (lock,
  prompt, reset of `should_stop`, comparison with `last_prompt_tokens`,
  `llama_memory_seq_rm` or `llama_memory_clear`), `PrefillBatch`,
  `PrefillFails`, `StartLoop`, `LoopHead`, `SampleToken`, `LoopEnds`,
  `LoopEndsUndecoded` and `CompleteGenerate`.
* `stopGeneration` takes no lock and is two steps, the flag and the cache.
* `unload` and `loadModel` first free the context under the mutex
  (`FreeContext`) and then, without it, write `g_state` (`ReplaceState`). A
  waiter may take the mutex between the two (`TakeFreed`) and goes on with a
  null model and context, which is undefined; the model lets it return.
  `Loading` is the `isLoadingModel` flag of `LlamaBridge`: a load sets it, a
  second load and an unload are refused by it, and a load is not refused while
  an unload is under way.
* Data: a message is one token, a prompt is the history and the new message,
  the sampler returns any token. KV positions hold a token or nothing.
* `kvTrusted`, `stopRaised` and `lateTokens` are history variables: they record
  whether a stop or a failed decode has disturbed the cache, where the stop
  found the generation and how many tokens were shown after it.

### InferenceQueue and RequestLifecycle

`InferenceQueue.tla` models `enqueue`, the processor coroutine, the user's
cancel, clear, pause, resume and stop, and the part of `LlamaBridge` between the
processor and the engine. Each call on the `ConcurrentLinkedQueue` is atomic;
the HIGH branch of `enqueue` is four such calls (`CopyQueue`, `ClearQueue`,
`AddFirst`, `AddRest`) under a monitor that only other HIGH enqueuers take.
`stream` is the callback flow of `generateStream`: launched, assigned (the job
is stored), running, cancelled, closed, or orphan (nobody will close it).

`RequestLifecycle.tla` is what the queue promises of a request: accepted or
refused once, withdrawn only while pending, run at most once and one at a time,
never back from its end. `Lifecycle` in InferenceQueue is the refinement mapping.
`removeIf` in `cancel` takes out every element with the id; the model takes out
one, and the theorem `RequestQueuedOnce` says that there is never a second.

### VoicePipeline

`VoicePipeline.tla` models `VoicePipelineManager` with an `LLMProvider`: the
handlers that run on the main thread (audio frames, the orb, X, leaving), the
jobs of a question and the coroutines that open the microphone again. A step is
a callback, or the code of a coroutine between two suspension points. The main
thread and the pool run in parallel without a lock, and in two places others may
go on in the middle:

* `slowClear`: `restartListening` has reset `isProcessingSTT` (1942) and is in the
  blocking `clearContext` (1953), with the microphone on until 1958. The phases
  `clearing` and `clearingLast`, and `restarting = "clearing"`, are that window, and
  `RestartStops` and `RestartGoesOn` leave it. A segment that is sent during a
  restart, or whose text arrives in that window, sets `crossed`.
* `race`: a frame has passed the checks of `processAudioWithVAD` (`FramePasses`,
  `frame = "passed"`) and reaches the VAD later; its segment is sent (883: `ending`)
  before the state returns to LISTENING (`SegmentEnds`). Only the steps of jobs and
  coroutines come between, since the callbacks share the main thread.

Apart from these:

* `phase` says where each STT, LLM and TTS job is; `cancelled` are those whose
  `Job.cancel()` was called and which have not reached their `catch` and
  `finally` blocks. A job cancelled before it was dispatched runs nothing.
  `sttJob`, `llmProviderJob` and `streamingTTSJob` are the fields, which the
  `finally` blocks clear whoever they point to by then.
* `starting`, `reopening`, `restarting`, `waiting` and `reinitialising` are the
  coroutines of `startVoiceConversation`, `restartForNewQuestion`,
  `restartListening`, `awaitCompletionAndListen` and `ensureReady`. A
  `restartListening` that a job calls itself is the job's phase `restarting`.
  `openers` are coroutines that will turn the recorder on: the one in
  `pipelineJob`, and one that a second `startRecording` has overwritten.
* `Disturbances` is what may come between the steps of a question, each an
  action or a branch of its own, so that a run can name what it is about.
* Data: audio is whether a segment is collected and whether it is long enough,
  an answer is whether it is blank, a timer is a choice. `StartTTS` and
  `EndAnswered` are pieces of several handlers, always part of a caller's step.
* `orderly` says that no disturbance has come but taps, a recorder that fails or
  breaks off (`broken`: it still says that it is recording) and slow restarts
  (`Harmless`). `Undisturbed` is that, and no segment that crossed a restart.
* One assumption about time, `Prompt`: a frame is handled, and a job cancelled in a
  `delay` (at most a second, and interruptible) reaches its `finally`, before a call of
  the recogniser or the provider returns and before a segment has been spoken. A job
  cancelled *inside* such a call or in `clearContext` has no such limit, and that is
  where the findings are. What a frame races with is the code after such a call.
* Barge-in is not modelled because it cannot happen: `processAudioWithVAD`
  returns at 675 in the state in which line 728 would look for it.

### LlamaBridge

`LlamaBridge.tla` models the bridge's states and `OfflineLLMProvider.stream` on
top of it. A request has a call (`pc`), the provider's job (`provJob`), the
bridge's job (`job`) and a `channel`; the provider's job ends as soon as it has
started the bridge's, and the call waits for the channel, with a timeout.

* `Ask` to `Launch` are `stream` up to the launched job: the stop of the previous
  generation and the `withTimeoutOrNull` around the join. `Check`, `Begin`,
  `Dispatch`, `Acquire` and `LockTimeout` are `generateWithMaxTokens` and the
  way into the native call; `Token`, `NativeEnd` and `Return` its callbacks and
  `Finally` the `finally` that sets READY. `Check` and `Refuse` are `assertReady`,
  which reads the state and then sets ERROR, over whatever was written in between:
  the READY of a stop or of a job that ends there is lost, and the ERROR stays until
  the next request's stop. `StateRecovers` excepts that, `ErrorEnds` is what would hold
  without it.
* `LoadStart`, `LoadProceed`, `LoadNative` and `LoadEnd` are the four uses that
  `loadModel` makes of the state; they and `Unload` guard each other with
  `isLoadingModel`.
* The native call is its mutex and `should_stop`; LlamaEngine has the rest.
* VoicePipeline relies on the end of a stream being its end. `AnswerIsFinal` says
  so of this provider: a timeout leaves the bridge's job at work, which may go on
  making tokens, but the channel no longer takes them.

### SpeechSegments

`SpeechSegments.tla` models `VADProcessor` and the collection of
`processAudioWithVAD`, which VoicePipeline reduces to "a segment begins" and "a
segment ends". A step is one frame, voiced or not, a tap, a stop, the end of a
transcription or a way back to listening. Durations are measured with the wall
clock by one automaton and in frames by the other; a frame is handled with a
`lag` of at most `MaxLag`, because the recorder reads several at a time. Ages are
kept up to `Horizon`, beyond which no comparison tells them apart. `voiced` and
`quiet` count what the properties are about. `AWAY` is every state in which
frames are dropped.

### SpeechOutput

`SpeechOutput.tla` models `KokoroTTSBridge` over the system's engine and the
job of `startStreamingTTS`. `playing` is the engine's queue, `reports` the
callbacks on their way; `sinceLast` and `expected` are the clock of the last
utterance on which `isSpeaking` and the bailout of `waitForCompletion` rest. A
sentence takes at most 70 ms per character, which is what the code expects up to
its cap; some may be longer than the cap. `outran` notes that a sentence had to
queue behind another or is longer than the cap: then the code's clock may run out
before the sound does, and `PlayingIsNoticed` does not claim otherwise.

Polled every 100 ms, a wait ends by its callbacks or its bailout, long before 30 s.
`TimedOut` is the wait whose polls are that late. The caller's `withTimeoutOrNull`
(`VoicePipelineManager.kt:2099`) started first and cancels it in its delay, so what is
pending stays; line 426 clears it only if the poll is made at that moment. After a
timeout `MicrophoneReturns` promises nothing until the next answer (`Unwaited`).

### MemoryStore

`MemoryStore.tla` models one list document of `MemoryManager` and the
statistics of `extractAndSave`. The document is changed in memory (`Add`,
`Remove`), encoded, and its file opened, which truncates it, and written; the
statistics are copied, changed and assigned. `file` is the text and its length,
since a writer that finds a longer text than its own leaves the rest behind. A
file that does not parse is loaded as the default, as `loadJsonFile` does.
`promised` is what the operations that returned true left; deleting a reminder
ignores the result of its save. A save may also fail because another thread changed
the list while it was turned into text (a branch of `OpenFails`).

### MemoryCompaction

`MemoryCompaction.tla` models `performCompaction` over days that pass: the old
files are found, grouped by quarter, read, the summary is written and the files
deleted one by one, and at the end what is very old is deleted. A step is one file
operation, between which the process may be killed or a second compaction run.
`file.delete()` may return false, and the compaction goes on; `missed` records the
old files that were left behind so, or with a quarter whose summary failed.
A summary is the set of days whose conversations it was made from. Text is the
data that is abstracted: the archive's wording is no matter.

### Downloads

`Downloads.tla` models the download of one model: `downloadWithRetry` and
`downloadOnce` (`Head` to `GiveUp`), the `DownloadManager` and the screen. A file
is its size and the positions that hold the right chunk. Names and files are kept
apart, because a job goes on writing to a file whose name was deleted or renamed.
A cancelled job goes on until it suspends, so two jobs may run.

### Disturbances

Each of these modules, and VoicePipeline, has a set `Disturbances` of what may go
wrong and a bound `MaxDisturbances` on how often. Each one is an action, or a
branch of one, that a run may switch on. `happened` records those that came
(VoicePipeline keeps `orderly` in its place). A property that some of them break says so
(`happened \cap ... = {}`, `Undisturbed`); that the exception is needed is shown by a
configuration of its own (below). The specifications themselves allow any number.

## 4. Runs

MCLlamaEngine and MCInferenceQueue add the symmetry of the model values to a
specification; the other modules are checked as they are.

| Run | Checks | Shows |
|---|---|---|
| LlamaEngineSafety | `TypeOK`, `HolderOwnsContext`, `CacheIsThePrompt`, `StopEndsLoop` | the thread that generates keeps its context as long as no load crosses an unload, and a waiter gets the mutex without one only between `cleanup()` and the write of `g_state`; a stop of the token loop ends it, and prefix reuse is right in the absence of stops and failed decodes |
| LlamaEngineLiveness | `GenerateReturns` | every generate call returns |
| InferenceQueueNormal | `TypeOK`, `ImplementsLifecycle` | with NORMAL requests the queue implements the abstract life of a request: it runs at most once, one at a time, and never returns from its end |
| InferenceQueueHigh | `NothingLost`, `AcceptedRequestFinishes` | with HIGH requests only none is lost, and without stops each one ends |
| VoicePipelineAll | `TypeOK`, `SttFlagHasJob`, `OneTranscription`, `NoFeedbackLoop` | with every disturbance the STT flag is never stuck; with taps, a recorder that fails or breaks off and slow restarts, segments are transcribed one by one and the pipeline does not listen to itself, unless one is sent during a restart |
| VoicePipelineRecovers | `PipelineListens` | after failures, blanks, timeouts, slow restarts and frames that race with the jobs a running pipeline listens again, unless a segment crossed a restart |
| LlamaBridge | `TypeOK`, `Undisturbed`, `AskEnds`, `StateRecovers` | a request made while no other's work goes on gets the whole answer, whatever was cancelled or failed to load before; every request ends; BUSY and LOADING do not last while a model is loaded, and ERROR does so only where requests overlapped or the model was replaced under one |
| SpeechSegments | `SegmentsTypeOK`, `NoiseIsDropped`, `EndsWithSilence`, `SpeechIsCollected`, `CollectionEnds` | with frames that come late, a single noise is never sent, a sentence is not cut before its silence, the two automata stay in step and a collection ends |
| SpeechOutput | `OutputTypeOK`, `ReportedMeansSilent`, `PlayingIsNoticed`, `MicrophoneReturns` | what plays is noticed; with lost callbacks, stops and failures a wait ends, and the microphone is not kept deaf unless an utterance is left that nobody waits for |
| MemoryStore | `TypeOK`, `Durable`, `SoloSaves`, `Counts` | killed between any two steps, acknowledged changes are loaded again; an operation alone repairs its file; the statistics do not overcount |
| MemoryCompaction | `TypeOK`, `RecentKept`, `Archived`, `NothingOldLeft` | what is recent is never deleted, what is deleted is in a summary, a compaction that ends leaves only those old files whose summary or deletion failed |
| Downloads | `TypeOK`, `FinalComplete`, `ScreenTellsTruth`, `SuccessMeansFile`, `DownloadEnds` | whatever is retried, resumed, restarted, not renamed or killed, the file with the model's name is right and at least 99 % of the model; success means that it is there or that the attempts are used up; the open screen agrees with the directory; every download ends |

Beside these are configurations that check one further promise each, made by a
comment of the code or expected of it, and that TLC refutes. They justify the
conditions in the properties above and show what the code does instead:

| Configuration | Refutes | How |
|---|---|---|
| LlamaEngineFresh | `StartsFreshAfterStop` (`ai_chat_jni.cpp:1036-1037`) | a stop empties the cache and leaves `last_prompt_tokens`: the next turn reuses the prefix of an empty cache |
| LlamaEngineUnload | `NoUnloadMidGeneration` (`ai_chat_jni.cpp:1062-1063`) | unload frees the state under a thread that waits for it or is returning |
| LlamaEnginePrefillStop | `StopDuringPrefillHonoured` (`ai_chat_jni.cpp:772`) | the stop breaks the prefill off, line 808 resets `should_stop`, and the token loop runs over a partly decoded prompt |
| InferenceQueueTwice | `RunsAtMostOnce` (`InferenceQueue.kt:95`) | a HIGH enqueue can put back a request that was just polled |
| InferenceQueueMixed | `NothingLost` (`InferenceQueue.kt:95`) | a NORMAL request added between `toList` and `clear` of a HIGH enqueue is dropped |
| InferenceQueueHistory | `HistoryOnlyCompletedTurns` (`InferenceQueue.kt:254-255`) | a response that was cut off enters the history |
| InferenceQueueStop | `StoppedRequestCompletes` (`InferenceQueue.kt:193`) | a stop between assignment and dispatch of the job leaves the channel open, and the processor waits for ever |
| VoicePipelineLeave | `LeftStaysStopped` (`MainActivity.kt:1011`) | a conversation that was left starts listening again when its speech ends (2150) |
| VoicePipelineInterrupt | `RestartListens` (`VoicePipelineManager.kt:1274`) | X during a transcription ends in ERROR |
| VoicePipelineTwoStt | `AlwaysOneTranscription` (`VoicePipelineManager.kt:110`) | a segment that ends in `clearContext` (1953), after 1942 has reset `isProcessingSTT`, starts a second job whose flag the `finally` of the first (1105) clears, and a third overlaps the second; the listening timeout, whose restart resets the flag of a job at work, refutes it too |
| VoicePipelineRace | `NeverCollectsItself` (`VoicePipelineManager.kt:668-675`) | a frame that passed 779 sends a segment and writes LISTENING (883) over the THINKING of the one before (1088); its blank transcription restarts listening while the answer is spoken |
| VoicePipelineLateTts | `PipelineListens` (`VoicePipelineManager.kt:1845`) | speech starts (1993) after the next question has reset `isLLMResponseComplete`, and waits for it in SPEAKING |
| LlamaBridgeOverlap | `PreviousStopped` (`OfflineLLMProvider.kt:202`) | the join waits for a job that only started the bridge's, which still holds the mutex |
| LlamaBridgeError | `ErrorEnds` | `assertReady` (`BaseBridge.kt:204`) sets ERROR after the READY of the job it found at work; it lasts until somebody asks again |
| LlamaBridgeLoad | `LoadIsPossible` (`LlamaBridge.kt:201`) | after one failed load the bridge stays in ERROR and refuses the next |
| SpeechSegmentsShort | `MinimumSpeech` (`VoicePipelineManager.kt:53`) | the clock counts the silence too, so a short noise that is confirmed is sent |
| SpeechSegmentsLong | `NeverTooLong` (`VoicePipelineManager.kt:56`) | noises that are never confirmed prolong a collection beyond its maximum |
| SpeechOutputBacklog | `WaitedForAll` (`KokoroTTSBridge.kt:399`) | the bailout looks at the last sentence only, which may still be queued |
| SpeechOutputStop | `StopMeansSilent` (`VoicePipelineManager.kt:1227`) | the cancelled job may speak one more sentence before it suspends |
| SpeechOutputDeaf | `MicrophoneAlwaysReturns` (`KokoroTTSBridge.kt:512`) | after an exception of the engine, or the timeout of the caller (`VoicePipelineManager.kt:2099`), an utterance stays pending and nobody waits for it |
| DownloadsRename | `SuccessAlwaysReal` (`OfflineModelPickerScreen.kt:1493`) | after a failed `renameTo` (1606), or a kill before it, the next attempts all fail on a complete `.tmp`, and after the last one success is reported |
| DownloadsCancel | `FinalAlwaysComplete` | a job started after a cancellation works on the `.tmp` that the cancelled one still writes |
| DownloadsReopen | `CompletionIsShown` (`OfflineModelPickerScreen.kt:48-49`) | the callback of a finished download goes to the screen that was closed |
| MemoryCrash | `AlwaysDurable` (`MemoryManager.kt:37`) | files are written in place: killed within a write, all is replaced with the default |
| MemoryOverlap | `SavedWhenQuiet` (`MemoryManager.kt:36`) | two operations write the same file, the older text last |
| MemoryCompactionAgain | `AlwaysArchived` (`MemoryCompaction.kt:24-28`) | a second summary of a quarter replaces the first, whose files are deleted |

**Bounds.** The engine has two threads (every race in it is between a holder and
one other thread), two token values (to tell a reused cell from the right one),
a context of 3 positions, batches of 2, a reuse threshold of 1 (so that
prefixes of 0, 1 and 2 tokens are below, at and above it), 2 tokens per answer
and a history of 2. Threads and tokens are symmetric. The liveness run uses one
token value and a context of 2, since `GenerateReturns` depends on the lock and
on the number of steps only. `lateTokens` is unbounded in the specification and
bounded by what the loop can show. The queue has three requests, so that one can
be running, one queued and one moving, with capacity 2 (where a request is
refused) or 3.

**Fairness.** `LlamaEngine!FairSpec` is weak fairness of each thread inside a
call: Android schedules runnable threads. It says nothing of who gets the mutex:
`std::timed_mutex` is unfair, and no progress of unload or clearContext is
claimed. `InferenceQueue!FairSpec` is weak fairness of the enqueuers, of the
processor coroutine, of the bridge's job (the engine ends every generation after
240 s or `maxTokens`) and of `resume`, which the UI calls when it returns to the
foreground.

**Voice pipeline.** It has two jobs of each kind, reused when they have ended (which
of two free objects is taken makes no difference, so `New` chooses): what
the code must keep apart is one job and the one that replaces it.
`MaxDisturbances` and `MaxSpoken` bound how often something comes between and
how often somebody speaks: one or two disturbances reach every ordering of
handlers around a job, and two or three questions reach the state left behind by
the first. `TypeOK` and
`SttFlagHasJob` hold under all disturbances;
`OneTranscription` and `NoFeedbackLoop` hold with taps, a failing or broken recorder and
slow restarts that no segment crosses. The other disturbances are left out of their
premise because what restarts or ends a
conversation does not wait for the jobs of the last question (or, for the TTS
engine, starts one late, or, for a frame that races, writes over their state).
`PipelineListens` holds with taps, slow restarts, racing frames and with every
failure and timer except a TTS engine that is ready late and a recorder that breaks
off, which nothing notices; it does not hold with X, nor after leaving, and a segment
that crossed a restart ends its promise, since its answer can cancel the restart.
Deadlock is not checked, as nobody has to speak again.

`VoicePipeline!FairSpec` is weak fairness of launched coroutines and jobs
(`Dispatchers.Default` and `IO` run what is launched), of the end of an STT job
(`nativeTranscribe` returns), of an LLM job (75 s of `withTimeoutOrNull`), of
utterances (30 s), and of the end of a segment while the recorder is on, which
is `SpeechSegments!CollectionEnds` for a speaker who pauses. A frame that raced is
handled to its end (`SegmentEnds`, `FrameChangesNothing`), and `clearContext` returns. A recorder that fails to
start stops the pipeline (`isRunning` false), which `PipelineListens` allows.
The user is not assumed to act.

**The other modules.**

| Module | Bounds of the run | Why enough | Fairness and why |
|---|---|---|---|
| LlamaBridge | 2 requests, 2 tokens, 2 disturbances | the fields hold one job each: what must be kept apart is a request and the one that replaces it; a partial answer needs 2 tokens | weak fairness of a load that was begun and of each request's steps: `Dispatchers.IO` runs them, the waits have timeouts, and a native call ends (`LlamaEngine!GenerateReturns`) |
| SpeechSegments | 2, 5, 3, 5, 9 frames, lag 1, horizon 10 | in the order of the code's 7, 25, 18, 25, 313 frames, so the same of the two clocks runs out first; ages beyond the horizon are equal to every comparison | frames keep coming while the pipeline listens, a transcription ends, and every way out of listening leads back, which is `VoicePipeline!PipelineListens` |
| SpeechOutput | sentences of 4 and 6 ticks, cap 4, graces 1, timeout 8, 2 sentences, 2 disturbances | one duration is the cap and one beyond it; two sentences queue; two sentences of the longest outlast the timeout | time passes, a callback that comes comes in the end, a wait polls, however late, and a cancelled job ends. An answer need not be complete in the end: the job may talk for ever (VoicePipelineLateTts) |
| MemoryStore | 2 threads, 2 items, lists of 2, 2 disturbances | races are between two writers; two items make texts of different length | none: safety only |
| MemoryCompaction | 2 compactions, days 0 to 5, quarters of 2 days, limits of 1 and 2 days, 2 disturbances | a quarter has both recent and old days, and both old and very old ones; three quarters | none: safety only |
| Downloads | 2 jobs, 2 chunks of which 1 counts as 99 %, 2 attempts, 4 files, 2 disturbances | a partial file that is accepted, one that is not there and a full one; a first and a last attempt, so that the disturbances can use up all attempts; a file for each name and for each job that holds one without a name | weak fairness of the steps of each job: requests and reads time out after 10 s, and a server slower than 5 KB/s is left |

In larger instances that take too long to be run each time, LlamaBridge was
checked with 3 disturbances, SpeechOutput with sentences of 1, 4 and 6 ticks and 3
sentences, and Downloads with 3 disturbances.

The fairness of SpeechSegments and that of VoicePipeline refer to each other, and
neither is derived from the other: CollectionEnds needs a way back to listening
only after a collection has ended, PipelineListens needs the end of a collection
only while the pipeline listens.

Deadlock is not checked where the system may really stop: where nobody has to
ask, press a button or speak, and in MemoryStore where the bound on the lists
ends the calls.

## 5. Proofs

### The engine

`LlamaEngineProofs.tla` proves, for any set of threads and tokens and any
`CtxLen`, `NBatch`, `ReuseThreshold`, `MaxTokens` and `MaxHistory` that satisfy
`BoundsAssumption` and `DistinctAssumption`:

| Theorem | Statement |
|---|---|
| `EngineInvariant` | `Spec => []EngineInv` |
| `TypeCorrect` | `Spec => []TypeOK` |
| `ContextSafe` | `Spec => []HolderOwnsContext` |
| `StopIsPrompt` | `Spec => []StopEndsLoop` |
| `CacheReuseSound` | `Spec => []CacheIsThePrompt` |

None of the last three is inductive. `HolderOwnsContext` needs that the mutex is
held only at the program points that hold it (`HeldByHolder`), how far a load
has come (`LoadStages`) and who stands between `cleanup()` and the write of
`g_state` (`ReplaceStages`), so that no step of a load or unload finds a context in
use, unless a load has begun during an unload (`crossed`): the unload then destroys
whatever the load has put there. `StopEndsLoop` needs that a stop raised in the loop stays raised while a
thread is in it (`StopStays`), which follows from mutual exclusion: only the
holder resets `should_stop`. `CacheIsThePrompt` needs what the cache holds
*between* turns and *during* prefill (`CacheCoherent`): when the mutex is free
the cache is exactly `last_prompt_tokens`, so the common prefix that
`BeginPrefill` keeps is a prefix of the new prompt; each batch extends it; the
loop starts at its end (`LoopBounds`). `EngineInv` is the conjunction; there is
one lemma per conjunct (`TypeStep`, `LockStep`, `LoadStep`, `ReplaceStep`, `LoopStep`,
`StopStep`, `CacheStep`), each with one step per action, and `InitInv`.

### Downloads

`DownloadsProofs.tla` proves, for any sets of jobs and files, any size of the
model, any number of attempts and of disturbances (`DownloadsAssumption`):

| Theorem | Statement |
|---|---|
| `TypeCorrect` | `Spec => []TypeOK` |
| `ModelWhole` | `Spec => []FinalComplete` |
| `SuccessHasFile` | `Spec => SuccessMeansFile` |
| `ScreenIsRight` | `Spec => []ScreenTellsTruth` |

`FinalComplete` says nothing of how a file got its name. The invariant
`DownloadInv` is that, while nothing from `Disorder` has happened (`Calm`), one
job runs (`OneJob`) and everything is `InOrder`: the temporary file holds the
first chunks of the model and nothing else (`TmpRight`), and the job's position is
where the file ends, at the resume, the request and every write, and the end of the
model when a response with a length was read (`JobInOrder`). So the file that passes
the check of its length is right and long enough (`FinalRight`), and whole unless a
rest came without a length (`PrefixGrows`, `OrderOf`). `OneJob` in turn
needs that the screen's state is `downloading` while a job runs, which is what
keeps the button from starting a second one; `Calm` never comes back
(`CalmBefore`). `OneJobStep` and `OrderStep` have one step per action.

`SuccessMeansFile` allows a success without a file when all attempts are used up,
which the code does (after the last of its 500 attempts `downloadWithRetry` just
returns, 1470, and its caller reports success), and the theorem says that this is the
only way: a job comes to its end by a rename or by using up its attempts
(`SuccessInv`). The screen then agrees with the directory whenever no job runs
(`ScreenInv`), because it is told of each success and each deletion and was right
before; it is wrong only after such a success, or after a deletion that failed, which
`deleteModel` does not notice (1631).

### Segments

The second half of `SpeechProofs.tla` proves, for all durations that satisfy
`SegmentAssumption`:

| Theorem | Statement |
|---|---|
| `SegmentsTyped` | `SegmentsSpec => []SegmentsTypeOK` |
| `SingleNoiseIsDropped` | `SegmentsSpec => []NoiseIsDropped` |
| `SegmentEndsWithSilence` | `SegmentsSpec => []EndsWithSilence` |
| `HeardSpeechIsCollected` | `SegmentsSpec => []SpeechIsCollected` |

The assumption that matters is `Trailing + MaxLag < MinSegment`: the silence that
ends a collection, with the lag of its frames, is shorter than the least segment.
With the code's values, 18 and 25 frames, that holds while frames are handled at
most 6 frames (about 190 ms) late. The invariant `SegmentInv` adds `Clocks` to the
properties: a collection of one voiced frame is no older than its silent frames
and the lag, so it is too short when they run out; and the silence that the VAD
measures is no longer than the silent frames it has seen and the lag. `HeardArrows`
lists the VAD's transitions, `ForceEndOutcome` and `SentRecord` what becomes of a
segment, `FrameStep` is the step of a frame and `SegmentStep` that of the rest.

### Compaction

`MemoryCompactionProofs.tla` proves, for any set of compactions that may run at
once, any number of days and disturbances, and any limits that satisfy
`MemoryCompactionAssumption`:

| Theorem | Statement |
|---|---|
| `CompactionTyped` | `Spec => []TypeOK` |
| `RecentIsKept` | `Spec => []RecentKept` |
| `DeletedIsArchived` | `Spec => []Archived` |
| `CompactionCompletes` | `Spec => NothingOldLeft` |

`SafeInv` holds whatever happens: what a compaction has in hand is old
(`OldOnly`), what is old is still in hand or was missed (`Remaining`),
and quarters are found and taken as a whole (`WholeQuarters`). `ArchiveInv` holds
while no quarter is summarised again and no file is unreadable (`Calm`). Its
argument: what was read for a summary has all old files of the quarter
(`CoversFiles`), since only days that were recent can be added meanwhile; once a
summary is open it also has those of the quarter that are deleted by then
(`CoversDeleted`), since one that was deleted before the files were read would
have left a summary behind, and opening that would be a second one of the quarter;
and files are deleted only when the summary is written, those included that the
clean-up of the last step takes because they could not be deleted at first
(`SummaryFirst`).

### Speech

The first half of `SpeechProofs.tla` proves, for all durations, limits, numbers of sentences
and disturbances that satisfy `SpeechAssumption` (durations have a greatest one):

| Theorem | Statement |
|---|---|
| `OutputTyped` | `OutputSpec => []OutputTypeOK` |
| `ReportedIsSilent` | `OutputSpec => []ReportedMeansSilent` |
| `PlayingNoticed` | `OutputSpec => []PlayingIsNoticed` |

`OutputInv` adds that the sentences of an answer are numbered in the order in
which they play (`Numbered`), so that the report of one is never that of another;
that what plays was not reported and is pending while the answer lasts
(`Tracked`), so that nothing pending means nothing playing; that of a stopped job
nothing plays until it speaks once more (`Stopped`); and that a single sentence
of expected length is over when the code expects it to be (`OnTime`), which makes
the fallback by time sufficient when callbacks are lost. `SpeakOutcome` says what
`speakQueued` may leave behind and serves the job and the cancelled job alike;
`TickPreserves` is the playback, `OutputStep` has one step per action.

### The queue

`InferenceQueueProofs.tla` proves, for any set of requests and any capacity that
satisfy `QueueAssumption`:

| Theorem | Statement | Condition |
|---|---|---|
| `QueueTyped` | `Spec => []TypeOK` | |
| `RequestQueuedOnce` | `Spec => []QueuedOnce` | |
| `NothingIsLost` | `Spec => []NothingLost` | requests of one priority |
| `NormalRunsOnce` | `Spec => []RunsAtMostOnce` | no HIGH requests |
| `QueueImplementsLifecycle` | `Spec => ImplementsLifecycle` | no HIGH requests |

The conditions are those of the code: a NORMAL `enqueue` does not take the monitor
that a HIGH one moves the queue under (line 95), and a poll may come between its
copy and its clear, so mixed priorities lose requests (InferenceQueueMixed) and HIGH
ones run twice (InferenceQueueTwice). `QueueInv` adds to the types that only the
holder of the monitor has a copy (`Locked`), that what is queued or copied was added
before (`Arrived`) and is there once (`QueuedOnce`). `NothingLost` needs to know
*where* an accepted request is (`Somewhere`) and that the copy has all of the queue
until it is cleared (`CopyIsWhole`). `NormalInv` is that the processor's requests are
not queued any more (`OneWay`), which makes each run the only one (`RunsCounted`).
The refinement maps every step to the step of one request's life or to the
withdrawal of pending ones (`LifecycleStep`, from `RequestStep`, which says what each
action does to the status of every request). The lemmas at the head are about
sequences: what `Append`, `\o`, `Tail` and the removal of one position do to the
elements and to their being different.

### The memory store

`MemoryStoreProofs.tla` proves, for any threads, items, lengths of the lists and
disturbances that satisfy `MemoryStoreAssumption`:

| Theorem | Statement |
|---|---|
| `StoreTyped` | `Spec => []TypeOK` |
| `StoreIsDurable` | `Spec => []Durable` |
| `LoneOperationSaves` | `Spec => []SoloSaves` |
| `FactsAreCounted` | `Spec => []Counts` |

`StoreInv` has the types and which operation may be where (`Placed`). `SaveInv` is
about the file. While operations are killed but do not overlap (`Steady`) it is what
was promised until it is truncated, and the list in memory is already what will be
promised then; after anything else an operation that runs alone still writes what is
in memory over a file it has emptied (`SavesMemory`), so the file equals the memory
when it ends (`SavedBefore`). `FactsInv` is about the statistics: every count, in
memory, in a thread's hands or in a file, leaves room for all facts that were learned
and not yet counted (`CountInv`, an inequality that overlaps and kills keep), with
equality as long as nothing overlaps (`ExactInv`). It needs that the threads still to
count are finitely many. How often an entry is in a list is the cardinality of its
places; `TallyAppend` and `TallyRemove` say what adding and removing do to it. The
cases of `Promise` exclude one another since the proof of `StoreIsDurable` showed that
they overlapped.

### The voice pipeline

`VoicePipelineProofs.tla` proves, for any sets of jobs, any `Disturbances` and any
`MaxDisturbances` and `MaxSpoken` (`JobsAssumption`):

| Theorem | Statement |
|---|---|
| `PipelineTyped` | `Spec => []TypeOK` |
| `FlagHasJob` | `Spec => []SttFlagHasJob` |
| `TranscribesOnce` | `Spec => []OneTranscription` |
| `NeverHearsItself` | `Spec => []NoFeedbackLoop` |

The first two hold under every disturbance. `VoiceInv` adds to the types that
`llmProviderJob` names a job that has not ended (`PointersOK`): the next question
cancels the job it names and launches one in the same step, which could otherwise be
the same. `SttFlagHasJob` is then inductive: every end of an STT job resets the flag,
and so does X, which is all that cancels one. What a step does to the jobs is stated once for
each kind of step (`Sending`, `Going`, `Restarting`, `Speaking`, `Answering`).

The last two are conditional on `Undisturbed`, as the runs show they must be, and
neither is inductive. `CalmInv` is why they hold: while nothing comes between but taps,
the recorder and slow restarts, and no segment crosses a restart, the jobs that have not
ended are exactly the ones the fields name (`JobsNamed`), and the pipeline works on one
question at a time (`OneQuestion`). A question is heard (`SttStage`), then thought about
(`LlmStage`), then spoken (`TtsStage`, where generation and speech may overlap).
The stages say little of the microphone, which may be on, and collect, in the middle of
a restart: before voice mode is entered nobody hears anything, and no frame is half
handled (`MicStage`). What makes it safe is when a segment is *sent*. It is either sent
in LISTENING or SPEECH_DETECTED, where the stages leave no job but one that
`isProcessingSTT` guards or one that restarts (`CalmHears`), or it is sent during a
restart, which sets `crossed` (`CalmCrosses`), so that nothing is left to show.
`orderly` and `crossed` never return to what they were (`MarksStep`, `MovedStep`), so
`Undisturbed'` implies `Undisturbed`. A restart cancels nothing, since it finds no speech
job (`CalmRestarts`). There is one lemma for each kind of job and for the coroutines
(`CalmStt`, `CalmLlm`, `CalmTts`, `CalmSend`, `CalmStill`, `CalmRestartBegins`).

### The bridge

`LlamaBridgeProofs.tla` proves, for any set of requests, any number of tokens, any
`Disturbances` and any `MaxDisturbances` (`LlamaBridgeAssumption`):

| Theorem | Statement | Condition |
|---|---|---|
| `BridgeInvariant` | `Spec => []BridgeInv` | |
| `BridgeTypes` | `Spec => []TypeOK` | |
| `ReportedAnswerIsFinal` | `Spec => AnswerIsFinal` | |
| `UndisturbedIsAnswered` | `Spec => []Undisturbed` | only collectors are cancelled and only loads fail |

`TypeOK` has the mutex: a second native call waits, and the proof counts the
holders by showing any two of them equal (`OneHolder`). The first three hold under
every disturbance. `PreviousStopped`, the comment at line 202 of the provider, is not
among them: LlamaBridgeOverlap refutes it, and without requests that overlap there is
nothing to stop. A call that has reported its end has a closed channel, or never
launched a job (`Settled`); only `onToken` adds to an answer, and it finds the channel
closed.

`Undisturbed` is not inductive. While nothing but those two disturbances comes, the call,
its two jobs and its channel go through their stages together (`Called`, `Worked`): the
stop leaves READY, which nobody changes until the check; the native call finds
`should_stop` reset and the channel open, and closes it with the whole answer. Neither
job is cancelled meanwhile, because the fields that the stop of a request cancels name
jobs that have ended or nothing (`Named`). That needs `Alone`: with two requests the stop
of the second meets the job of the first. `Alone` is that of two requests one is idle or
over with both of its jobs ended, which only a new request could break.

### Only model-checked

Liveness and all that rests on fairness (`GenerateReturns`,
`AcceptedRequestFinishes`, `PipelineListens`, `AskEnds`, `StateRecovers`,
`CollectionEnds`, `MicrophoneReturns`, `DownloadEnds`) is beyond the proof system.
All other properties of the runs are theorems. `AnswerIsFinal` of LlamaBridge is a
theorem that no run lists; TLC agrees with it under the constants of LlamaBridge.cfg. Of the queue, nothing
is proved of `RunsAtMostOnce` with HIGH requests, where it fails.

## 6. What is not modelled

The repository vendors whisper.cpp with its examples, ggml and single-header
libraries; they are all but a few thousand of its lines, and the application's own
code is what is modelled. Of that code:

* llama.cpp, the recognisers and synthesisers: outside the repository or
  vendored. A decode may fail at any time; clearing and trimming succeed.
* The data race of `nativeAddToHistory` with the construction of a prompt, the
  batch that `nativeOptimizeMemory` re-creates, and the logits: see `hazards`.
* What a thread does with a freed `g_state`.
* The queue's cooldown and metrics (they only take time), its response flow's
  buffer, and `destroy`.
* Of the bridge: that the four statements of `stopGeneration` are not one. Its READY
  comes after its cancel and after `should_stop`, so a job it stops writes READY before or
  after it, and neither is BUSY; a READY written over the BUSY of a job that begins in
  between is what its one step also leaves. Only where requests overlap can a job begin
  there, and then be missing from the field. `generate` and the provider's `complete`, `release`, `recoverFromError`
  (nobody calls it), the system prompt, and the online provider.
* Of the voice pipeline: the instants within a step of the main thread or the pool
  other than `slowClear` and `race`, such as between two flags that a handler sets one
  after the other. X is not pressed again before the restart of the last X.
* The voice pipeline without a provider (`processWithLegacyQueue`), its
  initialisation and release, and when it saves a memory after an answer.
* Of the segments: what the audio is, the calibration of the VAD's energy, and
  that the first frame of a segment is in its buffer twice (786 and 819). The
  recorder is the lag of its frames; what it drops at the end of a read is not seen.
* Of the speech engine: its initialisation, `speak`, the pitch and the voice. `stop` does not
  reset the clock of the last utterance, so that `isSpeaking` stays true for up to
  10.5 s after it; the model has this, and `MicrophoneReturns` allows it.
* Of the memory: the extraction's patterns, the profile's fields,
  relationships and reminders beyond their lists, `completeReminder`. The
  removals and the forced compaction are called from a screen the application does
  not open at present; the models have them as operations that may be called.
* Of the compaction: when it runs by itself (`runIfNeeded`), its statistics and the wording
  of a summary.
* The components whose status is `not_modelled`, for the reasons given there.
