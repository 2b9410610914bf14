----------------------------- MODULE LlamaBridge -----------------------------
(***************************************************************************)
(* LlamaBridge.kt with the states of BaseBridge.kt, and on top of it       *)
(* OfflineLLMProvider.stream, whose calls wait for their channel while two *)
(* jobs work for them: the provider's, which only starts the bridge's, and *)
(* the bridge's, which blocks in the native call.                          *)
(*                                                                         *)
(* A model answers with MaxTokens tokens.  The native call is here its     *)
(* mutex and should_stop; what is behind it is module LlamaEngine's.  No   *)
(* lock guards currentState: what reads it and then writes it takes two    *)
(* steps.  The four statements of stopGeneration are one.  A request is    *)
(* made once.                                                              *)
(***************************************************************************)
EXTENDS Integers, FiniteSets

CONSTANTS
    Requests, NoRequest,
    MaxTokens,          \* tokens of an answer (bound)
    Disturbances,       \* what may happen, see AllDisturbances
    MaxDisturbances     \* and how often (bound)

AllDisturbances ==
    {"overlap",         \* a request while another's work goes on
     "stop",            \* cancelGeneration or LlamaBridge.stop
     "cancel",          \* the collector of a stream is cancelled
     "slow",            \* one of the waits ends with its timeout
     "back",            \* the model is unloaded
     "loadFails"}

ASSUME LlamaBridgeAssumption ==
    /\ NoRequest \notin Requests
    /\ MaxTokens \in Nat \ {0}
    /\ Disturbances \subseteq AllDisturbances /\ MaxDisturbances \in Nat

VARIABLES
    bstate, loaded,     \* currentState, isLoaded
    loading,            \* isLoadingModel: where the load is
    current,            \* currentGenerationJob of the bridge
    job, cancelled,     \* its jobs, and those cancelled
    should_stop,
    provCurrent,        \* currentGenerationJob of the provider
    provJob, provCancelled,
    pc,                 \* where each call of stream is
    channel,            \* open, or how it was closed
    generated, got,     \* tokens the native call made, and the channel took
    happened, left      \* the disturbances so far, and how many may follow

bridge == <<bstate, loaded, loading, current, job, cancelled, should_stop>>
provider == <<provCurrent, provJob, provCancelled, pc>>
answer == <<channel, generated, got>>
bound == <<happened, left>>
vars == <<bridge, provider, answer, bound>>

Final == {"answered", "failed", "timedOut", "cancelled"}
Working(r) == provJob[r] \notin {"none", "ended"} \/ job[r] \notin {"none", "ended"}
Holder == {r \in Requests : job[r] = "running"}

Disturb(d) ==
    /\ d \in Disturbances /\ left > 0
    /\ left' = left - 1
    /\ happened' = happened \cup {d}

Init ==
    /\ bstate = "READY" /\ loaded = FALSE /\ loading = "none" /\ current = NoRequest
    /\ job = [r \in Requests |-> "none"] /\ cancelled = {} /\ should_stop = FALSE
    /\ provCurrent = NoRequest
    /\ provJob = [r \in Requests |-> "none"] /\ provCancelled = {}
    /\ pc = [r \in Requests |-> "idle"]
    /\ channel = [r \in Requests |-> "open"]
    /\ generated = [r \in Requests |-> 0] /\ got = [r \in Requests |-> 0]
    /\ happened = {} /\ left = MaxDisturbances

Close(r, how) == channel' = [channel EXCEPT ![r] = IF @ = "open" THEN how ELSE @]
-----------------------------------------------------------------------------
(* LlamaBridge: the model *)

(* loadModel reads the state, ... *)
LoadStart ==
    /\ ~loaded /\ loading = "none"
    /\ loading' = IF bstate = "READY" THEN "accepted" ELSE "refused"
    /\ UNCHANGED <<bstate, loaded, current, job, cancelled, should_stop, provider, answer,
                   bound>>

(* ... and goes on, or sets ERROR unless it was READY. *)
LoadProceed ==
    /\ loading \in {"accepted", "refused"}
    /\ bstate' = IF loading = "accepted" THEN "LOADING" ELSE "ERROR"
    /\ loading' = IF loading = "accepted" THEN "native" ELSE "none"
    /\ UNCHANGED <<loaded, current, job, cancelled, should_stop, provider, answer, bound>>

(* nativeLoadModel returns. *)
LoadNative ==
    /\ loading = "native"
    /\ \/ loaded' = TRUE /\ loading' = "loaded" /\ UNCHANGED <<bstate, bound>>
       \/ /\ Disturb("loadFails")
          /\ bstate' = "ERROR" /\ loading' = "none" /\ UNCHANGED loaded
    /\ UNCHANGED <<current, job, cancelled, should_stop, provider, answer>>

LoadEnd ==
    /\ loading = "loaded"
    /\ bstate' = "READY" /\ loading' = "none"
    /\ UNCHANGED <<loaded, current, job, cancelled, should_stop, provider, answer, bound>>

(* unloadModel waits for the native call to end; what happens when it does *)
(* not wait long enough is LlamaEngine's.  The state stays as it is.       *)
Unload ==
    /\ Disturb("back")
    /\ loaded /\ loading = "none" /\ \A r \in Requests : job[r] \notin {"waiting", "running"}
    /\ loaded' = FALSE
    /\ UNCHANGED <<bstate, loading, current, job, cancelled, should_stop, provider, answer>>

(* stopGeneration *)
StopGeneration ==
    /\ cancelled' = cancelled \cup ({current} \cap Requests)
    /\ current' = NoRequest
    /\ should_stop' = TRUE
    /\ bstate' = "READY"
    /\ UNCHANGED <<loaded, loading, job>>

CancelProviderJob == provCancelled' = provCancelled \cup ({provCurrent} \cap Requests)

(* Stop: the provider's cancelGeneration, or the bridge's stop. *)
Stop ==
    /\ Disturb("stop")
    /\ StopGeneration
    /\ \/ CancelProviderJob /\ provCurrent' = NoRequest
       \/ UNCHANGED <<provCurrent, provCancelled>>
    /\ UNCHANGED <<provJob, pc, answer>>

-----------------------------------------------------------------------------
(* OfflineLLMProvider.stream *)

Ask(r) ==
    /\ pc[r] = "idle"
    /\ IF \E q \in Requests : Working(q) \/ pc[q] \notin {"idle"} \cup Final
       THEN Disturb("overlap") ELSE UNCHANGED bound
    /\ pc' = [pc EXCEPT ![r] = IF loaded THEN "stop" ELSE "failed"]
    /\ UNCHANGED <<bridge, provCurrent, provJob, provCancelled, answer>>

StopPrevious(r) ==
    /\ pc[r] = "stop"
    /\ CancelProviderJob /\ StopGeneration
    /\ pc' = [pc EXCEPT ![r] = "join"]
    /\ UNCHANGED <<provCurrent, provJob, answer, bound>>

(* The provider's job is joined for up to 2 s, and the next one launched. *)
Launch(r) ==
    /\ pc[r] = "join"
    /\ IF provCurrent # NoRequest /\ provJob[provCurrent] # "ended"
       THEN Disturb("slow") ELSE UNCHANGED bound
    /\ provCurrent' = r
    /\ provJob' = [provJob EXCEPT ![r] = "scheduled"]
    /\ pc' = [pc EXCEPT ![r] = "collect"]
    /\ UNCHANGED <<bridge, provCancelled, answer>>

(* The channel is closed. *)
Finish(r) ==
    /\ pc[r] = "collect" /\ channel[r] # "open"
    /\ pc' = [pc EXCEPT ![r] = IF channel[r] = "error" THEN "failed" ELSE "answered"]
    /\ provCurrent' = NoRequest
    /\ UNCHANGED <<bridge, provJob, provCancelled, answer, bound>>

(* Mutant: no timeout around the collection. *)
Timeout_OnlyWhileWorking(r) ==
    /\ pc[r] = "collect" /\ channel[r] = "open" /\ Working(r)
    /\ Disturb("slow")
    /\ CancelProviderJob /\ provCurrent' = NoRequest
    /\ Close(r, "complete")
    /\ pc' = [pc EXCEPT ![r] = "timedOut"]
    /\ UNCHANGED <<bridge, provJob, generated, got>>

(* After 75 s.  The bridge's job is left alone. *)
Timeout(r) ==
    /\ pc[r] = "collect" /\ channel[r] = "open"
    /\ IF Working(r) THEN Disturb("slow") ELSE UNCHANGED bound
    /\ CancelProviderJob /\ provCurrent' = NoRequest
    /\ Close(r, "complete")
    /\ pc' = [pc EXCEPT ![r] = "timedOut"]
    /\ UNCHANGED <<bridge, provJob, generated, got>>

(* The collector is cancelled, also in the join. *)
Cancel(r) ==
    /\ pc[r] \in {"join", "collect"}
    /\ Disturb("cancel")
    /\ provCurrent' = NoRequest
    /\ pc' = [pc EXCEPT ![r] = "cancelled"]
    /\ UNCHANGED <<bridge, provJob, provCancelled, answer>>

-----------------------------------------------------------------------------
(* LlamaBridge: generateWithMaxTokens *)

(* A job cancelled before it is dispatched never runs.  assertReady reads  *)
(* the state, ...                                                          *)
Check(r) ==
    /\ provJob[r] = "scheduled"
    /\ provJob' = [provJob EXCEPT ![r] =
                       IF r \in provCancelled THEN "ended"
                       ELSE IF bstate = "READY" /\ loaded THEN "accepted" ELSE "refused"]
    /\ UNCHANGED <<bridge, provCurrent, provCancelled, pc, answer, bound>>

(* ... and setError turns into ERROR whatever it is by then. *)
Refuse(r) ==
    /\ provJob[r] = "refused"
    /\ provJob' = [provJob EXCEPT ![r] = "ended"]
    /\ bstate' = "ERROR" /\ Close(r, "error")
    /\ UNCHANGED <<loaded, loading, current, job, cancelled, should_stop, provCurrent,
                   provCancelled, pc, generated, got, bound>>

Begin(r) ==
    /\ provJob[r] = "accepted"
    /\ provJob' = [provJob EXCEPT ![r] = "ended"]
    /\ bstate' = "BUSY"
    /\ current' = r
    /\ job' = [job EXCEPT ![r] = "scheduled"]
    /\ UNCHANGED <<loaded, loading, cancelled, should_stop, provCurrent, provCancelled, pc,
                   answer, bound>>

(* The native call returns at once without a model, and waits for its      *)
(* mutex with one.                                                         *)
Dispatch(r) ==
    /\ job[r] = "scheduled"
    /\ job' = [job EXCEPT ![r] = IF r \in cancelled THEN "ended"
                                 ELSE IF loaded THEN "waiting" ELSE "returned"]
    /\ UNCHANGED <<bstate, loaded, loading, current, cancelled, should_stop, provider,
                   answer, bound>>

(* Mutant: should_stop is not reset. *)
Acquire_FlagStays(r) ==
    /\ job[r] = "waiting" /\ Holder = {}
    /\ job' = [job EXCEPT ![r] = "running"]
    /\ UNCHANGED <<bstate, loaded, loading, current, cancelled, should_stop, provider,
                   answer, bound>>

(* Mutant: the mutex is not waited for. *)
Acquire_Unlocked(r) ==
    /\ job[r] = "waiting"
    /\ job' = [job EXCEPT ![r] = "running"]
    /\ should_stop' = FALSE
    /\ UNCHANGED <<bstate, loaded, loading, current, cancelled, provider, answer, bound>>

Acquire(r) ==
    /\ job[r] = "waiting" /\ Holder = {}
    /\ job' = [job EXCEPT ![r] = "running"]
    /\ should_stop' = FALSE
    /\ UNCHANGED <<bstate, loaded, loading, current, cancelled, provider, answer, bound>>

(* try_lock_for: 5 s. *)
LockTimeout(r) ==
    /\ job[r] = "waiting" /\ Holder # {}
    /\ Disturb("slow")
    /\ Close(r, "complete")
    /\ job' = [job EXCEPT ![r] = "returned"]
    /\ UNCHANGED <<bstate, loaded, loading, current, cancelled, should_stop, provider,
                   generated, got>>

(* onToken, while the job is active. *)
Token(r) ==
    /\ job[r] = "running" /\ ~should_stop /\ generated[r] < MaxTokens
    /\ generated' = [generated EXCEPT ![r] = @ + 1]
    /\ got' = IF r \notin cancelled /\ channel[r] = "open"
              THEN [got EXCEPT ![r] = @ + 1] ELSE got
    /\ UNCHANGED <<bridge, provider, channel, bound>>

(* onComplete, also for a cancelled job. *)
NativeEnd(r) ==
    /\ job[r] = "running"
    /\ IF should_stop \/ generated[r] = MaxTokens THEN UNCHANGED bound ELSE Disturb("slow")
    /\ Close(r, "complete")
    /\ job' = [job EXCEPT ![r] = "returned"]
    /\ UNCHANGED <<bstate, loaded, loading, current, cancelled, should_stop, provider,
                   generated, got>>

Return(r) ==
    /\ job[r] = "returned"
    /\ job' = [job EXCEPT ![r] = "finally"]
    /\ IF r \in cancelled THEN UNCHANGED channel ELSE Close(r, "complete")
    /\ UNCHANGED <<bstate, loaded, loading, current, cancelled, should_stop, provider,
                   generated, got, bound>>

(* Mutant: the state is not put back. *)
Finally_StaysBusy(r) ==
    /\ job[r] = "finally"
    /\ job' = [job EXCEPT ![r] = "ended"]
    /\ UNCHANGED <<bstate, loaded, loading, current, cancelled, should_stop, provider,
                   answer, bound>>

(* finally: READY, whatever the state and whoever generates. *)
Finally(r) ==
    /\ job[r] = "finally"
    /\ job' = [job EXCEPT ![r] = "ended"]
    /\ bstate' = "READY"
    /\ UNCHANGED <<loaded, loading, current, cancelled, should_stop, provider, answer, bound>>

Step(r) ==
    \/ StopPrevious(r) \/ Launch(r) \/ Finish(r) \/ Timeout(r)
    \/ Check(r) \/ Refuse(r) \/ Begin(r) \/ Dispatch(r) \/ Acquire(r) \/ LockTimeout(r)
    \/ Token(r) \/ NativeEnd(r) \/ Return(r) \/ Finally(r)

Load == LoadProceed \/ LoadNative \/ LoadEnd

Next ==
    \/ LoadStart \/ Load \/ Unload \/ Stop
    \/ \E r \in Requests : Ask(r) \/ Cancel(r) \/ Step(r)

Spec == Init /\ [][Next]_vars

(* Dispatchers.IO runs the jobs, and a native call ends (LlamaEngine). *)
FairSpec == Spec /\ WF_vars(Load) /\ \A r \in Requests : WF_vars(Step(r))

-----------------------------------------------------------------------------
(* Every variable has its type; one native call holds the mutex. *)
TypeOK ==
    /\ bstate \in {"READY", "LOADING", "BUSY", "ERROR"}
    /\ loaded \in BOOLEAN /\ should_stop \in BOOLEAN
    /\ loading \in {"none", "accepted", "refused", "native", "loaded"}
    /\ {current, provCurrent} \subseteq Requests \cup {NoRequest}
    /\ job \in [Requests -> {"none", "scheduled", "waiting", "running", "returned", "finally",
                         "ended"}]
    /\ provJob \in [Requests -> {"none", "scheduled", "accepted", "refused", "ended"}]
    /\ cancelled \subseteq Requests /\ provCancelled \subseteq Requests
    /\ pc \in [Requests -> {"idle", "stop", "join", "collect"} \cup Final]
    /\ channel \in [Requests -> {"open", "complete", "error"}]
    /\ \A r \in Requests : 0 <= got[r] /\ got[r] <= generated[r] /\ generated[r] <= MaxTokens
    /\ Cardinality(Holder) <= 1
    /\ happened \subseteq Disturbances /\ left \in 0..MaxDisturbances

(* stream: a request that is made while no other's work goes on is answered *)
(* with the whole answer, whatever the requests before it left behind, if   *)
(* it is not stopped, no wait times out and the model stays.                *)
Undisturbed ==
    happened \subseteq {"cancel", "loadFails"} =>
        \A r \in Requests :
            /\ pc[r] = "answered" => got[r] = MaxTokens
            /\ pc[r] # "timedOut" /\ channel[r] # "error"

(* "Ensure previous generation is fully stopped before starting a new one" *)
PreviousStopped ==
    [][\A r \in Requests : provJob[r] = "none" /\ provJob'[r] = "scheduled" =>
            \A q \in Requests : job[q] \notin {"waiting", "running"}]_vars

(* stream: nothing is added to an answer, and it is not reported once more, *)
(* after it was reported whole, failed or timed out, however late the      *)
(* native call of it ends.                                                 *)
AnswerIsFinal ==
    [][\A r \in Requests : pc[r] \in {"answered", "failed", "timedOut"} =>
            pc'[r] = pc[r] /\ got'[r] = got[r]]_vars

(* "Failed to load model ... Try a smaller model": while no model is loaded *)
(* and nothing goes on, loadModel is not refused.                           *)
LoadIsPossible ==
    ~loaded /\ loading = "none" /\ (\A r \in Requests : ~Working(r)) => bstate # "ERROR"

(* stream: a request ends, whoever stops, overtakes or unloads it. *)
AskEnds == \A r \in Requests : pc[r] \in {"stop", "join", "collect"} ~> pc[r] \in Final

(* BaseBridge: no job leaves BUSY, or LOADING, behind, whoever cancels it   *)
(* and wherever it is then; and the ERROR of a failed load or of a request *)
(* that was too early does not last with a model, ...                      *)
StateRecovers ==
    loaded /\ bstate # "READY" ~>
        \/ bstate = "READY" \/ ~loaded
        \/ bstate = "ERROR" /\ happened \cap {"overlap", "back"} # {}

(* ... unless assertReady sets it over the READY of a job or a load that    *)
(* ended after it had read the state.                                      *)
ErrorEnds == loaded /\ bstate = "ERROR" ~> bstate # "ERROR"
=============================================================================
