---------------------------- MODULE InferenceQueue ----------------------------
(***************************************************************************)
(* InferenceQueue.kt with the part of LlamaBridge.kt it drives: threads    *)
(* enqueue requests, the processor coroutine polls one at a time and       *)
(* collects the flow of LlamaBridge.generateStream, and the user cancels,  *)
(* clears, pauses, resumes and stops from the UI thread.                   *)
(*                                                                         *)
(* requestQueue is a ConcurrentLinkedQueue: each call on it is atomic, a   *)
(* sequence of calls is not.  Every request is enqueued once, by a thread  *)
(* of its own.  A stop reaches the native engine as LlamaEngine describes: *)
(* it may be honoured or be lost in prefill.  Tokens are only counted up   *)
(* to "some"; the cooldown and the polling delays only take time; the      *)
(* buffer of the response flow is not modelled.                            *)
(***************************************************************************)
EXTENDS Integers, Sequences, FiniteSets

S == INSTANCE SequencesExt

CONSTANTS
    Requests,      \* request ids
    HighRequests,  \* those of Priority.HIGH
    None,          \* no request
    Capacity,      \* the size at which enqueue refuses (10)
    UserMayStop    \* whether bridge.stop() is ever called

ASSUME QueueAssumption ==
    /\ HighRequests \subseteq Requests
    /\ None \notin Requests
    /\ Capacity \in Nat \ {0}
    /\ UserMayStop \in BOOLEAN

VARIABLES
    requestQueue,   \* the pending requests
    enqueuePc,      \* where the thread that enqueues a request is
    tempList,       \* its local copy of the queue
    queueLock,      \* the monitor of requestQueue, held by a HIGH enqueuer
    isPaused,
    processor,      \* where processQueue is
    current,        \* the request it processes
    stream,         \* the flow of generateStream, seen from both ends
    hasTokens,      \* the response of the current request is not blank
    history         \* turns written with addToHistory: <<request, role>>

(* History variables, for the properties only. *)
VARIABLES
    runs,        \* how often a request was taken by the processor
    finished,    \* requests whose completion was emitted
    withdrawn,   \* requests removed by cancel or clear
    stopOf       \* what a stop by the user did to a request: "none",
                 \* "asked" or "cut" (generation was broken off)

enqueueVars == <<requestQueue, enqueuePc, tempList, queueLock>>
processorVars == <<processor, current, stream, hasTokens, history>>
ghosts == <<runs, finished, withdrawn, stopOf>>
vars == <<enqueueVars, isPaused, processorVars, ghosts>>

EnqueuePCs == {"new", "checked", "copied", "cleared", "added", "accepted", "refused"}
ProcessorPCs == {"checkPaused", "poll", "collect", "addAssistant", "emitComplete"}
StreamStates ==
    {"none", "launched", "assigned", "running", "cancelled", "closed", "orphan"}

Queued == {requestQueue[i] : i \in 1 .. Len(requestQueue)}
EnqueueStep(r, from, to) == enqueuePc[r] = from /\ enqueuePc' = [enqueuePc EXCEPT ![r] = to]

Init ==
    /\ requestQueue = <<>>
    /\ enqueuePc = [r \in Requests |-> "new"]
    /\ tempList = [r \in Requests |-> <<>>]
    /\ queueLock = None
    /\ isPaused = FALSE
    /\ processor = "checkPaused" /\ current = None
    /\ stream = "none" /\ hasTokens = FALSE
    /\ history = {}
    /\ runs = [r \in Requests |-> 0]
    /\ finished = {} /\ withdrawn = {}
    /\ stopOf = [r \in Requests |-> "none"]

-----------------------------------------------------------------------------
(* enqueue *)

Refuse(r) ==
    /\ Len(requestQueue) >= Capacity
    /\ EnqueueStep(r, "new", "refused")
    /\ UNCHANGED <<requestQueue, tempList, queueLock, isPaused, processorVars, ghosts>>

CheckSize(r) ==
    /\ Len(requestQueue) < Capacity
    /\ EnqueueStep(r, "new", "checked")
    /\ UNCHANGED <<requestQueue, tempList, queueLock, isPaused, processorVars, ghosts>>

(* Mutant of AddNormal: a retry adds the request again. *)
AddNormal_Again(r) ==
    /\ r \notin HighRequests
    /\ EnqueueStep(r, "checked", "accepted")
    /\ requestQueue' = requestQueue \o <<r, r>>
    /\ UNCHANGED <<tempList, queueLock, isPaused, processorVars, ghosts>>

AddNormal(r) ==
    /\ r \notin HighRequests
    /\ EnqueueStep(r, "checked", "accepted")
    /\ requestQueue' = Append(requestQueue, r)
    /\ UNCHANGED <<tempList, queueLock, isPaused, processorVars, ghosts>>

(* A HIGH request under synchronized(requestQueue): toList, ... *)
CopyQueue(r) ==
    /\ r \in HighRequests
    /\ queueLock = None
    /\ EnqueueStep(r, "checked", "copied")
    /\ queueLock' = r
    /\ tempList' = [tempList EXCEPT ![r] = requestQueue]
    /\ UNCHANGED <<requestQueue, isPaused, processorVars, ghosts>>

(* ... clear, ... *)
ClearQueue(r) ==
    /\ EnqueueStep(r, "copied", "cleared")
    /\ requestQueue' = <<>>
    /\ UNCHANGED <<tempList, queueLock, isPaused, processorVars, ghosts>>

(* ... add the request, ... *)
AddFirst(r) ==
    /\ EnqueueStep(r, "cleared", "added")
    /\ requestQueue' = Append(requestQueue, r)
    /\ UNCHANGED <<tempList, queueLock, isPaused, processorVars, ghosts>>

(* Mutant of AddRest: the requests set aside are not put back. *)
AddRest_Forgets(r) ==
    /\ EnqueueStep(r, "added", "accepted")
    /\ tempList' = [tempList EXCEPT ![r] = <<>>]
    /\ queueLock' = None
    /\ UNCHANGED <<requestQueue, isPaused, processorVars, ghosts>>

(* ... and addAll of the copy. *)
AddRest(r) ==
    /\ EnqueueStep(r, "added", "accepted")
    /\ requestQueue' = requestQueue \o tempList[r]
    /\ tempList' = [tempList EXCEPT ![r] = <<>>]
    /\ queueLock' = None
    /\ UNCHANGED <<isPaused, processorVars, ghosts>>

Enqueue(r) ==
    \/ Refuse(r) \/ CheckSize(r) \/ AddNormal(r)
    \/ CopyQueue(r) \/ ClearQueue(r) \/ AddFirst(r) \/ AddRest(r)

-----------------------------------------------------------------------------
(* processQueue and processRequest *)

CheckPaused ==
    /\ processor = "checkPaused"
    /\ ~isPaused
    /\ processor' = "poll"
    /\ UNCHANGED <<enqueueVars, isPaused, current, stream, hasTokens, history, ghosts>>

PollNothing ==
    /\ processor = "poll"
    /\ requestQueue = <<>>
    /\ processor' = "checkPaused"
    /\ UNCHANGED <<enqueueVars, isPaused, current, stream, hasTokens, history, ghosts>>

(* A request is taken; collecting its flow launches generateWithMaxTokens. *)
Poll ==
    /\ processor = "poll"
    /\ requestQueue # <<>>
    /\ current' = Head(requestQueue)
    /\ requestQueue' = Tail(requestQueue)
    /\ processor' = "collect" /\ stream' = "launched" /\ hasTokens' = FALSE
    /\ runs' = [runs EXCEPT ![current'] = @ + 1]
    /\ UNCHANGED <<enqueuePc, tempList, queueLock, isPaused, history, finished,
                   withdrawn, stopOf>>

StreamStep(from, to) ==
    /\ stream = from
    /\ stream' = to
    /\ UNCHANGED <<enqueueVars, isPaused, processor, current, history, ghosts>>

(* generateWithMaxTokens stores the generation job it launches in          *)
(* currentGenerationJob, or refuses (onError closes the channel).          *)
AssignJob == StreamStep("launched", "assigned") /\ UNCHANGED hasTokens
BridgeNotReady == StreamStep("launched", "closed") /\ UNCHANGED hasTokens

(* The job gets a thread and enters nativeGenerateStream. *)
DispatchJob == StreamStep("assigned", "running") /\ UNCHANGED hasTokens

(* Tokens arrive and are emitted as responses. *)
CollectTokens == StreamStep("running", "running") /\ ~hasTokens /\ hasTokens' = TRUE

(* Mutant of NativeCompletes: the call returns without onComplete. *)
NativeCompletes_Silent == StreamStep("running", "orphan") /\ UNCHANGED hasTokens

(* The engine calls onComplete, which closes the channel, also for a job   *)
(* that was cancelled and whose tokens are dropped.                        *)
NativeCompletes ==
    /\ StreamStep("running", "closed") \/ StreamStep("cancelled", "closed")
    /\ UNCHANGED hasTokens

(* The flow has ended: the user's message goes into the history, ... *)
AddUserTurn ==
    /\ processor = "collect" /\ stream = "closed"
    /\ history' = history \cup {<<current, "user">>}
    /\ processor' = "addAssistant"
    /\ UNCHANGED <<enqueueVars, isPaused, current, stream, hasTokens, ghosts>>

(* ... then the response, unless it is blank, ... *)
AddAssistantTurn ==
    /\ processor = "addAssistant"
    /\ history' = IF hasTokens THEN history \cup {<<current, "assistant">>} ELSE history
    /\ processor' = "emitComplete"
    /\ UNCHANGED <<enqueueVars, isPaused, current, stream, hasTokens, ghosts>>

(* Mutant of EmitComplete: the next request is polled with the flow open. *)
EmitComplete_KeepsStream ==
    /\ processor = "emitComplete"
    /\ finished' = finished \cup {current}
    /\ processor' = "checkPaused" /\ current' = None
    /\ UNCHANGED <<enqueueVars, isPaused, stream, hasTokens, history, runs, withdrawn, stopOf>>

(* ... and the completion is emitted. *)
EmitComplete ==
    /\ processor = "emitComplete"
    /\ finished' = finished \cup {current}
    /\ processor' = "checkPaused" /\ current' = None
    /\ stream' = "none" /\ hasTokens' = FALSE
    /\ UNCHANGED <<enqueueVars, isPaused, history, runs, withdrawn, stopOf>>

Process ==
    \/ CheckPaused \/ PollNothing \/ Poll
    \/ AddUserTurn \/ AddAssistantTurn \/ EmitComplete

Bridge == AssignJob \/ BridgeNotReady \/ DispatchJob \/ CollectTokens \/ NativeCompletes

-----------------------------------------------------------------------------
(* The user *)

(* LlamaBridge.stopGeneration: the stored job is cancelled, then the       *)
(* native engine is told to stop.  A job cancelled before it was           *)
(* dispatched never runs, so nobody closes its channel; one that runs      *)
(* drops its tokens and ends now, or later if the engine lost the stop;    *)
(* before the job is stored the stop has no effect.                        *)
StopBridge ==
    /\ stream' \in CASE stream = "assigned" -> {"orphan"}
                     [] stream \in {"running", "cancelled"} -> {"cancelled", "closed"}
                     [] OTHER -> {stream}
    /\ stopOf' = CASE stream \in {"launched", "assigned"} -> [stopOf EXCEPT ![current] = "asked"]
                   [] stream \in {"running", "cancelled"} -> [stopOf EXCEPT ![current] = "cut"]
                   [] OTHER -> stopOf

(* The stop button's bridge.stop(). *)
Stop ==
    /\ UserMayStop
    /\ StopBridge
    /\ UNCHANGED <<enqueueVars, isPaused, processor, current, hasTokens, history,
                   runs, finished, withdrawn>>

(* cancel: currentJob is never assigned, so only the queue is changed: the *)
(* request, which is in it once at most, is removed.                       *)
Cancel(r) ==
    /\ \E n \in 1 .. Len(requestQueue) :
          requestQueue[n] = r /\ requestQueue' = S!RemoveAt(requestQueue, n)
    /\ withdrawn' = withdrawn \cup {r}
    /\ UNCHANGED <<enqueuePc, tempList, queueLock, isPaused, processorVars, runs,
                   finished, stopOf>>

Clear ==
    /\ UserMayStop
    /\ requestQueue' = <<>>
    /\ withdrawn' = withdrawn \cup Queued
    /\ StopBridge
    /\ UNCHANGED <<enqueuePc, tempList, queueLock, isPaused, processor, current,
                   hasTokens, history, runs, finished>>

Pause ==
    /\ UserMayStop
    /\ ~isPaused
    /\ isPaused' = TRUE
    /\ StopBridge
    /\ UNCHANGED <<enqueueVars, processor, current, hasTokens, history, runs,
                   finished, withdrawn>>

Resume ==
    /\ isPaused
    /\ isPaused' = FALSE
    /\ UNCHANGED <<enqueueVars, processorVars, ghosts>>

User == Stop \/ Clear \/ Pause \/ Resume \/ \E r \in Requests : Cancel(r)

-----------------------------------------------------------------------------
Next == (\E r \in Requests : Enqueue(r)) \/ Process \/ Bridge \/ User

Spec == Init /\ [][Next]_vars

(* Threads and coroutines that have work are scheduled; a paused queue is  *)
(* resumed; the native engine ends every generation (240 s).               *)
FairSpec ==
    /\ Spec
    /\ \A r \in Requests : WF_vars(Enqueue(r))
    /\ WF_vars(Process)
    /\ WF_vars(AssignJob \/ BridgeNotReady \/ DispatchJob \/ NativeCompletes)
    /\ WF_vars(Resume)

-----------------------------------------------------------------------------
(* Properties *)

TypeOK ==
    /\ requestQueue \in Seq(Requests)
    /\ enqueuePc \in [Requests -> EnqueuePCs]
    /\ tempList \in [Requests -> Seq(Requests)]
    /\ queueLock \in Requests \cup {None}
    /\ isPaused \in BOOLEAN
    /\ processor \in ProcessorPCs
    /\ current \in Requests \cup {None}
    /\ stream \in StreamStates
    /\ hasTokens \in BOOLEAN
    /\ history \subseteq Requests \X {"user", "assistant"}
    /\ current = None <=> processor \in {"checkPaused", "poll"}
    /\ stream = "none" <=> current = None
    /\ runs \in [Requests -> Nat]
    /\ finished \subseteq Requests /\ withdrawn \subseteq Requests
    /\ stopOf \in [Requests -> {"none", "asked", "cut"}]

(* Requests in the copy of an enqueuer that has still to put them back. *)
SetAside ==
    {q \in Requests : \E r \in Requests : \E i \in 1 .. Len(tempList[r]) : tempList[r][i] = q}

(* A request whose enqueue returned true is waiting, being moved, being    *)
(* processed, completed or withdrawn: moving the queue for a HIGH request  *)
(* loses none.                                                             *)
NothingLost ==
    \A r \in Requests :
        enqueuePc[r] = "accepted" =>
            r \in Queued \cup SetAside \cup {current} \cup finished \cup withdrawn

(* No request is taken by the processor twice. *)
RunsAtMostOnce == \A r \in Requests : runs[r] <= 1

(* History must only contain completed turns: a response the user cut off  *)
(* leaves no trace.                                                        *)
HistoryOnlyCompletedTurns ==
    \A turn \in history : stopOf[turn[1]] # "cut"

(* An accepted request is completed or withdrawn in the end. *)
AcceptedRequestFinishes ==
    \A r \in Requests : enqueuePc[r] = "accepted" ~> r \in finished \cup withdrawn

(* A request the user stops still gets its completion, with the partial    *)
(* response.                                                               *)
StoppedRequestCompletes ==
    \A r \in Requests : stopOf[r] # "none" ~> r \in finished

(* The refinement mapping to what the queue promises of each request. *)
StatusOf(r) ==
    IF r = current THEN "running"
    ELSE IF r \in Queued \cup SetAside THEN "pending"
    ELSE IF r \in finished THEN "finished"
    ELSE IF r \in withdrawn THEN "withdrawn"
    ELSE IF enqueuePc[r] = "refused" THEN "refused"
    ELSE "new"

Lifecycle == INSTANCE RequestLifecycle WITH status <- [r \in Requests |-> StatusOf(r)]

(* The queue implements the life of a request. *)
ImplementsLifecycle == Lifecycle!Spec
=============================================================================
