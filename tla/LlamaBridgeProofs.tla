--------------------------- MODULE LlamaBridgeProofs ---------------------------
(***************************************************************************)
(* Proofs about LlamaBridge, for any number of requests, tokens and        *)
(* disturbances.                                                           *)
(***************************************************************************)
EXTENDS LlamaBridge, FiniteSetTheorems, TLAPS

USE LlamaBridgeAssumption

JobStage == {"none", "scheduled", "waiting", "running", "returned", "finally",
             "ended"}
ProviderStage == {"none", "scheduled", "accepted", "refused", "ended"}
CallStage == {"idle", "stop", "join", "collect"} \cup Final

Flags == loaded \in BOOLEAN /\ should_stop \in BOOLEAN

Jobs ==
    /\ bstate \in {"READY", "LOADING", "BUSY", "ERROR"}
    /\ loading \in {"none", "accepted", "refused", "native", "loaded"}
    /\ current \in Requests \cup {NoRequest} /\ provCurrent \in Requests \cup {NoRequest}
    /\ job \in [Requests -> JobStage] /\ provJob \in [Requests -> ProviderStage]
    /\ cancelled \subseteq Requests /\ provCancelled \subseteq Requests
    /\ pc \in [Requests -> CallStage]

Answers ==
    /\ channel \in [Requests -> {"open", "complete", "error"}]
    /\ generated \in [Requests -> 0 .. MaxTokens] /\ got \in [Requests -> 0 .. MaxTokens]
    /\ \A r \in Requests : got[r] <= generated[r]

Bounds == happened \subseteq Disturbances /\ left \in 0 .. MaxDisturbances

(* The native mutex has one holder at most. *)
OneHolder == \A q, r \in Requests : job[q] = "running" /\ job[r] = "running" => q = r

BridgeTyped == Flags /\ Jobs /\ Answers /\ Bounds /\ OneHolder

LEMMA TypedMeansTypeOK == BridgeTyped => TypeOK
<1> SUFFICES ASSUME BridgeTyped PROVE TypeOK OBVIOUS
<1>1. Cardinality(Holder) <= 1
  <2>1. CASE Holder = {} BY <2>1, FS_EmptySet
  <2>2. CASE Holder # {}
    <3>1. PICK r \in Holder : Holder = {r}
      BY <2>2 DEF BridgeTyped, OneHolder, Holder
    <3>2. Cardinality({r}) = 1 BY FS_Singleton
    <3> QED BY <3>1, <3>2
  <2> QED BY <2>1, <2>2
<1>2. \A r \in Requests : 0 <= got[r] /\ got[r] <= generated[r] /\ generated[r] <= MaxTokens
  BY DEF BridgeTyped, Answers
<1> QED
  BY <1>1, <1>2 DEF BridgeTyped, Flags, Jobs, Answers, Bounds, TypeOK, JobStage, ProviderStage,
                    CallStage

(* No step leaves the types, and none lets a second native call in. *)
LEMMA TypeStep == ASSUME BridgeTyped, [Next]_vars PROVE BridgeTyped'
<1> USE DEF BridgeTyped
<1>1. CASE LoadStart
  <2>1. Flags' BY <1>1, Zenon DEF LoadStart, Flags
  <2>2. Jobs' BY <1>1 DEF LoadStart, provider, Jobs
  <2>3. Answers' BY <1>1 DEF LoadStart, answer, Answers
  <2>4. Bounds' BY <1>1 DEF LoadStart, bound, Bounds
  <2>5. OneHolder' BY <1>1 DEF LoadStart, OneHolder
  <2> QED BY <2>1, <2>2, <2>3, <2>4, <2>5
<1>2. CASE LoadEnd
  <2>1. Flags' BY <1>2, Zenon DEF LoadEnd, Flags
  <2>2. Jobs' BY <1>2 DEF LoadEnd, provider, Jobs
  <2>3. Answers' BY <1>2 DEF LoadEnd, answer, Answers
  <2>4. Bounds' BY <1>2 DEF LoadEnd, Disturb, bound, Bounds
  <2>5. OneHolder' BY <1>2 DEF LoadEnd, OneHolder
  <2> QED BY <2>1, <2>2, <2>3, <2>4, <2>5
<1>3. CASE LoadProceed
  <2>1. Flags' BY <1>3, Zenon DEF LoadProceed, Flags
  <2>2. Jobs' BY <1>3 DEF LoadProceed, provider, Jobs
  <2>3. Answers' BY <1>3 DEF LoadProceed, answer, Answers
  <2>4. Bounds' BY <1>3 DEF LoadProceed, Disturb, bound, Bounds
  <2>5. OneHolder' BY <1>3 DEF LoadProceed, OneHolder
  <2> QED BY <2>1, <2>2, <2>3, <2>4, <2>5
<1>4. CASE LoadNative
  <2>1. Flags' BY <1>4, Zenon DEF LoadNative, Flags
  <2>2. Jobs' BY <1>4 DEF LoadNative, provider, Jobs
  <2>3. Answers' BY <1>4 DEF LoadNative, answer, Answers
  <2>4. Bounds' BY <1>4 DEF LoadNative, Disturb, bound, Bounds
  <2>5. OneHolder' BY <1>4 DEF LoadNative, OneHolder
  <2> QED BY <2>1, <2>2, <2>3, <2>4, <2>5
<1>5. CASE Unload
  <2>1. Flags' BY <1>5, Zenon DEF Unload, Flags
  <2>2. Jobs' BY <1>5 DEF Unload, provider, Jobs
  <2>3. Answers' BY <1>5 DEF Unload, answer, Answers
  <2>4. Bounds' BY <1>5 DEF Unload, Disturb, Bounds
  <2>5. OneHolder' BY <1>5 DEF Unload, OneHolder
  <2> QED BY <2>1, <2>2, <2>3, <2>4, <2>5
<1>6. CASE Stop
  <2>1. Flags' BY <1>6, Zenon DEF Stop, StopGeneration, Flags
  <2>2. Jobs' BY <1>6 DEF Stop, StopGeneration, CancelProviderJob, Jobs
  <2>3. Answers' BY <1>6 DEF Stop, answer, Answers
  <2>4. Bounds' BY <1>6 DEF Stop, Disturb, Bounds
  <2>5. OneHolder' BY <1>6 DEF Stop, StopGeneration, OneHolder
  <2> QED BY <2>1, <2>2, <2>3, <2>4, <2>5
<1>7. ASSUME NEW r \in Requests, Ask(r) PROVE BridgeTyped'
  <2>1. Flags' BY <1>7, Zenon DEF Ask, bridge, Flags
  <2>2. Jobs' BY <1>7 DEF Ask, bridge, Jobs, CallStage, Final
  <2>3. Answers' BY <1>7 DEF Ask, answer, Answers
  <2>4. Bounds' BY <1>7 DEF Ask, Disturb, bound, Bounds
  <2>5. OneHolder' BY <1>7 DEF Ask, bridge, OneHolder
  <2> QED BY <2>1, <2>2, <2>3, <2>4, <2>5
<1>8. ASSUME NEW r \in Requests, Cancel(r) PROVE BridgeTyped'
  <2>1. Flags' BY <1>8, Zenon DEF Cancel, bridge, Flags
  <2>2. Jobs' BY <1>8 DEF Cancel, bridge, Jobs, CallStage, Final
  <2>3. Answers' BY <1>8 DEF Cancel, answer, Answers
  <2>4. Bounds' BY <1>8 DEF Cancel, Disturb, Bounds
  <2>5. OneHolder' BY <1>8 DEF Cancel, bridge, OneHolder
  <2> QED BY <2>1, <2>2, <2>3, <2>4, <2>5
<1>9. ASSUME NEW r \in Requests, StopPrevious(r) PROVE BridgeTyped'
  <2>1. Flags' BY <1>9, Zenon DEF StopPrevious, StopGeneration, Flags
  <2>2. Jobs' BY <1>9 DEF StopPrevious, StopGeneration, CancelProviderJob, Jobs, CallStage
  <2>3. Answers' BY <1>9 DEF StopPrevious, answer, Answers
  <2>4. Bounds' BY <1>9 DEF StopPrevious, bound, Bounds
  <2>5. OneHolder' BY <1>9 DEF StopPrevious, StopGeneration, OneHolder
  <2> QED BY <2>1, <2>2, <2>3, <2>4, <2>5
<1>10. ASSUME NEW r \in Requests, Launch(r) PROVE BridgeTyped'
  <2>1. Flags' BY <1>10, Zenon DEF Launch, bridge, Flags
  <2>2. Jobs' BY <1>10 DEF Launch, bridge, Jobs, ProviderStage, CallStage
  <2>3. Answers' BY <1>10 DEF Launch, answer, Answers
  <2>4. Bounds' BY <1>10 DEF Launch, Disturb, bound, Bounds
  <2>5. OneHolder' BY <1>10 DEF Launch, bridge, OneHolder
  <2> QED BY <2>1, <2>2, <2>3, <2>4, <2>5
<1>11. ASSUME NEW r \in Requests, Finish(r) PROVE BridgeTyped'
  <2>1. Flags' BY <1>11, Zenon DEF Finish, bridge, Flags
  <2>2. Jobs' BY <1>11 DEF Finish, bridge, Jobs, CallStage, Final
  <2>3. Answers' BY <1>11 DEF Finish, answer, Answers
  <2>4. Bounds' BY <1>11 DEF Finish, bound, Bounds
  <2>5. OneHolder' BY <1>11 DEF Finish, bridge, OneHolder
  <2> QED BY <2>1, <2>2, <2>3, <2>4, <2>5
<1>12. ASSUME NEW r \in Requests, Timeout(r) PROVE BridgeTyped'
  <2>1. Flags' BY <1>12, Zenon DEF Timeout, bridge, Flags
  <2>2. Jobs' BY <1>12 DEF Timeout, bridge, CancelProviderJob, Jobs, CallStage, Final
  <2>3. Answers' BY <1>12 DEF Timeout, Close, Answers
  <2>4. Bounds' BY <1>12 DEF Timeout, Disturb, bound, Bounds
  <2>5. OneHolder' BY <1>12 DEF Timeout, bridge, OneHolder
  <2> QED BY <2>1, <2>2, <2>3, <2>4, <2>5
<1>13. ASSUME NEW r \in Requests, Check(r) PROVE BridgeTyped'
  <2>1. Flags' BY <1>13, Zenon DEF Check, bridge, Flags
  <2>2. Jobs' BY <1>13 DEF Check, bridge, Jobs, ProviderStage
  <2>3. Answers' BY <1>13 DEF Check, answer, Answers
  <2>4. Bounds' BY <1>13 DEF Check, bound, Bounds
  <2>5. OneHolder' BY <1>13 DEF Check, bridge, OneHolder
  <2> QED BY <2>1, <2>2, <2>3, <2>4, <2>5
<1>14. ASSUME NEW r \in Requests, Refuse(r) PROVE BridgeTyped'
  <2>1. Flags' BY <1>14, Zenon DEF Refuse, Flags
  <2>2. Jobs' BY <1>14 DEF Refuse, Jobs, ProviderStage
  <2>3. Answers' BY <1>14 DEF Refuse, Close, Answers
  <2>4. Bounds' BY <1>14 DEF Refuse, bound, Bounds
  <2>5. OneHolder' BY <1>14 DEF Refuse, OneHolder
  <2> QED BY <2>1, <2>2, <2>3, <2>4, <2>5
<1>15. ASSUME NEW r \in Requests, Begin(r) PROVE BridgeTyped'
  <2>1. Flags' BY <1>15, Zenon DEF Begin, Flags
  <2>2. Jobs' BY <1>15 DEF Begin, Jobs, JobStage, ProviderStage
  <2>3. Answers' BY <1>15 DEF Begin, answer, Answers
  <2>4. Bounds' BY <1>15 DEF Begin, bound, Bounds
  <2>5. OneHolder' BY <1>15 DEF Begin, OneHolder
  <2> QED BY <2>1, <2>2, <2>3, <2>4, <2>5
<1>16. ASSUME NEW r \in Requests, Dispatch(r) PROVE BridgeTyped'
  <2>1. Flags' BY <1>16, Zenon DEF Dispatch, Flags
  <2>2. Jobs' BY <1>16 DEF Dispatch, provider, Jobs, JobStage
  <2>3. Answers' BY <1>16 DEF Dispatch, answer, Answers
  <2>4. Bounds' BY <1>16 DEF Dispatch, bound, Bounds
  <2>5. OneHolder' BY <1>16 DEF Dispatch, OneHolder
  <2> QED BY <2>1, <2>2, <2>3, <2>4, <2>5
<1>17. ASSUME NEW r \in Requests, Acquire(r) PROVE BridgeTyped'
  <2>1. Flags' BY <1>17, Zenon DEF Acquire, Flags
  <2>2. Jobs' BY <1>17 DEF Acquire, provider, Jobs, JobStage
  <2>3. Answers' BY <1>17 DEF Acquire, answer, Answers
  <2>4. Bounds' BY <1>17 DEF Acquire, bound, Bounds
  <2>5. OneHolder' BY <1>17 DEF Acquire, OneHolder, Holder
  <2> QED BY <2>1, <2>2, <2>3, <2>4, <2>5
<1>18. ASSUME NEW r \in Requests, LockTimeout(r) PROVE BridgeTyped'
  <2>1. Flags' BY <1>18, Zenon DEF LockTimeout, Flags
  <2>2. Jobs' BY <1>18 DEF LockTimeout, provider, Jobs, JobStage
  <2>3. Answers' BY <1>18 DEF LockTimeout, Close, Answers
  <2>4. Bounds' BY <1>18 DEF LockTimeout, Disturb, Bounds
  <2>5. OneHolder' BY <1>18 DEF LockTimeout, OneHolder
  <2> QED BY <2>1, <2>2, <2>3, <2>4, <2>5
<1>19. ASSUME NEW r \in Requests, Token(r) PROVE BridgeTyped'
  <2>1. Flags' BY <1>19, Zenon DEF Token, bridge, Flags
  <2>2. Jobs' BY <1>19 DEF Token, bridge, provider, Jobs
  <2>3. Answers' BY <1>19 DEF Token, Answers
  <2>4. Bounds' BY <1>19 DEF Token, bound, Bounds
  <2>5. OneHolder' BY <1>19 DEF Token, bridge, OneHolder
  <2> QED BY <2>1, <2>2, <2>3, <2>4, <2>5
<1>20. ASSUME NEW r \in Requests, NativeEnd(r) PROVE BridgeTyped'
  <2>1. Flags' BY <1>20, Zenon DEF NativeEnd, Flags
  <2>2. Jobs' BY <1>20 DEF NativeEnd, provider, Jobs, JobStage
  <2>3. Answers' BY <1>20 DEF NativeEnd, Close, Answers
  <2>4. Bounds' BY <1>20 DEF NativeEnd, Disturb, bound, Bounds
  <2>5. OneHolder' BY <1>20 DEF NativeEnd, OneHolder
  <2> QED BY <2>1, <2>2, <2>3, <2>4, <2>5
<1>21. ASSUME NEW r \in Requests, Return(r) PROVE BridgeTyped'
  <2>1. Flags' BY <1>21, Zenon DEF Return, Flags
  <2>2. Jobs' BY <1>21 DEF Return, provider, Jobs, JobStage
  <2>3. Answers' BY <1>21 DEF Return, Close, Answers
  <2>4. Bounds' BY <1>21 DEF Return, bound, Bounds
  <2>5. OneHolder' BY <1>21 DEF Return, OneHolder
  <2> QED BY <2>1, <2>2, <2>3, <2>4, <2>5
<1>22. ASSUME NEW r \in Requests, Finally(r) PROVE BridgeTyped'
  <2>1. Flags' BY <1>22, Zenon DEF Finally, Flags
  <2>2. Jobs' BY <1>22 DEF Finally, provider, answer, Jobs, JobStage
  <2>3. Answers' BY <1>22 DEF Finally, answer, Answers
  <2>4. Bounds' BY <1>22 DEF Finally, bound, Bounds
  <2>5. OneHolder' BY <1>22 DEF Finally, OneHolder
  <2> QED BY <2>1, <2>2, <2>3, <2>4, <2>5
<1>23. CASE UNCHANGED vars
  BY <1>23 DEF vars, bridge, provider, answer, bound, Flags, Jobs, Answers, Bounds, OneHolder
<1> QED BY <1>1, <1>2, <1>3, <1>4, <1>5, <1>6, <1>7, <1>8, <1>9, <1>10, <1>11, <1>12,
          <1>13, <1>14, <1>15, <1>16, <1>17, <1>18, <1>19, <1>20, <1>21, <1>22, <1>23
       DEF Next, Load, Step

-----------------------------------------------------------------------------
(* Once a call of stream has reported its end its channel takes nothing    *)
(* more: it is closed, or no job was ever launched for it.                 *)
Settled ==
    \A r \in Requests :
        /\ provJob[r] # "ended" => job[r] = "none"
        /\ pc[r] \in {"idle", "stop", "join"} => provJob[r] = "none"
        /\ pc[r] \in {"answered", "timedOut"} => channel[r] # "open"
        /\ pc[r] = "failed" => channel[r] # "open" \/ provJob[r] = "none"

(* Without an overlap one request at a time is served, and its work ends   *)
(* before the next is asked.                                               *)
Overlapped == "overlap" \in happened
Active(r) == Working(r) \/ pc[r] \in {"stop", "join", "collect"}
Alone == \A q, r \in Requests : Active(q) /\ Active(r) => q = r

(* Nothing disturbs the requests: only collectors are cancelled, and only  *)
(* loads fail.                                                             *)
Calm == happened \subseteq {"cancel", "loadFails"}

(* A call of stream goes on with a model only, and nothing comes between   *)
(* its stop, which leaves READY, and the check of its job.                 *)
Called(r) ==
    /\ pc[r] # "timedOut"
    /\ pc[r] \in {"idle", "stop", "join", "failed"} => provJob[r] = "none"
    /\ provJob[r] = "none" => pc[r] \in {"idle", "stop", "join", "failed", "cancelled"}
    /\ provJob[r] # "refused"
    /\ pc[r] \notin {"idle", "failed"} => loaded
    /\ pc[r] = "answered" => job[r] \in {"returned", "finally", "ended"}
    /\ pc[r] = "join" \/ provJob[r] = "scheduled" => bstate = "READY"

(* The channel is closed by the end of the native call, which no flag from *)
(* an earlier stop cuts short, and takes every token made before it.       *)
Untouched(r) == channel[r] = "open" /\ generated[r] = 0 /\ got[r] = 0

Worked(r) ==
    /\ provJob[r] = "ended" <=> job[r] # "none"
    /\ job[r] \in {"none", "scheduled", "waiting"} => Untouched(r)
    /\ job[r] = "running" => ~should_stop /\ channel[r] = "open" /\ got[r] = generated[r]
    /\ job[r] \in {"returned", "finally", "ended"} => channel[r] = "complete" /\ got[r] = MaxTokens

(* The jobs that currentGenerationJob names when a request cancels it are  *)
(* over, and the provider's never names one.                               *)
Named ==
    /\ loading \notin {"none", "loaded"} => ~loaded
    /\ current # NoRequest => job[current] # "none"
    /\ provCurrent # NoRequest => pc[provCurrent] = "collect"
    /\ \A r \in cancelled : job[r] = "ended"
    /\ provCancelled = {}

Orderly == (\A r \in Requests : Called(r) /\ Worked(r)) /\ Named

BridgeInv == BridgeTyped /\ Settled /\ (~Overlapped => Alone) /\ (Calm => Orderly)

LEMMA SettledStep == ASSUME BridgeTyped, Settled, [Next]_vars PROVE Settled'
<1> USE DEF BridgeTyped, Settled
<1>1. CASE LoadStart
  BY <1>1 DEF LoadStart, provider, answer, Jobs
<1>2. CASE LoadEnd
  BY <1>2 DEF LoadEnd, provider, answer, Jobs
<1>3. CASE LoadProceed
  BY <1>3 DEF LoadProceed, provider, answer, Jobs
<1>4. CASE LoadNative
  BY <1>4 DEF LoadNative, provider, answer, Jobs
<1>5. CASE Unload
  BY <1>5 DEF Unload, provider, answer, Jobs
<1>6. CASE Stop
  BY <1>6 DEF Stop, StopGeneration, answer, Jobs
<1>7. ASSUME NEW r \in Requests, Ask(r) PROVE Settled'
  BY <1>7 DEF Ask, bridge, answer, Jobs
<1>8. ASSUME NEW r \in Requests, Cancel(r) PROVE Settled'
  BY <1>8 DEF Cancel, bridge, answer, Jobs
<1>9. ASSUME NEW r \in Requests, StopPrevious(r) PROVE Settled'
  BY <1>9 DEF StopPrevious, StopGeneration, answer, Jobs
<1>10. ASSUME NEW r \in Requests, Launch(r) PROVE Settled'
  BY <1>10 DEF Launch, bridge, answer, Jobs
<1>11. ASSUME NEW r \in Requests, Finish(r) PROVE Settled'
  BY <1>11 DEF Finish, bridge, answer, Jobs
<1>12. ASSUME NEW r \in Requests, Timeout(r) PROVE Settled'
  BY <1>12 DEF Timeout, bridge, Close, Answers, Jobs
<1>13. ASSUME NEW r \in Requests, Check(r) PROVE Settled'
  BY <1>13 DEF Check, bridge, answer, Jobs
<1>14. ASSUME NEW r \in Requests, Refuse(r) PROVE Settled'
  BY <1>14 DEF Refuse, Close, Answers, Jobs
<1>15. ASSUME NEW r \in Requests, Begin(r) PROVE Settled'
  BY <1>15 DEF Begin, answer, Jobs
<1>16. ASSUME NEW r \in Requests, Dispatch(r) PROVE Settled'
  BY <1>16 DEF Dispatch, provider, answer, Jobs
<1>17. ASSUME NEW r \in Requests, Acquire(r) PROVE Settled'
  BY <1>17 DEF Acquire, provider, answer, Jobs
<1>18. ASSUME NEW r \in Requests, LockTimeout(r) PROVE Settled'
  BY <1>18 DEF LockTimeout, provider, Close, Answers, Jobs
<1>19. ASSUME NEW r \in Requests, Token(r) PROVE Settled'
  BY <1>19 DEF Token, bridge, provider, Jobs
<1>20. ASSUME NEW r \in Requests, NativeEnd(r) PROVE Settled'
  BY <1>20 DEF NativeEnd, provider, Close, Answers, Jobs
<1>21. ASSUME NEW r \in Requests, Return(r) PROVE Settled'
  BY <1>21 DEF Return, provider, Close, Answers, Jobs
<1>22. ASSUME NEW r \in Requests, Finally(r) PROVE Settled'
  BY <1>22 DEF Finally, provider, answer, Jobs
<1>23. CASE UNCHANGED vars BY <1>23 DEF vars, bridge, provider, answer
<1> QED BY <1>1, <1>2, <1>3, <1>4, <1>5, <1>6, <1>7, <1>8, <1>9, <1>10, <1>11, <1>12,
          <1>13, <1>14, <1>15, <1>16, <1>17, <1>18, <1>19, <1>20, <1>21, <1>22, <1>23
       DEF Next, Load, Step

(* Only Ask makes a request active, and without an overlap no other is. *)
LEMMA AloneStep == ASSUME BridgeTyped, Alone, ~Overlapped', [Next]_vars PROVE Alone'
<1> USE DEF BridgeTyped
<1>1. CASE LoadStart
  BY <1>1 DEF LoadStart, provider, Alone, Active, Working
<1>2. CASE LoadEnd
  BY <1>2 DEF LoadEnd, provider, Alone, Active, Working
<1>3. CASE LoadProceed
  BY <1>3 DEF LoadProceed, provider, Alone, Active, Working
<1>4. CASE LoadNative
  BY <1>4 DEF LoadNative, provider, Alone, Active, Working
<1>5. CASE Unload
  BY <1>5 DEF Unload, provider, Alone, Active, Working
<1>6. CASE Stop
  BY <1>6 DEF Stop, StopGeneration, Alone, Active, Working
<1>7. ASSUME NEW r \in Requests, Ask(r) PROVE Alone'
  BY <1>7 DEF Ask, Disturb, bridge, Alone, Active, Working, Final, Overlapped
<1>8. ASSUME NEW r \in Requests, Cancel(r) PROVE Alone'
  BY <1>8 DEF Cancel, bridge, Alone, Active, Working
<1>9. ASSUME NEW r \in Requests, StopPrevious(r) PROVE Alone'
  BY <1>9 DEF StopPrevious, StopGeneration, Alone, Active, Working
<1>10. ASSUME NEW r \in Requests, Launch(r) PROVE Alone'
  BY <1>10 DEF Launch, bridge, Alone, Active, Working
<1>11. ASSUME NEW r \in Requests, Finish(r) PROVE Alone'
  BY <1>11 DEF Finish, bridge, Alone, Active, Working
<1>12. ASSUME NEW r \in Requests, Timeout(r) PROVE Alone'
  BY <1>12 DEF Timeout, bridge, Alone, Active, Working
<1>13. ASSUME NEW r \in Requests, Check(r) PROVE Alone'
  BY <1>13 DEF Check, bridge, Alone, Active, Working, Jobs
<1>14. ASSUME NEW r \in Requests, Refuse(r) PROVE Alone'
  BY <1>14 DEF Refuse, Alone, Active, Working, Jobs
<1>15. ASSUME NEW r \in Requests, Begin(r) PROVE Alone'
  BY <1>15 DEF Begin, Alone, Active, Working
<1>16. ASSUME NEW r \in Requests, Dispatch(r) PROVE Alone'
  BY <1>16 DEF Dispatch, provider, Alone, Active, Working
<1>17. ASSUME NEW r \in Requests, Acquire(r) PROVE Alone'
  BY <1>17 DEF Acquire, provider, Alone, Active, Working
<1>18. ASSUME NEW r \in Requests, LockTimeout(r) PROVE Alone'
  BY <1>18 DEF LockTimeout, provider, Alone, Active, Working
<1>19. ASSUME NEW r \in Requests, Token(r) PROVE Alone'
  BY <1>19 DEF Token, bridge, provider, Alone, Active, Working
<1>20. ASSUME NEW r \in Requests, NativeEnd(r) PROVE Alone'
  BY <1>20 DEF NativeEnd, provider, Alone, Active, Working
<1>21. ASSUME NEW r \in Requests, Return(r) PROVE Alone'
  BY <1>21 DEF Return, provider, Alone, Active, Working
<1>22. ASSUME NEW r \in Requests, Finally(r) PROVE Alone'
  BY <1>22 DEF Finally, provider, Alone, Active, Working
<1>23. CASE UNCHANGED vars BY <1>23 DEF vars, bridge, provider, Alone, Active, Working
<1> QED BY <1>1, <1>2, <1>3, <1>4, <1>5, <1>6, <1>7, <1>8, <1>9, <1>10, <1>11, <1>12,
          <1>13, <1>14, <1>15, <1>16, <1>17, <1>18, <1>19, <1>20, <1>21, <1>22, <1>23
       DEF Next, Load, Step

(* In a calm the work goes its way, and no job is cancelled before it ends. *)
LEMMA OrderlyStep ==
    ASSUME BridgeTyped, Alone, Orderly, Calm', [Next]_vars PROVE Orderly'
<1> USE DEF BridgeTyped, Orderly
<1>1. CASE LoadStart
  <2>1. ASSUME NEW q \in Requests PROVE Called(q)'
    BY <1>1 DEF LoadStart, provider, Called
  <2>2. ASSUME NEW q \in Requests PROVE Worked(q)'
    BY <1>1 DEF LoadStart, provider, answer, Worked, Untouched
  <2>3. Named' BY <1>1 DEF LoadStart, provider, Named
  <2> QED BY <2>1, <2>2, <2>3
<1>2. CASE LoadEnd
  <2>1. ASSUME NEW q \in Requests PROVE Called(q)'
    BY <1>2 DEF LoadEnd, provider, Called, Named
  <2>2. ASSUME NEW q \in Requests PROVE Worked(q)'
    BY <1>2 DEF LoadEnd, provider, answer, Worked, Untouched
  <2>3. Named' BY <1>2 DEF LoadEnd, provider, Named
  <2> QED BY <2>1, <2>2, <2>3
<1>3. CASE LoadProceed
  <2>1. ASSUME NEW q \in Requests PROVE Called(q)'
    BY <1>3 DEF LoadProceed, provider, Called, Named
  <2>2. ASSUME NEW q \in Requests PROVE Worked(q)'
    BY <1>3 DEF LoadProceed, provider, answer, Worked, Untouched
  <2>3. Named' BY <1>3 DEF LoadProceed, provider, Named
  <2> QED BY <2>1, <2>2, <2>3
<1>4. CASE LoadNative
  <2>1. ASSUME NEW q \in Requests PROVE Called(q)'
    BY <1>4 DEF LoadNative, provider, Called, Named
  <2>2. ASSUME NEW q \in Requests PROVE Worked(q)'
    BY <1>4 DEF LoadNative, provider, answer, Worked, Untouched
  <2>3. Named' BY <1>4 DEF LoadNative, provider, Named
  <2> QED BY <2>1, <2>2, <2>3
<1>5. CASE Unload BY <1>5 DEF Unload, Disturb, Calm
<1>6. CASE Stop BY <1>6 DEF Stop, Disturb, Calm
<1>7. ASSUME NEW r \in Requests, Ask(r) PROVE Orderly'
  <2>1. ASSUME NEW q \in Requests PROVE Called(q)'
    BY <1>7 DEF Ask, bridge, Called
  <2>2. ASSUME NEW q \in Requests PROVE Worked(q)'
    BY <1>7 DEF Ask, bridge, answer, Worked, Untouched
  <2>3. Named' BY <1>7 DEF Ask, bridge, Named
  <2> QED BY <2>1, <2>2, <2>3
<1>8. ASSUME NEW r \in Requests, Cancel(r) PROVE Orderly'
  <2>1. ASSUME NEW q \in Requests PROVE Called(q)'
    BY <1>8 DEF Cancel, bridge, Called
  <2>2. ASSUME NEW q \in Requests PROVE Worked(q)'
    BY <1>8 DEF Cancel, bridge, answer, Worked, Untouched
  <2>3. Named' BY <1>8 DEF Cancel, bridge, Named
  <2> QED BY <2>1, <2>2, <2>3
<1>9. ASSUME NEW r \in Requests, StopPrevious(r) PROVE Orderly'
  <2>1. ASSUME NEW q \in Requests PROVE Called(q)'
    BY <1>9 DEF StopPrevious, StopGeneration, Called
  <2>2. ASSUME NEW q \in Requests PROVE Worked(q)'
    BY <1>9 DEF StopPrevious, StopGeneration, answer, Alone, Active, Working, Called,
         Worked, Untouched
  <2>3. Named' BY <1>9 DEF StopPrevious, StopGeneration, CancelProviderJob, Alone, Active,
       Working, Called, Worked, Named
  <2> QED BY <2>1, <2>2, <2>3
<1>10. ASSUME NEW r \in Requests, Launch(r) PROVE Orderly'
  <2>1. ASSUME NEW q \in Requests PROVE Called(q)'
    BY <1>10 DEF Launch, bridge, Jobs, Called
  <2>2. ASSUME NEW q \in Requests PROVE Worked(q)'
    BY <1>10 DEF Launch, bridge, answer, Called, Worked, Untouched
  <2>3. Named' BY <1>10 DEF Launch, bridge, Jobs, Named
  <2> QED BY <2>1, <2>2, <2>3
<1>11. ASSUME NEW r \in Requests, Finish(r) PROVE Orderly'
  <2>1. ASSUME NEW q \in Requests PROVE Called(q)'
    BY <1>11 DEF Finish, bridge, Jobs, JobStage, Called, Worked, Untouched
  <2>2. ASSUME NEW q \in Requests PROVE Worked(q)'
    BY <1>11 DEF Finish, bridge, answer, Worked, Untouched
  <2>3. Named' BY <1>11 DEF Finish, bridge, Named
  <2> QED BY <2>1, <2>2, <2>3
<1>12. ASSUME NEW r \in Requests, Timeout(r) PROVE Orderly'
  BY <1>12 DEF Timeout, Disturb, Working, Called, Worked, Calm
<1>13. ASSUME NEW r \in Requests, Check(r) PROVE Orderly'
  <2>1. ASSUME NEW q \in Requests PROVE Called(q)'
    BY <1>13 DEF Check, bridge, Jobs, Called
  <2>2. ASSUME NEW q \in Requests PROVE Worked(q)'
    BY <1>13 DEF Check, bridge, answer, Jobs, Called, Worked, Untouched, Named
  <2>3. Named' BY <1>13 DEF Check, bridge, Named
  <2> QED BY <2>1, <2>2, <2>3
<1>14. ASSUME NEW r \in Requests, Refuse(r) PROVE Orderly'
  <2>1. ASSUME NEW q \in Requests PROVE Called(q)'
    BY <1>14 DEF Refuse, Jobs, Called
  <2>2. ASSUME NEW q \in Requests PROVE Worked(q)'
    BY <1>14 DEF Refuse, Jobs, Called, Worked, Untouched, Named
  <2>3. Named' BY <1>14 DEF Refuse, Named
  <2> QED BY <2>1, <2>2, <2>3
<1>15. ASSUME NEW r \in Requests, Begin(r) PROVE Orderly'
  <2>1. ASSUME NEW q \in Requests PROVE Called(q)'
    BY <1>15 DEF Begin, Alone, Active, Working, Called, Worked
  <2>2. ASSUME NEW q \in Requests PROVE Worked(q)'
    BY <1>15 DEF Begin, answer, Jobs, Worked, Untouched
  <2>3. Named' BY <1>15 DEF Begin, Jobs, Worked, Named
  <2> QED BY <2>1, <2>2, <2>3
<1>16. ASSUME NEW r \in Requests, Dispatch(r) PROVE Orderly'
  <2>1. ASSUME NEW q \in Requests PROVE Called(q)'
    BY <1>16 DEF Dispatch, provider, Called
  <2>2. ASSUME NEW q \in Requests PROVE Worked(q)'
    BY <1>16 DEF Dispatch, provider, answer, Called, Worked, Untouched, Named
  <2>3. Named' BY <1>16 DEF Dispatch, provider, Named
  <2> QED BY <2>1, <2>2, <2>3
<1>17. ASSUME NEW r \in Requests, Acquire(r) PROVE Orderly'
  <2>1. ASSUME NEW q \in Requests PROVE Called(q)'
    BY <1>17 DEF Acquire, provider, Called
  <2>2. ASSUME NEW q \in Requests PROVE Worked(q)'
    BY <1>17 DEF Acquire, provider, answer, Worked, Untouched
  <2>3. Named' BY <1>17 DEF Acquire, provider, Named
  <2> QED BY <2>1, <2>2, <2>3
<1>18. ASSUME NEW r \in Requests, LockTimeout(r) PROVE Orderly'
  BY <1>18 DEF LockTimeout, Disturb, Calm
<1>19. ASSUME NEW r \in Requests, Token(r) PROVE Orderly'
  <2>1. ASSUME NEW q \in Requests PROVE Called(q)'
    BY <1>19 DEF Token, bridge, provider, Called
  <2>2. ASSUME NEW q \in Requests PROVE Worked(q)'
    BY <1>19 DEF Token, bridge, provider, Worked, Untouched, Named, Answers
  <2>3. Named' BY <1>19 DEF Token, bridge, provider, Named
  <2> QED BY <2>1, <2>2, <2>3
<1>20. ASSUME NEW r \in Requests, NativeEnd(r) PROVE Orderly'
  <2>1. ASSUME NEW q \in Requests PROVE Called(q)'
    BY <1>20 DEF NativeEnd, provider, Called
  <2>2. ASSUME NEW q \in Requests PROVE Worked(q)'
    BY <1>20 DEF NativeEnd, Disturb, provider, Close, Jobs, Worked, Untouched, Calm, Answers
  <2>3. Named' BY <1>20 DEF NativeEnd, provider, Named
  <2> QED BY <2>1, <2>2, <2>3
<1>21. ASSUME NEW r \in Requests, Return(r) PROVE Orderly'
  <2>1. ASSUME NEW q \in Requests PROVE Called(q)'
    BY <1>21 DEF Return, provider, Called
  <2>2. ASSUME NEW q \in Requests PROVE Worked(q)'
    <3>1. channel' = channel BY <1>21 DEF Return, Close, Worked, Answers
    <3> QED BY <1>21, <3>1 DEF Return, Worked, Untouched, provider
  <2>3. Named' BY <1>21 DEF Return, provider, Named
  <2> QED BY <2>1, <2>2, <2>3
<1>22. ASSUME NEW r \in Requests, Finally(r) PROVE Orderly'
  <2>1. ASSUME NEW q \in Requests PROVE Called(q)'
    BY <1>22 DEF Finally, provider, Called
  <2>2. ASSUME NEW q \in Requests PROVE Worked(q)'
    BY <1>22 DEF Finally, provider, answer, Worked, Untouched
  <2>3. Named' BY <1>22 DEF Finally, provider, Named
  <2> QED BY <2>1, <2>2, <2>3
<1>23. CASE UNCHANGED vars
  BY <1>23 DEF vars, bridge, provider, answer, Called, Worked, Untouched, Named
<1> QED BY <1>1, <1>2, <1>3, <1>4, <1>5, <1>6, <1>7, <1>8, <1>9, <1>10, <1>11, <1>12,
          <1>13, <1>14, <1>15, <1>16, <1>17, <1>18, <1>19, <1>20, <1>21, <1>22, <1>23
       DEF Next, Load, Step

LEMMA FinalStep ==
    ASSUME BridgeTyped, Settled, [Next]_vars, NEW q \in Requests,
           pc[q] \in {"answered", "failed", "timedOut"}
    PROVE  pc'[q] = pc[q] /\ got'[q] = got[q]
<1> USE DEF BridgeTyped, Settled
<1>1. CASE LoadStart
  BY <1>1 DEF LoadStart, provider, answer
<1>2. CASE LoadEnd
  BY <1>2 DEF LoadEnd, provider, answer
<1>3. CASE LoadProceed
  BY <1>3 DEF LoadProceed, provider, answer
<1>4. CASE LoadNative
  BY <1>4 DEF LoadNative, provider, answer
<1>5. CASE Unload
  BY <1>5 DEF Unload, provider, answer
<1>6. CASE Stop
  BY <1>6 DEF Stop, answer
<1>7. ASSUME NEW r \in Requests, Ask(r) PROVE pc'[q] = pc[q] /\ got'[q] = got[q]
  BY <1>7 DEF Ask, answer, Jobs
<1>8. ASSUME NEW r \in Requests, Cancel(r) PROVE pc'[q] = pc[q] /\ got'[q] = got[q]
  BY <1>8 DEF Cancel, answer, Jobs
<1>9. ASSUME NEW r \in Requests, StopPrevious(r) PROVE pc'[q] = pc[q] /\ got'[q] = got[q]
  BY <1>9 DEF StopPrevious, answer, Jobs
<1>10. ASSUME NEW r \in Requests, Launch(r) PROVE pc'[q] = pc[q] /\ got'[q] = got[q]
  BY <1>10 DEF Launch, answer, Jobs
<1>11. ASSUME NEW r \in Requests, Finish(r) PROVE pc'[q] = pc[q] /\ got'[q] = got[q]
  BY <1>11 DEF Finish, answer, Jobs
<1>12. ASSUME NEW r \in Requests, Timeout(r) PROVE pc'[q] = pc[q] /\ got'[q] = got[q]
  BY <1>12 DEF Timeout, Jobs
<1>13. ASSUME NEW r \in Requests, Check(r) PROVE pc'[q] = pc[q] /\ got'[q] = got[q]
  BY <1>13 DEF Check, answer, Jobs
<1>14. ASSUME NEW r \in Requests, Refuse(r) PROVE pc'[q] = pc[q] /\ got'[q] = got[q]
  BY <1>14 DEF Refuse, Jobs
<1>15. ASSUME NEW r \in Requests, Begin(r) PROVE pc'[q] = pc[q] /\ got'[q] = got[q]
  BY <1>15 DEF Begin, answer, Jobs
<1>16. ASSUME NEW r \in Requests, Dispatch(r) PROVE pc'[q] = pc[q] /\ got'[q] = got[q]
  BY <1>16 DEF Dispatch, provider, answer, Jobs
<1>17. ASSUME NEW r \in Requests, Acquire(r) PROVE pc'[q] = pc[q] /\ got'[q] = got[q]
  BY <1>17 DEF Acquire, provider, answer, Jobs
<1>18. ASSUME NEW r \in Requests, LockTimeout(r) PROVE pc'[q] = pc[q] /\ got'[q] = got[q]
  BY <1>18 DEF LockTimeout, provider, Jobs
<1>19. ASSUME NEW r \in Requests, Token(r) PROVE pc'[q] = pc[q] /\ got'[q] = got[q]
  BY <1>19 DEF Token, provider, Jobs, Answers
<1>20. ASSUME NEW r \in Requests, NativeEnd(r) PROVE pc'[q] = pc[q] /\ got'[q] = got[q]
  BY <1>20 DEF NativeEnd, provider, Jobs
<1>21. ASSUME NEW r \in Requests, Return(r) PROVE pc'[q] = pc[q] /\ got'[q] = got[q]
  BY <1>21 DEF Return, provider, Jobs
<1>22. ASSUME NEW r \in Requests, Finally(r) PROVE pc'[q] = pc[q] /\ got'[q] = got[q]
  BY <1>22 DEF Finally, provider, answer, Jobs
<1>23. CASE UNCHANGED vars BY <1>23 DEF vars, provider, answer
<1> QED BY <1>1, <1>2, <1>3, <1>4, <1>5, <1>6, <1>7, <1>8, <1>9, <1>10, <1>11, <1>12,
          <1>13, <1>14, <1>15, <1>16, <1>17, <1>18, <1>19, <1>20, <1>21, <1>22, <1>23
       DEF Next, Load, Step

LEMMA BridgeInitially == Init => BridgeInv
<1> SUFFICES ASSUME Init PROVE BridgeInv OBVIOUS
<1>1. Flags BY Zenon DEF Init, Flags
<1>2. Jobs /\ Answers /\ Bounds /\ OneHolder
  BY DEF Init, Jobs, Answers, Bounds, OneHolder, JobStage, ProviderStage, CallStage
<1>3. Settled /\ Alone BY DEF Init, Settled, Alone, Active, Working
<1>4. Orderly BY DEF Init, Orderly, Called, Worked, Untouched, Named
<1> QED BY <1>1, <1>2, <1>3, <1>4 DEF BridgeInv, BridgeTyped

(* A disturbance is not forgotten. *)
LEMMA HappenedGrows == ASSUME [Next]_vars PROVE happened \subseteq happened'
BY DEF Next, Load, Step, vars, bound, Disturb, LoadStart, LoadProceed, LoadNative, LoadEnd,
       Unload, Stop, Ask, Cancel, StopPrevious, Launch, Finish, Timeout, Check, Begin,
       Dispatch, Acquire, LockTimeout, Token, NativeEnd, Return, Refuse, Finally

(* The types, the mutex, what is over, and the order of the work of        *)
(* requests that do not overlap or are not disturbed.                      *)
THEOREM BridgeInvariant == Spec => []BridgeInv
<1>1. ASSUME BridgeInv, [Next]_vars PROVE BridgeInv'
  <2>1. BridgeTyped' /\ Settled' BY <1>1, TypeStep, SettledStep DEF BridgeInv
  <2>2. (~Overlapped => Alone)' BY <1>1, AloneStep, HappenedGrows DEF BridgeInv, Overlapped
  <2>3. (Calm => Orderly)'
    BY <1>1, OrderlyStep, HappenedGrows DEF BridgeInv, Overlapped, Calm
  <2> QED BY <2>1, <2>2, <2>3 DEF BridgeInv
<1> QED BY <1>1, BridgeInitially, PTL DEF Spec

(* Every variable keeps its type, and one native call at a time holds the  *)
(* mutex of nativeGenerateStream, for any number of requests.              *)
THEOREM BridgeTypes == Spec => []TypeOK
<1>1. BridgeInv => TypeOK BY TypedMeansTypeOK DEF BridgeInv
<1> QED BY <1>1, BridgeInvariant, PTL

(* A request that stream accepts while no other's work goes on gets its    *)
(* whole answer: neither a collector cancelled before it nor the           *)
(* should_stop that its own stop leaves set cuts it short.                 *)
THEOREM UndisturbedIsAnswered == Spec => []Undisturbed
<1>1. BridgeInv => Undisturbed
  <2>1. ASSUME BridgeTyped, Orderly, NEW r \in Requests
        PROVE  /\ pc[r] = "answered" => got[r] = MaxTokens
               /\ pc[r] # "timedOut" /\ channel[r] # "error"
    BY <2>1 DEF BridgeTyped, Jobs, JobStage, Orderly, Called, Worked, Untouched
  <2> QED BY <2>1 DEF BridgeInv, Calm, Undisturbed
<1> QED BY <1>1, BridgeInvariant, PTL

(* stream: an answer that was reported is not added to, by whatever native *)
(* call, cancelled or left alone after the timeout, ends later.            *)
THEOREM ReportedAnswerIsFinal == Spec => AnswerIsFinal
<1>1. BridgeInv /\ [Next]_vars
        => [\A r \in Requests : pc[r] \in {"answered", "failed", "timedOut"} =>
               pc'[r] = pc[r] /\ got'[r] = got[r]]_vars
  BY FinalStep DEF BridgeInv
<1> QED BY <1>1, BridgeInvariant, PTL DEF Spec, AnswerIsFinal
=============================================================================
