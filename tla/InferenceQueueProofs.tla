------------------------- MODULE InferenceQueueProofs -------------------------
(***************************************************************************)
(* Proofs about InferenceQueue, for any set of requests and any capacity:  *)
(* first for all priorities, then for requests of one priority, without    *)
(* which the queue loses requests and runs them twice.                     *)
(***************************************************************************)
EXTENDS InferenceQueue, TLAPS

Elements(s) == {s[i] : i \in 1 .. Len(s)}
Injective(s) == \A i, j \in 1 .. Len(s) : s[i] = s[j] => i = j

(* A HIGH enqueue moves the queue as the holder of its monitor, and has a  *)
(* copy only then.                                                         *)
Moving == {"copied", "cleared", "added"}
Locked ==
    \A r \in Requests :
        /\ enqueuePc[r] \in Moving => queueLock = r /\ r \in HighRequests
        /\ enqueuePc[r] \notin Moving => tempList[r] = <<>>

(* Only what was added is queued or set aside, ...                         *)
Arrived ==
    /\ \A q \in Queued : enqueuePc[q] \in {"added", "accepted"}
    /\ \A r \in Requests : \A q \in Elements(tempList[r]) : enqueuePc[q] = "accepted"

(* ... and it is in one place.                                             *)
QueuedOnce ==
    /\ Injective(requestQueue)
    /\ \A r \in Requests :
          /\ Injective(tempList[r])
          /\ enqueuePc[r] \in {"cleared", "added"} => Queued \cap Elements(tempList[r]) = {}

QueueInv == TypeOK /\ Locked /\ Arrived /\ QueuedOnce

(* A request whose enqueue returned, or is about to, is somewhere; and     *)
(* while the queue is copied nothing is added to it.                       *)
Somewhere ==
    \A r \in Requests : enqueuePc[r] \in {"added", "accepted"} =>
        r \in Queued \cup SetAside \cup {current} \cup finished \cup withdrawn

CopyIsWhole ==
    \A r \in Requests : enqueuePc[r] = "copied" => Queued \subseteq Elements(tempList[r])

(* What the processor has seen of a NORMAL request. *)
Gone == {current} \cup finished \cup withdrawn

OneWay ==
    /\ Queued \cap Gone = {}
    /\ \A r \in Requests : r \in Gone => enqueuePc[r] = "accepted"

RunsCounted ==
    \A r \in Requests : runs[r] = IF r \in {current} \cup finished THEN 1 ELSE 0

NormalInv == OneWay /\ RunsCounted

-----------------------------------------------------------------------------
(* Sequences: what the operations on requestQueue do to its elements. *)

(* add: the queue gains the request at its end. *)
LEMMA AppendElements ==
    ASSUME NEW X, NEW s \in Seq(X), NEW x \in X
    PROVE  /\ Append(s, x) \in Seq(X)
           /\ Elements(Append(s, x)) = Elements(s) \cup {x}
           /\ Injective(s) /\ x \notin Elements(s) => Injective(Append(s, x))
<1> DEFINE t == Append(s, x)
<1>1. /\ t \in Seq(X)
      /\ Len(s) \in Nat
      /\ Len(t) = Len(s) + 1
      /\ t[Len(s) + 1] = x
      /\ \A i \in 1 .. Len(s) : t[i] = s[i]
  OBVIOUS
<1> HIDE DEF t
<1>2. 1 .. Len(t) = (1 .. Len(s)) \cup {Len(s) + 1}
  BY <1>1
<1>3. Elements(t) = Elements(s) \cup {x}
  BY <1>1, <1>2 DEF Elements
<1>4. Injective(s) /\ x \notin Elements(s) => Injective(t)
  BY <1>1, <1>2 DEF Elements, Injective
<1> QED
  BY <1>1, <1>3, <1>4 DEF t

(* addAll: one sequence behind another. *)
LEMMA ConcatElements ==
    ASSUME NEW X, NEW s \in Seq(X), NEW t \in Seq(X)
    PROVE  /\ s \o t \in Seq(X)
           /\ Elements(s \o t) = Elements(s) \cup Elements(t)
           /\ Injective(s) /\ Injective(t) /\ Elements(s) \cap Elements(t) = {}
              => Injective(s \o t)
<1> DEFINE u == s \o t
<1>1. /\ u \in Seq(X)
      /\ Len(s) \in Nat /\ Len(t) \in Nat
      /\ Len(u) = Len(s) + Len(t)
      /\ \A i \in 1 .. Len(s) : u[i] = s[i]
      /\ \A i \in 1 .. Len(u) : i > Len(s) => u[i] = t[i - Len(s)]
  OBVIOUS
<1> HIDE DEF u
<1>2. \A i \in 1 .. Len(u) :
         \/ i \in 1 .. Len(s) /\ u[i] = s[i]
         \/ i - Len(s) \in 1 .. Len(t) /\ i > Len(s) /\ u[i] = t[i - Len(s)]
  BY <1>1
<1>3. \A i \in 1 .. Len(t) : Len(s) + i \in 1 .. Len(u) /\ u[Len(s) + i] = t[i]
  <2> TAKE i \in 1 .. Len(t)
  <2>1. Len(s) + i \in 1 .. Len(u) /\ Len(s) + i > Len(s) /\ (Len(s) + i) - Len(s) = i
    BY <1>1
  <2> QED
    BY <2>1, <1>1
<1>4. 1 .. Len(s) \subseteq 1 .. Len(u)
  BY <1>1
<1>5. Elements(u) = Elements(s) \cup Elements(t)
  <2>1. Elements(u) \subseteq Elements(s) \cup Elements(t)
    BY <1>2 DEF Elements
  <2>2. Elements(s) \subseteq Elements(u)
    BY <1>1, <1>4 DEF Elements
  <2>3. Elements(t) \subseteq Elements(u)
    BY <1>3 DEF Elements
  <2> QED
    BY <2>1, <2>2, <2>3
<1>6. ASSUME Injective(s), Injective(t), Elements(s) \cap Elements(t) = {}
      PROVE  Injective(u)
  <2> SUFFICES ASSUME NEW i \in 1 .. Len(u), NEW j \in 1 .. Len(u), u[i] = u[j]
               PROVE  i = j
    BY DEF Injective
  <2>0. \A k \in 1 .. Len(s), l \in 1 .. Len(t) : s[k] # t[l]
    BY <1>6 DEF Elements
  <2>1. CASE i \in 1 .. Len(s) /\ j \in 1 .. Len(s)
    BY <2>1, <1>1, <1>6 DEF Injective
  <2>2. CASE i \notin 1 .. Len(s) /\ j \notin 1 .. Len(s)
    <3>1. i - Len(s) = j - Len(s)
      BY <2>2, <1>2, <1>6 DEF Injective
    <3> QED
      BY <3>1, <1>1
  <2>3. CASE i \in 1 .. Len(s) /\ j \notin 1 .. Len(s)
    BY SMTT(30), <2>0, <2>3, <1>2
  <2>4. CASE i \notin 1 .. Len(s) /\ j \in 1 .. Len(s)
    BY <2>0, <2>4, <1>2
  <2> QED
    BY <2>1, <2>2, <2>3, <2>4
<1> QED
  BY <1>1, <1>5, <1>6 DEF u

(* poll: the head leaves the queue. *)
LEMMA TailElements ==
    ASSUME NEW X, NEW s \in Seq(X), s # <<>>
    PROVE  /\ Head(s) \in X /\ Tail(s) \in Seq(X)
           /\ Elements(s) = {Head(s)} \cup Elements(Tail(s))
           /\ Injective(s) => Injective(Tail(s)) /\ Head(s) \notin Elements(Tail(s))
<1> DEFINE t == Tail(s)
<1>1. /\ Head(s) \in X
      /\ t \in Seq(X)
      /\ Len(s) \in Nat /\ Len(s) >= 1
      /\ Len(t) = Len(s) - 1
      /\ Head(s) = s[1]
      /\ \A i \in 1 .. Len(t) : t[i] = s[i + 1]
  OBVIOUS
<1> HIDE DEF t
<1>2. \A i \in 1 .. Len(t) : i + 1 \in 1 .. Len(s) /\ i + 1 # 1
  BY <1>1
<1>3. \A i \in 1 .. Len(s) : i = 1 \/ (i - 1 \in 1 .. Len(t) /\ (i - 1) + 1 = i)
  BY <1>1
<1>4. 1 \in 1 .. Len(s)
  BY <1>1
<1>5. Elements(s) = {Head(s)} \cup Elements(t)
  <2>1. Elements(s) \subseteq {Head(s)} \cup Elements(t)
    <3> SUFFICES ASSUME NEW i \in 1 .. Len(s), i # 1
                 PROVE  s[i] \in Elements(t)
      BY <1>1 DEF Elements
    <3> QED
      BY <1>1, <1>3, ZenonT(40) DEF Elements
  <2>2. {Head(s)} \cup Elements(t) \subseteq Elements(s)
    BY <1>1, <1>2, <1>4 DEF Elements
  <2> QED
    BY <2>1, <2>2
<1>6. ASSUME Injective(s)
      PROVE  Injective(t) /\ Head(s) \notin Elements(t)
  <2>1. ASSUME NEW i \in 1 .. Len(t), NEW j \in 1 .. Len(t), t[i] = t[j]
        PROVE  i = j
    <3>1. i + 1 = j + 1
      BY <2>1, <1>1, <1>2, <1>6 DEF Injective
    <3> QED
      BY <3>1
  <2>2. \A i \in 1 .. Len(t) : t[i] # Head(s)
    BY <1>1, <1>2, <1>4, <1>6 DEF Injective
  <2> QED
    BY <2>1, <2>2 DEF Elements, Injective
<1> QED
  BY <1>1, <1>5, <1>6 DEF t

(* RemoveAt: what is left keeps its order, ... *)
LEMMA RemoveAtKeeps ==
    ASSUME NEW X, NEW s \in Seq(X), NEW n \in 1 .. Len(s)
    PROVE  /\ S!RemoveAt(s, n) \in Seq(X)
           /\ Len(S!RemoveAt(s, n)) = Len(s) - 1
           /\ \A k \in 1 .. Len(s) - 1 :
                 S!RemoveAt(s, n)[k] = IF k < n THEN s[k] ELSE s[k + 1]
<1> DEFINE a == SubSeq(s, 1, n - 1)
           b == SubSeq(s, n + 1, Len(s))
<1>1. a \in Seq(X) /\ Len(a) = n - 1 /\ \A k \in 1 .. n - 1 : a[k] = s[k]
  OBVIOUS
<1>2. /\ b \in Seq(X) /\ Len(b) = Len(s) - n
      /\ \A k \in 1 .. Len(s) - n : b[k] = s[n + k]
  OBVIOUS
<1>3. S!RemoveAt(s, n) = a \o b
  BY DEF S!RemoveAt
<1> HIDE DEF a, b
<1>4. a \o b \in Seq(X) /\ Len(a \o b) = Len(s) - 1
  <2>0. a \in Seq(X) /\ b \in Seq(X)
    BY <1>1, <1>2
  <2>1. a \o b \in Seq(X) /\ Len(a \o b) = Len(a) + Len(b)
    BY <2>0
  <2>2. Len(s) \in Nat /\ n \in Int
    OBVIOUS
  <2> QED
    BY <2>1, <2>2, <1>1, <1>2
<1>5. ASSUME NEW k \in 1 .. Len(s) - 1
      PROVE  (a \o b)[k] = IF k < n THEN s[k] ELSE s[k + 1]
  <2>1. CASE k < n
    BY <2>1, <1>1, <1>2
  <2>2. CASE ~(k < n)
    <3>1. k - (n - 1) \in 1 .. Len(s) - n /\ n + (k - (n - 1)) = k + 1
      BY <2>2
    <3>2. (a \o b)[k] = b[k - (n - 1)]
      BY <2>2, <1>1, <1>2
    <3> QED
      BY <3>1, <3>2, <2>2, <1>2
  <2> QED
    BY <2>1, <2>2
<1> QED
  BY <1>3, <1>4, <1>5

(* ... and only the removed position is gone. *)
LEMMA RemoveElements ==
    ASSUME NEW X, NEW s \in Seq(X), NEW n \in 1 .. Len(s)
    PROVE  /\ S!RemoveAt(s, n) \in Seq(X)
           /\ Elements(s) = Elements(S!RemoveAt(s, n)) \cup {s[n]}
           /\ Injective(s) =>
                 Injective(S!RemoveAt(s, n)) /\ s[n] \notin Elements(S!RemoveAt(s, n))
<1> DEFINE t == S!RemoveAt(s, n)
           At(k) == IF k < n THEN k ELSE k + 1
           From(k) == IF k < n THEN k ELSE k - 1
<1>1. /\ t \in Seq(X)
      /\ Len(t) = Len(s) - 1
      /\ \A k \in 1 .. Len(t) : t[k] = s[At(k)]
  BY RemoveAtKeeps
<1> HIDE DEF t
<1>2. \A k \in 1 .. Len(t) : At(k) \in 1 .. Len(s) /\ At(k) # n
  BY <1>1
<1>3. \A k \in 1 .. Len(s) : k # n => From(k) \in 1 .. Len(t) /\ At(From(k)) = k
  <2> TAKE k \in 1 .. Len(s)
  <2>1. CASE k < n
    BY <2>1, <1>1
  <2>2. CASE k > n
    <3>1. From(k) = k - 1 /\ k - 1 \in 1 .. Len(t) /\ ~(k - 1 < n) /\ (k - 1) + 1 = k
      BY <2>2, <1>1
    <3> QED
      BY <3>1
  <2> QED
    BY <2>1, <2>2
<1>4. \A k, l \in 1 .. Len(t) : At(k) = At(l) => k = l
  BY <1>1
<1> HIDE DEF At, From
<1>5. Elements(s) = Elements(t) \cup {s[n]}
  <2>1. ASSUME NEW k \in 1 .. Len(s), k # n
        PROVE  s[k] \in Elements(t)
    BY <2>1, <1>1, <1>3 DEF Elements
  <2>2. Elements(t) \subseteq Elements(s)
    BY <1>1, <1>2 DEF Elements
  <2>3. s[n] \in Elements(s)
    BY DEF Elements
  <2>4. Elements(s) \subseteq Elements(t) \cup {s[n]}
    BY <2>1 DEF Elements
  <2> QED
    BY <2>2, <2>3, <2>4
<1>6. ASSUME Injective(s)
      PROVE  Injective(t) /\ s[n] \notin Elements(t)
  <2>1. Injective(t)
    BY <1>6, <1>1, <1>2, <1>4 DEF Injective
  <2>2. \A k \in 1 .. Len(t) : t[k] # s[n]
    BY <1>6, <1>1, <1>2 DEF Injective
  <2> QED
    BY <2>1, <2>2 DEF Elements
<1> QED
  BY <1>1, <1>5, <1>6 DEF t

LEMMA EmptyElements == Elements(<<>>) = {} /\ Injective(<<>>)
  BY DEF Elements, Injective

LEMMA ElementsType == ASSUME NEW X, NEW s \in Seq(X) PROVE Elements(s) \subseteq X
  BY DEF Elements

LEMMA QueuedElements == Queued = Elements(requestQueue)
  BY DEF Queued, Elements

-----------------------------------------------------------------------------
(* Types *)

LEMMA TypeInit == Init => TypeOK
<1> SUFFICES ASSUME Init PROVE TypeOK
  OBVIOUS
<1>1. isPaused \in BOOLEAN /\ hasTokens \in BOOLEAN
  BY Zenon DEF Init
<1>2. requestQueue \in Seq(Requests) /\ tempList \in [Requests -> Seq(Requests)]
  BY DEF Init
<1> QED
  BY <1>1, <1>2 DEF Init, TypeOK, EnqueuePCs, ProcessorPCs, StreamStates

(* A stop changes the stream and what is remembered of the stop, if a      *)
(* request is being processed at all.                                      *)
LEMMA StopTypes ==
    ASSUME TypeOK, StopBridge
    PROVE  /\ stream' \in StreamStates
           /\ stream' = "none" <=> stream = "none"
           /\ stopOf' \in [Requests -> {"none", "asked", "cut"}]
<1>1. stream' \in StreamStates /\ (stream' = "none" <=> stream = "none")
  BY DEF TypeOK, StopBridge, StreamStates
<1>2. CASE stream \in {"launched", "assigned"}
  BY <1>1, <1>2 DEF TypeOK, StopBridge
<1>3. CASE stream \in {"running", "cancelled"}
  BY <1>1, <1>3 DEF TypeOK, StopBridge
<1>4. CASE stream \notin {"launched", "assigned", "running", "cancelled"}
  BY <1>1, <1>4 DEF TypeOK, StopBridge
<1> QED
  BY <1>1, <1>2, <1>3, <1>4

LEMMA TypeStep == TypeOK /\ [Next]_vars => TypeOK'
<1> SUFFICES ASSUME TypeOK, [Next]_vars PROVE TypeOK'
  OBVIOUS
<1> USE DEF TypeOK
<1>1. ASSUME NEW r \in Requests, Refuse(r) \/ CheckSize(r) PROVE TypeOK'
  BY <1>1 DEF Refuse, CheckSize, EnqueueStep, EnqueuePCs, processorVars, ghosts
<1>2. ASSUME NEW r \in Requests, AddNormal(r) PROVE TypeOK'
  BY <1>2 DEF AddNormal, EnqueueStep, EnqueuePCs, processorVars, ghosts
<1>3. ASSUME NEW r \in Requests, CopyQueue(r) PROVE TypeOK'
  BY <1>3 DEF CopyQueue, EnqueueStep, EnqueuePCs, processorVars, ghosts
<1>4. ASSUME NEW r \in Requests, ClearQueue(r) PROVE TypeOK'
  BY <1>4 DEF ClearQueue, EnqueueStep, EnqueuePCs, processorVars, ghosts
<1>5. ASSUME NEW r \in Requests, AddFirst(r) PROVE TypeOK'
  BY <1>5 DEF AddFirst, EnqueueStep, EnqueuePCs, processorVars, ghosts
<1>6. ASSUME NEW r \in Requests, AddRest(r) PROVE TypeOK'
  <2>1. requestQueue' \in Seq(Requests) /\ <<>> \in Seq(Requests)
    BY <1>6, ConcatElements DEF AddRest
  <2>2. tempList' \in [Requests -> Seq(Requests)]
    BY <2>1, <1>6 DEF AddRest
  <2> QED
    BY <2>1, <2>2, <1>6 DEF AddRest, EnqueueStep, EnqueuePCs, processorVars, ghosts
<1>7. ASSUME CheckPaused \/ PollNothing PROVE TypeOK'
  BY <1>7 DEF CheckPaused, PollNothing, enqueueVars, ghosts, ProcessorPCs
<1>8. ASSUME Poll PROVE TypeOK'
  <2>1. hasTokens' \in BOOLEAN
    BY <1>8, Zenon DEF Poll
  <2>2. current' \in Requests /\ requestQueue' \in Seq(Requests)
    BY <1>8, TailElements DEF Poll
  <2>3. runs' \in [Requests -> Nat]
    BY <2>2, <1>8 DEF Poll
  <2> QED
    BY <2>1, <2>2, <2>3, <1>8, QueueAssumption DEF Poll, ProcessorPCs, StreamStates
<1>9. ASSUME AddUserTurn \/ AddAssistantTurn PROVE TypeOK'
  <2>1. current \in Requests
    BY <1>9 DEF AddUserTurn, AddAssistantTurn
  <2>2. history' \subseteq Requests \X {"user", "assistant"}
    BY <2>1, <1>9 DEF AddUserTurn, AddAssistantTurn
  <2> QED
    BY <2>2, <1>9 DEF AddUserTurn, AddAssistantTurn, enqueueVars, ghosts, ProcessorPCs
<1>10. ASSUME EmitComplete PROVE TypeOK'
  <2>1. hasTokens' \in BOOLEAN
    BY <1>10, Zenon DEF EmitComplete
  <2> QED
    BY <2>1, <1>10 DEF EmitComplete, enqueueVars, ProcessorPCs, StreamStates
<1>11. ASSUME AssignJob \/ BridgeNotReady \/ DispatchJob PROVE TypeOK'
  BY <1>11 DEF AssignJob, BridgeNotReady, DispatchJob, StreamStep, enqueueVars, ghosts,
               StreamStates
<1>12. ASSUME CollectTokens PROVE TypeOK'
  <2>1. hasTokens' \in BOOLEAN
    BY <1>12, Zenon DEF CollectTokens
  <2> QED
    BY <2>1, <1>12 DEF CollectTokens, StreamStep, enqueueVars, ghosts, StreamStates
<1>13. ASSUME NativeCompletes PROVE TypeOK'
  BY <1>13 DEF NativeCompletes, StreamStep, enqueueVars, ghosts, StreamStates
<1>14. ASSUME Stop PROVE TypeOK'
  BY <1>14, StopTypes DEF Stop, enqueueVars
<1>15. ASSUME Clear PROVE TypeOK'
  <2>1. requestQueue' \in Seq(Requests) /\ withdrawn' \subseteq Requests
    BY <1>15 DEF Clear, Queued
  <2> QED
    BY <2>1, <1>15, StopTypes DEF Clear
<1>16. ASSUME Pause PROVE TypeOK'
  <2>1. isPaused' \in BOOLEAN
    BY <1>16, Zenon DEF Pause
  <2> QED
    BY <2>1, <1>16, StopTypes DEF Pause, enqueueVars
<1>17. ASSUME Resume PROVE TypeOK'
  <2>1. isPaused' \in BOOLEAN
    BY <1>17, Zenon DEF Resume
  <2> QED
    BY <2>1, <1>17 DEF Resume, enqueueVars, processorVars, ghosts
<1>18. ASSUME NEW r \in Requests, Cancel(r) PROVE TypeOK'
  <2>1. requestQueue' \in Seq(Requests)
    BY <1>18, RemoveElements DEF Cancel
  <2> QED
    BY <2>1, <1>18 DEF Cancel, processorVars
<1>19. CASE UNCHANGED vars
  BY <1>19 DEF vars, enqueueVars, processorVars, ghosts
<1> QED
  BY <1>1, <1>2, <1>3, <1>4, <1>5, <1>6, <1>7, <1>8, <1>9, <1>10, <1>11, <1>12,
     <1>13, <1>14, <1>15, <1>16, <1>17, <1>18, <1>19
  DEF Next, Enqueue, Process, Bridge, User

-----------------------------------------------------------------------------
(* The queue holds a request once *)

(* What every step but those of an enqueue does to the queue: at most      *)
(* requests leave it.                                                      *)
Leaves ==
    /\ UNCHANGED <<enqueuePc, tempList, queueLock>>
    /\ Elements(requestQueue') \subseteq Elements(requestQueue)
    /\ Injective(requestQueue) => Injective(requestQueue')

LEMMA QueueChanges ==
    ASSUME TypeOK, Process \/ Bridge \/ User \/ UNCHANGED vars
    PROVE  Leaves
<1> USE DEF TypeOK, Leaves
<1>1. CASE UNCHANGED enqueueVars
  BY <1>1 DEF enqueueVars
<1>2. CASE Poll
  BY <1>2, TailElements DEF Poll
<1>3. CASE Clear
  <2>1. requestQueue' = <<>> /\ UNCHANGED <<enqueuePc, tempList, queueLock>>
    BY <1>3 DEF Clear
  <2> QED
    BY <2>1, EmptyElements, Zenon
<1>4. ASSUME NEW r \in Requests, Cancel(r) PROVE Leaves
  BY <1>4, RemoveElements DEF Cancel
<1>5. ASSUME ~Poll, ~Clear, ~(\E r \in Requests : Cancel(r))
      PROVE  UNCHANGED enqueueVars
  <2>1. ASSUME Process PROVE UNCHANGED enqueueVars
    BY <2>1, <1>5 DEF Process, CheckPaused, PollNothing, AddUserTurn, AddAssistantTurn,
                      EmitComplete
  <2>2. ASSUME Bridge PROVE UNCHANGED enqueueVars
    BY <2>2 DEF Bridge, AssignJob, BridgeNotReady, DispatchJob, CollectTokens,
                NativeCompletes, StreamStep
  <2>3. ASSUME User PROVE UNCHANGED enqueueVars
    BY <2>3, <1>5 DEF User, Stop, Pause, Resume
  <2>4. ASSUME UNCHANGED vars PROVE UNCHANGED enqueueVars
    BY <2>4 DEF vars
  <2> QED
    BY <1>5, <2>1, <2>2, <2>3, <2>4
<1> QED
  BY <1>1, <1>2, <1>3, <1>4, <1>5

LEMMA QueueInit == Init => Locked /\ Arrived /\ QueuedOnce
<1> SUFFICES ASSUME Init PROVE Locked /\ Arrived /\ QueuedOnce
  OBVIOUS
<1>1. /\ requestQueue = <<>> /\ Queued = {}
      /\ \A r \in Requests : tempList[r] = <<>> /\ enqueuePc[r] = "new"
  BY EmptyElements, QueuedElements DEF Init
<1>2. /\ Injective(requestQueue)
      /\ \A r \in Requests : Elements(tempList[r]) = {} /\ Injective(tempList[r])
  BY <1>1, EmptyElements, Zenon
<1> QED
  BY <1>1, <1>2 DEF Locked, Arrived, QueuedOnce, Moving

LEMMA QueueStep ==
    ASSUME QueueInv, [Next]_vars
    PROVE  QueueInv'
<1>1. TypeOK /\ TypeOK'
  BY TypeStep DEF QueueInv
<1>2. /\ Queued = Elements(requestQueue)
      /\ Queued' = Elements(requestQueue')
      /\ Queued \subseteq Requests
      /\ \A r \in Requests : Elements(tempList[r]) \subseteq Requests
  <2>1. Queued = Elements(requestQueue) /\ Queued' = Elements(requestQueue')
    BY DEF Queued, Elements
  <2>2. requestQueue \in Seq(Requests) /\ \A r \in Requests : tempList[r] \in Seq(Requests)
    BY <1>1 DEF TypeOK
  <2> QED
    BY <2>1, <2>2, ElementsType
<1> SUFFICES (Locked /\ Arrived /\ QueuedOnce)'
  BY <1>1 DEF QueueInv
<1> USE DEF QueueInv, Locked, Arrived, QueuedOnce, Moving
<1>3. CASE Leaves
  BY <1>2, <1>3 DEF Leaves
<1>4. ASSUME NEW r \in Requests, Refuse(r) \/ CheckSize(r)
      PROVE  (Locked /\ Arrived /\ QueuedOnce)'
  <2>1. \E to \in {"checked", "refused"} :
           enqueuePc[r] = "new" /\ enqueuePc' = [enqueuePc EXCEPT ![r] = to]
    BY <1>4 DEF Refuse, CheckSize, EnqueueStep
  <2>2. UNCHANGED <<requestQueue, tempList, queueLock>>
    BY <1>4 DEF Refuse, CheckSize
  <2>3. \A q \in Requests :
           /\ enqueuePc'[q] \in {"copied", "cleared", "added", "accepted"} <=>
                 enqueuePc[q] \in {"copied", "cleared", "added", "accepted"}
           /\ enqueuePc[q] \in {"copied", "cleared", "added", "accepted"} =>
                 enqueuePc'[q] = enqueuePc[q]
    BY <1>1, <2>1 DEF TypeOK
  <2>4. Locked'
    BY <2>2, <2>3
  <2>5. Arrived'
    <3>1. UNCHANGED Queued /\ \A q \in Requests : UNCHANGED Elements(tempList[q])
      BY <1>2, <2>2 DEF Queued
    <3> QED
      BY <1>2, <2>3, <3>1
  <2>6. QueuedOnce'
    BY <1>2, <2>2, <2>3
  <2> QED
    BY <2>4, <2>5, <2>6
<1>5. ASSUME NEW r \in Requests, AddNormal(r)
      PROVE  (Locked /\ Arrived /\ QueuedOnce)'
  <2>1. /\ enqueuePc[r] = "checked" /\ enqueuePc' = [enqueuePc EXCEPT ![r] = "accepted"]
        /\ requestQueue' = Append(requestQueue, r)
        /\ UNCHANGED <<tempList, queueLock>>
    BY <1>5 DEF AddNormal, EnqueueStep
  <2>2. r \notin Queued
    BY <2>1
  <2>3. Queued' = Queued \cup {r} /\ Injective(requestQueue')
    BY <1>1, <1>2, <2>1, <2>2, AppendElements DEF TypeOK
  <2> QED
    <3>1. Locked'
      BY <1>1, <2>1 DEF TypeOK
    <3>2. Arrived'
      BY SMTT(30), <1>1, <2>1, <2>3 DEF TypeOK
    <3>3. \A q \in Requests : r \notin Elements(tempList[q])
      BY <2>1
    <3>4. QueuedOnce'
      BY <1>1, <2>1, <2>3, <3>3 DEF TypeOK
    <3> QED
      BY <3>1, <3>2, <3>4
<1>6. ASSUME NEW r \in Requests, CopyQueue(r)
      PROVE  (Locked /\ Arrived /\ QueuedOnce)'
  <2>1. /\ enqueuePc[r] = "checked" /\ enqueuePc' = [enqueuePc EXCEPT ![r] = "copied"]
        /\ r \in HighRequests /\ queueLock = None /\ queueLock' = r
        /\ tempList' = [tempList EXCEPT ![r] = requestQueue]
        /\ UNCHANGED requestQueue
    BY <1>6 DEF CopyQueue, EnqueueStep
  <2>2. \A q \in Requests : enqueuePc[q] \notin Moving
    BY <2>1, QueueAssumption
  <2>3. \A q \in Queued : q \in Requests /\ enqueuePc[q] = "accepted"
    BY <1>2, <2>2
  <2> QED
    <3>1. Locked'
      BY <1>1, <2>1, <2>2 DEF TypeOK
    <3>2. tempList'[r] = requestQueue /\ \A q \in Requests \ {r} : tempList'[q] = tempList[q]
      BY <1>1, <2>1 DEF TypeOK
    <3>3. \A q \in Requests : enqueuePc[q] = "accepted" => enqueuePc'[q] = "accepted"
      BY <1>1, <2>1 DEF TypeOK
    <3>4. Arrived'
      <4>1. Queued' = Queued /\ \A q \in Queued : enqueuePc'[q] = "accepted"
        BY <1>2, <2>1, <2>3, <3>3 DEF Queued
      <4>2. \A q \in Elements(tempList'[r]) : enqueuePc'[q] = "accepted"
        BY <1>2, <3>2, <4>1
      <4>3. \A p \in Requests \ {r} : \A q \in Elements(tempList'[p]) : enqueuePc'[q] = "accepted"
        BY <1>2, <3>2, <3>3
      <4> QED
        BY <4>1, <4>2, <4>3
    <3>5. \A q \in Requests : enqueuePc'[q] \notin {"cleared", "added"}
      BY <1>1, <2>1, <2>2 DEF TypeOK
    <3>6. QueuedOnce'
      BY <2>1, <3>2, <3>5
    <3> QED
      BY <3>1, <3>4, <3>6
<1>7. ASSUME NEW r \in Requests, ClearQueue(r)
      PROVE  (Locked /\ Arrived /\ QueuedOnce)'
  <2>1. /\ enqueuePc[r] = "copied" /\ enqueuePc' = [enqueuePc EXCEPT ![r] = "cleared"]
        /\ requestQueue' = <<>>
        /\ UNCHANGED <<tempList, queueLock>>
    BY <1>7 DEF ClearQueue, EnqueueStep
  <2>2. Queued' = {} /\ Injective(requestQueue')
    BY <1>2, <2>1, EmptyElements
  <2> QED
    BY <1>1, <2>1, <2>2 DEF TypeOK
<1>8. ASSUME NEW r \in Requests, AddFirst(r)
      PROVE  (Locked /\ Arrived /\ QueuedOnce)'
  <2>1. /\ enqueuePc[r] = "cleared" /\ enqueuePc' = [enqueuePc EXCEPT ![r] = "added"]
        /\ requestQueue' = Append(requestQueue, r)
        /\ UNCHANGED <<tempList, queueLock>>
    BY <1>8 DEF AddFirst, EnqueueStep
  <2>2. r \notin Queued
    BY <2>1
  <2>3. Queued' = Queued \cup {r} /\ Injective(requestQueue')
    BY <1>1, <1>2, <2>1, <2>2, AppendElements DEF TypeOK
  <2> QED
    <3>1. Locked'
      BY <1>1, <2>1 DEF TypeOK
    <3>2. Arrived'
      BY <1>1, <2>1, <2>3 DEF TypeOK
    <3>3. \A q \in Requests : r \notin Elements(tempList[q])
      BY <2>1
    <3>4. QueuedOnce'
      BY <1>1, <2>1, <2>3, <3>3 DEF TypeOK
    <3> QED
      BY <3>1, <3>2, <3>4
<1>9. ASSUME NEW r \in Requests, AddRest(r)
      PROVE  (Locked /\ Arrived /\ QueuedOnce)'
  <2>1. /\ enqueuePc[r] = "added" /\ enqueuePc' = [enqueuePc EXCEPT ![r] = "accepted"]
        /\ requestQueue' = requestQueue \o tempList[r]
        /\ tempList' = [tempList EXCEPT ![r] = <<>>]
        /\ queueLock = r
    BY <1>9 DEF AddRest, EnqueueStep
  <2>2. \A q \in Requests \ {r} : enqueuePc[q] \notin Moving
    BY <2>1
  <2>3. Queued' = Queued \cup Elements(tempList[r]) /\ Injective(requestQueue')
    BY <1>1, <1>2, <2>1, ConcatElements DEF TypeOK
  <2>4. Elements(tempList'[r]) = {} /\ Injective(tempList'[r]) /\ tempList'[r] = <<>>
    BY <1>1, <2>1, EmptyElements DEF TypeOK
  <2> QED
    BY <1>1, <2>1, <2>2, <2>3, <2>4 DEF TypeOK
<1> QED
  BY <1>1, <1>3, <1>4, <1>5, <1>6, <1>7, <1>8, <1>9, QueueChanges
  DEF Next, Enqueue

-----------------------------------------------------------------------------
(* Nothing is lost *)

Places == Queued \cup Gone

LEMMA SetAsideElements ==
    SetAside = {q \in Requests : \E r \in Requests : q \in Elements(tempList[r])}
  BY DEF SetAside, Elements

(* Steps outside enqueue move requests between places, never out of them.  *)
LEMMA PlacesKept ==
    ASSUME TypeOK, Process \/ Bridge \/ User \/ UNCHANGED vars
    PROVE  Requests \cap Places \subseteq Places'
<1> USE DEF Places, Gone
<1>1. Queued = Elements(requestQueue) /\ Queued' = Elements(requestQueue')
  BY DEF Queued, Elements
<1>2. CASE Poll
  <2>1. /\ requestQueue \in Seq(Requests) /\ requestQueue # <<>>
        /\ current' = Head(requestQueue) /\ requestQueue' = Tail(requestQueue)
        /\ current = None
        /\ UNCHANGED <<finished, withdrawn>>
    BY <1>2 DEF Poll, TypeOK
  <2>2. Elements(requestQueue) = {current'} \cup Elements(requestQueue')
    BY <2>1, TailElements
  <2> QED
    BY <1>1, <2>1, <2>2, QueueAssumption
<1>3. CASE CheckPaused \/ PollNothing \/ AddUserTurn \/ AddAssistantTurn \/ Bridge
           \/ Stop \/ Pause \/ Resume \/ UNCHANGED vars
  <2>1. UNCHANGED <<requestQueue, current, finished, withdrawn>>
    BY <1>3 DEF CheckPaused, PollNothing, AddUserTurn, AddAssistantTurn, Bridge, AssignJob,
                BridgeNotReady, DispatchJob, CollectTokens, NativeCompletes, StreamStep,
                Stop, Pause, Resume, vars, enqueueVars, processorVars, ghosts
  <2> QED
    BY <1>1, <2>1
<1>4. CASE EmitComplete
  <2>1. finished' = finished \cup {current} /\ UNCHANGED <<requestQueue, withdrawn>>
    BY <1>4 DEF EmitComplete, enqueueVars
  <2> QED
    BY <1>1, <2>1
<1>5. CASE Clear
  BY <1>5 DEF Clear
<1>6. ASSUME NEW r \in Requests, Cancel(r) PROVE Requests \cap Places \subseteq Places'
  <2>1. PICK n \in 1 .. Len(requestQueue) :
           requestQueue[n] = r /\ requestQueue' = S!RemoveAt(requestQueue, n)
    BY <1>6 DEF Cancel
  <2>2. Elements(requestQueue) = Elements(requestQueue') \cup {r}
    BY <2>1, RemoveElements DEF TypeOK
  <2> QED
    BY <1>1, <1>6, <2>2 DEF Cancel, processorVars
<1> QED
  BY <1>2, <1>3, <1>4, <1>5, <1>6 DEF Process, User

LEMMA PlaceInit == Init => Somewhere /\ CopyIsWhole
  BY DEF Init, Somewhere, CopyIsWhole

LEMMA PlaceStep ==
    ASSUME HighRequests \in {{}, Requests}, QueueInv, Somewhere, CopyIsWhole, [Next]_vars
    PROVE  (Somewhere /\ CopyIsWhole)'
<1> USE DEF Somewhere, CopyIsWhole
<1>1. TypeOK /\ Locked
  BY DEF QueueInv
<1>2. /\ Queued = Elements(requestQueue) /\ Queued' = Elements(requestQueue')
      /\ SetAside = {q \in Requests : \E p \in Requests : q \in Elements(tempList[p])}
      /\ SetAside' = {q \in Requests : \E p \in Requests : q \in Elements(tempList'[p])}
  BY DEF Queued, SetAside, Elements
<1>3. \A q \in Queued : q \in Requests
  BY <1>1 DEF Queued, TypeOK
<1>4. CASE Process \/ Bridge \/ User \/ UNCHANGED vars
  <2>1. Leaves /\ Requests \cap Places \subseteq Places'
    BY <1>1, <1>4, QueueChanges, PlacesKept
  <2>2. SetAside' = SetAside
    BY <1>2, <2>1 DEF Leaves
  <2> QED
    BY <1>2, <2>1, <2>2 DEF Leaves, Places, Gone
<1>5. ASSUME NEW r \in Requests, Refuse(r) \/ CheckSize(r)
      PROVE  (Somewhere /\ CopyIsWhole)'
  <2>1. UNCHANGED <<requestQueue, tempList, current, finished, withdrawn>>
    BY <1>5 DEF Refuse, CheckSize, processorVars, ghosts
  <2>2. \A q \in Requests : enqueuePc'[q] \in {"copied", "added", "accepted"} =>
           enqueuePc'[q] = enqueuePc[q]
    BY <1>1, <1>5 DEF TypeOK, Refuse, CheckSize, EnqueueStep
  <2>3. UNCHANGED <<Queued, SetAside>>
    BY <1>2, <2>1
  <2> QED
    BY <2>1, <2>2, <2>3
<1>6. ASSUME NEW r \in Requests, AddNormal(r)
      PROVE  (Somewhere /\ CopyIsWhole)'
  <2>1. /\ r \notin HighRequests
        /\ enqueuePc' = [enqueuePc EXCEPT ![r] = "accepted"]
        /\ requestQueue' = Append(requestQueue, r)
        /\ UNCHANGED <<tempList, current, finished, withdrawn>>
    BY <1>6 DEF AddNormal, EnqueueStep, processorVars, ghosts
  <2>2. Queued' = Queued \cup {r} /\ SetAside' = SetAside
    BY <1>1, <1>2, <2>1, AppendElements DEF TypeOK
  <2>3. \A q \in Requests : enqueuePc'[q] # "copied"
    BY <1>1, <2>1 DEF Locked, Moving, TypeOK
  <2> QED
    BY <1>1, <2>1, <2>2, <2>3 DEF TypeOK
<1>7. ASSUME NEW r \in Requests, CopyQueue(r)
      PROVE  (Somewhere /\ CopyIsWhole)'
  <2>1. /\ queueLock = None
        /\ enqueuePc' = [enqueuePc EXCEPT ![r] = "copied"]
        /\ tempList' = [tempList EXCEPT ![r] = requestQueue]
        /\ UNCHANGED <<requestQueue, current, finished, withdrawn>>
    BY <1>7 DEF CopyQueue, EnqueueStep, processorVars, ghosts
  <2>2. \A q \in Requests : enqueuePc[q] \notin Moving /\ tempList[q] = <<>>
    BY <1>1, <2>1, QueueAssumption DEF Locked
  <2>3. SetAside = {} /\ Queued' = Queued /\ Elements(tempList'[r]) = Queued
    BY <1>1, <1>2, <2>1, <2>2, EmptyElements DEF TypeOK
  <2>4. \A q \in Requests \ {r} : enqueuePc'[q] = enqueuePc[q] /\ enqueuePc[q] # "copied"
    BY <1>1, <2>1, <2>2 DEF TypeOK, Moving
  <2> QED
    BY <1>1, <2>1, <2>3, <2>4 DEF TypeOK
<1>8. ASSUME NEW r \in Requests, ClearQueue(r)
      PROVE  (Somewhere /\ CopyIsWhole)'
  <2>1. /\ enqueuePc[r] = "copied"
        /\ enqueuePc' = [enqueuePc EXCEPT ![r] = "cleared"]
        /\ requestQueue' = <<>>
        /\ UNCHANGED <<tempList, current, finished, withdrawn>>
    BY <1>8 DEF ClearQueue, EnqueueStep, processorVars, ghosts
  <2>2. SetAside' = SetAside /\ Queued' = {} /\ Queued \subseteq SetAside
    BY <1>2, <1>3, <2>1, EmptyElements
  <2> QED
    BY <1>1, <2>1, <2>2 DEF TypeOK
<1>9. ASSUME NEW r \in Requests, AddFirst(r)
      PROVE  (Somewhere /\ CopyIsWhole)'
  <2>1. /\ enqueuePc[r] = "cleared"
        /\ enqueuePc' = [enqueuePc EXCEPT ![r] = "added"]
        /\ requestQueue' = Append(requestQueue, r)
        /\ UNCHANGED <<tempList, current, finished, withdrawn>>
    BY <1>9 DEF AddFirst, EnqueueStep, processorVars, ghosts
  <2>2. Queued' = Queued \cup {r} /\ SetAside' = SetAside
    BY <1>1, <1>2, <2>1, AppendElements DEF TypeOK
  <2>3. \A q \in Requests : enqueuePc'[q] # "copied"
    BY <1>1, <2>1 DEF Locked, Moving, TypeOK
  <2> QED
    BY <1>1, <2>1, <2>2, <2>3 DEF TypeOK
<1>10. ASSUME NEW r \in Requests, AddRest(r)
       PROVE  (Somewhere /\ CopyIsWhole)'
  <2>1. /\ enqueuePc[r] = "added"
        /\ enqueuePc' = [enqueuePc EXCEPT ![r] = "accepted"]
        /\ requestQueue' = requestQueue \o tempList[r]
        /\ tempList' = [tempList EXCEPT ![r] = <<>>]
        /\ UNCHANGED <<current, finished, withdrawn>>
    BY <1>10 DEF AddRest, EnqueueStep, processorVars, ghosts
  <2>2. \A q \in Requests \ {r} : enqueuePc[q] \notin Moving /\ tempList[q] = <<>>
    BY <1>1, <2>1 DEF Locked, Moving
  <2>3. Queued' = Queued \cup Elements(tempList[r])
    BY <1>1, <1>2, <2>1, ConcatElements DEF TypeOK
  <2>4. SetAside \subseteq Elements(tempList[r])
    BY <1>2, <2>2, EmptyElements
  <2>5. \A q \in Requests : enqueuePc'[q] # "copied"
    BY <1>1, <2>1, <2>2 DEF Moving, TypeOK
  <2> QED
    BY <1>1, <2>1, <2>3, <2>4, <2>5 DEF TypeOK
<1> QED
  BY <1>4, <1>5, <1>6, <1>7, <1>8, <1>9, <1>10 DEF Next, Enqueue

-----------------------------------------------------------------------------
(* Theorems for every mix of priorities *)

(* The variables of InferenceQueue.kt keep their types: in particular a    *)
(* request is being processed exactly while its flow exists.               *)
THEOREM QueueTyped == Spec => []TypeOK
<1> QED
  BY TypeInit, TypeStep, PTL DEF Spec

LEMMA QueueInvHolds == Spec => []QueueInv
<1>1. Init => QueueInv
  BY TypeInit, QueueInit DEF QueueInv
<1> QED
  BY <1>1, QueueStep, PTL DEF Spec

(* requestQueue holds a request at most once, also while a HIGH enqueue    *)
(* moves it through its copy: the removal of cancel, which takes out one   *)
(* element, leaves no second one to run.                                   *)
THEOREM RequestQueuedOnce == Spec => []QueuedOnce
<1>1. QueueInv => QueuedOnce
  BY DEF QueueInv
<1> QED
  BY <1>1, QueueInvHolds, PTL

(* A request whose enqueue returned true is waiting, being moved, being    *)
(* processed, completed or withdrawn, when all requests have one priority: *)
(* synchronized(requestQueue) keeps HIGH enqueues apart, and only a NORMAL *)
(* one, which does not take the monitor, could come between copy and clear.*)
THEOREM NothingIsLost ==
    ASSUME HighRequests \in {{}, Requests}
    PROVE  Spec => []NothingLost
<1>1. Somewhere => NothingLost
  BY DEF Somewhere, NothingLost
<1>2. QueueInv /\ Somewhere /\ CopyIsWhole /\ [Next]_vars => (Somewhere /\ CopyIsWhole)'
  BY PlaceStep
<1> QED
  BY <1>1, <1>2, PlaceInit, QueueInvHolds, PTL DEF Spec

-----------------------------------------------------------------------------
(* Requests of NORMAL priority: the life of a request *)

LEMMA NoneMoves ==
    ASSUME HighRequests = {}, QueueInv
    PROVE  /\ \A r \in Requests : enqueuePc[r] \notin Moving
           /\ SetAside = {}
<1>1. \A r \in Requests : enqueuePc[r] \notin Moving /\ tempList[r] = <<>>
  BY DEF QueueInv, Locked
<1>2. SetAside = {}
  BY <1>1, SetAsideElements, EmptyElements
<1> QED
  BY <1>1, <1>2

(* What each step means for the requests: the steps that matter are those  *)
(* in which a request is accepted, refused, taken, completed or withdrawn. *)
Accepted(r) ==
    /\ enqueuePc[r] = "checked" /\ enqueuePc' = [enqueuePc EXCEPT ![r] = "accepted"]
    /\ Queued' = Queued \cup {r}
    /\ UNCHANGED <<current, finished, withdrawn, runs>>

Refused(r) ==
    /\ enqueuePc[r] = "new" /\ enqueuePc' = [enqueuePc EXCEPT ![r] = "refused"]
    /\ UNCHANGED <<Queued, current, finished, withdrawn, runs>>

Checked(r) ==
    /\ enqueuePc[r] = "new" /\ enqueuePc' = [enqueuePc EXCEPT ![r] = "checked"]
    /\ UNCHANGED <<Queued, current, finished, withdrawn, runs>>

Taken(r) ==
    /\ current = None /\ current' = r
    /\ r \in Queued /\ Queued' = Queued \ {r}
    /\ runs' = [runs EXCEPT ![r] = @ + 1]
    /\ UNCHANGED <<enqueuePc, finished, withdrawn>>

Completed(r) ==
    /\ current = r /\ current' = None
    /\ finished' = finished \cup {r}
    /\ UNCHANGED <<enqueuePc, Queued, withdrawn, runs>>

Withdrawn(R) ==
    /\ R \subseteq Queued /\ Queued' = Queued \ R
    /\ withdrawn' = withdrawn \cup R
    /\ UNCHANGED <<enqueuePc, current, finished, runs>>

NothingHappens == UNCHANGED <<enqueuePc, Queued, current, finished, withdrawn, runs>>

LEMMA RequestStep ==
    ASSUME HighRequests = {}, QueueInv, [Next]_vars
    PROVE  \/ \E r \in Requests :
                 Accepted(r) \/ Refused(r) \/ Checked(r) \/ Taken(r) \/ Completed(r)
           \/ \E R \in SUBSET Requests : Withdrawn(R)
           \/ NothingHappens
<1> DEFINE Goal == \/ \E r \in Requests :
                         Accepted(r) \/ Refused(r) \/ Checked(r) \/ Taken(r) \/ Completed(r)
                   \/ \E R \in SUBSET Requests : Withdrawn(R)
                   \/ NothingHappens
<1>1. TypeOK /\ QueuedOnce
  BY DEF QueueInv
<1>2. /\ Queued = Elements(requestQueue) /\ Queued' = Elements(requestQueue')
      /\ requestQueue \in Seq(Requests) /\ Injective(requestQueue)
  BY <1>1 DEF Queued, Elements, TypeOK, QueuedOnce
<1>3. ASSUME NEW r \in Requests, Enqueue(r) PROVE Goal
  <2>1. ~CopyQueue(r) /\ ~ClearQueue(r) /\ ~AddFirst(r) /\ ~AddRest(r)
    BY <1>1, NoneMoves DEF CopyQueue, ClearQueue, AddFirst, AddRest, EnqueueStep, Moving
  <2>2. CASE AddNormal(r)
    <3>1. Queued' = Queued \cup {r}
      BY <2>2, <1>2, AppendElements DEF AddNormal
    <3>2. Accepted(r)
      BY <2>2, <3>1 DEF AddNormal, Accepted, EnqueueStep, processorVars, ghosts
    <3> QED
      BY <3>2
  <2>3. CASE Refuse(r)
    <3>1. Queued' = Queued
      BY <2>3, <1>2 DEF Refuse
    <3>2. Refused(r)
      BY <2>3, <3>1 DEF Refuse, Refused, EnqueueStep, processorVars, ghosts
    <3> QED
      BY <3>2
  <2>4. CASE CheckSize(r)
    <3>1. Queued' = Queued
      BY <2>4, <1>2 DEF CheckSize
    <3>2. Checked(r)
      BY <2>4, <3>1 DEF CheckSize, Checked, EnqueueStep, processorVars, ghosts
    <3> QED
      BY <3>2
  <2> QED
    BY <1>3, <2>1, <2>2, <2>3, <2>4 DEF Enqueue
<1>4. CASE Poll
  <2>1. /\ requestQueue # <<>> /\ current = None
        /\ current' = Head(requestQueue) /\ requestQueue' = Tail(requestQueue)
    BY <1>4, <1>1 DEF Poll, TypeOK
  <2>2. current' \in Requests /\ current' \in Queued /\ Queued' = Queued \ {current'}
    BY <1>2, <2>1, TailElements
  <2>3. Taken(current')
    BY <1>4, <2>1, <2>2 DEF Poll, Taken
  <2> QED
    BY <2>2, <2>3
<1>5. CASE EmitComplete
  <2>1. current \in Requests /\ Queued' = Queued
    BY <1>1, <1>2, <1>5 DEF EmitComplete, TypeOK, enqueueVars
  <2>2. Completed(current)
    BY <1>5, <2>1 DEF EmitComplete, Completed, enqueueVars
  <2> QED
    BY <2>1, <2>2
<1>6. CASE Clear
  <2>1. Queued' = {} /\ Queued \in SUBSET Requests
    BY <1>2, <1>6, EmptyElements, ElementsType DEF Clear
  <2>2. Withdrawn(Queued)
    BY <1>6, <2>1 DEF Clear, Withdrawn
  <2> QED
    BY <2>1, <2>2
<1>7. ASSUME NEW r \in Requests, Cancel(r) PROVE Goal
  <2>1. PICK n \in 1 .. Len(requestQueue) :
           requestQueue[n] = r /\ requestQueue' = S!RemoveAt(requestQueue, n)
    BY <1>7 DEF Cancel
  <2>2. r \in Queued /\ Queued' = Queued \ {r}
    BY <1>2, <2>1, RemoveElements
  <2>3. Withdrawn({r})
    BY <1>7, <2>2 DEF Cancel, Withdrawn, processorVars
  <2> QED
    BY <2>3
<1>8. CASE CheckPaused \/ PollNothing \/ AddUserTurn \/ AddAssistantTurn \/ Bridge
           \/ Stop \/ Pause \/ Resume \/ UNCHANGED vars
  <2>1. UNCHANGED <<requestQueue, enqueuePc, current, finished, withdrawn, runs>>
    BY <1>8 DEF CheckPaused, PollNothing, AddUserTurn, AddAssistantTurn, Bridge, AssignJob,
                BridgeNotReady, DispatchJob, CollectTokens, NativeCompletes, StreamStep,
                Stop, Pause, Resume, vars, enqueueVars, processorVars, ghosts
  <2> QED
    BY <1>2, <2>1 DEF NothingHappens
<1> QED
  BY <1>3, <1>4, <1>5, <1>6, <1>7, <1>8 DEF Next, Process, User

LEMMA NormalInit == Init => NormalInv
<1> SUFFICES ASSUME Init PROVE NormalInv
  OBVIOUS
<1>1. Queued = {}
  BY EmptyElements, QueuedElements DEF Init
<1> QED
  BY <1>1, QueueAssumption DEF Init, NormalInv, OneWay, RunsCounted, Gone

LEMMA NormalStep ==
    ASSUME HighRequests = {}, QueueInv, NormalInv, [Next]_vars
    PROVE  NormalInv'
<1> USE DEF NormalInv, OneWay, RunsCounted, Gone
<1>1. TypeOK
  BY DEF QueueInv
<1>2. Queued \subseteq Requests /\ \A q \in Queued : enqueuePc[q] = "accepted"
  <2>1. Queued \subseteq Requests
    BY <1>1, ElementsType, QueuedElements DEF TypeOK
  <2>2. \A q \in Queued : enqueuePc[q] \in {"added", "accepted"}
    BY DEF QueueInv, Arrived
  <2> QED
    BY <2>1, <2>2, NoneMoves DEF Moving
<1>3. ASSUME NEW r \in Requests, Accepted(r) PROVE NormalInv'
  <2>1. r \notin Gone /\ enqueuePc'[r] = "accepted"
    BY <1>1, <1>3 DEF Accepted, TypeOK
  <2> QED
    BY <1>1, <1>3, <2>1 DEF Accepted, TypeOK
<1>4. ASSUME NEW r \in Requests, Refused(r) \/ Checked(r) PROVE NormalInv'
  BY <1>1, <1>4 DEF Refused, Checked, TypeOK
<1>5. ASSUME NEW r \in Requests, Taken(r) PROVE NormalInv'
  BY <1>1, <1>2, <1>5, QueueAssumption DEF Taken, TypeOK
<1>6. ASSUME NEW r \in Requests, Completed(r) PROVE NormalInv'
  BY <1>1, <1>2, <1>6, QueueAssumption DEF Completed, TypeOK
<1>7. ASSUME NEW R \in SUBSET Requests, Withdrawn(R) PROVE NormalInv'
  BY <1>1, <1>2, <1>7 DEF Withdrawn, TypeOK
<1>8. CASE NothingHappens
  BY <1>8 DEF NothingHappens
<1> QED
  BY <1>3, <1>4, <1>5, <1>6, <1>7, <1>8, RequestStep

LEMMA LifecycleInit == Init => Lifecycle!Init
<1> SUFFICES ASSUME Init PROVE Lifecycle!Init
  OBVIOUS
<1>1. /\ Queued = {} /\ finished = {} /\ withdrawn = {} /\ current = None
      /\ \A r \in Requests : tempList[r] = <<>> /\ enqueuePc[r] = "new"
  BY EmptyElements, QueuedElements DEF Init
<1>2. SetAside = {}
  BY <1>1, SetAsideElements, EmptyElements
<1>3. \A r \in Requests : StatusOf(r) = "new"
  BY <1>1, <1>2, QueueAssumption DEF StatusOf
<1> QED
  BY <1>3 DEF Lifecycle!Init

LEMMA LifecycleStep ==
    ASSUME HighRequests = {}, QueueInv, QueueInv', NormalInv, [Next]_vars
    PROVE  [Lifecycle!Next]_([r \in Requests |-> StatusOf(r)])
<1> DEFINE status == [r \in Requests |-> StatusOf(r)]
           Become(R, to) == \A q \in Requests :
               StatusOf(q)' = IF q \in R THEN to ELSE StatusOf(q)
<1>1. TypeOK /\ OneWay /\ Queued \subseteq Requests
  BY ElementsType, QueuedElements DEF QueueInv, NormalInv, TypeOK
<1>2. SetAside = {} /\ SetAside' = {}
  <2>1. SetAside' = {}
    <3>1. \A r \in Requests : tempList'[r] = <<>>
      BY DEF QueueInv, Locked
    <3> QED
      BY <3>1 DEF SetAside
  <2> QED
    BY <2>1, NoneMoves
<1>3. \A R, to : Become(R, to) => Lifecycle!Move(R, to)
  BY DEF Lifecycle!Move
<1>4. ASSUME NEW r \in Requests, Accepted(r) PROVE Lifecycle!Next
  <2>1. r \notin Gone /\ r \notin Queued
    BY <1>1, <1>4 DEF OneWay, Accepted, QueueInv, Arrived
  <2>2. StatusOf(r) = "new" /\ Become({r}, "pending")
    BY <1>1, <1>2, <1>4, <2>1 DEF StatusOf, Accepted, Gone, OneWay, TypeOK
  <2> QED
    BY <1>3, <2>2 DEF Lifecycle!Next, Lifecycle!Accept
<1>5. ASSUME NEW r \in Requests, Refused(r) PROVE Lifecycle!Next
  <2>1. r \notin Gone /\ r \notin Queued
    BY <1>1, <1>5 DEF OneWay, Refused, QueueInv, Arrived
  <2>2. StatusOf(r) = "new" /\ Become({r}, "refused")
    BY <1>1, <1>2, <1>5, <2>1 DEF StatusOf, Refused, Gone, OneWay, TypeOK
  <2> QED
    BY <1>3, <2>2 DEF Lifecycle!Next, Lifecycle!Refuse
<1>6. ASSUME NEW r \in Requests, Taken(r) PROVE Lifecycle!Next
  <2>1. \A q \in Requests : StatusOf(q) # "running"
    BY <1>6, QueueAssumption DEF StatusOf, Taken
  <2>2. StatusOf(r) = "pending" /\ Become({r}, "running")
    BY <1>1, <1>2, <1>6, QueueAssumption DEF StatusOf, Taken, Gone, OneWay, TypeOK
  <2> QED
    BY <1>3, <2>1, <2>2 DEF Lifecycle!Next, Lifecycle!Run
<1>7. ASSUME NEW r \in Requests, Completed(r) PROVE Lifecycle!Next
  <2>1. StatusOf(r) = "running" /\ Become({r}, "finished")
    BY <1>1, <1>2, <1>7, QueueAssumption DEF StatusOf, Completed, Gone, OneWay, TypeOK
  <2> QED
    BY <1>3, <2>1 DEF Lifecycle!Next, Lifecycle!Finish
<1>8. ASSUME NEW R \in SUBSET Requests, Withdrawn(R) PROVE Lifecycle!Next
  <2>1. (\A r \in R : StatusOf(r) = "pending") /\ Become(R, "withdrawn")
    BY <1>1, <1>2, <1>8 DEF StatusOf, Withdrawn, Gone, OneWay, TypeOK
  <2> QED
    BY <1>3, <2>1 DEF Lifecycle!Next, Lifecycle!Withdraw
<1>9. ASSUME NEW r \in Requests, Checked(r) PROVE UNCHANGED status
  <2>1. \A q \in Requests : StatusOf(q)' = StatusOf(q)
    BY <1>1, <1>2, <1>9 DEF StatusOf, Checked, TypeOK
  <2> QED
    BY <2>1
<1>10. ASSUME NothingHappens PROVE UNCHANGED status
  <2>1. \A q \in Requests : StatusOf(q)' = StatusOf(q)
    BY <1>1, <1>2, <1>10 DEF StatusOf, NothingHappens, TypeOK
  <2> QED
    BY <2>1
<1> QED
  BY <1>4, <1>5, <1>6, <1>7, <1>8, <1>9, <1>10, RequestStep

-----------------------------------------------------------------------------
(* Theorems for requests of NORMAL priority *)

LEMMA NormalInvHolds == HighRequests = {} => (Spec => []NormalInv)
<1> SUFFICES ASSUME HighRequests = {} PROVE Spec => []NormalInv
  OBVIOUS
<1>1. QueueInv /\ NormalInv /\ [Next]_vars => NormalInv'
  BY NormalStep
<1> QED
  BY <1>1, NormalInit, QueueInvHolds, PTL DEF Spec

(* The processor takes a request once: after processRequest, cancel or     *)
(* clear it is not in requestQueue again.                                  *)
THEOREM NormalRunsOnce ==
    ASSUME HighRequests = {}
    PROVE  Spec => []RunsAtMostOnce
<1>1. NormalInv => RunsAtMostOnce
  BY DEF NormalInv, RunsCounted, RunsAtMostOnce
<1>2. Spec => []NormalInv
  BY NormalInvHolds
<1> QED
  BY <1>1, <1>2, PTL

(* InferenceQueue implements what RequestLifecycle promises of a request:  *)
(* every step of the threads that enqueue, of processQueue, of the bridge  *)
(* and of the user is a step of one request's life, a withdrawal of some   *)
(* pending ones, or none.                                                  *)
THEOREM QueueImplementsLifecycle ==
    ASSUME HighRequests = {}
    PROVE  Spec => ImplementsLifecycle
<1>1. QueueInv /\ QueueInv' /\ NormalInv /\ [Next]_vars
        => [Lifecycle!Next]_([r \in Requests |-> StatusOf(r)])
  BY LifecycleStep
<1>2. Spec => []NormalInv
  BY NormalInvHolds
<1> QED
  BY <1>1, <1>2, LifecycleInit, QueueInvHolds, PTL
  DEF Spec, ImplementsLifecycle, Lifecycle!Spec
=============================================================================
