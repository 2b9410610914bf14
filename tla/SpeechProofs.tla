----------------------------- MODULE SpeechProofs -----------------------------
(***************************************************************************)
(* Proofs about the two ends of a spoken turn, each for itself: first      *)
(* SpeechOutput, for any durations, limits, number of sentences and        *)
(* disturbances, then SpeechSegments, for all durations, thresholds and    *)
(* lags.                                                                   *)
(***************************************************************************)
EXTENDS SpeechOutput, SpeechSegments, TLAPS

Positions == 1 .. Len(playing)

(* The sentences of an answer are numbered, and play in their order. *)
Numbered ==
    /\ pendingUtterances \subseteq 1 .. spoken
    /\ \A n \in Positions : playing[n].sentence <= spoken
    /\ \A m, n \in Positions : m < n => playing[m].sentence < playing[n].sentence

(* What plays was not reported and, while the answer lasts, is pending. *)
Tracked ==
    \A n \in Positions :
        /\ playing[n].sentence \notin reports
        /\ job \in {"talking", "waiting"} => playing[n].sentence \in pendingUtterances

(* Of a job that was stopped nothing plays until it speaks once more, and  *)
(* no job has ended while one runs.                                        *)
Stopped ==
    /\ job = "cancelled" => playing = <<>>
    /\ job \in {"talking", "waiting"} => ended = "no"
    /\ job = "cancelled" => ended = "stopped"

(* A single sentence is over when the code expects it to be.               *)
OnTime ==
    playing # <<>> /\ ~outran =>
        Len(playing) = 1 /\ sinceLast + playing[1].left <= expected

OutputInv == OutputTypeOK /\ Numbered /\ Tracked /\ Stopped /\ OnTime /\ ReportedMeansSilent

-----------------------------------------------------------------------------
USE SpeechAssumption

Utterance == [sentence : Sentences, left : 1 .. Longest]

LEMMA Limits == /\ Cap \in Nat /\ Grace \in Nat /\ Echo \in Nat /\ Timeout \in Nat
                /\ MaxSentences \in Nat /\ MaxDisturbances \in Nat
BY SpeechAssumption

LEMMA LongestBounds == Longest \in Nat /\ \A d \in Durations : d <= Longest
<1>1. PICK d \in Durations : \A e \in Durations : e <= d BY SpeechAssumption
<1>2. Longest \in Durations /\ \A e \in Durations : e <= Longest
  BY <1>1 DEF Longest
<1> QED BY <1>2

(* The queue of the engine, when the head has played for a while, ...      *)
LEMMA HeadPlays ==
    ASSUME playing \in Seq(Utterance), playing # <<>>, Head(playing).left > 1,
           NEW q, q = [playing EXCEPT ![1].left = @ - 1]
    PROVE  /\ q \in Seq(Utterance) /\ Len(q) = Len(playing)
           /\ \A n \in Positions : q[n].sentence = playing[n].sentence
           /\ q[1].left = playing[1].left - 1
<1>1. /\ Len(playing) \in Nat /\ 1 \in Positions /\ Head(playing) = playing[1]
      /\ \A n \in Positions : playing[n] \in Utterance
  BY DEF Positions
<1>2. Longest \in Nat BY LongestBounds
<1>3. [playing[1] EXCEPT !.left = @ - 1] \in Utterance
  <2>1. playing[1] \in [sentence : Sentences, left : 1 .. Longest] /\ playing[1].left > 1
    BY <1>1 DEF Utterance
  <2>2. playing[1].left - 1 \in 1 .. Longest BY <1>2, <2>1
  <2> QED BY <2>1, <2>2 DEF Utterance
<1> QED BY <1>1, <1>3 DEF Positions, Utterance

(* ... when the head is over, ...                                          *)
LEMMA HeadIsOver ==
    ASSUME playing \in Seq(Utterance), playing # <<>>
    PROVE  /\ Tail(playing) \in Seq(Utterance) /\ Len(Tail(playing)) = Len(playing) - 1
           /\ \A n \in 1 .. Len(Tail(playing)) : Tail(playing)[n] = playing[n + 1]
           /\ Head(playing) = playing[1] /\ 1 \in Positions /\ Head(playing) \in Utterance
           /\ Len(playing) \in Nat
BY DEF Positions

(* ... and when a sentence is added.                                       *)
LEMMA SentenceQueues ==
    ASSUME NEW q \in Seq(Utterance), NEW u \in Utterance
    PROVE  /\ q \o <<u>> \in Seq(Utterance) /\ Len(q \o <<u>>) = Len(q) + 1
           /\ \A n \in 1 .. Len(q) : (q \o <<u>>)[n] = q[n]
           /\ (q \o <<u>>)[Len(q) + 1] = u
           /\ Len(q) \in Nat
OBVIOUS

(* The next sentence is queued behind what plays, if it plays.             *)
Playable ==
    /\ playing \in Seq(Utterance)
    /\ \A n \in Positions : playing[n].sentence <= spoken /\ playing[n].sentence \notin reports
    /\ \A m, n \in Positions : m < n => playing[m].sentence < playing[n].sentence

LEMMA QueueGrows ==
    ASSUME OutputInv, SpeakQueued,
           NEW real \in 1 .. Longest,
           playing' = (IF spoken = 0 THEN <<>> ELSE playing) \o <<[sentence |-> spoken + 1, left |-> real]>>
    PROVE  /\ Playable' /\ Len(playing') = Len(playing) + 1
           /\ \A n \in Positions : playing'[n] = playing[n]
           /\ playing'[Len(playing) + 1] = [sentence |-> spoken + 1, left |-> real]
<1> DEFINE u == [sentence |-> spoken + 1, left |-> real]
<1>1. /\ playing \in Seq(Utterance) /\ spoken \in 0 .. MaxSentences /\ reports \subseteq 1 .. spoken
      /\ spoken < MaxSentences /\ spoken' = spoken + 1 /\ reports' = reports
      /\ \A n \in Positions : playing[n].sentence <= spoken /\ playing[n].sentence \notin reports
      /\ \A m, n \in Positions : m < n => playing[m].sentence < playing[n].sentence
  BY DEF OutputInv, OutputTypeOK, Numbered, Tracked, SpeakQueued, Utterance
<1>2. u \in Utterance BY <1>1 DEF Utterance, Sentences
<1>3. spoken = 0 => playing = <<>>
  <2> SUFFICES ASSUME spoken = 0, playing # <<>> PROVE FALSE OBVIOUS
  <2>1. 1 \in Positions /\ playing[1] \in Utterance BY <1>1 DEF Positions
  <2>2. playing[1].sentence \in 1 .. MaxSentences BY <2>1 DEF Utterance, Sentences
  <2>3. playing[1].sentence <= 0 BY <1>1, <2>1
  <2> QED BY <2>2, <2>3
<1>4. playing' = playing \o <<u>> BY <1>3
<1> HIDE DEF u
<1>5. /\ playing' \in Seq(Utterance) /\ Len(playing') = Len(playing) + 1
      /\ \A n \in 1 .. Len(playing) : playing'[n] = playing[n]
      /\ playing'[Len(playing) + 1] = u
      /\ Len(playing) \in Nat
  <2>1. playing \in Seq(Utterance) BY <1>1
  <2>2. /\ playing \o <<u>> \in Seq(Utterance) /\ Len(playing \o <<u>>) = Len(playing) + 1
        /\ \A n \in 1 .. Len(playing) : (playing \o <<u>>)[n] = playing[n]
        /\ (playing \o <<u>>)[Len(playing) + 1] = u
        /\ Len(playing) \in Nat
    BY <1>2, <2>1, SentenceQueues, Zenon
  <2> QED BY <1>4, <2>2, Zenon
<1>6. \A n \in 1 .. Len(playing') :
        \/ n \in Positions /\ playing'[n] = playing[n] /\ playing[n].sentence \in Nat
        \/ n = Len(playing) + 1 /\ playing'[n] = u
  <2>1. \A n \in Positions : playing[n] \in Utterance BY <1>1 DEF Positions
  <2>2. \A n \in Positions : playing[n].sentence \in Nat BY <2>1 DEF Utterance, Sentences
  <2> SUFFICES ASSUME NEW n \in 1 .. Len(playing')
               PROVE  \/ n \in Positions /\ playing'[n] = playing[n] /\ playing[n].sentence \in Nat
                      \/ n = Len(playing) + 1 /\ playing'[n] = u
    OBVIOUS
  <2>3. n \in Positions \/ n = Len(playing) + 1 BY <1>5 DEF Positions
  <2>4. CASE n \in Positions
    <3>1. n \in 1 .. Len(playing) BY <2>4 DEF Positions
    <3> QED BY <1>5, <2>2, <2>4, <3>1
  <2>5. CASE n = Len(playing) + 1 BY <1>5, <2>5
  <2> QED BY <2>3, <2>4, <2>5
<1>7. u.sentence = spoken + 1 BY DEF u
<1>8. \A n \in 1 .. Len(playing') :
          playing'[n].sentence <= spoken' /\ playing'[n].sentence \notin reports'
  BY SMTT(30), <1>1, <1>6, <1>7
<1>9. \A m, n \in 1 .. Len(playing') : m < n => playing'[m].sentence < playing'[n].sentence
  <2> SUFFICES ASSUME NEW m \in 1 .. Len(playing'), NEW n \in 1 .. Len(playing'), m < n
               PROVE  playing'[m].sentence < playing'[n].sentence
    OBVIOUS
  <2>1. m \in Positions /\ playing'[m] = playing[m] /\ playing[m].sentence \in Nat
    <3>1. m # Len(playing) + 1 BY <1>5
    <3> QED BY <1>6, <3>1
  <2>2. CASE n \in Positions BY <1>1, <1>5, <2>1, <2>2 DEF Positions
  <2>3. CASE n = Len(playing) + 1
    <3>1. playing[m].sentence <= spoken /\ spoken \in Nat BY <1>1, <2>1, Limits
    <3>2. playing'[n].sentence = spoken + 1 BY <1>5, <1>7, <2>3
    <3> QED BY SMTT(30), <2>1, <3>1, <3>2
  <2> QED BY <1>6, <2>2, <2>3
<1> QED BY <1>5, <1>8, <1>9 DEF Playable, Positions, u

(* What speakQueued may leave behind. *)
Spoken ==
    /\ isReady' \in BOOLEAN /\ outran' \in BOOLEAN
    /\ pendingUtterances \subseteq pendingUtterances'
    /\ pendingUtterances' \subseteq 1 .. spoken'
    /\ sinceLast' \in 0 .. Forever /\ expected' \in 0 .. Cap
    /\ spoken' \in 0 .. MaxSentences /\ reports' = reports
    /\ happened' \subseteq Disturbances /\ left' \in 0 .. MaxDisturbances
    /\ Playable' /\ OnTime'
    /\ \A n \in Positions' :
          playing'[n].sentence \in pendingUtterances' \cup {playing[m].sentence : m \in Positions}

LEMMA SpeakOutcome == ASSUME OutputInv, SpeakQueued PROVE Spoken
<1>0. /\ isReady \in BOOLEAN /\ outran \in BOOLEAN
      /\ pendingUtterances \subseteq 1 .. spoken
      /\ sinceLast \in 0 .. Forever /\ expected \in 0 .. Cap
      /\ spoken \in 0 .. MaxSentences
      /\ happened \subseteq Disturbances /\ left \in 0 .. MaxDisturbances
  BY DEF OutputInv, OutputTypeOK, Numbered
<1>1. spoken < MaxSentences /\ spoken' = spoken + 1 /\ reports' = reports BY DEF SpeakQueued
<1>2. Playable /\ OnTime BY DEF OutputInv, OutputTypeOK, Numbered, Tracked, OnTime, Playable, Utterance
<1>3. spoken \in Nat /\ Cap \in Nat /\ Forever \in Nat /\ spoken' \in 0 .. MaxSentences
      /\ left \in Nat /\ MaxDisturbances \in Nat
  BY <1>0, <1>1, Limits DEF Forever
<1>4. pendingUtterances \subseteq 1 .. spoken' /\ spoken' \in 1 .. spoken'
  BY <1>0, <1>1, <1>3
<1>5. ASSUME playing' = playing
      PROVE  /\ Playable'
             /\ \A n \in Positions' : playing'[n].sentence \in {playing[m].sentence : m \in Positions}
  <2>1. \A n \in Positions : playing[n] \in Utterance BY <1>2 DEF Playable, Positions
  <2>2. \A n \in Positions : playing[n].sentence \in Nat BY <2>1 DEF Utterance, Sentences
  <2>3. \A n \in Positions : playing[n].sentence <= spoken + 1
    BY <1>2, <1>3, <2>2 DEF Playable
  <2> QED BY <1>1, <1>2, <1>5, <2>3 DEF Playable, Positions
<1>6. CASE UNCHANGED <<bridge, playing, outran, bounds>>
  <2>1. OnTime' BY <1>2, <1>6 DEF OnTime, bridge
  <2>2. isReady' \in BOOLEAN /\ outran' \in BOOLEAN BY <1>0, <1>6, Zenon DEF bridge
  <2> QED BY <1>0, <1>1, <1>3, <1>4, <1>5, <1>6, <2>1, <2>2 DEF bridge, bounds, Spoken
<1>7. ASSUME NEW d \in Durations, sinceLast' = 0, expected' = Expected(d),
             outran' = (outran \/ playing # <<>> \/ d > Cap),
             \/ \E real \in 1 .. d : Accepted(spoken + 1, real) /\ UNCHANGED bounds
             \/ Disturb("error") /\ Refused
             \/ Disturb("throws") /\ Thrown(spoken + 1)
      PROVE  Spoken
  <2>1. /\ sinceLast' \in 0 .. Forever /\ expected' \in 0 .. Cap /\ d \in Nat
        /\ d <= Cap => expected' = d
    <3>1. d \in Nat BY SpeechAssumption
    <3>2. Expected(d) \in 0 .. Cap /\ (d <= Cap => Expected(d) = d)
      BY <1>3, <3>1 DEF Expected, AtMost
    <3>3. 0 \in 0 .. Forever BY <1>3
    <3> QED BY <1>7, <3>1, <3>2, <3>3, Zenon
  <2>2. outran' \in BOOLEAN BY <1>7, Zenon
  <2>3. happened' \subseteq Disturbances /\ left' \in 0 .. MaxDisturbances
    BY <1>0, <1>3, <1>7 DEF Disturb, bounds
  <2>4. isReady' \in BOOLEAN BY <1>0, <1>7, Zenon DEF Accepted, Refused, Thrown
  <2>5. pendingUtterances \subseteq pendingUtterances' /\ pendingUtterances' \subseteq 1 .. spoken'
    BY <1>1, <1>4, <1>7 DEF Accepted, Refused, Thrown
  <2>6. CASE playing' = playing
    <3>1. OnTime' BY <1>7, <2>6 DEF OnTime
    <3> QED BY <1>1, <1>3, <1>5, <2>1, <2>2, <2>3, <2>4, <2>5, <2>6, <3>1 DEF Spoken
  <2>7. ASSUME NEW real \in 1 .. d, Accepted(spoken + 1, real) PROVE Spoken
    <3>0. real \in 1 .. Longest BY <2>1, LongestBounds
    <3>1. /\ Playable' /\ Len(playing') = Len(playing) + 1
          /\ \A n \in Positions : playing'[n] = playing[n]
          /\ playing'[Len(playing) + 1] = [sentence |-> spoken + 1, left |-> real]
      BY <2>7, <3>0, QueueGrows DEF Accepted
    <3>2. Len(playing) \in Nat BY <1>2 DEF Playable
    <3>3. OnTime'
      <4> SUFFICES ASSUME ~outran' PROVE Len(playing') = 1 /\ sinceLast' + playing'[1].left <= expected'
        BY DEF OnTime
      <4>0. playing = <<>> /\ ~(d > Cap) BY <1>7, Zenon
      <4>1. playing = <<>> /\ d <= Cap BY <1>3, <2>1, <4>0
      <4>2. Len(playing) = 0 BY <4>1
      <4> QED BY <1>7, <2>1, <3>1, <4>1, <4>2
    <3>4. ASSUME NEW n \in Positions'
          PROVE  playing'[n].sentence \in pendingUtterances' \cup {playing[m].sentence : m \in Positions}
      <4>1. n \in Positions \/ n = Len(playing) + 1 BY <3>1, <3>2 DEF Positions
      <4>2. CASE n \in Positions BY <3>1, <4>2
      <4>3. CASE n = Len(playing) + 1
        <5>1. playing'[n].sentence = spoken + 1 BY <3>1, <4>3
        <5> QED BY <2>7, <5>1 DEF Accepted
      <4> QED BY <4>1, <4>2, <4>3
    <3> QED BY <1>1, <1>3, <2>1, <2>2, <2>3, <2>4, <2>5, <3>1, <3>3, <3>4 DEF Spoken
  <2> QED BY <1>7, <2>6, <2>7 DEF Refused, Thrown
<1> QED BY <1>6, <1>7 DEF SpeakQueued

-----------------------------------------------------------------------------
(* How a job of any name may end. *)
LEMMA JobEnds ==
    ASSUME OutputInv, NEW how \in Ends \ {"no"}, EndJob(how),
           pendingUtterances' = {} \/ pendingUtterances' = pendingUtterances,
           how = "reported" => job = "waiting" /\ pendingUtterances = {}
    PROVE  OutputInv'
<1>1. OutputTypeOK'
  <2>1. pendingUtterances' \subseteq Sentences /\ reports' \subseteq pendingUtterances'
    BY DEF OutputInv, OutputTypeOK, EndJob
  <2> QED BY <2>1 DEF OutputInv, OutputTypeOK, EndJob, response, bounds
<1>2. Numbered'
  <2>1. pendingUtterances' \subseteq pendingUtterances OBVIOUS
  <2> QED BY <2>1 DEF OutputInv, Numbered, EndJob, Positions, response
<1>3. Tracked' BY DEF OutputInv, Tracked, EndJob, Positions
<1>4. Stopped' BY DEF Stopped, EndJob
<1>5. OnTime' BY DEF OutputInv, OnTime, EndJob, response
<1>6. ReportedMeansSilent'
  <2> SUFFICES ASSUME how = "reported", playing # <<>> PROVE FALSE
    BY DEF ReportedMeansSilent, EndJob
  <2>1. 1 \in Positions
    <3>1. playing \in Seq(Utterance) BY DEF OutputInv, OutputTypeOK, Utterance
    <3> QED BY <3>1, HeadIsOver
  <2>2. playing[1].sentence \in pendingUtterances BY <2>1 DEF OutputInv, Tracked
  <2> QED BY <2>2
<1> QED BY <1>1, <1>2, <1>3, <1>4, <1>5, <1>6 DEF OutputInv

(* The two jobs that speak: a cancelled one ends with it. *)
Speaks ==
    /\ \/ job = "talking" /\ job' = "talking"
       \/ job = "cancelled" /\ job' = "none"
    /\ waited' = waited /\ ended' = ended

(* Speaking preserves what holds of the queue, whichever job speaks. *)
LEMMA SpeakingPreserves ==
    ASSUME OutputInv, SpeakQueued, Speaks
    PROVE  OutputInv'
<1>0. /\ \/ job = "talking" /\ job' = "talking"
         \/ job = "cancelled" /\ job' = "none"
      /\ waited' = waited /\ ended' = ended
  BY DEF Speaks
<1>1. Spoken BY SpeakOutcome
<1>2. OutputTypeOK'
  <2>1. /\ isReady' \in BOOLEAN /\ outran' \in BOOLEAN
        /\ sinceLast' \in 0 .. Forever /\ expected' \in 0 .. Cap
        /\ spoken' \in 0 .. MaxSentences
        /\ happened' \subseteq Disturbances /\ left' \in 0 .. MaxDisturbances
    BY <1>1 DEF Spoken
  <2>2. pendingUtterances' \subseteq Sentences
    BY <1>1, Limits DEF Spoken, Sentences
  <2>3. reports' \subseteq pendingUtterances' BY <1>1 DEF Spoken, OutputInv, OutputTypeOK
  <2>4. playing' \in Seq([sentence : Sentences, left : 1 .. Longest])
    BY <1>1 DEF Spoken, Playable, Utterance
  <2>5. /\ job' \in {"talking", "none"} /\ waited' \in 0 .. Timeout /\ ended' \in Ends
    BY <1>0 DEF OutputInv, OutputTypeOK
  <2> QED BY <2>1, <2>2, <2>3, <2>4, <2>5 DEF OutputTypeOK
<1>3. Numbered' BY <1>1 DEF Spoken, Numbered, Playable, Positions
<1>4. Tracked'
  <2> SUFFICES ASSUME NEW n \in Positions'
               PROVE  /\ playing'[n].sentence \notin reports'
                      /\ job' = "talking" => playing'[n].sentence \in pendingUtterances'
    BY <1>0 DEF Tracked, Positions
  <2>1. playing'[n].sentence \notin reports' BY <1>1 DEF Spoken, Playable, Positions
  <2>2. ASSUME job' = "talking" PROVE playing'[n].sentence \in pendingUtterances'
    <3>1. \A k \in Positions : playing[k].sentence \in pendingUtterances'
      BY <1>0, <1>1, <2>2 DEF Spoken, OutputInv, Tracked
    <3> QED BY <1>1, <3>1 DEF Spoken
  <2> QED BY <2>1, <2>2
<1>5. Stopped' /\ ReportedMeansSilent'
  BY <1>0 DEF OutputInv, Stopped, ReportedMeansSilent
<1> QED BY <1>1, <1>2, <1>3, <1>4, <1>5 DEF OutputInv, Spoken

LEMMA TickPreserves == ASSUME OutputInv, Tick PROVE OutputInv'
<1>0. /\ OutputTypeOK /\ Numbered /\ Tracked /\ Stopped /\ OnTime /\ ReportedMeansSilent
      /\ UNCHANGED <<isReady, pendingUtterances, expected, job, spoken, outran, ended>>
  BY DEF OutputInv, Tick, response
<1>1. Forever \in Nat /\ Timeout \in Nat /\ MaxDisturbances \in Nat /\ Cap \in Nat /\ Cap < Forever
  BY Limits DEF Forever
<1>2. sinceLast' \in 0 .. Forever /\ sinceLast' <= sinceLast + 1 /\ sinceLast \in Nat
  BY SMTT(30), <1>0, <1>1 DEF Tick, OutputTypeOK, AtMost
<1>3. waited' \in 0 .. Timeout
  <2>1. waited \in 0 .. Timeout BY <1>0 DEF OutputTypeOK
  <2>2. waited' = (IF job = "waiting" THEN AtMost(Timeout, waited + 1) ELSE waited) BY DEF Tick
  <2> QED BY <1>1, <2>1, <2>2 DEF AtMost
<1>4. playing \in Seq(Utterance) BY <1>0 DEF OutputTypeOK, Utterance
<1>5. ASSUME playing' \in Seq(Utterance), reports' \subseteq pendingUtterances,
             happened' \subseteq Disturbances, left' \in 0 .. MaxDisturbances
      PROVE  OutputTypeOK'
  BY <1>0, <1>2, <1>3, <1>5 DEF OutputTypeOK, Utterance
<1>6. happened' \subseteq Disturbances /\ left' \in 0 .. MaxDisturbances
  <2>1. happened \subseteq Disturbances /\ left \in 0 .. MaxDisturbances BY <1>0 DEF OutputTypeOK
  <2>2. UNCHANGED bounds \/ Disturb("lost") BY DEF Tick
  <2> QED BY <1>1, <2>1, <2>2 DEF Disturb, bounds
<1>7. CASE playing = <<>>
  <2>1. UNCHANGED <<playing, reports>> BY <1>7 DEF Tick, engine
  <2>2. OutputTypeOK' BY <1>0, <1>4, <1>5, <1>6, <2>1 DEF OutputTypeOK
  <2> QED BY <1>0, <1>7, <2>1, <2>2
          DEF OutputInv, Numbered, Tracked, Stopped, OnTime, ReportedMeansSilent, Positions
<1>8. CASE playing # <<>> /\ Head(playing).left > 1
  <2>1. playing' = [playing EXCEPT ![1].left = @ - 1] /\ reports' = reports
    BY <1>8 DEF Tick
  <2>2. /\ playing' \in Seq(Utterance) /\ Len(playing') = Len(playing)
        /\ \A n \in Positions : playing'[n].sentence = playing[n].sentence
        /\ playing'[1].left = playing[1].left - 1
    BY <1>4, <1>8, <2>1, HeadPlays
  <2>3. OutputTypeOK' BY <1>0, <1>5, <1>6, <2>1, <2>2 DEF OutputTypeOK
  <2>4. Numbered' BY <1>0, <2>2 DEF Numbered, Positions
  <2>5. Tracked' BY <1>0, <2>1, <2>2 DEF Tracked, Positions
  <2>6. Stopped' /\ ReportedMeansSilent' BY <1>0, <1>8 DEF Stopped, ReportedMeansSilent
  <2>7. OnTime'
    <3>1. playing[1].left \in Nat
      <4>1. playing[1] \in Utterance BY <1>4, <1>8
      <4> QED BY <4>1, LongestBounds DEF Utterance
    <3>2. expected \in Nat BY <1>0, <1>1 DEF OutputTypeOK
    <3> SUFFICES ASSUME ~outran PROVE Len(playing') = 1 /\ sinceLast' + playing'[1].left <= expected
      BY <1>0 DEF OnTime
    <3>3. Len(playing) = 1 /\ sinceLast + playing[1].left <= expected
      BY <1>0, <1>8 DEF OnTime
    <3> QED BY SMTT(30), <1>2, <2>2, <3>1, <3>2, <3>3
  <2> QED BY <2>3, <2>4, <2>5, <2>6, <2>7 DEF OutputInv
<1>9. CASE playing # <<>> /\ ~(Head(playing).left > 1)
  <2>1. /\ playing' = Tail(playing)
        /\ \/ reports' = reports \cup ({Head(playing).sentence} \cap pendingUtterances)
           \/ reports' = reports
    BY <1>9 DEF Tick
  <2>2. /\ playing' \in Seq(Utterance) /\ Len(playing') = Len(playing) - 1
        /\ \A n \in 1 .. Len(playing') : playing'[n] = playing[n + 1]
        /\ Head(playing) = playing[1] /\ 1 \in Positions /\ Len(playing) \in Nat
    BY <1>4, <1>9, <2>1, HeadIsOver
  <2>3. \A n \in Positions' : n + 1 \in Positions /\ 1 < n + 1 /\ playing'[n] = playing[n + 1]
    BY <2>2 DEF Positions
  <2>4. OutputTypeOK' BY <1>0, <1>5, <1>6, <2>1, <2>2 DEF OutputTypeOK
  <2>5. \A n \in Positions : playing[n].sentence \in Nat
    <3>1. \A n \in Positions : playing[n] \in Utterance BY <1>4 DEF Positions
    <3> QED BY <3>1 DEF Utterance, Sentences
  <2>6. Numbered'
    <3>1. pendingUtterances' \subseteq 1 .. spoken' BY <1>0 DEF Numbered
    <3>2. \A n \in Positions' : playing'[n].sentence <= spoken' BY <1>0, <2>3 DEF Numbered
    <3>3. ASSUME NEW m \in Positions', NEW n \in Positions', m < n
          PROVE  playing'[m].sentence < playing'[n].sentence
      <4>1. m + 1 < n + 1 BY <2>2, <3>3 DEF Positions
      <4> QED BY <1>0, <2>3, <4>1 DEF Numbered
    <3> QED BY <3>1, <3>2, <3>3 DEF Numbered
  <2>7. Tracked'
    <3> SUFFICES ASSUME NEW n \in Positions'
                 PROVE  /\ playing'[n].sentence \notin reports'
                        /\ job \in {"talking", "waiting"} => playing'[n].sentence \in pendingUtterances
      BY <1>0 DEF Tracked
    <3>1. playing[1].sentence < playing[n + 1].sentence BY <1>0, <2>2, <2>3 DEF Numbered
    <3>2. playing[n + 1].sentence # playing[1].sentence BY <2>2, <2>3, <2>5, <3>1
    <3> QED BY <1>0, <2>1, <2>2, <2>3, <3>2 DEF Tracked
  <2>8. Stopped' /\ ReportedMeansSilent' BY <1>0, <1>9 DEF Stopped, ReportedMeansSilent
  <2>9. OnTime'
    <3> SUFFICES ASSUME playing' # <<>>, ~outran PROVE FALSE BY <1>0 DEF OnTime
    <3>1. Len(playing) = 1 BY <1>0, <1>9 DEF OnTime
    <3> QED BY <2>2, <3>1
  <2> QED BY <2>4, <2>6, <2>7, <2>8, <2>9 DEF OutputInv
<1> QED BY <1>7, <1>8, <1>9

LEMMA OutputStep == ASSUME OutputInv, [OutputNext]_outputVars PROVE OutputInv'
<1>0. /\ OutputTypeOK /\ Numbered /\ Tracked /\ Stopped /\ OnTime /\ ReportedMeansSilent
  BY DEF OutputInv
<1>1. CASE Tick BY <1>1, TickPreserves
<1>2. CASE Callback
  <2> PICK s \in reports : /\ reports' = reports \ {s}
                           /\ pendingUtterances' = pendingUtterances \ {s}
    BY <1>2 DEF Callback
  <2>1. UNCHANGED <<isReady, sinceLast, expected, playing, job, waited, spoken, outran, ended, happened, left>>
    BY <1>2 DEF Callback, response, bounds
  <2>2. OutputTypeOK' BY <1>0, <2>1 DEF OutputTypeOK
  <2>3. Numbered' BY <1>0, <2>1 DEF Numbered, Positions
  <2>4. Tracked' BY <1>0, <2>1 DEF Tracked, Positions
  <2>5. Stopped' /\ OnTime' /\ ReportedMeansSilent'
    BY <1>0, <2>1 DEF Stopped, OnTime, ReportedMeansSilent
  <2> QED BY <2>2, <2>3, <2>4, <2>5 DEF OutputInv
<1>3. CASE StartStreamingTTS
  <2>1. /\ playing' = <<>> /\ pendingUtterances' = {} /\ reports' = {} /\ job' = "talking"
        /\ ended' = "no" /\ spoken' = 0 /\ outran' = FALSE /\ isReady' = TRUE
        /\ UNCHANGED <<sinceLast, expected, waited, happened, left>>
    BY <1>3 DEF StartStreamingTTS, StopTts, bounds
  <2>2. OutputTypeOK'
    <3>1. isReady' \in BOOLEAN /\ outran' \in BOOLEAN BY <2>1, Zenon
    <3>2. /\ pendingUtterances' \subseteq Sentences /\ reports' \subseteq pendingUtterances'
          /\ playing' \in Seq([sentence : Sentences, left : 1 .. Longest])
          /\ ended' \in Ends /\ spoken' \in 0 .. MaxSentences
      BY <2>1, Limits DEF Ends
    <3>3. /\ sinceLast' \in 0 .. Forever /\ expected' \in 0 .. Cap /\ waited' \in 0 .. Timeout
          /\ happened' \subseteq Disturbances /\ left' \in 0 .. MaxDisturbances
      BY <1>0, <2>1 DEF OutputTypeOK
    <3> QED BY <2>1, <3>1, <3>2, <3>3 DEF OutputTypeOK
  <2>3. Numbered' /\ Tracked' BY <2>1 DEF Numbered, Tracked, Positions
  <2>4. Stopped' /\ OnTime' /\ ReportedMeansSilent' BY <2>1 DEF Stopped, OnTime, ReportedMeansSilent
  <2> QED BY <2>2, <2>3, <2>4 DEF OutputInv
<1>4. CASE Talk
  <2>1. SpeakQueued BY <1>4 DEF Talk
  <2>2. Speaks BY <1>4 DEF Talk, Speaks
  <2> QED BY <2>1, <2>2, SpeakingPreserves, Zenon
<1>5. CASE AnswerComplete
  <2>1. /\ UNCHANGED <<isReady, pendingUtterances, sinceLast, expected, playing, reports,
                       spoken, outran, happened, left>>
        /\ job = "talking"
        /\ \/ isReady /\ job' = "waiting" /\ waited' = 0 /\ ended' = ended
           \/ job' = "none" /\ ended' = "unready" /\ waited' = waited
    BY <1>5 DEF AnswerComplete, bridge, engine, response, bounds
  <2>2. OutputTypeOK' BY <1>0, <2>1, Limits DEF OutputTypeOK, Ends
  <2>3. Numbered' /\ OnTime' BY <1>0, <2>1 DEF Numbered, OnTime, Positions
  <2>4. Tracked' BY <1>0, <2>1 DEF Tracked, Positions
  <2>5. Stopped' /\ ReportedMeansSilent' BY <1>0, <2>1 DEF Stopped, ReportedMeansSilent
  <2> QED BY <2>2, <2>3, <2>4, <2>5 DEF OutputInv
<1>6. CASE AllReported BY <1>6, JobEnds DEF AllReported, Ends
<1>7. CASE GivenUp BY <1>7, JobEnds DEF GivenUp, Ends
<1>8. CASE TimedOut BY <1>8, JobEnds DEF TimedOut, Ends
<1>9. CASE StopTTS
  <2>1. /\ playing' = <<>> /\ pendingUtterances' = {} /\ reports' = {}
        /\ UNCHANGED <<isReady, sinceLast, expected, waited, spoken, outran>>
        /\ happened' \subseteq Disturbances /\ left' \in 0 .. MaxDisturbances
        /\ \/ job = "talking" /\ job' = "cancelled" /\ ended' = "stopped"
           \/ job = "waiting" /\ job' = "none" /\ ended' = "stopped"
           \/ job = "none" /\ job' = "none" /\ ended' = ended
           \/ job = "cancelled" /\ job' = "cancelled" /\ ended' = "stopped"
    <3>1. happened' \subseteq Disturbances /\ left' \in 0 .. MaxDisturbances
      BY <1>0, <1>9, Limits DEF StopTTS, Disturb, OutputTypeOK
    <3> QED BY <1>0, <1>9, <3>1 DEF StopTTS, StopTts, response, OutputTypeOK
  <2>2. OutputTypeOK' BY <1>0, <2>1 DEF OutputTypeOK, Ends
  <2>3. Numbered' /\ Tracked' BY <2>1 DEF Numbered, Tracked, Positions
  <2>4. Stopped' /\ OnTime' /\ ReportedMeansSilent'
    BY <2>1 DEF Stopped, OnTime, ReportedMeansSilent
  <2> QED BY <2>2, <2>3, <2>4 DEF OutputInv
<1>10. CASE CancelledJobEnds
  <2>1. CASE SpeakQueued
    <3>1. Speaks BY <1>10 DEF CancelledJobEnds, Speaks
    <3> QED BY <2>1, <3>1, SpeakingPreserves, Zenon
  <2>2. CASE UNCHANGED <<bridge, engine, response, bounds>>
    <3>1. /\ job' = "none"
          /\ UNCHANGED <<isReady, pendingUtterances, sinceLast, expected, playing, reports,
                         waited, spoken, outran, ended, happened, left>>
      BY <1>10, <2>2 DEF CancelledJobEnds, bridge, engine, response, bounds
    <3> QED BY <1>0, <3>1 DEF OutputInv, OutputTypeOK, Numbered, Tracked, Stopped, OnTime,
                              ReportedMeansSilent, Positions
  <2> QED BY <1>10, <2>1, <2>2 DEF CancelledJobEnds
<1>11. CASE UNCHANGED outputVars
  BY <1>0, <1>11 DEF OutputInv, OutputTypeOK, Numbered, Tracked, Stopped, OnTime, ReportedMeansSilent,
                     Positions, outputVars, bridge, engine, response, bounds
<1> QED BY <1>1, <1>2, <1>3, <1>4, <1>5, <1>6, <1>7, <1>8, <1>9, <1>10, <1>11 DEF OutputNext, WaitEnds

LEMMA OutputInvInit == OutputInit => OutputInv
<1> SUFFICES ASSUME OutputInit PROVE OutputInv OBVIOUS
<1>1. isReady \in BOOLEAN /\ outran \in BOOLEAN BY Zenon DEF OutputInit
<1>2. OutputTypeOK
  <2>1. /\ sinceLast \in 0 .. Forever /\ expected \in 0 .. Cap /\ waited \in 0 .. Timeout
        /\ spoken \in 0 .. MaxSentences /\ left \in 0 .. MaxDisturbances
    BY Limits DEF OutputInit, Forever
  <2> QED BY <1>1, <2>1 DEF OutputInit, OutputTypeOK, Ends
<1>3. Numbered /\ Tracked BY DEF OutputInit, Numbered, Tracked, Positions
<1>4. Stopped /\ OnTime /\ ReportedMeansSilent BY DEF OutputInit, Stopped, OnTime, ReportedMeansSilent
<1> QED BY <1>2, <1>3, <1>4 DEF OutputInv

(* The strengthening of the invariants holds while KokoroTTSBridge speaks  *)
(* the sentences of any number of answers.                                 *)
THEOREM OutputInvariant == OutputSpec => []OutputInv
BY OutputInvInit, OutputStep, PTL DEF OutputSpec

(* Every variable is of its type: callbacks under way are of utterances    *)
(* KokoroTTSBridge still tracks, and waitForCompletion is called only on   *)
(* an engine that works.                                                   *)
THEOREM OutputTyped == OutputSpec => []OutputTypeOK
<1>1. OutputInv => OutputTypeOK BY DEF OutputInv
<1> QED BY <1>1, OutputInvariant, PTL

(* When waitForCompletion finds nothing pending, the engine plays nothing, *)
(* however late the callbacks of UtteranceProgressListener are and         *)
(* whichever of them are lost.                                             *)
THEOREM ReportedIsSilent == OutputSpec => []ReportedMeansSilent
<1>1. OutputInv => ReportedMeansSilent BY DEF OutputInv
<1> QED BY <1>1, OutputInvariant, PTL

(* While a single sentence plays that is no longer than the longest        *)
(* duration speakQueued expects, isSpeaking is true without the system's   *)
(* own answer, whatever was given up, lost, refused or stopped.            *)
THEOREM PlayingNoticed == OutputSpec => []PlayingIsNoticed
<1>1. ASSUME OutputInv, playing # <<>>, ~outran PROVE sinceLast < expected + Echo
  <2>1. /\ sinceLast \in Nat /\ expected \in Nat /\ Echo \in Nat
        /\ playing \in Seq(Utterance)
        /\ Len(playing) = 1 /\ sinceLast + playing[1].left <= expected
    BY <1>1, Limits DEF OutputInv, OutputTypeOK, OnTime, Utterance, Forever
  <2>2. playing[1] \in Utterance BY <1>1, <2>1
  <2>3. playing[1].left \in Nat /\ playing[1].left >= 1 BY <2>2, LongestBounds DEF Utterance
  <2> QED BY <2>1, <2>3
<1>2. OutputInv => PlayingIsNoticed BY <1>1 DEF PlayingIsNoticed, SpeakingByBridge
<1> QED BY <1>2, OutputInvariant, PTL
-----------------------------------------------------------------------------
(* SpeechSegments *)

HIDE SpeechAssumption
USE SegmentAssumption DEF VADState, Senders, Listening, UpTo

(* What a frame does to the VAD, one line per arrow of the automaton.      *)
LEMMA HeardArrows ==
    ASSUME SegmentsTypeOK, NEW speech \in BOOLEAN, NEW dt \in Nat
    PROVE  LET next == Heard(speech, dt) IN
           /\ next.state \in VADState
           /\ next.speechAge \in 0 .. Horizon /\ next.silenceAge \in 0 .. MinSilence
           /\ next.state = "SPEECH_START" => speech /\ vadState \in {"SILENCE", "SPEECH_START"}
           /\ next.state = "SPEECH" =>
                 \/ speech /\ vadState \in {"SPEECH_START", "SPEECH"} /\ next.silenceAge = 0
                 \/ ~speech /\ vadState = "SPEECH" /\ next.silenceAge = UpTo(MinSilence, Silence(dt))
           /\ next.state = "SPEECH_END" => ~speech /\ vadState = "SPEECH" /\ Silence(dt) > MinSilence
           /\ next.state = "SILENCE" =>
                 \/ ~speech /\ vadState \in {"SILENCE", "SPEECH_START"}
                 \/ vadState = "SPEECH_END"
<1> USE DEF SegmentsTypeOK, Heard, Vad, Resumed, Silence
<1>1. CASE vadState = "SILENCE" BY <1>1
<1>2. CASE vadState = "SPEECH_START" BY <1>2
<1>3. CASE vadState = "SPEECH" BY <1>3
<1>4. CASE vadState = "SPEECH_END" BY <1>4
<1> QED BY <1>1, <1>2, <1>3, <1>4

LEMMA SegmentInvInit == SegmentsInit => SegmentInv
<1> SUFFICES ASSUME SegmentsInit PROVE SegmentInv OBVIOUS
<1>1. isCollectingSpeech \in BOOLEAN /\ isProcessingSTT \in BOOLEAN /\ cutShort \in BOOLEAN
  BY Zenon DEF SegmentsInit
<1>2. sent \in [by : Senders, voiced : 0 .. MinSegment, quiet : 0 .. MinSilence] BY DEF SegmentsInit
<1>3. NoiseIsDropped /\ EndsWithSilence BY DEF SegmentsInit, NoiseIsDropped, EndsWithSilence
<1> QED BY <1>1, <1>2, <1>3 DEF SegmentsInit, SegmentInv, SegmentsTypeOK, Clocks, SpeechIsCollected

(* What ForceEnd leaves of a collection: all of it, if it is old enough, or *)
(* nothing.                                                                *)
LEMMA ForceEndOutcome ==
    ASSUME SegmentsTypeOK, Listening, isCollectingSpeech, NEW by,
           NEW age \in 0 .. Horizon, NEW silent \in 0 .. Trailing, ForceEnd(by, age, silent)
    PROVE  /\ isProcessingSTT' \in BOOLEAN /\ isCollectingSpeech' \in BOOLEAN
           /\ currentState' \in {"LISTENING", "SPEECH_DETECTED", "TRANSCRIBING"}
           /\ segmentAge' \in {0, age} /\ consecutiveSilenceFrames' \in {0, silent}
           /\ isCollectingSpeech' <=> age >= MinSegment
           /\ isCollectingSpeech' \/ consecutiveSilenceFrames' = 0
           /\ \/ sent' = sent
              \/ age >= MinSegment /\ sent' = [by |-> by, voiced |-> voiced', quiet |-> quiet']
<1> USE DEF SegmentsTypeOK
<1>1. CASE age >= MinSegment
  <2>1. /\ ProcessSegment(by) /\ isCollectingSpeech' = isCollectingSpeech /\ segmentAge' = age
        /\ consecutiveSilenceFrames' = IF isProcessingSTT THEN silent ELSE 0
        /\ currentState' = IF isProcessingSTT THEN currentState ELSE "TRANSCRIBING"
    <3>1. ~(age < MinSegment) BY <1>1
    <3> QED BY <3>1, Zenon DEF ForceEnd
  <2>2. isProcessingSTT' \in BOOLEAN /\ isCollectingSpeech' \in BOOLEAN
    BY <2>1, Zenon DEF ProcessSegment
  <2>3. isCollectingSpeech' BY <2>1, Zenon
  <2>4. sent' = sent \/ sent' = [by |-> by, voiced |-> voiced', quiet |-> quiet']
    BY <2>1 DEF ProcessSegment
  <2> QED BY <1>1, <2>1, <2>2, <2>3, <2>4
<1>2. CASE ~(age >= MinSegment)
  <2>1. /\ DropSegment /\ currentState' = "LISTENING" /\ UNCHANGED <<isProcessingSTT, sent>>
    BY <1>2 DEF ForceEnd
  <2>2. ~isCollectingSpeech' BY <2>1, Zenon DEF DropSegment
  <2>3. isProcessingSTT' \in BOOLEAN /\ isCollectingSpeech' \in BOOLEAN
    BY <2>1, Zenon DEF DropSegment
  <2> QED BY <1>2, <2>1, <2>2, <2>3 DEF DropSegment
<1> QED BY <1>1, <1>2

(* The record of a segment that is sent, if it is sent. *)
LEMMA SentRecord ==
    ASSUME SegmentInv, NEW by \in Senders,
           voiced' \in 0 .. MinSegment, quiet' \in 0 .. MinSilence,
           sent' = sent \/ sent' = [by |-> by, voiced |-> voiced', quiet |-> quiet'],
           by \in {"end", "forced"} => voiced' >= 2 \/ sent' = sent,
           by = "end" => quiet' >= MinSilence - MaxLag
    PROVE  /\ sent' \in [by : Senders, voiced : 0 .. MinSegment, quiet : 0 .. MinSilence]
           /\ NoiseIsDropped' /\ EndsWithSilence'
BY DEF SegmentInv, SegmentsTypeOK, NoiseIsDropped, EndsWithSilence

(* A frame keeps the invariant. *)
LEMMA FrameStep == ASSUME SegmentInv, NEW speech \in BOOLEAN, Frame(speech) PROVE SegmentInv'
<1> USE DEF SegmentInv, SegmentsTypeOK, Clocks, SpeechIsCollected, NoiseIsDropped, EndsWithSilence
<1> PICK late \in {l \in 0 .. MaxLag : l + 1 >= lag} :
      LET dt == 1 + late - lag
          next == Heard(speech, dt)
      IN  /\ lag' = late
          /\ AfterFrame(next)
          /\ \/ next.state = "SPEECH_START" /\ OnSpeechStart(dt)
             \/ next.state = "SPEECH" /\ OnSpeech(speech, dt)
             \/ next.state = "SPEECH_END" /\ OnSpeechEnd(dt)
             \/ next.state = "SILENCE" /\ OnSilence(speech, dt)
  BY DEF Frame
<1> DEFINE dt == 1 + late - lag
           next == Heard(speech, dt)
<1>dt. dt \in Nat OBVIOUS
<1>arrows. /\ next.state \in VADState
           /\ next.speechAge \in 0 .. Horizon /\ next.silenceAge \in 0 .. MinSilence
           /\ next.state = "SPEECH_START" => speech /\ vadState \in {"SILENCE", "SPEECH_START"}
           /\ next.state = "SPEECH" =>
                 \/ speech /\ vadState \in {"SPEECH_START", "SPEECH"} /\ next.silenceAge = 0
                 \/ ~speech /\ vadState = "SPEECH" /\ next.silenceAge = UpTo(MinSilence, Silence(dt))
           /\ next.state = "SPEECH_END" => ~speech /\ vadState = "SPEECH" /\ Silence(dt) > MinSilence
           /\ next.state = "SILENCE" =>
                 \/ ~speech /\ vadState \in {"SILENCE", "SPEECH_START"}
                 \/ vadState = "SPEECH_END"
  BY <1>dt, HeardArrows
<1>quiet. quiet' = IF speech THEN 0 ELSE UpTo(MinSilence, quiet + 1) BY DEF Frame
<1>cut. cutShort' = (cutShort /\ vadState' \in {"SPEECH_START", "SPEECH"}) BY DEF Frame
<1>bool. cutShort' \in BOOLEAN BY <1>cut, Zenon
<1>old. Listening BY DEF Frame
<1> DEFINE f == dt
<1>age. /\ f \in Nat /\ f = 1 + lag' - lag /\ lag' \in 0 .. MaxLag
  OBVIOUS
<1>after. AfterFrame(next) OBVIOUS
<1>which. \/ next.state = "SPEECH_START" /\ OnSpeechStart(f)
          \/ next.state = "SPEECH" /\ OnSpeech(speech, f)
          \/ next.state = "SPEECH_END" /\ OnSpeechEnd(f)
          \/ next.state = "SILENCE" /\ OnSilence(speech, f)
  OBVIOUS
<1> HIDE DEF f, dt, next
<1>f. f = dt BY DEF f
<1>1. CASE next.state = "SPEECH_START"
  <2>1. OnSpeechStart(f) BY <1>1, <1>which
  <2>2. vadState' = "SPEECH_START" /\ speechAge' \in 0 .. Horizon /\ silenceAge' \in 0 .. MinSilence
    BY <1>1, <1>after, <1>arrows DEF AfterFrame, VadBecomes
  <2> QED BY <1>1, <1>arrows, <1>quiet, <1>cut, <1>age, <2>1, <2>2 DEF OnSpeechStart, Age
<1>2. CASE next.state = "SPEECH"
  <2>1. OnSpeech(speech, f) BY <1>2, <1>which
  <2>2. vadState' = "SPEECH" /\ speechAge' \in 0 .. Horizon /\ silenceAge' \in 0 .. MinSilence
        /\ silenceAge' = next.silenceAge
    BY <1>2, <1>after, <1>arrows DEF AfterFrame, VadBecomes
  <2>3. quiet' = MinSilence \/ silenceAge' <= quiet' + lag'
    BY <1>2, <1>arrows, <1>quiet, <1>age, <1>f, <2>2 DEF Silence
  <2>4. CASE ~isCollectingSpeech
    BY <1>2, <1>arrows, <1>quiet, <1>cut, <1>age, <2>1, <2>2, <2>3, <2>4 DEF OnSpeech, segment
  <2>5. CASE isCollectingSpeech
    <3>1. voiced' \in 2 .. MinSegment BY <1>2, <1>arrows, <2>1, <2>5 DEF OnSpeech
    <3>2. Age(f) \in 0 .. Horizon BY <1>age DEF Age
    <3>3. CASE Age(f) > MaxSegment /\ ForceEnd("forced", Age(f), 0)
      <4>1. Age(f) >= MinSegment BY <3>2, <3>3
      <4>2. quiet' \in 0 .. MinSilence BY <1>quiet
      <4>3. /\ isProcessingSTT' \in BOOLEAN /\ isCollectingSpeech' \in BOOLEAN
            /\ currentState' \in {"LISTENING", "SPEECH_DETECTED", "TRANSCRIBING"}
            /\ segmentAge' \in {0, Age(f)} /\ consecutiveSilenceFrames' = 0
            /\ isCollectingSpeech'
            /\ sent' = sent \/ sent' = [by |-> "forced", voiced |-> voiced', quiet |-> quiet']
        BY <1>old, <2>5, <3>2, <3>3, <4>1, ForceEndOutcome
      <4>4. /\ sent' \in [by : Senders, voiced : 0 .. MinSegment, quiet : 0 .. MinSilence]
            /\ NoiseIsDropped' /\ EndsWithSilence'
        BY <3>1, <4>2, <4>3, SentRecord
      <4> HIDE DEF NoiseIsDropped, EndsWithSilence
      <4> QED
        BY <1>bool, <1>age, <2>2, <2>3, <3>1, <3>2, <4>2, <4>3, <4>4
    <3>4. CASE /\ Age(f) <= MaxSegment
               /\ segmentAge' = Age(f)
               /\ consecutiveSilenceFrames' = 0
               /\ UNCHANGED <<currentState, isCollectingSpeech, isProcessingSTT, sent>>
      BY <1>2, <1>arrows, <1>quiet, <1>cut, <1>age, <2>2, <2>3, <2>5, <3>1, <3>2, <3>4
    <3> QED BY <2>1, <2>5, <3>3, <3>4 DEF OnSpeech
  <2> QED BY <2>4, <2>5
<1>3. CASE next.state = "SPEECH_END"
  <2>1. OnSpeechEnd(f) BY <1>3, <1>which
  <2>2. vadState' \in {"SILENCE", "SPEECH_END"} /\ speechAge' \in 0 .. Horizon
        /\ silenceAge' \in 0 .. MinSilence
    BY <1>3, <1>after, <1>arrows DEF AfterFrame, VadBecomes, VadReset, Vad
  <2>3. quiet' >= MinSilence - MaxLag /\ quiet' \in 0 .. MinSilence
    BY <1>3, <1>arrows, <1>quiet, <1>age, <1>f DEF Silence
  <2>4. CASE ~isCollectingSpeech
    BY <1>3, <1>arrows, <1>cut, <1>age, <2>1, <2>2, <2>3, <2>4 DEF OnSpeechEnd, segment
  <2>5. CASE isCollectingSpeech
    <3>1. voiced' = voiced /\ voiced >= 2 BY <1>3, <1>arrows, <2>1, <2>5 DEF OnSpeechEnd
    <3>2. /\ isProcessingSTT' \in BOOLEAN
          /\ sent' = sent \/ sent' = [by |-> "end", voiced |-> voiced', quiet |-> quiet']
      BY <2>1, <2>5 DEF OnSpeechEnd, ProcessSegment
    <3>3. DropSegment /\ currentState' = "LISTENING" BY <2>1, <2>5 DEF OnSpeechEnd
    <3>5. isCollectingSpeech' \in BOOLEAN /\ ~isCollectingSpeech' BY <3>3, Zenon DEF DropSegment
    <3>6. segmentAge' = 0 /\ consecutiveSilenceFrames' = 0 BY <3>3 DEF DropSegment
    <3>7. SpeechIsCollected' BY <2>2
    <3>4. /\ sent' \in [by : Senders, voiced : 0 .. MinSegment, quiet : 0 .. MinSilence]
          /\ NoiseIsDropped' /\ EndsWithSilence'
      BY <2>3, <3>1, <3>2, SentRecord
    <3>8. Clocks' BY <2>2, <3>5
    <3>9. SegmentsTypeOK'
      <4> HIDE DEF Clocks, SpeechIsCollected, NoiseIsDropped, EndsWithSilence
      <4> QED BY <1>bool, <1>age, <2>2, <2>3, <3>1, <3>2, <3>3, <3>4, <3>5, <3>6
    <3> QED BY <3>4, <3>7, <3>8, <3>9, Zenon
  <2> QED BY <2>4, <2>5
<1>4. CASE next.state = "SILENCE"
  <2>1. OnSilence(speech, f) BY <1>4, <1>which
  <2>2. vadState' = "SILENCE" /\ speechAge' \in 0 .. Horizon /\ silenceAge' \in 0 .. MinSilence
    BY <1>4, <1>after, <1>arrows DEF AfterFrame, VadBecomes
  <2>3. quiet' \in 0 .. MinSilence BY <1>quiet
  <2>4. CASE ~isCollectingSpeech
    BY <1>cut, <1>age, <2>1, <2>2, <2>3, <2>4 DEF OnSilence, segment
  <2>5. CASE isCollectingSpeech
    <3> DEFINE silent == UpTo(Trailing, consecutiveSilenceFrames + 1)
    <3>1. voiced' = voiced BY <2>1, <2>5 DEF OnSilence
    <3>2. Age(f) \in 0 .. Horizon BY <1>age DEF Age
    <3>3. voiced = 1 => Age(f) <= silent + lag' BY <1>age, <2>5 DEF Age
    <3>4. silent \in 0 .. Trailing OBVIOUS
    <3>5. CASE silent >= Trailing /\ ForceEnd("forced", Age(f), silent)
      <4>1. voiced = 1 => Age(f) < MinSegment BY <1>age, <3>2, <3>3, <3>4
      <4> HIDE DEF silent
      <4>2. /\ isProcessingSTT' \in BOOLEAN /\ isCollectingSpeech' \in BOOLEAN
            /\ currentState' \in {"LISTENING", "SPEECH_DETECTED", "TRANSCRIBING"}
            /\ segmentAge' \in {0, Age(f)} /\ consecutiveSilenceFrames' \in {0, silent}
            /\ isCollectingSpeech' <=> Age(f) >= MinSegment
            /\ isCollectingSpeech' \/ consecutiveSilenceFrames' = 0
            /\ \/ sent' = sent
               \/ /\ Age(f) >= MinSegment
                  /\ sent' = [by |-> "forced", voiced |-> voiced', quiet |-> quiet']
        BY <1>old, <2>5, <3>2, <3>4, <3>5, ForceEndOutcome
      <4>3. Age(f) >= MinSegment => voiced >= 2 BY <2>5, <3>2, <4>1
      <4>4. /\ sent' \in [by : Senders, voiced : 0 .. MinSegment, quiet : 0 .. MinSilence]
            /\ NoiseIsDropped' /\ EndsWithSilence'
        BY <2>3, <3>1, <4>2, <4>3, SentRecord
      <4>5. SpeechIsCollected' BY <2>2
      <4>6. isCollectingSpeech' => voiced' >= 2 BY <2>5, <3>1, <3>2, <4>2, <4>3
      <4>7. Clocks' BY <2>2, <3>1, <4>6
      <4> HIDE DEF NoiseIsDropped, EndsWithSilence, SpeechIsCollected, Clocks
      <4> QED BY <1>bool, <1>age, <2>2, <2>3, <3>1, <3>2, <3>4, <4>2, <4>4, <4>5, <4>7
    <3>6. CASE /\ silent < Trailing
               /\ segmentAge' = Age(f)
               /\ consecutiveSilenceFrames' = silent
               /\ UNCHANGED <<currentState, isCollectingSpeech, isProcessingSTT, sent>>
      <4> HIDE DEF silent
      <4> QED BY <1>cut, <1>age, <2>2, <2>3, <2>5, <3>1, <3>2, <3>3, <3>4, <3>6
    <3> QED BY <2>1, <2>5, <3>5, <3>6 DEF OnSilence
  <2> QED BY <2>4, <2>5
<1> QED BY <1>1, <1>2, <1>3, <1>4, <1>arrows

(* Every step keeps the invariant. *)
LEMMA SegmentStep == ASSUME SegmentInv, [SegmentsNext]_segmentsVars PROVE SegmentInv'
<1> USE DEF SegmentInv, SegmentsTypeOK, Clocks, SpeechIsCollected, NoiseIsDropped, EndsWithSilence
<1>1. CASE Voiced
  <2> HIDE DEF SegmentInv
  <2> QED BY <1>1, FrameStep DEF Voiced
<1>2. CASE Quiet
  <2> HIDE DEF SegmentInv
  <2> QED BY <1>2, FrameStep DEF Quiet
<1>3. CASE TapCollecting
  <2>1. voiced = 1 => segmentAge < MinSegment BY <1>3 DEF TapCollecting
  <2>2. /\ Listening /\ isCollectingSpeech
        /\ ForceEnd("tap", segmentAge, consecutiveSilenceFrames)
        /\ UNCHANGED <<vadState, speechAge, silenceAge, lag, voiced, quiet>>
        /\ cutShort' = (vadState \in {"SPEECH_START", "SPEECH"} /\ ~isCollectingSpeech')
    BY <1>3 DEF TapCollecting, vad
  <2>3. /\ isProcessingSTT' \in BOOLEAN /\ isCollectingSpeech' \in BOOLEAN
        /\ currentState' \in {"LISTENING", "SPEECH_DETECTED", "TRANSCRIBING"}
        /\ segmentAge' \in {0, segmentAge}
        /\ consecutiveSilenceFrames' \in {0, consecutiveSilenceFrames}
        /\ isCollectingSpeech' <=> segmentAge >= MinSegment
        /\ isCollectingSpeech' \/ consecutiveSilenceFrames' = 0
        /\ sent' = sent \/ sent' = [by |-> "tap", voiced |-> voiced', quiet |-> quiet']
    BY <2>2, ForceEndOutcome
  <2>4. cutShort' \in BOOLEAN BY <2>2, Zenon
  <2>5. isCollectingSpeech' => voiced >= 2 BY <2>1, <2>2, <2>3
  <2>6. /\ sent' \in [by : Senders, voiced : 0 .. MinSegment, quiet : 0 .. MinSilence]
        /\ NoiseIsDropped' /\ EndsWithSilence'
    BY <2>2, <2>3, SentRecord
  <2>7. SpeechIsCollected'
    <3>1. Listening' /\ vadState' \in {"SPEECH_START", "SPEECH"} /\ ~cutShort' => isCollectingSpeech'
      BY <2>2, Zenon
    <3> QED BY <3>1, Zenon
  <2>8. /\ isCollectingSpeech' => voiced' >= 2 /\ voiced' \in Nat
        /\ vadState' = "SPEECH" => quiet' = MinSilence \/ silenceAge' <= quiet' + lag'
    BY <2>2, <2>5
  <2>9. Clocks' BY <2>8
  <2> HIDE DEF NoiseIsDropped, EndsWithSilence, SpeechIsCollected, Clocks
  <2> QED BY <2>2, <2>3, <2>4, <2>6, <2>7, <2>9
<1>4. CASE TapWaiting
  <2>1. /\ UNCHANGED <<vadState, speechAge, silenceAge, isCollectingSpeech, segmentAge,
                       consecutiveSilenceFrames, voiced, lag, quiet, cutShort>>
        /\ ProcessSegment("tap")
        /\ currentState' \in {currentState, "TRANSCRIBING"}
    BY <1>4 DEF TapWaiting, vad, segment
  <2>2. /\ isProcessingSTT' \in BOOLEAN
        /\ sent' = sent \/ sent' = [by |-> "tap", voiced |-> voiced', quiet |-> quiet']
    BY <2>1 DEF ProcessSegment
  <2>3. /\ sent' \in [by : Senders, voiced : 0 .. MinSegment, quiet : 0 .. MinSilence]
        /\ NoiseIsDropped' /\ EndsWithSilence'
    BY <2>1, <2>2, SentRecord
  <2> HIDE DEF NoiseIsDropped, EndsWithSilence
  <2> QED BY <2>1, <2>2, <2>3
<1>5. CASE Stop
  <2>1. /\ UNCHANGED <<vadState, speechAge, silenceAge, voiced, lag, quiet, cutShort>>
        /\ isProcessingSTT' = FALSE /\ isCollectingSpeech' = FALSE /\ segmentAge' = 0
        /\ consecutiveSilenceFrames' = 0 /\ currentState' = "AWAY"
    BY <1>5 DEF Stop, DropSegment, vad
  <2>2. sent' = sent \/ sent' = [by |-> "stop", voiced |-> voiced', quiet |-> quiet']
    BY <1>5, <2>1 DEF Stop
  <2>3. /\ sent' \in [by : Senders, voiced : 0 .. MinSegment, quiet : 0 .. MinSilence]
        /\ NoiseIsDropped' /\ EndsWithSilence'
    BY <2>1, <2>2, SentRecord
  <2>4. isProcessingSTT' \in BOOLEAN /\ isCollectingSpeech' \in BOOLEAN BY <2>1, Zenon
  <2> HIDE DEF NoiseIsDropped, EndsWithSilence
  <2> QED BY <2>1, <2>3, <2>4
<1>6. CASE SttEnds BY <1>6 DEF SttEnds, vad, segment
<1>7. CASE Listen
  <2>1. /\ UNCHANGED <<lag, quiet, sent>> /\ currentState' = "LISTENING" /\ voiced' = 0
        /\ vadState' = "SILENCE" /\ speechAge' = 0 /\ silenceAge' = 0
        /\ segmentAge' = 0 /\ consecutiveSilenceFrames' = 0
    BY <1>7 DEF Listen, DropSegment, VadReset, VadBecomes, Vad
  <2>2. isProcessingSTT' = FALSE /\ isCollectingSpeech' = FALSE /\ cutShort' = FALSE
    BY <1>7 DEF Listen, DropSegment
  <2>3. isProcessingSTT' \in BOOLEAN /\ isCollectingSpeech' \in BOOLEAN /\ cutShort' \in BOOLEAN
    BY <2>2, Zenon
  <2> QED BY <2>1, <2>2, <2>3
<1>8. CASE UNCHANGED segmentsVars BY <1>8 DEF segmentsVars, vad, segment
<1> QED BY <1>1, <1>2, <1>3, <1>4, <1>5, <1>6, <1>7, <1>8 DEF SegmentsNext

LEMMA SegmentInvariant == SegmentsSpec => []SegmentInv
<1>1. SegmentInv /\ [SegmentsNext]_segmentsVars => SegmentInv' BY SegmentStep
<1> QED BY SegmentInvInit, <1>1, PTL DEF SegmentsSpec

(* Every variable keeps its type. *)
THEOREM SegmentsTyped == SegmentsSpec => []SegmentsTypeOK
<1>1. SegmentInv => SegmentsTypeOK BY DEF SegmentInv
<1> QED BY SegmentInvariant, <1>1, PTL

(* A single noise is never sent by the pipeline itself, if the trailing    *)
(* silence and the lag are shorter than the minimum of a segment.          *)
THEOREM SingleNoiseIsDropped == SegmentsSpec => []NoiseIsDropped
<1>1. SegmentInv => NoiseIsDropped BY DEF SegmentInv
<1> QED BY SegmentInvariant, <1>1, PTL

(* A segment that the VAD ends, ends with silence, up to the lag. *)
THEOREM SegmentEndsWithSilence == SegmentsSpec => []EndsWithSilence
<1>1. SegmentInv => EndsWithSilence BY DEF SegmentInv
<1> QED BY SegmentInvariant, <1>1, PTL

(* Speech the VAD hears is being collected, unless a tap dropped it. *)
THEOREM HeardSpeechIsCollected == SegmentsSpec => []SpeechIsCollected
<1>1. SegmentInv => SpeechIsCollected BY DEF SegmentInv
<1> QED BY SegmentInvariant, <1>1, PTL
=============================================================================
