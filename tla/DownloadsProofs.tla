--------------------------- MODULE DownloadsProofs ---------------------------
(***************************************************************************)
(* Proofs about Downloads, for any set of jobs and files, any size of the  *)
(* model and any number of disturbances.                                   *)
(***************************************************************************)
EXTENDS Downloads, TLAPS

(* While nothing has brought two jobs together, one job runs and the       *)
(* screen knows it.                                                        *)
OneJob ==
    /\ cancelled = {}
    /\ \A i, j \in Running : i = j
    /\ Running # {} => state = "downloading"

(* The temporary file is a prefix of the model, and the other file one     *)
(* that is long enough, and whole if every rest came with a length.        *)
TmpRight == tmp # NoFile => Prefix(tmp) /\ tmp # final
FinalRight ==
    final # NoFile =>
        /\ Prefix(final) /\ Length(final) >= Enough
        /\ "noLength" \notin happened => content[final].size = Size

(* The next chunk to come is the one that belongs at the end of the        *)
(* temporary file, which is complete when a length was announced and read. *)
JobInOrder(j) ==
    /\ announced[j] # "length" => announced[j] = "total" /\ "noLength" \in happened
    /\ pc[j] \in {"resuming", "request"} => pos[j] = Length(tmp)
    /\ pc[j] = "reading" => fd[j].file = tmp /\ tmp # NoFile /\ pos[j] = content[tmp].size
    /\ pc[j] = "received" /\ announced[j] = "length" => tmp # NoFile /\ Length(tmp) = Size

InOrder == TmpRight /\ FinalRight /\ \A j \in Jobs : JobInOrder(j)

Calm == happened \cap Disorder = {}
DownloadInv == Calm => OneJob /\ InOrder

(* Success is about to be said with the file there, or with no attempt left. *)
SuccessInv ==
    Calm => \A j \in Jobs : pc[j] = "done" =>
        final # NoFile \/ (attempt[j] = MaxAttempts /\ "exhausted" \in happened)

(* The screen that stays open hears of every job. *)
ScreenInv ==
    happened \subseteq Watched =>
        /\ Running \subseteq current
        /\ (\A j \in Jobs : pc[j] # "done") =>
              /\ shown /\ "exhausted" \notin happened => final # NoFile
              /\ final # NoFile /\ "deleteFails" \notin happened => shown

-----------------------------------------------------------------------------
USE DownloadsAssumption

LEMMA InitType == Init => TypeOK
<1> SUFFICES ASSUME Init PROVE TypeOK OBVIOUS
<1> USE DEF Init, Empty, Closed, Whole, Running
<1>1. clearing \in BOOLEAN /\ shown \in BOOLEAN BY Zenon
<1>2. content \in [Files -> [size : Nat, right : SUBSET Whole]] OBVIOUS
<1> QED BY <1>1, <1>2 DEF TypeOK

LEMMA TypeStep == TypeOK /\ [Next]_vars => TypeOK'
<1> SUFFICES ASSUME TypeOK, [Next]_vars PROVE TypeOK' OBVIOUS
<1> USE DEF TypeOK, Running, Closed, Empty
<1>1. ASSUME NEW j \in Jobs, Get(j) PROVE TypeOK'
  BY <1>1 DEF Get, disk, bound
<1>2. CASE Cancel BY <1>2 DEF Cancel, Disturb, job
<1>3. CASE Delete
  <2>1. shown' \in BOOLEAN BY <1>3, Zenon DEF Delete
  <2> QED BY <1>3, <2>1 DEF Delete, Disturb, job
<1>21. CASE DeleteFails
  <2>1. shown' \in BOOLEAN BY <1>21, Zenon DEF DeleteFails
  <2> QED BY <1>21, <2>1 DEF DeleteFails, Disturb, job
<1>4. CASE Reopen BY <1>4 DEF Reopen, Disturb, disk, job, Scan
<1>5. CASE Crash
  <2>1. shown' \in BOOLEAN /\ clearing' \in BOOLEAN BY <1>5, Zenon DEF Crash, Scan
  <2> QED BY <1>5, <2>1 DEF Crash, Disturb, disk
<1>6. CASE ClearError
  <2>1. clearing' \in BOOLEAN BY <1>6, Zenon DEF ClearError
  <2> QED BY <1>6, <2>1 DEF ClearError, Disturb, disk, job, bound
<1>7. ASSUME NEW j \in Jobs, Head(j) PROVE TypeOK'
  BY <1>7 DEF Head, Disturb, disk, ui, bound
<1>8. ASSUME NEW j \in Jobs, Attempt(j) PROVE TypeOK'
  <2>1. Length(tmp) \in Nat BY DEF Length
  <2>2. attempt' \in [Jobs -> 0..MaxAttempts] BY <1>8 DEF Attempt, LastAttempt
  <2>3. pos' \in [Jobs -> Nat] BY <1>8, <2>1 DEF Attempt
  <2>4. active' \in {k \in Running : pc[k] \notin {"done", "failed"}}' \cup {NoJob}
    BY <1>8 DEF Attempt
  <2>5. happened' \subseteq Disturbances \cup {"exhausted"} BY <1>8 DEF Attempt
  <2>6. /\ pc' \in [Jobs -> {"idle", "head", "attempt", "resuming", "request", "reading",
                             "received", "backoff", "done", "failed"}]
        /\ \A k \in Jobs : fd'[k].file # NoFile <=> pc'[k] = "reading"
        /\ cancelled' \subseteq Running'
    BY <1>8 DEF Attempt
  <2> QED BY <1>8, <2>2, <2>3, <2>4, <2>5, <2>6 DEF Attempt, disk, ui
<1>9. ASSUME NEW j \in Jobs, Resume(j) PROVE TypeOK'
  BY <1>9 DEF Resume, disk, bound
<1>10. ASSUME NEW j \in Jobs, Request(j) PROVE TypeOK'
  <2> USE DEF Request, NewFile, Free, TmpFile, Open, Disturb, disk, ui, bound
  <2>o. ASSUME NEW f \in Files, NEW append \in BOOLEAN, Open(j, f, append)
        PROVE  /\ tmp' \in Files /\ pc' = [pc EXCEPT ![j] = "reading"]
               /\ content' \in [Files -> [size : Nat, right : SUBSET Whole]]
               /\ fd' \in [Jobs -> [file : Files \cup {NoFile}, append : BOOLEAN]]
               /\ \A k \in Jobs : fd'[k].file # NoFile <=> pc'[k] = "reading"
    BY <2>o
  <2>a. ASSUME NEW what \in {"length", "total", "nothing"}, Announces(j, what)
        PROVE  announced' \in [Jobs -> {"length", "total", "nothing"}]
    BY <2>a DEF Announces
  <2>1. CASE Partial(j) /\ UNCHANGED final
    <3>1. PICK f \in Files : Open(j, f, TRUE) BY <2>1, ZenonT(40) DEF Partial
    <3>2. announced' \in [Jobs -> {"length", "total", "nothing"}] BY <2>1, <2>a DEF Partial
    <3>3. happened' \subseteq Disturbances \cup {"exhausted"} /\ left' \in 0..MaxDisturbances
      BY <2>1 DEF Partial
    <3>4. UNCHANGED pos BY <2>1 DEF Partial
    <3> HIDE DEF Open, Request, Disturb
    <3>5. /\ pc' = [pc EXCEPT ![j] = "reading"] /\ pc[j] = "request"
          /\ UNCHANGED <<final, attempt, cancelled, active, state, clearing, shown, current>>
      BY <1>10, <2>1, <2>o, <3>1 DEF Request, ui
    <3>6. /\ cancelled' \subseteq Running'
          /\ active' \in {k \in Running : pc[k] \notin {"done", "failed"}}' \cup {NoJob}
      BY <3>5
    <3> QED BY <2>o, <3>1, <3>2, <3>3, <3>4, <3>5, <3>6
  <2>2. CASE Full(j) /\ UNCHANGED final
    <3> DEFINE Chosen == IF pos[j] = 0 THEN TmpFile ELSE TmpFile \cup NewFile
    <3>1. PICK f \in Chosen : Open(j, f, FALSE) BY <2>2 DEF Full
    <3>5. f \in Files BY <3>1
    <3> HIDE DEF Chosen
    <3>2. announced' \in [Jobs -> {"length", "total", "nothing"}] BY <2>2, <2>a DEF Full
    <3>3. happened' \subseteq Disturbances \cup {"exhausted"} /\ left' \in 0..MaxDisturbances
      BY <2>2 DEF Full
    <3>4. pos' \in [Jobs -> Nat] BY <2>2 DEF Full
    <3> HIDE DEF Open, Request, Disturb
    <3>6. /\ pc' = [pc EXCEPT ![j] = "reading"] /\ pc[j] = "request"
          /\ UNCHANGED <<final, attempt, cancelled, active, state, clearing, shown, current>>
      BY <1>10, <2>2, <2>o, <3>1, <3>5 DEF Request, ui
    <3>7. /\ cancelled' \subseteq Running'
          /\ active' \in {k \in Running : pc[k] \notin {"done", "failed"}}' \cup {NoJob}
      BY <3>6
    <3> QED BY <2>o, <3>1, <3>2, <3>3, <3>4, <3>6, <3>7, <3>5
  <2>3. CASE /\ Fail(j) /\ UNCHANGED <<disk, pos, announced>>
             /\ IF pos[j] >= Size THEN UNCHANGED bound ELSE Disturb("serverFails")
    BY <1>10, <2>3 DEF Fail
  <2> QED BY <1>10, <2>1, <2>2, <2>3
<1>11. ASSUME NEW j \in Jobs, Write(j) PROVE TypeOK'
  <2>1. pos[j] \in Whole BY <1>11 DEF Write, Whole
  <2>2. fd[j].file \in Files BY <1>11 DEF Write
  <2>3. Written(content[fd[j].file], pos[j], fd[j].append) \in [size : Nat, right : SUBSET Whole]
    BY <2>1, <2>2 DEF Written, Whole
  <2>4. content' \in [Files -> [size : Nat, right : SUBSET Whole]] BY <1>11, <2>2, <2>3 DEF Write
  <2>5. pos' \in [Jobs -> Nat] BY <1>11 DEF Write
  <2> QED BY <1>11, <2>4, <2>5 DEF Write, ui, bound
<1>12. ASSUME NEW j \in Jobs, ReadFails(j) PROVE TypeOK'
  BY <1>12 DEF ReadFails, Fail, Disturb, disk, ui
<1>13. ASSUME NEW j \in Jobs, ReadEnds(j) PROVE TypeOK'
  BY <1>13 DEF ReadEnds, disk, ui, bound
<1>14. ASSUME NEW j \in Jobs, Publish(j) PROVE TypeOK'
  <2>1. CASE pc'[j] = "done"
    BY <1>14, <2>1 DEF Publish, Fail, Disturb, ui, bound
  <2>2. CASE pc'[j] # "done"
    <3>1. Fail(j) /\ UNCHANGED <<tmp, final, active>> BY <1>14, <2>2 DEF Publish
    <3>2. fd[j].file = NoFile BY <1>14 DEF Publish
    <3>3. happened' \subseteq Disturbances \cup {"exhausted"} /\ left' \in 0..MaxDisturbances
      BY <1>14 DEF Publish, Disturb, bound
    <3> QED BY <1>14, <3>1, <3>2, <3>3 DEF Publish, Fail, ui
  <2> QED BY <2>1, <2>2
<1>15. ASSUME NEW j \in Jobs, Backoff(j) PROVE TypeOK'
  BY <1>15 DEF Backoff, disk, ui, bound
<1>16. ASSUME NEW j \in Jobs, Succeed(j) PROVE TypeOK'
  BY <1>16 DEF Succeed, End, disk, bound
<1>17. ASSUME NEW j \in Jobs, GiveUp(j) PROVE TypeOK'
  BY <1>17 DEF GiveUp, End, disk, bound
<1>18. ASSUME NEW j \in Jobs, CancelSeen(j) PROVE TypeOK'
  BY <1>18 DEF CancelSeen, End, disk, ui, bound
<1>19. ASSUME NEW j \in Jobs, Progress(j) PROVE TypeOK'
  BY <1>19 DEF Progress, disk, job, bound
<1>20. CASE UNCHANGED vars
  BY <1>20 DEF vars, disk, job, ui, bound
<1> QED
  BY <1>1, <1>2, <1>3, <1>4, <1>5, <1>6, <1>7, <1>8, <1>9, <1>10, <1>11, <1>12, <1>13,
     <1>14, <1>15, <1>16, <1>17, <1>18, <1>19, <1>20, <1>21 DEF Next, User, Step

-----------------------------------------------------------------------------
LEMMA HappenedGrows == [Next]_vars => happened \subseteq happened'
<1> SUFFICES ASSUME [Next]_vars PROVE happened \subseteq happened' OBVIOUS
<1> USE DEF Disturb, bound
<1>1. ASSUME NEW j \in Jobs, Step(j) PROVE happened \subseteq happened'
  BY <1>1 DEF Step, Head, Attempt, Resume, Request, Partial, Full, Write, ReadFails, ReadEnds,
     Publish, Backoff, Succeed, GiveUp, CancelSeen
<1>2. ASSUME NEW j \in Jobs, Progress(j) \/ Get(j) PROVE happened \subseteq happened'
  BY <1>2 DEF Progress, Get
<1>3. CASE Cancel \/ Delete \/ DeleteFails \/ Reopen \/ Crash \/ ClearError
  BY <1>3 DEF Cancel, Delete, DeleteFails, Reopen, Crash, ClearError
<1> QED BY <1>1, <1>2, <1>3 DEF Next, User, vars

LEMMA CalmBefore == [Next]_vars /\ Calm' => Calm
BY HappenedGrows DEF Calm

(* What each step of a job does to the set of running jobs. *)
LEMMA OneJobStep == TypeOK /\ OneJob /\ [Next]_vars /\ Calm' => OneJob'
<1> SUFFICES ASSUME TypeOK, OneJob, [Next]_vars, Calm' PROVE OneJob' OBVIOUS
<1> USE DEF OneJob, Running
<1>1. pc \in [Jobs -> {"idle", "head", "attempt", "resuming", "request", "reading",
                       "received", "backoff", "done", "failed"}] BY DEF TypeOK
<1>2. ASSUME NEW j \in Jobs, Get(j) PROVE OneJob'
  BY <1>1, <1>2 DEF Get
<1>3. CASE Cancel BY <1>3 DEF Cancel, Disturb, Calm, Disorder
<1>4. CASE Delete \/ DeleteFails BY <1>4 DEF Delete, DeleteFails, job
<1>5. CASE Reopen BY <1>5 DEF Reopen, job
<1>6. CASE Crash BY <1>6 DEF Crash
<1>7. CASE ClearError
  <2>1. state = "error" BY <1>7 DEF ClearError, Disturb, Calm, Disorder
  <2> QED BY <1>7, <2>1 DEF ClearError, job
<1>8. ASSUME NEW j \in Jobs, Step(j), pc[j] # "idle", UNCHANGED <<cancelled, state>>,
             \A k \in Jobs : k # j => pc'[k] = pc[k]
      PROVE OneJob'
  BY <1>1, <1>8
<1>9. ASSUME NEW j \in Jobs, Step(j) PROVE OneJob'
  <2>1. CASE Succeed(j) \/ GiveUp(j) BY <1>1, <2>1 DEF Succeed, GiveUp, End
  <2>2. CASE CancelSeen(j) BY <2>2 DEF CancelSeen
  <2>3. CASE Resume(j) BY <1>1, <2>3 DEF Resume
  <2>4. CASE Head(j) \/ Attempt(j) \/ Write(j) \/ ReadEnds(j) \/ Backoff(j)
    BY <1>8, <1>9, <1>1, <2>4 DEF Head, Attempt, Write, ReadEnds, Backoff, ui
  <2>5. CASE ReadFails(j) \/ Publish(j)
    BY <1>8, <1>9, <1>1, <2>5 DEF ReadFails, Publish, Fail, ui
  <2>6. CASE Request(j)
    BY <1>8, <1>9, <1>1, <2>6 DEF Request, Partial, Full, Open, Fail, ui
  <2> QED BY <1>9, <2>1, <2>2, <2>3, <2>4, <2>5, <2>6 DEF Step
<1>10. ASSUME NEW j \in Jobs, Progress(j) PROVE OneJob'
  BY <1>10, <1>1 DEF Progress, job
<1>11. CASE UNCHANGED vars BY <1>11 DEF vars, job, ui
<1> QED
  BY <1>2, <1>3, <1>4, <1>5, <1>6, <1>7, <1>9, <1>10, <1>11 DEF Next, User

-----------------------------------------------------------------------------
(* A chunk written at the end of a prefix makes a longer prefix. *)
LEMMA PrefixGrows ==
  ASSUME NEW c, c \in [size : Nat, right : SUBSET Whole], NEW append \in BOOLEAN,
         c.size < Size, c.right = 0..(c.size - 1)
  PROVE  /\ Written(c, c.size, append).size = c.size + 1
         /\ Written(c, c.size, append).right = 0..c.size
BY DEF Written

(* What has to be shown of a step of the one running job. *)
LEMMA OrderOf ==
  ASSUME TypeOK, OneJob, NEW j \in Jobs, pc[j] # "idle",
         \A k \in Jobs : k # j => pc'[k] = pc[k] /\ announced'[k] = announced[k],
         InOrder, happened \subseteq happened',
         TmpRight', FinalRight', JobInOrder(j)'
  PROVE  InOrder'
<1>1. \A k \in Jobs : k # j => pc'[k] = "idle" BY DEF OneJob, Running
<1>2. \A k \in Jobs : k # j => JobInOrder(k)' BY <1>1 DEF InOrder, JobInOrder
<1> QED BY <1>2, Zenon DEF InOrder

(* ... and of one that leaves the files and their names as they are. *)
LEMMA OrderSameFiles ==
  ASSUME TypeOK, OneJob, NEW j \in Jobs, pc[j] # "idle",
         \A k \in Jobs : k # j => pc'[k] = pc[k] /\ announced'[k] = announced[k],
         InOrder, happened \subseteq happened', UNCHANGED disk,
         JobInOrder(j)'
  PROVE  InOrder'
<1>1. TmpRight' /\ FinalRight'
  BY DEF InOrder, TmpRight, FinalRight, Prefix, Length, disk
<1> QED BY <1>1, OrderOf

LEMMA OrderStep == TypeOK /\ OneJob /\ InOrder /\ [Next]_vars /\ Calm' => InOrder'
<1> SUFFICES ASSUME TypeOK, OneJob, InOrder, [Next]_vars, Calm' PROVE InOrder' OBVIOUS
<1>1. /\ pc \in [Jobs -> {"idle", "head", "attempt", "resuming", "request", "reading",
                          "received", "backoff", "done", "failed"}]
      /\ announced \in [Jobs -> {"length", "total", "nothing"}]
  BY DEF TypeOK
<1>g. happened \subseteq happened' BY HappenedGrows
<1>p. TmpRight /\ FinalRight /\ \A j \in Jobs : JobInOrder(j) BY DEF InOrder
<1>2. ASSUME UNCHANGED <<content, pos, fd, announced>>, tmp' \in {tmp, NoFile},
             final' \in {final, NoFile},
             \A j \in Jobs : pc'[j] # pc[j] => pc'[j] \in {"idle", "head"},
             tmp' # tmp => \A j \in Jobs : pc'[j] \in {"idle", "head"}
      PROVE  InOrder'
  BY <1>g, <1>p, <1>2 DEF InOrder, TmpRight, FinalRight, JobInOrder, Prefix, Length
<1>3. ASSUME NEW j \in Jobs, Get(j) PROVE InOrder'
  BY <1>1, <1>2, <1>3 DEF Get, disk
<1>4. CASE Cancel BY <1>4 DEF Cancel, Disturb, Calm, Disorder
<1>5. CASE Delete \/ DeleteFails
  <2>1. \A j \in Jobs : pc[j] = "idle" BY <1>5 DEF Delete, DeleteFails, OneJob, Running
  <2>2. /\ UNCHANGED <<content, job>> /\ tmp' \in {tmp, NoFile} /\ final' \in {final, NoFile}
    BY <1>5 DEF Delete, DeleteFails
  <2> QED BY <1>2, <2>1, <2>2 DEF job
<1>6. CASE Reopen BY <1>2, <1>6 DEF Reopen, disk, job
<1>7. CASE Crash
  BY <1>g, <1>p, <1>7 DEF Crash, disk, InOrder, TmpRight, FinalRight, JobInOrder, Prefix, Length
<1>8. CASE ClearError \/ UNCHANGED vars BY <1>2, <1>8 DEF ClearError, vars, disk, job
<1>9. ASSUME NEW j \in Jobs, Progress(j) PROVE InOrder'
  BY <1>2, <1>9 DEF Progress, disk, job
<1>10. ASSUME NEW j \in Jobs, Step(j) PROVE InOrder'
  <2>o. JobInOrder(j) BY <1>p
  <2> USE DEF JobInOrder, Length
  <2>1. CASE Head(j) BY <2>1, <1>1, <1>g, <2>o, OrderSameFiles DEF Head, disk
  <2>2. CASE Attempt(j)
    <3>1. /\ pc[j] = "attempt" /\ UNCHANGED <<disk, announced>>
          /\ \A k \in Jobs : k # j => pc'[k] = pc[k]
          /\ \/ pc'[j] = "done"
             \/ pc'[j] \in {"resuming", "request"} /\ pos'[j] = Length(tmp)
      BY <2>2, <1>1 DEF Attempt, TypeOK
    <3> QED BY <3>1, <1>g, <2>o, OrderSameFiles DEF disk
  <2>3. CASE Resume(j) BY <2>3, <1>1, <1>g, <2>o, OrderSameFiles DEF Resume, disk
  <2>4. CASE Backoff(j) BY <2>4, <1>1, <1>g, <2>o, OrderSameFiles DEF Backoff, disk
  <2>5. CASE ReadEnds(j) BY <2>5, <1>1, <1>g, <2>o, OrderSameFiles DEF ReadEnds, disk
  <2>6. CASE ReadFails(j) BY <2>6, <1>1, <1>g, <2>o, OrderSameFiles DEF ReadFails, Fail, disk
  <2>7. CASE Succeed(j) \/ GiveUp(j)
    <3>1. pc[j] # "idle" /\ End(j) /\ UNCHANGED disk BY <2>7 DEF Succeed, GiveUp
    <3>2. /\ pc'[j] = "idle" /\ announced'[j] = "length"
          /\ \A k \in Jobs : k # j => pc'[k] = pc[k] /\ announced'[k] = announced[k]
      BY <3>1, <1>1 DEF End
    <3> QED BY <3>1, <3>2, <1>g, OrderSameFiles
  <2>8. CASE CancelSeen(j) BY <2>8 DEF CancelSeen, OneJob
  <2>9. CASE Write(j)
    <3>1. fd[j].file = tmp /\ tmp \in Files /\ pos[j] = content[tmp].size /\ pc[j] = "reading"
      BY <2>9, <2>o DEF Write, TypeOK
    <3>2. content[tmp] \in [size : Nat, right : SUBSET Whole] /\ fd[j].append \in BOOLEAN
      BY <3>1 DEF TypeOK
    <3>3. content'[tmp] = Written(content[tmp], content[tmp].size, fd[j].append)
      BY <2>9, <3>1 DEF Write, TypeOK
    <3>4. content[tmp].size < Size /\ content[tmp].right = 0..(content[tmp].size - 1) /\ tmp # final
      BY <2>9, <3>1, <1>p DEF Write, TmpRight, Prefix, TypeOK
    <3>5. /\ content'[tmp].size = content[tmp].size + 1
          /\ content'[tmp].right = 0..content[tmp].size
      BY <3>2, <3>3, <3>4, PrefixGrows
    <3>6. UNCHANGED <<tmp, final, pc, fd, announced, happened>> /\ pos'[j] = pos[j] + 1
      BY <2>9 DEF Write, TypeOK, bound
    <3>7. final # NoFile => content'[final] = content[final]
      BY <2>9, <3>1, <3>4 DEF Write, TypeOK
    <3>8. TmpRight' BY <3>2, <3>4, <3>5, <3>6 DEF TmpRight, Prefix
    <3>9. FinalRight' BY <1>p, <3>6, <3>7 DEF FinalRight, Prefix
    <3>10. JobInOrder(j)' BY <2>o, <3>1, <3>2, <3>5, <3>6
    <3> QED BY <3>1, <3>6, <3>8, <3>9, <3>10, <1>g, OrderOf
  <2>10. CASE Publish(j)
    <3>1. /\ pc[j] = "received" /\ UNCHANGED <<content, announced>>
          /\ \A k \in Jobs : k # j => pc'[k] = pc[k]
      BY <2>10, <1>1 DEF Publish, Fail
    <3>2. CASE LongEnough(j) /\ tmp # NoFile /\ final' = tmp /\ tmp' = NoFile /\ pc'[j] = "done"
      <4>1. Prefix(tmp) /\ Length(tmp) >= Enough BY <1>p, <2>o, <3>2 DEF TmpRight, LongEnough
      <4>2. "noLength" \notin happened => content[tmp].size = Size BY <2>o, <3>1, <3>2
      <4>3. TmpRight' /\ FinalRight'
        BY <1>g, <3>1, <3>2, <4>1, <4>2 DEF TmpRight, FinalRight, Prefix, TypeOK
      <4> QED BY <1>g, <2>o, <3>1, <3>2, <4>3, OrderOf
    <3>3. CASE Fail(j) /\ UNCHANGED <<tmp, final>>
      BY <1>1, <1>g, <2>o, <3>1, <3>3, OrderSameFiles DEF Fail, disk
    <3> QED BY <2>10, <1>1, <3>2, <3>3 DEF Publish
  <2>11. CASE Request(j)
    <3>1. pc[j] = "request" /\ pos[j] = Length(tmp) BY <2>11, <2>o DEF Request
    <3>2. CASE Partial(j) /\ UNCHANGED final
      <4>1. tmp # NoFile BY <3>1, <3>2 DEF Partial
      <4>2. Open(j, tmp, TRUE) BY <3>2, <4>1 DEF Partial, TmpFile
      <4>3. UNCHANGED disk /\ pc' = [pc EXCEPT ![j] = "reading"] /\ fd'[j].file = tmp /\ UNCHANGED pos
        BY <3>2, <4>2 DEF Open, Partial, disk, TypeOK
      <4>4. \/ announced' = [announced EXCEPT ![j] = "length"]
            \/ announced' = [announced EXCEPT ![j] = "total"] /\ "noLength" \in happened'
        BY <3>2 DEF Partial, Announces, Disturb, Calm, Disorder
      <4>5. JobInOrder(j)' BY <1>1, <3>1, <4>1, <4>3, <4>4 DEF disk
      <4> QED BY <1>1, <1>g, <3>1, <4>3, <4>4, <4>5, OrderSameFiles
    <3>3. CASE Full(j) /\ UNCHANGED final
      <4>1. announced' = [announced EXCEPT ![j] = "length"]
        BY <3>3 DEF Full, Announces, Disturb, Calm, Disorder
      <4>2. PICK f \in Files : Open(j, f, FALSE) /\ (f \in Free \/ f = tmp)
        <5> DEFINE Chosen == IF pos[j] = 0 THEN TmpFile ELSE TmpFile \cup NewFile
        <5>1. PICK f \in Chosen : Open(j, f, FALSE) BY <3>3 DEF Full
        <5>2. f \in Files /\ (f \in Free \/ f = tmp) BY DEF TmpFile, NewFile, Free, TypeOK
        <5> QED BY <5>1, <5>2
      <4>3. f # final /\ f # NoFile BY <4>2, <1>p DEF Free, TmpRight, TypeOK
      <4>4. /\ content'[f] = Empty /\ (final # NoFile => content'[final] = content[final])
            /\ tmp' = f /\ fd'[j].file = f /\ pc' = [pc EXCEPT ![j] = "reading"]
        BY <4>2, <4>3 DEF Open, TypeOK
      <4>5. TmpRight'
        <5>1. content'[f].size = 0 /\ content'[f].right = {} BY <4>4 DEF Empty
        <5>2. Prefix(f)' BY <5>1 DEF Prefix
        <5> QED BY <3>3, <4>3, <4>4, <5>2 DEF TmpRight
      <4>6. FinalRight' BY <1>p, <1>g, <3>3, <4>4 DEF FinalRight, Prefix
      <4>7. pos'[j] = 0 BY <3>3 DEF Full, TypeOK
      <4>8. JobInOrder(j)' BY <1>1, <4>1, <4>3, <4>4, <4>7 DEF Empty
      <4> QED BY <1>1, <1>g, <3>1, <4>1, <4>4, <4>5, <4>6, <4>8, OrderOf
    <3>4. CASE Fail(j) /\ UNCHANGED <<disk, pos, announced>>
      BY <1>1, <1>g, <2>o, <3>1, <3>4, OrderSameFiles DEF Fail
    <3> QED BY <2>11, <3>2, <3>3, <3>4 DEF Request
  <2> QED
    BY <1>10, <2>1, <2>2, <2>3, <2>4, <2>5, <2>6, <2>7, <2>8, <2>9, <2>10, <2>11 DEF Step
<1> QED
  BY <1>3, <1>4, <1>5, <1>6, <1>7, <1>8, <1>9, <1>10 DEF Next, User

-----------------------------------------------------------------------------
LEMMA InvStep == TypeOK /\ DownloadInv /\ [Next]_vars => DownloadInv'
BY CalmBefore, OneJobStep, OrderStep DEF DownloadInv

LEMMA InitInv == Init => DownloadInv
BY DEF Init, DownloadInv, OneJob, InOrder, TmpRight, FinalRight, JobInOrder, Running

(* The type invariant of Downloads. *)
THEOREM TypeCorrect == Spec => []TypeOK
BY InitType, TypeStep, PTL DEF Spec

(* downloadOnce and downloadWithRetry: as long as no download is cancelled *)
(* or overtaken and the server announces a size, the file with the model's *)
(* name holds the right chunks, 99 % of them at least and all of them if   *)
(* every rest came with its length, through failures, restarts from 0,     *)
(* resumes, failed renames, deletions and crashes, in any number.          *)
THEOREM ModelWhole == Spec => []FinalComplete
<1>1. TypeOK /\ DownloadInv => FinalComplete
  <2> SUFFICES ASSUME TypeOK, FinalRight, final # NoFile
               PROVE  /\ Prefix(final) /\ Length(final) >= Enough
                      /\ "noLength" \notin happened => Complete(final)
    BY DEF DownloadInv, InOrder, FinalComplete, FinalAlwaysComplete, Calm
  <2>1. content[final] \in [size : Nat, right : SUBSET Whole] BY DEF TypeOK
  <2> QED BY <2>1 DEF FinalRight, Prefix, Complete, Whole
<1> QED BY <1>1, InitType, TypeStep, InitInv, InvStep, PTL DEF Spec

-----------------------------------------------------------------------------
(* Only the rename and the end of the attempts lead a job to its success,  *)
(* and nothing takes the file away while one job runs.                     *)
LEMMA SuccessStep == TypeOK /\ DownloadInv /\ SuccessInv /\ [Next]_vars => SuccessInv'
<1> SUFFICES ASSUME TypeOK, OneJob, SuccessInv, Calm, [Next]_vars, Calm', NEW k \in Jobs,
                    pc'[k] = "done"
             PROVE  final' # NoFile \/ (attempt'[k] = MaxAttempts /\ "exhausted" \in happened')
  BY CalmBefore DEF SuccessInv, DownloadInv
<1>1. /\ pc \in [Jobs -> {"idle", "head", "attempt", "resuming", "request", "reading",
                          "received", "backoff", "done", "failed"}]
      /\ attempt \in [Jobs -> 0..MaxAttempts]
  BY DEF TypeOK
<1>2. happened \subseteq happened' BY HappenedGrows
<1>3. ASSUME pc[k] = "done", UNCHANGED final, attempt'[k] = attempt[k]
      PROVE  final' # NoFile \/ (attempt'[k] = MaxAttempts /\ "exhausted" \in happened')
  BY <1>2, <1>3 DEF SuccessInv
<1>4. ASSUME NEW j \in Jobs, Step(j)
      PROVE  final' # NoFile \/ (attempt'[k] = MaxAttempts /\ "exhausted" \in happened')
  <2>1. CASE Publish(j)
    BY <1>1, <1>3, <2>1 DEF Publish, Fail, TypeOK
  <2>2. CASE Attempt(j)
    BY <1>1, <1>3, <2>2 DEF Attempt, LastAttempt, disk
  <2>3. CASE Request(j)
    BY <1>1, <1>3, <2>3 DEF Request, Partial, Full, Open, Fail, disk
  <2>4. CASE Head(j) \/ Resume(j) \/ Write(j) \/ ReadFails(j) \/ ReadEnds(j) \/ Backoff(j)
    BY <1>1, <1>3, <2>4 DEF Head, Resume, Write, ReadFails, ReadEnds, Backoff, Fail, disk
  <2>5. CASE Succeed(j) \/ GiveUp(j) \/ CancelSeen(j)
    BY <1>1, <1>3, <2>5 DEF Succeed, GiveUp, CancelSeen, End, disk
  <2> QED BY <1>4, <2>1, <2>2, <2>3, <2>4, <2>5 DEF Step
<1>5. ASSUME NEW j \in Jobs, Get(j) \/ Progress(j)
      PROVE  final' # NoFile \/ (attempt'[k] = MaxAttempts /\ "exhausted" \in happened')
  BY <1>1, <1>3, <1>5 DEF Get, Progress, disk, job
<1>6. CASE Delete \/ DeleteFails
  <2>1. pc[k] = "idle" BY <1>6 DEF Delete, DeleteFails, OneJob, Running
  <2> QED BY <1>6, <2>1 DEF Delete, DeleteFails, job
<1>7. CASE Cancel \/ Reopen \/ Crash \/ ClearError \/ UNCHANGED vars
  BY <1>3, <1>7 DEF Cancel, Reopen, Crash, ClearError, vars, disk, job
<1> QED BY <1>4, <1>5, <1>6, <1>7 DEF Next, User

LEMMA SuccessInit == Init => SuccessInv
BY DEF Init, SuccessInv

(* The one step that says "downloaded!". *)
LEMMA OnlySucceedCompletes ==
  TypeOK /\ SuccessInv /\ Next /\ Calm' => SuccessIsReal
<1> SUFFICES ASSUME TypeOK, SuccessInv, Next, Calm', state # "completed", state' = "completed"
             PROVE  final' # NoFile \/ UsedUp
  BY DEF SuccessIsReal, Completes
<1>1. Calm BY CalmBefore
<1>2. ASSUME NEW j \in Jobs, Step(j) PROVE final' # NoFile \/ UsedUp
  <2>1. Succeed(j)
    BY <1>2 DEF Step, Head, Attempt, Resume, Request, Write, ReadFails, ReadEnds, Publish,
                Backoff, GiveUp, CancelSeen, ui
  <2>2. pc[j] = "done" /\ pc'[j] = "idle" /\ UNCHANGED final
    BY <2>1 DEF Succeed, End, disk, TypeOK
  <2> QED BY <1>1, <2>2 DEF SuccessInv, UsedUp
<1>3. \A j \in Jobs : ~Get(j) /\ ~Progress(j) BY DEF Get, Progress
<1>4. ~Cancel /\ ~Delete /\ ~DeleteFails /\ ~Reopen /\ ~Crash /\ ~ClearError
  BY DEF Cancel, Delete, DeleteFails, Reopen, Crash, ClearError
<1> QED BY <1>2, <1>3, <1>4 DEF Next, User

(* The screen hears of a job's end before the next is started. *)
LEMMA ScreenStep ==
  TypeOK /\ DownloadInv /\ SuccessInv /\ ScreenInv /\ [Next]_vars => ScreenInv'
<1> DEFINE Told == /\ shown /\ "exhausted" \notin happened => final # NoFile
                   /\ final # NoFile /\ "deleteFails" \notin happened => shown
           Between == \A k \in Jobs : pc[k] # "done"
<1> SUFFICES ASSUME TypeOK, DownloadInv, SuccessInv, ScreenInv, [Next]_vars,
                    happened' \subseteq Watched
             PROVE  Running' \subseteq current' /\ (Between => Told)'
  BY DEF ScreenInv
<1>g. happened \subseteq happened' BY HappenedGrows
<1>1. Calm /\ OneJob /\ Running \subseteq current /\ (Between => Told)
  BY <1>g DEF DownloadInv, ScreenInv, Calm, Disorder, Watched
<1>2. pc \in [Jobs -> {"idle", "head", "attempt", "resuming", "request", "reading",
                       "received", "backoff", "done", "failed"}] BY DEF TypeOK
<1> USE DEF Running
<1>s. ASSUME Between' => Between, UNCHANGED <<shown, final>> PROVE (Between => Told)'
  BY <1>1, <1>g, <1>s
<1> HIDE DEF Told
<1>3. ASSUME NEW j \in Jobs, Get(j) PROVE Running' \subseteq current' /\ (Between => Told)'
  <2>1. Running' \subseteq current' BY <1>1, <1>2, <1>3 DEF Get
  <2>2. Between' => Between BY <1>2, <1>3 DEF Get
  <2>3. UNCHANGED <<shown, final>> BY <1>3 DEF Get, disk
  <2> QED BY <1>s, <2>1, <2>2, <2>3
<1>4. ~Cancel /\ ~Reopen /\ ~Crash BY DEF Cancel, Reopen, Crash, Disturb, Watched
<1>5. CASE Delete \/ DeleteFails
  <2>1. Running = {} BY <1>1, <1>5 DEF Delete, DeleteFails, OneJob
  <2>2. Running' = {} BY <1>5, <2>1 DEF Delete, DeleteFails, job
  <2>3. ~shown' /\ (final' = NoFile \/ "deleteFails" \in happened')
    BY <1>5 DEF Delete, DeleteFails, Disturb
  <2> QED BY <2>2, <2>3 DEF Told
<1>6. CASE ClearError \/ UNCHANGED vars
  <2>1. UNCHANGED <<pc, current, shown, final>>
    BY <1>6 DEF ClearError, vars, disk, job, ui
  <2> QED BY <1>1, <1>s, <2>1
<1>7. ASSUME NEW j \in Jobs, Progress(j) PROVE Running' \subseteq current' /\ (Between => Told)'
  <2>1. UNCHANGED <<pc, current, shown, final>> BY <1>7 DEF Progress, disk, job
  <2> QED BY <1>1, <1>s, <2>1
<1>8. ASSUME NEW j \in Jobs, Step(j) PROVE Running' \subseteq current' /\ (Between => Told)'
  <2>1. pc[j] # "idle"
    BY <1>8 DEF Step, Head, Attempt, Resume, Request, Write, ReadFails, ReadEnds, Publish,
                Backoff, Succeed, GiveUp, CancelSeen
  <2>2. \A k \in Jobs : k # j => pc[k] = "idle" BY <1>1, <2>1 DEF OneJob
  <2>3. UNCHANGED current /\ \A k \in Jobs : k # j => pc'[k] = pc[k]
    BY <1>2, <1>8 DEF Step, Head, Attempt, Resume, Request, Partial, Full, Open, Fail, Write,
       ReadFails, ReadEnds, Publish, Backoff, Succeed, GiveUp, CancelSeen, End, ui
  <2>4. Running' \subseteq current' BY <1>1, <2>1, <2>3
  <2>5. CASE Succeed(j)
    <3>1. final' # NoFile \/ "exhausted" \in happened'
      BY <1>1, <1>g, <2>5 DEF Succeed, SuccessInv, disk
    <3>2. j \in current BY <1>1, <2>1
    <3>3. shown' BY <2>5, <3>2, Zenon DEF Succeed
    <3> QED BY <2>4, <3>1, <3>3 DEF Told
  <2>6. CASE pc'[j] = "done" BY <2>4, <2>6
  <2>7. CASE ~Succeed(j) /\ pc'[j] # "done"
    <3>1. pc[j] # "done" /\ UNCHANGED <<shown, final>>
      BY <1>1, <1>2, <1>8, <2>7 DEF Step, Head, Attempt, Resume, Request, Write, ReadFails,
         ReadEnds, Publish, Fail, Backoff, GiveUp, CancelSeen, OneJob, disk, ui
    <3>2. Between BY <2>2, <3>1
    <3> QED BY <1>s, <2>4, <3>1, <3>2
  <2> QED BY <2>5, <2>6, <2>7
<1> QED BY <1>3, <1>4, <1>5, <1>6, <1>7, <1>8 DEF Next, User

(* onComplete(true), downloadWithRetry: "downloaded!" is said only when    *)
(* the model's file is there or all attempts are used up, through failed   *)
(* requests, renames and deletions, restarts from 0 and crashes.           *)
THEOREM SuccessHasFile == Spec => SuccessMeansFile
<1>1. TypeOK /\ SuccessInv /\ [Next]_vars => [Calm' => SuccessIsReal]_vars
  BY OnlySucceedCompletes
<1>2. [Calm' => SuccessIsReal]_vars <=> [happened' \cap Disorder = {} => SuccessIsReal]_vars
  BY DEF Calm
<1> QED
  BY <1>1, <1>2, InitType, TypeStep, InitInv, InvStep, SuccessInit, SuccessStep, PTL
  DEF Spec, SuccessMeansFile

(* downloadedModels: between downloads a screen that stays open shows a    *)
(* model only if its file is there, unless a download has used up its      *)
(* attempts, and shows every model that is, unless deleting it has failed. *)
THEOREM ScreenIsRight == Spec => []ScreenTellsTruth
<1>1. ScreenInv => ScreenTellsTruth BY DEF ScreenInv, ScreenTellsTruth
<1>2. Init => ScreenInv BY DEF Init, ScreenInv, Running
<1> QED
  BY <1>1, <1>2, InitType, TypeStep, InitInv, InvStep, SuccessInit, SuccessStep, ScreenStep, PTL
  DEF Spec
=============================================================================
