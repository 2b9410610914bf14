------------------------ MODULE MemoryCompactionProofs ------------------------
(***************************************************************************)
(* Proofs about MemoryCompaction, for any number of compactions, days and  *)
(* disturbances, and any retention shorter than the cutoff.                *)
(***************************************************************************)
EXTENDS MemoryCompaction, TLAPS

(* What a compaction has in hand, by its stage. *)
Stages ==
    \A j \in Jobs :
        /\ pc[j] \in {"idle", "find", "purge"} => found[j] = {}
        /\ pc[j] \in {"idle", "find", "next"} => group[j] = {}

(* A compaction touches old files only, and at its end very old ones. *)
OldOnly ==
    \A j \in Jobs :
        /\ \A d \in found[j] \cup group[j] \cup missed[j] : now - d > Retention
        /\ pc[j] = "purge" => \A d \in group[j] : now - d > Cutoff

(* What is old is still in hand, or was missed. *)
Remaining ==
    \A j \in Jobs : pc[j] \notin {"idle", "find"} =>
        OlderThan(Retention) \subseteq found[j] \cup group[j] \cup missed[j]

(* Quarters are found and taken as a whole. *)
WholeQuarters ==
    \A j \in Jobs : \A e \in OlderThan(Retention) :
        /\ \A d \in found[j] : Quarter(e) = Quarter(d) => e \in found[j]
        /\ pc[j] = "read" => \A d \in group[j] : Quarter(e) = Quarter(d) => e \in group[j]

SafeInv == TypeOK /\ Stages /\ OldOnly /\ Remaining /\ WholeQuarters /\ RecentKept

(* What only the last step may delete. *)
Late(j) == missed[j] \cup {d \in group[j] : pc[j] = "purge"}

(* A file that is gone and need not be in a summary. *)
Excused(d) == "diskFull" \in happened /\ now - d > Cutoff

(* What was read for a summary has all of the quarter's old files, ... *)
CoversFiles ==
    \A j \in Jobs : pc[j] \in {"open", "write"} =>
        \A d \in group[j], e \in OlderThan(Retention) : Quarter(e) = Quarter(d) => e \in covered[j]

(* ... and, once the summary is opened, those deleted since.               *)
CoversDeleted ==
    \A j \in Jobs : pc[j] = "write" =>
        \A d \in group[j], e \in talked \ files :
            Quarter(e) = Quarter(d) => e \in covered[j] \/ Excused(e)

(* Files are deleted after their summary was written; those that the last  *)
(* step deletes or that were missed too, unless a summary failed.          *)
SummaryFirst ==
    \A j \in Jobs :
        /\ pc[j] = "delete" => \A d \in group[j] \cap files : d \in summary[Quarter(d)]
        /\ "diskFull" \in happened \/
              \A d \in Late(j) \cap files : d \in summary[Quarter(d)]

Calm == happened \cap {"again", "unreadable"} = {}
ArchiveInv == Calm => CoversFiles /\ CoversDeleted /\ SummaryFirst /\ Archived

-----------------------------------------------------------------------------
USE MemoryCompactionAssumption

LEMMA QuarterOfGroup ==
    ASSUME TypeOK, NEW j \in Jobs, pc[j] \in {"read", "open", "write"}
    PROVE  /\ group[j] # {}
           /\ \A d \in group[j] : Quarter(d) = QuarterOf(j)
           /\ QuarterOf(j) \in Quarters
<1>1. group[j] # {} /\ group[j] \subseteq Days /\ \A d, e \in group[j] : Quarter(d) = Quarter(e)
  BY DEF TypeOK
<1>2. (CHOOSE d \in group[j] : TRUE) \in group[j] BY <1>1
<1> QED BY <1>1, <1>2 DEF QuarterOf, Quarters

LEMMA InitType == Init => TypeOK
<1> SUFFICES ASSUME Init PROVE TypeOK OBVIOUS
<1>1. 0 \in Days BY DEF Days
<1> QED BY <1>1 DEF Init, TypeOK

LEMMA TypeStep == TypeOK /\ [Next]_vars => TypeOK'
<1> SUFFICES ASSUME TypeOK, [Next]_vars PROVE TypeOK' OBVIOUS
<1> USE DEF TypeOK, disk, job, bound
<1>1. CASE Tick BY <1>1 DEF Tick, Days
<1>2. CASE Talk BY <1>2 DEF Talk, Days
<1>3. CASE Crash BY <1>3 DEF Crash, Disturb
<1>4. ASSUME NEW j \in Jobs, Step(j) PROVE TypeOK'
  <2>1. CASE Archive(j) BY <2>1 DEF Archive, Disturb
  <2>2. CASE Find(j)
    <3>1. \A d \in files : d \in Days BY DEF Days
    <3>2. OlderThan(Retention) \in SUBSET Days BY <3>1 DEF OlderThan
    <3> QED BY <2>2, <3>2 DEF Find
  <2>3. CASE NextQuarter(j) BY <2>3 DEF NextQuarter, OlderThan, Days
  <2>4. CASE Read(j) BY <2>4 DEF Read, Disturb
  <2>5. CASE Open(j)
    <3>1. summary' \in [Quarters -> SUBSET Days] BY <2>5 DEF Open
    <3>2. happened' \subseteq Disturbances /\ left' \in 0..MaxDisturbances
      BY <2>5 DEF Open, Disturb
    <3> QED BY <2>5, <3>1, <3>2 DEF Open
  <2>6. CASE Write(j) BY <2>6 DEF Write
  <2>7. CASE SummaryFails(j) BY <2>7 DEF SummaryFails, Disturb
  <2>8. CASE Delete(j)
    <3>1. group' \in [Jobs -> SUBSET Days] /\ missed' \in [Jobs -> SUBSET Days]
          /\ covered' \in [Jobs -> SUBSET Days] /\ files' \subseteq files
      BY <2>8 DEF Delete
    <3>2. happened' \subseteq Disturbances /\ left' \in 0..MaxDisturbances
      BY <2>8 DEF Delete, Disturb
    <3>3. pc' \in [Jobs -> {"idle", "find", "next", "read", "open", "write", "delete", "purge"}]
          /\ \A i \in Jobs : pc'[i] \in {"read", "open", "write"} =>
                pc'[i] = pc[i] /\ group'[i] = group[i]
      BY <2>8 DEF Delete
    <3> QED BY <2>8, <3>1, <3>2, <3>3 DEF Delete
  <2> QED BY <1>4, <2>1, <2>2, <2>3, <2>4, <2>5, <2>6, <2>7, <2>8 DEF Step
<1>5. CASE UNCHANGED vars BY <1>5 DEF vars
<1> QED BY <1>1, <1>2, <1>3, <1>4, <1>5 DEF Next

(* A conversation of today is not old. *)
LEMMA TalkIsRecent ==
    ASSUME TypeOK, Talk, NEW age \in Nat
    PROVE  OlderThan(age)' = OlderThan(age)
<1>1. now \in Int /\ now' = now /\ files' = files \cup {now} BY DEF TypeOK, Talk, Days
<1>2. ~(now - now > age) BY <1>1
<1> QED BY <1>1, <1>2 DEF OlderThan

LEMMA StagesStep == TypeOK /\ Stages /\ [Next]_vars => Stages'
<1> SUFFICES ASSUME TypeOK, Stages, [Next]_vars PROVE Stages' OBVIOUS
<1> USE DEF TypeOK, Stages, disk, job
<1>1. CASE Tick BY <1>1 DEF Tick
<1>2. CASE Talk BY <1>2 DEF Talk
<1>3. CASE Crash BY <1>3 DEF Crash
<1>4. ASSUME NEW j \in Jobs, Step(j) PROVE Stages'
  <2>1. CASE Archive(j) BY <2>1 DEF Archive
  <2>2. CASE Find(j) BY <2>2 DEF Find
  <2>3. CASE NextQuarter(j) BY <2>3 DEF NextQuarter
  <2>4. CASE Read(j) BY <2>4 DEF Read
  <2>5. CASE Open(j) BY <2>5 DEF Open
  <2>6. CASE Write(j) BY <2>6 DEF Write
  <2>7. CASE SummaryFails(j) BY <2>7 DEF SummaryFails
  <2>8. CASE Delete(j) BY <2>8 DEF Delete
  <2> QED BY <1>4, <2>1, <2>2, <2>3, <2>4, <2>5, <2>6, <2>7, <2>8 DEF Step
<1>5. CASE UNCHANGED vars BY <1>5 DEF vars
<1> QED BY <1>1, <1>2, <1>3, <1>4, <1>5 DEF Next

LEMMA OldOnlyStep == TypeOK /\ OldOnly /\ [Next]_vars => OldOnly'
<1> SUFFICES ASSUME TypeOK, OldOnly, [Next]_vars PROVE OldOnly' OBVIOUS
<1> USE DEF TypeOK, OldOnly, disk, job
<1>1. CASE Tick BY <1>1 DEF Tick, Days
<1>2. CASE Talk BY <1>2 DEF Talk
<1>3. CASE Crash BY <1>3 DEF Crash
<1>4. ASSUME NEW j \in Jobs, Step(j) PROVE OldOnly'
  <2>1. CASE Archive(j) BY <2>1 DEF Archive
  <2>2. CASE Find(j) BY <2>2 DEF Find, OlderThan
  <2>3. CASE NextQuarter(j)
    <3>1. \A d \in OlderThan(Cutoff) : now - d > Cutoff /\ now - d > Retention
      BY DEF OlderThan, Days
    <3> QED BY <2>3, <3>1 DEF NextQuarter
  <2>4. CASE Read(j) BY <2>4 DEF Read
  <2>5. CASE Open(j) BY <2>5 DEF Open
  <2>6. CASE Write(j) BY <2>6 DEF Write
  <2>7. CASE SummaryFails(j) BY <2>7 DEF SummaryFails
  <2>8. CASE Delete(j) BY <2>8 DEF Delete
  <2> QED BY <1>4, <2>1, <2>2, <2>3, <2>4, <2>5, <2>6, <2>7, <2>8 DEF Step
<1>5. CASE UNCHANGED vars BY <1>5 DEF vars
<1> QED BY <1>1, <1>2, <1>3, <1>4, <1>5 DEF Next

LEMMA RemainingStep == TypeOK /\ Stages /\ Remaining /\ [Next]_vars => Remaining'
<1> SUFFICES ASSUME TypeOK, Stages, Remaining, [Next]_vars PROVE Remaining' OBVIOUS
<1> USE DEF Remaining, disk, job, bound
<1>0. /\ pc \in [Jobs -> {"idle", "find", "next", "read", "open", "write", "delete", "purge"}]
      /\ found \in [Jobs -> SUBSET Days] /\ group \in [Jobs -> SUBSET Days]
      /\ missed \in [Jobs -> SUBSET Days]
  BY DEF TypeOK
<1>1. CASE Tick BY <1>0, <1>1 DEF Tick
<1>2. CASE Talk
  <2>1. OlderThan(Retention)' = OlderThan(Retention) BY <1>2, TalkIsRecent
  <2> QED BY <1>2, <2>1 DEF Talk
<1>3. CASE Crash BY <1>0, <1>3 DEF Crash
<1>4. ASSUME NEW j \in Jobs, Step(j) PROVE Remaining'
  <2>0. ASSUME files' = files, now' = now PROVE OlderThan(Retention)' = OlderThan(Retention)
    BY <2>0 DEF OlderThan
  <2>1. CASE Archive(j) BY <1>0, <2>0, <2>1 DEF Archive
  <2>2. CASE Find(j) BY <1>0, <2>0, <2>2 DEF Find
  <2>3. CASE NextQuarter(j)
    <3>1. \A i \in Jobs \ {j} :
              found'[i] = found[i] /\ group'[i] = group[i] /\ missed'[i] = missed[i] /\ pc'[i] = pc[i]
      BY <1>0, <2>3 DEF NextQuarter
    <3>2. found[j] \cup missed[j] \subseteq found'[j] \cup group'[j] \cup missed'[j]
      <4>1. CASE found[j] = {} BY <1>0, <2>3, <4>1 DEF NextQuarter
      <4>2. CASE found[j] # {} BY <1>0, <2>3, <4>2 DEF NextQuarter
      <4> QED BY <4>1, <4>2
    <3>3. group[j] = {} /\ pc[j] = "next" BY <2>3 DEF NextQuarter, Stages
    <3>4. OlderThan(Retention)' = OlderThan(Retention) BY <2>0, <2>3 DEF NextQuarter
    <3> QED BY <3>1, <3>2, <3>3, <3>4
  <2>4. CASE Read(j) BY <1>0, <2>0, <2>4 DEF Read
  <2>5. CASE Open(j) BY <1>0, <2>0, <2>5 DEF Open
  <2>6. CASE Write(j) BY <1>0, <2>0, <2>6 DEF Write
  <2>7. CASE SummaryFails(j) BY <1>0, <2>0, <2>7 DEF SummaryFails
  <2>8. CASE Delete(j)
    <3>0. /\ now' = now /\ found' = found /\ pc[j] \notin {"idle", "find"}
          /\ \A i \in Jobs \ {j} : group'[i] = group[i] /\ missed'[i] = missed[i] /\ pc'[i] = pc[i]
      BY <1>0, <2>8 DEF Delete
    <3>1. CASE group[j] = {} /\ files' = files
      BY <1>0, <2>0, <2>8, <3>0, <3>1 DEF Delete
    <3>2. ASSUME NEW d \in group[j], group' = [group EXCEPT ![j] = @ \ {d}],
                 files' = files \ {d} /\ missed' = missed
          PROVE  Remaining'
      <4>1. OlderThan(Retention)' = OlderThan(Retention) \ {d} BY <3>0, <3>2 DEF OlderThan
      <4>2. group'[j] = group[j] \ {d} BY <1>0, <3>2
      <4> QED BY <3>0, <3>2, <4>1, <4>2
    <3>3. ASSUME NEW d \in group[j], group' = [group EXCEPT ![j] = @ \ {d}],
                 files' = files, missed' = [missed EXCEPT ![j] = @ \cup {d}]
          PROVE  Remaining'
      <4>1. group'[j] = group[j] \ {d} /\ missed'[j] = missed[j] \cup {d} BY <1>0, <3>3
      <4> QED BY <2>0, <3>0, <3>3, <4>1
    <3> QED BY <2>8, <3>1, <3>2, <3>3 DEF Delete
  <2> QED BY <1>4, <2>1, <2>2, <2>3, <2>4, <2>5, <2>6, <2>7, <2>8 DEF Step
<1>5. CASE UNCHANGED vars BY <1>5 DEF vars, OlderThan
<1> QED BY <1>1, <1>2, <1>3, <1>4, <1>5 DEF Next

LEMMA WholeQuartersStep == TypeOK /\ Stages /\ WholeQuarters /\ [Next]_vars => WholeQuarters'
<1> SUFFICES ASSUME TypeOK, Stages, WholeQuarters, [Next]_vars PROVE WholeQuarters' OBVIOUS
<1> USE DEF WholeQuarters, disk, job
<1>0. /\ pc \in [Jobs -> {"idle", "find", "next", "read", "open", "write", "delete", "purge"}]
      /\ found \in [Jobs -> SUBSET Days] /\ group \in [Jobs -> SUBSET Days]
  BY DEF TypeOK
<1>1. CASE Tick BY <1>0, <1>1 DEF Tick, Stages
<1>2. CASE Talk
  <2>1. OlderThan(Retention)' = OlderThan(Retention) BY <1>2, TalkIsRecent
  <2> QED BY <1>2, <2>1 DEF Talk
<1>3. CASE Crash BY <1>0, <1>3 DEF Crash
<1>4. ASSUME NEW j \in Jobs, Step(j) PROVE WholeQuarters'
  <2>0. ASSUME files' \subseteq files, now' = now
        PROVE  OlderThan(Retention)' \subseteq OlderThan(Retention)
    BY <2>0 DEF OlderThan
  <2>1. CASE Archive(j) BY <1>0, <2>0, <2>1 DEF Archive
  <2>2. CASE Find(j)
    <3>1. OlderThan(Retention)' = OlderThan(Retention) BY <2>2 DEF Find, OlderThan
    <3> QED BY <1>0, <2>2, <3>1 DEF Find
  <2>3. CASE NextQuarter(j)
    <3>0. OlderThan(Retention)' = OlderThan(Retention) BY <2>3 DEF NextQuarter, OlderThan
    <3>1. CASE found[j] = {} BY <1>0, <2>3, <3>0, <3>1 DEF NextQuarter
    <3>2. CASE found[j] # {} BY <1>0, <2>3, <3>0, <3>2 DEF NextQuarter
    <3> QED BY <3>1, <3>2
  <2>4. CASE Read(j) BY <1>0, <2>0, <2>4 DEF Read
  <2>5. CASE Open(j) BY <1>0, <2>0, <2>5 DEF Open
  <2>6. CASE Write(j) BY <1>0, <2>0, <2>6 DEF Write
  <2>7. CASE SummaryFails(j) BY <1>0, <2>0, <2>7 DEF SummaryFails
  <2>8. CASE Delete(j) BY <1>0, <2>0, <2>8 DEF Delete
  <2> QED BY <1>4, <2>1, <2>2, <2>3, <2>4, <2>5, <2>6, <2>7, <2>8 DEF Step
<1>5. CASE UNCHANGED vars BY <1>5 DEF vars, OlderThan
<1> QED BY <1>1, <1>2, <1>3, <1>4, <1>5 DEF Next

LEMMA RecentStep == TypeOK /\ OldOnly /\ RecentKept /\ [Next]_vars => RecentKept'
<1> SUFFICES ASSUME TypeOK, OldOnly, RecentKept, [Next]_vars PROVE RecentKept' OBVIOUS
<1> USE DEF RecentKept, disk
<1>0. now \in Int /\ \A d \in talked : d \in Int BY DEF TypeOK, Days
<1>1. CASE Tick BY <1>0, <1>1 DEF Tick
<1>2. CASE Talk BY <1>2 DEF Talk
<1>3. CASE Crash BY <1>3 DEF Crash
<1>4. ASSUME NEW j \in Jobs, Step(j) PROVE RecentKept'
  <2>1. CASE Archive(j) BY <2>1 DEF Archive
  <2>2. CASE Find(j) BY <2>2 DEF Find
  <2>3. CASE NextQuarter(j) BY <2>3 DEF NextQuarter
  <2>4. CASE Read(j) BY <2>4 DEF Read
  <2>5. CASE Open(j) BY <2>5 DEF Open
  <2>6. CASE Write(j) BY <2>6 DEF Write
  <2>7. CASE SummaryFails(j) BY <2>7 DEF SummaryFails
  <2>8. CASE Delete(j)
    <3>1. \A d \in group[j] : ~(now - d <= Retention)
      BY <1>0 DEF OldOnly, TypeOK, Days
    <3> QED BY <2>8, <3>1 DEF Delete
  <2> QED BY <1>4, <2>1, <2>2, <2>3, <2>4, <2>5, <2>6, <2>7, <2>8 DEF Step
<1>5. CASE UNCHANGED vars BY <1>5 DEF vars
<1> QED BY <1>1, <1>2, <1>3, <1>4, <1>5 DEF Next

LEMMA SafeInit == Init => SafeInv
<1> SUFFICES ASSUME Init PROVE SafeInv OBVIOUS
<1>1. TypeOK BY InitType
<1>2. Stages /\ OldOnly /\ Remaining /\ WholeQuarters /\ RecentKept
  BY DEF Init, Stages, OldOnly, Remaining, WholeQuarters, RecentKept, OlderThan
<1> QED BY <1>1, <1>2 DEF SafeInv

LEMMA SafeInvariant == Spec => []SafeInv
<1>1. SafeInv /\ [Next]_vars => SafeInv'
  BY TypeStep, StagesStep, OldOnlyStep, RemainingStep, WholeQuartersStep, RecentStep DEF SafeInv
<1> QED BY <1>1, SafeInit, PTL DEF Spec

LEMMA CalmBefore == [Next]_vars /\ Calm' => Calm
<1> SUFFICES ASSUME [Next]_vars, Calm' PROVE happened \subseteq happened' BY DEF Calm
<1> USE DEF bound, Disturb
<1>1. CASE Tick \/ Talk \/ Crash BY <1>1 DEF Tick, Talk, Crash
<1>2. ASSUME NEW j \in Jobs, Step(j) PROVE happened \subseteq happened'
  BY <1>2 DEF Step, Archive, Find, NextQuarter, Read, Open, Write, SummaryFails, Delete
<1>3. CASE UNCHANGED vars BY <1>3 DEF vars
<1> QED BY <1>1, <1>2, <1>3 DEF Next

(* A summary that failed stays one. *)
LEMMA FailedStays == [Next]_vars /\ "diskFull" \in happened => "diskFull" \in happened'
<1> SUFFICES ASSUME [Next]_vars PROVE happened \subseteq happened' OBVIOUS
<1> USE DEF bound, Disturb
<1>1. CASE Tick \/ Talk \/ Crash BY <1>1 DEF Tick, Talk, Crash
<1>2. ASSUME NEW j \in Jobs, Step(j) PROVE happened \subseteq happened'
  BY <1>2 DEF Step, Archive, Find, NextQuarter, Read, Open, Write, SummaryFails, Delete
<1>3. CASE UNCHANGED vars BY <1>3 DEF vars
<1> QED BY <1>1, <1>2, <1>3 DEF Next

LEMMA CoversFilesStep ==
    ASSUME SafeInv, CoversFiles, [Next]_vars, Calm' PROVE CoversFiles'
<1> USE DEF CoversFiles, disk, job
<1>0. /\ TypeOK
      /\ pc \in [Jobs -> {"idle", "find", "next", "read", "open", "write", "delete", "purge"}]
      /\ group \in [Jobs -> SUBSET Days] /\ covered \in [Jobs -> SUBSET Days]
  BY DEF SafeInv, TypeOK
<1>1. CASE Tick BY <1>0, <1>1 DEF Tick
<1>2. CASE Talk
  <2>1. OlderThan(Retention)' = OlderThan(Retention) BY <1>0, <1>2, TalkIsRecent
  <2> QED BY <1>2, <2>1 DEF Talk
<1>3. CASE Crash BY <1>0, <1>3 DEF Crash
<1>4. ASSUME NEW j \in Jobs, Step(j) PROVE CoversFiles'
  <2>0. ASSUME files' \subseteq files, now' = now
        PROVE  OlderThan(Retention)' \subseteq OlderThan(Retention)
    BY <2>0 DEF OlderThan
  <2>1. CASE Archive(j) BY <1>0, <2>0, <2>1 DEF Archive
  <2>2. CASE Find(j) BY <1>0, <2>0, <2>2 DEF Find
  <2>3. CASE NextQuarter(j) BY <1>0, <2>0, <2>3 DEF NextQuarter
  <2>4. CASE Read(j)
    <3>1. covered'[j] = group[j] \cap files
      BY <1>0, <2>4 DEF Read, Disturb, Calm
    <3>2. \A d \in group[j], e \in OlderThan(Retention) :
              Quarter(e) = Quarter(d) => e \in group[j] \cap files
      BY <2>4 DEF Read, SafeInv, WholeQuarters, OlderThan
    <3>3. /\ \A i \in Jobs \ {j} : covered'[i] = covered[i] /\ pc'[i] = pc[i]
          /\ group' = group
      BY <1>0, <2>4 DEF Read
    <3> QED BY <2>0, <2>4, <3>1, <3>2, <3>3 DEF Read
  <2>5. CASE Open(j) BY <1>0, <2>0, <2>5 DEF Open
  <2>6. CASE Write(j) BY <1>0, <2>0, <2>6 DEF Write
  <2>7. CASE SummaryFails(j) BY <1>0, <2>0, <2>7 DEF SummaryFails
  <2>8. CASE Delete(j) BY <1>0, <2>0, <2>8 DEF Delete
  <2> QED BY <1>4, <2>1, <2>2, <2>3, <2>4, <2>5, <2>6, <2>7, <2>8 DEF Step
<1>5. CASE UNCHANGED vars BY <1>5 DEF vars, OlderThan
<1> QED BY <1>1, <1>2, <1>3, <1>4, <1>5 DEF Next

(* What a deletion takes is excused, or in the summary and in all that may *)
(* still be written over it.                                               *)
LEMMA DeletedIsKept ==
    ASSUME SafeInv, CoversFiles, SummaryFirst, NEW j \in Jobs, Delete(j),
           NEW d \in files \ files'
    PROVE  /\ d \in summary[Quarter(d)] \/ Excused(d)
           /\ \A i \in Jobs : pc[i] = "write" =>
                 \A e \in group[i] : Quarter(d) = Quarter(e) => d \in covered[i]
<1>1. d \in group[j] /\ pc[j] \in {"delete", "purge"} BY DEF Delete
<1>2. d \in OlderThan(Retention) BY <1>1 DEF SafeInv, OldOnly, OlderThan
<1>3. d \in summary[Quarter(d)] \/ Excused(d)
  <2>1. CASE pc[j] = "delete" BY <1>1, <2>1 DEF SummaryFirst
  <2>2. CASE pc[j] = "purge"
    <3>1. now - d > Cutoff BY <1>1, <2>2 DEF SafeInv, OldOnly
    <3>2. d \in Late(j) BY <1>1, <2>2 DEF Late
    <3> QED BY <3>1, <3>2 DEF Excused, SummaryFirst
  <2> QED BY <1>1, <2>1, <2>2
<1> QED BY <1>2, <1>3 DEF CoversFiles

(* What is excused stays so. *)
LEMMA ExcusedStays == TypeOK /\ [Next]_vars => \A d \in talked : Excused(d) => Excused(d)'
<1> SUFFICES ASSUME TypeOK, [Next]_vars, NEW d \in talked, Excused(d) PROVE Excused(d)'
  OBVIOUS
<1> USE DEF Excused, bound, Disturb
<1>0. now \in Int /\ d \in Int BY DEF TypeOK, Days
<1>1. CASE Tick BY <1>0, <1>1 DEF Tick
<1>2. CASE Talk \/ Crash BY <1>2 DEF Talk, Crash
<1>3. ASSUME NEW j \in Jobs, Step(j) PROVE Excused(d)'
  BY <1>3 DEF Step, Archive, Find, NextQuarter, Read, Open, Write, SummaryFails, Delete
<1>4. CASE UNCHANGED vars BY <1>4 DEF vars
<1> QED BY <1>1, <1>2, <1>3, <1>4 DEF Next

LEMMA CoversDeletedStep ==
    ASSUME SafeInv, CoversFiles, CoversDeleted, SummaryFirst, Archived,
           [Next]_vars, Calm, Calm'
    PROVE  CoversDeleted'
<1> USE DEF CoversDeleted, disk, job
<1>0. /\ TypeOK
      /\ pc \in [Jobs -> {"idle", "find", "next", "read", "open", "write", "delete", "purge"}]
      /\ group \in [Jobs -> SUBSET Days] /\ covered \in [Jobs -> SUBSET Days]
  BY DEF SafeInv, TypeOK
<1>e. \A d \in talked : Excused(d) => Excused(d)' BY <1>0, ExcusedStays
<1>1. CASE Tick BY <1>0, <1>1 DEF Tick
<1>2. CASE Talk BY <1>0, <1>2, <1>e DEF Talk
<1>3. CASE Crash BY <1>0, <1>3 DEF Crash
<1>4. ASSUME NEW j \in Jobs, Step(j) PROVE CoversDeleted'
  <2>1. CASE Archive(j) BY <1>0, <1>e, <2>1 DEF Archive
  <2>2. CASE Find(j) BY <1>0, <1>e, <2>2 DEF Find
  <2>3. CASE NextQuarter(j) BY <1>0, <1>e, <2>3 DEF NextQuarter
  <2>4. CASE Read(j) BY <1>0, <1>e, <2>4 DEF Read
  <2>5. CASE Open(j)
    <3>1. summary[QuarterOf(j)] = {} BY <2>5 DEF Open, Disturb, Calm
    <3>2. \A d \in group[j] : Quarter(d) = QuarterOf(j)
      BY <1>0, <2>5, QuarterOfGroup DEF Open
    <3>3. \A d \in group[j], e \in talked \ files : Quarter(e) = Quarter(d) => Excused(e)
      BY <3>1, <3>2 DEF Archived, Calm, Excused
    <3> QED BY <1>0, <1>e, <2>5, <3>3 DEF Open
  <2>6. CASE Write(j) BY <1>0, <1>e, <2>6 DEF Write
  <2>7. CASE SummaryFails(j) BY <1>0, <1>e, <2>7 DEF SummaryFails
  <2>8. CASE Delete(j)
    <3>1. \A i \in Jobs, d \in files \ files' : pc[i] = "write" =>
            \A e \in group[i] : Quarter(d) = Quarter(e) => d \in covered[i]
      BY <2>8, DeletedIsKept
    <3>2. /\ talked' = talked /\ pc[j] # "write" /\ pc'[j] # "write"
          /\ \A i \in Jobs \ {j} :
                pc'[i] = pc[i] /\ group'[i] = group[i] /\ covered'[i] = covered[i]
      BY <1>0, <2>8 DEF Delete
    <3> QED BY <1>e, <3>1, <3>2
  <2> QED BY <1>4, <2>1, <2>2, <2>3, <2>4, <2>5, <2>6, <2>7, <2>8 DEF Step
<1>5. CASE UNCHANGED vars BY <1>e, <1>5 DEF vars
<1> QED BY <1>1, <1>2, <1>3, <1>4, <1>5 DEF Next

(* Opening a summary changes none that is not empty; writing it leaves what *)
(* is being deleted, and what is gone, in it.                              *)
LEMMA SummaryStays ==
    ASSUME SafeInv, CoversFiles, CoversDeleted, NEW j \in Jobs, Step(j), Calm, Calm'
    PROVE  \A d \in talked : d \in summary[Quarter(d)] =>
              \/ d \in summary'[Quarter(d)]
              \/ d \in files /\ ~(now - d > Retention)
              \/ d \notin files /\ Excused(d)
<1> SUFFICES ASSUME NEW d \in talked, d \in summary[Quarter(d)], summary' # summary
             PROVE  \/ d \in summary'[Quarter(d)]
                    \/ d \in files /\ ~(now - d > Retention)
                    \/ d \notin files /\ Excused(d)
  OBVIOUS
<1>0. TypeOK /\ Quarter(d) \in Quarters BY DEF SafeInv, TypeOK, Days, Quarters
<1>1. Open(j) \/ Write(j)
  BY DEF Step, Archive, Find, NextQuarter, Read, SummaryFails, Delete, disk
<1>2. /\ group[j] # {} /\ \A e \in group[j] : Quarter(e) = QuarterOf(j)
      /\ QuarterOf(j) \in Quarters
  BY <1>0, <1>1, QuarterOfGroup DEF Open, Write
<1>3. summary \in [Quarters -> SUBSET Days] BY <1>0 DEF TypeOK
<1>4. ~Open(j)
  <2> SUFFICES ASSUME Open(j) PROVE FALSE OBVIOUS
  <2>1. summary[QuarterOf(j)] = {} BY DEF Open, Disturb, Calm
  <2>2. summary' = summary BY <1>2, <1>3, <2>1 DEF Open
  <2> QED BY <2>2
<1>5. summary' = [summary EXCEPT ![QuarterOf(j)] = covered[j]] /\ pc[j] = "write"
  BY <1>1, <1>4 DEF Write
<1>6. CASE Quarter(d) # QuarterOf(j) BY <1>0, <1>2, <1>3, <1>5, <1>6
<1>7. CASE Quarter(d) = QuarterOf(j)
  <2>1. summary'[Quarter(d)] = covered[j] BY <1>2, <1>3, <1>5, <1>7
  <2>2. CASE d \in files BY <1>2, <1>5, <1>7, <2>1, <2>2 DEF CoversFiles, OlderThan
  <2>3. CASE d \notin files BY <1>2, <1>5, <1>7, <2>1, <2>3 DEF CoversDeleted
  <2> QED BY <2>2, <2>3
<1> QED BY <1>6, <1>7

LEMMA SummaryFirstStep ==
    ASSUME SafeInv, CoversFiles, CoversDeleted, SummaryFirst, [Next]_vars, Calm, Calm'
    PROVE  SummaryFirst'
<1> USE DEF SummaryFirst, disk, job
<1>0. /\ TypeOK /\ files \subseteq talked
      /\ pc \in [Jobs -> {"idle", "find", "next", "read", "open", "write", "delete", "purge"}]
      /\ group \in [Jobs -> SUBSET Days] /\ missed \in [Jobs -> SUBSET Days]
      /\ \A i \in Jobs : \A d \in group[i] \cup missed[i] : now - d > Retention
  BY DEF SafeInv, TypeOK, OldOnly
<1>1. CASE Tick BY <1>0, <1>1 DEF Tick, Late, bound
<1>2. CASE Talk
  <2>1. ~(now - now > Retention) BY DEF SafeInv, TypeOK, Days
  <2>2. \A i \in Jobs : now \notin group[i] \cup missed[i] BY <1>0, <2>1
  <2> QED BY <1>2, <2>2 DEF Talk, Late, bound
<1>3. CASE Crash BY <1>0, <1>3 DEF Crash, Late
<1>4. ASSUME NEW j \in Jobs, Step(j) PROVE SummaryFirst'
  <2>1. \A i \in Jobs : \A d \in (group[i] \cup missed[i]) \cap files :
            d \in summary[Quarter(d)] => d \in summary'[Quarter(d)]
    BY <1>0, <1>4, SummaryStays
  <2>2. files' \subseteq files
    BY <1>4 DEF Step, Archive, Find, NextQuarter, Read, Open, Write, SummaryFails, Delete
  <2>3. ASSUME "diskFull" \notin happened', NEW i \in Jobs, NEW d \in Late(i)' \cap files'
        PROVE  d \in summary'[Quarter(d)]
    <3>0. "diskFull" \notin happened /\ d \in files BY <2>2, <2>3, FailedStays
    <3>1. CASE d \in Late(i)
      BY <2>1, <3>0, <3>1 DEF Late
    <3>2. CASE d \notin Late(i)
      <4>1. i = j /\ (NextQuarter(j) \/ Delete(j))
        BY <1>0, <1>4, <2>3, <3>2
        DEF Late, Step, Archive, Find, NextQuarter, Read, Open, Write, SummaryFails, Delete, Disturb
      <4>2. CASE NextQuarter(j)
        <5>1. d \in OlderThan(Cutoff) /\ pc[j] = "next" /\ found[j] = {}
          BY <1>0, <2>3, <3>2, <4>1, <4>2 DEF NextQuarter, Late
        <5>2. d \in OlderThan(Retention) BY <5>1 DEF OlderThan, SafeInv, TypeOK, Days
        <5>3. d \in missed[j] BY <5>1, <5>2 DEF SafeInv, Remaining, Stages
        <5> QED BY <3>2, <4>1, <5>3 DEF Late
      <4>3. CASE Delete(j)
        <5>1. d \in group[j] /\ pc[j] = "delete"
          BY <1>0, <2>3, <3>2, <4>1, <4>3 DEF Delete, Late
        <5> QED BY <2>1, <3>0, <5>1
      <4> QED BY <4>1, <4>2, <4>3
    <3> QED BY <3>1, <3>2
  <2>4. ASSUME NEW i \in Jobs, pc'[i] = "delete", NEW d \in group'[i] \cap files'
        PROVE  d \in summary'[Quarter(d)]
    <3>1. CASE Write(j) /\ i = j
      <4>1. /\ \A e \in group[j] : Quarter(e) = QuarterOf(j)
            /\ QuarterOf(j) \in Quarters
        BY <1>0, <3>1, QuarterOfGroup DEF Write
      <4>2. summary'[QuarterOf(j)] = covered[j]
        BY <1>0, <3>1, <4>1 DEF Write, TypeOK
      <4>3. \A e \in group[j] \cap files : e \in covered[j]
        BY <1>0, <3>1 DEF Write, CoversFiles, OlderThan
      <4> QED BY <2>4, <3>1, <4>1, <4>2, <4>3 DEF Write
    <3>2. CASE ~(Write(j) /\ i = j)
      <4>1. pc[i] = "delete" /\ group'[i] \subseteq group[i]
        BY <1>0, <1>4, <2>4, <3>2
        DEF Step, Archive, Find, NextQuarter, Read, Open, Write, SummaryFails, Delete
      <4> QED BY <2>1, <2>2, <2>4, <4>1
    <3> QED BY <3>1, <3>2
  <2> QED BY <2>3, <2>4
<1>5. CASE UNCHANGED vars BY <1>5 DEF vars, Late, bound
<1> QED BY <1>1, <1>2, <1>3, <1>4, <1>5 DEF Next

LEMMA ArchivedStep ==
    ASSUME SafeInv, CoversFiles, CoversDeleted, SummaryFirst, Archived,
           [Next]_vars, Calm, Calm'
    PROVE  Archived'
<1>0. TypeOK /\ \A d \in talked : Excused(d) => Excused(d)'
  BY ExcusedStays DEF SafeInv
<1>e. Archived <=> \A d \in talked \ files : d \in summary[Quarter(d)] \/ Excused(d)
  BY DEF Archived, Excused, Calm
<1>f. Archived' <=> \A d \in talked' \ files' : d \in summary'[Quarter(d)] \/ Excused(d)'
  BY DEF Archived, Excused, Calm
<1>1. CASE Tick BY <1>0, <1>1, <1>e, <1>f DEF Tick, disk
<1>2. CASE Talk BY <1>0, <1>2, <1>e, <1>f DEF Talk
<1>3. CASE Crash BY <1>0, <1>3, <1>e, <1>f DEF Crash, disk
<1>4. ASSUME NEW j \in Jobs, Step(j) PROVE Archived'
  <2>1. talked' = talked
    BY <1>4 DEF Step, Archive, Find, NextQuarter, Read, Open, Write, SummaryFails, Delete
  <2>2. CASE files' = files
    <3>1. \A d \in talked \ files : d \in summary[Quarter(d)] =>
              d \in summary'[Quarter(d)] \/ Excused(d)
      BY <1>4, SummaryStays
    <3> QED BY <1>0, <1>e, <1>f, <2>1, <2>2, <3>1
  <2>3. CASE files' # files
    <3>1. Delete(j) /\ summary' = summary
      BY <1>4, <2>3
      DEF Step, Archive, Find, NextQuarter, Read, Open, Write, SummaryFails, Delete, disk
    <3>2. \A d \in files \ files' : d \in summary[Quarter(d)] \/ Excused(d)
      BY <3>1, DeletedIsKept
    <3> QED BY <1>0, <1>e, <1>f, <2>1, <3>1, <3>2
  <2> QED BY <2>2, <2>3
<1>5. CASE UNCHANGED vars BY <1>0, <1>5, <1>e, <1>f DEF vars, disk
<1> QED BY <1>1, <1>2, <1>3, <1>4, <1>5 DEF Next

LEMMA ArchiveInvariant == Spec => []ArchiveInv
<1>1. Init => ArchiveInv
  BY DEF Init, ArchiveInv, CoversFiles, CoversDeleted, SummaryFirst, Archived
<1>2. SafeInv /\ ArchiveInv /\ [Next]_vars => ArchiveInv'
  BY CalmBefore, CoversFilesStep, CoversDeletedStep, SummaryFirstStep, ArchivedStep
  DEF ArchiveInv
<1> QED BY <1>1, <1>2, SafeInvariant, PTL DEF Spec
-----------------------------------------------------------------------------
(* Every variable keeps its type, files are only of days with a            *)
(* conversation, and what generateQuarterSummary gets is of one quarter.   *)
THEOREM CompactionTyped == Spec => []TypeOK
<1>1. SafeInv => TypeOK BY DEF SafeInv
<1> QED BY <1>1, SafeInvariant, PTL

(* performCompaction never deletes a recent conversation, whatever fails.  *)
THEOREM RecentIsKept == Spec => []RecentKept
<1>1. SafeInv => RecentKept BY DEF SafeInv
<1> QED BY <1>1, SafeInvariant, PTL

(* What performCompaction deletes is in its quarter's summary, for any     *)
(* number of compactions at once and wherever the process is killed, as    *)
(* long as no quarter is summarised again and all files can be read.       *)
THEOREM DeletedIsArchived == Spec => []Archived
<1>1. ArchiveInv => Archived BY DEF ArchiveInv, Archived, Calm
<1> QED BY <1>1, ArchiveInvariant, PTL

(* Of the old files, a performCompaction that ends leaves only those whose *)
(* quarter it could not summarise or which it could not delete.            *)
THEOREM CompactionCompletes == Spec => NothingOldLeft
<1> DEFINE Complete(j) ==
        pc[j] = "purge" /\ pc'[j] = "idle" /\ left' = left =>
            OlderThan(Retention) \subseteq missed[j]
<1>1. SafeInv /\ [Next]_vars => \A j \in Jobs : Complete(j)
  <2> SUFFICES ASSUME SafeInv, [Next]_vars, NEW j \in Jobs,
                      pc[j] = "purge", pc'[j] = "idle", left' = left
               PROVE  OlderThan(Retention) \subseteq missed[j]
    OBVIOUS
  <2>0. left \in Int
    BY DEF SafeInv, TypeOK
  <2>1. ~Crash BY <2>0 DEF Crash, Disturb
  <2>2. \E i \in Jobs : Step(i) BY <2>1 DEF Next, Tick, Talk, vars, job
  <2>3. pc \in [Jobs -> {"idle", "find", "next", "read", "open", "write", "delete", "purge"}]
    BY DEF SafeInv, TypeOK
  <2>4. group[j] = {}
    BY <2>2, <2>3 DEF Step, Archive, Find, NextQuarter, Read, Open, Write, SummaryFails, Delete
  <2>5. found[j] = {} BY DEF SafeInv, Stages
  <2> QED BY <2>4, <2>5 DEF SafeInv, Remaining
<1>2. (\A j \in Jobs : Complete(j)) =>
         [\A j \in Jobs : pc[j] = "purge" /\ pc'[j] = "idle" /\ left' = left =>
            OlderThan(Retention) \subseteq missed[j]]_vars
  OBVIOUS
<1> QED BY <1>1, <1>2, SafeInvariant, PTL DEF Spec, NothingOldLeft
=============================================================================
