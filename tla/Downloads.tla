------------------------------ MODULE Downloads ------------------------------
(***************************************************************************)
(* The download of one model file by OfflineModelPickerScreen.kt: the jobs *)
(* of startDownload, the temporary file they fill and rename, the global   *)
(* DownloadManager, and a screen that may be closed and opened again.      *)
(*                                                                         *)
(* The model is Size chunks; a file is its size and the positions at which *)
(* it holds the right chunk.  Unlinking a file that is open leaves its     *)
(* writer writing: tmp and final are names, a job holds the file itself.   *)
(* The user interface runs on the main thread; a step of a job is a        *)
(* blocking call or the code up to the next.  A cancelled job goes on      *)
(* until it suspends: at a progress report, a backoff or its result.       *)
(* activeDownloads is assigned with the launch.  A model is downloaded for *)
(* one device class, so the two buttons that start it are one action.      *)
(***************************************************************************)
EXTENDS Integers, FiniteSets

CONSTANTS
    Jobs, Files,
    NoJob, NoFile,
    Size,               \* chunks of the model
    Enough,             \* the fewest chunks that are 99 % of it
    MaxAttempts,        \* 500 in downloadWithRetry
    Disturbances,       \* what may happen, see AllDisturbances
    MaxDisturbances     \* and how often (bound)

AllDisturbances ==
    {"serverFails",     \* a request or a read fails, or is too slow
     "noRange",         \* the server ignores the Range header
     "noLength",        \* its rest has a place and no length, and breaks off
     "noTotal",         \* it announces no size at all, and breaks off
     "renameFails",     \* renameTo returns false
     "deleteFails",     \* File.delete returns false, for a model
     "noSize",          \* the HEAD request finds no size, or the disk is full
     "crash",           \* the process is killed and started again
     "reopen",          \* the screen is left and entered again
     "cancel", "delete",
     "lateClear"}       \* the error is cleared 5 s late, into the next try

ASSUME DownloadsAssumption ==
    /\ NoJob \notin Jobs /\ NoFile \notin Files
    /\ Size \in Nat \ {0} /\ Enough \in 1..Size /\ MaxAttempts \in Nat \ {0}
    /\ Disturbances \subseteq AllDisturbances /\ MaxDisturbances \in Nat

VARIABLES
    content,        \* what each file holds
    tmp, final,     \* the files the two names stand for
    pc,             \* where each job is
    fd,             \* the file it has open, and whether it appends
    pos,            \* the next chunk it receives, resumeFrom before that
    announced,      \* what the response says: its "length", or only where
                    \* it belongs in the "total", or "nothing"
    attempt,
    cancelled,      \* jobs whose cancel() was called
    active,         \* activeDownloads[model.id]
    state,          \* DownloadManager.downloadStates[model.id]
    clearing,       \* a postDelayed clear is pending
    shown,          \* downloadedModels[model.id] of the open screen
    current,        \* jobs whose callbacks belong to the open screen
    happened, left  \* the disturbances so far, with "exhausted" when all
                    \* attempts were made, and how many may follow

disk == <<content, tmp, final>>
job == <<pc, fd, pos, announced, attempt>>
ui == <<state, clearing, shown, current>>
bound == <<happened, left>>
vars == <<disk, job, cancelled, active, ui, bound>>

Closed == [file |-> NoFile, append |-> FALSE]
Empty == [size |-> 0, right |-> {}]
Whole == 0..(Size - 1)
Running == {j \in Jobs : pc[j] # "idle"}
Length(f) == IF f = NoFile THEN 0 ELSE content[f].size
Complete(f) == content[f] = [size |-> Size, right |-> Whole]

(* Files that no name and no job refers to: a new file is one of them. *)
Free == {f \in Files : f \notin {tmp, final} /\ \A j \in Jobs : fd[j].file # f}

NewFile == IF Free = {} THEN {} ELSE {CHOOSE f \in Free : TRUE}

Disturb(d) ==
    /\ d \in Disturbances /\ left > 0
    /\ left' = left - 1
    /\ happened' = happened \cup {d}

Init ==
    /\ content = [f \in Files |-> Empty] /\ tmp = NoFile /\ final = NoFile
    /\ pc = [j \in Jobs |-> "idle"] /\ fd = [j \in Jobs |-> Closed]
    /\ pos = [j \in Jobs |-> 0] /\ announced = [j \in Jobs |-> "length"]
    /\ attempt = [j \in Jobs |-> 0]
    /\ cancelled = {} /\ active = NoJob
    /\ state = "none" /\ clearing = FALSE /\ shown = FALSE /\ current = {}
    /\ happened = {} /\ left = MaxDisturbances

-----------------------------------------------------------------------------
(* The user interface *)

(* Get: startDownload, unless one is said to be running.  The button is    *)
(* there for a model that is not shown as downloaded.                      *)
Get(j) ==
    /\ ~shown
    /\ state # "downloading"
    /\ pc[j] = "idle"
    /\ pc' = [pc EXCEPT ![j] = "head"]
    /\ state' = "downloading"
    /\ active' = j
    /\ current' = current \cup {j}
    /\ UNCHANGED <<disk, fd, pos, announced, attempt, cancelled, clearing, shown, bound>>

(* cancelDownload: the registered job is cancelled, the temporary file     *)
(* deleted if that succeeds, whoever writes it.                            *)
Cancel ==
    /\ Disturb("cancel")
    /\ state = "downloading"
    /\ cancelled' = cancelled \cup ({active} \cap Running)
    /\ active' = NoJob
    /\ tmp' \in {NoFile, tmp}
    /\ state' = "none"
    /\ UNCHANGED <<content, final, job, clearing, shown, current>>

(* Mutant: the model file is not deleted. *)
Delete_OnlyTmp ==
    /\ Disturb("delete")
    /\ shown /\ state # "downloading"
    /\ tmp' = NoFile
    /\ shown' = FALSE
    /\ UNCHANGED <<content, final, job, cancelled, active, state, clearing, current>>

(* deleteModel: DownloadManager keeps what it has. *)
Delete ==
    /\ Disturb("delete")
    /\ shown /\ state # "downloading"
    /\ tmp' = NoFile /\ final' = NoFile
    /\ shown' = FALSE
    /\ UNCHANGED <<content, job, cancelled, active, state, clearing, current>>

(* Its result does not depend on what File.delete returns. *)
DeleteFails ==
    /\ Disturb("deleteFails")
    /\ shown /\ state # "downloading"
    /\ tmp' \in {NoFile, tmp} /\ final' \in {NoFile, final}
    /\ shown' = FALSE
    /\ UNCHANGED <<content, job, cancelled, active, state, clearing, current>>

(* The scan of a screen that is entered. *)
Scan(st) == final # NoFile \/ st = "completed"

Reopen ==
    /\ Disturb("reopen")
    /\ shown' = Scan(state)
    /\ current' = {}
    /\ UNCHANGED <<disk, job, cancelled, active, state, clearing>>

(* The process dies: jobs and DownloadManager are gone, the files stay. *)
Crash ==
    /\ Disturb("crash")
    /\ pc' = [j \in Jobs |-> "idle"] /\ fd' = [j \in Jobs |-> Closed]
    /\ pos' = [j \in Jobs |-> 0] /\ announced' = [j \in Jobs |-> "length"]
    /\ attempt' = [j \in Jobs |-> 0]
    /\ cancelled' = {} /\ active' = NoJob
    /\ state' = "none" /\ clearing' = FALSE /\ current' = {}
    /\ shown' = Scan("none")
    /\ UNCHANGED disk

(* DownloadManager.clear, 5 s after an error. *)
ClearError ==
    /\ clearing
    /\ IF state = "error" THEN UNCHANGED bound ELSE Disturb("lateClear")
    /\ clearing' = FALSE
    /\ state' = "none"
    /\ UNCHANGED <<disk, job, cancelled, active, shown, current>>

User == (\E j \in Jobs : Get(j)) \/ Cancel \/ Delete \/ DeleteFails \/ Reopen \/ Crash

-----------------------------------------------------------------------------
(* The job *)

(* Mutant: a job that has ended still counts as cancelled. *)
End_StaysCancelled(j) ==
    /\ pc' = [pc EXCEPT ![j] = "idle"]
    /\ fd' = [fd EXCEPT ![j] = Closed]
    /\ pos' = [pos EXCEPT ![j] = 0] /\ announced' = [announced EXCEPT ![j] = "length"]
    /\ attempt' = [attempt EXCEPT ![j] = 0]
    /\ UNCHANGED cancelled

End(j) ==
    /\ pc' = [pc EXCEPT ![j] = "idle"]
    /\ fd' = [fd EXCEPT ![j] = Closed]
    /\ pos' = [pos EXCEPT ![j] = 0] /\ announced' = [announced EXCEPT ![j] = "length"]
    /\ attempt' = [attempt EXCEPT ![j] = 0]
    /\ cancelled' = cancelled \ {j}

(* A cancelled job reaches a point where it may suspend.                   *)
(* activeDownloads.remove(model.id) takes out whatever is registered.      *)
CancelSeen(j) ==
    /\ j \in cancelled
    /\ pc[j] \in {"resuming", "reading", "backoff", "done", "failed"}
    /\ End(j)
    /\ active' = IF pc[j] = "failed" THEN active ELSE NoJob
    /\ UNCHANGED <<disk, ui, bound>>

(* The HEAD request for the size, and the check of the free space. *)
Head(j) ==
    /\ pc[j] = "head"
    /\ \/ pc' = [pc EXCEPT ![j] = "attempt"] /\ UNCHANGED <<active, bound>>
       \/ pc' = [pc EXCEPT ![j] = "failed"] /\ active' = NoJob /\ Disturb("noSize")
    /\ UNCHANGED <<disk, fd, pos, announced, attempt, cancelled, ui>>

(* Mutants: one attempt fewer, and no end of attempts. *)
LastAttempt_OneFewer(j) == attempt[j] = MaxAttempts - 1
LastAttempt_Never(j) == FALSE

(* maxAttempts have failed. *)
LastAttempt(j) == attempt[j] = MaxAttempts

(* The head of downloadWithRetry's loop.  After the last attempt it just   *)
(* returns.                                                                *)
Attempt(j) ==
    /\ pc[j] = "attempt"
    /\ IF LastAttempt(j)
       THEN /\ pc' = [pc EXCEPT ![j] = "done"]
            /\ active' = NoJob
            /\ happened' = happened \cup {"exhausted"}
            /\ UNCHANGED <<pos, attempt>>
       ELSE /\ attempt' = [attempt EXCEPT ![j] = IF @ < MaxAttempts THEN @ + 1 ELSE @]
            /\ pos' = [pos EXCEPT ![j] = Length(tmp)]
            /\ pc' = [pc EXCEPT ![j] = IF Length(tmp) > 0 THEN "resuming" ELSE "request"]
            /\ UNCHANGED <<active, happened>>
    /\ UNCHANGED <<disk, fd, announced, cancelled, ui, left>>

(* The progress of what was saved is reported on the main thread. *)
Resume(j) ==
    /\ pc[j] = "resuming" /\ j \notin cancelled
    /\ pc' = [pc EXCEPT ![j] = "request"]
    /\ state' = "downloading"
    /\ UNCHANGED <<disk, fd, pos, announced, attempt, cancelled, active, clearing, shown,
                   current, bound>>

Fail(j) == pc' = [pc EXCEPT ![j] = "backoff"] /\ fd' = [fd EXCEPT ![j] = Closed]

(* f gets the name tmp and is opened, with what it holds if it is appended *)
(* to.                                                                     *)
Open(j, f, append) ==
    /\ tmp' = f
    /\ content' = IF append /\ f = tmp THEN content ELSE [content EXCEPT ![f] = Empty]
    /\ fd' = [fd EXCEPT ![j] = [file |-> f, append |-> append]]
    /\ pc' = [pc EXCEPT ![j] = "reading"]

(* The file named tmp, or a new one. *)
TmpFile == IF tmp = NoFile THEN NewFile ELSE {tmp}

Announces(j, what) == announced' = [announced EXCEPT ![j] = what]

(* 206: the rest is appended.  Content-Range tells the size of the whole,  *)
(* Content-Length the size of the rest, if they are there.                 *)
Partial(j) ==
    /\ pos[j] \in 1..(Size - 1)
    /\ \E f \in TmpFile : Open(j, f, TRUE)
    /\ \/ Announces(j, "length") /\ UNCHANGED bound
       \/ Announces(j, "total") /\ Disturb("noLength")
       \/ Announces(j, "nothing") /\ Disturb("noTotal")
    /\ UNCHANGED pos

(* Mutant: a restart from 0 appends to what is there. *)
Full_Appends(j) ==
    /\ \E f \in TmpFile : Open(j, f, TRUE)
    /\ pos' = [pos EXCEPT ![j] = 0]
    /\ announced' = [announced EXCEPT ![j] = "length"]
    /\ IF pos[j] = 0 THEN UNCHANGED bound ELSE Disturb("noRange")

(* 200: the whole file, over what is there, which is deleted first, if     *)
(* that succeeds, when only the rest was asked for.                        *)
Full(j) ==
    /\ \E f \in IF pos[j] = 0 THEN TmpFile ELSE TmpFile \cup NewFile : Open(j, f, FALSE)
    /\ pos' = [pos EXCEPT ![j] = 0]
    /\ \/ /\ Announces(j, "length")
          /\ IF pos[j] = 0 THEN UNCHANGED bound ELSE Disturb("noRange")
       \/ /\ Announces(j, "nothing")
          /\ IF pos[j] = 0 THEN Disturb("noTotal")
             ELSE Disturb("noRange") /\ "noTotal" \in happened

(* downloadOnce: the response to the GET request, an error 416 if nothing  *)
(* is left to send.                                                        *)
Request(j) ==
    /\ pc[j] = "request"
    /\ \/ Partial(j) /\ UNCHANGED final
       \/ Full(j) /\ UNCHANGED final
       \/ /\ Fail(j)
          /\ IF pos[j] >= Size THEN UNCHANGED bound ELSE Disturb("serverFails")
          /\ UNCHANGED <<disk, pos, announced>>
    /\ UNCHANGED <<attempt, cancelled, active, ui>>

(* Chunk p is written: at the end, or at the writer's own offset. *)
Written(c, p, append) ==
    LET at == IF append THEN c.size ELSE p IN
    [size |-> IF at < c.size THEN c.size ELSE at + 1,
     right |-> IF at = p THEN c.right \cup {p} ELSE c.right \ {at}]

Write(j) ==
    /\ pc[j] = "reading" /\ pos[j] < Size
    /\ content' = [content EXCEPT ![fd[j].file] = Written(@, pos[j], fd[j].append)]
    /\ pos' = [pos EXCEPT ![j] = @ + 1]
    /\ UNCHANGED <<tmp, final, pc, fd, announced, attempt, cancelled, active, ui, bound>>

(* Every 2 s the progress is reported on the main thread. *)
Progress(j) ==
    /\ pc[j] = "reading" /\ j \notin cancelled
    /\ state # "downloading"
    /\ state' = "downloading"
    /\ UNCHANGED <<disk, job, cancelled, active, clearing, shown, current, bound>>

(* The connection breaks or is too slow; only a response without a length  *)
(* ends like a complete one.                                               *)
ReadFails(j) ==
    /\ pc[j] = "reading" /\ pos[j] < Size
    /\ Disturb("serverFails")
    /\ Fail(j)
    /\ UNCHANGED <<disk, pos, announced, attempt, cancelled, active, ui>>

ReadEnds(j) ==
    /\ pc[j] = "reading"
    /\ pos[j] = Size \/ announced[j] # "length"
    /\ pc' = [pc EXCEPT ![j] = "received"]
    /\ fd' = [fd EXCEPT ![j] = Closed]
    /\ UNCHANGED <<disk, pos, announced, attempt, cancelled, active, ui, bound>>

(* The check against actualTotal, which a response without a size passes.  *)
LongEnough(j) == announced[j] = "nothing" \/ Length(tmp) >= Enough

(* The length of the file named tmp is checked, and it is renamed.  If     *)
(* that fails it stays, and there is nothing left to ask the server for.   *)
Publish(j) ==
    /\ pc[j] = "received"
    /\ \/ /\ LongEnough(j) /\ tmp # NoFile
          /\ final' = tmp /\ tmp' = NoFile
          /\ pc' = [pc EXCEPT ![j] = "done"]
          /\ active' = NoJob
          /\ UNCHANGED <<fd, bound>>
       \/ /\ IF LongEnough(j) /\ tmp # NoFile THEN Disturb("renameFails") ELSE UNCHANGED bound
          /\ Fail(j)
          /\ UNCHANGED <<tmp, final, active>>
    /\ UNCHANGED <<content, pos, announced, attempt, cancelled, ui>>

(* Any failure of an attempt is followed by a short delay and the next. *)
Backoff(j) ==
    /\ pc[j] = "backoff" /\ j \notin cancelled
    /\ pc' = [pc EXCEPT ![j] = "attempt"]
    /\ UNCHANGED <<disk, fd, pos, announced, attempt, cancelled, active, ui, bound>>

(* onComplete(true) *)
Succeed(j) ==
    /\ pc[j] = "done" /\ j \notin cancelled
    /\ End(j)
    /\ state' = "completed"
    /\ shown' = (shown \/ j \in current)
    /\ UNCHANGED <<disk, active, clearing, current, bound>>

(* onComplete(false): the error, to be cleared in 5 s. *)
GiveUp(j) ==
    /\ pc[j] = "failed" /\ j \notin cancelled
    /\ End(j)
    /\ state' = "error"
    /\ clearing' = TRUE
    /\ UNCHANGED <<disk, active, shown, current, bound>>

Step(j) ==
    \/ Head(j) \/ Attempt(j) \/ Resume(j) \/ Request(j) \/ Write(j) \/ ReadFails(j)
    \/ ReadEnds(j) \/ Publish(j) \/ Backoff(j) \/ Succeed(j) \/ GiveUp(j) \/ CancelSeen(j)

Next == User \/ ClearError \/ \E j \in Jobs : Step(j) \/ Progress(j)

Spec == Init /\ [][Next]_vars

(* Dispatchers.IO runs the job: connections and reads time out after 10 s, *)
(* and a server that sends fewer than 5 KB/s is left.                      *)
FairSpec == Spec /\ \A j \in Jobs : WF_vars(Step(j))

-----------------------------------------------------------------------------
(* Properties *)

(* Every variable has its type; a job is cancelled only while it runs,      *)
(* holds a file only while it reads and is registered only before its end. *)
TypeOK ==
    /\ content \in [Files -> [size : Nat, right : SUBSET Whole]]
    /\ tmp \in Files \cup {NoFile} /\ final \in Files \cup {NoFile}
    /\ pc \in [Jobs -> {"idle", "head", "attempt", "resuming", "request", "reading",
                         "received", "backoff", "done", "failed"}]
    /\ fd \in [Jobs -> [file : Files \cup {NoFile}, append : BOOLEAN]]
    /\ \A j \in Jobs : fd[j].file # NoFile <=> pc[j] = "reading"
    /\ pos \in [Jobs -> Nat]
    /\ announced \in [Jobs -> {"length", "total", "nothing"}]
    /\ attempt \in [Jobs -> 0..MaxAttempts]
    /\ cancelled \subseteq Running
    /\ active \in {j \in Running : pc[j] \notin {"done", "failed"}} \cup {NoJob}
    /\ state \in {"none", "downloading", "completed", "error"}
    /\ clearing \in BOOLEAN /\ shown \in BOOLEAN
    /\ current \subseteq Jobs
    /\ happened \subseteq Disturbances \cup {"exhausted"} /\ left \in 0..MaxDisturbances

(* What lets two jobs write one file, or one accept a file of any length. *)
Disorder == {"cancel", "lateClear", "noTotal"}

(* downloadOnce: whatever was resumed, retried, restarted from 0, not      *)
(* renamed or killed in between, the file that gets the model's name has   *)
(* the right chunks in the right places, at least 99 % of them, and all of *)
(* them unless a rest came without a length.                               *)
Prefix(f) ==
    /\ content[f].size <= Size
    /\ content[f].right = 0..(content[f].size - 1)
FinalAlwaysComplete == final # NoFile => Complete(final)
FinalComplete ==
    happened \cap Disorder = {} =>
        /\ final # NoFile => Prefix(final) /\ Length(final) >= Enough
        /\ "noLength" \notin happened => FinalAlwaysComplete

(* onComplete(true): "downloaded!" is said when the file is there, or when *)
(* all attempts of downloadWithRetry are used up: it then just returns.    *)
Completes == state # "completed" /\ state' = "completed"
SuccessAlwaysReal == [][Completes => final' # NoFile]_vars
UsedUp == \E j \in Jobs : pc[j] = "done" /\ pc'[j] = "idle" /\ attempt[j] = MaxAttempts
SuccessIsReal == Completes => final' # NoFile \/ UsedUp
SuccessMeansFile == [][happened' \cap Disorder = {} => SuccessIsReal]_vars

(* downloadedModels: between downloads a screen that stays open shows no   *)
(* model that is not there, through failures, retries and deletions, until *)
(* a download uses up its attempts; and it shows the model that is there,  *)
(* unless deleting it has failed.                                          *)
Watched == {"serverFails", "noRange", "noLength", "noSize", "renameFails", "delete",
            "deleteFails", "exhausted"}
ScreenTellsTruth ==
    happened \subseteq Watched /\ (\A j \in Jobs : pc[j] # "done") =>
        /\ shown /\ "exhausted" \notin happened => final # NoFile
        /\ final # NoFile /\ "deleteFails" \notin happened => shown

(* DownloadManager: a download that was completed while another screen was *)
(* open is shown as downloaded.                                            *)
CompletionIsShown == state = "completed" /\ final # NoFile => shown

(* downloadWithRetry: a download ends, whatever the server does and whoever *)
(* else downloads.                                                         *)
DownloadEnds == state = "downloading" ~> state # "downloading"
=============================================================================
