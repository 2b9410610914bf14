--------------------------- MODULE MemoryCompaction ---------------------------
(***************************************************************************)
(* MemoryCompaction.kt: conversations, one file for each day, are          *)
(* summarised by quarter when they are old and their files deleted; very   *)
(* old files are deleted.  A compaction holds no lock and may be killed    *)
(* between any two of its file operations; the button that starts it is    *)
(* disabled only while the screen that started it is open.  What is kept   *)
(* of a summary is the days whose conversations were read for it.          *)
(***************************************************************************)
EXTENDS Integers, FiniteSets

CONSTANTS
    Jobs,
    LastDay,            \* days of the model (bound)
    QuarterDays,        \* days of a quarter
    Retention, Cutoff,  \* RETENTION_DAYS, ARCHIVE_CUTOFF_DAYS
    Disturbances,       \* what may happen, see AllDisturbances
    MaxDisturbances     \* and how often (bound)

AllDisturbances ==
    {"again",           \* a quarter is summarised that has a summary
     "twice",           \* a compaction starts while another runs
     "unreadable",      \* files cannot be read
     "diskFull",        \* a summary cannot be written
     "undeletable",     \* a file cannot be deleted
     "crash"}           \* the process is killed

ASSUME MemoryCompactionAssumption ==
    /\ LastDay \in Nat /\ QuarterDays \in Nat \ {0}
    /\ Retention \in Nat /\ Cutoff \in Nat /\ Retention < Cutoff
    /\ Disturbances \subseteq AllDisturbances /\ MaxDisturbances \in Nat

VARIABLES
    now,                \* today
    talked,             \* history: days with a conversation
    files,              \*   those whose file is there
    summary,            \* the days that each quarter's summary covers
    pc,
    found,              \* old files not yet processed
    group,              \* files of the quarter in work, files to delete
    covered,            \* the days read for its summary
    missed,             \* history: old files whose summary or deletion failed
    happened, left      \* the disturbances so far, and how many may follow

disk == <<files, summary>>
job == <<pc, found, group, covered, missed>>
bound == <<happened, left>>
vars == <<now, talked, disk, job, bound>>

Days == 0..LastDay
Quarter(d) == d \div QuarterDays
Quarters == {Quarter(d) : d \in Days}

(* findConversationsOlderThan *)
OlderThan(age) == {d \in files : now - d > age}

Disturb(d) ==
    /\ d \in Disturbances /\ left > 0
    /\ left' = left - 1
    /\ happened' = happened \cup {d}

Init ==
    /\ now = 0 /\ talked = {} /\ files = {}
    /\ summary = [q \in Quarters |-> {}]
    /\ pc = [j \in Jobs |-> "idle"]
    /\ found = [j \in Jobs |-> {}] /\ group = [j \in Jobs |-> {}]
    /\ covered = [j \in Jobs |-> {}] /\ missed = [j \in Jobs |-> {}]
    /\ happened = {} /\ left = MaxDisturbances

(* A compaction takes far less than Cutoff - Retention, a year: here it    *)
(* ends on the day it starts (bound).                                      *)
Tick ==
    /\ now < LastDay
    /\ \A j \in Jobs : pc[j] = "idle"
    /\ now' = now + 1
    /\ UNCHANGED <<talked, disk, job, bound>>

(* appendConversationExchange *)
Talk ==
    /\ talked' = talked \cup {now} /\ files' = files \cup {now}
    /\ UNCHANGED <<now, summary, job, bound>>

(* Archive Now *)
Archive(j) ==
    /\ pc[j] = "idle"
    /\ IF \A c \in Jobs : pc[c] = "idle" THEN UNCHANGED bound ELSE Disturb("twice")
    /\ pc' = [pc EXCEPT ![j] = "find"]
    /\ UNCHANGED <<now, talked, disk, found, group, covered, missed>>

(* Mutants: one day too early, and the wrong one of the two periods. *)
Find_Early(j) ==
    /\ pc[j] = "find"
    /\ found' = [found EXCEPT ![j] = OlderThan(Retention - 1)]
    /\ pc' = [pc EXCEPT ![j] = "next"]
    /\ UNCHANGED <<now, talked, disk, group, covered, missed, bound>>

Find_Cutoff(j) ==
    /\ pc[j] = "find"
    /\ found' = [found EXCEPT ![j] = OlderThan(Cutoff)]
    /\ pc' = [pc EXCEPT ![j] = "next"]
    /\ UNCHANGED <<now, talked, disk, group, covered, missed, bound>>

Find(j) ==
    /\ pc[j] = "find"
    /\ found' = [found EXCEPT ![j] = OlderThan(Retention)]
    /\ pc' = [pc EXCEPT ![j] = "next"]
    /\ UNCHANGED <<now, talked, disk, group, covered, missed, bound>>

(* Mutant: the files are not grouped. *)
NextQuarter_All(j) ==
    /\ pc[j] = "next"
    /\ IF found[j] = {}
       THEN /\ group' = [group EXCEPT ![j] = OlderThan(Cutoff)]
            /\ pc' = [pc EXCEPT ![j] = "purge"]
       ELSE /\ group' = [group EXCEPT ![j] = found[j]]
            /\ pc' = [pc EXCEPT ![j] = "read"]
    /\ found' = [found EXCEPT ![j] = {}]
    /\ UNCHANGED <<now, talked, disk, covered, missed, bound>>

(* The next quarter, or the clean-up of the very old files, which tries    *)
(* those again that were missed.                                           *)
NextQuarter(j) ==
    /\ pc[j] = "next"
    /\ IF found[j] = {}
       THEN /\ group' = [group EXCEPT ![j] = OlderThan(Cutoff)]
            /\ missed' = [missed EXCEPT ![j] = @ \ OlderThan(Cutoff)]
            /\ pc' = [pc EXCEPT ![j] = "purge"]
            /\ UNCHANGED found
       ELSE \E q \in {Quarter(d) : d \in found[j]} :
            /\ group' = [group EXCEPT ![j] = {d \in found[j] : Quarter(d) = q}]
            /\ found' = [found EXCEPT ![j] = {d \in @ : Quarter(d) # q}]
            /\ pc' = [pc EXCEPT ![j] = "read"]
            /\ UNCHANGED missed
    /\ UNCHANGED <<now, talked, disk, covered, bound>>

(* generateQuarterSummary: what cannot be read is left out. *)
Read(j) ==
    /\ pc[j] = "read"
    /\ \/ covered' = [covered EXCEPT ![j] = group[j] \cap files] /\ UNCHANGED bound
       \/ \E bad \in SUBSET (group[j] \cap files) \ {{}} :
            /\ covered' = [covered EXCEPT ![j] = (group[j] \cap files) \ bad]
            /\ Disturb("unreadable")
    /\ pc' = [pc EXCEPT ![j] = "open"]
    /\ UNCHANGED <<now, talked, disk, found, group, missed>>

QuarterOf(j) == Quarter(CHOOSE d \in group[j] : TRUE)

(* saveQuarterlySummary: the file is truncated and written. *)
Open(j) ==
    /\ pc[j] = "open"
    /\ IF summary[QuarterOf(j)] = {} THEN UNCHANGED bound ELSE Disturb("again")
    /\ summary' = [summary EXCEPT ![QuarterOf(j)] = {}]
    /\ pc' = [pc EXCEPT ![j] = "write"]
    /\ UNCHANGED <<now, talked, files, found, group, covered, missed>>

Write(j) ==
    /\ pc[j] = "write"
    /\ summary' = [summary EXCEPT ![QuarterOf(j)] = covered[j]]
    /\ pc' = [pc EXCEPT ![j] = "delete"]
    /\ UNCHANGED <<now, talked, files, found, group, covered, missed, bound>>

(* Mutant: a quarter's files are deleted, although its summary failed. *)
SummaryFails_Deletes(j) ==
    /\ pc[j] \in {"open", "write"}
    /\ Disturb("diskFull")
    /\ pc' = [pc EXCEPT ![j] = "delete"]
    /\ UNCHANGED <<now, talked, disk, found, group, covered, missed>>

(* catch (e: Exception): on to the next quarter. *)
SummaryFails(j) ==
    /\ pc[j] \in {"open", "write"}
    /\ Disturb("diskFull")
    /\ pc' = [pc EXCEPT ![j] = "next"]
    /\ missed' = [missed EXCEPT ![j] = @ \cup group[j]]
    /\ group' = [group EXCEPT ![j] = {}]
    /\ UNCHANGED <<now, talked, disk, found, covered>>

(* if (file.delete()): the files of group one by one; one that cannot be   *)
(* deleted is passed over.                                                 *)
Delete(j) ==
    /\ pc[j] \in {"delete", "purge"}
    /\ \/ \E d \in group[j] :
            /\ group' = [group EXCEPT ![j] = @ \ {d}]
            /\ \/ files' = files \ {d} /\ UNCHANGED <<missed, bound>>
               \/ /\ Disturb("undeletable")
                  /\ missed' = [missed EXCEPT ![j] = @ \cup {d}]
                  /\ UNCHANGED files
            /\ UNCHANGED <<pc, covered>>
       \/ /\ group[j] = {}
          /\ pc' = [pc EXCEPT ![j] = IF @ = "delete" THEN "next" ELSE "idle"]
          /\ covered' = [covered EXCEPT ![j] = {}]
          /\ missed' = [missed EXCEPT ![j] = IF pc[j] = "delete" THEN @ ELSE {}]
          /\ UNCHANGED <<files, group, bound>>
    /\ UNCHANGED <<now, talked, summary, found>>

Crash ==
    /\ Disturb("crash")
    /\ pc' = [j \in Jobs |-> "idle"]
    /\ found' = [j \in Jobs |-> {}] /\ group' = [j \in Jobs |-> {}]
    /\ covered' = [j \in Jobs |-> {}] /\ missed' = [j \in Jobs |-> {}]
    /\ UNCHANGED <<now, talked, disk>>

Step(j) ==
    \/ Archive(j) \/ Find(j) \/ NextQuarter(j) \/ Read(j) \/ Open(j) \/ Write(j)
    \/ SummaryFails(j) \/ Delete(j)

Next == Tick \/ Talk \/ Crash \/ \E j \in Jobs : Step(j)

Spec == Init /\ [][Next]_vars

-----------------------------------------------------------------------------
(* Every variable has its type; a file is only of a day with a conversation. *)
TypeOK ==
    /\ now \in Days
    /\ talked \subseteq 0..now /\ files \subseteq talked
    /\ summary \in [Quarters -> SUBSET Days]
    /\ pc \in [Jobs -> {"idle", "find", "next", "read", "open", "write", "delete", "purge"}]
    /\ found \in [Jobs -> SUBSET Days] /\ group \in [Jobs -> SUBSET Days]
    /\ covered \in [Jobs -> SUBSET Days] /\ missed \in [Jobs -> SUBSET Days]
    /\ \A j \in Jobs : pc[j] \in {"read", "open", "write"} =>
            group[j] # {} /\ \A d, e \in group[j] : Quarter(d) = Quarter(e)
    /\ happened \subseteq Disturbances /\ left \in 0..MaxDisturbances

(* "Recent conversations (<1 year): Keep as-is", whatever fails. *)
RecentKept == {d \in talked : now - d <= Retention} \subseteq files

(* "Conversations older than 1 year will be archived": of the old files, a *)
(* performCompaction that ends leaves only those whose own quarter it could *)
(* not summarise or which it could not delete; of the very old ones, which *)
(* the clean-up tries again, only those that it could not delete then.     *)
NothingOldLeft ==
    [][\A j \in Jobs : pc[j] = "purge" /\ pc'[j] = "idle" /\ left' = left =>
            OlderThan(Retention) \subseteq missed[j]]_vars

(* "Old conversations (1-2 years): Archive to summaries" *)
AlwaysArchived ==
    \A d \in talked \ files : d \in summary[Quarter(d)]

(* performCompaction: what is deleted is in its quarter's summary, wherever *)
(* the process is killed, as long as no quarter is summarised again and     *)
(* all files can be read; what is very old, unless a summary failed.       *)
Archived ==
    happened \cap {"again", "unreadable"} = {} =>
        \A d \in talked \ files :
            d \in summary[Quarter(d)] \/ ("diskFull" \in happened /\ now - d > Cutoff)
=============================================================================
