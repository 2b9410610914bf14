----------------------------- MODULE MemoryStore -----------------------------
(***************************************************************************)
(* MemoryManager.kt: a document in memory, changed in place and written to *)
(* its JSON file by every change, and the statistics, which extractAndSave *)
(* copies, changes and assigns.  The list is that of the facts, or that of *)
(* the relationships or reminders: an initial choice.  An item is what an  *)
(* entry says; which of equal entries a removal takes is a choice.  The    *)
(* counter of extracted items is the length of the sequence "stats".       *)
(*                                                                         *)
(* Operations run on Dispatchers.IO without a lock.  A file is written by  *)
(* opening it, which truncates it, and one write: what a second writer     *)
(* finds there and does not cover stays behind its text.  One character    *)
(* stands for each entry and one for the brackets.                         *)
(***************************************************************************)
EXTENDS Integers, Sequences, FiniteSets

S == INSTANCE SequencesExt

CONSTANTS
    Threads, Items,
    MaxLength,          \* of the list and of the counter (bound)
    Disturbances,       \* what may happen, see AllDisturbances
    MaxDisturbances     \* and how often (bound)

AllDisturbances ==
    {"overlap",         \* an operation starts while another runs
     "race",            \* unsynchronized access to an ArrayList goes wrong
     "diskFull",        \* a file cannot be opened, or not written to its end
     "crash",           \* the process is killed and started again
     "crashInWrite"}    \* the same while a file is truncated

ASSUME MemoryStoreAssumption ==
    /\ MaxLength \in Nat
    /\ Disturbances \subseteq AllDisturbances /\ MaxDisturbances \in Nat

Docs == {"list", "stats"}
Entry == Items \cup {"one"}
Kinds == {"add",        \* addFact, addRelationship, addReminder
          "remove",     \* removeFact, deleteRelationship
          "delete",     \* deleteReminder, which ignores the result of its save
          "extract"}    \* extractAndSave

VARIABLES
    facts,              \* the list is userProfile.facts
    ram,                \* the documents in memory
    file,               \* the text in each file, and its length
    pc, op, json,       \* where each thread is, what it does, what it writes
    happened, left,     \* the disturbances so far, and how many may follow
    promised,           \* history: what the operations that returned true left
    learned,            \*   entries made by extractAndSave
    solo, saved         \*   the latest operation ran alone; it saved the list

thread == <<pc, op, json>>
bound == <<happened, left>>
history == <<promised, learned, solo, saved>>
vars == <<facts, ram, file, thread, bound, history>>

Places(s, i) == {n \in 1..Len(s) : s[n] = i}
(* How often each item is in a list. *)
Tally(s) == [i \in Items |-> Cardinality(Places(s, i))]
Has(i) == Places(ram["list"], i) # {}
Running == {t \in Threads : pc[t] # "idle"}
NoOp == [kind |-> "none", doc |-> "list", new |-> FALSE]
Text(s) == [json |-> s, len |-> Len(s) + 1]
Readable(f) == f.len = Len(f.json) + 1

(* loadJsonFile: what cannot be parsed is replaced by the default. *)
Load(f) == IF Readable(f) THEN f.json ELSE <<>>

Disturb(d) ==
    /\ d \in Disturbances /\ left > 0
    /\ left' = left - 1
    /\ happened' = happened \cup {d}

Init ==
    /\ facts \in BOOLEAN
    /\ ram = [d \in Docs |-> <<>>] /\ file = [d \in Docs |-> Text(<<>>)]
    /\ pc = [t \in Threads |-> "idle"] /\ json = [t \in Threads |-> <<>>]
    /\ op = [t \in Threads |-> NoOp]
    /\ happened = {} /\ left = MaxDisturbances
    /\ promised = [i \in Items |-> 0] /\ learned = 0 /\ solo = TRUE /\ saved = FALSE

-----------------------------------------------------------------------------
Adds(k) == k \in {"add", "extract"}

(* Mutant: an operation never notices the others. *)
Start_Unnoticed(t, k, i) ==
    /\ pc[t] = "idle"
    /\ k = "delete" => ~facts
    /\ Len(ram["list"]) < MaxLength /\ Len(ram["stats"]) < MaxLength
    /\ solo' = TRUE
    /\ IF Running = {} THEN UNCHANGED bound ELSE Disturb("overlap")
    /\ op' = [op EXCEPT ![t] = [kind |-> k, doc |-> "list", item |-> i,
                                new |-> ~Has(i)]]
    /\ pc' = [pc EXCEPT ![t] = "mutate"]
    /\ saved' = FALSE
    /\ UNCHANGED <<facts, ram, file, json, promised, learned>>

(* A call.  extractAndSave looks for duplicates first; if that throws,     *)
(* because another thread changes the list, it ends and has done nothing.  *)
Start(t, k, i) ==
    /\ pc[t] = "idle"
    /\ k = "delete" => ~facts
    /\ Len(ram["list"]) < MaxLength /\ Len(ram["stats"]) < MaxLength
    /\ solo' = (Running = {})
    /\ IF Running = {} THEN UNCHANGED bound ELSE Disturb("overlap")
    /\ op' = [op EXCEPT ![t] = [kind |-> k, doc |-> "list", item |-> i,
                                new |-> ~Has(i)]]
    /\ pc' = [pc EXCEPT ![t] = IF k = "extract" /\ Has(i)
                               THEN "count" ELSE "mutate"]
    /\ saved' = FALSE
    /\ UNCHANGED <<facts, ram, file, json, promised, learned>>

Return(t) == pc' = [pc EXCEPT ![t] = "idle"] /\ op' = [op EXCEPT ![t] = NoOp]

(* The list in memory is changed in place. *)
Add(t) ==
    /\ pc[t] = "mutate" /\ Adds(op[t].kind)
    /\ ram' = [ram EXCEPT !["list"] = Append(@, op[t].item)]
    /\ learned' = IF op[t].kind = "extract" THEN learned + 1 ELSE learned
    /\ pc' = [pc EXCEPT ![t] = "encode"]
    /\ UNCHANGED <<facts, file, op, json, bound, promised, solo, saved>>

(* Two threads write one slot of the ArrayList: one entry is lost. *)
RacingAdds(t, u) ==
    /\ t # u /\ \A x \in {t, u} : pc[x] = "mutate" /\ Adds(op[x].kind)
    /\ Disturb("race")
    /\ ram' = [ram EXCEPT !["list"] = Append(@, op[t].item)]
    /\ learned' = learned + Cardinality({x \in {t, u} : op[x].kind = "extract"})
    /\ pc' = [x \in Threads |-> IF x \in {t, u} THEN "encode" ELSE pc[x]]
    /\ UNCHANGED <<facts, file, op, json, promised, solo, saved>>

(* Mutant: what is removed is not saved. *)
Remove_Unsaved(t) ==
    /\ pc[t] = "mutate" /\ ~Adds(op[t].kind)
    /\ Return(t)
    /\ \/ \E n \in Places(ram["list"], op[t].item) :
            /\ ram' = [ram EXCEPT !["list"] = S!RemoveAt(@, n)]
            /\ promised' = [promised EXCEPT ![op[t].item] = @ - 1]
       \/ ~Has(op[t].item) /\ UNCHANGED <<ram, promised>>
    /\ UNCHANGED <<facts, file, json, bound, learned, solo, saved>>

(* Nothing is saved if there was nothing to remove. *)
Remove(t) ==
    /\ pc[t] = "mutate" /\ ~Adds(op[t].kind)
    /\ \/ \E n \in Places(ram["list"], op[t].item) :
            /\ ram' = [ram EXCEPT !["list"] = S!RemoveAt(@, n)]
            /\ pc' = [pc EXCEPT ![t] = "encode"]
            /\ UNCHANGED op
       \/ ~Has(op[t].item) /\ UNCHANGED ram /\ Return(t)
    /\ UNCHANGED <<facts, file, json, bound, history>>

(* writeJsonFile: the text is made from what is in memory now. *)
Encode(t) ==
    /\ pc[t] = "encode"
    /\ json' = [json EXCEPT ![t] = ram["list"]]
    /\ pc' = [pc EXCEPT ![t] = "open"]
    /\ UNCHANGED <<facts, ram, file, op, bound, history>>

(* Mutant: what was found to be there is counted, too. *)
Count_All(t) ==
    /\ pc[t] = "count"
    /\ json' = [json EXCEPT ![t] = Append(ram["stats"], "one")]
    /\ pc' = [pc EXCEPT ![t] = "assign"]
    /\ op' = [op EXCEPT ![t].doc = "stats"]
    /\ UNCHANGED <<facts, ram, file, bound, history>>

(* updateExtractionStats: the statistics are copied and counted up, by the *)
(* new facts, or by all relationships and reminders in what was said ...   *)
Count(t) ==
    /\ pc[t] = "count"
    /\ json' = [json EXCEPT ![t] = IF op[t].new \/ ~facts THEN Append(ram["stats"], "one")
                                   ELSE ram["stats"]]
    /\ pc' = [pc EXCEPT ![t] = "assign"]
    /\ op' = [op EXCEPT ![t].doc = "stats"]
    /\ UNCHANGED <<facts, ram, file, bound, history>>

(* ... and updateStats assigns the copy and saves it. *)
Assign(t) ==
    /\ pc[t] = "assign"
    /\ ram' = [ram EXCEPT !["stats"] = json[t]]
    /\ pc' = [pc EXCEPT ![t] = "open"]
    /\ UNCHANGED <<facts, file, op, json, bound, history>>

(* The save of the list is over; extractAndSave goes on to the statistics, *)
(* whatever its result.                                                    *)
Done(t) ==
    IF op[t].kind = "extract" /\ op[t].doc = "list"
    THEN pc' = [pc EXCEPT ![t] = "count"] /\ UNCHANGED op
    ELSE Return(t)

Forget(t) == json' = [json EXCEPT ![t] = <<>>]

(* What the callers have been told: true, or nothing. *)
Promise(t, success) ==
    promised' = CASE op[t].doc = "list" /\ Adds(op[t].kind) /\ success
                        -> [promised EXCEPT ![op[t].item] = @ + 1]
                  [] op[t].doc = "list" /\ ~Adds(op[t].kind) /\ (success \/ op[t].kind = "delete")
                        -> [promised EXCEPT ![op[t].item] = @ - 1]
                  [] OTHER -> promised

(* Mutant: what is there is not cut off. *)
Open_Keeps(t) ==
    /\ pc[t] = "open"
    /\ pc' = [pc EXCEPT ![t] = "write"]
    /\ UNCHANGED <<facts, ram, file, op, json, bound, history>>

(* The file is truncated. *)
Open(t) ==
    /\ pc[t] = "open"
    /\ file' = [file EXCEPT ![op[t].doc] = [json |-> <<>>, len |-> 0]]
    /\ pc' = [pc EXCEPT ![t] = "write"]
    /\ UNCHANGED <<facts, ram, op, json, bound, history>>

(* The text is not written: the file cannot be opened; or another thread   *)
(* changed the list while the text was made, and the operation itself      *)
(* catches ConcurrentModificationException and returns false.              *)
OpenFails(t) ==
    /\ pc[t] = "open"
    /\ \/ Disturb("diskFull") /\ Promise(t, FALSE)
       \/ /\ op[t].doc = "list" /\ json[t] # ram["list"]
          /\ Disturb("race") /\ UNCHANGED promised
    /\ Done(t) /\ Forget(t)
    /\ UNCHANGED <<facts, ram, file, learned, solo, saved>>

Longer(m, n) == IF m > n THEN m ELSE n

Write(t) ==
    /\ pc[t] = "write"
    /\ file' = [file EXCEPT ![op[t].doc] =
                    [json |-> json[t], len |-> Longer(@.len, Len(json[t]) + 1)]]
    /\ Promise(t, TRUE) /\ Done(t) /\ Forget(t)
    /\ saved' = (saved \/ op[t].doc = "list")
    /\ UNCHANGED <<facts, ram, bound, learned, solo>>

(* The text is cut short; what is behind it is as it was. *)
WriteFails(t) ==
    /\ pc[t] = "write"
    /\ Disturb("diskFull")
    /\ file' = [file EXCEPT ![op[t].doc] = [json |-> json[t], len |-> 0]]
    /\ Promise(t, FALSE) /\ Done(t) /\ Forget(t)
    /\ UNCHANGED <<facts, ram, learned, solo, saved>>

(* The process dies; initialize loads the files. *)
Crash ==
    /\ Disturb(IF \E t \in Threads : pc[t] = "write" THEN "crashInWrite" ELSE "crash")
    /\ ram' = [d \in Docs |-> Load(file[d])]
    /\ pc' = [t \in Threads |-> "idle"] /\ json' = [t \in Threads |-> <<>>]
    /\ op' = [t \in Threads |-> NoOp]
    /\ saved' = FALSE
    /\ UNCHANGED <<facts, file, promised, learned, solo>>

Step(t) ==
    \/ \E k \in Kinds, i \in Items : Start(t, k, i)
    \/ Add(t) \/ Remove(t) \/ Encode(t) \/ Count(t) \/ Assign(t)
    \/ Open(t) \/ OpenFails(t) \/ Write(t) \/ WriteFails(t)

Next == Crash \/ (\E t \in Threads : Step(t)) \/ \E t, u \in Threads : RacingAdds(t, u)

Spec == Init /\ [][Next]_vars

-----------------------------------------------------------------------------
(* Every variable has its type; an operation that ran alone runs alone. *)
TypeOK ==
    /\ ram \in [Docs -> Seq(Entry)]
    /\ \A d \in Docs : file[d].json \in Seq(Entry) /\ file[d].len \in Nat
    /\ pc \in [Threads -> {"idle", "mutate", "encode", "count", "assign", "open", "write"}]
    /\ \A t \in Threads : pc[t] = "idle" <=> op[t] = NoOp
    /\ json \in [Threads -> Seq(Entry)]
    /\ happened \subseteq Disturbances /\ left \in 0..MaxDisturbances
    /\ promised \in [Items -> Int] /\ learned \in Nat
    /\ solo => Cardinality(Running) <= 1

Writing == {t \in Threads : pc[t] = "write"}

(* "Persistence: All changes saved to JSON files automatically": what the  *)
(* operations that returned true left is what the next start will load,    *)
(* wherever the process is killed, unless two operations overlap or a      *)
(* write is broken off.                                                    *)
AlwaysDurable == Writing = {} => Tally(Load(file["list"])) = promised
Durable == happened \subseteq {"crash"} => AlwaysDurable

(* "Thread Safety: All mutating operations are thread-safe": when none     *)
(* runs, the file holds what is in memory.                                 *)
SavedWhenQuiet == Running = {} => file["list"] = Text(ram["list"])

(* saveUserProfile and its like: an operation that ran alone and saved     *)
(* leaves in the file what is in memory, whatever went wrong before it.    *)
SoloSaves == solo /\ saved => SavedWhenQuiet

(* updateExtractionStats: never more facts are counted than were learned,  *)
(* and between operations no less, unless they overlap or the process dies. *)
Counts ==
    facts =>
    /\ Len(ram["stats"]) <= learned
    /\ happened \subseteq {"diskFull"} /\ Running = {} => Len(ram["stats"]) = learned
=============================================================================
