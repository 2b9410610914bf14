-------------------------- MODULE MemoryStoreProofs --------------------------
(***************************************************************************)
(* Proofs about MemoryStore, for any threads, items and bounds: what the   *)
(* files hold when one operation runs at a time, what a lone operation     *)
(* leaves whatever went wrong before it, and the counter of learned facts  *)
(* however operations overlap.                                             *)
(***************************************************************************)
EXTENDS MemoryStore, FiniteSetTheorems, TLAPS

-----------------------------------------------------------------------------
(* The invariants *)

Operation == [kind : Kinds, doc : Docs, item : Items, new : BOOLEAN]

(* Where a thread may be with which document: only extractAndSave gets to  *)
(* the statistics.                                                         *)
PCs == {"idle", "mutate", "encode", "count", "assign", "open", "write"}

Placed(p, o) ==
    /\ p = "idle" => o = NoOp
    /\ p # "idle" => o \in Operation
    /\ p \in {"mutate", "encode"} => o.doc = "list"
    /\ p = "count" => o.doc = "list" /\ o.kind = "extract"
    /\ p = "assign" => o.doc = "stats"
    /\ p # "idle" /\ o.doc = "stats" => o.kind = "extract"

Alone == \A t, u \in Running : t = u

StoreInv ==
    /\ facts \in BOOLEAN /\ solo \in BOOLEAN /\ saved \in BOOLEAN
    /\ ram \in [Docs -> Seq(Entry)]
    /\ file \in [Docs -> [json : Seq(Entry), len : Nat]]
    /\ pc \in [Threads -> PCs]
    /\ op \in [Threads -> Operation \cup {NoOp}]
    /\ json \in [Threads -> Seq(Entry)]
    /\ happened \subseteq Disturbances /\ left \in 0 .. MaxDisturbances
    /\ promised \in [Items -> Int] /\ learned \in Nat
    /\ \A t \in Threads : Placed(pc[t], op[t])
    /\ solo => Alone

(* A thread between the change of the list and the end of its save, and    *)
(* what it will have promised then.                                        *)
Saving(t) == pc[t] \in {"encode", "open", "write"} /\ op[t].doc = "list"

Promised(t) ==
    [promised EXCEPT ![op[t].item] = IF Adds(op[t].kind) THEN @ + 1 ELSE @ - 1]

(* The file is what was promised until it is truncated, and the next       *)
(* promise is in memory.                                                   *)
Steady ==
    /\ Alone
    /\ \A t \in Threads : Saving(t) => Tally(ram["list"]) = Promised(t)
    /\ (\A t \in Threads : ~Saving(t)) => ram["list"] = file["list"].json
    /\ \/ \E t \in Threads : Saving(t) /\ pc[t] = "write"
       \/ Readable(file["list"]) /\ Tally(file["list"].json) = promised

Calm == happened \subseteq {"crash"}

(* A thread that saves alone writes what is in memory to a file it has     *)
(* truncated.                                                              *)
SavesMemory ==
    \A t \in Threads :
        /\ Saving(t) /\ pc[t] \in {"open", "write"} => json[t] = ram["list"]
        /\ Saving(t) /\ pc[t] = "write" => file["list"].len = 0

SavedBefore ==
    saved => /\ file["list"] = Text(ram["list"])
             /\ \A t \in Threads : pc[t] # "mutate" /\ ~Saving(t)

SaveInv ==
    /\ Calm => Steady
    /\ Calm \/ solo => SavesMemory
    /\ solo => SavedBefore

(* The extractions that have added their fact and not yet counted it.      *)
Due(p, o) ==
    /\ o.kind = "extract" /\ o.new = TRUE
    /\ \/ p \in {"count", "assign"}
       \/ p \in {"encode", "open", "write"} /\ o.doc = "list"

Uncounted == {t \in Threads : Due(pc[t], op[t])}

(* Every count, in memory, in a thread or in the file, leaves room for     *)
(* those still to be counted.                                              *)
CountInv ==
    /\ IsFiniteSet(Uncounted)
    /\ Len(ram["stats"]) + Cardinality(Uncounted) <= learned
    /\ \A t \in Threads :
          op[t].doc = "stats" => Len(json[t]) + Cardinality(Uncounted \ {t}) <= learned
    /\ Len(file["stats"].json) <= learned

(* Without crash or overlap nothing is missing. *)
ExactInv ==
    happened \subseteq {"diskFull"} =>
        /\ Alone
        /\ \A t \in Threads : pc[t] = "mutate" /\ op[t].kind = "extract" => op[t].new = TRUE
        /\ Len(ram["stats"]) + Cardinality(Uncounted) = learned
        /\ \A t \in Threads : pc[t] = "assign" => Len(json[t]) = learned

FactsInv == facts => CountInv /\ ExactInv

-----------------------------------------------------------------------------
(* Lists and how often an entry is in them *)

(* RemoveAt: what is left keeps its order. *)
LEMMA RemoveAtKeeps ==
    ASSUME NEW X, NEW s \in Seq(X), NEW n \in 1 .. Len(s)
    PROVE  /\ S!RemoveAt(s, n) \in Seq(X)
           /\ Len(S!RemoveAt(s, n)) = Len(s) - 1
           /\ \A k \in 1 .. Len(s) - 1 :
                 S!RemoveAt(s, n)[k] = IF k < n THEN s[k] ELSE s[k + 1]
<1> DEFINE a == SubSeq(s, 1, n - 1)
           b == SubSeq(s, n + 1, Len(s))
<1>1. a \in Seq(X) /\ Len(a) = n - 1 /\ \A k \in 1 .. n - 1 : a[k] = s[k]
  OBVIOUS
<1>2. /\ b \in Seq(X) /\ Len(b) = Len(s) - n
      /\ \A k \in 1 .. Len(s) - n : b[k] = s[n + k]
  OBVIOUS
<1>3. S!RemoveAt(s, n) = a \o b
  BY DEF S!RemoveAt
<1> HIDE DEF a, b
<1>4. a \o b \in Seq(X) /\ Len(a \o b) = Len(s) - 1
  <2>0. a \in Seq(X) /\ b \in Seq(X)
    BY <1>1, <1>2
  <2>1. a \o b \in Seq(X) /\ Len(a \o b) = Len(a) + Len(b)
    BY <2>0
  <2>2. Len(s) \in Nat /\ n \in Int
    OBVIOUS
  <2> QED
    BY <2>1, <2>2, <1>1, <1>2
<1>5. ASSUME NEW k \in 1 .. Len(s) - 1
      PROVE  (a \o b)[k] = IF k < n THEN s[k] ELSE s[k + 1]
  <2>1. CASE k < n
    BY <2>1, <1>1, <1>2
  <2>2. CASE ~(k < n)
    <3>1. k - (n - 1) \in 1 .. Len(s) - n /\ n + (k - (n - 1)) = k + 1
      BY <2>2
    <3>2. (a \o b)[k] = b[k - (n - 1)]
      BY <2>2, <1>1, <1>2
    <3> QED
      BY <3>1, <3>2, <2>2, <1>2
  <2> QED
    BY <2>1, <2>2
<1> QED
  BY <1>3, <1>4, <1>5

LEMMA PlacesFinite ==
    ASSUME NEW s \in Seq(Entry), NEW i
    PROVE  IsFiniteSet(Places(s, i)) /\ Cardinality(Places(s, i)) \in Nat
<1>1. IsFiniteSet(1 .. Len(s)) /\ Places(s, i) \in SUBSET (1 .. Len(s))
  BY FS_Interval DEF Places
<1> QED
  BY <1>1, FS_Subset, FS_CardinalityType

(* An entry that is added is counted once more, ... *)
LEMMA TallyAppend ==
    ASSUME NEW s \in Seq(Entry), NEW i \in Items
    PROVE  Tally(Append(s, i)) = [Tally(s) EXCEPT ![i] = @ + 1]
<1> DEFINE t == Append(s, i)
<1>1. /\ Len(s) \in Nat /\ Len(t) = Len(s) + 1 /\ t[Len(s) + 1] = i
      /\ \A k \in 1 .. Len(s) : t[k] = s[k]
  BY DEF Entry
<1> HIDE DEF t
<1>2. 1 .. Len(t) = (1 .. Len(s)) \cup {Len(s) + 1} /\ Len(s) + 1 \notin 1 .. Len(s)
  BY <1>1
<1>3. Places(t, i) = Places(s, i) \cup {Len(s) + 1} /\ Len(s) + 1 \notin Places(s, i)
  BY <1>1, <1>2 DEF Places
<1>4. Cardinality(Places(t, i)) = Cardinality(Places(s, i)) + 1
  BY <1>3, PlacesFinite, FS_AddElement
<1>5. \A j \in Items \ {i} : Places(t, j) = Places(s, j)
  BY <1>1, <1>2 DEF Places
<1>6. Tally(t) = [Tally(s) EXCEPT ![i] = @ + 1]
  BY <1>4, <1>5 DEF Tally
<1> QED
  BY <1>6 DEF t

(* ... and one that is removed is counted once less. *)
LEMMA TallyRemove ==
    ASSUME NEW s \in Seq(Entry), NEW i \in Items, NEW n \in Places(s, i)
    PROVE  Tally(S!RemoveAt(s, n)) = [Tally(s) EXCEPT ![i] = @ - 1]
<1> DEFINE t == S!RemoveAt(s, n)
<1>1. n \in 1 .. Len(s) /\ s[n] = i /\ Len(s) \in Nat
  BY DEF Places
<1>2. /\ t \in Seq(Entry) /\ Len(t) = Len(s) - 1
      /\ \A k \in 1 .. Len(t) : t[k] = IF k < n THEN s[k] ELSE s[k + 1]
  BY <1>1, RemoveAtKeeps
<1> HIDE DEF t
<1>3. ASSUME NEW j
      PROVE  Cardinality(Places(t, j)) = Cardinality(Places(s, j) \ {n})
  <2> DEFINE A == Places(s, j) \ {n}
             B == Places(t, j)
             f == [k \in A |-> IF k < n THEN k ELSE k - 1]
  <2>1. \A k \in A : k \in 1 .. Len(s) /\ k # n /\ s[k] = j
    BY DEF Places
  <2>2. \A k \in 1 .. Len(t) : k \in B <=> t[k] = j
    BY DEF Places
  <2>3. B \subseteq 1 .. Len(t)
    BY DEF Places
  <2> HIDE DEF A, B
  <2>4. \A k \in A : f[k] \in B
    <3> TAKE k \in A
    <3>1. CASE k < n
      <4>1. k \in 1 .. Len(t) /\ t[k] = s[k] /\ f[k] = k
        BY <3>1, <1>1, <1>2, <2>1
      <4> QED
        BY <4>1, <2>1, <2>2
    <3>2. CASE k > n
      <4>1. k - 1 \in 1 .. Len(t) /\ ~(k - 1 < n) /\ (k - 1) + 1 = k /\ f[k] = k - 1
        BY <3>2, <1>1, <1>2, <2>1
      <4>2. t[k - 1] = s[k]
        BY <4>1, <1>2
      <4> QED
        BY <4>1, <4>2, <2>1, <2>2
    <3> QED
      BY <3>1, <3>2, <1>1, <2>1
  <2>5. \A k, l \in A : f[k] = f[l] => k = l
    BY <1>1, <2>1
  <2>6. \A m \in B : \E k \in A : f[k] = m
    <3> TAKE m \in B
    <3>1. m \in 1 .. Len(t) /\ t[m] = j
      BY <2>2, <2>3
    <3>2. CASE m < n
      <4>1. m \in 1 .. Len(s) /\ m # n /\ s[m] = j
        BY <3>1, <3>2, <1>1, <1>2
      <4>2. m \in A
        BY <4>1 DEF A, Places
      <4> QED
        BY <4>2, <3>2
    <3>3. CASE ~(m < n)
      <4>1. m + 1 \in 1 .. Len(s) /\ m + 1 # n /\ s[m + 1] = j
        BY <3>1, <3>3, <1>1, <1>2
      <4>2. m + 1 \in A
        BY <4>1 DEF A, Places
      <4>3. f[m + 1] = m
        BY <4>2, <3>1, <3>3, <1>1
      <4> QED
        BY <4>2, <4>3
    <3> QED
      BY <3>2, <3>3
  <2>7. f \in Bijection(A, B)
    <3>1. f \in [A -> B]
      BY <2>4
    <3> HIDE DEF f
    <3> QED
      BY <3>1, <2>5, <2>6 DEF Bijection, Injection, IsInjective, Surjection
  <2>8. IsFiniteSet(A)
    BY PlacesFinite, FS_RemoveElement DEF A
  <2> QED
    BY <2>7, <2>8, FS_Bijection DEF ExistsBijection, A, B
<1>4. Cardinality(Places(t, i)) = Cardinality(Places(s, i)) - 1
  BY <1>3, PlacesFinite, FS_RemoveElement
<1>5. \A j \in Items \ {i} : Places(s, j) \ {n} = Places(s, j)
  BY <1>1 DEF Places
<1>6. \A j \in Items \ {i} : Cardinality(Places(t, j)) = Cardinality(Places(s, j))
  BY <1>3, <1>5
<1>7. Tally(t) = [Tally(s) EXCEPT ![i] = @ - 1]
  BY <1>4, <1>6 DEF Tally
<1> QED
  BY <1>7 DEF t

-----------------------------------------------------------------------------
(* Types *)

LEMMA NoOpFields == NoOp.kind = "none" /\ NoOp.doc = "list" /\ NoOp.new = FALSE
  BY DEF NoOp

LEMMA NoOpIsNone == NoOp \notin Operation
  BY DEF NoOp, Operation, Kinds

(* A thread goes on to p with the operation o, ... *)
Goes(t, p, o) ==
    pc' = [pc EXCEPT ![t] = p] /\ op' = [op EXCEPT ![t] = o] /\ Placed(p, o)

(* ... which leaves the others where they are. *)
LEMMA Moved ==
    ASSUME StoreInv, NEW t \in Threads, NEW p \in PCs, NEW o \in Operation \cup {NoOp},
           Goes(t, p, o)
    PROVE  /\ pc' \in [Threads -> PCs]
           /\ op' \in [Threads -> Operation \cup {NoOp}]
           /\ \A u \in Threads : Placed(pc[u], op[u])'
           /\ pc'[t] = p /\ op'[t] = o
           /\ \A u \in Threads \ {t} : pc'[u] = pc[u] /\ op'[u] = op[u]
           /\ Running' = IF p = "idle" THEN Running \ {t} ELSE Running \cup {t}
<1>1. /\ pc' \in [Threads -> PCs]
      /\ op' \in [Threads -> Operation \cup {NoOp}]
      /\ pc'[t] = p /\ op'[t] = o
      /\ \A u \in Threads \ {t} : pc'[u] = pc[u] /\ op'[u] = op[u]
  BY DEF StoreInv, Goes
<1>2. \A u \in Threads : Placed(pc'[u], op'[u])
  BY <1>1 DEF StoreInv, Goes
<1>3. \A u \in Threads : Placed(pc[u], op[u])'
  BY <1>2 DEF Placed
<1>4. Running' = IF p = "idle" THEN Running \ {t} ELSE Running \cup {t}
  BY <1>1 DEF Running
<1> QED
  BY <1>1, <1>3, <1>4

(* The end of a save. *)
Ends(t, p, o) ==
    /\ Goes(t, p, o)
    /\ IF op[t].kind = "extract" /\ op[t].doc = "list"
       THEN p = "count" /\ o = op[t]
       ELSE p = "idle" /\ o = NoOp

LEMMA DoneMoves ==
    ASSUME StoreInv, NEW t \in Threads, pc[t] \in {"open", "write"}, Done(t)
    PROVE  \E p \in {"idle", "count"}, o \in Operation \cup {NoOp} : Ends(t, p, o)
<1>1. op[t] \in Operation
  BY DEF StoreInv, Placed
<1>2. CASE op[t].kind = "extract" /\ op[t].doc = "list"
  <2>1. pc' = [pc EXCEPT ![t] = "count"] /\ op' = [op EXCEPT ![t] = op[t]]
    BY <1>2 DEF Done, StoreInv
  <2>2. Placed("count", op[t])
    BY <1>1, <1>2 DEF Placed
  <2>3. Ends(t, "count", op[t])
    BY <1>2, <2>1, <2>2 DEF Ends, Goes
  <2> QED
    BY <1>1, <2>3
<1>3. CASE ~(op[t].kind = "extract" /\ op[t].doc = "list")
  <2>1. pc' = [pc EXCEPT ![t] = "idle"] /\ op' = [op EXCEPT ![t] = NoOp]
    BY <1>3 DEF Done, Return
  <2>2. Placed("idle", NoOp)
    BY DEF Placed
  <2>3. Ends(t, "idle", NoOp)
    BY <1>3, <2>1, <2>2 DEF Ends, Goes
  <2> QED
    BY <2>3
<1> QED
  BY <1>2, <1>3

(* One more disturbance, of the kinds that may happen. *)
LEMMA Disturbed ==
    ASSUME StoreInv, NEW d, Disturb(d)
    PROVE  /\ happened' = happened \cup {d} /\ d \in happened'
           /\ happened' \subseteq Disturbances /\ left' \in 0 .. MaxDisturbances
  BY MemoryStoreAssumption DEF StoreInv, Disturb

LEMMA PromiseType ==
    ASSUME StoreInv, NEW t \in Threads, pc[t] # "idle", NEW b \in BOOLEAN, Promise(t, b)
    PROVE  promised' \in [Items -> Int]
<1>1. op[t].item \in Items /\ promised \in [Items -> Int]
  BY DEF StoreInv, Placed, Operation
<1>2. promised' \in {promised, [promised EXCEPT ![op[t].item] = @ + 1],
                     [promised EXCEPT ![op[t].item] = @ - 1]}
  BY DEF Promise
<1> QED
  BY <1>1, <1>2

LEMMA StoreInit == Init => StoreInv
<1> SUFFICES ASSUME Init PROVE StoreInv
  OBVIOUS
<1>1. solo \in BOOLEAN /\ saved \in BOOLEAN
  BY Zenon DEF Init
<1>2. /\ ram \in [Docs -> Seq(Entry)]
      /\ file \in [Docs -> [json : Seq(Entry), len : Nat]]
      /\ json \in [Threads -> Seq(Entry)]
  BY DEF Init, Text
<1>3. pc \in [Threads -> PCs] /\ op \in [Threads -> Operation \cup {NoOp}]
  BY DEF Init, PCs
<1>4. \A t \in Threads : Placed(pc[t], op[t])
  BY NoOpFields DEF Init, Placed
<1>5. Alone
  BY DEF Init, Alone, Running
<1>6. /\ happened \subseteq Disturbances /\ left \in 0 .. MaxDisturbances
      /\ promised \in [Items -> Int] /\ learned \in Nat /\ facts \in BOOLEAN
  BY MemoryStoreAssumption DEF Init
<1> QED
  BY <1>1, <1>2, <1>3, <1>4, <1>5, <1>6 DEF StoreInv

(* The operation that starts. *)
Begins(t, k, i, p, o) ==
    /\ Goes(t, p, o)
    /\ o.kind = k /\ o.item = i /\ o.doc = "list"
    /\ k = "extract" => (p = "mutate" <=> o.new = TRUE)
    /\ p = "count" => k = "extract"

LEMMA Started ==
    ASSUME StoreInv, NEW t \in Threads, NEW k \in Kinds, NEW i \in Items, Start(t, k, i)
    PROVE  \E p \in {"mutate", "count"}, o \in Operation : Begins(t, k, i, p, o)
<1> DEFINE o == [kind |-> k, doc |-> "list", item |-> i, new |-> ~Has(i)]
           p == IF k = "extract" /\ Has(i) THEN "count" ELSE "mutate"
<1>1. (~Has(i)) \in BOOLEAN
  BY Zenon
<1>2. o \in Operation
  BY <1>1 DEF Operation, Docs
<1>3. o.kind = k /\ o.item = i /\ o.doc = "list" /\ (o.new = TRUE <=> ~Has(i))
  OBVIOUS
<1>4. pc' = [pc EXCEPT ![t] = p] /\ op' = [op EXCEPT ![t] = o]
  BY DEF Start
<1>5. p \in {"mutate", "count"} /\ (p = "count" <=> k = "extract" /\ Has(i))
  OBVIOUS
<1> HIDE DEF o, p
<1>6. Placed(p, o)
  BY <1>2, <1>3, <1>5 DEF Placed
<1>7. Begins(t, k, i, p, o)
  BY <1>3, <1>4, <1>5, <1>6 DEF Begins, Goes
<1> QED
  BY <1>2, <1>5, <1>7, Zenon

(* Every other step of a thread. *)
LEMMA StepMoves ==
    ASSUME StoreInv, NEW t \in Threads,
           \/ Add(t) \/ Remove(t) \/ Encode(t) \/ Count(t) \/ Assign(t)
           \/ Open(t) \/ OpenFails(t) \/ Write(t) \/ WriteFails(t)
    PROVE  pc[t] # "idle" /\ \E p \in PCs, o \in Operation \cup {NoOp} : Goes(t, p, o)
<1> USE DEF StoreInv
<1>1. pc[t] # "idle"
  BY DEF Add, Remove, Encode, Count, Assign, Open, OpenFails, Write, WriteFails
<1>2. op[t] \in Operation /\ op = [op EXCEPT ![t] = op[t]]
  BY <1>1 DEF Placed
<1>3. /\ op[t].doc = "list" => Placed("encode", op[t])
      /\ op[t].doc = "stats" => op[t].kind = "extract"
      /\ Placed("open", op[t]) /\ Placed("write", op[t])
      /\ Placed("idle", NoOp)
  BY <1>1, <1>2 DEF Placed
<1>4. {"idle", "encode", "count", "assign", "open", "write"} \subseteq PCs
  BY DEF PCs
<1>5. CASE Add(t)
  <2>1. op[t].doc = "list"
    BY <1>5 DEF Add, Placed
  <2>2. Goes(t, "encode", op[t])
    BY <1>2, <1>3, <1>5, <2>1 DEF Add, Goes
  <2> QED
    BY <1>1, <1>2, <1>4, <2>2
<1>6. CASE Remove(t)
  <2>1. op[t].doc = "list"
    BY <1>6 DEF Remove, Placed
  <2>2. Goes(t, "encode", op[t]) \/ Goes(t, "idle", NoOp)
    BY <1>2, <1>3, <1>6, <2>1 DEF Remove, Return, Goes
  <2> QED
    BY <1>1, <1>2, <1>4, <2>2
<1>7. CASE Encode(t) \/ Assign(t)
  <2>1. Goes(t, "open", op[t])
    BY <1>2, <1>3, <1>7 DEF Encode, Assign, Goes
  <2> QED
    BY <1>1, <1>2, <1>4, <2>1
<1>8. CASE Open(t)
  <2>1. Goes(t, "write", op[t])
    BY <1>2, <1>3, <1>8 DEF Open, Goes
  <2> QED
    BY <1>1, <1>2, <1>4, <2>1
<1>9. CASE Count(t)
  <2> DEFINE o == [op[t] EXCEPT !.doc = "stats"]
  <2>1. op' = [op EXCEPT ![t] = o] /\ pc' = [pc EXCEPT ![t] = "assign"] /\ pc[t] = "count"
    BY <1>9 DEF Count
  <2>2. o \in Operation /\ o.kind = "extract" /\ o.doc = "stats"
    BY <2>1 DEF Placed, Operation, Docs
  <2> HIDE DEF o
  <2>3. Goes(t, "assign", o)
    BY <2>1, <2>2 DEF Placed, Goes
  <2> QED
    BY <1>1, <1>4, <2>2, <2>3
<1>10. CASE OpenFails(t) \/ Write(t) \/ WriteFails(t)
  <2>1. pc[t] \in {"open", "write"} /\ Done(t)
    BY <1>10 DEF OpenFails, Write, WriteFails
  <2>2. PICK p \in {"idle", "count"}, o \in Operation \cup {NoOp} : Ends(t, p, o)
    BY <2>1, DoneMoves
  <2> QED
    BY <1>1, <1>4, <2>2 DEF Ends
<1> QED
  BY <1>5, <1>6, <1>7, <1>8, <1>9, <1>10

LEMMA StoreStep == StoreInv /\ [Next]_vars => StoreInv'
<1> SUFFICES ASSUME StoreInv, [Next]_vars PROVE StoreInv'
  OBVIOUS
<1>1. ASSUME NEW t \in Threads, NEW k \in Kinds, NEW i \in Items, Start(t, k, i)
      PROVE  StoreInv'
  <2>1. PICK p \in {"mutate", "count"}, o \in Operation : Begins(t, k, i, p, o)
    BY <1>1, Started
  <2>a. p \in PCs /\ o \in Operation \cup {NoOp} /\ p # "idle"
    BY DEF PCs
  <2>b. /\ pc' \in [Threads -> PCs] /\ op' \in [Threads -> Operation \cup {NoOp}]
        /\ \A u \in Threads : Placed(pc[u], op[u])'
        /\ Running' = IF p = "idle" THEN Running \ {t} ELSE Running \cup {t}
    BY <2>1, <2>a, Moved DEF Begins
  <2>2. /\ pc' \in [Threads -> PCs] /\ op' \in [Threads -> Operation \cup {NoOp}]
        /\ \A u \in Threads : Placed(pc[u], op[u])'
        /\ Running' = Running \cup {t}
    BY <2>a, <2>b
  <2>3. solo' \in BOOLEAN /\ saved' \in BOOLEAN
    BY <1>1, Zenon DEF Start
  <2>4. solo' => Alone'
    BY <1>1, <2>2 DEF Start, Alone
  <2>5. happened' \subseteq Disturbances /\ left' \in 0 .. MaxDisturbances
    BY <1>1, Disturbed DEF Start, StoreInv, bound
  <2>6. UNCHANGED <<facts, ram, file, json, promised, learned>>
    BY <1>1 DEF Start
  <2> QED
    BY <2>2, <2>3, <2>4, <2>5, <2>6 DEF StoreInv
<1>2. ASSUME NEW t \in Threads,
             \/ Add(t) \/ Remove(t) \/ Encode(t) \/ Count(t) \/ Assign(t)
             \/ Open(t) \/ OpenFails(t) \/ Write(t) \/ WriteFails(t)
      PROVE  StoreInv'
  <2>. pc[t] # "idle"
    BY <1>2, StepMoves
  <2>1. PICK p \in PCs, o \in Operation \cup {NoOp} : Goes(t, p, o)
    BY <1>2, StepMoves
  <2>2. /\ pc' \in [Threads -> PCs] /\ op' \in [Threads -> Operation \cup {NoOp}]
        /\ \A u \in Threads : Placed(pc[u], op[u])'
    BY <2>1, Moved
  <2>3. Running' \subseteq Running
    BY <2>1, Moved DEF Running
  <2>4. UNCHANGED solo /\ UNCHANGED facts
    BY <1>2 DEF Add, Remove, Encode, Count, Assign, Open, OpenFails, Write, WriteFails, history
  <2>5. op[t] \in Operation /\ op[t].item \in Items
    BY <2>1 DEF StoreInv, Placed, Operation
  <2>6. ram' \in [Docs -> Seq(Entry)]
    <3>1. CASE Add(t)
      BY <3>1, <2>5 DEF Add, StoreInv, Entry, Docs
    <3>2. ASSUME NEW n \in Places(ram["list"], op[t].item),
                 ram' = [ram EXCEPT !["list"] = S!RemoveAt(@, n)]
          PROVE  ram' \in [Docs -> Seq(Entry)]
      <4>1. ram["list"] \in Seq(Entry) /\ n \in 1 .. Len(ram["list"])
        BY DEF StoreInv, Places, Docs
      <4>2. S!RemoveAt(ram["list"], n) \in Seq(Entry)
        BY <4>1, RemoveAtKeeps
      <4> QED
        BY <3>2, <4>2 DEF StoreInv
    <3>3. CASE Assign(t)
      BY <3>3 DEF Assign, StoreInv
    <3>4. CASE UNCHANGED ram
      BY <3>4 DEF StoreInv
    <3> QED
      BY <1>2, <3>1, <3>2, <3>3, <3>4 DEF Remove, Encode, Count, Open, OpenFails, Write, WriteFails
  <2>7. json' \in [Threads -> Seq(Entry)]
    <3>1. \E s \in Seq(Entry) : json' = json \/ json' = [json EXCEPT ![t] = s]
      <4>1. ram["list"] \in Seq(Entry) /\ ram["stats"] \in Seq(Entry) /\ <<>> \in Seq(Entry)
        BY DEF StoreInv, Docs
      <4>2. Append(ram["stats"], "one") \in Seq(Entry)
        BY <4>1 DEF Entry
      <4> QED
        BY <1>2, <4>1, <4>2 DEF Add, Remove, Encode, Count, Assign, Open, OpenFails, Write,
                                WriteFails, Forget
    <3> QED
      BY <3>1 DEF StoreInv
  <2>8. file' \in [Docs -> [json : Seq(Entry), len : Nat]]
    <3>1. \E f \in [json : Seq(Entry), len : Nat] :
             file' = file \/ file' = [file EXCEPT ![op[t].doc] = f]
      <4>1. json[t] \in Seq(Entry) /\ <<>> \in Seq(Entry) /\ Len(json[t]) \in Nat
        BY DEF StoreInv
      <4>2. file[op[t].doc].len \in Nat
        BY <2>5 DEF StoreInv, Operation
      <4>3. Longer(file[op[t].doc].len, Len(json[t]) + 1) \in Nat
        BY <4>1, <4>2 DEF Longer
      <4>4. CASE Open(t)
        <5>1. [json |-> <<>>, len |-> 0] \in [json : Seq(Entry), len : Nat]
          BY <4>1
        <5> QED
          BY <4>4, <5>1 DEF Open
      <4>5. CASE Write(t)
        <5>1. [json |-> json[t], len |-> Longer(file[op[t].doc].len, Len(json[t]) + 1)]
                 \in [json : Seq(Entry), len : Nat]
          BY <4>1, <4>3
        <5> QED
          BY <4>5, <5>1 DEF Write
      <4>6. CASE WriteFails(t)
        <5>1. [json |-> json[t], len |-> 0] \in [json : Seq(Entry), len : Nat]
          BY <4>1
        <5> QED
          BY <4>6, <5>1 DEF WriteFails
      <4>7. CASE UNCHANGED file
        <5>1. [json |-> <<>>, len |-> 0] \in [json : Seq(Entry), len : Nat]
          BY <4>1
        <5> QED
          BY <4>7, <5>1
      <4> QED
        BY <1>2, <4>4, <4>5, <4>6, <4>7 DEF Add, Remove, Encode, Count, Assign, OpenFails
    <3> QED
      BY <3>1 DEF StoreInv
  <2>9. happened' \subseteq Disturbances /\ left' \in 0 .. MaxDisturbances
    BY <1>2, Disturbed DEF Add, Remove, Encode, Count, Assign, Open, OpenFails, Write,
                           WriteFails, StoreInv, bound
  <2>10. promised' \in [Items -> Int]
    BY <1>2, <2>1, PromiseType DEF Add, Remove, Encode, Count, Assign, Open, OpenFails, Write,
                                   WriteFails, StoreInv, history
  <2>11. learned' \in Nat
    <3>1. learned' \in {learned, learned + 1}
      BY <1>2 DEF Add, Remove, Encode, Count, Assign, Open, OpenFails, Write, WriteFails, history
    <3> QED
      BY <3>1 DEF StoreInv
  <2>12. saved' \in BOOLEAN
    <3>1. CASE Write(t)
      BY <3>1, Zenon DEF Write
    <3>2. CASE UNCHANGED saved
      BY <3>2 DEF StoreInv
    <3> QED
      BY <1>2, <3>1, <3>2 DEF Add, Remove, Encode, Count, Assign, Open, OpenFails, WriteFails,
                              history
  <2>13. solo' => Alone'
    BY <2>3, <2>4 DEF StoreInv, Alone
  <2>14. solo' \in BOOLEAN /\ facts' \in BOOLEAN
    BY <2>4 DEF StoreInv
  <2> QED
    BY <2>2, <2>6, <2>7, <2>8, <2>9, <2>10, <2>11, <2>12, <2>13, <2>14 DEF StoreInv
<1>3. ASSUME Crash PROVE StoreInv'
  <2>1. /\ ram' = [d \in Docs |-> Load(file[d])]
        /\ pc' = [t \in Threads |-> "idle"] /\ json' = [t \in Threads |-> <<>>]
        /\ op' = [t \in Threads |-> NoOp]
        /\ UNCHANGED <<facts, file, promised, learned, solo>>
    BY <1>3 DEF Crash
  <2>2. saved' \in BOOLEAN
    BY <1>3, Zenon DEF Crash
  <2>3. \A d \in Docs : Load(file[d]) \in Seq(Entry)
    BY DEF StoreInv, Load
  <2>4. \A t \in Threads : Placed(pc[t], op[t])'
    BY <2>1 DEF Placed
  <2>5. Alone'
    BY <2>1 DEF Alone, Running
  <2>6. happened' \subseteq Disturbances /\ left' \in 0 .. MaxDisturbances
    BY <1>3, Disturbed DEF Crash
  <2>7. /\ ram' \in [Docs -> Seq(Entry)] /\ pc' \in [Threads -> PCs]
        /\ json' \in [Threads -> Seq(Entry)] /\ op' \in [Threads -> Operation \cup {NoOp}]
    BY <2>1, <2>3 DEF PCs
  <2> QED
    BY <2>1, <2>2, <2>4, <2>5, <2>6, <2>7 DEF StoreInv
<1>4. ASSUME NEW t \in Threads, NEW u \in Threads, RacingAdds(t, u) PROVE StoreInv'
  <2>1. /\ pc[t] = "mutate" /\ pc[u] = "mutate"
        /\ ram' = [ram EXCEPT !["list"] = Append(@, op[t].item)]
        /\ pc' = [x \in Threads |-> IF x \in {t, u} THEN "encode" ELSE pc[x]]
        /\ UNCHANGED <<facts, file, op, json, promised, solo, saved>>
    BY <1>4 DEF RacingAdds
  <2>2. op[t].item \in Entry /\ ram["list"] \in Seq(Entry)
    BY <2>1 DEF StoreInv, Placed, Operation, Entry, Docs
  <2>3. ram' \in [Docs -> Seq(Entry)]
    <3>1. Append(ram["list"], op[t].item) \in Seq(Entry)
      BY <2>2
    <3> QED
      BY <2>1, <3>1 DEF StoreInv
  <2>4. pc' \in [Threads -> PCs] /\ Running' = Running
    BY <2>1 DEF StoreInv, PCs, Running
  <2>5. \A x \in Threads : Placed(pc'[x], op[x])
    <3>1. Placed("mutate", op[t]) /\ Placed("mutate", op[u])
      BY <2>1 DEF StoreInv
    <3>2. Placed("encode", op[t]) /\ Placed("encode", op[u])
      BY <3>1 DEF Placed
    <3> QED
      BY <2>1, <3>2 DEF StoreInv
  <2>6. \A x \in Threads : Placed(pc[x], op[x])'
    BY <2>1, <2>5 DEF Placed
  <2>7. learned' \in Nat
    <3> DEFINE E == {x \in {t, u} : op[x].kind = "extract"}
    <3>1. IsFiniteSet({t, u})
      <4>1. IsFiniteSet({t}) /\ {t} \cup {u} = {t, u}
        BY FS_Singleton
      <4> QED
        BY <4>1, FS_AddElement
    <3>2. E \in SUBSET {t, u}
      OBVIOUS
    <3> HIDE DEF E
    <3>3. Cardinality(E) \in Nat
      BY <3>1, <3>2, FS_Subset, FS_CardinalityType
    <3>4. learned' = learned + Cardinality(E)
      BY <1>4 DEF RacingAdds, E
    <3> QED
      BY <3>3, <3>4 DEF StoreInv
  <2>8. happened' \subseteq Disturbances /\ left' \in 0 .. MaxDisturbances
    BY <1>4, Disturbed DEF RacingAdds
  <2>9. solo' => Alone'
    BY <2>1, <2>4 DEF StoreInv, Alone
  <2> QED
    BY <2>1, <2>3, <2>4, <2>6, <2>7, <2>8, <2>9 DEF StoreInv
<1>5. CASE UNCHANGED vars
  <2>1. UNCHANGED <<facts, ram, file, pc, op, json, happened, left, promised, learned, solo, saved>>
    BY <1>5 DEF vars, thread, bound, history
  <2> QED
    BY <2>1 DEF StoreInv, Placed, Alone, Running
<1> QED
  BY <1>1, <1>2, <1>3, <1>4, <1>5 DEF Next, Step

LEMMA StoreTypes == StoreInv => TypeOK
<1> SUFFICES ASSUME StoreInv PROVE TypeOK
  OBVIOUS
<1>1. \A d \in Docs : file[d].json \in Seq(Entry) /\ file[d].len \in Nat
  BY DEF StoreInv
<1>2. \A t \in Threads : pc[t] = "idle" <=> op[t] = NoOp
  BY NoOpIsNone DEF StoreInv, Placed
<1>3. solo => Cardinality(Running) <= 1
  <2> SUFFICES ASSUME solo PROVE Cardinality(Running) <= 1
    OBVIOUS
  <2>1. CASE Running = {}
    BY <2>1, FS_EmptySet
  <2>2. ASSUME NEW t \in Running PROVE Cardinality(Running) = 1
    <3>1. Running = {t}
      BY DEF StoreInv, Alone
    <3> QED
      BY <3>1, FS_Singleton
  <2> QED
    BY <2>1, <2>2
<1> QED
  BY <1>1, <1>2, <1>3 DEF StoreInv, TypeOK, PCs

-----------------------------------------------------------------------------
(* The file and what was promised *)

(* While one thread runs alone, the others are idle. *)
LEMMA Others ==
    ASSUME StoreInv, Alone, NEW t \in Threads, pc[t] # "idle",
           NEW p \in PCs, NEW o \in Operation \cup {NoOp}, Goes(t, p, o)
    PROVE  /\ \A u \in Threads \ {t} :
                 pc[u] = "idle" /\ pc'[u] = "idle" /\ ~Saving(u) /\ ~Saving(u)'
           /\ pc'[t] = p /\ op'[t] = o
           /\ Alone'
<1>1. /\ pc'[t] = p /\ op'[t] = o
      /\ \A u \in Threads \ {t} : pc'[u] = pc[u]
  BY Moved
<1>2. \A u \in Threads \ {t} : pc[u] = "idle"
  BY DEF Alone, Running
<1>3. \A u \in Threads \ {t} : ~Saving(u) /\ ~Saving(u)'
  BY <1>1, <1>2 DEF Saving
<1>4. Alone'
  BY <1>1, <1>2 DEF Alone, Running
<1> QED
  BY <1>1, <1>2, <1>3, <1>4

LEMMA SaveInit == Init => SaveInv
<1> SUFFICES ASSUME Init PROVE SaveInv
  OBVIOUS
<1>1. \A t \in Threads : ~Saving(t) /\ pc[t] = "idle"
  BY DEF Init, Saving
<1>2. ram["list"] = <<>> /\ file["list"] = Text(<<>>) /\ ~saved
  BY DEF Init, Docs
<1>3. Readable(file["list"]) /\ file["list"].json = <<>>
  BY <1>2 DEF Readable, Text
<1>4. Tally(<<>>) = promised
  <2>1. \A i : Places(<<>>, i) = {}
    BY DEF Places
  <2> QED
    BY <2>1, FS_EmptySet DEF Init, Tally
<1> QED
  BY <1>1, <1>2, <1>3, <1>4 DEF SaveInv, Steady, SavesMemory, SavedBefore, Alone, Running

LEMMA SaveStart ==
    ASSUME StoreInv, SaveInv, NEW t \in Threads, NEW k \in Kinds, NEW i \in Items,
           Start(t, k, i)
    PROVE  SaveInv'
<1>1. PICK p \in {"mutate", "count"}, o \in Operation : Begins(t, k, i, p, o)
  BY Started
<1>2. p \in PCs /\ o \in Operation \cup {NoOp} /\ Goes(t, p, o)
  BY <1>1 DEF PCs, Begins
<1>3. UNCHANGED <<ram, file, json, promised>> /\ ~saved' /\ pc[t] = "idle"
  BY DEF Start
<1>4. CASE Running = {}
  <2>1. \A u \in Threads : ~Saving(u) /\ pc[u] = "idle"
    BY <1>4 DEF Running, Saving
  <2>2. /\ pc'[t] = p
        /\ \A u \in Threads \ {t} : pc'[u] = "idle"
    BY <1>2, <2>1, Moved
  <2>3. \A u \in Threads : ~Saving(u)'
    BY <2>2 DEF Saving
  <2>4. Alone'
    BY <2>2 DEF Alone, Running
  <2>5. UNCHANGED happened
    BY <1>4 DEF Start, bound
  <2>6. Calm' => Steady'
    BY <1>3, <2>1, <2>3, <2>4, <2>5 DEF SaveInv, Calm, Steady
  <2> QED
    BY <1>3, <2>3, <2>6 DEF SaveInv, SavesMemory, SavedBefore
<1>5. CASE Running # {}
  <2>1. "overlap" \in happened'
    BY <1>5, Disturbed DEF Start
  <2>2. ~solo' /\ ~Calm'
    BY <1>5, <2>1 DEF Start, Calm
  <2> QED
    BY <2>2 DEF SaveInv
<1> QED
  BY <1>4, <1>5

(* Under SaveInv's conditions a step of one thread is that of a lone one. *)
LEMMA SaveAlone == StoreInv /\ SaveInv /\ (Calm \/ solo) => Alone
  BY DEF StoreInv, SaveInv, Steady

LEMMA SaveChange ==
    ASSUME StoreInv, SaveInv, NEW t \in Threads, Add(t) \/ Remove(t)
    PROVE  SaveInv'
<1>1. pc[t] = "mutate" /\ UNCHANGED <<file, json, happened, promised, solo, saved>>
  BY DEF Add, Remove, bound, history
<1>2. op[t].doc = "list" /\ op[t].item \in Items /\ pc[t] # "idle" /\ ~Saving(t)
  BY <1>1 DEF StoreInv, Placed, Operation, Saving
<1>3. CASE Calm \/ solo
  <2>1. PICK p \in PCs, o \in Operation \cup {NoOp} : Goes(t, p, o)
    BY StepMoves
  <2>2. Alone
    BY <1>3, SaveAlone
  <2>3. /\ \A u \in Threads \ {t} :
              pc[u] = "idle" /\ pc'[u] = "idle" /\ ~Saving(u) /\ ~Saving(u)'
        /\ Alone'
    BY <1>2, <2>1, <2>2, Others
  <2>4. ASSUME pc' = [pc EXCEPT ![t] = "encode"], UNCHANGED op, Calm,
               Tally(ram'["list"]) = Promised(t)
        PROVE  Steady'
    <3>1. Promised(t)' = Promised(t) /\ Saving(t)'
      BY <1>1, <1>2, <2>4 DEF Promised, Saving, StoreInv
    <3>2. Readable(file'["list"]) /\ Tally(file'["list"].json) = promised'
      BY <1>1, <1>2, <2>3, <2>4 DEF SaveInv, Steady
    <3> QED
      BY <2>3, <2>4, <3>1, <3>2 DEF Steady
  <2>5. Calm => ram["list"] = file["list"].json /\ Tally(ram["list"]) = promised
    BY <1>2, <2>3 DEF SaveInv, Steady
  <2>6. Calm => Steady'
    <3> HAVE Calm
    <3>1. CASE Add(t)
      <4>1. ram'["list"] = Append(ram["list"], op[t].item) /\ Adds(op[t].kind)
        BY <3>1 DEF Add, StoreInv, Docs
      <4>2. Tally(ram'["list"]) = [promised EXCEPT ![op[t].item] = @ + 1]
        <5>1. ram["list"] \in Seq(Entry)
          BY DEF StoreInv, Docs
        <5>2. Tally(Append(ram["list"], op[t].item)) =
                 [Tally(ram["list"]) EXCEPT ![op[t].item] = @ + 1]
          BY <1>2, <5>1, TallyAppend
        <5> QED
          BY <2>5, <4>1, <5>2
      <4> QED
        BY <2>4, <3>1, <4>1, <4>2 DEF Add, Promised
    <3>2. ASSUME NEW n \in Places(ram["list"], op[t].item), Remove(t),
                 ram' = [ram EXCEPT !["list"] = S!RemoveAt(@, n)],
                 pc' = [pc EXCEPT ![t] = "encode"], UNCHANGED op
          PROVE  Steady'
      <4>1. ram'["list"] = S!RemoveAt(ram["list"], n) /\ ~Adds(op[t].kind)
        BY <3>2 DEF Remove, StoreInv, Docs
      <4>2. Tally(ram'["list"]) = [promised EXCEPT ![op[t].item] = @ - 1]
        <5>1. ram["list"] \in Seq(Entry)
          BY DEF StoreInv, Docs
        <5>2. Tally(S!RemoveAt(ram["list"], n)) =
                 [Tally(ram["list"]) EXCEPT ![op[t].item] = @ - 1]
          BY <1>2, <5>1, TallyRemove
        <5> QED
          BY <2>5, <4>1, <5>2
      <4> QED
        BY <2>4, <3>2, <4>1, <4>2 DEF Promised
    <3>3. ASSUME UNCHANGED ram, Return(t) PROVE Steady'
      <4>1. pc'[t] = "idle"
        BY <3>3 DEF Return, StoreInv
      <4>2. \A u \in Threads : ~Saving(u) /\ ~Saving(u)'
        BY <1>2, <2>3, <4>1 DEF Saving
      <4> QED
        BY <1>1, <2>3, <3>3, <4>2 DEF SaveInv, Steady
    <3> QED
      BY <3>1, <3>2, <3>3 DEF Remove
  <2>7. SavesMemory'
    <3>1. pc'[t] \in {"encode", "idle"}
      BY DEF Add, Remove, Return, StoreInv
    <3> QED
      BY <2>3, <3>1 DEF SavesMemory
  <2>8. solo => SavedBefore'
    BY <1>1 DEF SaveInv, SavedBefore
  <2> QED
    BY <1>1, <2>6, <2>7, <2>8 DEF SaveInv, Calm
<1>4. CASE ~(Calm \/ solo)
  BY <1>1, <1>4 DEF SaveInv, Calm
<1> QED
  BY <1>3, <1>4

LEMMA SaveMiddle ==
    ASSUME StoreInv, SaveInv, NEW t \in Threads,
           Encode(t) \/ Count(t) \/ Assign(t) \/ Open(t)
    PROVE  SaveInv'
<1>1. UNCHANGED <<happened, promised, solo, saved>> /\ UNCHANGED ram["list"]
  BY DEF Encode, Count, Assign, Open, bound, history, StoreInv, Docs
<1>2. CASE Calm \/ solo
  <2>1. pc[t] # "idle" /\ \E p \in PCs, o \in Operation \cup {NoOp} : Goes(t, p, o)
    BY StepMoves
  <2>2. Alone
    BY <1>2, SaveAlone
  <2>3. PICK p \in PCs, o \in Operation \cup {NoOp} : Goes(t, p, o)
    BY <2>1
  <2>4. /\ \A u \in Threads \ {t} :
              pc[u] = "idle" /\ pc'[u] = "idle" /\ ~Saving(u) /\ ~Saving(u)'
        /\ Alone'
    BY <2>1, <2>2, <2>3, Others
  <2>5. op[t] \in Operation /\ (pc[t] = "encode" => op[t].doc = "list")
                            /\ (pc[t] = "assign" => op[t].doc = "stats")
    BY <2>1 DEF StoreInv, Placed
  <2>6. CASE Encode(t)
    <3>1. /\ Saving(t) /\ Saving(t)' /\ pc'[t] = "open" /\ UNCHANGED <<file, op>>
          /\ json'[t] = ram["list"]
      BY <2>5, <2>6 DEF Encode, Saving, StoreInv
    <3>2. Calm => Steady'
      <4>1. Calm => Readable(file["list"]) /\ Tally(file["list"].json) = promised
        BY <2>4, <2>6 DEF SaveInv, Steady, Encode
      <4> QED
        BY <1>1, <2>4, <3>1, <4>1 DEF SaveInv, Steady, Promised
    <3>3. SavesMemory'
      BY <1>1, <2>4, <3>1 DEF SavesMemory
    <3>4. solo => ~saved
      BY <3>1 DEF SaveInv, SavedBefore
    <3> QED
      BY <1>1, <3>2, <3>3, <3>4 DEF SaveInv, SavedBefore, Calm
  <2>7. CASE Open(t) /\ op[t].doc = "list"
    <3>1. /\ Saving(t) /\ Saving(t)' /\ pc[t] = "open" /\ pc'[t] = "write"
          /\ UNCHANGED <<op, json>>
          /\ file'["list"].len = 0
      BY <2>5, <2>7 DEF Open, Saving, StoreInv, Docs
    <3>2. Calm => Steady'
      BY <1>1, <2>4, <3>1 DEF SaveInv, Steady, Promised
    <3>3. SavesMemory'
      BY <1>1, <1>2, <2>4, <3>1 DEF SaveInv, SavesMemory
    <3>4. solo => ~saved
      BY <3>1 DEF SaveInv, SavedBefore
    <3> QED
      BY <1>1, <3>2, <3>3, <3>4 DEF SaveInv, SavedBefore, Calm
  <2>8. CASE Count(t) \/ Assign(t) \/ (Open(t) /\ op[t].doc # "list")
    <3>1. ~Saving(t) /\ ~Saving(t)' /\ pc'[t] # "mutate"
      BY <2>5, <2>8 DEF Count, Assign, Open, Saving, StoreInv, Operation, Docs
    <3>2. UNCHANGED file["list"]
      BY <2>5, <2>8 DEF Count, Assign, Open, StoreInv, Operation, Docs
    <3>3. Calm => Steady'
      BY <1>1, <2>4, <3>1, <3>2 DEF SaveInv, Steady
    <3>4. SavesMemory'
      BY <2>4, <3>1 DEF SavesMemory
    <3>5. solo => SavedBefore'
      BY <1>1, <2>4, <3>1, <3>2 DEF SaveInv, SavedBefore
    <3> QED
      BY <1>1, <3>3, <3>4, <3>5 DEF SaveInv, Calm
  <2> QED
    BY <2>6, <2>7, <2>8
<1>3. CASE ~(Calm \/ solo)
  BY <1>1, <1>3 DEF SaveInv, Calm
<1> QED
  BY <1>2, <1>3

LEMMA SaveEnds ==
    ASSUME StoreInv, SaveInv, NEW t \in Threads,
           OpenFails(t) \/ Write(t) \/ WriteFails(t)
    PROVE  SaveInv'
<1>1. UNCHANGED <<ram, solo>> /\ happened \subseteq happened' /\ (~Write(t) => ~Calm')
  <2>1. ASSUME OpenFails(t) \/ WriteFails(t)
        PROVE  \E d \in {"diskFull", "race"} : happened' = happened \cup {d}
    BY <2>1, Disturbed DEF OpenFails, WriteFails
  <2>2. Write(t) => UNCHANGED happened
    BY DEF Write, bound
  <2> QED
    BY <2>1, <2>2 DEF OpenFails, Write, WriteFails, Calm
<1>2. CASE Calm' \/ solo
  <2>1. Alone /\ pc[t] # "idle" /\ (Calm' => Calm)
    BY <1>1, <1>2, SaveAlone DEF Calm, OpenFails, Write, WriteFails
  <2>2. pc[t] \in {"open", "write"} /\ Done(t)
    BY DEF OpenFails, Write, WriteFails
  <2>3. PICK p \in {"idle", "count"}, o \in Operation \cup {NoOp} : Ends(t, p, o)
    BY <2>2, DoneMoves
  <2>4. Goes(t, p, o) /\ p \in PCs
    BY <2>3 DEF Ends, PCs
  <2>5. /\ \A u \in Threads \ {t} :
              pc[u] = "idle" /\ pc'[u] = "idle" /\ ~Saving(u) /\ ~Saving(u)'
        /\ pc'[t] = p
        /\ Alone'
    BY <2>1, <2>4, Others
  <2>6. ~Saving(t)' /\ pc'[t] # "mutate" /\ SavesMemory'
    BY <2>5 DEF Saving, SavesMemory
  <2>7. op[t] \in Operation /\ op[t].doc \in Docs
    BY <2>1 DEF StoreInv, Placed, Operation
  <2>8. CASE Write(t) /\ op[t].doc = "list"
    <3>1. Saving(t) /\ pc[t] = "write"
      BY <2>8 DEF Write, Saving
    <3>2. json[t] = ram["list"] /\ file["list"].len = 0
      BY <1>2, <2>1, <3>1 DEF SaveInv, SavesMemory
    <3>3. file'["list"] = [json |-> json[t], len |-> Longer(file["list"].len, Len(json[t]) + 1)]
      BY <2>8 DEF Write, StoreInv, Docs
    <3>4. Longer(0, Len(json[t]) + 1) = Len(json[t]) + 1
      BY DEF Longer, StoreInv
    <3>5. file'["list"] = Text(ram["list"])
      BY <3>2, <3>3, <3>4 DEF Text
    <3>6. Readable(file'["list"]) /\ file'["list"].json = ram["list"]
      BY <3>5 DEF Text, Readable
    <3>7. promised' = Promised(t)
      BY <2>7, <2>8 DEF Write, Promise, Promised
    <3>8. Calm' => Steady'
      BY <1>1, <2>1, <2>5, <2>6, <3>1, <3>6, <3>7 DEF SaveInv, Steady
    <3>9. SavedBefore'
      BY <1>1, <2>5, <2>6, <3>5 DEF SavedBefore
    <3> QED
      BY <2>6, <3>8, <3>9 DEF SaveInv
  <2>9. CASE Write(t) /\ op[t].doc = "stats"
    <3>1. ~Saving(t) /\ UNCHANGED promised /\ UNCHANGED file["list"] /\ (saved' => saved)
      <4>1. ~Saving(t)
        BY <2>9 DEF Saving
      <4>2. UNCHANGED promised
        BY <2>9 DEF Write, Promise
      <4>3. UNCHANGED file["list"]
        BY <2>9 DEF Write, StoreInv, Docs
      <4>4. saved' => saved
        BY <2>9, Zenon DEF Write
      <4> QED
        BY <4>1, <4>2, <4>3, <4>4
    <3>2. Calm' => Steady'
      BY <1>1, <2>1, <2>5, <2>6, <3>1 DEF SaveInv, Steady
    <3>3. solo => SavedBefore'
      BY <1>1, <2>5, <2>6, <3>1 DEF SaveInv, SavedBefore
    <3> QED
      BY <1>1, <2>6, <3>2, <3>3 DEF SaveInv
  <2>10. CASE ~Write(t)
    <3>1. UNCHANGED saved
      BY <2>10 DEF OpenFails, WriteFails
    <3>2. ~Calm' /\ solo
      BY <1>1, <1>2, <2>10
    <3>3. saved => ~Saving(t) /\ file["list"] = Text(ram["list"])
      BY <3>2 DEF SaveInv, SavedBefore
    <3>4. saved => op[t].doc = "stats"
      BY <2>2, <2>7, <3>3 DEF Saving, Docs
    <3>5. saved => UNCHANGED file["list"]
      BY <2>10, <3>4 DEF OpenFails, WriteFails, StoreInv, Docs
    <3>6. SavedBefore'
      BY <1>1, <2>5, <2>6, <3>1, <3>3, <3>5 DEF SavedBefore
    <3> QED
      BY <2>6, <3>2, <3>6 DEF SaveInv
  <2> QED
    BY <2>7, <2>8, <2>9, <2>10 DEF Docs
<1>3. CASE ~(Calm' \/ solo)
  BY <1>1, <1>3 DEF SaveInv
<1> QED
  BY <1>2, <1>3

LEMMA SaveCrash ==
    ASSUME StoreInv, SaveInv, Crash
    PROVE  SaveInv'
<1>1. /\ ram'["list"] = Load(file["list"])
      /\ \A t \in Threads : pc'[t] = "idle" /\ ~Saving(t)'
      /\ UNCHANGED <<file, promised>> /\ ~saved'
  BY DEF Crash, Saving, Docs
<1>2. Alone' /\ SavesMemory' /\ SavedBefore'
  BY <1>1 DEF Alone, Running, SavesMemory, SavedBefore
<1>3. Calm' => Steady'
  <2> HAVE Calm'
  <2>1. Calm /\ \A t \in Threads : pc[t] # "write"
    <3>1. CASE \E t \in Threads : pc[t] = "write"
      <4>1. "crashInWrite" \in happened'
        BY <3>1, Disturbed DEF Crash
      <4> QED
        BY <4>1 DEF Calm
    <3>2. CASE ~ \E t \in Threads : pc[t] = "write"
      <4>1. happened' = happened \cup {"crash"}
        BY <3>2, Disturbed DEF Crash
      <4> QED
        BY <3>2, <4>1 DEF Calm
    <3> QED
      BY <3>1, <3>2
  <2>2. Readable(file["list"]) /\ Tally(file["list"].json) = promised
    BY <2>1 DEF SaveInv, Steady
  <2> QED
    BY <1>1, <1>2, <2>2 DEF Steady, Load
<1> QED
  BY <1>2, <1>3 DEF SaveInv

LEMMA SaveStep == StoreInv /\ SaveInv /\ [Next]_vars => SaveInv'
<1> SUFFICES ASSUME StoreInv, SaveInv, [Next]_vars PROVE SaveInv'
  OBVIOUS
<1>1. ASSUME NEW t \in Threads, NEW u \in Threads, RacingAdds(t, u) PROVE SaveInv'
  <2>1. pc[t] = "mutate" /\ pc[u] = "mutate" /\ t # u /\ UNCHANGED solo
    BY <1>1 DEF RacingAdds
  <2>2. ~solo'
    BY <2>1 DEF StoreInv, Alone, Running
  <2>3. ~Calm'
    BY <1>1, Disturbed DEF RacingAdds, Calm
  <2> QED
    BY <2>2, <2>3 DEF SaveInv
<1>2. CASE UNCHANGED vars
  <2>1. UNCHANGED <<ram, file, pc, op, json, happened, promised, solo, saved>>
    BY <1>2 DEF vars, thread, bound, history
  <2> QED
    BY <2>1 DEF SaveInv, Steady, SavesMemory, SavedBefore, Calm, Alone, Running, Saving,
                Promised
<1> QED
  BY <1>1, <1>2, SaveStart, SaveChange, SaveMiddle, SaveEnds, SaveCrash DEF Next, Step

-----------------------------------------------------------------------------
(* The counter of learned facts *)

(* Only the thread that moves becomes due, or is no longer. *)
LEMMA UncountedMoves ==
    ASSUME StoreInv, NEW t \in Threads, NEW p \in PCs, NEW o \in Operation \cup {NoOp},
           Goes(t, p, o)
    PROVE  Uncounted' = IF Due(p, o) THEN Uncounted \cup {t} ELSE Uncounted \ {t}
<1>1. /\ pc'[t] = p /\ op'[t] = o
      /\ \A u \in Threads \ {t} : pc'[u] = pc[u] /\ op'[u] = op[u]
  BY Moved
<1>2. Uncounted' = {u \in Threads : Due(pc'[u], op'[u])}
  BY DEF Uncounted, Due
<1>3. \A u \in Threads : u \in Uncounted' <=> IF u = t THEN Due(p, o) ELSE u \in Uncounted
  BY <1>1, <1>2 DEF Uncounted
<1>4. Uncounted' \subseteq Threads /\ Uncounted \subseteq Threads
  BY <1>2 DEF Uncounted
<1> QED
  BY <1>3, <1>4

(* The sizes that occur below. *)
LEMMA UncountedSizes ==
    ASSUME StoreInv, CountInv
    PROVE  /\ learned \in Nat
           /\ Len(ram["stats"]) \in Nat /\ Len(file["stats"].json) \in Nat
           /\ \A t \in Threads : Len(json[t]) \in Nat
           /\ Cardinality(Uncounted) \in Nat
           /\ \A t : /\ IsFiniteSet(Uncounted \ {t}) /\ Cardinality(Uncounted \ {t}) \in Nat
                     /\ IsFiniteSet(Uncounted \cup {t})
                     /\ t \in Uncounted =>
                           Cardinality(Uncounted) = Cardinality(Uncounted \ {t}) + 1
                     /\ t \notin Uncounted =>
                           /\ Cardinality(Uncounted \ {t}) = Cardinality(Uncounted)
                           /\ Cardinality(Uncounted \cup {t}) = Cardinality(Uncounted) + 1
<1>1. /\ learned \in Nat
      /\ Len(ram["stats"]) \in Nat /\ Len(file["stats"].json) \in Nat
      /\ \A t \in Threads : Len(json[t]) \in Nat
  <2>1. ram["stats"] \in Seq(Entry) /\ file["stats"].json \in Seq(Entry)
    BY DEF StoreInv, Docs
  <2> QED
    BY <2>1 DEF StoreInv
<1>2. IsFiniteSet(Uncounted) /\ Cardinality(Uncounted) \in Nat
  BY FS_CardinalityType DEF CountInv
<1>3. ASSUME NEW t
      PROVE  /\ IsFiniteSet(Uncounted \ {t}) /\ Cardinality(Uncounted \ {t}) \in Nat
             /\ IsFiniteSet(Uncounted \cup {t})
             /\ t \in Uncounted =>
                   Cardinality(Uncounted) = Cardinality(Uncounted \ {t}) + 1
             /\ t \notin Uncounted =>
                   /\ Cardinality(Uncounted \ {t}) = Cardinality(Uncounted)
                   /\ Cardinality(Uncounted \cup {t}) = Cardinality(Uncounted) + 1
  <2>1. /\ IsFiniteSet(Uncounted \ {t}) /\ Cardinality(Uncounted \ {t}) \in Nat
        /\ Cardinality(Uncounted \ {t}) =
              IF t \in Uncounted THEN Cardinality(Uncounted) - 1 ELSE Cardinality(Uncounted)
    BY <1>2, FS_RemoveElement, FS_CardinalityType
  <2>2. /\ IsFiniteSet(Uncounted \cup {t})
        /\ Cardinality(Uncounted \cup {t}) =
              IF t \in Uncounted THEN Cardinality(Uncounted) ELSE Cardinality(Uncounted) + 1
    BY <1>2, FS_AddElement
  <2> QED
    BY <1>2, <2>1, <2>2
<1> QED
  BY <1>1, <1>2, <1>3, Zenon

LEMMA CountInit == Init => FactsInv
<1> SUFFICES ASSUME Init PROVE CountInv /\ ExactInv
  BY DEF FactsInv
<1>1. /\ \A t \in Threads : op[t] = NoOp /\ pc[t] = "idle"
      /\ ram["stats"] = <<>> /\ file["stats"].json = <<>> /\ learned = 0
  BY DEF Init, Docs, Text
<1>2. Uncounted = {}
  BY <1>1, NoOpFields DEF Uncounted, Due
<1>3. IsFiniteSet(Uncounted) /\ Cardinality(Uncounted) = 0
  BY <1>2, FS_EmptySet
<1> QED
  BY <1>1, <1>3, NoOpFields DEF CountInv, ExactInv, Alone, Running

(* Steps that learn and count nothing leave every count as it is. *)
LEMMA CountKept ==
    ASSUME StoreInv, CountInv,
           Uncounted' = Uncounted, UNCHANGED learned, UNCHANGED ram["stats"],
           Len(file'["stats"].json) <= learned,
           \A u \in Threads : op'[u].doc = "stats" => op[u].doc = "stats" /\ json'[u] = json[u]
    PROVE  CountInv'
<1>1. IsFiniteSet(Uncounted') /\ Len(ram'["stats"]) + Cardinality(Uncounted') <= learned'
  BY DEF CountInv
<1>2. \A u \in Threads : op'[u].doc = "stats" =>
         Len(json'[u]) + Cardinality(Uncounted' \ {u}) <= learned'
  BY DEF CountInv
<1>3. Len(file'["stats"].json) <= learned'
  OBVIOUS
<1> QED
  BY <1>1, <1>2, <1>3 DEF CountInv

LEMMA CountStart ==
    ASSUME StoreInv, CountInv, ExactInv, NEW t \in Threads, NEW k \in Kinds, NEW i \in Items,
           Start(t, k, i)
    PROVE  CountInv' /\ ExactInv'
<1>1. PICK p \in {"mutate", "count"}, o \in Operation : Begins(t, k, i, p, o)
  BY Started
<1>2. p \in PCs /\ o \in Operation \cup {NoOp} /\ Goes(t, p, o)
  BY <1>1 DEF PCs, Begins
<1>3. UNCHANGED <<ram, file, json, learned>> /\ pc[t] = "idle" /\ op[t] = NoOp
  BY DEF Start, StoreInv, Placed
<1>4. ~Due(p, o) /\ t \notin Uncounted
  BY <1>1, <1>3, NoOpFields DEF Begins, Due, Uncounted
<1>5. Uncounted' = Uncounted
  BY <1>2, <1>4, UncountedMoves
<1>6. /\ pc'[t] = p /\ op'[t] = o /\ op'[t].doc = "list"
      /\ \A u \in Threads \ {t} : pc'[u] = pc[u] /\ op'[u] = op[u]
  BY <1>1, <1>2, Moved DEF Begins
<1>7. CountInv'
  <2>1. \A u \in Threads : op'[u].doc = "stats" => op[u].doc = "stats" /\ json'[u] = json[u]
    BY <1>3, <1>6
  <2>2. Len(file'["stats"].json) <= learned
    BY <1>3 DEF CountInv
  <2> QED
    BY <1>3, <1>5, <2>1, <2>2, CountKept
<1>8. ExactInv'
  <2> SUFFICES ASSUME happened' \subseteq {"diskFull"} PROVE ExactInv'
    BY DEF ExactInv
  <2>1. Running = {} /\ UNCHANGED happened
    BY Disturbed DEF Start, bound
  <2>2. \A u \in Threads \ {t} : pc'[u] = "idle"
    BY <1>6, <2>1 DEF Running
  <2>3. Alone'
    BY <2>2 DEF Alone, Running
  <2>4. pc'[t] = "mutate" /\ op'[t].kind = "extract" => op'[t].new = TRUE
    BY <1>1, <1>6 DEF Begins
  <2> QED
    BY <1>1, <1>3, <1>5, <1>6, <2>1, <2>2, <2>3, <2>4 DEF ExactInv
<1> QED
  BY <1>7, <1>8

(* An extraction adds its fact and becomes due. *)
LEMMA CountAdd ==
    ASSUME StoreInv, CountInv, ExactInv, NEW t \in Threads, Add(t)
    PROVE  CountInv' /\ ExactInv'
<1>1. /\ pc[t] = "mutate" /\ op[t].doc = "list" /\ op[t] \in Operation
      /\ pc' = [pc EXCEPT ![t] = "encode"] /\ UNCHANGED <<op, json, file, happened>>
      /\ learned' = IF op[t].kind = "extract" THEN learned + 1 ELSE learned
      /\ UNCHANGED ram["stats"]
  BY DEF Add, StoreInv, Placed, bound, Docs
<1>2. Goes(t, "encode", op[t])
  BY <1>1 DEF Goes, Placed, StoreInv
<1>3. "encode" \in PCs /\ op[t] \in Operation \cup {NoOp} /\ pc[t] # "idle"
  BY <1>1 DEF PCs
<1>4. t \notin Uncounted
  BY <1>1 DEF Uncounted, Due
<1>5. Uncounted' = IF op[t].kind = "extract" /\ op[t].new = TRUE THEN Uncounted \cup {t}
                   ELSE Uncounted
  <2>1. Due("encode", op[t]) <=> op[t].kind = "extract" /\ op[t].new = TRUE
    BY <1>1 DEF Due
  <2>2. Uncounted' = IF Due("encode", op[t]) THEN Uncounted \cup {t} ELSE Uncounted \ {t}
    BY <1>2, <1>3, UncountedMoves
  <2> QED
    BY <1>4, <2>1, <2>2
<1>6. CASE op[t].kind = "extract" /\ op[t].new = TRUE
  <2>1. Uncounted' = Uncounted \cup {t} /\ learned' = learned + 1
    BY <1>1, <1>5, <1>6
  <2>2. IsFiniteSet(Uncounted') /\ Cardinality(Uncounted') = Cardinality(Uncounted) + 1
    BY <1>4, <2>1, UncountedSizes
  <2>3. ASSUME NEW u \in Threads, op[u].doc = "stats"
        PROVE  Len(json[u]) + Cardinality(Uncounted' \ {u}) <= learned'
    <3>1. u # t /\ t \notin Uncounted \ {u} /\ IsFiniteSet(Uncounted \ {u})
      BY <1>1, <1>4, <2>3, UncountedSizes
    <3>2. Uncounted' \ {u} = (Uncounted \ {u}) \cup {t}
      BY <2>1, <3>1
    <3>3. Cardinality(Uncounted' \ {u}) = Cardinality(Uncounted \ {u}) + 1
      BY <3>1, <3>2, FS_AddElement
    <3>4. Len(json[u]) + Cardinality(Uncounted \ {u}) <= learned
      BY <2>3 DEF CountInv
    <3>5. Len(json[u]) \in Nat /\ Cardinality(Uncounted \ {u}) \in Nat /\ learned \in Nat
      BY UncountedSizes
    <3> QED
      BY <2>1, <3>3, <3>4, <3>5
  <2>4. /\ Len(ram'["stats"]) + Cardinality(Uncounted') <= learned'
        /\ Len(file'["stats"].json) <= learned'
    BY <1>1, <2>1, <2>2, UncountedSizes DEF CountInv
  <2>5. CountInv'
    BY <1>1, <2>2, <2>3, <2>4 DEF CountInv
  <2>6. Len(ram["stats"]) + Cardinality(Uncounted) = learned
           => Len(ram'["stats"]) + Cardinality(Uncounted') = learned'
    BY <1>1, <2>1, <2>2, UncountedSizes
  <2> QED
    BY <1>1, <1>2, <1>3, <2>5, <2>6, Others DEF ExactInv
<1>7. CASE ~(op[t].kind = "extract" /\ op[t].new = TRUE)
  <2>1. Uncounted' = Uncounted /\ learned' \in {learned, learned + 1}
    BY <1>1, <1>5, <1>7
  <2>2. learned <= learned' /\ learned' \in Nat
    BY <2>1, UncountedSizes
  <2>3. Len(ram'["stats"]) + Cardinality(Uncounted') <= learned'
    BY <1>1, <2>1, <2>2, UncountedSizes DEF CountInv
  <2>4. ASSUME NEW u \in Threads, op[u].doc = "stats"
        PROVE  Len(json[u]) + Cardinality(Uncounted' \ {u}) <= learned'
    <3>1. Len(json[u]) + Cardinality(Uncounted \ {u}) <= learned
      BY <2>4 DEF CountInv
    <3>2. Len(json[u]) \in Nat /\ Cardinality(Uncounted \ {u}) \in Nat /\ learned \in Nat
      BY UncountedSizes
    <3> QED
      BY <2>1, <2>2, <3>1, <3>2
  <2>5. Len(file'["stats"].json) <= learned'
    BY <1>1, <2>2, UncountedSizes DEF CountInv
  <2>6. CountInv'
    BY <1>1, <2>1, <2>3, <2>4, <2>5 DEF CountInv
  <2>7. happened \subseteq {"diskFull"} => UNCHANGED learned
    BY <1>1, <1>7 DEF ExactInv
  <2> QED
    BY <1>1, <1>2, <1>3, <2>1, <2>6, <2>7, Others DEF ExactInv
<1> QED
  BY <1>6, <1>7

(* Of two racing additions one entry is lost, but both are learned. *)
LEMMA CountRace ==
    ASSUME StoreInv, CountInv, NEW t \in Threads, NEW u \in Threads, RacingAdds(t, u)
    PROVE  CountInv' /\ ExactInv'
<1> DEFINE E == {x \in {t, u} : op[x].kind = "extract"}
           N == {x \in E : op[x].new = TRUE}
<1>1. /\ pc[t] = "mutate" /\ pc[u] = "mutate"
      /\ pc' = [x \in Threads |-> IF x \in {t, u} THEN "encode" ELSE pc[x]]
      /\ UNCHANGED <<op, json, file>>
      /\ UNCHANGED ram["stats"]
      /\ learned' = learned + Cardinality(E)
  BY DEF RacingAdds, StoreInv, Docs
<1>2. op[t].doc = "list" /\ op[u].doc = "list"
  BY <1>1 DEF StoreInv, Placed
<1>3. Uncounted' = Uncounted \cup N
  <2>1. Uncounted' = {x \in Threads : Due(pc'[x], op'[x])}
    BY DEF Uncounted, Due
  <2>2. ASSUME NEW x \in Threads \ {t, u} PROVE Due(pc'[x], op'[x]) <=> Due(pc[x], op[x])
    BY <1>1
  <2>3. ASSUME NEW x \in {t, u} PROVE Due(pc'[x], op'[x]) <=> x \in N
    BY <1>1, <1>2 DEF Due
  <2>4. ASSUME NEW x \in {t, u} PROVE ~Due(pc[x], op[x])
    BY <1>1 DEF Due
  <2> HIDE DEF N
  <2>5. N \subseteq {t, u}
    BY DEF N
  <2>6. \A x \in Threads : x \in Uncounted' <=> x \in Uncounted \cup N
    BY <2>1, <2>2, <2>3, <2>4, <2>5 DEF Uncounted
  <2>7. Uncounted' \subseteq Threads /\ Uncounted \cup N \subseteq Threads
    BY <2>1, <2>5 DEF Uncounted
  <2> QED
    BY <2>6, <2>7
<1>4. IsFiniteSet(E) /\ Cardinality(E) \in Nat
  <2>1. IsFiniteSet({t, u})
    <3>1. IsFiniteSet({t}) /\ {t} \cup {u} = {t, u}
      BY FS_Singleton
    <3> QED
      BY <3>1, FS_AddElement
  <2> QED
    BY <2>1, FS_Subset, FS_CardinalityType, E \in SUBSET {t, u}
<1>5. IsFiniteSet(N) /\ Cardinality(N) \in Nat /\ Cardinality(N) <= Cardinality(E)
  BY <1>4, FS_Subset, FS_CardinalityType, N \in SUBSET E
<1> HIDE DEF E, N
<1>6. ASSUME NEW V, IsFiniteSet(V)
      PROVE  IsFiniteSet(V \cup N) /\ Cardinality(V \cup N) <= Cardinality(V) + Cardinality(N)
  <2>1. IsFiniteSet(V \cap N)
    BY <1>5, FS_Subset, V \cap N \in SUBSET N
  <2>2. Cardinality(V \cap N) \in Nat /\ Cardinality(V) \in Nat
    BY <1>6, <2>1, FS_CardinalityType
  <2> QED
    BY <1>5, <1>6, <2>2, FS_Union
<1>7. CountInv'
  <2>1. /\ IsFiniteSet(Uncounted')
        /\ Len(ram'["stats"]) + Cardinality(Uncounted') <= learned'
    <3>1. IsFiniteSet(Uncounted') /\ Cardinality(Uncounted') \in Nat
      BY <1>3, <1>6, FS_CardinalityType DEF CountInv
    <3>2. Cardinality(Uncounted') <= Cardinality(Uncounted) + Cardinality(N)
      BY <1>3, <1>6 DEF CountInv
    <3> QED
      BY SMTT(30), <1>1, <1>4, <1>5, <3>1, <3>2, UncountedSizes DEF CountInv
  <2>2. ASSUME NEW v \in Threads, op[v].doc = "stats"
        PROVE  Len(json[v]) + Cardinality(Uncounted' \ {v}) <= learned'
    <3>1. v \notin N
      <4>1. N \subseteq {t, u}
        BY DEF N, E
      <4> QED
        BY <1>2, <2>2, <4>1
    <3>2. Uncounted' \ {v} = (Uncounted \ {v}) \cup N
      BY <1>3, <3>1
    <3>3. Cardinality(Uncounted' \ {v}) <= Cardinality(Uncounted \ {v}) + Cardinality(N)
      BY <1>6, <3>2, UncountedSizes
    <3>4. IsFiniteSet(Uncounted' \ {v}) /\ Cardinality(Uncounted' \ {v}) \in Nat
      BY <1>6, <3>2, UncountedSizes, FS_CardinalityType
    <3>5. Len(json[v]) + Cardinality(Uncounted \ {v}) <= learned
      BY <2>2 DEF CountInv
    <3>6. Len(json[v]) \in Nat /\ Cardinality(Uncounted \ {v}) \in Nat /\ learned \in Nat
      BY UncountedSizes
    <3> QED
      BY <1>1, <1>4, <1>5, <3>3, <3>4, <3>5, <3>6
  <2>3. Len(file'["stats"].json) <= learned'
    BY <1>1, <1>4, UncountedSizes DEF CountInv
  <2> QED
    BY <1>1, <2>1, <2>2, <2>3 DEF CountInv
<1>8. ExactInv'
  BY Disturbed DEF RacingAdds, ExactInv
<1> QED
  BY <1>7, <1>8

LEMMA ExactKept ==
    ASSUME StoreInv, ExactInv, NEW t \in Threads, pc[t] # "idle",
           NEW p \in PCs \ {"mutate", "assign"}, NEW o \in Operation \cup {NoOp}, Goes(t, p, o),
           happened \subseteq happened',
           Uncounted' = Uncounted, UNCHANGED learned, UNCHANGED ram["stats"]
    PROVE  ExactInv'
<1> SUFFICES ASSUME happened' \subseteq {"diskFull"} PROVE ExactInv'
  BY DEF ExactInv
<1>1. Alone /\ Len(ram["stats"]) + Cardinality(Uncounted) = learned
  BY DEF ExactInv
<1>2. Alone' /\ pc'[t] = p /\ \A u \in Threads \ {t} : pc'[u] = "idle"
  BY <1>1, Others
<1> QED
  BY <1>1, <1>2 DEF ExactInv

(* Where the steps go that neither learn nor count. *)
LEMMA KeptMoves ==
    ASSUME StoreInv, NEW t \in Threads,
           \/ Remove(t) \/ Encode(t) \/ Open(t) \/ OpenFails(t) \/ Write(t) \/ WriteFails(t)
    PROVE  /\ pc[t] # "idle"
           /\ \E p \in PCs \ {"mutate", "assign"}, o \in {op[t], NoOp} :
                 /\ Goes(t, p, o)
                 /\ Due(p, o) <=> Due(pc[t], op[t])
                 /\ o = NoOp \/ Encode(t) \/ Open(t) \/ Remove(t) \/ o.doc = "list"
<1>1. pc[t] # "idle" /\ op[t] \in Operation
  BY DEF StoreInv, Placed, Remove, Encode, Open, OpenFails, Write, WriteFails
<1>2. op[t].doc \in Docs /\ op = [op EXCEPT ![t] = op[t]]
  BY <1>1 DEF Operation, StoreInv
<1>3. ~Due("idle", NoOp) /\ Placed("idle", NoOp)
  BY NoOpFields DEF Due, Placed
<1>4. {"idle", "encode", "open", "write", "count"} \subseteq PCs \ {"mutate", "assign"}
  BY DEF PCs
<1>5. ASSUME Remove(t)
      PROVE  (Goes(t, "encode", op[t]) \/ Goes(t, "idle", NoOp))
                /\ ~Due(pc[t], op[t]) /\ ~Due("encode", op[t])
  <2>1. pc[t] = "mutate" /\ op[t].kind # "extract"
    BY <1>5 DEF Remove, Adds
  <2>2. ~Due(pc[t], op[t]) /\ ~Due("encode", op[t])
    BY <2>1 DEF Due
  <2>3. Placed("encode", op[t])
    BY <1>1, <2>1 DEF Placed, StoreInv
  <2> QED
    BY <1>2, <1>3, <1>5, <2>2, <2>3 DEF Remove, Return, Goes
<1>6. ASSUME Encode(t)
      PROVE  Goes(t, "open", op[t]) /\ (Due("open", op[t]) <=> Due(pc[t], op[t]))
  <2>1. pc[t] = "encode" /\ op[t].doc = "list"
    BY <1>6 DEF Encode, Placed, StoreInv
  <2>2. Placed("open", op[t])
    BY <1>1, <2>1 DEF Placed
  <2> QED
    BY <1>2, <1>6, <2>1, <2>2 DEF Encode, Goes, Due
<1>7. ASSUME Open(t)
      PROVE  Goes(t, "write", op[t]) /\ (Due("write", op[t]) <=> Due(pc[t], op[t]))
  <2>1. pc[t] = "open" /\ Placed("write", op[t])
    BY <1>1, <1>7 DEF Open, Placed, StoreInv
  <2> QED
    BY <1>2, <1>7, <2>1 DEF Open, Goes, Due
<1>8. ASSUME OpenFails(t) \/ Write(t) \/ WriteFails(t)
      PROVE  \E p \in {"idle", "count"}, o \in {op[t], NoOp} :
                /\ Goes(t, p, o)
                /\ Due(p, o) <=> Due(pc[t], op[t])
                /\ o = NoOp \/ o.doc = "list"
  <2>1. pc[t] \in {"open", "write"} /\ Done(t)
    BY <1>8 DEF OpenFails, Write, WriteFails
  <2>2. PICK p \in {"idle", "count"}, o \in Operation \cup {NoOp} : Ends(t, p, o)
    BY <2>1, DoneMoves
  <2>3. o \in {op[t], NoOp} /\ Goes(t, p, o) /\ (o = NoOp \/ o.doc = "list")
    BY <2>2 DEF Ends
  <2>4. Due(p, o) <=> Due(pc[t], op[t])
    <3>1. CASE op[t].kind = "extract" /\ op[t].doc = "list"
      BY <2>1, <2>2, <3>1 DEF Ends, Due
    <3>2. CASE ~(op[t].kind = "extract" /\ op[t].doc = "list")
      <4>1. p = "idle" /\ o = NoOp
        BY <2>2, <3>2 DEF Ends
      <4>2. ~Due(pc[t], op[t])
        BY <2>1, <3>2 DEF Due
      <4> QED
        BY <1>3, <4>1, <4>2
    <3> QED
      BY <3>1, <3>2
  <2> QED
    BY <2>3, <2>4
<1> QED
  BY <1>1, <1>3, <1>4, <1>5, <1>6, <1>7, <1>8

LEMMA CountSave ==
    ASSUME StoreInv, CountInv, ExactInv, NEW t \in Threads,
           \/ Remove(t) \/ Encode(t) \/ Open(t) \/ OpenFails(t) \/ Write(t) \/ WriteFails(t)
    PROVE  CountInv' /\ ExactInv'
<1>1. pc[t] # "idle" /\ op[t] \in Operation /\ op[t].doc \in Docs
  BY KeptMoves DEF StoreInv, Placed, Operation
<1>2. PICK p \in PCs \ {"mutate", "assign"}, o \in {op[t], NoOp} :
         /\ Goes(t, p, o)
         /\ Due(p, o) <=> Due(pc[t], op[t])
         /\ o = NoOp \/ Encode(t) \/ Open(t) \/ Remove(t) \/ o.doc = "list"
  BY KeptMoves
<1>3. p \in PCs /\ o \in Operation \cup {NoOp}
  BY <1>1, <1>2
<1>4. Uncounted' = Uncounted
  <2>1. t \in Uncounted <=> Due(pc[t], op[t])
    BY DEF Uncounted
  <2> QED
    BY <1>2, <1>3, <2>1, UncountedMoves
<1>5. UNCHANGED learned /\ UNCHANGED ram["stats"]
  <2>1. ram'["stats"] = ram["stats"]
    BY DEF Remove, Encode, Open, OpenFails, Write, WriteFails, StoreInv, Docs
  <2> QED
    BY <2>1 DEF Remove, Encode, Open, OpenFails, Write, WriteFails, history
<1>6. happened \subseteq happened'
  BY Disturbed DEF Remove, Encode, Open, OpenFails, Write, WriteFails, bound
<1>7. /\ op'[t] = o
      /\ \A u \in Threads \ {t} : op'[u] = op[u] /\ json'[u] = json[u]
  <2>1. /\ op'[t] = o
        /\ \A u \in Threads \ {t} : op'[u] = op[u]
    BY <1>2, <1>3, Moved
  <2>2. \A u \in Threads \ {t} : json'[u] = json[u]
    BY DEF Remove, Encode, Open, OpenFails, Write, WriteFails, Forget, StoreInv
  <2> QED
    BY <2>1, <2>2
<1>8. op'[t].doc = "stats" => op[t].doc = "stats" /\ json'[t] = json[t]
  <2> SUFFICES ASSUME op'[t].doc = "stats" PROVE op[t].doc = "stats" /\ json'[t] = json[t]
    OBVIOUS
  <2>1. o # NoOp /\ o = op[t] /\ op[t].doc = "stats"
    BY <1>2, <1>7, NoOpFields
  <2>2. ~Encode(t)
    BY <2>1 DEF Encode, StoreInv, Placed
  <2>3. Open(t) \/ Remove(t)
    BY <1>2, <2>1, <2>2
  <2> QED
    BY <2>1, <2>3 DEF Open, Remove
<1>9. Len(file'["stats"].json) <= learned
  <2>1. file["stats"] \in [json : Seq(Entry), len : Nat] /\ "stats" \in Docs
    BY DEF StoreInv, Docs
  <2>2. Len(file["stats"].json) <= learned /\ 0 <= learned
    BY UncountedSizes DEF CountInv
  <2>3. CASE file'["stats"] = file["stats"]
    BY <2>2, <2>3
  <2>4. CASE file'["stats"].json = <<>>
    BY <2>2, <2>4
  <2>5. CASE file'["stats"].json = json[t] /\ op[t].doc = "stats"
    <3>1. Len(json[t]) + Cardinality(Uncounted \ {t}) <= learned
      BY <2>5 DEF CountInv
    <3>2. Len(json[t]) \in Nat /\ Cardinality(Uncounted \ {t}) \in Nat /\ learned \in Nat
      BY UncountedSizes
    <3>3. Len(json[t]) <= learned
      BY <3>1, <3>2
    <3> QED
      BY <2>5, <3>3
  <2>6. CASE UNCHANGED file
    BY <2>3, <2>6
  <2>7. ASSUME NEW x, file' = [file EXCEPT ![op[t].doc] = x],
               x.json = <<>> \/ x.json = json[t]
        PROVE  Len(file'["stats"].json) <= learned
    <3>1. DOMAIN file = Docs
      BY DEF StoreInv
    <3>2. CASE op[t].doc = "stats"
      <4>1. file'["stats"] = x
        BY <2>1, <2>7, <3>1, <3>2
      <4> QED
        BY <2>4, <2>5, <2>7, <3>2, <4>1
    <3>3. CASE op[t].doc # "stats"
      <4>1. file'["stats"] = file["stats"]
        BY <2>1, <2>7, <3>1, <3>3
      <4> QED
        BY <2>3, <4>1
    <3> QED
      BY <3>2, <3>3
  <2>8. CASE Remove(t) \/ Encode(t) \/ OpenFails(t)
    BY <2>6, <2>8 DEF Remove, Encode, OpenFails
  <2>9. CASE Open(t)
    <3>1. file' = [file EXCEPT ![op[t].doc] = [json |-> <<>>, len |-> 0]]
      BY <2>9 DEF Open
    <3> QED
      BY <2>7, <3>1
  <2>10. CASE Write(t)
    <3> DEFINE x == [json |-> json[t],
                     len |-> Longer(file[op[t].doc].len, Len(json[t]) + 1)]
    <3>1. file' = [file EXCEPT ![op[t].doc] = x] /\ x.json = json[t]
      BY <2>10 DEF Write
    <3> HIDE DEF x
    <3> QED
      BY <2>7, <3>1
  <2>11. CASE WriteFails(t)
    <3>1. file' = [file EXCEPT ![op[t].doc] = [json |-> json[t], len |-> 0]]
      BY <2>11 DEF WriteFails
    <3> QED
      BY <2>7, <3>1
  <2> QED
    BY <2>8, <2>9, <2>10, <2>11
<1>10. CountInv'
  <2>1. \A u \in Threads : op'[u].doc = "stats" => op[u].doc = "stats" /\ json'[u] = json[u]
    BY <1>7, <1>8
  <2> QED
    BY <1>4, <1>5, <1>9, <2>1, CountKept
<1>11. ExactInv'
  BY <1>1, <1>2, <1>3, <1>4, <1>5, <1>6, ExactKept
<1> QED
  BY <1>10, <1>11

(* The statistics are copied and counted up. *)
LEMMA CountCount ==
    ASSUME StoreInv, CountInv, ExactInv, facts, NEW t \in Threads, Count(t)
    PROVE  CountInv' /\ ExactInv'
<1> DEFINE o == [op[t] EXCEPT !.doc = "stats"]
           s == IF op[t].new \/ ~facts THEN Append(ram["stats"], "one") ELSE ram["stats"]
<1>1. /\ pc[t] = "count" /\ op[t].doc = "list" /\ op[t].kind = "extract"
      /\ op[t] \in Operation
      /\ pc' = [pc EXCEPT ![t] = "assign"] /\ op' = [op EXCEPT ![t] = o]
      /\ json' = [json EXCEPT ![t] = s]
      /\ UNCHANGED <<ram, file, learned, happened>>
  BY DEF Count, StoreInv, Placed, bound, history
<1>2. o \in Operation /\ o.kind = "extract" /\ o.doc = "stats" /\ o.new = op[t].new
  BY <1>1 DEF Operation, Docs
<1>3. op[t].new \in BOOLEAN
  BY <1>1 DEF Operation
<1>4. Len(s) = IF op[t].new = TRUE THEN Len(ram["stats"]) + 1 ELSE Len(ram["stats"])
  <2>1. ram["stats"] \in Seq(Entry) /\ "one" \in Entry
    BY DEF StoreInv, Docs, Entry
  <2>2. Len(Append(ram["stats"], "one")) = Len(ram["stats"]) + 1
    BY <2>1
  <2>3. CASE op[t].new = TRUE
    BY <2>2, <2>3
  <2>4. CASE op[t].new = FALSE
    BY <2>4
  <2> QED
    BY <1>3, <2>3, <2>4
<1> HIDE DEF o, s
<1>5. Goes(t, "assign", o)
  BY <1>1, <1>2 DEF Goes, Placed
<1>6. "assign" \in PCs /\ o \in Operation \cup {NoOp} /\ pc[t] # "idle"
  BY <1>1, <1>2 DEF PCs
<1>7. t \in Uncounted <=> op[t].new = TRUE
  BY <1>1 DEF Uncounted, Due
<1>8. Uncounted' = Uncounted
  <2>1. Due("assign", o) <=> op[t].new = TRUE
    BY <1>2 DEF Due
  <2>2. Uncounted' = IF Due("assign", o) THEN Uncounted \cup {t} ELSE Uncounted \ {t}
    BY <1>5, <1>6, UncountedMoves
  <2> QED
    BY <1>7, <2>1, <2>2
<1>9. /\ json'[t] = s /\ pc'[t] = "assign" /\ op'[t] = o
      /\ \A u \in Threads \ {t} : op'[u] = op[u] /\ json'[u] = json[u] /\ pc'[u] = pc[u]
  BY <1>1 DEF StoreInv
<1>10. Len(s) + Cardinality(Uncounted \ {t}) = Len(ram["stats"]) + Cardinality(Uncounted)
  <2>1. /\ Cardinality(Uncounted) \in Nat /\ Cardinality(Uncounted \ {t}) \in Nat
        /\ Cardinality(Uncounted) = IF t \in Uncounted THEN Cardinality(Uncounted \ {t}) + 1
                                    ELSE Cardinality(Uncounted \ {t})
    BY UncountedSizes
  <2>2. Len(ram["stats"]) \in Nat
    BY UncountedSizes
  <2>3. CASE op[t].new = TRUE
    <3>1. /\ Len(s) = Len(ram["stats"]) + 1
          /\ Cardinality(Uncounted) = Cardinality(Uncounted \ {t}) + 1
      BY <1>4, <1>7, <2>1, <2>3
    <3> QED
      BY <2>1, <2>2, <3>1
  <2>4. CASE op[t].new # TRUE
    <3>1. /\ Len(s) = Len(ram["stats"])
          /\ Cardinality(Uncounted) = Cardinality(Uncounted \ {t})
      BY <1>4, <1>7, <2>1, <2>4
    <3> QED
      BY <3>1
  <2> QED
    BY <2>3, <2>4
<1>11. CountInv'
  <2>1. ASSUME NEW u \in Threads, op'[u].doc = "stats"
        PROVE  Len(json'[u]) + Cardinality(Uncounted' \ {u}) <= learned'
    <3>1. CASE u = t
      BY <1>1, <1>8, <1>9, <1>10, <3>1 DEF CountInv
    <3>2. CASE u # t
      BY <1>1, <1>8, <1>9, <2>1, <3>2 DEF CountInv
    <3> QED
      BY <3>1, <3>2
  <2> QED
    BY <1>1, <1>8, <2>1 DEF CountInv
<1>12. ExactInv'
  <2> SUFFICES ASSUME happened' \subseteq {"diskFull"} PROVE ExactInv'
    BY DEF ExactInv
  <2>1. Alone /\ Len(ram["stats"]) + Cardinality(Uncounted) = learned
    BY <1>1 DEF ExactInv
  <2>2. Alone' /\ \A u \in Threads \ {t} : pc'[u] = "idle"
    BY <1>5, <1>6, <2>1, Others
  <2>3. Cardinality(Uncounted \ {t}) = 0
    <3>1. \A u \in Threads \ {t} : pc[u] = "idle"
      BY <1>9, <2>2
    <3>2. Uncounted \ {t} = {}
      BY <3>1 DEF Uncounted, Due
    <3> QED
      BY <3>2, FS_EmptySet
  <2>4. Len(json'[t]) = learned
    <3>1. Len(s) \in Nat
      BY <1>4, UncountedSizes
    <3> QED
      BY <1>9, <1>10, <2>1, <2>3, <3>1
  <2> QED
    BY <1>1, <1>8, <1>9, <2>1, <2>2, <2>4 DEF ExactInv
<1> QED
  BY <1>11, <1>12

(* The copy is assigned: the thread has counted, and no other count is more. *)
LEMMA CountAssign ==
    ASSUME StoreInv, CountInv, ExactInv, NEW t \in Threads, Assign(t)
    PROVE  CountInv' /\ ExactInv'
<1>1. /\ pc[t] = "assign" /\ op[t].doc = "stats" /\ op[t] \in Operation
      /\ pc' = [pc EXCEPT ![t] = "open"] /\ op' = [op EXCEPT ![t] = op[t]]
      /\ ram'["stats"] = json[t]
      /\ UNCHANGED <<op, json, file, learned, happened>>
  BY DEF Assign, StoreInv, Placed, bound, history, Docs
<1>2. Goes(t, "open", op[t])
  BY <1>1 DEF Goes, Placed, StoreInv
<1>3. "open" \in PCs /\ op[t] \in Operation \cup {NoOp} /\ pc[t] # "idle"
  BY <1>1 DEF PCs
<1>4. Uncounted' = Uncounted \ {t}
  <2>1. ~Due("open", op[t])
    BY <1>1 DEF Due
  <2> QED
    BY <1>2, <1>3, <2>1, UncountedMoves
<1>5. Len(json[t]) + Cardinality(Uncounted \ {t}) <= learned
  BY <1>1 DEF CountInv
<1>6. CountInv'
  <2>1. ASSUME NEW u \in Threads, op[u].doc = "stats"
        PROVE  Len(json[u]) + Cardinality(Uncounted' \ {u}) <= learned
    <3>1. IsFiniteSet(Uncounted \ {u}) /\ (Uncounted' \ {u}) \in SUBSET (Uncounted \ {u})
      BY <1>4, UncountedSizes
    <3>2. /\ Cardinality(Uncounted' \ {u}) <= Cardinality(Uncounted \ {u})
          /\ Cardinality(Uncounted' \ {u}) \in Nat /\ Cardinality(Uncounted \ {u}) \in Nat
      BY <3>1, FS_Subset, FS_CardinalityType
    <3>3. Len(json[u]) + Cardinality(Uncounted \ {u}) <= learned /\ Len(json[u]) \in Nat
      BY <2>1, UncountedSizes DEF CountInv
    <3> QED
      BY <3>2, <3>3, UncountedSizes
  <2>2. IsFiniteSet(Uncounted')
    BY <1>4, UncountedSizes
  <2> QED
    BY <1>1, <1>4, <1>5, <2>1, <2>2 DEF CountInv
<1>7. ExactInv'
  <2> SUFFICES ASSUME happened' \subseteq {"diskFull"} PROVE ExactInv'
    BY DEF ExactInv
  <2>1. Alone /\ Len(json[t]) = learned
    BY <1>1 DEF ExactInv
  <2>2. Alone' /\ pc'[t] = "open" /\ \A u \in Threads \ {t} : pc'[u] = "idle"
    BY <1>2, <1>3, <2>1, Others
  <2>3. Cardinality(Uncounted') = 0
    <3>1. \A u \in Threads \ {t} : pc[u] = "idle"
      BY <1>1, <1>3, <2>1 DEF Alone, Running
    <3>2. Uncounted' = {}
      BY <1>4, <3>1 DEF Uncounted, Due
    <3> QED
      BY <3>2, FS_EmptySet
  <2>4. Len(ram'["stats"]) + Cardinality(Uncounted') = learned'
    BY <1>1, <2>1, <2>3, UncountedSizes
  <2> QED
    BY <2>2, <2>4 DEF ExactInv
<1> QED
  BY <1>6, <1>7

(* After a restart the count is that of the file, or none. *)
LEMMA CountCrash ==
    ASSUME StoreInv, CountInv, Crash
    PROVE  CountInv' /\ ExactInv'
<1>1. /\ \A t \in Threads : op'[t] = NoOp /\ pc'[t] = "idle"
      /\ ram'["stats"] = Load(file["stats"])
      /\ UNCHANGED <<file, learned>>
  BY DEF Crash, Docs
<1>2. IsFiniteSet(Uncounted') /\ Cardinality(Uncounted') = 0
  <2>1. Uncounted' = {t \in Threads : Due(pc'[t], op'[t])}
    BY DEF Uncounted, Due
  <2>2. Uncounted' = {}
    BY <1>1, <2>1, NoOpFields DEF Due
  <2> QED
    BY <2>2, FS_EmptySet
<1>3. Len(ram'["stats"]) <= learned /\ Len(ram'["stats"]) \in Nat
  <2>1. ram'["stats"] = file["stats"].json \/ ram'["stats"] = <<>>
    BY <1>1 DEF Load
  <2>2. Len(file["stats"].json) <= learned
    BY DEF CountInv
  <2>3. Len(<<>>) = 0 /\ 0 <= learned
    BY UncountedSizes
  <2> QED
    BY <2>1, <2>2, <2>3, UncountedSizes
<1>4. CountInv'
  <2>1. Len(ram'["stats"]) + Cardinality(Uncounted') <= learned'
    BY <1>1, <1>2, <1>3
  <2>2. Len(file'["stats"].json) <= learned'
    BY <1>1 DEF CountInv
  <2>3. \A t \in Threads : op'[t].doc # "stats"
    BY <1>1, NoOpFields
  <2> QED
    BY <1>2, <2>1, <2>2, <2>3 DEF CountInv
<1>5. ExactInv'
  <2>1. "crash" \in happened' \/ "crashInWrite" \in happened'
    BY Disturbed DEF Crash
  <2> QED
    BY <2>1 DEF ExactInv
<1> QED
  BY <1>4, <1>5

LEMMA CountStep == StoreInv /\ FactsInv /\ [Next]_vars => FactsInv'
<1> SUFFICES ASSUME StoreInv, FactsInv, [Next]_vars, facts' PROVE CountInv' /\ ExactInv'
  BY DEF FactsInv
<1>1. facts
  BY DEF Next, Step, Start, Add, RacingAdds, Remove, Encode, Count, Assign, Open, OpenFails,
         Write, WriteFails, Crash, vars
<1>2. CountInv /\ ExactInv
  BY <1>1 DEF FactsInv
<1>3. CASE UNCHANGED vars
  <2>1. UNCHANGED <<ram, file, pc, op, json, happened, learned>>
    BY <1>3 DEF vars, thread, bound, history
  <2>2. Uncounted' = Uncounted
    BY <2>1 DEF Uncounted, Due
  <2> QED
    BY <1>2, <2>1, <2>2 DEF CountInv, ExactInv, Alone, Running
<1> QED
  BY <1>1, <1>2, <1>3, CountStart, CountAdd, CountRace, CountSave, CountCount, CountAssign,
     CountCrash DEF Next, Step

-----------------------------------------------------------------------------
(* The theorems *)

(* MemoryManager: the documents, the files and what every caller has to    *)
(* save have their types whatever overlaps, fails or dies, and an          *)
(* operation that started alone is the only one until another starts.      *)
THEOREM StoreTyped == Spec => []TypeOK
<1>1. Spec => []StoreInv
  BY StoreInit, StoreStep, PTL DEF Spec
<1> QED
  BY <1>1, StoreTypes, PTL

(* writeJsonFile, loadJsonFile: while operations do not overlap and no     *)
(* write is broken off, the file holds what the operations that returned   *)
(* true left, wherever the process is killed between two writes.           *)
THEOREM StoreIsDurable == Spec => []Durable
<1>1. StoreInv /\ SaveInv => Durable
  <2> SUFFICES ASSUME StoreInv, SaveInv, Calm, Writing = {}
               PROVE  Tally(Load(file["list"])) = promised
    BY DEF Durable, AlwaysDurable, Calm
  <2>1. \A t \in Threads : pc[t] # "write"
    BY DEF Writing
  <2>2. Readable(file["list"]) /\ Tally(file["list"].json) = promised
    BY <2>1 DEF SaveInv, Steady
  <2> QED
    BY <2>2 DEF Load
<1>2. Init => StoreInv /\ SaveInv
  BY StoreInit, SaveInit
<1>3. StoreInv /\ SaveInv /\ [Next]_vars => (StoreInv /\ SaveInv)'
  BY StoreStep, SaveStep
<1> QED
  BY <1>1, <1>2, <1>3, PTL DEF Spec

(* saveUserProfile and its like: a save that no other operation came       *)
(* between leaves in the file what is in memory, whatever is in the file   *)
(* from before, a broken write or an overlap included.                     *)
THEOREM LoneOperationSaves == Spec => []SoloSaves
<1>1. SaveInv => SoloSaves
  BY DEF SaveInv, SavedBefore, SoloSaves, SavedWhenQuiet
<1>2. Init => StoreInv /\ SaveInv
  BY StoreInit, SaveInit
<1>3. StoreInv /\ SaveInv /\ [Next]_vars => (StoreInv /\ SaveInv)'
  BY StoreStep, SaveStep
<1> QED
  BY <1>1, <1>2, <1>3, PTL DEF Spec

(* updateExtractionStats: however extractions overlap, fail or are cut     *)
(* short, never more facts are counted than were learned; and none is left *)
(* out unless they overlap or the process dies.                            *)
THEOREM FactsAreCounted == Spec => []Counts
<1>1. StoreInv /\ FactsInv => Counts
  <2> SUFFICES ASSUME StoreInv, CountInv, ExactInv
               PROVE  /\ Len(ram["stats"]) <= learned
                      /\ happened \subseteq {"diskFull"} /\ Running = {}
                            => Len(ram["stats"]) = learned
    BY DEF FactsInv, Counts
  <2>1. Len(ram["stats"]) <= learned
    BY UncountedSizes DEF CountInv
  <2>2. ASSUME happened \subseteq {"diskFull"}, Running = {}
        PROVE  Len(ram["stats"]) = learned
    <3>1. Uncounted = {}
      BY <2>2 DEF Running, Uncounted, Due
    <3>2. Cardinality(Uncounted) = 0
      BY <3>1, FS_EmptySet
    <3> QED
      BY <2>2, <3>2, UncountedSizes DEF ExactInv
  <2> QED
    BY <2>1, <2>2
<1>2. Init => StoreInv /\ FactsInv
  BY StoreInit, CountInit
<1>3. StoreInv /\ FactsInv /\ [Next]_vars => (StoreInv /\ FactsInv)'
  BY StoreStep, CountStep
<1> QED
  BY <1>1, <1>2, <1>3, PTL DEF Spec
=============================================================================
