----------------------------- MODULE LlamaEngine -----------------------------
(***************************************************************************)
(* The native inference engine of ai_chat_jni.cpp: one global LlamaState   *)
(* shared by every thread that makes a JNI call.  A call is a few steps    *)
(* between which the other threads run.  Generation and clearContext hold  *)
(* the timed mutex; stopGeneration and nativeAddToHistory take no lock;    *)
(* unload and loadModel take it while they free the context, and not when  *)
(* they then destroy or replace the object itself.                         *)
(*                                                                         *)
(* A message is one token and a prompt is the history followed by the new  *)
(* message (the chat template, the truncation of long answers and the      *)
(* sampler are abstracted: the next token is any token).  llama.cpp is     *)
(* outside the repository: llama_decode may fail at any time and must fail *)
(* beyond n_ctx; llama_memory_seq_rm and llama_memory_clear succeed.       *)
(* is_generating only shortens a wait that times out anyway, so it is not  *)
(* a variable.  Steps taken under the mutex that no lock-free call can     *)
(* observe separately are one action.                                      *)
(***************************************************************************)
EXTENDS Integers, Sequences

CONSTANTS
    Callers,         \* threads that make JNI calls
    Tokens,          \* message contents and generated tokens
    NoCaller,        \* the mutex is free
    Empty,           \* a KV cell that holds nothing
    CtxLen,          \* n_ctx, the number of KV positions
    NBatch,          \* n_batch, tokens decoded by one llama_decode of prefill
    ReuseThreshold,  \* common prefixes up to this length are not reused (10)
    MaxTokens,       \* maxTokens of a generate call
    MaxHistory       \* MAX_HISTORY_SIZE (4)

ASSUME BoundsAssumption ==
    /\ CtxLen \in Nat \ {0}
    /\ NBatch \in Nat \ {0}
    /\ ReuseThreshold \in Nat
    /\ MaxTokens \in Nat \ {0}
    /\ MaxHistory \in Nat \ {0}

ASSUME DistinctAssumption == NoCaller \notin Callers /\ Empty \notin Tokens

Positions == 1 .. CtxLen

VARIABLES
    engine,              \* g_state: "null", "new" (no model), "model", "ctx",
                         \*   "freed" (cleaned up and not yet destroyed)
    mutex,               \* the holder of g_state->mutex, or NoCaller
    should_stop,         \* g_state->should_stop
    kv,                  \* what the KV cache of the context holds at a position
    current_pos,         \* g_state->current_pos
    history,             \* g_state->history
    last_prompt_tokens,  \* g_state->last_prompt_tokens
    pc,                  \* where each thread is in its call
    dangling,            \* threads inside a call whose g_state was freed
    tokens,              \* frame of the generating thread: the prompt,
    next,                \*   the next prompt token to decode,
    generated            \*   and generated_tokens

(* History variables: what has happened, for the properties only.          *)
VARIABLES
    crossed,     \* a load has begun while an unload was under way
    kvTrusted,   \* nothing has made the cache and last_prompt_tokens differ
    stopRaised,  \* when the last stop came: "no", "prefill" or "loop"
    lateTokens   \* tokens shown to the user after that stop

frame == <<tokens, next, generated>>
ghosts == <<crossed, kvTrusted, stopRaised, lateTokens>>
context == <<kv, current_pos, last_prompt_tokens>>
vars == <<engine, mutex, should_stop, context, history, pc, dangling, frame, ghosts>>

-----------------------------------------------------------------------------
(* Where a thread can be. *)
GeneratePCs == {"genWait", "genNull", "prefill", "decode", "sample", "genDone"}
LoadPCs == {"loadCleanup", "loadReplace", "loadModel", "prepare"}
UnloadPCs == {"unloadCleanup", "unloadReset"}
PCs == {"idle", "stopClear", "clearWait"} \cup GeneratePCs \cup LoadPCs \cup UnloadPCs

(* The program points of a generation that owns the mutex across steps,    *)
(* and those between cleanup() and the end of the object it cleaned.       *)
HolderPCs == {"prefill", "decode", "sample"}
ReplacePCs == {"unloadReset", "loadReplace"}

Goto(c, where) == pc' = [pc EXCEPT ![c] = where]
Within(c, places) == pc[c] \in places /\ c \notin dangling
At(c, where) == Within(c, {where})

NoCells == [p \in Positions |-> Empty]

(* Mutant of KeepPrefix: the positions after the prefix are not removed. *)
KeepPrefix_NoTrim(cells, n) == cells

(* llama_memory_seq_rm(mem, 0, n, -1): keep the first n positions. *)
KeepPrefix(cells, n) == [p \in Positions |-> IF p <= n THEN cells[p] ELSE Empty]

(* A successful llama_decode of toks[first .. last] at those positions. *)
Decoded(cells, toks, first, last) ==
    [p \in Positions |-> IF p \in first .. last THEN toks[p] ELSE cells[p]]

(* n is the length of the longest common prefix of s and t. *)
IsCommonPrefix(n, s, t) ==
    /\ n <= Len(s) /\ n <= Len(t)
    /\ \A i \in 1 .. n : s[i] = t[i]
    /\ (n < Len(s) /\ n < Len(t)) => s[n + 1] # t[n + 1]

Smaller(a, b) == IF a <= b THEN a ELSE b

(* Mutant of Trimmed: one entry too many is kept. *)
Trimmed_OffByOne(h) ==
    IF Len(h) > MaxHistory + 1 THEN SubSeq(h, Len(h) - MaxHistory + 1, Len(h)) ELSE h

(* The last MaxHistory entries, the older ones erased from the front. *)
Trimmed(h) ==
    IF Len(h) > MaxHistory THEN SubSeq(h, Len(h) - MaxHistory + 1, Len(h)) ELSE h

Init ==
    /\ engine = "null"
    /\ mutex = NoCaller
    /\ should_stop = FALSE
    /\ kv = NoCells
    /\ current_pos = 0
    /\ history = <<>>
    /\ last_prompt_tokens = <<>>
    /\ pc = [c \in Callers |-> "idle"]
    /\ dangling = {}
    /\ tokens = <<>> /\ next = 1 /\ generated = <<>>
    /\ crossed = FALSE /\ kvTrusted = TRUE /\ stopRaised = "no" /\ lateTokens = 0

-----------------------------------------------------------------------------
(* nativeGenerateStream *)

(* Mutant of EnterGenerate: should_stop is reset on entry, without the mutex. *)
EnterGenerate_ResetsStop(c) ==
    /\ At(c, "idle")
    /\ engine = "ctx"
    /\ should_stop' = FALSE
    /\ Goto(c, "genWait")
    /\ UNCHANGED <<engine, mutex, context, history, dangling, frame, ghosts>>

(* The context is checked before the mutex is requested. *)
EnterGenerate(c) ==
    /\ At(c, "idle")
    /\ engine = "ctx"
    /\ Goto(c, "genWait")
    /\ UNCHANGED <<engine, mutex, should_stop, context, history, dangling, frame, ghosts>>

(* Mutant of GiveUpGenerate: a plain lock(), which waits for ever. *)
GiveUpGenerate_Never(c) == FALSE /\ UNCHANGED vars

(* try_lock_for(5000 ms) gives up: onComplete is called and "" returned. *)
GiveUpGenerate(c) ==
    /\ At(c, "genWait")
    /\ mutex # NoCaller
    /\ Goto(c, "idle")
    /\ UNCHANGED <<engine, mutex, should_stop, context, history, dangling, frame, ghosts>>

(* The prompt does not fit n_ctx tokens: tokenisation fails and the call   *)
(* returns; should_stop has been reset and the cache is untouched.         *)
TokenizeFails(c, msg) ==
    /\ At(c, "genWait")
    /\ mutex = NoCaller /\ engine = "ctx"
    /\ Len(history) + 1 > CtxLen
    /\ should_stop' = FALSE
    /\ Goto(c, "idle")
    /\ UNCHANGED <<engine, mutex, context, history, dangling, frame, ghosts>>

(* The mutex is taken after cleanup() and before the object is destroyed:  *)
(* the holder goes on with a null model and context.  That is undefined;   *)
(* here it returns, if its object is not destroyed under it first.         *)
TakeFreed(c) ==
    /\ At(c, "genWait")
    /\ mutex = NoCaller /\ engine = "freed"
    /\ mutex' = c
    /\ Goto(c, "genNull")
    /\ UNCHANGED <<engine, should_stop, context, history, dangling, frame, ghosts>>

ReturnNull(c) ==
    /\ At(c, "genNull")
    /\ mutex' = NoCaller
    /\ Goto(c, "idle")
    /\ UNCHANGED <<engine, should_stop, context, history, dangling, frame, ghosts>>

(* The mutex is taken, the prompt built from the history, should_stop      *)
(* reset, and the prompt compared with the tokens of the previous turn:    *)
(* a long enough common prefix is kept in the cache, else it is cleared.   *)
BeginPrefill(c, msg) ==
    /\ At(c, "genWait")
    /\ mutex = NoCaller /\ engine = "ctx"
    /\ Len(history) + 1 <= CtxLen
    /\ mutex' = c
    /\ should_stop' = FALSE
    /\ tokens' = Append(history, msg)
    /\ generated' = <<>>
    /\ \E n \in 0 .. Len(last_prompt_tokens) :
          /\ IsCommonPrefix(n, tokens', last_prompt_tokens)
          /\ IF n > ReuseThreshold
             THEN /\ kv' = KeepPrefix(kv, n)
                  /\ current_pos' = n
                  /\ next' = n + 1
                  /\ UNCHANGED kvTrusted
             ELSE /\ kv' = NoCells
                  /\ current_pos' = 0
                  /\ next' = 1
                  /\ kvTrusted' = TRUE
    /\ stopRaised' = "no" /\ lateTokens' = 0
    /\ Goto(c, "prefill")
    /\ UNCHANGED <<engine, history, last_prompt_tokens, dangling, crossed>>

(* One batch of the prompt, unless a stop is seen first. *)
PrefillBatch(c) ==
    /\ At(c, "prefill")
    /\ next <= Len(tokens)
    /\ ~should_stop
    /\ LET last == Smaller(next + NBatch - 1, Len(tokens)) IN
          /\ kv' = Decoded(kv, tokens, next, last)
          /\ next' = next + NBatch
    /\ UNCHANGED <<engine, mutex, should_stop, current_pos, last_prompt_tokens, history,
                   pc, dangling, tokens, generated, ghosts>>

(* llama_decode fails in prefill: the call returns and its lock is         *)
(* released, with last_prompt_tokens still describing the previous turn.   *)
PrefillFails(c) ==
    /\ At(c, "prefill")
    /\ next <= Len(tokens)
    /\ ~should_stop
    /\ mutex' = NoCaller
    /\ kvTrusted' = FALSE
    /\ Goto(c, "idle")
    /\ UNCHANGED <<engine, should_stop, context, history, dangling, frame,
                   crossed, stopRaised, lateTokens>>

(* Prefill is over, or was broken off by a stop: current_pos is set to the *)
(* length of the prompt and should_stop is reset once more.                *)
StartLoop(c) ==
    /\ At(c, "prefill")
    /\ next > Len(tokens) \/ should_stop
    /\ current_pos' = Len(tokens)
    /\ should_stop' = FALSE
    /\ Goto(c, "decode")
    /\ UNCHANGED <<engine, mutex, kv, last_prompt_tokens, history, dangling, frame, ghosts>>

(* The head of the token loop. *)
LoopHead(c) ==
    /\ At(c, "decode")
    /\ Len(generated) < MaxTokens
    /\ ~should_stop
    /\ Goto(c, "sample")
    /\ UNCHANGED <<engine, mutex, should_stop, context, history, dangling, frame, ghosts>>

CountLate(shown) ==
    lateTokens' = IF shown /\ stopRaised # "no" THEN lateTokens + 1 ELSE lateTokens

(* A token is sampled, shown unless it has no printable piece, and decoded *)
(* at current_pos + n_gen (zero-based, so one more here).                  *)
SampleToken(c, tok, shown) ==
    LET p == current_pos + Len(generated) + 1 IN
    /\ At(c, "sample")
    /\ p <= CtxLen
    /\ generated' = Append(generated, tok)
    /\ kv' = [kv EXCEPT ![p] = tok]
    /\ CountLate(shown)
    /\ Goto(c, "decode")
    /\ UNCHANGED <<engine, mutex, should_stop, current_pos, last_prompt_tokens, history,
                   dangling, tokens, next, crossed, kvTrusted, stopRaised>>

(* The end of the call under the lock: the tokens of the turn are          *)
(* remembered and the mutex released before onComplete.                    *)
SaveTurn(c, gen) ==
    /\ last_prompt_tokens' = tokens \o gen
    /\ generated' = gen
    /\ mutex' = NoCaller
    /\ Goto(c, "genDone")
    /\ UNCHANGED <<engine, should_stop, kv, current_pos, history, dangling, tokens, next,
                   crossed, stopRaised>>

(* The loop ends at its head (limit, stop, 240 s), or on an end-of-turn or *)
(* repeated token, which is not recorded.                                  *)
LoopEnds(c) ==
    /\ Within(c, {"decode", "sample"})
    /\ SaveTurn(c, generated)
    /\ UNCHANGED <<kvTrusted, lateTokens>>

(* The loop ends after the token was recorded and before it was decoded:   *)
(* a stop marker in the text (not shown), or a failed llama_decode.        *)
LoopEndsUndecoded(c, tok, shown) ==
    /\ At(c, "sample")
    /\ SaveTurn(c, Append(generated, tok))
    /\ kvTrusted' = FALSE
    /\ CountLate(shown)

(* perf_stats is read from g_state, onComplete is called, the call returns. *)
CompleteGenerate(c) ==
    /\ At(c, "genDone")
    /\ Goto(c, "idle")
    /\ UNCHANGED <<engine, mutex, should_stop, context, history, dangling, frame, ghosts>>

-----------------------------------------------------------------------------
(* nativeAddToHistory, without the mutex. *)
AddToHistory(c, msg) ==
    /\ At(c, "idle")
    /\ engine # "null"
    /\ history' = Trimmed(Append(history, msg))
    /\ UNCHANGED <<engine, mutex, should_stop, context, pc, dangling, frame, ghosts>>

(* stopGeneration, without the mutex: first the flag ... *)
StopFlag(c) ==
    /\ At(c, "idle")
    /\ engine # "null"
    /\ should_stop' = TRUE
    /\ kvTrusted' = FALSE
    /\ stopRaised' = IF stopRaised # "no" THEN stopRaised
                     ELSE IF \E d \in Callers : At(d, "prefill") THEN "prefill"
                     ELSE IF \E d \in Callers : Within(d, {"decode", "sample"}) THEN "loop"
                     ELSE "no"
    /\ Goto(c, "stopClear")
    /\ UNCHANGED <<engine, mutex, context, history, dangling, frame, crossed, lateTokens>>

(* ... then the KV cache, if there is a context.  last_prompt_tokens and   *)
(* current_pos are left as they are.                                       *)
StopClear(c) ==
    /\ At(c, "stopClear")
    /\ kv' = IF engine = "ctx" THEN NoCells ELSE kv
    /\ kvTrusted' = FALSE
    /\ Goto(c, "idle")
    /\ UNCHANGED <<engine, mutex, should_stop, current_pos, last_prompt_tokens, history,
                   dangling, frame, crossed, stopRaised, lateTokens>>

(* nativeClearContext *)
EnterClear(c) ==
    /\ At(c, "idle")
    /\ engine = "ctx"
    /\ Goto(c, "clearWait")
    /\ UNCHANGED <<engine, mutex, should_stop, context, history, dangling, frame, ghosts>>

(* try_lock_for(2000 ms) gives up: the context is silently not cleared. *)
GiveUpClear(c) ==
    /\ At(c, "clearWait")
    /\ mutex # NoCaller
    /\ Goto(c, "idle")
    /\ UNCHANGED <<engine, mutex, should_stop, context, history, dangling, frame, ghosts>>

ClearContext(c) ==
    /\ At(c, "clearWait")
    /\ mutex = NoCaller
    /\ current_pos' = 0
    /\ history' = <<>>
    /\ last_prompt_tokens' = <<>>
    /\ Goto(c, "idle")
    /\ UNCHANGED <<engine, mutex, should_stop, kv, dangling, frame, ghosts>>

-----------------------------------------------------------------------------
(* Freeing and creating g_state *)

(* LlamaBridge's isLoadingModel: one loadModel at a time, and no unload    *)
(* begins while one runs.  A load may begin while an unload runs.          *)
Loading == \E d \in Callers : pc[d] \in LoadPCs

(* Every other thread that is inside a call goes on with a LlamaState that *)
(* is no more, except one whose only step left is to write g_state.        *)
LeftInside(c) == {d \in Callers \ {c} : pc[d] \notin {"idle"} \cup ReplacePCs}

(* Mutant of FreeContext: cleanup() does not take the mutex. *)
FreeContext_NoLock(c) ==
    /\ engine' = "freed"
    /\ should_stop' = FALSE
    /\ kv' = NoCells /\ current_pos' = 0 /\ last_prompt_tokens' = <<>>
    /\ kvTrusted' = TRUE

(* cleanup() under the mutex, which blocks without a time limit: the model *)
(* and the context are freed, the history and the object stay.             *)
FreeContext(c) ==
    /\ mutex = NoCaller
    /\ engine' = "freed"
    /\ should_stop' = FALSE
    /\ kv' = NoCells /\ current_pos' = 0 /\ last_prompt_tokens' = <<>>
    /\ kvTrusted' = TRUE

(* g_state is written, whatever it points to by now, and then the object   *)
(* it pointed to destroyed with its mutex.  (The destructor's own          *)
(* cleanup() has nothing left to free; that it would wait for a thread     *)
(* still inside with a null context is not modelled.)                      *)
ReplaceState(c, object) ==
    /\ engine' = object
    /\ mutex' = NoCaller
    /\ should_stop' = FALSE
    /\ kv' = NoCells /\ current_pos' = 0 /\ last_prompt_tokens' = <<>>
    /\ history' = <<>>
    /\ dangling' = dangling \cup LeftInside(c)
    /\ kvTrusted' = TRUE

(* unload: raise should_stop, wait at most 500 ms for the token loop ... *)
EnterUnload(c) ==
    /\ At(c, "idle")
    /\ ~Loading
    /\ engine # "null"
    /\ should_stop' = TRUE
    /\ kvTrusted' = FALSE
    /\ Goto(c, "unloadCleanup")
    /\ UNCHANGED <<engine, mutex, context, history, dangling, frame, crossed,
                   stopRaised, lateTokens>>

(* ... then cleanup() ... *)
UnloadCleanup(c) ==
    /\ At(c, "unloadCleanup")
    /\ FreeContext(c)
    /\ Goto(c, "unloadReset")
    /\ UNCHANGED <<mutex, history, dangling, frame, crossed, stopRaised, lateTokens>>

(* ... and g_state.reset(). *)
UnloadReset(c) ==
    /\ At(c, "unloadReset")
    /\ ReplaceState(c, "null")
    /\ Goto(c, "idle")
    /\ UNCHANGED <<frame, crossed, stopRaised, lateTokens>>

(* loadModel: the previous state is cleaned up first, if there is one. *)
EnterLoad(c) ==
    /\ At(c, "idle")
    /\ ~Loading
    /\ IF engine = "null"
       THEN engine' = "new" /\ Goto(c, "loadModel")
       ELSE UNCHANGED engine /\ Goto(c, "loadCleanup")
    /\ crossed' = (crossed \/ \E d \in Callers : pc[d] \in UnloadPCs)
    /\ UNCHANGED <<mutex, should_stop, context, history, dangling, frame, kvTrusted,
                   stopRaised, lateTokens>>

LoadCleanup(c) ==
    /\ At(c, "loadCleanup")
    /\ FreeContext(c)
    /\ Goto(c, "loadReplace")
    /\ UNCHANGED <<mutex, history, dangling, frame, crossed, stopRaised, lateTokens>>

(* g_state = make_unique *)
LoadReplace(c) ==
    /\ At(c, "loadReplace")
    /\ ReplaceState(c, "new")
    /\ Goto(c, "loadModel")
    /\ UNCHANGED <<frame, crossed, stopRaised, lateTokens>>

(* The file cannot be opened or is not a model: g_state.reset(). *)
LoadFails(c) ==
    /\ At(c, "loadModel")
    /\ ReplaceState(c, "null")
    /\ Goto(c, "idle")
    /\ UNCHANGED <<frame, crossed, stopRaised, lateTokens>>

LoadModel(c) ==
    /\ At(c, "loadModel")
    /\ engine' = "model"
    /\ Goto(c, "prepare")
    /\ UNCHANGED <<mutex, should_stop, context, history, dangling, frame, ghosts>>

(* prepareContext: the context is created, or its memory is not available. *)
PrepareContext(c) ==
    /\ At(c, "prepare")
    /\ mutex = NoCaller
    /\ \/ engine' = "ctx" /\ current_pos' = 0
       \/ UNCHANGED <<engine, current_pos>>
    /\ Goto(c, "idle")
    /\ UNCHANGED <<mutex, should_stop, kv, last_prompt_tokens, history, dangling, frame, ghosts>>

(* Outcomes after a free are undefined; here the thread returns at once. *)
ReturnDangling(c) ==
    /\ c \in dangling
    /\ dangling' = dangling \ {c}
    /\ Goto(c, "idle")
    /\ UNCHANGED <<engine, mutex, should_stop, context, history, frame, ghosts>>

-----------------------------------------------------------------------------
Generate(c) ==
    \/ GiveUpGenerate(c) \/ TakeFreed(c) \/ ReturnNull(c)
    \/ \E msg \in Tokens : BeginPrefill(c, msg) \/ TokenizeFails(c, msg)
    \/ PrefillBatch(c) \/ PrefillFails(c) \/ StartLoop(c)
    \/ LoopHead(c) \/ LoopEnds(c)
    \/ \E tok \in Tokens, shown \in BOOLEAN :
          SampleToken(c, tok, shown) \/ LoopEndsUndecoded(c, tok, shown)
    \/ CompleteGenerate(c)

Other(c) ==
    \/ StopClear(c)
    \/ GiveUpClear(c) \/ ClearContext(c)
    \/ UnloadCleanup(c) \/ UnloadReset(c)
    \/ LoadCleanup(c) \/ LoadReplace(c) \/ LoadFails(c) \/ LoadModel(c) \/ PrepareContext(c)
    \/ ReturnDangling(c)

(* A thread starts a call when the Kotlin side makes one. *)
Enter(c) ==
    \/ EnterGenerate(c) \/ EnterClear(c) \/ EnterUnload(c) \/ EnterLoad(c)
    \/ StopFlag(c)
    \/ \E msg \in Tokens : AddToHistory(c, msg)

Next == \E c \in Callers : Enter(c) \/ Generate(c) \/ Other(c)

Spec == Init /\ [][Next]_vars

(* The scheduler runs every thread that is inside a call; std::timed_mutex *)
(* promises nothing about who gets the lock next.                          *)
FairSpec == Spec /\ \A c \in Callers : WF_vars(Generate(c)) /\ WF_vars(Other(c))

-----------------------------------------------------------------------------
(* Properties *)

TypeOK ==
    /\ engine \in {"null", "new", "model", "ctx", "freed"}
    /\ mutex \in Callers \cup {NoCaller}
    /\ should_stop \in BOOLEAN
    /\ kv \in [Positions -> Tokens \cup {Empty}]
    /\ current_pos \in 0 .. CtxLen
    /\ history \in Seq(Tokens) /\ Len(history) <= MaxHistory
    /\ last_prompt_tokens \in Seq(Tokens)
    /\ pc \in [Callers -> PCs]
    /\ dangling \subseteq Callers
    /\ tokens \in Seq(Tokens) /\ Len(tokens) <= CtxLen
    /\ next \in Nat \ {0}
    /\ generated \in Seq(Tokens) /\ Len(generated) <= MaxTokens
    /\ crossed \in BOOLEAN /\ kvTrusted \in BOOLEAN
    /\ stopRaised \in {"no", "prefill", "loop"}
    /\ lateTokens \in Nat

(* The thread inside prefill or the token loop is the holder of the mutex, *)
(* its context exists and is never freed under it, unless a load has begun *)
(* during an unload, which isLoadingModel does not prevent.  And a waiter  *)
(* gets the mutex without a context only in the gap between cleanup() and  *)
(* the write of g_state that an unload or a load stands in.                *)
HolderOwnsContext ==
    \A c \in Callers :
        /\ pc[c] \in HolderPCs /\ ~crossed =>
              mutex = c /\ engine = "ctx" /\ c \notin dangling
        /\ At(c, "genNull") =>
              mutex = c /\ engine = "freed" /\ \E d \in Callers : pc[d] \in ReplacePCs

(* The cells of the cache are exactly the first n elements of s. *)
Holds(cells, s, n) ==
    /\ n <= Len(s) /\ n <= CtxLen
    /\ \A p \in Positions : cells[p] = IF p <= n THEN s[p] ELSE Empty

(* While tokens are sampled the KV cache is the prompt followed by what    *)
(* was generated, at positions current_pos + n_gen, whatever prefix was    *)
(* reused from the turn before: every turn since the last full prefill     *)
(* ended normally and no stop was requested.                               *)
CacheIsThePrompt ==
    \A c \in Callers :
        Within(c, {"decode", "sample"}) /\ kvTrusted =>
            /\ current_pos = Len(tokens)
            /\ Holds(kv, tokens \o generated, Len(tokens) + Len(generated))

(* A stop seen by the token loop ends it: at most the token already being  *)
(* sampled is shown afterwards, although another generation may reset      *)
(* should_stop as soon as it gets the mutex.                               *)
StopEndsLoop == stopRaised = "loop" => lateTokens <= 1

(* After a stop the next request starts fresh: when no other call is in    *)
(* progress and no generation has reset should_stop since, nothing of the  *)
(* previous turn is reused.                                                *)
StartsFreshAfterStop ==
    [][ \A c \in Callers :
          /\ pc[c] = "genWait" /\ pc'[c] = "prefill" /\ should_stop
          /\ \A d \in Callers \ {c} : pc[d] = "idle"
          => next' = 1 ]_vars

(* A stop requested during prefill cancels the call: nothing is shown.     *)
StopDuringPrefillHonoured == stopRaised = "prefill" => lateTokens = 0

(* unload does not happen in the middle of a generate call: no thread that *)
(* is waiting for the mutex or completing its call finds g_state freed.    *)
NoUnloadMidGeneration ==
    \A c \in dangling : pc[c] \notin GeneratePCs

(* A generate call always returns, however busy the mutex is. *)
GenerateReturns == \A c \in Callers : pc[c] = "genWait" ~> pc[c] = "idle"

-----------------------------------------------------------------------------
(* The inductive invariant behind TypeOK, HolderOwnsContext, StopEndsLoop  *)
(* and CacheIsThePrompt, by parts.                                         *)

(* The mutex is held only at the program points that hold it, by a thread  *)
(* whose object exists; a generation that holds it has its context, unless *)
(* it got the mutex after cleanup() had freed it.                          *)
HeldByHolder ==
    /\ mutex # NoCaller => Within(mutex, HolderPCs \cup {"genNull"})
    /\ \A c \in Callers :
          /\ Within(c, HolderPCs) => mutex = c /\ engine = "ctx"
          /\ At(c, "genNull") => mutex = c /\ engine = "freed"

(* One load at a time, g_state is what that load has made of it, and who   *)
(* waits to generate still has the object it checked before waiting.       *)
LoadStages ==
    /\ \A c, d \in Callers : pc[c] \in LoadPCs /\ pc[d] \in LoadPCs => c = d
    /\ \A c \in Callers :
          /\ At(c, "loadModel") => engine = "new"
          /\ At(c, "prepare") => engine = "model"
          /\ Within(c, {"genWait", "clearWait"}) => engine \in {"ctx", "freed"}
          /\ At(c, "unloadCleanup") =>
                engine # "null" /\ \A d \in Callers : ~Within(d, {"loadModel", "prepare"})
    /\ engine # "ctx" => last_prompt_tokens = <<>>

(* cleanup() leaves an object that somebody is about to destroy; only that *)
(* thread does, unless a load has crossed an unload.                       *)
ReplaceStages ==
    /\ engine = "freed" => \E c \in Callers : pc[c] \in ReplacePCs
    /\ \A c \in Callers :
          /\ pc[c] = "loadReplace" => engine \in {"freed", "null"}
          /\ pc[c] = "unloadReset" /\ ~crossed => engine \in {"freed", "null"}
          /\ pc[c] \in ReplacePCs => c \notin dangling
          /\ pc[c] \in HolderPCs /\ c \in dangling => crossed
    /\ ~crossed => \A c, d \in Callers : ~(pc[c] \in LoadPCs /\ pc[d] \in UnloadPCs)

(* The token loop runs from the end of the prompt, within its limit. *)
LoopBounds ==
    \A c \in Callers :
        /\ Within(c, {"decode", "sample"}) => current_pos = Len(tokens)
        /\ At(c, "sample") => Len(generated) < MaxTokens
        /\ At(c, "prefill") => generated = <<>>

(* A stop raised in the loop stays raised until the loop has ended.        *)
StopStays ==
    /\ stopRaised = "no" => lateTokens = 0
    /\ stopRaised = "loop" =>
          /\ lateTokens <= 1
          /\ \A c \in Callers :
                /\ ~At(c, "prefill")
                /\ Within(c, {"decode", "sample"}) => should_stop
                /\ At(c, "sample") => lateTokens = 0

(* What the cache holds between turns, in prefill and in the token loop. *)
CacheCoherent ==
    kvTrusted =>
      /\ mutex = NoCaller /\ last_prompt_tokens # <<>> =>
            Holds(kv, last_prompt_tokens, Len(last_prompt_tokens))
      /\ \A c \in Callers :
            /\ At(c, "prefill") =>
                 /\ ~should_stop
                 /\ Holds(kv, tokens, Smaller(next - 1, Len(tokens)))
            /\ Within(c, {"decode", "sample"}) =>
                 Holds(kv, tokens \o generated, Len(tokens) + Len(generated))

(* All of it: the engine's calls keep the lock, the loading stages, the    *)
(* loop bounds, the stop flag and the cache consistent with one another.   *)
EngineInv ==
    /\ TypeOK
    /\ HeldByHolder
    /\ LoadStages
    /\ ReplaceStages
    /\ LoopBounds
    /\ StopStays
    /\ CacheCoherent
=============================================================================
