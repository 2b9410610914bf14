--------------------------- MODULE LlamaEngineProofs ---------------------------
(* Theorems about LlamaEngine for every number of threads, every context     *)
(* size and every limit: the inductive invariant EngineInv and what follows. *)
EXTENDS LlamaEngine, TLAPS

USE DEF Positions, PCs, GeneratePCs, LoadPCs, UnloadPCs, HolderPCs, ReplacePCs, At, Within, Goto

(* Every step keeps the types: positions stay in the context and the      *)
(* history within its limit.                                               *)
LEMMA TypeStep == ASSUME EngineInv, [Next]_vars PROVE TypeOK'
<1> USE BoundsAssumption DEF TypeOK, context, frame, ghosts
<1>s. CASE UNCHANGED vars BY <1>s DEF vars, EngineInv
<1> SUFFICES ASSUME NEW c \in Callers, Enter(c) \/ Generate(c) \/ Other(c) PROVE TypeOK'
  BY <1>s DEF Next
<1>0. TypeOK BY DEF EngineInv
<1>in. LeftInside(c) \subseteq Callers BY DEF LeftInside
<1>1. CASE EnterGenerate(c) BY <1>0, <1>1 DEF EnterGenerate
<1>2. CASE EnterClear(c) BY <1>0, <1>2 DEF EnterClear
<1>3. CASE EnterUnload(c) BY <1>0, <1>3 DEF EnterUnload
<1>4. CASE EnterLoad(c) BY <1>0, <1>4 DEF EnterLoad
<1>5. CASE StopFlag(c) BY <1>0, <1>5 DEF StopFlag
<1>6. ASSUME NEW msg \in Tokens, AddToHistory(c, msg) PROVE TypeOK'
  BY <1>0, <1>6 DEF AddToHistory, Trimmed
<1>7. CASE GiveUpGenerate(c) BY <1>0, <1>7 DEF GiveUpGenerate
<1>8. ASSUME NEW msg \in Tokens, BeginPrefill(c, msg) PROVE TypeOK'
  <2>1. Append(history, msg) \in Seq(Tokens) /\ Len(Append(history, msg)) = Len(history) + 1
    BY <1>0
  <2>2. kv' \in [Positions -> Tokens \cup {Empty}] BY <1>0, <1>8 DEF BeginPrefill, KeepPrefix, NoCells
  <2>3. current_pos' \in 0 .. CtxLen /\ next' \in Nat \ {0}
    BY <1>0, <1>8, <2>1 DEF BeginPrefill, IsCommonPrefix
  <2>4. kvTrusted' \in BOOLEAN BY <1>0, <1>8 DEF BeginPrefill
  <2>5. generated' \in Seq(Tokens) /\ Len(generated') <= MaxTokens BY <1>8 DEF BeginPrefill
  <2>6. tokens' \in Seq(Tokens) /\ Len(tokens') <= CtxLen BY <1>0, <1>8, <2>1 DEF BeginPrefill
  <2> QED BY <1>0, <1>8, <2>2, <2>3, <2>4, <2>5, <2>6 DEF BeginPrefill
<1>9. ASSUME NEW msg \in Tokens, TokenizeFails(c, msg) PROVE TypeOK'
  BY <1>0, <1>9 DEF TokenizeFails
<1>10. CASE PrefillBatch(c) BY <1>0, <1>10 DEF PrefillBatch, Decoded, Smaller
<1>11. CASE PrefillFails(c) BY <1>0, <1>11 DEF PrefillFails
<1>12. CASE StartLoop(c) 
  <2>1. Len(tokens) \in 0 .. CtxLen BY <1>0
  <2> QED BY <1>0, <1>12, <2>1 DEF StartLoop
<1>13. CASE LoopHead(c) BY <1>0, <1>13 DEF LoopHead
<1>14. CASE LoopEnds(c) BY <1>0, <1>14 DEF LoopEnds, SaveTurn
<1>15. ASSUME NEW tok \in Tokens, NEW shown \in BOOLEAN, SampleToken(c, tok, shown) PROVE TypeOK'
  BY <1>0, <1>15 DEF SampleToken, CountLate, EngineInv, LoopBounds
<1>16. ASSUME NEW tok \in Tokens, NEW shown \in BOOLEAN, LoopEndsUndecoded(c, tok, shown) PROVE TypeOK'
  <2>1. Append(generated, tok) \in Seq(Tokens) /\ Len(Append(generated, tok)) = Len(generated) + 1
    BY <1>0
  <2>2. tokens \o Append(generated, tok) \in Seq(Tokens) BY <1>0, <2>1
  <2>3. Len(generated) + 1 <= MaxTokens
    BY <1>0, <1>16 DEF LoopEndsUndecoded, EngineInv, LoopBounds
  <2>4. lateTokens' \in Nat BY <1>0, <1>16 DEF LoopEndsUndecoded, CountLate
  <2> QED BY <1>0, <1>16, <2>1, <2>2, <2>3, <2>4 DEF LoopEndsUndecoded, SaveTurn
<1>17. CASE CompleteGenerate(c) BY <1>0, <1>17 DEF CompleteGenerate
<1>18. CASE StopClear(c) BY <1>0, <1>18 DEF StopClear, NoCells
<1>19. CASE GiveUpClear(c) BY <1>0, <1>19 DEF GiveUpClear
<1>20. CASE ClearContext(c) BY <1>0, <1>20 DEF ClearContext
<1>f. ASSUME NEW where \in {"unloadReset", "loadReplace"}, FreeContext(c), Goto(c, where),
             UNCHANGED <<mutex, history, dangling, frame, crossed, stopRaised, lateTokens>>
      PROVE TypeOK'
  <2>1. /\ kv' \in [Positions -> Tokens \cup {Empty}] /\ current_pos' \in 0 .. CtxLen
        /\ last_prompt_tokens' \in Seq(Tokens)
    BY <1>f DEF FreeContext, NoCells
  <2>2. should_stop' \in BOOLEAN /\ kvTrusted' \in BOOLEAN /\ engine' = "freed"
    BY <1>f DEF FreeContext
  <2>3. pc' \in [Callers -> PCs] BY <1>0, <1>f
  <2> QED BY <1>0, <1>f, <2>1, <2>2, <2>3
<1>21. CASE UnloadCleanup(c) BY <1>21, <1>f DEF UnloadCleanup
<1>22. CASE LoadCleanup(c) BY <1>22, <1>f DEF LoadCleanup
<1>r. ASSUME NEW object \in {"null", "new"}, NEW where \in {"idle", "loadModel"},
             ReplaceState(c, object), Goto(c, where),
             UNCHANGED <<frame, crossed, stopRaised, lateTokens>>
      PROVE TypeOK'
  <2>1. dangling' \subseteq Callers BY <1>0, <1>r, <1>in DEF ReplaceState
  <2>2. /\ kv' \in [Positions -> Tokens \cup {Empty}] /\ current_pos' \in 0 .. CtxLen
        /\ history' \in Seq(Tokens) /\ Len(history') <= MaxHistory
        /\ last_prompt_tokens' \in Seq(Tokens)
    BY <1>r DEF ReplaceState, NoCells
  <2>3. /\ should_stop' \in BOOLEAN /\ kvTrusted' \in BOOLEAN
        /\ mutex' \in Callers \cup {NoCaller} /\ engine' \in {"null", "new"}
    BY <1>r DEF ReplaceState
  <2>4. pc' \in [Callers -> PCs] BY <1>0, <1>r
  <2> QED BY <1>0, <1>r, <2>1, <2>2, <2>3, <2>4
<1>23. CASE LoadFails(c) BY <1>23, <1>r DEF LoadFails
<1>27. CASE TakeFreed(c) BY <1>0, <1>27 DEF TakeFreed
<1>28. CASE ReturnNull(c) BY <1>0, <1>28 DEF ReturnNull
<1>29. CASE UnloadReset(c) BY <1>29, <1>r DEF UnloadReset
<1>30. CASE LoadReplace(c) BY <1>30, <1>r DEF LoadReplace
<1>24. CASE LoadModel(c) BY <1>0, <1>24 DEF LoadModel
<1>25. CASE PrepareContext(c) BY <1>0, <1>25 DEF PrepareContext
<1>26. CASE ReturnDangling(c) BY <1>0, <1>26 DEF ReturnDangling
<1> QED
  BY <1>1, <1>2, <1>3, <1>4, <1>5, <1>6, <1>7, <1>8, <1>9, <1>10, <1>11, <1>12, <1>13,
     <1>14, <1>15, <1>16, <1>17, <1>18, <1>19, <1>20, <1>21, <1>22, <1>23, <1>24, <1>25,
     <1>26, <1>27, <1>28, <1>29, <1>30 DEF Enter, Generate, Other

(* Every step keeps the mutex with the thread whose program point holds    *)
(* it: only freeing g_state takes the context away, and it needs the mutex. *)
LEMMA LockStep == ASSUME EngineInv, [Next]_vars PROVE HeldByHolder'
<1> USE BoundsAssumption, DistinctAssumption DEF context, frame, ghosts
<1> USE DEF TypeOK, HeldByHolder, LoadStages, ReplaceStages
<1>0. TypeOK /\ ReplaceStages /\ HeldByHolder /\ LoadStages BY DEF EngineInv
<1>s. CASE UNCHANGED vars BY <1>0, <1>s DEF vars
<1> SUFFICES ASSUME NEW c \in Callers, Enter(c) \/ Generate(c) \/ Other(c) PROVE HeldByHolder'
  BY <1>s DEF Next
<1>1. CASE EnterGenerate(c) BY <1>0, <1>1 DEF EnterGenerate
<1>2. CASE EnterClear(c) BY <1>0, <1>2 DEF EnterClear
<1>3. CASE EnterUnload(c) BY <1>0, <1>3 DEF EnterUnload
<1>4. CASE EnterLoad(c) BY <1>0, <1>4 DEF EnterLoad, Loading
<1>5. CASE StopFlag(c) BY <1>0, <1>5 DEF StopFlag
<1>6. ASSUME NEW msg \in Tokens, AddToHistory(c, msg) PROVE HeldByHolder'
  BY <1>0, <1>6 DEF AddToHistory
<1>7. CASE GiveUpGenerate(c) BY <1>0, <1>7 DEF GiveUpGenerate
<1>8. ASSUME NEW msg \in Tokens, BeginPrefill(c, msg) PROVE HeldByHolder'
  <2>1. /\ mutex = NoCaller /\ mutex' = c /\ engine' = engine /\ dangling' = dangling
        /\ pc[c] = "genWait" /\ c \notin dangling /\ engine = "ctx" /\ pc' = [pc EXCEPT ![c] = "prefill"]
    BY <1>8 DEF BeginPrefill
  <2> QED BY <1>0, <2>1
<1>9. ASSUME NEW msg \in Tokens, TokenizeFails(c, msg) PROVE HeldByHolder'
  BY <1>0, <1>9 DEF TokenizeFails
<1>10. CASE PrefillBatch(c) BY <1>0, <1>10 DEF PrefillBatch
<1>11. CASE PrefillFails(c) BY <1>0, <1>11 DEF PrefillFails
<1>12. CASE StartLoop(c) BY <1>0, <1>12 DEF StartLoop
<1>13. CASE LoopHead(c) BY <1>0, <1>13 DEF LoopHead
<1>14. CASE LoopEnds(c) BY <1>0, <1>14 DEF LoopEnds, SaveTurn
<1>15. ASSUME NEW tok \in Tokens, NEW shown \in BOOLEAN, SampleToken(c, tok, shown) PROVE HeldByHolder'
  BY <1>0, <1>15 DEF SampleToken
<1>16. ASSUME NEW tok \in Tokens, NEW shown \in BOOLEAN, LoopEndsUndecoded(c, tok, shown) PROVE HeldByHolder'
  BY <1>0, <1>16 DEF LoopEndsUndecoded, SaveTurn
<1>17. CASE CompleteGenerate(c) BY <1>0, <1>17 DEF CompleteGenerate
<1>18. CASE StopClear(c) BY <1>0, <1>18 DEF StopClear
<1>19. CASE GiveUpClear(c) BY <1>0, <1>19 DEF GiveUpClear
<1>20. CASE ClearContext(c) BY <1>0, <1>20 DEF ClearContext
<1>21. CASE UnloadCleanup(c) BY <1>0, <1>21 DEF UnloadCleanup, FreeContext
<1>22. CASE LoadCleanup(c) BY <1>0, <1>22 DEF LoadCleanup, FreeContext
<1>23. CASE LoadFails(c) BY <1>0, <1>23 DEF LoadFails, ReplaceState, LeftInside
<1>27. CASE TakeFreed(c) BY <1>0, <1>27 DEF TakeFreed
<1>28. CASE ReturnNull(c) BY <1>0, <1>28 DEF ReturnNull
<1>29. CASE UnloadReset(c) BY <1>0, <1>29 DEF UnloadReset, ReplaceState, LeftInside
<1>30. CASE LoadReplace(c) BY <1>0, <1>30 DEF LoadReplace, ReplaceState, LeftInside
<1>24. CASE LoadModel(c) BY <1>0, <1>24 DEF LoadModel
<1>25. CASE PrepareContext(c) BY <1>0, <1>25 DEF PrepareContext
<1>26. CASE ReturnDangling(c) BY <1>0, <1>26 DEF ReturnDangling
<1> QED
  BY <1>1, <1>2, <1>3, <1>4, <1>5, <1>6, <1>7, <1>8, <1>9, <1>10, <1>11, <1>12, <1>13,
     <1>14, <1>15, <1>16, <1>17, <1>18, <1>19, <1>20, <1>21, <1>22, <1>23, <1>24, <1>25,
     <1>26, <1>27, <1>28, <1>29, <1>30 DEF Enter, Generate, Other

(* Every step keeps loads apart and g_state at the stage of the load.      *)
LEMMA LoadStep == ASSUME EngineInv, [Next]_vars PROVE LoadStages'
<1> USE BoundsAssumption, DistinctAssumption DEF context, frame, ghosts
<1> USE DEF TypeOK, HeldByHolder, LoadStages, ReplaceStages
<1>0. TypeOK /\ ReplaceStages /\ HeldByHolder /\ LoadStages BY DEF EngineInv
<1>s. CASE UNCHANGED vars BY <1>0, <1>s DEF vars
<1> SUFFICES ASSUME NEW c \in Callers, Enter(c) \/ Generate(c) \/ Other(c) PROVE LoadStages'
  BY <1>s DEF Next
<1>1. CASE EnterGenerate(c) BY <1>0, <1>1 DEF EnterGenerate
<1>2. CASE EnterClear(c) BY <1>0, <1>2 DEF EnterClear
<1>3. CASE EnterUnload(c) BY <1>0, <1>3 DEF EnterUnload, Loading
<1>4. CASE EnterLoad(c) BY <1>0, <1>4 DEF EnterLoad, Loading
<1>5. CASE StopFlag(c) BY <1>0, <1>5 DEF StopFlag
<1>6. ASSUME NEW msg \in Tokens, AddToHistory(c, msg) PROVE LoadStages'
  BY <1>0, <1>6 DEF AddToHistory
<1>7. CASE GiveUpGenerate(c) BY <1>0, <1>7 DEF GiveUpGenerate
<1>8. ASSUME NEW msg \in Tokens, BeginPrefill(c, msg) PROVE LoadStages'
  BY <1>0, <1>8 DEF BeginPrefill
<1>9. ASSUME NEW msg \in Tokens, TokenizeFails(c, msg) PROVE LoadStages'
  BY <1>0, <1>9 DEF TokenizeFails
<1>10. CASE PrefillBatch(c) BY <1>0, <1>10 DEF PrefillBatch
<1>11. CASE PrefillFails(c) BY <1>0, <1>11 DEF PrefillFails
<1>12. CASE StartLoop(c) BY <1>0, <1>12 DEF StartLoop
<1>13. CASE LoopHead(c) BY <1>0, <1>13 DEF LoopHead
<1>14. CASE LoopEnds(c) BY <1>0, <1>14 DEF LoopEnds, SaveTurn
<1>15. ASSUME NEW tok \in Tokens, NEW shown \in BOOLEAN, SampleToken(c, tok, shown) PROVE LoadStages'
  BY <1>0, <1>15 DEF SampleToken
<1>16. ASSUME NEW tok \in Tokens, NEW shown \in BOOLEAN, LoopEndsUndecoded(c, tok, shown) PROVE LoadStages'
  BY <1>0, <1>16 DEF LoopEndsUndecoded, SaveTurn
<1>17. CASE CompleteGenerate(c) BY <1>0, <1>17 DEF CompleteGenerate
<1>18. CASE StopClear(c) BY <1>0, <1>18 DEF StopClear
<1>19. CASE GiveUpClear(c) BY <1>0, <1>19 DEF GiveUpClear
<1>20. CASE ClearContext(c) BY <1>0, <1>20 DEF ClearContext
<1>21. CASE UnloadCleanup(c) BY <1>0, <1>21 DEF UnloadCleanup, FreeContext
<1>22. CASE LoadCleanup(c) BY <1>0, <1>22 DEF LoadCleanup, FreeContext
<1>23. CASE LoadFails(c) BY <1>0, <1>23 DEF LoadFails, ReplaceState, LeftInside
<1>27. CASE TakeFreed(c) BY <1>0, <1>27 DEF TakeFreed
<1>28. CASE ReturnNull(c) BY <1>0, <1>28 DEF ReturnNull
<1>29. CASE UnloadReset(c) BY <1>0, <1>29 DEF UnloadReset, ReplaceState, LeftInside
<1>30. CASE LoadReplace(c) BY <1>0, <1>30 DEF LoadReplace, ReplaceState, LeftInside
<1>24. CASE LoadModel(c) BY <1>0, <1>24 DEF LoadModel
<1>25. CASE PrepareContext(c) BY <1>0, <1>25 DEF PrepareContext
<1>26. CASE ReturnDangling(c) BY <1>0, <1>26 DEF ReturnDangling
<1> QED
  BY <1>1, <1>2, <1>3, <1>4, <1>5, <1>6, <1>7, <1>8, <1>9, <1>10, <1>11, <1>12, <1>13,
     <1>14, <1>15, <1>16, <1>17, <1>18, <1>19, <1>20, <1>21, <1>22, <1>23, <1>24, <1>25,
     <1>26, <1>27, <1>28, <1>29, <1>30 DEF Enter, Generate, Other

(* Every step keeps the gap between cleanup() and the write of g_state to  *)
(* the thread that stands in it, until a load crosses an unload.           *)
LEMMA ReplaceStep == ASSUME EngineInv, [Next]_vars PROVE ReplaceStages'
<1> USE BoundsAssumption, DistinctAssumption DEF context, frame, ghosts
<1> USE DEF TypeOK, HeldByHolder, LoadStages, ReplaceStages
<1>0. TypeOK /\ ReplaceStages /\ HeldByHolder /\ LoadStages BY DEF EngineInv
<1>s. CASE UNCHANGED vars BY <1>0, <1>s DEF vars
<1> SUFFICES ASSUME NEW c \in Callers, Enter(c) \/ Generate(c) \/ Other(c) PROVE ReplaceStages'
  BY <1>s DEF Next
<1>1. CASE EnterGenerate(c) BY <1>0, <1>1 DEF EnterGenerate
<1>2. CASE EnterClear(c) BY <1>0, <1>2 DEF EnterClear
<1>3. CASE EnterUnload(c) BY <1>0, <1>3 DEF EnterUnload, Loading
<1>4. CASE EnterLoad(c) BY <1>0, <1>4, ZenonT(40) DEF EnterLoad, Loading
<1>5. CASE StopFlag(c) BY <1>0, <1>5 DEF StopFlag
<1>6. ASSUME NEW msg \in Tokens, AddToHistory(c, msg) PROVE ReplaceStages'
  BY <1>0, <1>6 DEF AddToHistory
<1>7. CASE GiveUpGenerate(c) BY <1>0, <1>7 DEF GiveUpGenerate
<1>8. ASSUME NEW msg \in Tokens, BeginPrefill(c, msg) PROVE ReplaceStages'
  BY <1>0, <1>8 DEF BeginPrefill
<1>9. ASSUME NEW msg \in Tokens, TokenizeFails(c, msg) PROVE ReplaceStages'
  BY <1>0, <1>9 DEF TokenizeFails
<1>10. CASE PrefillBatch(c) BY <1>0, <1>10 DEF PrefillBatch
<1>11. CASE PrefillFails(c) BY <1>0, <1>11 DEF PrefillFails
<1>12. CASE StartLoop(c) BY <1>0, <1>12 DEF StartLoop
<1>13. CASE LoopHead(c) BY <1>0, <1>13 DEF LoopHead
<1>14. CASE LoopEnds(c) BY <1>0, <1>14 DEF LoopEnds, SaveTurn
<1>15. ASSUME NEW tok \in Tokens, NEW shown \in BOOLEAN, SampleToken(c, tok, shown) PROVE ReplaceStages'
  BY <1>0, <1>15 DEF SampleToken
<1>16. ASSUME NEW tok \in Tokens, NEW shown \in BOOLEAN, LoopEndsUndecoded(c, tok, shown) PROVE ReplaceStages'
  BY <1>0, <1>16 DEF LoopEndsUndecoded, SaveTurn
<1>17. CASE CompleteGenerate(c) BY <1>0, <1>17 DEF CompleteGenerate
<1>18. CASE StopClear(c) BY <1>0, <1>18 DEF StopClear
<1>19. CASE GiveUpClear(c) BY <1>0, <1>19 DEF GiveUpClear
<1>20. CASE ClearContext(c) BY <1>0, <1>20 DEF ClearContext
<1>21. CASE UnloadCleanup(c) BY <1>0, <1>21 DEF UnloadCleanup, FreeContext
<1>22. CASE LoadCleanup(c) BY <1>0, <1>22 DEF LoadCleanup, FreeContext
<1>23. CASE LoadFails(c) BY <1>0, <1>23 DEF LoadFails, ReplaceState, LeftInside
<1>27. CASE TakeFreed(c) BY <1>0, <1>27 DEF TakeFreed
<1>28. CASE ReturnNull(c) BY <1>0, <1>28 DEF ReturnNull
<1>29. CASE UnloadReset(c) BY <1>0, <1>29 DEF UnloadReset, ReplaceState, LeftInside
<1>30. CASE LoadReplace(c) BY <1>0, <1>30 DEF LoadReplace, ReplaceState, LeftInside
<1>24. CASE LoadModel(c) BY <1>0, <1>24 DEF LoadModel
<1>25. CASE PrepareContext(c) BY <1>0, <1>25 DEF PrepareContext
<1>26. CASE ReturnDangling(c) BY <1>0, <1>26 DEF ReturnDangling
<1> QED
  BY <1>1, <1>2, <1>3, <1>4, <1>5, <1>6, <1>7, <1>8, <1>9, <1>10, <1>11, <1>12, <1>13,
     <1>14, <1>15, <1>16, <1>17, <1>18, <1>19, <1>20, <1>21, <1>22, <1>23, <1>24, <1>25,
     <1>26, <1>27, <1>28, <1>29, <1>30 DEF Enter, Generate, Other

(* Every step keeps current_pos at the end of the prompt during the loop.  *)
LEMMA LoopStep == ASSUME EngineInv, [Next]_vars PROVE LoopBounds'
<1> USE BoundsAssumption, DistinctAssumption DEF context, frame, ghosts
<1> USE DEF TypeOK, HeldByHolder, ReplaceStages, LoopBounds
<1>0. TypeOK /\ ReplaceStages /\ HeldByHolder /\ LoopBounds BY DEF EngineInv
<1>s. CASE UNCHANGED vars BY <1>0, <1>s DEF vars
<1> SUFFICES ASSUME NEW c \in Callers, Enter(c) \/ Generate(c) \/ Other(c) PROVE LoopBounds'
  BY <1>s DEF Next
<1>1. CASE EnterGenerate(c) BY <1>0, <1>1 DEF EnterGenerate
<1>2. CASE EnterClear(c) BY <1>0, <1>2 DEF EnterClear
<1>3. CASE EnterUnload(c) BY <1>0, <1>3 DEF EnterUnload
<1>4. CASE EnterLoad(c) BY <1>0, <1>4 DEF EnterLoad, Loading
<1>5. CASE StopFlag(c) BY <1>0, <1>5 DEF StopFlag
<1>6. ASSUME NEW msg \in Tokens, AddToHistory(c, msg) PROVE LoopBounds'
  BY <1>0, <1>6 DEF AddToHistory
<1>7. CASE GiveUpGenerate(c) BY <1>0, <1>7 DEF GiveUpGenerate
<1>8. ASSUME NEW msg \in Tokens, BeginPrefill(c, msg) PROVE LoopBounds'
  BY <1>0, <1>8 DEF BeginPrefill
<1>9. ASSUME NEW msg \in Tokens, TokenizeFails(c, msg) PROVE LoopBounds'
  BY <1>0, <1>9 DEF TokenizeFails
<1>10. CASE PrefillBatch(c) BY <1>0, <1>10 DEF PrefillBatch
<1>11. CASE PrefillFails(c) BY <1>0, <1>11 DEF PrefillFails
<1>12. CASE StartLoop(c) BY <1>0, <1>12 DEF StartLoop
<1>13. CASE LoopHead(c) BY <1>0, <1>13 DEF LoopHead
<1>14. CASE LoopEnds(c) BY <1>0, <1>14 DEF LoopEnds, SaveTurn
<1>15. ASSUME NEW tok \in Tokens, NEW shown \in BOOLEAN, SampleToken(c, tok, shown) PROVE LoopBounds'
  BY <1>0, <1>15 DEF SampleToken
<1>16. ASSUME NEW tok \in Tokens, NEW shown \in BOOLEAN, LoopEndsUndecoded(c, tok, shown) PROVE LoopBounds'
  BY <1>0, <1>16 DEF LoopEndsUndecoded, SaveTurn
<1>17. CASE CompleteGenerate(c) BY <1>0, <1>17 DEF CompleteGenerate
<1>18. CASE StopClear(c) BY <1>0, <1>18 DEF StopClear
<1>19. CASE GiveUpClear(c) BY <1>0, <1>19 DEF GiveUpClear
<1>20. CASE ClearContext(c) BY <1>0, <1>20 DEF ClearContext
<1>21. CASE UnloadCleanup(c) BY <1>0, <1>21 DEF UnloadCleanup, FreeContext
<1>22. CASE LoadCleanup(c) BY <1>0, <1>22 DEF LoadCleanup, FreeContext
<1>23. CASE LoadFails(c) BY <1>0, <1>23 DEF LoadFails, ReplaceState, LeftInside
<1>27. CASE TakeFreed(c) BY <1>0, <1>27 DEF TakeFreed
<1>28. CASE ReturnNull(c) BY <1>0, <1>28 DEF ReturnNull
<1>29. CASE UnloadReset(c) BY <1>0, <1>29 DEF UnloadReset, ReplaceState, LeftInside
<1>30. CASE LoadReplace(c) BY <1>0, <1>30 DEF LoadReplace, ReplaceState, LeftInside
<1>24. CASE LoadModel(c) BY <1>0, <1>24 DEF LoadModel
<1>25. CASE PrepareContext(c) BY <1>0, <1>25 DEF PrepareContext
<1>26. CASE ReturnDangling(c) BY <1>0, <1>26 DEF ReturnDangling
<1> QED
  BY <1>1, <1>2, <1>3, <1>4, <1>5, <1>6, <1>7, <1>8, <1>9, <1>10, <1>11, <1>12, <1>13,
     <1>14, <1>15, <1>16, <1>17, <1>18, <1>19, <1>20, <1>21, <1>22, <1>23, <1>24, <1>25,
     <1>26, <1>27, <1>28, <1>29, <1>30 DEF Enter, Generate, Other

(* Every step keeps a stop raised in the loop raised: who resets            *)
(* should_stop needs the mutex the loop holds.                             *)
LEMMA StopStep == ASSUME EngineInv, [Next]_vars PROVE StopStays'
<1> USE BoundsAssumption, DistinctAssumption DEF context, frame, ghosts
<1> USE DEF TypeOK, HeldByHolder, LoadStages, ReplaceStages, StopStays
<1>0. TypeOK /\ ReplaceStages /\ HeldByHolder /\ LoadStages /\ StopStays BY DEF EngineInv
<1>s. CASE UNCHANGED vars BY <1>0, <1>s DEF vars
<1> SUFFICES ASSUME NEW c \in Callers, Enter(c) \/ Generate(c) \/ Other(c) PROVE StopStays'
  BY <1>s DEF Next
<1>1. CASE EnterGenerate(c) BY <1>0, <1>1 DEF EnterGenerate
<1>2. CASE EnterClear(c) BY <1>0, <1>2 DEF EnterClear
<1>3. CASE EnterUnload(c) BY <1>0, <1>3 DEF EnterUnload
<1>4. CASE EnterLoad(c) BY <1>0, <1>4 DEF EnterLoad, Loading
<1>5. CASE StopFlag(c) BY <1>0, <1>5 DEF StopFlag
<1>6. ASSUME NEW msg \in Tokens, AddToHistory(c, msg) PROVE StopStays'
  BY <1>0, <1>6 DEF AddToHistory
<1>7. CASE GiveUpGenerate(c) BY <1>0, <1>7 DEF GiveUpGenerate
<1>8. ASSUME NEW msg \in Tokens, BeginPrefill(c, msg) PROVE StopStays'
  BY <1>0, <1>8 DEF BeginPrefill
<1>9. ASSUME NEW msg \in Tokens, TokenizeFails(c, msg) PROVE StopStays'
  BY <1>0, <1>9 DEF TokenizeFails
<1>10. CASE PrefillBatch(c) BY <1>0, <1>10 DEF PrefillBatch
<1>11. CASE PrefillFails(c) BY <1>0, <1>11 DEF PrefillFails
<1>12. CASE StartLoop(c) BY <1>0, <1>12 DEF StartLoop
<1>13. CASE LoopHead(c) BY <1>0, <1>13 DEF LoopHead
<1>14. CASE LoopEnds(c) BY <1>0, <1>14 DEF LoopEnds, SaveTurn
<1>15. ASSUME NEW tok \in Tokens, NEW shown \in BOOLEAN, SampleToken(c, tok, shown) PROVE StopStays'
  BY <1>0, <1>15 DEF SampleToken, CountLate
<1>16. ASSUME NEW tok \in Tokens, NEW shown \in BOOLEAN, LoopEndsUndecoded(c, tok, shown) PROVE StopStays'
  BY <1>0, <1>16 DEF LoopEndsUndecoded, SaveTurn, CountLate
<1>17. CASE CompleteGenerate(c) BY <1>0, <1>17 DEF CompleteGenerate
<1>18. CASE StopClear(c) BY <1>0, <1>18 DEF StopClear
<1>19. CASE GiveUpClear(c) BY <1>0, <1>19 DEF GiveUpClear
<1>20. CASE ClearContext(c) BY <1>0, <1>20 DEF ClearContext
<1>21. CASE UnloadCleanup(c) BY <1>0, <1>21 DEF UnloadCleanup, FreeContext
<1>22. CASE LoadCleanup(c) BY <1>0, <1>22 DEF LoadCleanup, FreeContext
<1>23. CASE LoadFails(c) BY <1>0, <1>23 DEF LoadFails, ReplaceState, LeftInside
<1>27. CASE TakeFreed(c) BY <1>0, <1>27 DEF TakeFreed
<1>28. CASE ReturnNull(c) BY <1>0, <1>28 DEF ReturnNull
<1>29. CASE UnloadReset(c) BY <1>0, <1>29 DEF UnloadReset, ReplaceState, LeftInside
<1>30. CASE LoadReplace(c) BY <1>0, <1>30 DEF LoadReplace, ReplaceState, LeftInside
<1>24. CASE LoadModel(c) BY <1>0, <1>24 DEF LoadModel
<1>25. CASE PrepareContext(c) BY <1>0, <1>25 DEF PrepareContext
<1>26. CASE ReturnDangling(c) BY <1>0, <1>26 DEF ReturnDangling
<1> QED
  BY <1>1, <1>2, <1>3, <1>4, <1>5, <1>6, <1>7, <1>8, <1>9, <1>10, <1>11, <1>12, <1>13,
     <1>14, <1>15, <1>16, <1>17, <1>18, <1>19, <1>20, <1>21, <1>22, <1>23, <1>24, <1>25,
     <1>26, <1>27, <1>28, <1>29, <1>30 DEF Enter, Generate, Other

(* Every step keeps the cache equal to the part of the prompt decoded so   *)
(* far, and between turns to last_prompt_tokens, while it is trusted.      *)
LEMMA CacheStep == ASSUME EngineInv, [Next]_vars PROVE CacheCoherent'
<1> USE BoundsAssumption, DistinctAssumption DEF context, frame, ghosts
<1> USE DEF TypeOK, HeldByHolder, LoadStages, ReplaceStages, LoopBounds, CacheCoherent, Holds
<1>0. TypeOK /\ ReplaceStages /\ HeldByHolder /\ LoadStages /\ LoopBounds /\ CacheCoherent BY DEF EngineInv
<1>s. CASE UNCHANGED vars BY <1>0, <1>s DEF vars
<1> SUFFICES ASSUME NEW c \in Callers, Enter(c) \/ Generate(c) \/ Other(c) PROVE CacheCoherent'
  BY <1>s DEF Next
<1>1. CASE EnterGenerate(c) BY <1>0, <1>1 DEF EnterGenerate
<1>2. CASE EnterClear(c) BY <1>0, <1>2 DEF EnterClear
<1>3. CASE EnterUnload(c) BY <1>0, <1>3 DEF EnterUnload
<1>4. CASE EnterLoad(c) BY <1>0, <1>4 DEF EnterLoad, Loading
<1>5. CASE StopFlag(c) BY <1>0, <1>5 DEF StopFlag
<1>6. ASSUME NEW msg \in Tokens, AddToHistory(c, msg) PROVE CacheCoherent'
  BY <1>0, <1>6 DEF AddToHistory
<1>7. CASE GiveUpGenerate(c) BY <1>0, <1>7 DEF GiveUpGenerate
<1>8. ASSUME NEW msg \in Tokens, BeginPrefill(c, msg) PROVE CacheCoherent'
  <2>1. /\ mutex = NoCaller /\ c \in Callers /\ mutex' = c /\ pc' = [pc EXCEPT ![c] = "prefill"]
        /\ dangling' = dangling /\ c \notin dangling
        /\ tokens' = Append(history, msg) /\ should_stop' = FALSE /\ Len(history) + 1 <= CtxLen
    BY <1>8 DEF BeginPrefill
  <2>2. \A d \in Callers : ~Within(d, HolderPCs) BY <1>0, <2>1
  <2>3. tokens' \in Seq(Tokens) /\ Len(tokens') = Len(history) + 1 BY <1>0, <2>1
  <2>4. PICK n \in 0 .. Len(last_prompt_tokens) :
          /\ IsCommonPrefix(n, tokens', last_prompt_tokens)
          /\ \/ n > ReuseThreshold /\ kv' = KeepPrefix(kv, n) /\ next' = n + 1 /\ kvTrusted' = kvTrusted
             \/ kv' = NoCells /\ next' = 1
    BY <1>8 DEF BeginPrefill
  <2>5. kvTrusted' => Holds(kv', tokens', Smaller(next' - 1, Len(tokens')))
    <3>1. CASE n > ReuseThreshold /\ kv' = KeepPrefix(kv, n) /\ next' = n + 1 /\ kvTrusted' = kvTrusted
      <4> SUFFICES ASSUME kvTrusted PROVE Holds(kv', tokens', n)
        BY <2>3, <2>4, <3>1 DEF IsCommonPrefix, Smaller
      <4>1. last_prompt_tokens # <<>> BY <1>0, <2>4, <3>1
      <4>2. Holds(kv, last_prompt_tokens, Len(last_prompt_tokens)) BY <1>0, <2>1, <4>1
      <4>3. n <= Len(tokens') /\ n <= CtxLen BY <1>0, <2>4, <4>2 DEF IsCommonPrefix
      <4>4. \A p \in Positions : p <= n => tokens'[p] = last_prompt_tokens[p]
        BY <2>3, <2>4 DEF IsCommonPrefix
      <4> QED BY SMTT(30), <1>0, <2>3, <2>4, <3>1, <4>2, <4>3, <4>4 DEF KeepPrefix
    <3>2. CASE kv' = NoCells /\ next' = 1
      BY <2>3, <3>2 DEF NoCells, Smaller
    <3> QED BY <2>4, <3>1, <3>2
  <2> QED BY <1>0, <2>1, <2>2, <2>5, ZenonT(40)
<1>9. ASSUME NEW msg \in Tokens, TokenizeFails(c, msg) PROVE CacheCoherent'
  BY <1>0, <1>9 DEF TokenizeFails
<1>10. CASE PrefillBatch(c)
  <2> DEFINE last == Smaller(next + NBatch - 1, Len(tokens))
  <2>1. /\ At(c, "prefill") /\ UNCHANGED dangling /\ next <= Len(tokens) /\ pc' = pc /\ tokens' = tokens
        /\ should_stop' = should_stop /\ kvTrusted' = kvTrusted /\ mutex' = mutex
        /\ kv' = Decoded(kv, tokens, next, last) /\ next' = next + NBatch
    BY <1>10 DEF PrefillBatch
  <2>2. mutex = c /\ \A d \in Callers : Within(d, HolderPCs) => d = c BY <1>0, <2>1
  <2>3. Smaller(next' - 1, Len(tokens')) = last BY <1>0, <2>1 DEF Smaller
  <2>4. last <= Len(tokens) /\ last \in Nat /\ next <= last BY <1>0, <2>1 DEF Smaller
  <2>5. kvTrusted => Holds(kv', tokens, last)
    <3> HIDE DEF last
    <3> SUFFICES ASSUME kvTrusted PROVE Holds(kv', tokens, last)
      OBVIOUS
    <3>1. Holds(kv, tokens, next - 1) BY SMTT(30), <1>0, <2>1 DEF Smaller
    <3>2. last <= CtxLen BY <1>0, <2>4
    <3>3. \A p \in Positions : kv'[p] = IF p \in next .. last THEN tokens[p] ELSE kv[p]
      BY <2>1 DEF Decoded
    <3>4. next \in Nat /\ last \in Nat /\ next <= last BY <1>0, <2>4
    <3>5. \A p \in Positions : kv'[p] = IF p <= last THEN tokens[p] ELSE Empty
      BY <3>1, <3>3, <3>4
    <3> QED BY <2>4, <3>2, <3>5
  <2> QED BY <1>0, <2>1, <2>2, <2>3, <2>5
<1>11. CASE PrefillFails(c) BY <1>0, <1>11 DEF PrefillFails
<1>12. CASE StartLoop(c)
  <2>1. /\ At(c, "prefill") /\ UNCHANGED dangling /\ pc' = [pc EXCEPT ![c] = "decode"] /\ UNCHANGED <<kv, tokens, generated, kvTrusted, mutex>>
        /\ next > Len(tokens) \/ should_stop
    BY <1>12 DEF StartLoop
  <2>2. mutex = c /\ \A d \in Callers : Within(d, HolderPCs) => d = c BY <1>0, <2>1
  <2>3. kvTrusted => Holds(kv, tokens, Len(tokens)) BY <1>0, <2>1 DEF Smaller
  <2>4. tokens \o generated = tokens /\ Len(generated) = 0 BY <1>0, <2>1
  <2>5. mutex' # NoCaller /\ \A d \in Callers : ~At(d, "prefill")' BY <1>0, <2>1, <2>2
  <2>6. kvTrusted' => Holds(kv', tokens' \o generated', Len(tokens') + Len(generated'))
    BY <2>1, <2>3, <2>4
  <2> QED BY <2>5, <2>6
<1>13. CASE LoopHead(c) BY <1>0, <1>13 DEF LoopHead
<1>14. CASE LoopEnds(c)
  <2>1. /\ Within(c, {"decode", "sample"}) /\ UNCHANGED dangling /\ pc' = [pc EXCEPT ![c] = "genDone"]
        /\ UNCHANGED <<kv, tokens, kvTrusted>>
        /\ last_prompt_tokens' = tokens \o generated
    BY <1>14 DEF LoopEnds, SaveTurn
  <2>2. \A d \in Callers : ~Within(d, HolderPCs)' BY <1>0, <2>1
  <2>3. Len(tokens \o generated) = Len(tokens) + Len(generated) BY <1>0
  <2> QED BY <1>0, <2>1, <2>2, <2>3
<1>15. ASSUME NEW tok \in Tokens, NEW shown \in BOOLEAN, SampleToken(c, tok, shown) PROVE CacheCoherent'
  <2>1. /\ At(c, "sample") /\ UNCHANGED dangling /\ pc' = [pc EXCEPT ![c] = "decode"] /\ UNCHANGED <<tokens, kvTrusted, mutex>>
        /\ current_pos + Len(generated) + 1 <= CtxLen /\ generated' = Append(generated, tok)
        /\ kv' = [kv EXCEPT ![current_pos + Len(generated) + 1] = tok]
    BY <1>15 DEF SampleToken
  <2>2. mutex = c /\ \A d \in Callers : Within(d, HolderPCs) => d = c BY <1>0, <2>1
  <2>3. current_pos = Len(tokens) BY <1>0, <2>1
  <2>4. generated' \in Seq(Tokens) /\ Len(generated') = Len(generated) + 1 BY <1>0, <2>1
  <2>5. kvTrusted => Holds(kv', tokens \o generated', Len(tokens) + Len(generated'))
    <3> SUFFICES ASSUME kvTrusted PROVE Holds(kv', tokens \o generated', Len(tokens) + Len(generated'))
      OBVIOUS
    <3>1. Holds(kv, tokens \o generated, Len(tokens) + Len(generated)) BY <1>0, <2>1
    <3>2. \A p \in 1 .. Len(tokens) + Len(generated) : (tokens \o generated')[p] = (tokens \o generated)[p]
      BY SMTT(30), <1>0, <2>1, <2>4
    <3>3. (tokens \o generated')[Len(tokens) + Len(generated) + 1] = tok BY <1>0, <2>1, <2>4
    <3>4. PICK here \in Positions : here = Len(tokens) + Len(generated) + 1
      BY <1>0, <2>1, <2>3
    <3>5. kv' = [kv EXCEPT ![here] = tok] BY <2>1, <2>3, <3>4
    <3>6. \A p \in Positions : p < here => kv'[p] = (tokens \o generated')[p]
      <4> SUFFICES ASSUME NEW p \in Positions, p < here PROVE kv'[p] = (tokens \o generated')[p]
        OBVIOUS
      <4>1. p \in 1 .. Len(tokens) + Len(generated) BY <1>0, <3>4
      <4>2. kv'[p] = kv[p] BY <1>0, <3>5
      <4>3. kv[p] = (tokens \o generated)[p] BY <1>0, <3>1, <4>1
      <4> QED BY <3>2, <4>1, <4>2, <4>3
    <3>7. kv'[here] = (tokens \o generated')[here] BY <1>0, <3>3, <3>4, <3>5
    <3>8. \A p \in Positions : p > here => kv'[p] = Empty BY <1>0, <3>1, <3>4, <3>5
    <3>9. here <= Len(tokens \o generated') /\ here <= CtxLen /\ here = Len(tokens) + Len(generated')
      BY <1>0, <2>4, <3>4
    <3>10. \A p \in Positions : kv'[p] = IF p <= here THEN (tokens \o generated')[p] ELSE Empty
      <4> DEFINE s == tokens \o generated'
      <4>1. /\ \A p \in Positions : p < here => kv'[p] = s[p]
            /\ kv'[here] = s[here]
            /\ \A p \in Positions : p > here => kv'[p] = Empty
        BY <3>6, <3>7, <3>8
      <4> HIDE DEF s
      <4>2. \A p \in Positions : kv'[p] = IF p <= here THEN s[p] ELSE Empty BY <3>4, <4>1
      <4> QED BY <4>2 DEF s
    <3> QED BY <3>9, <3>10
  <2> QED BY <1>0, <2>1, <2>2, <2>5
<1>16. ASSUME NEW tok \in Tokens, NEW shown \in BOOLEAN, LoopEndsUndecoded(c, tok, shown) PROVE CacheCoherent'
  BY <1>0, <1>16 DEF LoopEndsUndecoded, SaveTurn
<1>17. CASE CompleteGenerate(c) BY <1>0, <1>17 DEF CompleteGenerate
<1>18. CASE StopClear(c) BY <1>0, <1>18 DEF StopClear
<1>19. CASE GiveUpClear(c) BY <1>0, <1>19 DEF GiveUpClear
<1>20. CASE ClearContext(c) BY <1>0, <1>20 DEF ClearContext
<1>21. CASE UnloadCleanup(c) BY <1>0, <1>21 DEF UnloadCleanup, FreeContext
<1>22. CASE LoadCleanup(c) BY <1>0, <1>22 DEF LoadCleanup, FreeContext
<1>23. CASE LoadFails(c) BY <1>0, <1>23 DEF LoadFails, ReplaceState, LeftInside
<1>27. CASE TakeFreed(c) BY <1>0, <1>27 DEF TakeFreed
<1>28. CASE ReturnNull(c) BY <1>0, <1>28 DEF ReturnNull
<1>29. CASE UnloadReset(c) BY <1>0, <1>29 DEF UnloadReset, ReplaceState, LeftInside
<1>30. CASE LoadReplace(c) BY <1>0, <1>30 DEF LoadReplace, ReplaceState, LeftInside
<1>24. CASE LoadModel(c) BY <1>0, <1>24 DEF LoadModel
<1>25. CASE PrepareContext(c) BY <1>0, <1>25 DEF PrepareContext
<1>26. CASE ReturnDangling(c) BY <1>0, <1>26 DEF ReturnDangling
<1> QED
  BY <1>1, <1>2, <1>3, <1>4, <1>5, <1>6, <1>7, <1>8, <1>9, <1>10, <1>11, <1>12, <1>13,
     <1>14, <1>15, <1>16, <1>17, <1>18, <1>19, <1>20, <1>21, <1>22, <1>23, <1>24, <1>25,
     <1>26, <1>27, <1>28, <1>29, <1>30 DEF Enter, Generate, Other

-----------------------------------------------------------------------------
LEMMA InitInv == Init => EngineInv
<1> USE BoundsAssumption, DistinctAssumption
<1> SUFFICES ASSUME Init PROVE EngineInv OBVIOUS
<1>1. TypeOK
  <2>1. kv \in [Positions -> Tokens \cup {Empty}] /\ current_pos \in 0 .. CtxLen
    BY DEF Init, NoCells
  <2>2. /\ history \in Seq(Tokens) /\ Len(history) <= MaxHistory
        /\ last_prompt_tokens \in Seq(Tokens)
        /\ tokens \in Seq(Tokens) /\ Len(tokens) <= CtxLen /\ next \in Nat \ {0}
        /\ generated \in Seq(Tokens) /\ Len(generated) <= MaxTokens
    BY DEF Init
  <2>3. pc \in [Callers -> PCs] /\ dangling \subseteq Callers /\ mutex \in Callers \cup {NoCaller}
    BY DEF Init
  <2>4. should_stop \in BOOLEAN /\ kvTrusted \in BOOLEAN /\ crossed \in BOOLEAN BY DEF Init
  <2>5. engine = "null" /\ stopRaised = "no" /\ lateTokens \in Nat BY DEF Init
  <2> QED BY <2>1, <2>2, <2>3, <2>4, <2>5 DEF TypeOK
<1>2. HeldByHolder /\ ReplaceStages BY DEF Init, HeldByHolder, ReplaceStages
<1>3. LoadStages BY DEF Init, LoadStages
<1>4. LoopBounds /\ StopStays BY DEF Init, LoopBounds, StopStays
<1>5. CacheCoherent BY DEF Init, CacheCoherent
<1> QED BY <1>1, <1>2, <1>3, <1>4, <1>5 DEF EngineInv

(* The engine's inductive invariant holds in every reachable state: lock,  *)
(* loading stages, loop bounds, stop flag and cache of ai_chat_jni.cpp.    *)
THEOREM EngineInvariant == Spec => []EngineInv
<1>1. Init => EngineInv BY InitInv
<1>2. EngineInv /\ [Next]_vars => EngineInv'
  BY TypeStep, LockStep, LoadStep, ReplaceStep, LoopStep, StopStep, CacheStep DEF EngineInv
<1> QED BY <1>1, <1>2, PTL DEF Spec

(* Every variable keeps its type; KV positions never exceed n_ctx and the  *)
(* history never exceeds MAX_HISTORY_SIZE.                                 *)
THEOREM TypeCorrect == Spec => []TypeOK
<1>1. EngineInv => TypeOK BY DEF EngineInv
<1> QED BY <1>1, EngineInvariant, PTL

(* As long as no load has begun during an unload, the context of the       *)
(* thread that prefills or samples is never freed under it: cleanup()      *)
(* takes the mutex.  And a thread that gets the mutex without a context    *)
(* stands in the gap between cleanup() and the write of g_state.           *)
THEOREM ContextSafe == Spec => []HolderOwnsContext
<1>1. EngineInv => HolderOwnsContext
  <2> SUFFICES ASSUME EngineInv, NEW c \in Callers
               PROVE /\ pc[c] \in HolderPCs /\ ~crossed =>
                           mutex = c /\ engine = "ctx" /\ c \notin dangling
                     /\ At(c, "genNull") =>
                           mutex = c /\ engine = "freed" /\ \E d \in Callers : pc[d] \in ReplacePCs
    BY DEF HolderOwnsContext
  <2>1. pc[c] \in HolderPCs /\ ~crossed => mutex = c /\ engine = "ctx" /\ c \notin dangling
    BY DEF EngineInv, HeldByHolder, ReplaceStages
  <2>2. At(c, "genNull") => mutex = c /\ engine = "freed" BY DEF EngineInv, HeldByHolder
  <2>3. engine = "freed" => \E d \in Callers : pc[d] \in ReplacePCs
    BY DEF EngineInv, ReplaceStages
  <2> QED BY <2>1, <2>2, <2>3
<1> QED BY <1>1, EngineInvariant, PTL

(* A stop that arrives during the token loop lets at most one more token   *)
(* through: nobody else can reset should_stop before the loop ends.        *)
THEOREM StopIsPrompt == Spec => []StopEndsLoop
<1>1. EngineInv => StopEndsLoop BY DEF EngineInv, StopStays, StopEndsLoop
<1> QED BY <1>1, EngineInvariant, PTL

(* Reusing the common prefix of two turns leaves exactly the new prompt in *)
(* the KV cache, as long as no stop and no failed decode came in between.  *)
THEOREM CacheReuseSound == Spec => []CacheIsThePrompt
<1>1. EngineInv => CacheIsThePrompt
  BY DEF EngineInv, CacheCoherent, LoopBounds, CacheIsThePrompt
<1> QED BY <1>1, EngineInvariant, PTL
=============================================================================
