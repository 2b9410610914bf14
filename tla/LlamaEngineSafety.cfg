CONSTANTS
    t1 = t1
    t2 = t2
    a = a
    b = b
    Callers = {t1, t2}
    Tokens = {a, b}
    NoCaller = NoCaller
    Empty = Empty
    CtxLen = 3
    NBatch = 2
    ReuseThreshold = 1
    MaxTokens = 2
    MaxHistory = 2
SPECIFICATION Spec
SYMMETRY Symmetry
INVARIANTS
    TypeOK
    HolderOwnsContext
    CacheIsThePrompt
    StopEndsLoop
