CONSTANTS
    t1 = t1
    t2 = t2
    a = a
    b = b
    Callers = {t1, t2}
    Tokens = {a}
    NoCaller = NoCaller
    Empty = Empty
    CtxLen = 2
    NBatch = 1
    ReuseThreshold = 0
    MaxTokens = 1
    MaxHistory = 2
SPECIFICATION FairSpec
PROPERTY GenerateReturns
