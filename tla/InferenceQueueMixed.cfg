CONSTANTS
    r1 = r1
    r2 = r2
    r3 = r3
    Requests = {r1, r2, r3}
    HighRequests = {r1}
    None = None
    Capacity = 3
    UserMayStop = FALSE
SPECIFICATION Spec
SYMMETRY Symmetry
INVARIANT NothingLost
