CONSTANTS
    r1 = r1
    r2 = r2
    r3 = r3
    Requests = {r1, r2, r3}
    HighRequests = {r1, r2, r3}
    None = None
    Capacity = 2
    UserMayStop = FALSE
SPECIFICATION FairSpec
INVARIANT NothingLost
PROPERTY AcceptedRequestFinishes
