SPECIFICATION PageSpec
CONSTANTS
    Shares = {s1}
    share = s1
    Requests = {r1, r2}
    Viewers = {p1, p2}
    Limits = {1, 2}
    NoLimit = NoLimit
    TTL = 1
    MaxNow = 2
    MaxCount = 3
    MaxFailed = 0
SYMMETRY AnyOrder
INVARIANTS
    PageTypeOK
    RefusedWhenSpent
    ClosingReachesPages
    OnePageIsEnough
    ButtonComesBack
