SPECIFICATION Spec
CONSTANTS
    Shares = {s1}
    Requests = {r1, r2, r3}
    Viewers = {v1}
    Limits <- SomeLimits
    NoLimit = NoLimit
    MaxNow = 1
    MaxCount = 4
    MaxFailed = 1
SYMMETRY AnyOrder
INVARIANTS
    TypeOK
    EveryUrlIsCounted
    OvershootBounded
PROPERTIES
    ClosedIsFinal
    KeepsLifecycle
