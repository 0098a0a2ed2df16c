SPECIFICATION FairThreeRanks
CONSTANTS
    u1 = u1
    u2 = u2
    u3 = u3
    o1 = o1
    Users = {u1, u2, u3}
    Orgs = {o1, o2}
    Requests = {r1, r2}
    Kinds = {"create", "add", "role", "tier", "remove", "setTier"}
    RoleInputs = {"owner", "admin", "member"}
    TierInputs = {"free", "plus"}
INVARIANT OneFounder
PROPERTIES
    RankRespected
    DirectorySteps
    RequestsFinish
CHECK_DEADLOCK FALSE
