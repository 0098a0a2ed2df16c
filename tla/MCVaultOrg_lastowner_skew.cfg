SPECIFICATION TwoOwners
CONSTANTS
    u1 = u1
    u2 = u2
    u3 = u3
    o1 = o1
    Users = {u1, u2}
    Orgs = {o1}
    Requests = {r1, r2}
    Kinds = {"role", "remove"}
    RoleInputs = {"owner", "member"}
    TierInputs = {"free"}
INVARIANT KeepsAnOwner
CHECK_DEADLOCK FALSE
