SPECIFICATION OwnerAndMember
CONSTANTS
    u1 = u1
    u2 = u2
    u3 = u3
    o1 = o1
    Users = {u1, u2}
    Orgs = {o1}
    Requests = {r1, r2}
    Kinds = {"tier", "remove"}
    RoleInputs = {"member"}
    TierInputs = {"plus"}
INVARIANT RemovedMemberIsFree
CHECK_DEADLOCK FALSE
