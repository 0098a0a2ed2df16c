SPECIFICATION TwoOwners
CONSTANTS
    u1 = u1
    u2 = u2
    u3 = u3
    o1 = o1
    Users = {u1, u2}
    Orgs = {o1}
    Requests = {r1, r2, r3}
    Kinds = {"add", "role", "tier", "remove"}
    RoleInputs = {"owner", "member"}
    TierInputs = {"free", "plus"}
SYMMETRY AnyOrder
INVARIANTS
    TypeOK
    RemovedRowsAreFree
    LogTellsStatus
    AssignedTierIsVaultTier
    WaitCyclesPairAddWithMember
PROPERTIES
    LastOwnerUnlessRaced
    DirectorySteps
CHECK_DEADLOCK FALSE
