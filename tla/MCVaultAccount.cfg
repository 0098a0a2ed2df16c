SPECIFICATION Spec
CONSTANTS
    Chars = {"a", "d", "/"}
    Slots = {s1, s2}
    Targets <- SomeTargets
    Folders <- SomeFolders
    Declared <- SomeSizes
    MaxSize = 1
    MaxInt = 6
    FreeQuota = 1
    PlusQuota = 5
    MaxCopied = 1
SYMMETRY AnyOrder
INVARIANTS
    TypeOK
    ProvisionedIsUsable
    SignedUrlsWork
    OvershootBounded
    ListedWhereStored
