SPECIFICATION Spec
CONSTANTS
    Keys = {a, f1, f2}
    NoKey = NoKey
    a = a
    f1 = f1
    f2 = f2
    Chars = {"a", "f", "x", "y", "_", "/"}
    Name <- SomeNames
    Path <- FolderF
    Shares = {s1, s2}
    Requests = {r1}
    MaxVersion = 3
SYMMETRY AnyOrder
INVARIANTS
    DeletionIsWhole
    MoveKeepsSharesValid
