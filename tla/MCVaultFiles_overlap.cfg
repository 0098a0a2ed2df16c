SPECIFICATION Spec
CONSTANTS
    Keys = {a, f1}
    NoKey = NoKey
    a = a
    f1 = f1
    f2 = f2
    Chars = {"a", "f", "x", "y", "_", "/"}
    Name <- TwoNames
    Path <- FolderF
    Shares = {s1}
    Requests = {r1, r2}
    MaxVersion = 2
PROPERTY MoveDeletesTheOriginal
