SPECIFICATION Spec
CONSTANTS
    root = root
    sub = sub
    a = a
    b = b
    x = x
    Root = root
    SubDirs = {}
    Files = {a, b, x}
    DirOf <- Flat
    InitFiles = {a, b}
    InitDirs = {}
    UserOps = {"create", "delete"}
    MayDie = FALSE
    BadKeys = FALSE
    MaxOps = 2
CHECK_DEADLOCK FALSE
INVARIANTS
    CreationsSynced
