SPECIFICATION FairSpec
CONSTANTS
    root = root
    sub = sub
    a = a
    b = b
    x = x
    Root = root
    SubDirs = {sub}
    Files = {a, b, x}
    DirOf <- Place
    InitFiles = {a}
    InitDirs = {sub}
    UserOps = {"write", "create", "delete", "replace", "mkdir", "rmdir"}
    MayDie = TRUE
    BadKeys = TRUE
    MaxOps = 3
CHECK_DEADLOCK FALSE
INVARIANTS
    TypeOK
    EditsSynced
    DeletionsSynced
PROPERTIES
    SyncedAgain
