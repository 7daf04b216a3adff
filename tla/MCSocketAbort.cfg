CONSTANTS
    t1 = t1
    t2 = t2
    NULL = NULL
    MAX_SOCKET = 1
    MaxId = 2
    Size = 2
    MaxPkg = 1
    MaxCmd = 3
    Opener = {t1}
    Kinds = {"O"}
SPECIFICATION Spec
CHECK_DEADLOCK FALSE
INVARIANTS
    NoAbort
