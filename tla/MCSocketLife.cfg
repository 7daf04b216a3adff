CONSTANTS
    t1 = t1
    t2 = t2
    NULL = NULL
    MAX_SOCKET = 2
    MaxId = 3
    Size = 2
    MaxPkg = 2
    MaxCmd = 3
    Opener = {t1}
    Kinds = {"O", "L", "B", "U"}
SPECIFICATION Spec
CHECK_DEADLOCK FALSE
INVARIANTS
    WireWhole
    WriteArmed
    BufferOnce
    OrderlyClose
    ClosedIsFinal
