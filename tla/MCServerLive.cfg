CONSTANTS
    a = a
    b = b
    c = c
    w1 = w1
    w2 = w2
    e1 = e1
    NULL = NULL
    Ctx = {a, b}
    Boot = {a}
    Harbor = {}
    Monitors = {}
    Aborters = {}
    Worker = {w1, w2}
    Ext = {e1}
    Weight <- MCWeight
    MaxSend = 1
SPECIFICATION FairSpec
CHECK_DEADLOCK FALSE
PROPERTIES
    Reclaimed
    Drained
