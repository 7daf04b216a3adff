CONSTANTS
    a = a
    b = b
    c = c
    w1 = w1
    w2 = w2
    e1 = e1
    NULL = NULL
    Ctx = {a, b}
    Boot = {a}
    Harbor = {b}
    Monitors = {a}
    Aborters = {a}
    Worker = {w1, w2}
    Ext = {}
    Weight <- MCWeight
    MaxSend = 2
SPECIFICATION Spec
CHECK_DEADLOCK FALSE
INVARIANTS
    ServerInv
    RefExact
    NotStranded
    InitBeforeCallback
    ExclusiveCallback
    NoUseAfterFree
    NoPushToDropped
    TotalExact
    SendOrder
PROPERTIES
    NoResurrection
    ImplementsMailbox
