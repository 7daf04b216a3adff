CONSTANTS
    a = a
    b = b
    NULL = NULL
    BREAK = BREAK
    Svc = {a, b}
    Early = {b}
    ByName = {}
    Uses <- MCUses
    NCo = 3
    Peer <- MCPeer
    MaxOp = 2
    MaxRound = 2
SPECIFICATION Spec
CHECK_DEADLOCK FALSE
INVARIANTS
    NoLostCall
    ParkedOnce
    EpilogueDrains
    WatchExact
PROPERTIES
    CallReturns
