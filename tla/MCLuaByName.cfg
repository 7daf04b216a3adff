CONSTANTS
    a = a
    b = b
    NULL = NULL
    BREAK = BREAK
    Svc = {a, b}
    Early = {b}
    ByName = {b}
    Uses <- MCUses
    NCo = 3
    Peer <- MCPeer
    MaxOp = 2
    MaxRound = 1
SPECIFICATION Spec
CHECK_DEADLOCK FALSE
INVARIANTS
    NoLostCall
