CONSTANTS
    c1 = c1
    c2 = c2
    c3 = c3
    c4 = c4
    c5 = c5
    t1 = t1
    t2 = t2
    NULL = NULL
    Ctx = {c1, c2, c3, c4}
    Launcher = {t1, t2}
    HANDLE_MASK = 7
    DEFAULT_SLOT_SIZE = 2
    Name = {}
SPECIFICATION Spec
SYMMETRY MCSymmetry
CHECK_DEADLOCK FALSE
INVARIANTS
    RehashAssertion
