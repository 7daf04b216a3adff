CONSTANTS
    t1 = t1
    t2 = t2
    t3 = t3
    t4 = t4
    Thread = {t1, t2, t3, t4}
SPECIFICATION Spec
INVARIANTS
    Exclusion
    LockInv
PROPERTIES
    WriterEnters
