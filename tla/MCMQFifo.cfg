CONSTANTS
    m1 = m1
    m2 = m2
    NULL = NULL
    Message = {m1, m2}
    DEFAULT_QUEUE_SIZE = 2
    MQ_OVERLOAD = 1
    MaxCap = 8
SPECIFICATION Spec
INVARIANTS
    ThresholdBound
PROPERTIES
    ImplementsFifo
