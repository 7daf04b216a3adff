CONSTANTS
    w1 = w1
    w2 = w2
    s1 = s1
    harbor = harbor
    NULL = NULL
    Worker = {w1, w2}
    Endless = {w1}
    Watched = {w1}
    Service = {s1, harbor}
    Reserved = {harbor}
    MaxVersion = 2
SPECIFICATION Spec
CHECK_DEADLOCK FALSE
INVARIANTS
    SleepExact
PROPERTIES
    WorkTaken
    AllExit
    EndlessReported
