SPECIFICATION FairSpec
CONSTANTS
    Proc = {p1, p2, p3}
    NULL = NULL
    MaxFastRestarts = 2
    MaxSession = 2
    MaxLogin = 1
    MaxCrash = 2
INVARIANTS TypeOK ShutdownReaps SingleInstance
PROPERTY KeptAlive
CHECK_DEADLOCK FALSE
