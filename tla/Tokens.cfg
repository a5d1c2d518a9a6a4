SPECIFICATION FairSpec
CONSTANTS
    Daemon = {d1}
    Configured = {d1}
    Attempt = {a1}
    Task = {t1}
    Owner = {o1}
    Code = {c1, c2}
    Device = {x1, x2}
    WrongCode = {}
    NULL = NULL
    MaxActiveCodes = 2
    MaxPairFails = 1
    CodeTTL = 1
    AccessTTL = 1
    SessionTTL = 1
    LockTime = 1
    MaxTime = 1
    MaxUpset = 1
PROPERTIES RevokedShutOut ServedAgain
CHECK_DEADLOCK FALSE
