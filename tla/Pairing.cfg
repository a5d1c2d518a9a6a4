SPECIFICATION Spec
CONSTANTS
    Daemon = {d1}
    Configured = {}
    Attempt = {a1, a2}
    Task = {}
    Owner = {o1, o2}
    Code = {c1, c2}
    Device = {x1, x2}
    WrongCode = {w}
    NULL = NULL
    MaxActiveCodes = 1
    MaxPairFails = 2
    CodeTTL = 1
    AccessTTL = 1
    SessionTTL = 1
    LockTime = 1
    MaxTime = 1
    MaxUpset = 2
SYMMETRY PairingSymmetry
INVARIANTS TypeOK OneDevicePerCode CodesBounded LockoutBound
CHECK_DEADLOCK FALSE
