SPECIFICATION Spec
CONSTANTS
    Device = {d1, d2}
    Data = {x0, x1}
    Default = x0
    NULL = NULL
    MaxTag = 4
    MaxFail = 1
SYMMETRY Symmetry
INVARIANT TypeOK
PROPERTY NoBlindOverwrite
CHECK_DEADLOCK FALSE
