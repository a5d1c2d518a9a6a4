SPECIFICATION Spec
CONSTANTS
    Game = {g1}
    game = g1
    VersionId = {v1, v2, v3}
    Hash <- MCArchive
    NULL = NULL
    RetainFull = 1
    RetainDiff = 1
    d1 = d1
    d2 = d2
    t1 = t1
    t2 = t2
    Device = {d1}
    Task = {t1}
    TaskDevice <- OneTask
    File = {f1}
    Val = {x1}
    Absent = Absent
    Kept = Kept
    FullEvery = 1
    Orphaned = {}
    MaxSaves = 2
    MaxFail = 2
    MaxCrash = 1
    AutoPull = FALSE
    Quiescent = FALSE
ACTION_CONSTRAINT SecondFailureFirst
SYMMETRY DataSymmetry
INVARIANT BaseDurable
CHECK_DEADLOCK FALSE
