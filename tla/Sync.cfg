SPECIFICATION Spec
CONSTANTS
    Game = {g1}
    game = g1
    VersionId = {v1, v2, v3}
    Hash <- MCArchive
    NULL = NULL
    RetainFull = 1
    RetainDiff = 1
    d1 = d1
    d2 = d2
    t1 = t1
    t2 = t2
    Device = {d1, d2}
    Task = {t1, t2}
    TaskDevice <- OneEach
    File = {f1, f2}
    Val = {x1}
    Absent = Absent
    Kept = Kept
    FullEvery = 1
    Orphaned = {}
    MaxSaves = 2
    MaxFail = 0
    MaxCrash = 0
    AutoPull = FALSE
    Quiescent = TRUE
SYMMETRY Symmetry
INVARIANTS TypeOK ChainSound RestoreExact
CHECK_DEADLOCK FALSE
