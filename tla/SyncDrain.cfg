SPECIFICATION FairSpec
CONSTANTS
    Game = {g1}
    game = g1
    VersionId = {1, 2, 3, 4}
    Hash <- MCArchive
    NULL = NULL
    RetainFull = 1
    RetainDiff = 1
    d1 = d1
    d2 = d2
    t1 = t1
    t2 = t2
    Device = {d1}
    Task = {t1}
    TaskDevice <- OneTask
    File = {f1}
    Val = {x1}
    Absent = Absent
    Kept = Kept
    FullEvery = 1
    Orphaned <- OneOrphan
    MaxSaves = 2
    MaxFail = 2
    MaxCrash = 0
    AutoPull = FALSE
    Quiescent = TRUE
ACTION_CONSTRAINT IdsInOrder
PROPERTY OutboxDrains
CHECK_DEADLOCK FALSE
