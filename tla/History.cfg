SPECIFICATION Spec
CONSTANTS
    Game = {g1}
    VersionId = {v1, v2, v3}
    Hash = {h1, h2, h3}
    Slot = {s1, s2}
    NULL = NULL
    RetainFull = 1
    RetainDiff = 0
    MaxFaults = 1
SYMMETRY Symmetry
INVARIANTS TypeOK HeadLive LineageDescends SeqUnique RefcountExact
PROPERTIES GcProtects ImplementsRegister
CHECK_DEADLOCK FALSE
