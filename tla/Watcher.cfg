SPECIFICATION FairSpec
CONSTANTS
    Game = {g1}
    NULL = NULL
    MaxTime = 2
    MaxBack = 1
    MaxChan = 3
    MaxUpset = 2
INVARIANTS TypeOK PlayingRecorded DowntimeNeverCredited
PROPERTIES TotalNeverShrinks StopSeen
CHECK_DEADLOCK FALSE
