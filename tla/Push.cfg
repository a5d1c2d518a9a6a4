SPECIFICATION FairSpec
CONSTANTS
    d1 = d1
    d2 = d2
    s1 = s1
    s2 = s2
    s3 = s3
    Device = {d1, d2}
    Socket = {s1, s2}
    SocketDevice <- BothForOne
    Version = {v1, v2}
    NULL = NULL
INVARIANTS TypeOK RegisteredMissesNothing
PROPERTY RevokedLeaves
CHECK_DEADLOCK FALSE
