SPECIFICATION Spec
CONSTANTS
    p1 = p1
    p2 = p2
    t1 = t1
    t2 = t2
    Path = {p1, p2}
    Text = {t1, t2}
    Cleared = Cleared
    NoPath = NoPath
    NoDoc = NoDoc
    Stream = Stream
    NoStream = NoStream
    Homes <- MCHomes
    MaxSequence = 5
    PruneLimit = 2
CHECK_DEADLOCK FALSE
INVARIANTS
    TypeOK
    VersionsOnce
    FeedIsHistory
PROPERTIES
    RecordsKept
    ErasureWhole
    KeepsClock
