SPECIFICATION ReadersSpec
CONSTANTS
    p1 = p1
    p2 = p2
    t1 = t1
    Path = {p1, p2}
    Text = {t1}
    Cleared = Cleared
    NoPath = NoPath
    NoDoc = NoDoc
    Stream = Stream
    NoStream = NoStream
    Elsewhere = Elsewhere
    Homes <- MCHomes
    MaxSequence = 4
    PruneLimit = 2
    Limit = 1
    MaxBundles = 2
    MaxEdits = 1
CHECK_DEADLOCK FALSE
INVARIANTS
    MirrorAtHead
    ReplicaFollows
PROPERTIES
    CatchesUp
