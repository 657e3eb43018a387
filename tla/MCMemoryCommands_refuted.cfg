SPECIFICATION UpkeepSpec
CONSTANTS
    a1 = a1
    a2 = a2
    t1 = t1
    t2 = t2
    p1 = p1
    p2 = p2
    Agent = {a1, a2}
    Path = {p1, p2}
    Text = {t1, t2}
    Cleared = Cleared
    NoPath = NoPath
    NoDoc = NoDoc
    Stream = Stream
    NoStream = NoStream
    Homes <- MCHomes
    MaxSequence = 5
    PruneLimit = 0
    Hollow = {t2}
    MaxChanges = 2
    MaxApplies = 1
    MaxOthers = 0
CHECK_DEADLOCK FALSE
SYMMETRY Symmetric
PROPERTIES
    OverwritesFenced
    RevertsNewest
