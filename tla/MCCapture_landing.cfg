SPECIFICATION Spec
CONSTANTS
    s1 = s1
    s2 = s2
    s3 = s3
    Session = {s1, s2}
    NoSession = NoSession
    Idle = Idle
    Cursor = {s2}
    Fires <- MCFires
    MaxEvents <- MCEvents
    MaxTools = 3
    MaxTroubles = 1
CHECK_DEADLOCK FALSE
INVARIANTS
    SpansLand
    DocumentCurrent
PROPERTIES
    LinksKept
