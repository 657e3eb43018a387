SPECIFICATION Spec
CONSTANTS
    s1 = s1
    s2 = s2
    s3 = s3
    Session = {s1, s2, s3}
    NoSession = NoSession
    Idle = Idle
    Cursor = {}
    Fires <- MCAstrayFires
    MaxEvents <- MCAstrayEvents
    MaxTools = 2
    MaxTroubles = 0
CHECK_DEADLOCK FALSE
INVARIANTS
    NoteWithItsConversation
