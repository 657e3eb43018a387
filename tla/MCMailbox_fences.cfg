SPECIFICATION Spec
CONSTANTS
    s1 = s1
    s2 = s2
    t1 = t1
    t2 = t2
    t3 = t3
    Session = {s1, s2}
    Nobody = Nobody
    Token = {t1, t2, t3}
    NoToken = NoToken
    Letters <- MCLetters
    Lease = 2
    Hold = 1
    Delays = {0, 1}
    Successions <- MCSuccessions
    Attempts = 2
    MaxOccurrence = 2
    MaxOpen = 1
    Lossy = {"complete", "reserve"}
CHECK_DEADLOCK FALSE
INVARIANTS
    OneEach
PROPERTIES
    MovesFenced
