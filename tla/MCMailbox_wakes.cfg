SPECIFICATION FairSpec
CONSTANTS
    s1 = s1
    s2 = s2
    t1 = t1
    t2 = t2
    t3 = t3
    Session = {s1, s2}
    Nobody = Nobody
    Token = {t1, t2, t3}
    NoToken = NoToken
    Letters <- MCLetters
    Lease = 1
    Hold = 1
    Delays = {0, 1}
    Successions <- MCSuccessions
    Attempts = 1
    MaxOccurrence = 1
    MaxOpen = 1
    Lossy = {"reserve"}
CHECK_DEADLOCK FALSE
PROPERTIES
    WakeIsHanded
