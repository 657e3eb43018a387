SPECIFICATION FairSpec
CONSTANTS
    Proc = {p1, p2}
    doc = doc
    log = log
    a = a
    b = b
    File <- MCFile
    Row <- MCRow
    Requests <- MCRequests
    Torn = Torn
    NoProc = NoProc
    FileLimit = 2
    Faults = {"kill", "io"}
    MaxFaults = 2
INVARIANTS
    TypeOK
    NoLeftoverCopies
    RecoveryInv
PROPERTIES
    RefinesAtomicStore
    PlanLands
