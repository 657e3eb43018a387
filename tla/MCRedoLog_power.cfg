SPECIFICATION Spec
CONSTANTS
    Proc = {p1, p2}
    doc = doc
    log = log
    a = a
    b = b
    File <- MCFile
    Row <- MCRow
    Requests <- MCRequests
    Torn = Torn
    NoProc = NoProc
    FileLimit = 2
    Faults = {"power"}
    MaxFaults = 2
PROPERTIES
    PlansSurvive
    Synced
