CONSTANTS
    s1 = s1
    s2 = s2
    d1 = d1
    d2 = d2
    Here = Here
    Slots = {s1}
    Dispatches = {d1, d2}
    KeepRemoteJob = FALSE
    MaxVersion = 2
SPECIFICATION Spec
INVARIANTS
    StateSurvives
    NoPathOfEndedJob
PROPERTY EndMeansSynced
SYMMETRY Symmetry
CHECK_DEADLOCK FALSE
