SPECIFICATION Spec
CONSTANTS
    r1 = r1  r2 = r2  r3 = r3  x1 = x1  x2 = x2  w1 = w1  w2 = w2
    Runs <- MCRuns
    Res <- MCRes
    Spaces <- MCSpaces
    None = None
    Serial = TRUE
    BackendLock = FALSE
SYMMETRY Symmetry
CHECK_DEADLOCK FALSE
INVARIANTS TerminalMeansGone OkMeansComplete OneHome
PROPERTIES OutputsOutliveFailures
