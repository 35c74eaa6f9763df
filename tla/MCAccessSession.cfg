SPECIFICATION FairSpec
CONSTANTS
    s1 = s1
    s2 = s2
    o1 = o1
    None = None
    Supervisors = {s1, s2}
    Operators = {o1}
    Duration = 1
    Extension = 1
    MaxTime = 3
    MaxGeneration = 2
INVARIANTS
    EndsHold
    ReleaseOnAuthorisedGeneration
PROPERTIES
    SupervisedSessionKept
    OverdueSessionSettles
CHECK_DEADLOCK FALSE
