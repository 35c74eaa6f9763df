SPECIFICATION Spec
CONSTANTS
    p1 = p1
    p2 = p2
    p3 = p3
    here = here
    there = there
    None = None
    Suspends = TRUE
    Procs = {p1, p2, p3}
    HostOf <- TwoHosts
SYMMETRY Interchangeable
INVARIANTS
    BreachNeedsStaleVerdict
    NoOrphanDirectory
PROPERTIES
    ImplementsLockService
CHECK_DEADLOCK FALSE
