SPECIFICATION DestroySpec
CONSTANTS
    N <- MCN
    Requires <- MCRequires
    Parent <- MCParent
    Gates <- Gate
    Optional <- OptionalRecord
    Retained = {}
    ArchiveDeclared = TRUE
    FailFast = TRUE
    Misreads = FALSE
INVARIANTS MarkedGone PreservedBeforeLoss
PROPERTIES OkLeavesOnlyExcused RecordIsTrue
