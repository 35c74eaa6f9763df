SPECIFICATION Spec
CONSTANTS
    N <- MCN
    Requires <- MCRequires
    NeedsState <- MCNeedsState
    Parent <- MCParent
    Optional <- OptionalRecord
    Retained <- Network
    SkipIfOk <- Kept
    Gates <- Gate
    ArchiveDeclared = TRUE
    Misreads = FALSE
    FailFast = TRUE
    Verify = {}
    Repairable = {}
    Observed = {}
    Provider <- Nothing
    Policy <- Nothing
    Keys = {}
    Values = {}
    Unset = "unset"
    Default <- Nothing
    Inputs <- MCInputs
    Contents = {"x"}
    BaselineKept = {}
    MaxVersion = 0
INVARIANTS TypeOK
PROPERTIES OkMeansRebuilt ImplementsDestroy
