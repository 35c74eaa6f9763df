SPECIFICATION DeploySpec
CONSTANTS
    N <- MCN
    Requires <- MCRequires
    NeedsState <- MCNeedsState
    Optional <- Image
    SkipIfOk <- Kept
    Verify <- Service
    Repairable <- Image
    Observed <- Governed
    Provider <- MCProvider
    Policy <- MCPolicy
    Keys <- MCSize
    Values = {"small", "large"}
    Unset = "unset"
    Default <- MCDefault
    Inputs <- MCInputs
    Contents <- MCContents
    FailFast = TRUE
    BaselineKept <- Readable
    MaxVersion = 1
INVARIANTS AuthorityUnbroken RequirementsSettled ForecastHolds
 
