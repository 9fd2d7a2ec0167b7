\* One of three outputs or the uploader; safety and liveness.  The outputs and
\* the uploader stop when their input is closed.
SPECIFICATION FairSpec
CONSTANTS
    Keys = {"k1", "k2"}
    MaxRecs = 3
    MaxRotations = 2
    MaxWriteFails = 1
    MaxClosers = 1
    RotateInterval = TRUE
    RotateSize = TRUE
    DiscardEmptyFiles = TRUE
    CreateFails = TRUE
    Files = {"f1", "f2"}
    NoFile = "none"
    Retries = 2
    MaxConcurrency = 2
    ExitOnErrors = {TRUE, FALSE}
    ErrChCap = 1
    MaxFails = 3
    Regions = {"r1", "r2"}
    Key <- MCKey
    BatchSize = 2
    MaxTries = 2
    NoWriter = "nobody"
    MaxRows = 2
    MaxRuns = 2
CHECK_DEADLOCK FALSE
INVARIANTS
    TypeOK
    NothingLost
    FilesAccountedFor
    
    AllOrNothing
PROPERTIES
    NeverUndone
    RunReturns
