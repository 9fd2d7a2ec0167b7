\* An upload error noticed only after the last file of the walk is dropped.
SPECIFICATION Spec
CONSTANTS
    f1 = f1
    f2 = f2
    Files <- TwoFiles
    NoFile = NoFile
    Retries = 2
    MaxConcurrency = 1
    ExitOnErrors = {TRUE}
    ErrChCap = 1
    MaxFails = 3
INVARIANT ExitsAtFirstError
