\* Calls do not overlap and nobody is killed.
SPECIFICATION Spec
CONSTANTS
    Procs = {p1, p2}
    Ids = {c1, c2}
    Names = {n1}
    NoName = NoName
    Pids = {k1}
    NoPid = NoPid
    NoId = NoId
    MaxCalls = 3
    Serial = TRUE
    MayCrash = FALSE
    NoFile = NoFile
    Truncated = Truncated
    Removed = Removed
INVARIANT
    RegistryComplete
PROPERTY
    StoreSpec
\* Processes stop after MaxCalls calls.
CHECK_DEADLOCK FALSE
