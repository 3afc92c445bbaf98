\* Calls overlap freely; nobody is killed.
SPECIFICATION Spec
CONSTANTS
    Procs = {p1, p2}
    Ids = {c1, c2}
    Names = {}
    NoName = NoName
    Pids = {k1, k2}
    NoPid = NoPid
    NoId = NoId
    MaxCalls = 1
    Serial = FALSE
    MayCrash = FALSE
    NoFile = NoFile
    Truncated = Truncated
    Removed = Removed
SYMMETRY Symmetric
INVARIANT
    RegistryComplete
\* Processes stop after MaxCalls calls.
CHECK_DEADLOCK FALSE
