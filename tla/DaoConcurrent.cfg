\* Calls overlap freely and processes are killed.
SPECIFICATION Spec
CONSTANTS
    Procs = {p1, p2}
    Ids = {c1, c2}
    Names = {}
    NoName = NoName
    Pids = {k1}
    NoPid = NoPid
    NoId = NoId
    MaxCalls = 2
    Serial = FALSE
    MayCrash = TRUE
    NoFile = NoFile
    Truncated = Truncated
    Removed = Removed
SYMMETRY Symmetric
INVARIANTS
    TypeOK
    FileWhole
\* Processes stop after MaxCalls calls.
CHECK_DEADLOCK FALSE
