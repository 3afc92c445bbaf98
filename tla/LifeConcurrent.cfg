\* Two commands at any time, everything may fail.
SPECIFICATION Spec
CONSTANTS
    Cmds = {x1, x2}
    Kinds = {"run", "start", "stop", "rm", "attach"}
    Detach = {TRUE, FALSE}
    Existing = {c1}
    Ids = {c1, c2}
    Names = {}
    NoName = NoName
    Pids = {k1, k2}
    NoPid = NoPid
    NoId = NoId
    NoRecord = NoRecord
    NoServer = NoServer
    Sequential = FALSE
    PidReuse = TRUE
    SlowReuse = FALSE
    SyscallsFail = TRUE
    ServerMayDie = TRUE
SYMMETRY Symmetric
INVARIANTS
    TypeOK
    RunIsRegistered
PROPERTY
    StoreSteps
\* Commands are one-shot processes: when all have ended nothing happens.
CHECK_DEADLOCK FALSE
