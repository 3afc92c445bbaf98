\* rm -f of a running container, alone.
SPECIFICATION Spec
CONSTANTS
    Cmds = {x1, x2}
    Kinds = {"start", "rm"}
    Detach = {TRUE}
    Existing = {c1}
    Ids = {c1}
    Names = {}
    NoName = NoName
    Pids = {k1}
    NoPid = NoPid
    NoId = NoId
    NoRecord = NoRecord
    NoServer = NoServer
    Sequential = TRUE
    PidReuse = FALSE
    SlowReuse = FALSE
    SyscallsFail = FALSE
    ServerMayDie = FALSE
SYMMETRY Symmetric
INVARIANT
    NothingWiped
\* Commands are one-shot processes: when all have ended nothing happens.
CHECK_DEADLOCK FALSE
