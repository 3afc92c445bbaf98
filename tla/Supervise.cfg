\* A container lost in a reboot, two restarts, a command of a user.
SPECIFICATION SupSpec
CONSTANTS
    Cmds = {b1, t1, t2, x1}
    Before = {b1}
    Threads = {t1, t2}
    Kinds = {"stop", "rm"}
    Detach = {TRUE}
    Existing = {}
    Ids = {c1}
    Names = {}
    NoName = NoName
    Pids = {k1, k2, k3}
    NoPid = NoPid
    NoId = NoId
    NoRecord = NoRecord
    NoServer = NoServer
    Sequential = FALSE
    PidReuse = FALSE
    SlowReuse = FALSE
    SyscallsFail = FALSE
    ServerMayDie = TRUE
    Prompt = TRUE
    TornReads = FALSE
INVARIANTS
    SupTypeOK
    RevivedOnce
PROPERTY
    DeadRevived
CHECK_DEADLOCK FALSE
