\* Three commands, each given when the ones before it settled.
SPECIFICATION Spec
CONSTANTS
    Cmds = {x1, x2, x3}
    Kinds = {"run", "start", "stop", "rm", "attach", "exec"}
    Detach = {TRUE}
    Existing = {c1}
    Ids = {c1, c2, c3}
    Names = {n1}
    NoName = NoName
    Pids = {k1, k2, k3}
    NoPid = NoPid
    NoId = NoId
    NoRecord = NoRecord
    NoServer = NoServer
    Sequential = TRUE
    PidReuse = TRUE
    SlowReuse = TRUE
    SyscallsFail = FALSE
    ServerMayDie = FALSE
SYMMETRY Symmetric
INVARIANTS
    SingleInstance
    StatusTrue
    LiveIsMounted
    NamesUnique
    SignalsArrive
\* Commands are one-shot processes: when all have ended nothing happens.
CHECK_DEADLOCK FALSE
