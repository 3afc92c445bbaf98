\* run -d of a container that says nothing.
SPECIFICATION FairSpec
CONSTANTS
    Cmds = {x1}
    Kinds = {"run"}
    Detach = {TRUE}
    Existing = {}
    Ids = {c1}
    Names = {}
    NoName = NoName
    Pids = {k1}
    NoPid = NoPid
    NoId = NoId
    NoRecord = NoRecord
    NoServer = NoServer
    Sequential = FALSE
    PidReuse = FALSE
    SlowReuse = FALSE
    SyscallsFail = FALSE
    ServerMayDie = FALSE
PROPERTY
    CommandsReturn
\* Commands are one-shot processes: when all have ended nothing happens.
CHECK_DEADLOCK FALSE
