\* Two commands at any time; containers may stay silent.  No rm: it takes the
\* directory from under a start that has yet to bind its socket there.
SPECIFICATION FairSpec
CONSTANTS
    Cmds = {x1, x2}
    Kinds = {"run", "start", "stop", "attach"}
    Detach = {TRUE}
    Existing = {c1}
    Ids = {c1, c2}
    Names = {}
    NoName = NoName
    Pids = {k1, k2}
    NoPid = NoPid
    NoId = NoId
    NoRecord = NoRecord
    NoServer = NoServer
    Sequential = FALSE
    PidReuse = FALSE
    SlowReuse = FALSE
    SyscallsFail = FALSE
    ServerMayDie = FALSE
INVARIANT
    NoStaleClaim
PROPERTIES
    ServersFinish
    SpeakingReturns
\* Commands are one-shot processes: when all have ended nothing happens.
CHECK_DEADLOCK FALSE
