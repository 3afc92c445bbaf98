\* The server: descriptors 5 and 6 are left for clients, so that a third one
\* meets a process that has no descriptor to give it.  The programs: one piece
\* of input fills the buffer, so that a write blocks.
SPECIFICATION MCSpec
CONSTANTS
    FD_SETSIZE = 7
    masterfd = 3
    listenfd = 4
    MaxClients = 3
    MaxOutput = 2
    InCap = 1
    OutCap = 2
    MaxTyped = 3
    MaxProduced = 3
INVARIANTS
    PtyTypeOK
    PoolConsistent
    NoneSkipped
    OutputDelivered
    TerminalRestored
PROPERTIES
    InputServed
    RelayEnds
    ExecEnds
    OutputRelayed
\* The server ends with its container and a program with its user.
CHECK_DEADLOCK FALSE
