\* The violation needs no input and no output.
SPECIFICATION MCSpec
CONSTANTS
    FD_SETSIZE = 7
    masterfd = 3
    listenfd = 4
    MaxClients = 1
    MaxOutput = 1
    InCap = 1
    OutCap = 1
    MaxTyped = 1
    MaxProduced = 1
INVARIANT OnlyParentRelays
CHECK_DEADLOCK FALSE
