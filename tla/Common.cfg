\* Mounts: up to two volumes, two starts, mounts that fail.  Directories: two
\* runs at the same time, with and without a repository.  Strings of up to
\* MaxLen characters.  Files of up to two lines of up to four characters.
\* Streams of up to three bytes, read two at a time.  Three processes share a
\* semaphore; three threads of one process are in start.
SPECIFICATION MCSpec
CONSTANTS
    Dests <- MCDests
    MayLack <- MCMayLack
    MaxVolumes = 2
    MaxStarts = 2
    Runs = {"r1", "r2"}
    fslist <- MCfslist
    overlays <- MCoverlays
    Chars = {" ", "/", "a"}
    MaxLen = 3
    MaxArgs = 2
    SplitLen = 1
    PathSize = 2
    ConfigChars = {" ", "=", "#", "a"}
    MaxLine = 4
    MaxLines = 2
    LineSize = 4
    Bytes = {"a", "nl"}
    Newline = "nl"
    MaxBytes = 3
    RioBufSize = 2
    Lengths = {1, 2, 3}
    SSIZE_MAX = 31
    MaxAddrs = 2
    Procs = {p1, p2, p3}
    MAX_TRIES = 2
    MaxCrashes = 1
    Starts = {t1, t2, t3}
    SEMMNI = 3
INVARIANTS
    CommonTypeOK
    NothingLeft
    FreshMounts
    DirsComplete
    CommandKept
    BuffersFit
    PathNames
    ConfigReads
    StreamWhole
    ReadWhole
    NothingLeaks
    OneToken
    WaitsAnswered
\* Every part comes to its end.
CHECK_DEADLOCK FALSE
