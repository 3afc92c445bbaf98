------------------------------ MODULE MCCommon -----------------------------
(***************************************************************************)
(* The smaller parts for TLC: the mount table of a container, directories  *)
(* of the repository, strings, the configuration file, robust I/O, opening *)
(* sockets, semaphores and the waiting of a start for its server.  They    *)
(* share no state, so a behaviour is one of either: part says of which,    *)
(* and the others stay as they began.                                      *)
(***************************************************************************)
EXTENDS ContainerFs, RepoDirs, PropertiesConfig, SocketIo, OpenFd, SemUtil, StartHandshake

VARIABLE part

\* Volumes beside, on, inside and around directories of the table and each
\* other.
MCDests ==
    {<<"app">>, <<"app", "data">>, <<"bin">>, <<"var", "lib">>, <<"dev">>, <<"dev", "shm">>}

MCMayLack == {<<"bin">>}

\* Two directories with a common parent, one without.
MCfslist == << <<"bin">>, <<"dev", "pts">>, <<"dev", "shm">> >>

MCoverlays == <<"bin">>

Parts == {"fs", "dirs", "strings", "config", "io", "open", "sem", "handshake"}

\* What the other parts look like while they wait.
Waiting(p) ==
    /\ p # "fs" => volumes = <<>> /\ present = Targets
    /\ p # "dirs" => dirs = {}
    /\ p # "io" => header = <<>> /\ header_len = 0 /\ op = "readn"
    /\ p # "open" => call = "open_clientfd"
    /\ p # "handshake" => sets = 0

MCInit ==
    /\ part \in Parts
    /\ FsInit /\ DirsInit /\ StringsInit /\ ConfigInit /\ IoInit /\ OpenInit
    /\ SemInit /\ HandshakeInit
    /\ Waiting(part)

all == <<fsVars, dirsVars, stringVars, configVars, ioVars, openVars, semVars, handshakeVars>>

MCNext ==
    \/ part = "fs" /\ FsNext
       /\ UNCHANGED <<part, dirsVars, stringVars, configVars, ioVars, openVars, semVars, handshakeVars>>
    \/ part = "dirs" /\ DirsNext
       /\ UNCHANGED <<part, fsVars, stringVars, configVars, ioVars, openVars, semVars, handshakeVars>>
    \/ part = "strings" /\ StringsNext
       /\ UNCHANGED <<part, fsVars, dirsVars, configVars, ioVars, openVars, semVars, handshakeVars>>
    \/ part = "config" /\ ConfigNext
       /\ UNCHANGED <<part, fsVars, dirsVars, stringVars, ioVars, openVars, semVars, handshakeVars>>
    \/ part = "io" /\ IoNext
       /\ UNCHANGED <<part, fsVars, dirsVars, stringVars, configVars, openVars, semVars, handshakeVars>>
    \/ part = "open" /\ OpenNext
       /\ UNCHANGED <<part, fsVars, dirsVars, stringVars, configVars, ioVars, semVars, handshakeVars>>
    \/ part = "sem" /\ SemNext
       /\ UNCHANGED <<part, fsVars, dirsVars, stringVars, configVars, ioVars, openVars, handshakeVars>>
    \/ part = "handshake" /\ HandshakeNext
       /\ UNCHANGED <<part, fsVars, dirsVars, stringVars, configVars, ioVars, openVars, semVars>>

\* The state of every part is well typed, also of those that wait.
CommonTypeOK == FsTypeOK /\ DirsTypeOK /\ OpenTypeOK /\ SemTypeOK /\ HandshakeTypeOK

MCSpec == MCInit /\ [][MCNext]_<<part, all>>
=============================================================================
