------------------------------ MODULE PtyRelay -----------------------------
(***************************************************************************)
(* The select loop of pty_run_container (pty/pty_exec_util.cpp): one       *)
(* server relays between the terminal of a container (masterfd) and any    *)
(* number of clients, kept in a pool of descriptors.                       *)
(*                                                                         *)
(* The data are abstracted to numbers: the k-th piece of output read from  *)
(* the terminal is k, and seen[fd] is the last piece written to client fd. *)
(* A client is known by its descriptor, which the kernel gives again to    *)
(* another client once it is closed.  A reader that does not read fills    *)
(* its buffer, and the next write to it blocks the loop: the server has    *)
(* one thread for everybody.                                               *)
(***************************************************************************)
EXTENDS Integers, FiniteSets

CONSTANTS
    FD_SETSIZE,  \* descriptors an fd_set holds, and slots of the pool
    masterfd,    \* the terminal, opened by ptyClone
    listenfd,    \* the socket, opened after it
    MaxClients,  \* bound: clients that connect
    MaxOutput    \* bound: pieces of output the container writes

\* 0, 1 and 2 are the standard streams.  The number of descriptors a process
\* may open (RLIMIT_NOFILE, 1024 by default) is not above FD_SETSIZE.
ASSUME RelayAssumption ==
    /\ FD_SETSIZE \in Nat /\ MaxClients \in Nat /\ MaxOutput \in Nat
    /\ masterfd \in 3..(FD_SETSIZE - 1)
    /\ listenfd \in (masterfd + 1)..(FD_SETSIZE - 1)

Fds   == 0..(FD_SETSIZE - 1)
Slots == 0..(FD_SETSIZE - 1)
Empty == -1

VARIABLES
    clientfd, maxi, maxfd, read_set, ready_set, nready,   \* the pool
    pc,       \* what the server does next
    i,        \* the slot a loop is at, 0 outside of the loops
    read,     \* pieces of output read from masterfd
    open,     \* descriptors of accepted clients
    seen,     \* seen[fd]: last piece of output written to fd
    backlog,  \* clients that have connected and wait for accept
    input,    \* clients whose input waits to be read
    eof,      \* clients that have closed their end
    full,     \* descriptors with no room for a write until their reader reads
    written,  \* pieces of output the container has written
    hungup    \* the container is gone

poolVars == <<clientfd, maxi, maxfd, read_set, ready_set, nready>>
kernelVars == <<backlog, input, eof, full, written, hungup>>
vars == <<poolVars, pc, i, read, open, seen, kernelVars>>

TypeOK ==
    /\ clientfd \in [Slots -> Fds \cup {Empty}]
    /\ maxi \in -1..(FD_SETSIZE - 1)
    /\ maxfd \in Fds
    /\ read_set \subseteq Fds
    /\ ready_set \subseteq Fds
    /\ nready \in 0..FD_SETSIZE
    /\ pc \in {"select", "accept", "clients", "master", "broadcast", "ended"}
    /\ i \in 0..FD_SETSIZE
    /\ read \in Nat
    /\ open \subseteq Fds
    /\ seen \in [Fds -> Nat]
    /\ backlog \in Nat
    /\ input \subseteq Fds
    /\ eof \subseteq Fds
    /\ full \subseteq Fds
    /\ written \in Nat
    /\ hungup \in BOOLEAN

Pooled == {clientfd[s] : s \in Slots} \ {Empty}

\* init_pool
Init ==
    /\ clientfd = [s \in Slots |-> Empty]
    /\ maxi = -1
    /\ maxfd = listenfd
    /\ read_set = {listenfd, masterfd}
    /\ ready_set = {}
    /\ nready = 0
    /\ pc = "select"
    /\ i = 0
    /\ read = 0
    /\ open = {}
    /\ seen = [fd \in Fds |-> 0]
    /\ backlog = 0
    /\ input = {}
    /\ eof = {}
    /\ full = {}
    /\ written = 0
    /\ hungup = FALSE

-----------------------------------------------------------------------------
(* The kernel and the clients *)

Readable(fd) ==
    \/ fd = listenfd /\ backlog > 0
    \/ fd = masterfd /\ (written > read \/ hungup)
    \/ fd \in input \cup eof

ClientConnects ==
    /\ Cardinality(open) + backlog < MaxClients
    /\ backlog' = backlog + 1
    /\ UNCHANGED <<poolVars, pc, i, read, open, seen, input, eof, full, written, hungup>>

ClientWrites ==
    /\ \E fd \in open \ (input \cup eof) : input' = input \cup {fd}
    /\ UNCHANGED <<poolVars, pc, i, read, open, seen, backlog, eof, full, written, hungup>>

ClientCloses ==
    /\ \E fd \in open \ eof : eof' = eof \cup {fd}
    /\ UNCHANGED <<poolVars, pc, i, read, open, seen, backlog, input, full, written, hungup>>

ContainerWrites ==
    /\ ~hungup /\ written < MaxOutput
    /\ written' = written + 1
    /\ UNCHANGED <<poolVars, pc, i, read, open, seen, backlog, input, eof, full, hungup>>

ContainerEnds ==
    /\ ~hungup
    /\ hungup' = TRUE
    /\ UNCHANGED <<poolVars, pc, i, read, open, seen, backlog, input, eof, full, written>>

\* A client reads what was written to it, or the container its terminal.
ReaderReads ==
    /\ \E fd \in full : full' = full \ {fd}
    /\ UNCHANGED <<poolVars, pc, i, read, open, seen, backlog, input, eof, written, hungup>>

-----------------------------------------------------------------------------
(* The server *)

\* select(maxfd + 1, ...) blocks until one of the descriptors is readable.
Select ==
    /\ pc = "select"
    /\ ready_set' = {fd \in read_set : fd < maxfd + 1 /\ Readable(fd)}
    /\ ready_set' # {}
    /\ nready' = Cardinality(ready_set')
    /\ pc' = "accept"
    /\ UNCHANGED <<clientfd, maxi, maxfd, read_set, i, read, open, seen, kernelVars>>

\* What accept may return: not what the server holds from the start.
ClientFds == Fds \ {0, 1, 2, masterfd, listenfd}

FreeFds == ClientFds \ open

\* accept returns the lowest descriptor that is free.
Accepted(fd) == fd \in FreeFds /\ \A other \in FreeFds : fd <= other

FreeSlot(s) == clientfd[s] = Empty /\ \A t \in Slots : t < s => clientfd[t] # Empty

GotoClients == pc' = "clients" /\ i' = 0

\* Mutant: the highwater index is not raised.
AddClient_NoMaxi(s, fd) ==
    /\ clientfd' = [clientfd EXCEPT ![s] = fd]
    /\ read_set' = read_set \cup {fd}
    /\ maxfd' = IF fd > maxfd THEN fd ELSE maxfd
    /\ UNCHANGED maxi

\* Mutant: the highest descriptor is not raised.
AddClient_NoMaxfd(s, fd) ==
    /\ clientfd' = [clientfd EXCEPT ![s] = fd]
    /\ read_set' = read_set \cup {fd}
    /\ maxi' = IF s > maxi THEN s ELSE maxi
    /\ UNCHANGED maxfd

\* add_client takes the first free slot.
AddClient(s, fd) ==
    /\ clientfd' = [clientfd EXCEPT ![s] = fd]
    /\ read_set' = read_set \cup {fd}
    /\ maxfd' = IF fd > maxfd THEN fd ELSE maxfd
    /\ maxi' = IF s > maxi THEN s ELSE maxi

\* accept, add_client, and the header, for which a new connection has room: a
\* new client starts from the piece that was read last.  The pool has a free
\* slot for every free descriptor, so add_client's "Too many clients" is out of
\* reach.
Accept ==
    /\ pc = "accept" /\ listenfd \in ready_set
    /\ \E fd \in FreeFds, s \in Slots :
        /\ Accepted(fd)
        /\ FreeSlot(s)
        /\ AddClient(s, fd)
        /\ open' = open \cup {fd}
        /\ seen' = [seen EXCEPT ![fd] = read]
    /\ nready' = nready - 1
    /\ backlog' = backlog - 1
    /\ GotoClients
    /\ UNCHANGED <<ready_set, read, input, eof, full, written, hungup>>

\* accept fails when no descriptor is left; nobody is taken off nready.
AcceptFails ==
    /\ pc = "accept" /\ listenfd \in ready_set
    /\ FreeFds = {}
    /\ GotoClients
    /\ UNCHANGED <<poolVars, read, open, seen, kernelVars>>

NoAccept ==
    /\ pc = "accept" /\ listenfd \notin ready_set
    /\ GotoClients
    /\ UNCHANGED <<poolVars, read, open, seen, kernelVars>>

\* Mutant: the descriptor is closed but its slot is not freed.
Drop_KeepsSlot(s) ==
    /\ read_set' = read_set \ {clientfd[s]}
    /\ open' = open \ {clientfd[s]}
    /\ input' = input \ {clientfd[s]}
    /\ eof' = eof \ {clientfd[s]}
    /\ full' = full \ {clientfd[s]}
    /\ UNCHANGED clientfd

\* close(connfd), FD_CLR, clientfd[i] = -1.  What the client wrote and
\* nobody read is gone with the connection.
Drop(s) ==
    /\ clientfd' = [clientfd EXCEPT ![s] = Empty]
    /\ read_set' = read_set \ {clientfd[s]}
    /\ open' = open \ {clientfd[s]}
    /\ input' = input \ {clientfd[s]}
    /\ eof' = eof \ {clientfd[s]}
    /\ full' = full \ {clientfd[s]}

IsReady(s) == clientfd[s] > 0 /\ clientfd[s] \in ready_set

\* rio_writen returns once everything is written; that may leave no room.
WriteTo(fd) == fd \notin full /\ full' \in {full, full \cup {fd}}

InClients == pc = "clients" /\ i <= maxi /\ nready > 0

\* One round of the for loop over the clients: input goes to the terminal as
\* soon as there is room, or is refused or lost when the container is gone; a
\* client that closed its end is dropped.
ClientReady ==
    /\ InClients /\ IsReady(i)
    /\ nready' = nready - 1
    /\ i' = i + 1
    /\ \/ /\ clientfd[i] \in input
          /\ input' = input \ {clientfd[i]}
          /\ \/ WriteTo(masterfd) /\ UNCHANGED pc
             \/ hungup /\ pc' \in {pc, "ended"} /\ UNCHANGED full
          /\ UNCHANGED <<clientfd, read_set, open, eof>>
       \/ /\ clientfd[i] \notin input
          /\ Drop(i)
          /\ UNCHANGED pc
    /\ UNCHANGED <<maxi, maxfd, ready_set, read, seen, backlog, written, hungup>>

\* Mutant: every slot is counted as a ready one.
ClientIdle_Counts ==
    /\ InClients /\ ~IsReady(i)
    /\ i' = i + 1
    /\ nready' = nready - 1
    /\ UNCHANGED <<clientfd, maxi, maxfd, read_set, ready_set, pc, read, open, seen, kernelVars>>

ClientIdle ==
    /\ InClients /\ ~IsReady(i)
    /\ i' = i + 1
    /\ UNCHANGED <<poolVars, pc, read, open, seen, kernelVars>>

ClientsDone ==
    /\ pc = "clients" /\ (i > maxi \/ nready <= 0)
    /\ pc' = "master" /\ i' = 0
    /\ UNCHANGED <<poolVars, read, open, seen, kernelVars>>

\* Mutant: the end of the terminal is taken for an interrupted read.
MasterRead_Retries ==
    /\ pc = "master" /\ masterfd \in ready_set
    /\ nready' = nready - 1
    /\ IF written > read
       THEN read' = read + 1 /\ pc' = "broadcast" /\ i' = 0
       ELSE pc' = "select" /\ UNCHANGED <<read, i>>
    /\ UNCHANGED <<clientfd, maxi, maxfd, read_set, ready_set, open, seen, kernelVars>>

\* Output that was written is read even if the container is gone.
MasterRead ==
    /\ pc = "master" /\ masterfd \in ready_set
    /\ nready' = nready - 1
    /\ \/ /\ written > read
          /\ read' = read + 1
          /\ pc' = "broadcast"
          /\ i' = 0
       \/ /\ written = read
          /\ pc' = "ended"
          /\ UNCHANGED <<read, i>>
    /\ UNCHANGED <<clientfd, maxi, maxfd, read_set, ready_set, open, seen, kernelVars>>

NoMaster ==
    /\ pc = "master" /\ masterfd \notin ready_set
    /\ pc' = "select"
    /\ UNCHANGED <<poolVars, i, read, open, seen, kernelVars>>

\* One round of the for loop that writes the piece to the clients.  A client
\* that closed its end fails the write, also one that was waiting for room.
Broadcast ==
    /\ pc = "broadcast" /\ i <= maxi
    /\ i' = i + 1
    /\ \/ /\ clientfd[i] > 0 /\ clientfd[i] \notin eof
          /\ WriteTo(clientfd[i])
          /\ seen' = [seen EXCEPT ![clientfd[i]] = read]
          /\ UNCHANGED <<clientfd, read_set, open, input, eof>>
       \/ /\ clientfd[i] > 0 /\ clientfd[i] \in eof
          /\ Drop(i)
          /\ UNCHANGED seen
       \/ /\ clientfd[i] <= 0
          /\ UNCHANGED <<clientfd, read_set, open, input, eof, full, seen>>
    /\ UNCHANGED <<maxi, maxfd, ready_set, nready, pc, read, backlog, written, hungup>>

BroadcastDone ==
    /\ pc = "broadcast" /\ i > maxi
    /\ pc' = "select" /\ i' = 0
    /\ UNCHANGED <<poolVars, read, open, seen, kernelVars>>

Server ==
    \/ Select \/ Accept \/ AcceptFails \/ NoAccept
    \/ ClientReady \/ ClientIdle \/ ClientsDone
    \/ MasterRead \/ NoMaster \/ Broadcast \/ BroadcastDone

Kernel == ClientConnects \/ ClientWrites \/ ClientCloses \/ ContainerWrites \/ ContainerEnds
          \/ ReaderReads

Next == Server \/ Kernel

Spec == Init /\ [][Next]_vars

\* The server runs whenever select has something to report and a write has
\* room.
FairSpec == Spec /\ WF_vars(Server)

-----------------------------------------------------------------------------
(* Properties *)

\* Whatever clients come and go, the pool and the descriptors agree: each
\* open connection is in one slot, at or below the highwater index, is
\* watched by select, and is below the bound given to select; nothing else
\* is watched and no connection is lost.
PoolConsistent ==
    /\ open = Pooled
    /\ read_set = Pooled \cup {listenfd, masterfd}
    /\ \A s, t \in Slots : clientfd[s] # Empty /\ clientfd[s] = clientfd[t] => s = t
    /\ \A s \in Slots : clientfd[s] # Empty => s <= maxi
    /\ \A fd \in read_set : fd <= maxfd

\* The count of ready descriptors never runs out before the last ready
\* client was served, so no client is passed over in a round.
NoneSkipped ==
    pc = "clients" =>
        nready >= Cardinality({s \in Slots : s >= i /\ IsReady(s)})
                  + (IF masterfd \in ready_set THEN 1 ELSE 0)

\* Between rounds every connected client has been sent every piece of output
\* read since it connected.
OutputDelivered ==
    pc \in {"select", "accept"} => \A fd \in open : seen[fd] = read

\* A write waits for a reader: input for a container that does not read its
\* terminal, or output for a client that does not read its socket.
WriteBlocks ==
    \/ InClients /\ IsReady(i) /\ clientfd[i] \in input /\ masterfd \in full /\ ~hungup
    \/ pc = "broadcast" /\ i <= maxi /\ clientfd[i] \in full \ eof

\* Unless one write blocks for good, which stops the loop for everybody, input
\* of every client is passed on until the client or the container ends.
InputServed ==
    []<>~WriteBlocks => \A fd \in ClientFds : fd \in input ~> (fd \notin input \/ pc = "ended")

\* With the same exception a container that ends releases its server.  A write
\* to the container does not count: its end releases that one.
RelayEnds == []<>~WriteBlocks => (hungup ~> pc = "ended")
=============================================================================
