----------------------------- MODULE PtyProofs -----------------------------
(***************************************************************************)
(* TLAPS proofs about the terminals: the server's relay (PtyRelay), for    *)
(* any size of the pool, any number of clients and any amount of output,   *)
(* and the programs on the user's side (PtyExec), for any capacity of the  *)
(* buffers and any amount of input and output.                             *)
(***************************************************************************)
EXTENDS MCPty, FiniteSetTheorems, TLAPS

-----------------------------------------------------------------------------
(* The relay: the pool of clients *)

\* The part of the type invariant that the pool rests on.
PoolType ==
    /\ clientfd \in [Slots -> Fds \cup {Empty}]
    /\ maxi \in -1..(FD_SETSIZE - 1)
    /\ maxfd \in Fds
    /\ read_set \subseteq Fds
    /\ open \subseteq Fds
    /\ i \in Nat

\* accept never returns a descriptor the server holds for something else.
OwnFds == Pooled \cap {0, 1, 2, masterfd, listenfd} = {}

PoolInv == PoolType /\ PoolConsistent /\ OwnFds

LEMMA PoolInit == Init => PoolInv
  BY RelayAssumption
     DEF Init, PoolInv, PoolType, PoolConsistent, OwnFds, Pooled, Fds, Slots, Empty

\* A new client in a free slot, with a descriptor nobody holds.
LEMMA AddClientKeeps ==
    ASSUME PoolInv, NEW s \in Slots, NEW fd \in FreeFds,
           FreeSlot(s), AddClient(s, fd), open' = open \cup {fd}, i' \in Nat
    PROVE  PoolInv'
<1> USE DEF PoolInv
<1>1. fd \in Fds /\ fd \notin open /\ fd \notin {0, 1, 2, masterfd, listenfd} /\ fd # Empty
  BY RelayAssumption DEF FreeFds, ClientFds, Fds, Empty
<1>2. /\ clientfd[s] = Empty
      /\ clientfd' = [clientfd EXCEPT ![s] = fd]
      /\ read_set' = read_set \cup {fd}
      /\ maxfd' = IF fd > maxfd THEN fd ELSE maxfd
      /\ maxi' = IF s > maxi THEN s ELSE maxi
  BY DEF FreeSlot, AddClient
<1>3. PoolType'
  BY <1>1, <1>2, RelayAssumption DEF PoolType, Fds, Slots
<1>4. Pooled' = Pooled \cup {fd}
  BY <1>1, <1>2 DEF Pooled, PoolType
<1>5. OwnFds'
  BY <1>1, <1>4 DEF OwnFds
<1>6. PoolConsistent'
  <2>1. open' = Pooled'
    BY <1>4 DEF PoolConsistent
  <2>2. read_set' = Pooled' \cup {listenfd, masterfd}
    BY <1>2, <1>4 DEF PoolConsistent
  <2>3. \A a, b \in Slots : clientfd'[a] # Empty /\ clientfd'[a] = clientfd'[b] => a = b
    <3>1. fd \notin Pooled
      BY <1>1 DEF PoolConsistent
    <3>2. \A a \in Slots : clientfd[a] # fd
      BY <3>1, <1>1 DEF Pooled
    <3> QED
      BY <1>2, <3>2 DEF PoolConsistent, PoolType
  <2>4. \A a \in Slots : clientfd'[a] # Empty => a <= maxi'
    BY <1>2, RelayAssumption DEF PoolConsistent, PoolType, Slots
  <2>5. \A f \in read_set' : f <= maxfd'
    BY <1>1, <1>2, RelayAssumption DEF PoolConsistent, PoolType, Fds
  <2> QED
    BY <2>1, <2>2, <2>3, <2>4, <2>5 DEF PoolConsistent
<1> QED
  BY <1>3, <1>5, <1>6

\* A client that is dropped.
LEMMA DropKeeps ==
    ASSUME PoolInv, NEW s \in Slots, clientfd[s] # Empty, Drop(s),
           UNCHANGED <<maxi, maxfd>>, i' \in Nat
    PROVE  PoolInv'
<1> USE DEF PoolInv
<1>1. /\ clientfd' = [clientfd EXCEPT ![s] = Empty]
      /\ read_set' = read_set \ {clientfd[s]}
      /\ open' = open \ {clientfd[s]}
  BY DEF Drop
<1>2. PoolType'
  BY <1>1 DEF PoolType
<1>3. \A a \in Slots : a # s => clientfd[a] # clientfd[s]
  BY DEF PoolConsistent
<1>4. Pooled' = Pooled \ {clientfd[s]}
  BY <1>1, <1>3 DEF Pooled, PoolType
<1>5. OwnFds'
  BY <1>4 DEF OwnFds
<1>6. clientfd[s] \notin {listenfd, masterfd}
  BY DEF OwnFds, Pooled
<1>7. PoolConsistent'
  <2>1. open' = Pooled'
    BY <1>1, <1>4 DEF PoolConsistent
  <2>2. read_set' = Pooled' \cup {listenfd, masterfd}
    BY <1>1, <1>4, <1>6 DEF PoolConsistent
  <2>3. \A a, b \in Slots : clientfd'[a] # Empty /\ clientfd'[a] = clientfd'[b] => a = b
    BY <1>1 DEF PoolConsistent, PoolType
  <2>4. \A a \in Slots : clientfd'[a] # Empty => a <= maxi'
    BY <1>1 DEF PoolConsistent, PoolType
  <2>5. \A f \in read_set' : f <= maxfd'
    BY <1>1 DEF PoolConsistent
  <2> QED
    BY <2>1, <2>2, <2>3, <2>4, <2>5 DEF PoolConsistent
<1> QED
  BY <1>2, <1>5, <1>7

\* A step that leaves the pool alone.
LEMMA PoolUnchanged ==
    ASSUME PoolInv, UNCHANGED <<clientfd, maxi, maxfd, read_set, open>>, i' \in Nat
    PROVE  PoolInv'
  BY DEF PoolInv, PoolType, PoolConsistent, OwnFds, Pooled

LEMMA PoolStep == PoolInv /\ [Next]_vars => PoolInv'
<1> SUFFICES ASSUME PoolInv, [Next]_vars PROVE PoolInv'
  OBVIOUS
<1>t. i \in Nat /\ maxi \in -1..(FD_SETSIZE - 1)
  BY DEF PoolInv, PoolType
<1>r. FD_SETSIZE \in Nat
  BY RelayAssumption
<1>1. CASE Accept
  <2>1. PICK fd \in FreeFds, s \in Slots :
            FreeSlot(s) /\ AddClient(s, fd) /\ open' = open \cup {fd}
    BY <1>1 DEF Accept
  <2>2. i' \in Nat
    BY <1>1 DEF Accept, GotoClients
  <2> QED
    BY <2>1, <2>2, AddClientKeeps
<1>2. CASE ClientReady
  <2>1. i \in Slots /\ i' \in Nat /\ clientfd[i] # Empty
    BY <1>2, <1>t, <1>r DEF ClientReady, InClients, IsReady, Slots, Empty
  <2>2. CASE Drop(i)
    <3>1. UNCHANGED <<maxi, maxfd>>
      BY <1>2 DEF ClientReady
    <3> QED
      BY <2>1, <2>2, <3>1, DropKeeps
  <2>3. CASE UNCHANGED <<clientfd, read_set, open>>
    <3>1. UNCHANGED <<clientfd, maxi, maxfd, read_set, open>>
      BY <1>2, <2>3 DEF ClientReady
    <3> QED
      BY <2>1, <3>1, PoolUnchanged
  <2> QED
    BY <1>2, <2>2, <2>3 DEF ClientReady
<1>3. CASE Broadcast
  <2>1. i \in Slots /\ i' \in Nat
    BY <1>3, <1>t, <1>r DEF Broadcast, Slots
  <2>2. CASE clientfd[i] > 0 /\ Drop(i)
    <3>1. UNCHANGED <<maxi, maxfd>>
      BY <1>3 DEF Broadcast
    <3>2. clientfd[i] # Empty
      BY <2>2 DEF Empty
    <3> QED
      BY <2>1, <2>2, <3>1, <3>2, DropKeeps
  <2>3. CASE UNCHANGED <<clientfd, read_set, open>>
    <3>1. UNCHANGED <<clientfd, maxi, maxfd, read_set, open>>
      BY <1>3, <2>3 DEF Broadcast
    <3> QED
      BY <2>1, <3>1, PoolUnchanged
  <2> QED
    BY <1>3, <2>2, <2>3 DEF Broadcast
<1>4. CASE Select \/ AcceptFails \/ NoAccept \/ ClientIdle \/ ClientsDone
           \/ MasterRead \/ NoMaster \/ BroadcastDone
  <2>1. UNCHANGED <<clientfd, maxi, maxfd, read_set, open>>
    BY <1>4 DEF Select, AcceptFails, NoAccept, ClientIdle, ClientsDone, MasterRead,
                NoMaster, BroadcastDone, poolVars
  <2>2. i' \in Nat
    BY <1>4, <1>t DEF Select, AcceptFails, NoAccept, GotoClients, ClientIdle, ClientsDone,
                      MasterRead, NoMaster, BroadcastDone
  <2> QED
    BY <2>1, <2>2, PoolUnchanged
<1>5. CASE Kernel \/ UNCHANGED vars
  <2>1. UNCHANGED <<clientfd, maxi, maxfd, read_set, open, i>>
    BY <1>5 DEF Kernel, ClientConnects, ClientWrites, ClientCloses, ContainerWrites,
                ContainerEnds, ReaderReads, poolVars, vars
  <2> QED
    BY <2>1, <1>t, PoolUnchanged
<1> QED
  BY <1>1, <1>2, <1>3, <1>4, <1>5 DEF Next, Server

\* Whatever clients come and go, the pool of pty_run_container and the
\* descriptors the server holds agree.
THEOREM RelayPoolConsistent == Spec => []PoolConsistent
<1>1. PoolInv => PoolConsistent
  BY DEF PoolInv
<1> QED
  BY PoolInit, PoolStep, <1>1, PTL DEF Spec

-----------------------------------------------------------------------------
(* Output.  Outside the broadcast every client of the pool is up to date;  *)
(* within it, those in the slots the loop has passed.                      *)

SentTo(s) == clientfd[s] # Empty => seen[clientfd[s]] = read

OutputInv ==
    /\ seen \in [Fds -> Nat]
    /\ read \in Nat
    /\ pc \in {"select", "accept", "clients", "master"} => \A s \in Slots : SentTo(s)
    /\ pc = "broadcast" => \A s \in Slots : s < i => SentTo(s)

LEMMA OutputInit == Init => OutputInv
  BY DEF Init, OutputInv, SentTo

LEMMA OutputStep == PoolInv /\ OutputInv /\ [Next]_vars => OutputInv'
<1> SUFFICES ASSUME PoolInv, OutputInv, [Next]_vars PROVE OutputInv'
  OBVIOUS
<1>t. /\ i \in Nat /\ maxi \in -1..(FD_SETSIZE - 1) /\ FD_SETSIZE \in Nat
      /\ clientfd \in [Slots -> Fds \cup {Empty}]
  BY RelayAssumption DEF PoolInv, PoolType
<1>d. \A s, t \in Slots : clientfd[s] # Empty /\ clientfd[s] = clientfd[t] => s = t
  BY DEF PoolInv, PoolConsistent
<1>1. CASE Accept
  <2>1. PICK fd \in FreeFds, s \in Slots :
            /\ clientfd' = [clientfd EXCEPT ![s] = fd]
            /\ seen' = [seen EXCEPT ![fd] = read]
    BY <1>1 DEF Accept, AddClient
  <2>2. pc = "accept" /\ pc' = "clients" /\ read' = read
    BY <1>1 DEF Accept, GotoClients
  <2>3. fd \in Fds
    BY DEF FreeFds, ClientFds
  <2>4. \A t \in Slots : SentTo(t)'
    BY <1>t, <2>1, <2>2, <2>3 DEF OutputInv, SentTo
  <2> QED
    BY <2>1, <2>2, <2>3, <2>4 DEF OutputInv
<1>2. CASE ClientReady
  <2>1. /\ pc = "clients" /\ pc' \in {"clients", "ended"}
        /\ UNCHANGED <<read, seen>>
        /\ UNCHANGED clientfd \/ clientfd' = [clientfd EXCEPT ![i] = Empty]
    BY <1>2 DEF ClientReady, InClients, Drop
  <2>2. \A s \in Slots : SentTo(s)'
    BY <1>t, <2>1 DEF OutputInv, SentTo
  <2> QED
    BY <2>1, <2>2 DEF OutputInv
<1>3. CASE MasterRead
  BY <1>t, <1>3 DEF MasterRead, OutputInv, Slots, SentTo
<1>4. CASE Broadcast
  <2>1. i \in Slots /\ i' = i + 1 /\ pc = "broadcast" /\ pc' = pc /\ read' = read
    BY <1>4, <1>t DEF Broadcast, Slots
  <2>2. CASE clientfd[i] > 0 /\ seen' = [seen EXCEPT ![clientfd[i]] = read] /\ UNCHANGED clientfd
    <3>1. clientfd[i] # Empty /\ clientfd[i] \in Fds
      BY <1>t, <2>1, <2>2 DEF Empty
    <3>2. \A s \in Slots : s < i + 1 => SentTo(s)'
      BY <1>t, <1>d, <2>1, <2>2, <3>1 DEF OutputInv, SentTo, Slots
    <3> QED
      BY <2>1, <2>2, <3>1, <3>2 DEF OutputInv
  <2>3. CASE clientfd' = [clientfd EXCEPT ![i] = Empty] /\ UNCHANGED seen
    BY <1>t, <2>1, <2>3 DEF OutputInv, SentTo, Slots
  <2>4. CASE clientfd[i] <= 0 /\ UNCHANGED <<clientfd, seen>>
    <3>1. clientfd[i] = Empty
      <4>1. \A s \in Slots : clientfd[s] # Empty => clientfd[s] \in Fds \ {0}
        BY <1>t DEF PoolInv, OwnFds, Pooled
      <4> QED
        BY <4>1, <2>1, <2>4, <1>t DEF Fds
    <3> QED
      BY <1>t, <2>1, <2>4, <3>1 DEF OutputInv, SentTo, Slots
  <2> QED
    BY <1>4, <2>2, <2>3, <2>4 DEF Broadcast, Drop
<1>5. CASE BroadcastDone
  <2>1. \A s \in Slots : SentTo(s)
    <3>1. \A s \in Slots : clientfd[s] # Empty => s < i
      BY <1>5, <1>t DEF BroadcastDone, PoolInv, PoolConsistent, Slots
    <3> QED
      BY <1>5, <3>1 DEF BroadcastDone, OutputInv, SentTo
  <2> QED
    BY <1>5, <2>1 DEF BroadcastDone, OutputInv, SentTo, poolVars
<1>6. CASE Select \/ AcceptFails \/ NoAccept \/ ClientIdle \/ ClientsDone \/ NoMaster
  <2>1. /\ UNCHANGED <<clientfd, seen, read>>
        /\ pc \in {"select", "accept", "clients", "master"}
        /\ pc' \in {"select", "accept", "clients", "master"}
    BY <1>6 DEF Select, AcceptFails, NoAccept, GotoClients, ClientIdle, InClients,
                ClientsDone, NoMaster, poolVars
  <2> QED
    BY <2>1 DEF OutputInv, SentTo
<1>7. CASE Kernel \/ UNCHANGED vars
  <2>1. UNCHANGED <<clientfd, seen, read, pc, i>>
    BY <1>7 DEF Kernel, ClientConnects, ClientWrites, ClientCloses, ContainerWrites,
                ContainerEnds, ReaderReads, poolVars, vars
  <2> QED
    BY <2>1 DEF OutputInv, SentTo
<1> QED
  BY <1>1, <1>2, <1>3, <1>4, <1>5, <1>6, <1>7 DEF Next, Server

\* Whenever the server of pty_run_container waits in select, or is about to
\* accept, every open connection has been sent all output that was read since
\* it was accepted.
THEOREM RelayOutputDelivered == Spec => []OutputDelivered
<1>1. PoolInv /\ OutputInv => OutputDelivered
  BY DEF PoolInv, PoolConsistent, Pooled, OutputInv, SentTo, OutputDelivered
<1> QED
  BY PoolInit, PoolStep, OutputInit, OutputStep, <1>1, PTL DEF Spec

-----------------------------------------------------------------------------
(* The count of ready descriptors.  At accept it is the size of ready_set; *)
(* from there it covers the ready clients the loop has not passed, and the *)
(* terminal.                                                               *)

ReadyFrom(j) == {s \in Slots : s >= j /\ IsReady(s)}

MasterReady == IF masterfd \in ready_set THEN 1 ELSE 0

ListenReady == IF listenfd \in ready_set THEN 1 ELSE 0

CountInv ==
    /\ ready_set \subseteq Fds
    /\ nready \in 0..FD_SETSIZE
    /\ i \in 0..FD_SETSIZE
    /\ backlog \in Nat
    /\ pc = "accept" => /\ ready_set \subseteq read_set
                        /\ nready = Cardinality(ready_set)
                        /\ listenfd \in ready_set => backlog > 0
    /\ pc = "clients" => nready >= Cardinality(ReadyFrom(i)) + MasterReady
    /\ pc = "master" => nready >= MasterReady

\* The loop's counters are numbers.
LEMMA ReadyFinite ==
    ASSUME NEW j \in Nat
    PROVE  IsFiniteSet(ReadyFrom(j)) /\ Cardinality(ReadyFrom(j)) \in Nat
<1>1. IsFiniteSet(Slots)
  BY FS_Interval, RelayAssumption DEF Slots
<1> QED
  BY <1>1, FS_Subset, FS_CardinalityType DEF ReadyFrom

LEMMA ReadySetFinite ==
    ASSUME NEW S \in SUBSET Fds
    PROVE  IsFiniteSet(S) /\ Cardinality(S) \in 0..FD_SETSIZE
<1>1. IsFiniteSet(Fds) /\ Cardinality(Fds) = FD_SETSIZE
  BY FS_Interval, RelayAssumption DEF Fds
<1>2. IsFiniteSet(S) /\ Cardinality(S) <= Cardinality(Fds)
  BY <1>1, FS_Subset
<1>3. Cardinality(S) \in Nat
  BY <1>2, FS_CardinalityType
<1> QED
  BY <1>1, <1>2, <1>3

\* What select reports is enough for the listening socket, the terminal and
\* every client that is ready.
LEMMA ReadyFits ==
    ASSUME PoolInv, ready_set \subseteq Fds
    PROVE  Cardinality(ReadyFrom(0)) + MasterReady + ListenReady <= Cardinality(ready_set)
<1> DEFINE Clients == (ready_set \ {listenfd}) \ {masterfd}
           f == [s \in ReadyFrom(0) |-> clientfd[s]]
<1>1. IsFiniteSet(ready_set) /\ Cardinality(ready_set) \in Nat
  BY ReadySetFinite
<1>2. /\ IsFiniteSet(ready_set \ {listenfd})
      /\ Cardinality(ready_set \ {listenfd}) = Cardinality(ready_set) - ListenReady
  BY <1>1, FS_RemoveElement DEF ListenReady
<1>3. /\ IsFiniteSet(Clients)
      /\ Cardinality(Clients) = Cardinality(ready_set) - ListenReady - MasterReady
  <2>1. masterfd \in ready_set \ {listenfd} <=> masterfd \in ready_set
    BY RelayAssumption
  <2>2. /\ IsFiniteSet(Clients)
        /\ Cardinality(Clients) = IF masterfd \in ready_set \ {listenfd}
                                  THEN Cardinality(ready_set \ {listenfd}) - 1
                                  ELSE Cardinality(ready_set \ {listenfd})
    BY <1>2, FS_RemoveElement, Zenon
  <2> QED
    BY <1>1, <1>2, <2>1, <2>2 DEF MasterReady, ListenReady
<1>4. f \in Injection(ReadyFrom(0), Clients)
  <2>1. \A s \in ReadyFrom(0) : s \in Slots /\ clientfd[s] \in ready_set /\ clientfd[s] # Empty
    BY DEF ReadyFrom, IsReady, Empty
  <2>2. \A s \in ReadyFrom(0) : clientfd[s] \in Clients
    BY <2>1 DEF PoolInv, OwnFds, Pooled
  <2>3. \A s, t \in ReadyFrom(0) : clientfd[s] = clientfd[t] => s = t
    BY <2>1 DEF PoolInv, PoolConsistent
  <2> QED
    BY <2>2, <2>3 DEF Injection, IsInjective
<1>5. Cardinality(ReadyFrom(0)) <= Cardinality(Clients)
  BY <1>3, <1>4, FS_Injection
<1>6. Cardinality(ReadyFrom(0)) \in Nat
  BY ReadyFinite
<1> QED
  BY <1>1, <1>3, <1>5, <1>6 DEF MasterReady, ListenReady

LEMMA CountInit == Init => CountInv
  BY RelayAssumption DEF Init, CountInv, Fds

\* Input and hangups are of open connections: one that is closed takes them with
\* it, and its descriptor starts anew.
InputInv ==
    /\ input \cup eof \subseteq open
    /\ full \subseteq Fds
    /\ written \in Nat
    /\ hungup \in BOOLEAN
    /\ pc \in {"select", "accept", "clients", "master", "broadcast", "ended"}

LEMMA InputInit == Init => InputInv
<1> SUFFICES ASSUME Init PROVE InputInv
  OBVIOUS
<1>1. hungup \in BOOLEAN
  BY Zenon DEF Init
<1>2. input = {} /\ eof = {} /\ full = {} /\ written = 0 /\ pc = "select"
  BY DEF Init
<1> QED
  BY <1>1, <1>2 DEF InputInv

LEMMA InputStep == PoolInv /\ InputInv /\ [Next]_vars => InputInv'
<1> SUFFICES ASSUME PoolInv, InputInv, [Next]_vars PROVE InputInv'
  OBVIOUS
<1> USE DEF InputInv
<1>1. CASE Select \/ AcceptFails \/ NoAccept \/ ClientIdle \/ ClientsDone \/ MasterRead
           \/ NoMaster \/ BroadcastDone
  BY <1>1 DEF Select, AcceptFails, NoAccept, GotoClients, ClientIdle, ClientsDone, MasterRead,
              NoMaster, BroadcastDone, kernelVars
<1>2. CASE Accept
  BY <1>2 DEF Accept, GotoClients
<1>3. CASE ClientReady
  BY <1>3, RelayAssumption DEF ClientReady, Drop, WriteTo, Fds
<1>4. CASE Broadcast
  <2>1. clientfd[i] > 0 => clientfd[i] \in Fds
    <3>1. i \in Slots /\ clientfd[i] \in Fds \cup {Empty}
      BY <1>4, RelayAssumption DEF Broadcast, PoolInv, PoolType, Slots
    <3> QED
      BY <3>1 DEF Empty
  <2> QED
    BY <1>4, <2>1 DEF Broadcast, Drop, WriteTo
<1>5. CASE ClientConnects \/ ClientWrites \/ ClientCloses \/ ContainerWrites \/ ReaderReads
  BY <1>5 DEF ClientConnects, ClientWrites, ClientCloses, ContainerWrites, ReaderReads
<1>6. CASE ContainerEnds
  <2>1. hungup' \in BOOLEAN
    BY <1>6, Zenon DEF ContainerEnds
  <2>2. UNCHANGED <<input, eof, full, open, written, pc>>
    BY <1>6 DEF ContainerEnds
  <2> QED
    BY <2>1, <2>2
<1>7. CASE UNCHANGED vars
  BY <1>7 DEF vars, kernelVars
<1> QED
  BY <1>1, <1>2, <1>3, <1>4, <1>5, <1>6, <1>7 DEF Next, Server, Kernel

\* A step that leaves the pool's counts and the loop alone.
LEMMA CountUnchanged ==
    ASSUME CountInv, UNCHANGED <<clientfd, ready_set, read_set, nready, i, pc>>,
           backlog' \in Nat, backlog' >= backlog
    PROVE  CountInv'
  BY DEF CountInv, ReadyFrom, IsReady, MasterReady

LEMMA CountStep == PoolInv /\ InputInv /\ CountInv /\ [Next]_vars => CountInv'
<1> SUFFICES ASSUME PoolInv, InputInv, CountInv, [Next]_vars PROVE CountInv'
  OBVIOUS
<1>t. /\ i \in 0..FD_SETSIZE /\ nready \in 0..FD_SETSIZE /\ FD_SETSIZE \in Nat /\ backlog \in Nat
      /\ ready_set \subseteq Fds /\ maxi \in -1..(FD_SETSIZE - 1)
      /\ clientfd \in [Slots -> Fds \cup {Empty}]
      /\ MasterReady \in {0, 1} /\ ListenReady \in {0, 1}
  BY RelayAssumption DEF PoolInv, PoolType, CountInv, MasterReady, ListenReady
<1>1. CASE Select
  <2>1. /\ pc' = "accept" /\ UNCHANGED <<i, read_set, backlog>>
        /\ ready_set' \subseteq read_set /\ nready' = Cardinality(ready_set')
    BY <1>1 DEF Select, kernelVars
  <2>2. ready_set' \subseteq Fds
    BY <2>1 DEF PoolInv, PoolType
  <2>3. nready' \in 0..FD_SETSIZE
    BY <2>1, <2>2, ReadySetFinite
  <2>4. listenfd \in ready_set' => backlog > 0
    <3>1. listenfd \notin input \cup eof /\ listenfd # masterfd
      BY RelayAssumption DEF InputInv, PoolInv, PoolConsistent, OwnFds
    <3> QED
      BY <1>1, <3>1 DEF Select, Readable
  <2> QED
    BY <2>1, <2>2, <2>3, <2>4, <1>t DEF CountInv
<1>2. CASE Accept
  <2>1. PICK fd \in FreeFds, s \in Slots :
            FreeSlot(s) /\ clientfd' = [clientfd EXCEPT ![s] = fd]
    BY <1>2 DEF Accept, AddClient
  <2>2. /\ pc = "accept" /\ pc' = "clients" /\ i' = 0 /\ nready' = nready - 1
        /\ backlog' = backlog - 1 /\ UNCHANGED ready_set /\ listenfd \in ready_set
    BY <1>2 DEF Accept, GotoClients
  <2>3. fd \notin ready_set
    BY <2>2 DEF CountInv, PoolInv, PoolConsistent, FreeFds, ClientFds
  <2>4. ~IsReady(s)
    BY <2>1 DEF FreeSlot, IsReady, Empty
  <2>5. ReadyFrom(0)' = ReadyFrom(0)
    BY <2>1, <2>2, <2>3, <2>4, <1>t DEF ReadyFrom, IsReady
  <2>6. MasterReady' = MasterReady /\ ListenReady = 1
    BY <2>2 DEF MasterReady, ListenReady
  <2>7. nready - 1 >= Cardinality(ReadyFrom(0)) + MasterReady
    BY <2>2, <2>6, ReadyFits, ReadyFinite, <1>t DEF CountInv
  <2>8. Cardinality(ReadyFrom(0)) \in Nat
    BY ReadyFinite
  <2> QED
    BY <2>2, <2>5, <2>6, <2>7, <2>8, <1>t DEF CountInv
<1>3. CASE AcceptFails \/ NoAccept
  <2>1. /\ pc = "accept" /\ pc' = "clients" /\ i' = 0
        /\ UNCHANGED <<clientfd, nready, ready_set, backlog>>
    BY <1>3 DEF AcceptFails, NoAccept, GotoClients, poolVars, kernelVars
  <2>2. ReadyFrom(0)' = ReadyFrom(0) /\ MasterReady' = MasterReady
    BY <2>1 DEF ReadyFrom, IsReady, MasterReady
  <2>3. nready >= Cardinality(ReadyFrom(0)) + MasterReady
    BY <2>1, ReadyFits, ReadyFinite, <1>t DEF CountInv
  <2> QED
    BY <2>1, <2>2, <2>3, <1>t DEF CountInv
<1>4. CASE ClientReady
  <2>1. /\ pc = "clients" /\ i \in Slots /\ i' = i + 1 /\ nready > 0 /\ nready' = nready - 1
        /\ UNCHANGED <<ready_set, backlog>> /\ pc' \in {"clients", "ended"}
        /\ i \in ReadyFrom(i)
    BY <1>4, <1>t DEF ClientReady, InClients, Slots, ReadyFrom
  <2>2. \A s \in Slots : s # i => clientfd'[s] = clientfd[s]
    BY <1>4, <1>t DEF ClientReady, Drop
  <2>3. ReadyFrom(i)' = ReadyFrom(i) \ {i}
    BY <2>1, <2>2 DEF ReadyFrom, IsReady, Slots
  <2>4. Cardinality(ReadyFrom(i) \ {i}) = Cardinality(ReadyFrom(i)) - 1
    <3>1. IsFiniteSet(ReadyFrom(i))
      BY <1>t, ReadyFinite
    <3> QED
      BY <2>1, <3>1, FS_RemoveElement
  <2>5. MasterReady' = MasterReady /\ Cardinality(ReadyFrom(i)) \in Nat
    BY <2>1, <1>t, ReadyFinite DEF MasterReady
  <2>6. i' \in 0..FD_SETSIZE /\ nready' \in 0..FD_SETSIZE
    BY <2>1, <1>t DEF Slots
  <2>7. nready >= Cardinality(ReadyFrom(i)) + MasterReady
    BY <2>1 DEF CountInv
  <2>8. nready - 1 >= Cardinality(ReadyFrom(i) \ {i}) + MasterReady
    BY <2>4, <2>5, <2>7, <1>t
  <2>9. (nready >= Cardinality(ReadyFrom(i)) + MasterReady)'
    BY <2>1, <2>3, <2>5, <2>8
  <2> QED
    BY <2>1, <2>6, <2>9, <1>t DEF CountInv
<1>5. CASE ClientIdle
  <2>1. /\ pc = "clients" /\ i \in Slots /\ i' = i + 1 /\ ~IsReady(i)
        /\ UNCHANGED <<clientfd, nready, ready_set, backlog, pc>>
    BY <1>5, <1>t DEF ClientIdle, InClients, Slots, poolVars, kernelVars
  <2>2. ReadyFrom(i)' = ReadyFrom(i) /\ MasterReady' = MasterReady
    BY <2>1 DEF ReadyFrom, IsReady, Slots, MasterReady
  <2>3. i' \in 0..FD_SETSIZE
    BY <2>1, <1>t DEF Slots
  <2> QED
    BY <2>1, <2>2, <2>3, <1>t DEF CountInv
<1>6. CASE ClientsDone
  <2>1. /\ pc = "clients" /\ pc' = "master" /\ i' = 0 /\ UNCHANGED <<nready, ready_set, backlog>>
    BY <1>6 DEF ClientsDone, poolVars, kernelVars
  <2>2. MasterReady' = MasterReady /\ Cardinality(ReadyFrom(i)) \in Nat
    BY <2>1, <1>t, ReadyFinite DEF MasterReady
  <2> QED
    BY <2>1, <2>2, <1>t DEF CountInv
<1>7. CASE MasterRead
  <2>1. /\ pc = "master" /\ MasterReady = 1 /\ nready' = nready - 1
        /\ pc' \in {"broadcast", "ended"} /\ i' \in {0, i} /\ UNCHANGED <<ready_set, backlog>>
    BY <1>7 DEF MasterRead, MasterReady, kernelVars
  <2> QED
    BY <2>1, <1>t DEF CountInv
<1>8. CASE Broadcast
  <2>1. /\ pc = "broadcast" /\ pc' = "broadcast" /\ i' = i + 1 /\ i <= maxi
        /\ UNCHANGED <<nready, ready_set, backlog>>
    BY <1>8 DEF Broadcast
  <2> QED
    BY <2>1, <1>t DEF CountInv
<1>9. CASE NoMaster \/ BroadcastDone
  <2>1. pc' = "select" /\ i' \in {0, i} /\ UNCHANGED <<nready, ready_set, backlog>>
    BY <1>9 DEF NoMaster, BroadcastDone, poolVars, kernelVars
  <2> QED
    BY <2>1, <1>t DEF CountInv
<1>10. CASE Kernel \/ UNCHANGED vars
  <2>1. /\ UNCHANGED <<clientfd, ready_set, read_set, nready, i, pc>>
        /\ backlog' \in {backlog, backlog + 1}
    BY <1>10 DEF Kernel, ClientConnects, ClientWrites, ClientCloses, ContainerWrites,
                 ContainerEnds, ReaderReads, poolVars, vars, kernelVars
  <2> QED
    BY <2>1, <1>t, CountUnchanged
<1> QED
  BY <1>1, <1>2, <1>3, <1>4, <1>5, <1>6, <1>7, <1>8, <1>9, <1>10 DEF Next, Server

LEMMA CountAlways == Spec => [](PoolInv /\ OutputInv /\ InputInv /\ CountInv)
  BY PoolInit, PoolStep, OutputInit, OutputStep, InputInit, InputStep, CountInit, CountStep, PTL
     DEF Spec

\* The relay stays within its types: no loop leaves the pool, nready is never
\* negative, and the server accepts only clients that wait.
THEOREM RelayTypeCorrect == Spec => []TypeOK
<1>1. PoolInv /\ OutputInv /\ InputInv /\ CountInv => TypeOK
  BY DEF PoolInv, PoolType, OutputInv, InputInv, CountInv, TypeOK
<1> QED
  BY <1>1, CountAlways, PTL

\* The count that select returned never runs out before the loops have served
\* the last ready client and the terminal, also when accept took one off it.
THEOREM RelayNoneSkipped == Spec => []NoneSkipped
<1>1. CountInv => NoneSkipped
  BY DEF CountInv, NoneSkipped, ReadyFrom, MasterReady
<1> QED
  BY <1>1, CountAlways, PTL

-----------------------------------------------------------------------------
(* The programs on the user's side: the terminal *)

\* The calls up to the fork or the connection.
Opening == {"connect", "openpt", "grantpt", "unlockpt", "ptsname", "fork"}

\* ptyFork has not answered while it is under way, nothing is open before its
\* first call, and exec -d never touches the terminal.
TerminalInv ==
    /\ role \in {"client", "exec", "execd"}
    /\ xpc \in Opening => childPid = "none"
    /\ xpc \in {"connect", "openpt"} => ~masterOpen
    /\ role = "execd" => tty = "cooked"
    /\ TerminalRestored

LEMMA TerminalInit == ExecInit => TerminalInv
  BY DEF ExecInit, TerminalInv, TerminalRestored, Opening

LEMMA TerminalStep == TerminalInv /\ [ExecNext]_execVars => TerminalInv'
<1> SUFFICES ASSUME TerminalInv, [ExecNext]_execVars PROVE TerminalInv'
  OBVIOUS
<1> USE DEF TerminalInv, TerminalRestored, Opening, XGoto
<1>1. CASE ConnectServer
  BY <1>1 DEF ConnectServer
<1>2. CASE OpenPt
  BY <1>2 DEF OpenPt, ForkFails
<1>3. CASE MasterCall
  BY <1>3 DEF MasterCall, ForkFails, NextCall
<1>4. CASE PtyFork
  BY <1>4 DEF PtyFork, ForkFails
<1>5. CASE EnterRaw
  BY <1>5 DEF EnterRaw
<1>6. CASE dumpStdOut
  BY <1>6 DEF dumpStdOut
<1>7. CASE SelectFds \/ SelectBad
  BY <1>7 DEF SelectFds, SelectBad, AfterSelect
<1>8. CASE StdinRead
  BY <1>8 DEF StdinRead, Broken
<1>9. CASE StdinWrite
  BY <1>9 DEF StdinWrite, AfterStdin, Broken
<1>10. CASE ReadMaster
  BY <1>10 DEF ReadMaster, Broken
<1>11. CASE StdoutWrite \/ WaitChild
  BY <1>11 DEF StdoutWrite, WaitChild
<1>12. CASE ttyReset
  BY <1>12 DEF ttyReset
<1>13. CASE Child \/ StrayRelays \/ User \/ Command \/ UNCHANGED execVars
  <2>1. UNCHANGED <<role, xpc, masterOpen, childPid, tty>>
    BY <1>13 DEF Child, ChildSetup, ChildChroot, ChildExecvp, ChildGoto, StrayRelays,
                 User, UserTypes, UserEnds, Command, CommandReads, CommandWrites,
                 CommandEnds, execVars
  <2> QED
    BY <2>1
<1> QED
  BY <1>1, <1>2, <1>3, <1>4, <1>5, <1>6, <1>7, <1>8, <1>9, <1>10, <1>11, <1>12, <1>13
     DEF ExecNext, Program

\* Whichever side ends first, pty_client and pty_exec give the terminal back in
\* cooked mode, and a ptyFork that failed has closed what it opened.
THEOREM ExecTerminalRestored == ExecSpec => []TerminalRestored
<1>1. TerminalInv => TerminalRestored
  BY DEF TerminalInv
<1> QED
  BY TerminalInit, TerminalStep, <1>1, PTL DEF ExecSpec

-----------------------------------------------------------------------------
(* Output: pieces are counted at every place they can be.                  *)

\* The piece that was read from the terminal and is about to be shown.
InHand == IF xpc = "stdout_write" /\ masterFd = "master" THEN 1 ELSE 0

\* No piece the far side wrote is lost, repeated or made up: it waits in the
\* terminal, or the program has it in hand, or it was shown.  Only a program
\* that dies in its write takes one with it.
OutputConserved ==
    \/ shown + InHand + outq = produced
    \/ xpc = "died" /\ shown + 1 + outq = produced

PiecesInv ==
    /\ ExecTypeOK
    /\ typed <= keyed
    /\ xpc \in Opening => masterFd # "master"
    /\ OutputConserved

LEMMA PiecesInit == ExecInit => PiecesInv
<1> SUFFICES ASSUME ExecInit PROVE PiecesInv
  OBVIOUS
<1>1. masterOpen \in BOOLEAN /\ stdinEnd \in BOOLEAN
  BY Zenon DEF ExecInit
<1>2. /\ role \in {"client", "exec", "execd"} /\ xpc \in {"connect", "openpt"}
      /\ masterFd \in Garbage /\ childPid = "none" /\ tty = "cooked" /\ ready = {}
      /\ far \in {"running", "none"}
  BY DEF ExecInit
<1>3. typed = 0 /\ keyed = 0 /\ inq = 0 /\ outq = 0 /\ produced = 0 /\ shown = 0
  BY Zenon DEF ExecInit
<1> QED
  BY ExecAssumption, <1>1, <1>2, <1>3
     DEF PiecesInv, ExecTypeOK, OutputConserved, InHand, XSteps, FarSteps, Garbage, Opening

\* What is the same for every step: the bounds, and that the sums are of numbers.
LEMMA PiecesTypes ==
    ASSUME PiecesInv
    PROVE  /\ {InCap, OutCap, MaxTyped, MaxProduced} \subseteq Nat \ {0}
           /\ {typed, keyed, inq, outq, produced, shown, InHand} \subseteq Nat
  BY ExecAssumption DEF PiecesInv, ExecTypeOK, InHand

LEMMA PiecesStep == PiecesInv /\ [ExecNext]_execVars => PiecesInv'
<1> SUFFICES ASSUME PiecesInv, [ExecNext]_execVars PROVE PiecesInv'
  OBVIOUS
<1>t. /\ {InCap, OutCap, MaxTyped, MaxProduced} \subseteq Nat \ {0}
      /\ {typed, keyed, inq, outq, produced, shown, InHand} \subseteq Nat
  BY PiecesTypes
<1> USE <1>t DEF PiecesInv, ExecTypeOK, OutputConserved, InHand, XSteps, FarSteps, Garbage,
                 Opening, XGoto, userVars, dataVars
<1>1. CASE ConnectServer
  <2>1. /\ xpc' \in {"raw", "died"} /\ masterFd' \in {"master", masterFd}
        /\ UNCHANGED <<role, childPid, tty, ready, far, userVars, dataVars, shown>>
        /\ xpc = "connect" /\ (masterFd' = masterFd \/ xpc' = "raw")
    BY <1>1 DEF ConnectServer
  <2>2. masterOpen' \in BOOLEAN
    BY <1>1, Zenon DEF ConnectServer
  <2> QED
    BY <2>1, <2>2
<1>2. CASE OpenPt
  BY <1>2 DEF OpenPt, ForkFails
<1>3. CASE MasterCall
  <2>1. /\ xpc \in {"grantpt", "unlockpt", "ptsname"}
        /\ xpc' \in {"unlockpt", "ptsname", "fork", "raw"} /\ childPid' \in {childPid, "failed"}
        /\ UNCHANGED <<role, masterFd, tty, ready, far, userVars, dataVars, shown>>
    BY <1>3 DEF MasterCall, ForkFails, NextCall
  <2>2. masterOpen' \in BOOLEAN
    BY <1>3, Zenon DEF MasterCall
  <2> QED
    BY <2>1, <2>2
<1>4. CASE PtyFork
  BY <1>4 DEF PtyFork, ForkFails
<1>5. CASE EnterRaw
  BY <1>5 DEF EnterRaw
<1>6. CASE dumpStdOut
  BY <1>6 DEF dumpStdOut
<1>7. CASE SelectFds
  BY <1>7 DEF SelectFds, SelectReady, Watched, AfterSelect
<1>8. CASE SelectBad
  BY <1>8 DEF SelectBad, Watched, AfterSelect
<1>9. CASE StdinRead
  BY <1>9 DEF StdinRead, Broken
<1>10. CASE StdinWrite
  BY <1>10 DEF StdinWrite, AfterStdin, Broken
<1>11. CASE ReadMaster
  BY <1>11 DEF ReadMaster, Broken
<1>12. CASE StdoutWrite
  BY <1>12 DEF StdoutWrite
<1>13. CASE WaitChild
  BY <1>13 DEF WaitChild
<1>14. CASE ttyReset
  BY <1>14 DEF ttyReset
<1>15. CASE Child
  <2>1. far' \in FarSteps /\ UNCHANGED <<role, xpc, masterOpen, masterFd, childPid, tty, ready,
                                         userVars, dataVars, shown>>
    <3>1. \E step \in {"chroot", "unopened", "zombie", "execvp", "running", "stray"} : ChildGoto(step)
      BY <1>15, Zenon DEF Child, ChildSetup, ChildChroot, ChildExecvp
    <3> QED
      BY <3>1 DEF ChildGoto
  <2> QED
    BY <2>1
<1>16. CASE StrayRelays
  BY <1>16 DEF StrayRelays
<1>17. CASE User
  <2>1. UNCHANGED <<role, xpc, masterOpen, masterFd, childPid, tty, ready, far, dataVars, shown>>
    BY <1>17 DEF User, UserTypes, UserEnds
  <2>2. stdinEnd' \in BOOLEAN
    BY <1>17, Zenon DEF User, UserTypes, UserEnds
  <2>3. \/ keyed < MaxTyped /\ keyed' = keyed + 1 /\ typed' = typed + 1
        \/ UNCHANGED <<typed, keyed>>
    BY <1>17, Zenon DEF User, UserTypes, UserEnds
  <2> QED
    BY <2>1, <2>2, <2>3
<1>18. CASE Command
  <2>1. CASE CommandReads
    BY <2>1 DEF CommandReads
  <2>2. CASE CommandWrites
    BY <2>2 DEF CommandWrites
  <2>3. CASE CommandEnds
    BY <2>3 DEF CommandEnds
  <2> QED
    BY <1>18, <2>1, <2>2, <2>3 DEF Command
<1>19. CASE UNCHANGED execVars
  BY <1>19 DEF execVars
<1> QED
  BY <1>1, <1>2, <1>3, <1>4, <1>5, <1>6, <1>7, <1>8, <1>9, <1>10, <1>11, <1>12, <1>13,
     <1>14, <1>15, <1>16, <1>17, <1>18, <1>19
     DEF ExecNext, Program

\* pty_client and pty_exec stay within their types: the buffers are never over-
\* filled and what is shown never exceeds what was written.
THEOREM ExecTypeCorrect == ExecSpec => []ExecTypeOK
<1>1. PiecesInv => ExecTypeOK
  BY DEF PiecesInv
<1> QED
  BY PiecesInit, PiecesStep, <1>1, PTL DEF ExecSpec

\* The relay of pty_client and pty_exec passes on every piece of output once.
THEOREM ExecOutputConserved == ExecSpec => []OutputConserved
<1>1. PiecesInv => OutputConserved
  BY DEF PiecesInv
<1> QED
  BY PiecesInit, PiecesStep, <1>1, PTL DEF ExecSpec

-----------------------------------------------------------------------------
(* Both sides *)

BothInv == PoolInv /\ OutputInv /\ InputInv /\ CountInv /\ PiecesInv

\* Both sides of the terminals stay within their types: the loops within the
\* pool, the count of select within what it returned, the kernel's buffers
\* within their room.
THEOREM PtyTypeCorrect == MCSpec => []PtyTypeOK
<1>1. MCInit => BothInv
  BY PoolInit, OutputInit, InputInit, CountInit, PiecesInit DEF MCInit, BothInv
<1>2. BothInv /\ [MCNext]_all => BothInv'
  <2>1. [MCNext]_all => [Next]_vars /\ [ExecNext]_execVars
    BY DEF MCNext, RelayDoes, ExecDoes, all
  <2>. QED  BY <2>1, PoolStep, OutputStep, InputStep, CountStep, PiecesStep DEF BothInv
<1>3. BothInv => PtyTypeOK
  BY DEF BothInv, PoolInv, PoolType, OutputInv, InputInv, CountInv, TypeOK, PiecesInv, PtyTypeOK
<1>. QED  BY <1>1, <1>2, <1>3, PTL DEF MCSpec
=============================================================================
