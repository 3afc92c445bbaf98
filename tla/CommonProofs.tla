---------------------------- MODULE CommonProofs ---------------------------
(***************************************************************************)
(* TLAPS proofs about what processes of the program share and exchange:    *)
(* semaphores (SemUtil), for any number of processes; the way a start      *)
(* waits for its server with one (StartHandshake), for any number of       *)
(* threads and sets; opening sockets (OpenFd), for any number of           *)
(* addresses; and robust I/O (SocketIo), for headers, buffers and calls of *)
(* any size.                                                               *)
(*                                                                         *)
(* The last part is about the sum of the smaller parts, MCCommon.          *)
(***************************************************************************)
EXTENDS MCCommon, FsProofs, FiniteSetTheorems

(***************************************************************************)
(* SemUtil.  A set is in the hands of its maker until the maker's semop;   *)
(* from then on its one token is the value or a holder.                    *)
(***************************************************************************)

\* The processes that have not called semget: each makes at most one set.
NotCalled == {p \in Procs : sempc[p] = "semget"}

\* made and semid without their bound, which needs counting.
SemTypes ==
    /\ exists \in BOOLEAN /\ otime \in BOOLEAN
    /\ made \in Nat
    /\ semval \in 0..1
    /\ sempc \in [Procs -> SemSteps]
    /\ semid \in [Procs -> Nat]
    /\ tries \in [Procs -> 0..MAX_TRIES]
    /\ semadj \in [Procs -> 0..1]
    /\ crashes \in 0..MaxCrashes

\* Identifiers name sets that were made, and a poll that goes on has a try left.
Identified ==
    \A p \in Procs :
        /\ semid[p] <= made
        /\ sempc[p] \in {"semget", "semget2"} => tries[p] = 0
        /\ sempc[p] = "poll" => tries[p] < MAX_TRIES

\* The maker is alone with its set, which has no value and no semop yet.
MakerAlone ==
    /\ \A p \in Procs : sempc[p] \in {"setval", "semop"} /\ Valid(p) => ~otime /\ semval = 0
    /\ \A p, q \in Procs :
          /\ sempc[p] \in {"setval", "semop"} /\ Valid(p)
          /\ sempc[q] \in {"setval", "semop"} /\ Valid(q)
          => p = q

\* The token of a ready set is its value or its only holder.
TokenKept ==
    exists /\ otime =>
        \/ semval = 1 /\ \A p \in Procs : ~(sempc[p] = "holds" /\ semid[p] = made)
        \/ /\ semval = 0
           /\ \E h \in Procs : \A p \in Procs : sempc[p] = "holds" /\ semid[p] = made <=> p = h

\* Who got an identifier that is still good found the set ready; a set that was
\* removed has no holder.
UsersFoundReady ==
    \A p \in Procs :
        /\ sempc[p] \in {"have", "dec", "holds"} /\ Valid(p) => otime
        /\ sempc[p] = "holds" /\ semid[p] = made => exists

\* The kernel's undo list names the holder of the present set and nobody else.
UndoList ==
    \A p \in Procs :
        semadj[p] = IF sempc[p] = "holds" /\ Valid(p) THEN 1 ELSE 0

SemInv ==
    SemTypes /\ Identified /\ MakerAlone /\ TokenKept /\ UsersFoundReady /\ UndoList

LEMMA SemInvInit == SemInit => SemInv
<1> SUFFICES ASSUME SemInit PROVE SemInv
  OBVIOUS
<1>1. ~exists /\ ~otime /\ exists \in BOOLEAN /\ otime \in BOOLEAN
  BY Zenon DEF SemInit
<1>2. /\ made = 0 /\ semval = 0 /\ crashes = 0
      /\ sempc = [p \in Procs |-> "semget"]
      /\ semid = [p \in Procs |-> 0]
      /\ tries = [p \in Procs |-> 0]
      /\ semadj = [p \in Procs |-> 0]
  BY Zenon DEF SemInit
<1> QED
  BY <1>1, <1>2, SemAssumption
     DEF SemInv, SemTypes, Identified, MakerAlone, TokenKept, UsersFoundReady, UndoList, SemSteps, Valid

LEMMA SemInvStep == SemInv /\ [SemNext]_semVars => SemInv'
<1> SUFFICES ASSUME SemInv, [SemNext]_semVars PROVE SemInv'
  OBVIOUS
<1>a. MAX_TRIES \in Nat \ {0} /\ MaxCrashes \in Nat
  BY SemAssumption
<1> USE <1>a DEF SemInv, SemTypes, Identified, MakerAlone, TokenKept, UsersFoundReady, UndoList,
                 SemSteps, Valid, SemGoto, kernelSem
<1>u. CASE UNCHANGED semVars
  BY <1>u DEF semVars
<1>1. ASSUME NEW p \in Procs, SemGet(p) PROVE SemInv'
  <2>1. CASE UNCHANGED kernelSem
    BY <1>1, <2>1 DEF SemGet
  <2>2. CASE ~exists /\ exists' = TRUE /\ made' = made + 1 /\ otime' = FALSE
    <3>1. exists' /\ ~otime' /\ exists' \in BOOLEAN /\ otime' \in BOOLEAN
      BY <2>2, Zenon
    <3>2. /\ made' = made + 1 /\ semval' = 0
          /\ semid' = [semid EXCEPT ![p] = made']
          /\ sempc' = [sempc EXCEPT ![p] = "setval"]
          /\ UNCHANGED <<tries, semadj, crashes>>
      BY <1>1, <2>2 DEF SemGet
    <3> QED
      BY <2>2, <3>1, <3>2
  <2> QED
    BY <1>1, <2>1, <2>2, Zenon DEF SemGet
<1>2. ASSUME NEW p \in Procs, SemSetVal(p) PROVE SemInv'
  BY <1>2 DEF SemSetVal
<1>3. ASSUME NEW p \in Procs, SemReady(p) PROVE SemInv'
  <2>1. CASE ~Valid(p)
    BY <1>3, <2>1 DEF SemReady
  <2>2. CASE Valid(p)
    <3>1. otime' /\ otime' \in BOOLEAN /\ UNCHANGED exists
      BY <1>3, <2>2, Zenon DEF SemReady
    <3>2. /\ sempc[p] = "semop" /\ semval' = semval + 1
          /\ sempc' = [sempc EXCEPT ![p] = "have"]
          /\ UNCHANGED <<made, semid, tries, semadj, crashes>>
      BY <1>3, <2>2 DEF SemReady
    <3> QED
      BY <2>2, <3>1, <3>2
  <2> QED
    BY <2>1, <2>2
<1>4. ASSUME NEW p \in Procs, SemGet2(p) PROVE SemInv'
  BY <1>4 DEF SemGet2
<1>5. ASSUME NEW p \in Procs, SemPoll(p) PROVE SemInv'
  BY <1>5 DEF SemPoll
<1>6. ASSUME NEW p \in Procs, CallDec(p) PROVE SemInv'
  BY <1>6 DEF CallDec
<1>7. ASSUME NEW p \in Procs, Dec(p) PROVE SemInv'
  BY <1>7 DEF Dec, Reserve
<1>8. ASSUME NEW p \in Procs, DecAtOnce(p) PROVE SemInv'
  BY <1>8 DEF DecAtOnce, Reserve, Refuse
<1>9. ASSUME NEW p \in Procs, Inc(p) PROVE SemInv'
  BY <1>9 DEF Inc
<1>10. ASSUME NEW p \in Procs, SemRemove(p) PROVE SemInv'
  BY <1>10 DEF SemRemove
<1>11. ASSUME NEW p \in Procs, SemKilled(p) PROVE SemInv'
  BY <1>11 DEF SemKilled
<1> QED
  BY <1>u, <1>1, <1>2, <1>3, <1>4, <1>5, <1>6, <1>7, <1>8, <1>9, <1>10, <1>11
     DEF SemNext, SemStep, Getting

\* Every set was made by a process that is no longer fresh.
MadeByProcs == made + Cardinality(NotCalled) <= Cardinality(Procs)

LEMMA FreshCount ==
    /\ IsFiniteSet(NotCalled) /\ Cardinality(NotCalled) \in Nat /\ Cardinality(Procs) \in Nat
    /\ \A p \in NotCalled : Cardinality(NotCalled \ {p}) = Cardinality(NotCalled) - 1
  BY SemAssumption, FS_Subset, FS_CardinalityType, FS_RemoveElement DEF NotCalled

LEMMA MadeStep == SemInv /\ MadeByProcs /\ [SemNext]_semVars => MadeByProcs'
<1> SUFFICES ASSUME SemInv, MadeByProcs, [SemNext]_semVars PROVE MadeByProcs'
  OBVIOUS
<1>1. CASE UNCHANGED <<made, NotCalled>>
  BY <1>1 DEF MadeByProcs
<1>2. ASSUME NEW p \in NotCalled, made' \in {made, made + 1}, NotCalled' = NotCalled \ {p}
      PROVE  MadeByProcs'
  BY <1>2, FreshCount, SemAssumption DEF MadeByProcs, SemInv, SemTypes
<1>3. CASE UNCHANGED semVars
  <2>1. UNCHANGED <<made, NotCalled>>
    BY <1>3 DEF semVars, kernelSem, NotCalled
  <2> QED
    BY <1>1, <2>1
<1>4. ASSUME NEW p \in Procs, SemStep(p), sempc[p] = "semget"
      PROVE  MadeByProcs'
  <2>1. made' \in {made, made + 1} /\ \E step \in SemSteps \ {"semget"} : SemGoto(p, step)
    BY <1>4 DEF SemStep, Getting, SemGet, SemSetVal, SemReady, SemGet2, SemPoll, CallDec, Dec,
                DecAtOnce, Inc, SemRemove, SemKilled, kernelSem, SemSteps
  <2>2. p \in NotCalled /\ NotCalled' = NotCalled \ {p}
    BY <1>4, <2>1 DEF NotCalled, SemGoto, SemInv, SemTypes
  <2> QED
    BY <1>2, <2>1, <2>2
<1>5. ASSUME NEW p \in Procs, SemStep(p), sempc[p] # "semget"
      PROVE  MadeByProcs'
  <2>1. made' = made /\ \E step \in SemSteps \ {"semget"} : SemGoto(p, step)
    BY <1>5 DEF SemStep, Getting, SemGet, SemSetVal, SemReady, SemGet2, SemPoll, CallDec, Dec,
                DecAtOnce, Reserve, Refuse, Inc, SemRemove, SemKilled, kernelSem, SemSteps
  <2>2. NotCalled' = NotCalled
    BY <1>5, <2>1 DEF NotCalled, SemGoto, SemInv, SemTypes
  <2> QED
    BY <1>1, <2>1, <2>2
<1> QED
  BY <1>3, <1>4, <1>5 DEF SemNext

LEMMA SemAlways == SemSpec => [](SemInv /\ MadeByProcs)
<1>1. SemInit => SemInv /\ MadeByProcs
  <2> SUFFICES ASSUME SemInit PROVE MadeByProcs
    BY SemInvInit
  <2>1. made = 0 /\ NotCalled = Procs
    BY DEF SemInit, NotCalled
  <2> QED
    BY <2>1, FreshCount DEF MadeByProcs
<1> QED
  BY <1>1, SemInvStep, MadeStep, PTL DEF SemSpec

\* SemUtil stays within its types: in particular no more sets are made for a key
\* than processes ask for it, and nobody polls more than MAX_TRIES times.
THEOREM SemTypeCorrect == SemSpec => []SemTypeOK
<1>1. SemInv /\ MadeByProcs => SemTypeOK
  BY FreshCount DEF SemInv, SemTypes, Identified, MadeByProcs, SemTypeOK
<1> QED
  BY <1>1, SemAlways, PTL

\* The lock that SemUtil makes of a semaphore: however many processes get the
\* set, remove it and are killed where, a ready set has its one token, as its
\* value or with one holder, and nobody uses a set before it is ready.
THEOREM SemOneToken == SemSpec => []OneToken
<1>1. SemInv => OneToken
  <2> SUFFICES ASSUME SemInv PROVE OneToken
    OBVIOUS
  <2>1. ASSUME exists, otime PROVE semval + Cardinality(Holders) = 1
    <3>1. CASE semval = 1 /\ \A p \in Procs : ~(sempc[p] = "holds" /\ semid[p] = made)
      <4>1. Holders = {}
        BY <3>1 DEF Holders
      <4> QED
        BY <3>1, <4>1, FS_EmptySet
    <3>2. ASSUME semval = 0, NEW h \in Procs,
                 \A p \in Procs : sempc[p] = "holds" /\ semid[p] = made <=> p = h
          PROVE  semval + Cardinality(Holders) = 1
      <4>1. Holders = {h}
        BY <3>2 DEF Holders
      <4>2. Cardinality({h}) = 1
        BY FS_Singleton, Zenon
      <4> QED
        BY <3>2, <4>1, <4>2
    <3> QED
      BY <2>1, <3>1, <3>2 DEF SemInv, TokenKept
  <2> QED
    BY <2>1 DEF OneToken, SemInv, UsersFoundReady
<1> QED
  BY <1>1, SemAlways, PTL

(***************************************************************************)
(* StartHandshake.  A start that is alone is the only reader of the global *)
(* variable it set; one that met another can still be sure that the set it *)
(* waits for has a server, or one in the making.                           *)
(***************************************************************************)

\* err_exit leaves no thread at work.
DieTogether ==
    (\E t \in Starts : hpc[t] = "dead") => \A u \in Starts : hpc[u] \in {"returned", "dead"}

\* What was zeroed is what servers posted; no set is older than the variable.
PostsTrue ==
    /\ \A s : s \in zeroed <=> \E u \in posted : posts[u] = s
    /\ synchSem <= sets
    /\ \A t \in Starts :
          /\ hpc[t] \in {"idle", "fork"} => posts[t] = 0
          /\ t \in posted => posts[t] # 0
          /\ posts[t] <= synchSem
          /\ hpc[t] \in {"fork", "arg", "zero"} => synchSem # 0
          /\ hpc[t] = "zero" => waitsFor[t] # 0

\* Starts that are under way together have met.
MetEachOther ==
    \A t, u \in Starts : {t, u} \subseteq UnderWay /\ t # u => u \in met[t]

\* A start that is alone has its own semaphore in hand.
AloneHasItsOwn ==
    \A t \in Starts :
        /\ t \in UnderWay /\ met[t] = {} => \A u \in Starts \ {t} : posts[u] # synchSem
        /\ hpc[t] = "arg" /\ met[t] = {} => posts[t] = synchSem
        /\ hpc[t] = "zero" /\ met[t] = {} => posts[t] = synchSem /\ waitsFor[t] = synchSem
        /\ hpc[t] = "returned" /\ met[t] = {} => t \in posted

MetTwo(t) == \E u, v \in met[t] : u # v

\* The set a start will wait for has a server, or will get one from a start that
\* is about to fork.
ServerToCome ==
    \A t \in Starts :
        /\ hpc[t] = "arg" =>
              \/ \E u \in Starts : posts[u] = synchSem
              \/ \E u \in met[t] : hpc[u] = "fork"
        /\ hpc[t] = "zero" =>
              \/ \E u \in Starts : posts[u] = waitsFor[t]
              \/ \E u \in met[t] : hpc[u] = "fork" /\ synchSem = waitsFor[t]
              \/ MetTwo(t)

HandshakeInv ==
    /\ HandshakeTypeOK /\ DieTogether /\ PostsTrue /\ MetEachOther
    /\ AloneHasItsOwn /\ ServerToCome

LEMMA HandshakeInvInit == HandshakeInit => HandshakeInv
  BY HandshakeAssumption
     DEF HandshakeInit, HandshakeInv, HandshakeTypeOK, DieTogether, PostsTrue, MetEachOther,
         AloneHasItsOwn, ServerToCome, UnderWay

LEMMA HandshakeInvStep == HandshakeInv /\ [HandshakeNext]_handshakeVars => HandshakeInv'
<1> SUFFICES ASSUME HandshakeInv, [HandshakeNext]_handshakeVars PROVE HandshakeInv'
  OBVIOUS
<1>a. SEMMNI \in Nat
  BY HandshakeAssumption
<1> USE <1>a DEF HandshakeInv, HandshakeTypeOK, DieTogether, PostsTrue, MetEachOther,
                 AloneHasItsOwn, ServerToCome, MetTwo, UnderWay, HGoto
<1>u. CASE UNCHANGED handshakeVars
  BY <1>u DEF handshakeVars
<1>1. ASSUME NEW t \in Starts, MakeSem(t) PROVE HandshakeInv'
  BY <1>1 DEF MakeSem, Meets
<1>2. ASSUME NEW t \in Starts, ProcessExits,
             UNCHANGED <<synchSem, sets, zeroed, waitsFor, posts, posted, met>>
      PROVE  HandshakeInv'
  BY <1>2 DEF ProcessExits
<1>3. ASSUME NEW t \in Starts, NoSemLeft(t) PROVE HandshakeInv'
  BY <1>2, <1>3 DEF NoSemLeft
<1>4. ASSUME NEW t \in Starts, ForkServer(t) PROVE HandshakeInv'
  <2>1. CASE posts' = [posts EXCEPT ![t] = synchSem] /\ HGoto(t, "arg")
    BY <1>4, <2>1 DEF ForkServer
  <2> QED
    BY <1>2, <1>4, <2>1 DEF ForkServer
<1>5. ASSUME NEW t \in Starts, ReadGlobal(t) PROVE HandshakeInv'
  BY <1>5 DEF ReadGlobal
<1>6. ASSUME NEW t \in Starts, ZeroSem(t) PROVE HandshakeInv'
  BY <1>6 DEF ZeroSem
<1>7. ASSUME NEW t \in Starts, PostSem(t) PROVE HandshakeInv'
  BY <1>7 DEF PostSem
<1> QED
  BY <1>u, <1>1, <1>3, <1>4, <1>5, <1>6, <1>7 DEF HandshakeNext, HandshakeStep

LEMMA HandshakeAlways == HandshakeSpec => []HandshakeInv
  BY HandshakeInvInit, HandshakeInvStep, PTL DEF HandshakeSpec

\* The handshake stays within its types.
THEOREM HandshakeTypeCorrect == HandshakeSpec => []HandshakeTypeOK
<1>1. HandshakeInv => HandshakeTypeOK
  BY DEF HandshakeInv
<1> QED
  BY <1>1, HandshakeAlways, PTL

LEMMA TwoMembers ==
    ASSUME NEW S, IsFiniteSet(S), NEW u \in S, NEW v \in S, u # v
    PROVE  Cardinality(S) >= 2
<1>1. IsFiniteSet(S \ {u}) /\ Cardinality(S \ {u}) = Cardinality(S) - 1
  BY FS_RemoveElement
<1>2. Cardinality(S \ {u}) # 0
  BY <1>1, FS_EmptySet
<1>3. Cardinality(S \ {u}) \in Nat /\ Cardinality(S) \in Nat
  BY <1>1, FS_CardinalityType
<1> QED
  BY <1>1, <1>2, <1>3

\* Among any number of starts that share the global variable, one that was alone
\* returns only when its own server listens, and one that met a single other is
\* answered in the end.
THEOREM HandshakeWaitsAnswered == HandshakeSpec => []WaitsAnswered
<1>1. HandshakeInv => WaitsAnswered
  <2> SUFFICES ASSUME HandshakeInv, NEW t \in Starts
      PROVE  /\ hpc[t] = "returned" /\ met[t] = {} => t \in posted
             /\ Settled /\ hpc[t] = "zero" => waitsFor[t] \in zeroed \/ Cardinality(met[t]) >= 2
    BY DEF WaitsAnswered
  <2>1. hpc[t] = "returned" /\ met[t] = {} => t \in posted
    BY DEF HandshakeInv, AloneHasItsOwn
  <2>2. ASSUME Settled, hpc[t] = "zero" PROVE waitsFor[t] \in zeroed \/ MetTwo(t)
    BY <2>2 DEF HandshakeInv, HandshakeTypeOK, ServerToCome, PostsTrue, Settled
  <2>3. IsFiniteSet(met[t])
    BY HandshakeAssumption, FS_Subset DEF HandshakeInv, HandshakeTypeOK
  <2>4. MetTwo(t) => Cardinality(met[t]) >= 2
    BY <2>3, TwoMembers DEF MetTwo
  <2> QED
    BY <2>1, <2>2, <2>4
<1> QED
  BY <1>1, HandshakeAlways, PTL

(***************************************************************************)
(* OpenFd                                                                  *)
(***************************************************************************)

\* Where the loop is tells what is open.
OpenInv ==
    /\ OpenTypeOK
    /\ opc \in {"getaddrinfo", "socket"} => sockets = 0
    /\ opc \in {"try", "close", "listen"} => sockets = 1
    /\ opc \in {"try", "close"} => addrs > 0
    /\ opc \in {"getaddrinfo", "listen"} => ~listp
    /\ NothingLeaks

LEMMA OpenInvInit == OpenInit => OpenInv
<1> SUFFICES ASSUME OpenInit PROVE OpenInv
  OBVIOUS
<1>1. ~listp /\ {listp, closeFailed} \subseteq BOOLEAN
  BY Zenon DEF OpenInit
<1>2. /\ call \in {"open_clientfd", "open_listenfd"} /\ opc = "getaddrinfo"
      /\ addrs = 0 /\ sockets = 0 /\ rc = "none"
  BY Zenon DEF OpenInit
<1> QED
  BY <1>1, <1>2, OpenAssumption DEF OpenInv, OpenTypeOK, NothingLeaks

LEMMA OpenInvStep == OpenInv /\ [OpenNext]_openVars => OpenInv'
<1> SUFFICES ASSUME OpenInv, [OpenNext]_openVars PROVE OpenInv'
  OBVIOUS
<1> USE OpenAssumption DEF OpenInv, OpenTypeOK, NothingLeaks, OpenReturns
<1>b. {listp, closeFailed}' \subseteq BOOLEAN
  BY Zenon DEF OpenNext, GetAddrInfo, Socket, TryAddr, CloseSocket, Listen, openVars
<1>1. CASE GetAddrInfo
  BY <1>b, <1>1 DEF GetAddrInfo
<1>2. CASE Socket
  BY <1>b, <1>2 DEF Socket
<1>3. CASE TryAddr
  BY <1>b, <1>3 DEF TryAddr
<1>4. CASE CloseSocket
  BY <1>b, <1>4 DEF CloseSocket
<1>5. CASE Listen
  BY <1>b, <1>5 DEF Listen
<1>6. CASE UNCHANGED openVars
  BY <1>b, <1>6 DEF openVars
<1> QED
  BY <1>1, <1>2, <1>3, <1>4, <1>5, <1>6 DEF OpenNext

\* open_clientfd and open_listenfd stay within their types: they never hold two
\* sockets and never walk past the last address.
THEOREM OpenTypeCorrect == OpenSpec => []OpenTypeOK
<1>1. OpenInv => OpenTypeOK
  BY DEF OpenInv
<1> QED
  BY OpenInvInit, OpenInvStep, <1>1, PTL DEF OpenSpec

\* Whichever calls fail for whichever of any number of addresses, the caller of
\* open_clientfd or open_listenfd gets the only descriptor that is open, or none
\* is; and the list of addresses is freed unless a close failed.
THEOREM OpenNothingLeaks == OpenSpec => []NothingLeaks
<1>1. OpenInv => NothingLeaks
  BY DEF OpenInv
<1> QED
  BY OpenInvInit, OpenInvStep, <1>1, PTL DEF OpenSpec

(***************************************************************************)
(* SocketIo                                                                *)
(***************************************************************************)

LEMMA ModSmall ==
    ASSUME NEW a \in Nat, NEW m \in Nat, a < m
    PROVE  a % m = a
  BY SMT

LEMMA ModMinusOne ==
    ASSUME NEW m \in Nat, m > 0
    PROVE  (-1) % m = m - 1
  BY SMT

\* The conversion to size_t keeps a length and makes -1 too large for write.
LEMMA SizeOfLength ==
    /\ \A len \in 0..MaxBytes : ToSize(len) = len
    /\ ToSize(-1) > SSIZE_MAX /\ ToSize(-1) \in Nat
<1>1. SSIZE_MAX \in Nat /\ MaxBytes \in Nat /\ MaxBytes <= SSIZE_MAX
  BY IoAssumption
<1>2. ASSUME NEW len \in 0..MaxBytes PROVE ToSize(len) = len
  <2>1. len \in Nat /\ 2 * SSIZE_MAX + 2 \in Nat /\ len < 2 * SSIZE_MAX + 2
    BY <1>1
  <2> QED
    BY <2>1, ModSmall DEF ToSize
<1>3. ToSize(-1) = 2 * SSIZE_MAX + 1
  <2>1. 2 * SSIZE_MAX + 2 \in Nat /\ 2 * SSIZE_MAX + 2 > 0
    BY <1>1
  <2>2. ToSize(-1) = (2 * SSIZE_MAX + 2) - 1
    BY <2>1, ModMinusOne DEF ToSize
  <2> QED
    BY <1>1, <2>2
<1> QED
  BY <1>1, <1>2, <1>3

\* A sequence is its first k members and the rest.
LEMMA SplitAt ==
    ASSUME NEW S, NEW w \in Seq(S), NEW k \in 0..Len(w)
    PROVE  /\ SubSeq(w, 1, k) \in Seq(S) /\ SubSeq(w, k + 1, Len(w)) \in Seq(S)
           /\ Len(SubSeq(w, 1, k)) = k
           /\ SubSeq(w, 1, k) \o SubSeq(w, k + 1, Len(w)) = w
<1>1. SubSeq(w, 1, k) \o SubSeq(w, k + 1, Len(w)) = SubSeq(w, 1, Len(w))
  <2>1. Len(w) \in Nat
    BY LenProperties
  <2>2. 1 \in 1..(Len(w) + 1) /\ k \in (1 - 1)..Len(w) /\ Len(w) \in k..Len(w)
    BY <2>1
  <2> QED
    BY <2>2, ConcatAdjacentSubSeq
<1>2. SubSeq(w, 1, Len(w)) = w
  BY SubSeqFull
<1>3. SubSeq(w, 1, k) \in Seq(S) /\ Len(SubSeq(w, 1, k)) = k
  BY SubSeqProperties, ElementOfSeq, LenProperties
<1>4. SubSeq(w, k + 1, Len(w)) \in Seq(S)
  BY SubSeqProperties, ElementOfSeq, LenProperties
<1> QED
  BY <1>1, <1>2, <1>3, <1>4

\* All bytes there are, and a writer that is at bufp of what it has to write, or
\* was given a count that the kernel refuses.
StreamTypes ==
    /\ {header, wire, usrbuf, rio, taken} \subseteq Seq(Bytes)
    /\ bufp \in Nat /\ nleft \in Nat /\ want \in Nat
    /\ \/ bufp + nleft = Len(header)
       \/ bufp = 0 /\ nleft > SSIZE_MAX

\* rio_readlineb counts what it stored; the others go on only while they lack some.
Counted ==
    /\ rpc \in {"loop", "returned"} /\ op = "readlineb" => n = Len(usrbuf) + 1
    /\ rpc = "loop" /\ op # "readlineb" => Len(usrbuf) < want

\* Between calls nothing is in hand, and rio_readn does not use the buffer.
NothingKept ==
    /\ rpc = "idle" => usrbuf = <<>>
    /\ op = "readn" => rio = <<>>

StreamInv == StreamTypes /\ Counted /\ NothingKept /\ StreamWhole

LEMMA StreamInit == IoInit => StreamInv
<1> SUFFICES ASSUME IoInit PROVE StreamInv
  OBVIOUS
<1>1. header \in Seq(Bytes) /\ Len(header) \in 0..MaxBytes
  <2>1. PICK m \in 0..MaxBytes : header \in [1..m -> Bytes]
    BY DEF IoInit, BoundedSeq, SeqOf
  <2>2. m \in Nat
    BY IoAssumption
  <2>3. header \in Seq(Bytes) /\ Len(header) = m
    BY <2>1, <2>2
  <2> QED
    BY <2>3
<1>2. /\ wire = <<>> /\ usrbuf = <<>> /\ rio = <<>> /\ taken = <<>> /\ bufp = 0 /\ want = 0
      /\ rpc = "idle" /\ header_len \in {Len(header), -1} /\ nleft = ToSize(header_len)
  BY DEF IoInit
<1>3. nleft \in Nat /\ (nleft = Len(header) \/ nleft > SSIZE_MAX)
  BY <1>1, <1>2, SizeOfLength
<1>4. StreamTypes /\ Counted /\ NothingKept
  BY <1>1, <1>2, <1>3 DEF StreamTypes, Counted, NothingKept
<1>5. taken \o usrbuf \o rio \o wire = SubSeq(header, 1, bufp)
  <2>1. SubSeq(header, 1, 0) = <<>>
    BY SubSeqEmpty
  <2> QED
    BY <1>2, <2>1, ConcatEmptySeq, EmptySeq
<1> QED
  BY <1>1, <1>2, <1>4, <1>5 DEF StreamInv, StreamWhole

\* How the four parts of the stream may be cut without changing it: the writer
\* adds to the end, rio_readn takes from the wire, rio_read fills its buffer from
\* the wire and empties it into the caller's.
LEMMA Extends ==
    ASSUME taken \in Seq(Bytes), usrbuf \in Seq(Bytes), rio \in Seq(Bytes), wire \in Seq(Bytes),
           NEW x \in Seq(Bytes)
    PROVE  taken \o usrbuf \o rio \o (wire \o x) = (taken \o usrbuf \o rio \o wire) \o x
<1> DEFINE a == taken \o usrbuf \o rio
<1>1. a \in Seq(Bytes)
  OBVIOUS
<1> HIDE DEF a
<1>2. a \o (wire \o x) = (a \o wire) \o x
  BY <1>1
<1> QED
  BY <1>2 DEF a

LEMMA CutWire ==
    ASSUME taken \in Seq(Bytes), usrbuf \in Seq(Bytes),
           NEW x \in Seq(Bytes), NEW y \in Seq(Bytes)
    PROVE  taken \o (usrbuf \o x) \o <<>> \o y = taken \o usrbuf \o <<>> \o (x \o y)
<1> DEFINE a == taken \o usrbuf
<1>1. a \in Seq(Bytes) /\ taken \o (usrbuf \o x) = a \o x
  OBVIOUS
<1> HIDE DEF a
<1>2. (a \o x) \o <<>> \o y = a \o <<>> \o (x \o y)
  BY <1>1
<1>3. taken \o (usrbuf \o x) \o <<>> \o y = a \o <<>> \o (x \o y)
  BY <1>1, <1>2
<1> QED
  BY <1>3 DEF a

LEMMA FillBuffer ==
    ASSUME taken \in Seq(Bytes), usrbuf \in Seq(Bytes),
           NEW x \in Seq(Bytes), NEW y \in Seq(Bytes)
    PROVE  taken \o usrbuf \o x \o y = taken \o usrbuf \o <<>> \o (x \o y)
  OBVIOUS

LEMMA CutBuffer ==
    ASSUME taken \in Seq(Bytes), usrbuf \in Seq(Bytes), wire \in Seq(Bytes),
           NEW x \in Seq(Bytes), NEW y \in Seq(Bytes)
    PROVE  taken \o (usrbuf \o x) \o y \o wire = taken \o usrbuf \o (x \o y) \o wire
  OBVIOUS

LEMMA HandOver ==
    ASSUME taken \in Seq(Bytes), usrbuf \in Seq(Bytes), rio \in Seq(Bytes), wire \in Seq(Bytes)
    PROVE  (taken \o usrbuf) \o <<>> \o rio \o wire = taken \o usrbuf \o rio \o wire
<1>1. (taken \o usrbuf) \o <<>> = taken \o usrbuf
  OBVIOUS
<1> QED
  BY <1>1

\* What rio_writen takes from memory is the next piece of the header.
LEMMA WritesHeader ==
    ASSUME StreamInv, NEW k \in 1..nleft, nleft <= SSIZE_MAX
    PROVE  /\ [j \in 1..k |-> Memory(bufp + j)] \in Seq(Bytes)
           /\ SubSeq(header, 1, bufp) \o [j \in 1..k |-> Memory(bufp + j)]
                = SubSeq(header, 1, bufp + k)
           /\ bufp + k <= Len(header)
<1> DEFINE piece == [j \in 1..k |-> Memory(bufp + j)]
<1>1. header \in Seq(Bytes) /\ Len(header) \in Nat /\ bufp \in Nat /\ nleft \in Nat /\ SSIZE_MAX \in Nat
  BY LenProperties, IoAssumption DEF StreamInv, StreamTypes
<1>2. bufp + k <= Len(header) /\ k \in Nat
  BY <1>1 DEF StreamInv, StreamTypes
<1>3. \A j \in 1..k : Memory(bufp + j) = header[bufp + j] /\ header[bufp + j] \in Bytes
  BY <1>1, <1>2, ElementOfSeq DEF Memory
<1>4. piece \in Seq(Bytes) /\ Len(piece) = k
  BY <1>2, <1>3
<1> DEFINE sub == SubSeq(header, bufp + 1, bufp + k)
<1>5. sub \in Seq(Bytes) /\ Len(sub) = k /\ \A j \in 1..k : sub[j] = header[bufp + j]
  <2>1. \A j \in (bufp + 1)..(bufp + k) : header[j] \in Bytes
    BY <1>1, <1>2, ElementOfSeq
  <2> QED
    BY <1>1, <1>2, <2>1, SubSeqProperties
<1>6. piece = sub
  BY <1>3, <1>4, <1>5, SeqEqual
<1>7. SubSeq(header, 1, bufp) \o sub = SubSeq(header, 1, bufp + k)
  <2>1. 1 \in 1..(Len(header) + 1) /\ bufp \in (1 - 1)..Len(header) /\ bufp + k \in bufp..Len(header)
    BY <1>1, <1>2
  <2> QED
    BY <1>1, <2>1, ConcatAdjacentSubSeq
<1> QED
  BY <1>2, <1>4, <1>6, <1>7

\* A step of the reader that only cuts the stream in another way.
LEMMA StreamRecut ==
    ASSUME StreamInv, UNCHANGED <<header, bufp, nleft>>, want' \in Nat,
           {wire', usrbuf', rio', taken'} \subseteq Seq(Bytes),
           taken' \o usrbuf' \o rio' \o wire' = taken \o usrbuf \o rio \o wire,
           Counted', NothingKept'
    PROVE  StreamInv'
  BY Zenon DEF StreamInv, StreamTypes, StreamWhole

LEMMA StreamStep == StreamInv /\ [IoNext]_ioVars => StreamInv'
<1> SUFFICES ASSUME StreamInv, [IoNext]_ioVars PROVE StreamInv'
  OBVIOUS
<1> USE DEF StreamInv
<1>s. /\ header \in Seq(Bytes) /\ wire \in Seq(Bytes) /\ usrbuf \in Seq(Bytes)
      /\ rio \in Seq(Bytes) /\ taken \in Seq(Bytes) /\ want \in Nat
  BY DEF StreamTypes
<1>l. Len(header) \in Nat /\ Len(wire) \in Nat /\ Len(usrbuf) \in Nat /\ Len(rio) \in Nat
  BY <1>s, LenProperties
<1>c. \A a, b \in Seq(Bytes) : a \o b \in Seq(Bytes) /\ Len(a \o b) = Len(a) + Len(b)
  BY ConcatProperties
<1>1. CASE Writen
  <2>1. PICK k \in 1..nleft :
          /\ wire' = wire \o [j \in 1..k |-> Memory(bufp + j)]
          /\ bufp' = bufp + k /\ nleft' = nleft - k
    BY <1>1 DEF Writen
  <2>2. UNCHANGED <<header, op, rpc, want, n, usrbuf, rio, taken>> /\ nleft <= SSIZE_MAX
    BY <1>1 DEF Writen, readerVars
  <2> DEFINE piece == [j \in 1..k |-> Memory(bufp + j)]
  <2>3. /\ piece \in Seq(Bytes)
        /\ SubSeq(header, 1, bufp) \o piece = SubSeq(header, 1, bufp + k)
        /\ bufp + k <= Len(header)
    BY <2>2, WritesHeader
  <2>4. wire' = wire \o piece
    BY <2>1
  <2> HIDE DEF piece
  <2>5. wire' \in Seq(Bytes)
    BY <1>s, <1>c, <2>3, <2>4, Zenon
  <2>6. bufp' \in Nat /\ nleft' \in Nat /\ bufp' + nleft' = Len(header)
    <3>1. bufp \in Nat /\ nleft \in Nat /\ k \in 1..nleft /\ bufp + nleft = Len(header)
      BY <2>1, <2>2, IoAssumption DEF StreamTypes
    <3>2. bufp' = bufp + k /\ nleft' = nleft - k
      BY <2>1
    <3> QED
      BY <1>l, <3>1, <3>2
  <2>7. StreamTypes'
    BY <1>s, <2>2, <2>5, <2>6 DEF StreamTypes
  <2>8. taken \o usrbuf \o rio \o (wire \o piece) = (taken \o usrbuf \o rio \o wire) \o piece
    BY <1>s, <2>3, Extends
  <2>9. taken \o usrbuf \o rio \o (wire \o piece) = SubSeq(header, 1, bufp + k)
    BY <2>3, <2>8, Zenon DEF StreamWhole
  <2>10. StreamWhole'
    BY <2>1, <2>2, <2>3, <2>4, <2>9, Zenon DEF StreamWhole
  <2> QED
    BY <2>2, <2>7, <2>10 DEF Counted, NothingKept
<1>2. CASE WritenEnds \/ LineFull \/ ReadEof \/ ReadError \/ UNCHANGED ioVars
  <2>1. /\ UNCHANGED <<header, bufp, nleft, wire, usrbuf, rio, taken, want, n, op>>
        /\ \/ rpc' = rpc
           \/ rpc = "loop" /\ rpc' \in {"returned", "failed"}
    BY <1>2 DEF WritenEnds, LineFull, ReadEof, ReadError, ioVars, writerVars, readerVars
  <2>2. Counted' /\ NothingKept'
    BY <2>1 DEF Counted, NothingKept
  <2> QED
    BY <1>s, <2>1, <2>2, StreamRecut
<1>3. CASE Calls
  <2>1. /\ UNCHANGED <<header, bufp, nleft, wire, rio, taken>> /\ usrbuf = <<>> /\ usrbuf' = <<>>
        /\ want' \in Nat
    BY <1>3, IoAssumption DEF Calls, writerVars, NothingKept
  <2>2. Counted' /\ NothingKept'
    BY <1>3, IoAssumption, EmptySeq DEF Calls, Counted, NothingKept
  <2> QED
    BY <1>s, <2>1, <2>2, StreamRecut
<1>4. CASE Readn
  <2>1. PICK k \in 1..Lesser(want - Len(usrbuf), Len(wire)) :
          /\ usrbuf' = usrbuf \o SubSeq(wire, 1, k)
          /\ wire' = SubSeq(wire, k + 1, Len(wire))
    BY <1>4 DEF Readn
  <2>2. /\ UNCHANGED <<header, bufp, nleft, rio, taken, op, want>>
        /\ op = "readn" /\ rio = <<>> /\ rpc = "loop"
        /\ rpc' = IF Len(usrbuf') = want THEN "returned" ELSE "loop"
    BY <1>4 DEF Readn, writerVars, NothingKept
  <2>3. k \in 0..Len(wire) /\ k <= want - Len(usrbuf)
    BY <1>s, <1>l, <2>1 DEF Lesser
  <2> DEFINE x == SubSeq(wire, 1, k)
             y == SubSeq(wire, k + 1, Len(wire))
  <2>4. x \in Seq(Bytes) /\ y \in Seq(Bytes) /\ x \o y = wire /\ Len(x) = k
    BY <1>s, <2>3, SplitAt
  <2>5. usrbuf' = usrbuf \o x /\ wire' = y
    BY <2>1
  <2> HIDE DEF x, y
  <2>6. taken \o (usrbuf \o x) \o <<>> \o y = taken \o usrbuf \o <<>> \o (x \o y)
    BY <1>s, <2>4, CutWire
  <2>8. usrbuf' \in Seq(Bytes) /\ Len(usrbuf') = Len(usrbuf) + k
    BY <1>s, <1>c, <2>4, <2>5, Zenon
  <2>7. Counted' /\ NothingKept'
    <3>1. rpc' = "loop" => Len(usrbuf') < want'
      BY <1>s, <1>l, <2>2, <2>3, <2>8
    <3> QED
      BY <2>2, <3>1 DEF Counted, NothingKept
  <2>9. taken' \o usrbuf' \o rio' \o wire' = taken \o usrbuf \o rio \o wire
    BY <2>2, <2>4, <2>5, <2>6, Zenon
  <2> QED
    BY <1>s, <2>2, <2>4, <2>5, <2>7, <2>8, <2>9, StreamRecut
<1>5. CASE Refill
  <2>1. PICK k \in 1..Lesser(RioBufSize, Len(wire)) :
          rio' = SubSeq(wire, 1, k) /\ wire' = SubSeq(wire, k + 1, Len(wire))
    BY <1>5 DEF Refill
  <2>2. /\ UNCHANGED <<header, bufp, nleft, usrbuf, taken, op, rpc, want, n>>
        /\ op # "readn" /\ rio = <<>>
    BY <1>5 DEF Refill, writerVars
  <2>3. k \in 0..Len(wire)
    BY <1>l, <2>1, IoAssumption DEF Lesser
  <2> DEFINE x == SubSeq(wire, 1, k)
             y == SubSeq(wire, k + 1, Len(wire))
  <2>4. x \in Seq(Bytes) /\ y \in Seq(Bytes) /\ x \o y = wire
    BY <1>s, <2>3, SplitAt
  <2>5. rio' = x /\ wire' = y
    BY <2>1
  <2> HIDE DEF x, y
  <2>6. taken \o usrbuf \o x \o y = taken \o usrbuf \o <<>> \o (x \o y)
    BY <1>s, <2>4, FillBuffer
  <2>7. Counted' /\ NothingKept'
    BY <2>2 DEF Counted, NothingKept
  <2>8. taken' \o usrbuf' \o rio' \o wire' = taken \o usrbuf \o rio \o wire
    BY <2>2, <2>4, <2>5, <2>6, Zenon
  <2> QED
    BY <1>s, <2>2, <2>4, <2>5, <2>7, <2>8, StreamRecut
<1>6. ASSUME NEW k \in 0..Len(rio), CopyOut(k),
             UNCHANGED <<header, bufp, nleft, wire, taken, op, want>>,
             rpc = "loop", rpc' # "idle",
             op = "readlineb" => n' = n + 1 /\ k = 1,
             op = "readnb" => k <= want - Len(usrbuf) /\ (rpc' = "loop" => Len(usrbuf') # want),
             op \in {"readnb", "readlineb"}
      PROVE  StreamInv'
  <2> DEFINE x == SubSeq(rio, 1, k)
             y == SubSeq(rio, k + 1, Len(rio))
  <2>1. x \in Seq(Bytes) /\ y \in Seq(Bytes) /\ x \o y = rio /\ Len(x) = k
    BY <1>s, SplitAt
  <2>2. usrbuf' = usrbuf \o x /\ rio' = y
    BY <1>6 DEF CopyOut
  <2> HIDE DEF x, y
  <2>3. taken \o (usrbuf \o x) \o y \o wire = taken \o usrbuf \o (x \o y) \o wire
    BY <1>s, <2>1, CutBuffer
  <2>4. usrbuf' \in Seq(Bytes) /\ Len(usrbuf') = Len(usrbuf) + k
    BY <1>s, <1>c, <2>1, <2>2
  <2>5. Counted' /\ NothingKept'
    <3>1. op = "readlineb" => n' = Len(usrbuf') + 1
      BY <1>6, <1>l, <2>4 DEF Counted
    <3>2. rpc' = "loop" /\ op = "readnb" => Len(usrbuf') < want
      <4>1. op = "readnb" => k <= want - Len(usrbuf) /\ (rpc' = "loop" => Len(usrbuf') # want)
        BY <1>6
      <4>2. Len(usrbuf') = Len(usrbuf) + k /\ k \in Nat
        BY <1>l, <2>4
      <4>3. want \in Nat /\ Len(usrbuf) \in Nat
        BY <1>s, <1>l
      <4> QED
        BY <4>1, <4>2, <4>3
    <3>3. op' = op /\ op \in {"readnb", "readlineb"} /\ want' = want /\ rpc' # "idle"
      BY <1>6
    <3> QED
      BY <3>1, <3>2, <3>3 DEF Counted, NothingKept
  <2>6. taken' \o usrbuf' \o rio' \o wire' = taken \o usrbuf \o rio \o wire
    BY <1>6, <2>1, <2>2, <2>3, Zenon
  <2> QED
    BY <1>s, <1>6, <2>1, <2>2, <2>4, <2>5, <2>6, StreamRecut
<1>7. CASE Readnb
  <2>1. /\ CopyOut(Lesser(want - Len(usrbuf), Len(rio)))
        /\ UNCHANGED <<header, bufp, nleft, wire, taken, op, want>>
        /\ op = "readnb" /\ rpc = "loop" /\ rpc' # "idle"
        /\ rpc' = "loop" => Len(usrbuf') # want
    BY <1>7 DEF Readnb, writerVars
  <2> DEFINE k == Lesser(want - Len(usrbuf), Len(rio))
  <2>2. k \in 0..Len(rio) /\ k <= want - Len(usrbuf)
    BY <1>s, <1>l, <2>1 DEF Lesser, Counted
  <2> HIDE DEF k
  <2>3. CopyOut(k)
    BY <2>1 DEF k
  <2> QED
    BY <1>6, <2>1, <2>2, <2>3
<1>8. CASE Readlineb
  <2>1. /\ CopyOut(1) /\ n' = n + 1 /\ rpc = "loop" /\ rpc' # "idle" /\ op = "readlineb"
        /\ UNCHANGED <<header, bufp, nleft, wire, taken, op, want>> /\ rio # <<>>
    BY <1>8 DEF Readlineb, writerVars
  <2>2. 1 \in 0..Len(rio)
    BY <1>s, <2>1, EmptySeq
  <2> QED
    BY <1>6, <2>1, <2>2
<1>9. CASE CallerTakes
  <2>1. /\ taken' = taken \o SubSeq(usrbuf, 1, Returns)
        /\ UNCHANGED <<header, bufp, nleft, wire, rio, op, want>>
        /\ usrbuf' = <<>> /\ rpc' = "idle"
    BY <1>9 DEF CallerTakes, writerVars
  <2>2. Returns = Len(usrbuf)
    BY <1>9, <1>l DEF CallerTakes, Returns, Counted
  <2>3. taken' = taken \o usrbuf
    BY <1>s, <2>1, <2>2, SubSeqFull
  <2>4. taken' \in Seq(Bytes)
    BY <1>s, <1>c, <2>3, Zenon
  <2>5. (taken \o usrbuf) \o <<>> \o rio \o wire = taken \o usrbuf \o rio \o wire
    BY <1>s, HandOver
  <2>6. taken' \o usrbuf' \o rio' \o wire' = taken \o usrbuf \o rio \o wire
    BY <2>1, <2>3, <2>5, Zenon
  <2>7. Counted' /\ NothingKept'
    BY <2>1 DEF Counted, NothingKept
  <2>8. usrbuf' \in Seq(Bytes)
    BY <2>1
  <2> QED
    BY <1>s, <2>1, <2>4, <2>6, <2>7, <2>8, StreamRecut
<1> QED
  BY <1>1, <1>2, <1>3, <1>4, <1>5, <1>7, <1>8, <1>9 DEF IoNext

\* However the kernel splits the stream and whatever calls are mixed, the reader
\* gets the bytes of the header, all of them in order and none from behind it,
\* for headers and buffers of any size and also when the header's length is -1.
THEOREM IoStreamWhole == IoSpec => []StreamWhole
<1>1. StreamInv => StreamWhole
  BY DEF StreamInv
<1> QED
  BY StreamInit, StreamStep, <1>1, PTL DEF IoSpec

\* The line so far has no newline and leaves room for one more byte or the zero.
LineInv ==
    rpc = "loop" /\ op = "readlineb" =>
        /\ \A j \in 1..Len(usrbuf) : usrbuf[j] # Newline
        /\ n <= want

LEMMA ReadInit == IoInit => LineInv /\ ReadWhole
  BY DEF IoInit, LineInv, ReadWhole

\* A step of the writer, or a stuttering step.
LEMMA ReadUnchanged ==
    ASSUME LineInv, ReadWhole, UNCHANGED <<op, rpc, want, n, usrbuf, rio>>, AtEof => AtEof'
    PROVE  LineInv' /\ ReadWhole'
<1>1. Returns' = Returns
  BY DEF Returns
<1>2. usrbuf' # <<>> => Last(usrbuf') = Last(usrbuf)
  BY DEF Last
<1> QED
  BY <1>1, <1>2 DEF LineInv, ReadWhole

LEMMA ReadStep == StreamInv /\ LineInv /\ ReadWhole /\ [IoNext]_ioVars => LineInv' /\ ReadWhole'
<1> SUFFICES ASSUME StreamInv, LineInv, ReadWhole, [IoNext]_ioVars PROVE LineInv' /\ ReadWhole'
  OBVIOUS
<1>s. usrbuf \in Seq(Bytes) /\ rio \in Seq(Bytes) /\ want \in Nat /\ Len(usrbuf) \in Nat
  BY LenProperties DEF StreamInv, StreamTypes
<1>1. CASE Writen \/ WritenEnds \/ UNCHANGED ioVars
  <2>1. UNCHANGED <<op, rpc, want, n, usrbuf, rio>>
    BY <1>1 DEF Writen, WritenEnds, ioVars, readerVars
  <2>2. AtEof => AtEof'
    BY <1>1 DEF Writen, WritenEnds, ioVars, writerVars, AtEof
  <2> QED
    BY <2>1, <2>2, ReadUnchanged
<1>2. CASE Calls
  <2>1. rpc' = "loop" /\ n' = 1 /\ usrbuf' = <<>> /\ want' \in Nat \ {0}
    BY <1>2, IoAssumption DEF Calls
  <2>2. n' <= want' /\ Len(usrbuf') = 0
    BY <2>1
  <2> QED
    BY <2>1, <2>2 DEF LineInv, ReadWhole
<1>3. CASE Readn \/ Readnb
  <2>1. op' # "readlineb" /\ want' \in Nat
    BY <1>3, <1>s DEF Readn, Readnb
  <2>2. rpc' = "returned" => Len(usrbuf') = want'
    BY <1>3 DEF Readn, Readnb
  <2>3. ~(rpc' = "returned" /\ Len(usrbuf') < want')
    BY <2>1, <2>2
  <2> QED
    BY <2>1, <2>3 DEF LineInv, ReadWhole
<1>4. CASE Refill
  <2>1. rpc = "loop" /\ UNCHANGED <<op, rpc, want, n, usrbuf>>
    BY <1>4 DEF Refill
  <2> QED
    BY <2>1 DEF LineInv, ReadWhole
<1>5. CASE Readlineb
  <2>1. /\ op = "readlineb" /\ op' = op /\ want' = want /\ rpc = "loop" /\ n < want /\ n' = n + 1
        /\ rpc' = IF Head(rio) = Newline THEN "returned" ELSE "loop"
        /\ usrbuf' = usrbuf \o SubSeq(rio, 1, 1) /\ rio # <<>>
    BY <1>5 DEF Readlineb, CopyOut
  <2>2. n = Len(usrbuf) + 1
    BY <2>1 DEF StreamInv, Counted
  <2>3. /\ SubSeq(rio, 1, 1) \in Seq(Bytes) /\ Len(SubSeq(rio, 1, 1)) = 1
        /\ SubSeq(rio, 1, 1)[1] = Head(rio)
    BY <1>s, <2>1
  <2>4. /\ Len(usrbuf') = n
        /\ \A j \in 1..Len(usrbuf) : usrbuf'[j] = usrbuf[j]
        /\ usrbuf'[n] = Head(rio)
    BY <1>s, <2>1, <2>2, <2>3, ConcatProperties
  <2>5. \A j \in 1..(n - 1) : usrbuf'[j] # Newline
    BY <1>s, <2>1, <2>2, <2>4 DEF LineInv
  <2>6. CASE Head(rio) = Newline
    <3>1. rpc' = "returned" /\ usrbuf' # <<>> /\ Last(usrbuf') = Newline
      BY <1>s, <2>1, <2>2, <2>4, <2>6 DEF Last
    <3>2. Returns' = n /\ Len(usrbuf') < want
      BY <1>s, <2>1, <2>2, <2>4 DEF Returns
    <3> QED
      BY <2>1, <2>4, <2>5, <3>1, <3>2 DEF LineInv, ReadWhole
  <2>7. CASE Head(rio) # Newline
    <3>1. rpc' = "loop" /\ n' <= want'
      BY <1>s, <2>1, <2>2, <2>7
    <3>2. \A j \in 1..Len(usrbuf') : usrbuf'[j] # Newline
      BY <1>s, <2>2, <2>4, <2>5, <2>7
    <3> QED
      BY <3>1, <3>2 DEF LineInv, ReadWhole
  <2> QED
    BY <2>6, <2>7
<1>6. CASE LineFull \/ ReadEof
  <2>1. /\ rpc = "loop" /\ rpc' = "returned" /\ UNCHANGED <<op, want, n, usrbuf, rio>>
        /\ AtEof' <=> AtEof
    BY <1>6 DEF LineFull, ReadEof, writerVars, AtEof
  <2>2. op = "readlineb" => n = Len(usrbuf) + 1 /\ n <= want
                            /\ \A j \in 1..Len(usrbuf) : usrbuf[j] # Newline
    BY <2>1 DEF StreamInv, Counted, LineInv
  <2>3. \/ op = "readlineb" /\ n >= want
        \/ rio = <<>> /\ AtEof /\ (op = "readlineb" => n < want)
    BY <1>6 DEF LineFull, ReadEof
  <2>4. op = "readlineb" => /\ Returns' = Len(usrbuf) /\ Len(usrbuf) < want
                            /\ Len(usrbuf) = want - 1 \/ (rio = <<>> /\ AtEof)
    BY <1>s, <2>1, <2>2, <2>3 DEF Returns
  <2>5. op = "readlineb" => \A j \in 1..(Len(usrbuf) - 1) : usrbuf[j] # Newline
    BY <1>s, <2>2
  <2>6. CASE op = "readlineb"
    BY <2>1, <2>4, <2>5, <2>6 DEF ReadWhole, LineInv
  <2>7. CASE op # "readlineb"
    BY <2>1, <2>3, <2>7 DEF ReadWhole, LineInv
  <2> QED
    BY <2>6, <2>7
<1>7. CASE ReadError \/ CallerTakes
  <2>1. rpc' \in {"failed", "idle"}
    BY <1>7 DEF ReadError, CallerTakes
  <2> QED
    BY <2>1 DEF LineInv, ReadWhole
<1> QED
  BY <1>1, <1>2, <1>3, <1>4, <1>5, <1>6, <1>7 DEF IoNext

\* rio_readn and rio_readnb return less than n, and rio_readlineb a line without
\* its newline, only at the end of the stream or of the caller's buffer; a line
\* is returned with its true length.
THEOREM IoReadWhole == IoSpec => []ReadWhole
  BY StreamInit, StreamStep, ReadInit, ReadStep, PTL DEF IoSpec

-----------------------------------------------------------------------------
(***************************************************************************)
(* The sum.                                                                *)
(***************************************************************************)

\* A behaviour of the sum is one of every part: of the one it is about, and of
\* the others, which stay as they began.
LEMMA CommonBehavesAsParts ==
    MCSpec => /\ FsSpec /\ DirsSpec /\ StringsSpec /\ ConfigSpec
              /\ IoSpec /\ OpenSpec /\ SemSpec /\ HandshakeSpec
<1>1. MCInit => /\ FsInit /\ DirsInit /\ StringsInit /\ ConfigInit
                /\ IoInit /\ OpenInit /\ SemInit /\ HandshakeInit
  BY DEF MCInit
<1>2. [MCNext]_<<part, all>> =>
        /\ [FsNext]_fsVars /\ [DirsNext]_dirsVars /\ [StringsNext]_stringVars
        /\ [ConfigNext]_configVars /\ [IoNext]_ioVars /\ [OpenNext]_openVars
        /\ [SemNext]_semVars /\ [HandshakeNext]_handshakeVars
  BY DEF MCNext, all
<1> QED
  BY <1>1, <1>2, PTL DEF MCSpec, FsSpec, DirsSpec, StringsSpec, ConfigSpec, IoSpec, OpenSpec,
     SemSpec, HandshakeSpec

\* Every part of the sum is well typed all the time, also while another one
\* acts: the loops over directories, volumes, addresses and names stay inside
\* what they go through, and counters inside their bounds.
THEOREM CommonTypeCorrect == MCSpec => []CommonTypeOK
  BY CommonBehavesAsParts, FsTypeCorrect, DirsTypeCorrect, OpenTypeCorrect, SemTypeCorrect,
     HandshakeTypeCorrect, PTL DEF CommonTypeOK
=============================================================================
