------------------------------- MODULE OpenFd ------------------------------
(***************************************************************************)
(* open_clientfd and open_listenfd of common/socket_io.cpp: both walk the  *)
(* addresses that getaddrinfo found until one works, and any call on the   *)
(* way may fail.  A descriptor whose close fails is gone all the same.     *)
(***************************************************************************)
EXTENDS Integers

CONSTANT MaxAddrs   \* bound: addresses that getaddrinfo finds

ASSUME OpenAssumption == MaxAddrs \in Nat

VARIABLES
    call,       \* "open_clientfd" or "open_listenfd"
    opc,        \* what it does next
    addrs,      \* addresses from p on; 0: p is NULL
    sockets,    \* descriptors it has open
    listp,      \* the list of addresses is allocated
    closeFailed,\* history: a close failed inside the loop
    rc          \* the result: "none" before, "fd", -1 or -2

openVars == <<call, opc, addrs, sockets, listp, closeFailed, rc>>

OpenTypeOK ==
    /\ call \in {"open_clientfd", "open_listenfd"}
    /\ opc \in {"getaddrinfo", "socket", "try", "close", "listen", "returned"}
    /\ addrs \in 0..MaxAddrs
    /\ sockets \in 0..1
    /\ {listp, closeFailed} \subseteq BOOLEAN
    /\ rc \in {"none", "fd"} \cup {"-1", "-2"}

OpenInit ==
    /\ call \in {"open_clientfd", "open_listenfd"}
    /\ opc = "getaddrinfo"
    /\ addrs = 0 /\ sockets = 0
    /\ listp = FALSE /\ closeFailed = FALSE
    /\ rc = "none"

OpenReturns(result) == opc' = "returned" /\ rc' = result

GetAddrInfo ==
    /\ opc = "getaddrinfo"
    /\ \/ /\ addrs' \in 1..MaxAddrs /\ listp' = TRUE
          /\ opc' = "socket" /\ UNCHANGED rc
       \/ OpenReturns("-2") /\ UNCHANGED <<addrs, listp>>
    /\ UNCHANGED <<call, sockets, closeFailed>>

\* socket for the next address; without one more, freeaddrinfo and -1.
Socket ==
    /\ opc = "socket"
    /\ \/ /\ addrs > 0 /\ sockets' = sockets + 1 /\ opc' = "try"
          /\ UNCHANGED <<addrs, listp, rc>>
       \/ /\ addrs > 0 /\ addrs' = addrs - 1
          /\ UNCHANGED <<opc, sockets, listp, rc>>
       \/ /\ addrs = 0 /\ listp' = FALSE /\ OpenReturns("-1")
          /\ UNCHANGED <<addrs, sockets>>
    /\ UNCHANGED <<call, closeFailed>>

\* connect or bind; when it works, freeaddrinfo.
TryAddr ==
    /\ opc = "try"
    /\ \/ listp' = FALSE /\ call = "open_clientfd" /\ OpenReturns("fd")
       \/ listp' = FALSE /\ call = "open_listenfd" /\ opc' = "listen" /\ UNCHANGED rc
       \/ opc' = "close" /\ UNCHANGED <<listp, rc>>
    /\ UNCHANGED <<call, addrs, sockets, closeFailed>>

\* Mutant: the next address is tried without closing the socket.
CloseSocket_Not ==
    /\ opc = "close"
    /\ addrs' = addrs - 1 /\ opc' = "socket"
    /\ UNCHANGED <<call, sockets, listp, closeFailed, rc>>

\* close before the next address is tried; when it fails, -1 at once.
CloseSocket ==
    /\ opc = "close"
    /\ sockets' = sockets - 1
    /\ \/ addrs' = addrs - 1 /\ opc' = "socket" /\ UNCHANGED <<closeFailed, rc>>
       \/ closeFailed' = TRUE /\ OpenReturns("-1") /\ UNCHANGED addrs
    /\ UNCHANGED <<call, listp>>

\* Mutant: the socket is left open when listen fails.
Listen_Leaks ==
    /\ opc = "listen"
    /\ OpenReturns("fd") \/ OpenReturns("-1")
    /\ UNCHANGED <<call, addrs, sockets, listp, closeFailed>>

Listen ==
    /\ opc = "listen"
    /\ \/ OpenReturns("fd") /\ UNCHANGED sockets
       \/ OpenReturns("-1") /\ sockets' = sockets - 1
    /\ UNCHANGED <<call, addrs, listp, closeFailed>>

OpenNext == GetAddrInfo \/ Socket \/ TryAddr \/ CloseSocket \/ Listen

OpenSpec == OpenInit /\ [][OpenNext]_openVars

-----------------------------------------------------------------------------
(* Properties *)

\* Whichever calls fail for whichever addresses, the caller gets the only
\* descriptor that is open, or none is; and the list of addresses is freed,
\* unless a close failed.
NothingLeaks ==
    opc = "returned" =>
        /\ sockets = IF rc = "fd" THEN 1 ELSE 0
        /\ listp => closeFailed
=============================================================================
