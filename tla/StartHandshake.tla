--------------------------- MODULE StartHandshake --------------------------
(***************************************************************************)
(* How ContainerService::start waits for the container's server: it makes  *)
(* a semaphore of value 1, forks the server, and waits for the value 0,    *)
(* which the server sets when it listens (util/container_service.cpp,      *)
(* pty/pty_exec_util.cpp).  The identifier is kept in a global variable,   *)
(* and the supervisor calls start from several threads.                    *)
(*                                                                         *)
(* The servers come up here; one that dies first leaves its starter        *)
(* waiting, see ContainerLifecycle.                                        *)
(***************************************************************************)
EXTENDS Integers, FiniteSets

CONSTANTS
    Starts,   \* threads of one process, each in one call of start
    SEMMNI    \* semaphore sets the system has room for

ASSUME HandshakeAssumption == IsFiniteSet(Starts) /\ SEMMNI \in Nat

VARIABLES
    synchSem,  \* the global variable
    sets,      \* semaphore sets made so far, by anybody; they are numbered from 1
    zeroed,    \* the sets whose value is 0
    hpc,       \* hpc[t]: what the thread does next
    waitsFor,  \* waitsFor[t]: the set it gave to zero
    posts,     \* posts[t]: the set that t's server will zero; 0: no server yet
    posted,    \* the starts whose server has done so
    met        \* met[t]: the other starts that were under way during t's

handshakeVars == <<synchSem, sets, zeroed, hpc, waitsFor, posts, posted, met>>

HandshakeTypeOK ==
    /\ synchSem \in 0..SEMMNI /\ sets \in 0..SEMMNI
    /\ zeroed \subseteq 1..SEMMNI
    /\ hpc \in [Starts -> {"idle", "fork", "arg", "zero", "returned", "dead"}]
    /\ waitsFor \in [Starts -> 0..SEMMNI] /\ posts \in [Starts -> 0..SEMMNI]
    /\ posted \subseteq Starts
    /\ met \in [Starts -> SUBSET Starts]

HandshakeInit ==
    /\ sets \in 0..SEMMNI
    /\ synchSem = 0 /\ zeroed = {}
    /\ hpc = [t \in Starts |-> "idle"]
    /\ waitsFor = [t \in Starts |-> 0] /\ posts = [t \in Starts |-> 0]
    /\ posted = {}
    /\ met = [t \in Starts |-> {}]

UnderWay == {t \in Starts : hpc[t] \in {"fork", "arg", "zero"}}

HGoto(t, step) == hpc' = [hpc EXCEPT ![t] = step]

\* History: t begins.
Meets(t) ==
    met' = [u \in Starts |->
              IF u = t THEN UnderWay ELSE met[u] \cup (IF u \in UnderWay THEN {t} ELSE {})]

\* err_exit in one thread ends the process.
ProcessExits == hpc' = [t \in Starts |-> IF hpc[t] = "returned" THEN hpc[t] ELSE "dead"]

\* synchSem = SemUtil::get(IPC_PRIVATE, 1).  Nobody removes a set.
MakeSem(t) ==
    /\ hpc[t] = "idle" /\ sets < SEMMNI
    /\ sets' = sets + 1 /\ synchSem' = sets + 1
    /\ HGoto(t, "fork")
    /\ Meets(t)
    /\ UNCHANGED <<zeroed, waitsFor, posts, posted>>

NoSemLeft(t) ==
    /\ hpc[t] = "idle" /\ sets = SEMMNI
    /\ ProcessExits
    /\ UNCHANGED <<synchSem, sets, zeroed, waitsFor, posts, posted, met>>

\* Mutant: the server makes a semaphore of its own.
ForkServer_OwnSem(t) ==
    /\ hpc[t] = "fork"
    /\ posts' = [posts EXCEPT ![t] = SEMMNI]
    /\ HGoto(t, "arg")
    /\ UNCHANGED <<synchSem, sets, zeroed, waitsFor, posted, met>>

\* The server gets a copy of the global variable.  fork may fail.
ForkServer(t) ==
    /\ hpc[t] = "fork"
    /\ \/ posts' = [posts EXCEPT ![t] = synchSem] /\ HGoto(t, "arg")
       \/ UNCHANGED posts /\ ProcessExits
    /\ UNCHANGED <<synchSem, sets, zeroed, waitsFor, posted, met>>

\* The thread reads the global variable again.
ReadGlobal(t) ==
    /\ hpc[t] = "arg"
    /\ waitsFor' = [waitsFor EXCEPT ![t] = synchSem]
    /\ HGoto(t, "zero")
    /\ UNCHANGED <<synchSem, sets, zeroed, posts, posted, met>>

\* SemUtil::zero, which goes on after EINTR.
ZeroSem(t) ==
    /\ hpc[t] = "zero" /\ waitsFor[t] \in zeroed
    /\ HGoto(t, "returned")
    /\ UNCHANGED <<synchSem, sets, zeroed, waitsFor, posts, posted, met>>

\* SemUtil::set(synchSem, 0) in the server, which outlives its starter.
PostSem(t) ==
    /\ posts[t] # 0 /\ t \notin posted
    /\ posted' = posted \cup {t}
    /\ zeroed' = zeroed \cup {posts[t]}
    /\ UNCHANGED <<synchSem, sets, hpc, waitsFor, posts, met>>

HandshakeStep(t) ==
    \/ MakeSem(t) \/ NoSemLeft(t) \/ ForkServer(t) \/ ReadGlobal(t) \/ ZeroSem(t)
    \/ PostSem(t)

HandshakeNext == \E t \in Starts : HandshakeStep(t)

HandshakeSpec == HandshakeInit /\ [][HandshakeNext]_handshakeVars

-----------------------------------------------------------------------------
(* Properties *)

\* Every start has forked its server and every server has come up.
Settled ==
    \A t \in Starts :
        hpc[t] \notin {"fork", "arg"} /\ (posts[t] # 0 => t \in posted)

\* A start that was alone returns only when its own server listens, which the
\* command connects to next.  And when all is settled nobody waits in vain,
\* unless it met two others: one of them may make its semaphore between
\* another's and that one's fork, and the thread waits for a semaphore that no
\* server was told of.
WaitsAnswered ==
    \A t \in Starts :
        /\ hpc[t] = "returned" /\ met[t] = {} => t \in posted
        /\ Settled /\ hpc[t] = "zero" => waitsFor[t] \in zeroed \/ Cardinality(met[t]) >= 2
=============================================================================
