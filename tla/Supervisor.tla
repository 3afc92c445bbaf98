---------------------------- MODULE Supervisor -----------------------------
(***************************************************************************)
(* hoststack_supervisor: a daemon that restarts containers whose record    *)
(* says running although their process is gone, after a reboot or when     *)
(* their server was killed.                                                *)
(*                                                                         *)
(* A loop lists the registry every three seconds and starts a thread for   *)
(* each record of that kind.  The thread sleeps three seconds, reads the   *)
(* record again, and if nothing changed marks the container stopped and    *)
(* starts it the way `hoststack start -d` does.  Threads, servers and the  *)
(* users' commands interleave as in ContainerLifecycle; the threads of one *)
(* supervisor die together.  The global variable that they share is the    *)
(* subject of StartHandshake.                                              *)
(***************************************************************************)
EXTENDS ContainerLifecycle

CONSTANTS
    Threads,   \* slots for restart threads; a slot whose thread starts a
               \* container is used up, so this bounds the restarts
    Before,    \* runs of before the reboot: their containers died with the host
    Prompt,    \* TRUE: a sleep of three seconds outlasts what anybody else was
               \* doing with that container, users apart, when it began
    TornReads  \* TRUE: list() may meet data.json while somebody rewrites it

ASSUME SupervisorAssumption ==
    /\ Threads \subseteq Cmds
    /\ Before \subseteq Cmds \ Threads
    /\ Existing = {}
    /\ {Prompt, TornReads} \subseteq BOOLEAN

VARIABLES
    loop,      \* what the polling loop does: "list", "check" or "dead"
    vector,    \* the records it has listed and not looked at yet
    tpc,       \* tpc[t]: what thread t does next
    tinfo      \* tinfo[t]: the record it is about

loopVars == <<loop, vector>>
threadVars == <<tpc, tinfo>>
supVars == <<loopVars, threadVars>>
allVars == <<vars, supVars>>

ThreadSteps == {"none", "asleep", "mark", "start", "started", "lost"}

SupTypeOK ==
    /\ TypeOK
    /\ loop \in {"list", "check", "dead"}
    /\ vector \subseteq Info
    /\ tpc \in [Threads -> ThreadSteps]
    /\ tinfo \in [Threads -> Info]

\* What a registry may say of the containers of before: each has an id and a
\* pid of its own.
Lost(f) ==
    /\ \A s \in Before : f[s].id \in Ids /\ f[s] = Running([Unset EXCEPT !.id = f[s].id], f[s].pid)
    /\ \A s, r \in Before : s # r => f[s].id # f[r].id /\ f[s].pid # f[r].pid
    /\ \A s \in Before : f[s].pid \in Pids

ASSUME BeforeAssumption == \E f \in [Before -> Info] : Lost(f)

\* The host was rebooted: the registry says running of some containers, and
\* nothing runs or is mounted.  Which id and which pid they had does not matter.
OldInfo == CHOOSE f \in [Before -> Info] : Lost(f)

SupInit ==
    /\ \E lost \in SUBSET Before :
        /\ cmd = [c \in Cmds |-> IF c \in lost THEN [NoCmd EXCEPT !.info = OldInfo[c]] ELSE NoCmd]
        /\ db = [id \in Ids |-> IF \E s \in lost : OldInfo[s].id = id
                                THEN OldInfo[CHOOSE s \in lost : OldInfo[s].id = id] ELSE NoRecord]
        /\ sockdirs = {OldInfo[s].id : s \in lost}
        /\ layers = {OldInfo[s].id : s \in lost}
    /\ pid = [c \in Cmds |-> IF c \in Before THEN OldInfo[c].pid ELSE NoPid]
    /\ cpc = [c \in Cmds |-> IF c \in Before THEN "done" ELSE "idle"]
    /\ sem = [c \in Cmds |-> IF c \in Before THEN 0 ELSE 1]
    /\ spc = [c \in Cmds |-> IF c \in Before THEN "exited" ELSE "none"]
    /\ cst = [c \in Cmds |-> IF c \in Before THEN "reaped" ELSE "none"]
    /\ spoke = [c \in Cmds |-> c \in Before]
    /\ gone = {}
    /\ sock = [i \in Ids |-> NoServer]
    /\ mounted = [i \in Ids |-> 0]
    /\ foreign = {} /\ strayed = FALSE /\ wiped = {}
    /\ loop = "list" /\ vector = {}
    /\ tpc = [t \in Threads |-> "none"]
    /\ tinfo = [t \in Threads |-> Unset]

-----------------------------------------------------------------------------
(* The polling loop *)

\* The whole process dies: the loop and every thread.  Servers live on.
Dies ==
    /\ loop' = "dead"
    /\ vector' = {}
    /\ tpc' = [t \in Threads |-> IF tpc[t] = "none" THEN "none" ELSE "lost"]
    /\ cpc' = [c \in Cmds |-> IF c \in Threads /\ cpc[c] \in {"fork", "wait"}
                              THEN "failed" ELSE cpc[c]]
    /\ UNCHANGED <<cmd, srvVars, instVars, dbVars, fsVars, envVars, tinfo>>

\* Mutant: what was removed is listed as well.
Records_Removed == {db[id] : id \in Ids}

Records == {db[id] : id \in {i \in Ids : db[i] # NoRecord}}

\* ContainerDao::list answers NULL for a file that is missing, has no text yet
\* or holds an empty array, and the loop reads through the answer.
ListsNothing ==
    /\ loop = "list"
    /\ Records = {} \/ TornReads
    /\ Dies

List ==
    /\ loop = "list" /\ Records # {}
    /\ vector' = Records
    /\ loop' = "check"
    /\ UNCHANGED <<vars, threadVars>>

\* sleep(3) after the last record.
ListDone ==
    /\ loop = "check" /\ vector = {}
    /\ loop' = "list"
    /\ UNCHANGED <<vars, vector, threadVars>>

IsDeadClaim(info) == info # NoRecord /\ IsRunning(info) /\ ~Live(info.pid)

FreeSlots == {t \in Threads : tpc[t] = "none"}

\* One record: a thread if it claims to run and /proc/<pid> is not there.  A
\* pthread_create that fails goes unnoticed.  Slots are interchangeable.
CheckRecord ==
    /\ loop = "check" /\ vector # {}
    /\ LET info == CHOOSE i \in vector : TRUE
           t == CHOOSE u \in FreeSlots : TRUE
       IN  /\ vector' = vector \ {info}
           /\ IF IsDeadClaim(info) /\ FreeSlots # {}
              THEN /\ tpc' = [tpc EXCEPT ![t] = "asleep"]
                   /\ tinfo' = [tinfo EXCEPT ![t] = info]
              ELSE UNCHANGED threadVars
    /\ UNCHANGED <<vars, loop>>

LoopStep == ListsNothing \/ List \/ ListDone \/ CheckRecord

-----------------------------------------------------------------------------
(* run_checkandrestart *)

Restarting(t) == tpc[t] \in {"mark", "start"} \/ cpc[t] \in {"fork", "wait"}

\* No server and no other thread is doing anything with container id.
AtRest(id) ==
    /\ \A c \in Cmds : IdOf(c) = id =>
        /\ cpc[c] \notin {"fork", "wait"}
        /\ spc[c] \in {"none", "relay", "exited"}
        /\ spc[c] = "relay" => cst[c] = "running"
        /\ spc[c] = "exited" => cst[c] \notin {"zombie", "unopened"}
    /\ \A t \in Threads : tinfo[t].id = id => ~Restarting(t)

ThreadGoto(t, step) == tpc' = [tpc EXCEPT ![t] = step]

\* The thread returns; its slot can be used again.
ThreadEnds(t) ==
    /\ ThreadGoto(t, "none")
    /\ tinfo' = [tinfo EXCEPT ![t] = Unset]
    /\ UNCHANGED <<vars, loopVars>>

\* Mutants: the thread acts on what the poll saw three seconds ago; it looks
\* the container up by get_container_by_id_or_name.
Recheck_Trusting(t) ==
    /\ tpc[t] = "asleep"
    /\ Prompt => AtRest(tinfo[t].id)
    /\ ThreadGoto(t, "mark")
    /\ UNCHANGED <<vars, loopVars, tinfo>>

Recheck_Marks(t) ==
    /\ tpc[t] = "asleep"
    /\ Prompt => AtRest(tinfo[t].id)
    /\ IF IsDeadClaim(db[tinfo[t].id])
       THEN Put(tinfo[t].id, Checked(db[tinfo[t].id])) ELSE UNCHANGED dbVars
    /\ ThreadGoto(t, "none")
    /\ tinfo' = [tinfo EXCEPT ![t] = Unset]
    /\ UNCHANGED <<cliVars, srvVars, instVars, fsVars, envVars, loopVars>>

\* Three seconds later: get_container_by_id, which leaves the record as it is.
\* When the record is gone the empty answer is read: the thread ends or the
\* process dies.
Recheck(t) ==
    /\ tpc[t] = "asleep"
    /\ LET info == db[tinfo[t].id]
       IN  /\ Prompt => AtRest(tinfo[t].id)
           /\ \/ /\ IsDeadClaim(info)
                 /\ ThreadGoto(t, "mark")
                 /\ tinfo' = [tinfo EXCEPT ![t] = info]
                 /\ UNCHANGED <<vars, loopVars>>
              \/ ~IsDeadClaim(info) /\ ThreadEnds(t)
              \/ info = NoRecord /\ Dies

\* change_status_to_stop, which reads an empty answer in the same way.
Mark(t) ==
    /\ tpc[t] = "mark"
    /\ LET id == tinfo[t].id
       IN  \/ /\ IF db[id] # NoRecord THEN Put(id, Stopped(db[id])) ELSE UNCHANGED dbVars
              /\ ThreadGoto(t, "start")
              /\ UNCHANGED <<cliVars, srvVars, instVars, fsVars, envVars, loopVars, tinfo>>
           \/ db[id] = NoRecord /\ Dies

\* ContainerStartCli::startContainer with the id and -d.
ThreadStart(t) ==
    /\ tpc[t] = "start"
    /\ LET id == tinfo[t].id
       IN  IF Matching(id) = {} \/ IsRunning(Checked(db[id]))
           THEN ThreadEnds(t)
           ELSE /\ Lookup(t, "start", id, TRUE, StartOrRefuse)
                /\ ThreadGoto(t, "started")
                /\ UNCHANGED <<loopVars, tinfo>>

\* ContainerService::start: a fork that fails ends the whole process.
ThreadFork(t) ==
    /\ cpc[t] = "fork"
    /\ \/ /\ CliGoto(t, "wait") /\ SrvGoto(t, "clone")
          /\ UNCHANGED <<sem, instVars, dbVars, fsVars, envVars, supVars>>
       \/ SyscallsFail /\ Dies

ThreadStep(t) ==
    \/ Recheck(t) \/ Mark(t) \/ ThreadStart(t) \/ ThreadFork(t)
    \/ WaitForServer(t) /\ UNCHANGED supVars

-----------------------------------------------------------------------------
Users == Cmds \ (Threads \cup Before)

Server(s) == ServerStep(s) /\ UNCHANGED supVars

Instance(s) == InstanceStep(s) /\ UNCHANGED supVars

Speaks(s) == InstanceSpeaks(s) /\ UNCHANGED supVars

\* Of the servers that die, those that were serving: that is how a container
\* comes to be recorded as running with nobody to mark it stopped.
Environment(s) ==
    /\ \/ InstanceExits(s)
       \/ spc[s] = "relay" /\ ServerKilled(s)
    /\ UNCHANGED supVars

UserCommand(c) == (CliStep(c) \/ UserStep(c)) /\ UNCHANGED supVars

SupNext ==
    \/ LoopStep
    \/ \E t \in Threads : ThreadStep(t)
    \/ \E c \in Users : UserCommand(c)
    \/ \E s \in Cmds : Server(s) \/ Instance(s) \/ Speaks(s) \/ Environment(s)

\* The loop and the threads go on, and so do servers and commands; containers
\* print something.
SupFairness ==
    /\ WF_allVars(LoopStep)
    /\ \A t \in Threads : WF_allVars(ThreadStep(t))
    /\ \A c \in Users : WF_allVars(CliStep(c) /\ UNCHANGED supVars)
    /\ \A s \in Cmds : WF_allVars(Server(s)) /\ WF_allVars(Instance(s)) /\ WF_allVars(Speaks(s))

SupSpec == SupInit /\ [][SupNext]_allVars /\ SupFairness

-----------------------------------------------------------------------------
(* Properties *)

\* However polls and restarts overlap, no thread starts a container that runs,
\* and none marks a container that has come back as stopped: a container at rest
\* that is recorded as stopped does not run.
RevivedOnce ==
    \A id \in Ids :
        /\ Cardinality(LiveInstances(id)) <= 1
        /\ AtRest(id) /\ db[id] # NoRecord /\ ~IsRunning(db[id]) => LiveInstances(id) = {}

Spent == \A t \in Threads : tpc[t] \in {"started", "lost"}

\* The record claims to run, its process is gone and no server will mark it.
Abandoned(id) ==
    IsDeadClaim(db[id]) /\ \A s \in Cmds : IdOf(s) = id => spc[s] \in {"none", "exited"}

\* A container that is recorded as running and is dead gets a server again,
\* unless the supervisor itself died, or a user's command named the container
\* first: any lookup marks it stopped, and the supervisor leaves stopped
\* containers alone.
DeadRevived ==
    \A id \in Ids :
        Abandoned(id) ~>
            \/ \E t \in Threads : IdOf(t) = id /\ spc[t] = "relay"
            \/ loop = "dead" \/ Spent
            \/ \E c \in Users : IdOf(c) = id
=============================================================================
