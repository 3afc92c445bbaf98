------------------------- MODULE ContainerLifecycle ------------------------
(***************************************************************************)
(* The life of containers across the processes that take part in it.       *)
(*                                                                         *)
(* Each hoststack command is a process of its own (cli/*.cpp).  `run` and  *)
(* `start` fork a server (ContainerService::start, pty_run_container) that *)
(* clones the container into new PID and mount namespaces, waits for its   *)
(* first output, records it, listens on the container's socket, releases   *)
(* the command through a semaphore, relays the terminal until the          *)
(* container ends, unmounts its file systems and marks it stopped.  `stop` *)
(* signals a pid it read from the registry, `rm` removes directories and   *)
(* the record, `attach` connects to the socket.                            *)
(*                                                                         *)
(* One action is one access to state that processes share: the registry, a *)
(* directory, a mount, a socket, a semaphore, a signal.  A registry call   *)
(* is one step here, which is more than ContainerDao gives its callers:    *)
(* what goes wrong in this module goes wrong with a perfect registry too.  *)
(***************************************************************************)
EXTENDS ContainerInfo, Integers, FiniteSets

CONSTANTS
    Cmds,         \* command processes, each runs one command
    Kinds,        \* the commands the users of this instance give
    Detach,       \* how run and start are given: with -d (TRUE), without
    Existing,     \* ids that were run and stopped before
    NoRecord,     \* the id is not in the registry
    NoServer,     \* nobody listens on the socket
    Sequential,   \* TRUE: a command is given when the ones before it returned and
                  \* the servers they left behind are relaying or have ended
    PidReuse,     \* TRUE: the kernel gives a freed pid to a new process
    SlowReuse,    \* TRUE: but neither while a command still goes by that pid, nor
                  \* before the server of the container that had it has ended
    SyscallsFail, \* TRUE: fork, clone, mount, bind and rm -rf may fail
    ServerMayDie  \* TRUE: the server of a container may be killed

CliOps == {"run", "start", "stop", "rm", "attach", "exec"}

ASSUME LifecycleAssumption ==
    /\ Kinds \subseteq CliOps
    /\ Detach \subseteq BOOLEAN
    /\ Existing \subseteq Ids
    /\ NoRecord \notin Info
    /\ NoServer \notin Cmds
    /\ {Sequential, PidReuse, SlowReuse, SyscallsFail, ServerMayDie} \subseteq BOOLEAN

VARIABLES
    cmd,      \* cmd[c]: arguments and local variables of command c
    cpc,      \* cpc[c]: what command c does next
    sem,      \* sem[c]: the semaphore between command c and its server
    spc,      \* spc[c]: what the server that command c forked does next
    cst,      \* cst[c]: the container process that server cloned
    pid,      \* pid[c]: its pid on the host
    spoke,    \* spoke[c]: it has written to its terminal
    db,       \* the registry
    gone,     \* ids delete_by_id has removed
    sockdirs, \* ids with a directory repo/containers/<id>
    sock,     \* sock[id]: the server bound to hoststack.socket in it
    layers,   \* ids with a layer directory (diff, work, merged)
    mounted,  \* mounted[id]: sets of file systems mounted on merged
    foreign,  \* pids of processes that are no containers
    strayed,  \* `stop` signalled, or `exec` joined, a process it did not mean
    wiped     \* ids whose mounted file systems `rm -rf` went through

cliVars == <<cmd, cpc>>
srvVars == <<sem, spc>>
instVars == <<cst, pid, spoke>>
dbVars == <<db, gone>>
fsVars == <<sockdirs, sock, layers, mounted, wiped>>
envVars == <<foreign, strayed>>
vars == <<cliVars, srvVars, instVars, dbVars, fsVars, envVars>>

CliSteps == {"idle", "fork", "wait", "connect", "setns", "client", "stop_get", "term",
             "sleep", "remove", "remove_layer", "delete", "done", "failed"}

ServerSteps == {"none", "clone", "header", "record", "listen", "post", "relay",
                "reap", "umount", "umount_volume", "mark", "exited"}

\* A process that died before it opened its end of the terminal is "unopened":
\* the master hears of the end of a terminal only once somebody has opened it.
InstanceStates == {"none", "mounting", "running", "zombie", "unopened", "reaped"}

Cmd == [op : CliOps \cup {"none"}, key : Keys \cup {NoName},
        detach : BOOLEAN,   \* -d of run and start
        info : Info,        \* the container it is about
        found : Info]       \* what it looked up last: the pid to signal or join

NoCmd == [op |-> "none", key |-> NoName, detach |-> FALSE, info |-> Unset,
          found |-> Unset]

TypeOK ==
    /\ cmd \in [Cmds -> Cmd]
    /\ cpc \in [Cmds -> CliSteps]
    /\ sem \in [Cmds -> {0, 1}]
    /\ spc \in [Cmds -> ServerSteps]
    /\ cst \in [Cmds -> InstanceStates]
    /\ pid \in [Cmds -> Pids \cup {NoPid}]
    /\ spoke \in [Cmds -> BOOLEAN]
    /\ db \in [Ids -> Info \cup {NoRecord}]
    /\ gone \subseteq Ids
    /\ sockdirs \subseteq Ids
    /\ sock \in [Ids -> Cmds \cup {NoServer}]
    /\ layers \subseteq Ids
    /\ mounted \in [Ids -> Nat]
    /\ foreign \subseteq Pids
    /\ strayed \in BOOLEAN
    /\ wiped \subseteq Ids

Init ==
    /\ cmd = [c \in Cmds |-> NoCmd]
    /\ cpc = [c \in Cmds |-> "idle"]
    /\ sem = [c \in Cmds |-> 1]
    /\ spc = [c \in Cmds |-> "none"]
    /\ cst = [c \in Cmds |-> "none"]
    /\ pid = [c \in Cmds |-> NoPid]
    /\ spoke = [c \in Cmds |-> FALSE]
    /\ db = [id \in Ids |-> IF id \in Existing
                            THEN Stopped([Unset EXCEPT !.id = id]) ELSE NoRecord]
    /\ gone = {}
    /\ sockdirs = Existing
    /\ sock = [id \in Ids |-> NoServer]
    /\ layers = Existing
    /\ mounted = [id \in Ids |-> 0]
    /\ foreign = {}
    /\ strayed = FALSE
    /\ wiped = {}

-----------------------------------------------------------------------------
(* Instances and pids.  The instance of server s is the container it       *)
(* cloned; a zombie keeps its pid, and its entry in /proc, until reaped.   *)

IdOf(s) == cmd[s].info.id

HasProcess(s) == cst[s] \in {"mounting", "running", "zombie", "unopened"}

LiveInstances(id) == {s \in Cmds : IdOf(s) = id /\ cst[s] \in {"mounting", "running"}}

\* access("/proc/<pid>") == 0, and also: kill(pid) does not fail with ESRCH.
Live(p) == p \in foreign \/ \E s \in Cmds : HasProcess(s) /\ pid[s] = p

\* Command c has read pid p from the registry and has yet to use it.
GoesBy(c, p) == cpc[c] \in {"setns", "term", "sleep"} /\ cmd[c].found.pid = p

FreePids ==
    {p \in Pids :
        /\ ~Live(p)
        /\ PidReuse \/ \A s \in Cmds : pid[s] # p
        /\ SlowReuse => \A c \in Cmds : ~GoesBy(c, p) /\ (pid[c] = p => spc[c] = "exited")}

Settled ==
    \A c \in Cmds :
        /\ cpc[c] \in {"idle", "client", "done", "failed"}
        /\ spc[c] \in {"none", "relay", "exited"}
        /\ spc[c] = "relay" => cst[c] = "running"
        /\ spc[c] = "exited" => ~HasProcess(c)

-----------------------------------------------------------------------------
(* Registry calls.  Two records may match a key (a name given twice): the  *)
(* code takes the first in the file, here it is any of them.               *)

Matching(key) == {id \in Ids : db[id] # NoRecord /\ Matches(db[id], key)}

\* get_container_by_id_or_name answers with this and writes it back.
Checked(info) ==
    IF info.status = CONTAINER_RUNNING /\ ~Live(info.pid) THEN Stopped(info) ELSE info

Put(id, info) == db' = [db EXCEPT ![id] = info] /\ UNCHANGED gone

CliGoto(c, step) == cpc' = [cpc EXCEPT ![c] = step] /\ UNCHANGED cmd

\* The command ends without having done anything.
CliFails(c) == CliGoto(c, "failed")

Given(c, op) ==
    /\ cpc[c] = "idle" /\ op \in Kinds
    /\ Sequential => Settled

\* get_container_by_id_or_name(key), on behalf of command c, which goes on to
\* Then(info) with the answer; if that is "failed" it prints why and ends.
Lookup(c, op, key, detach, Then(_)) ==
    /\ \/ Matching(key) = {} /\ CliFails(c) /\ UNCHANGED dbVars
       \/ \E id \in Matching(key) :
            LET info == Checked(db[id])
            IN  /\ Put(id, info)
                /\ cpc' = [cpc EXCEPT ![c] = Then(info)]
                /\ cmd' = [cmd EXCEPT ![c] = [op |-> op, key |-> key, detach |-> detach,
                                              info |-> info, found |-> info]]
    /\ UNCHANGED <<srvVars, instVars, fsVars, envVars>>

BeginWithGet(c, op, key, detach, Then(_)) ==
    Given(c, op) /\ Lookup(c, op, key, detach, Then)

IsRunning(info) == info.status = CONTAINER_RUNNING

-----------------------------------------------------------------------------
(* run, start *)

\* The records with that name; this lookup leaves them as they are.
get_container_by_name(name) == {id \in Ids : db[id] # NoRecord /\ db[id].name = name}

\* Mutant: the name is not looked up.
Run_AnyName(c) ==
    /\ Given(c, "run")
    /\ \E name \in Names \cup {NoName}, detach \in Detach,
          id \in Ids \ (Existing \cup {IdOf(s) : s \in Cmds}) :
        /\ cmd' = [cmd EXCEPT ![c] = [op |-> "run", key |-> NoName, detach |-> detach,
                                      info |-> [Unset EXCEPT !.id = id, !.name = name],
                                      found |-> Unset]]
        /\ cpc' = [cpc EXCEPT ![c] = "fork"]
        /\ sockdirs' = sockdirs \cup {id}
        /\ layers' = layers \cup {id}
    /\ UNCHANGED <<srvVars, instVars, dbVars, sock, mounted, wiped, envVars>>

\* ContainerRunCli::handleCommand: the name must be new, then gen_id and
\* ContainerFs::create_container.
Run(c) ==
    /\ Given(c, "run")
    /\ \E name \in Names \cup {NoName}, detach \in Detach :
        IF name # NoName /\ get_container_by_name(name) # {}
        THEN CliFails(c) /\ UNCHANGED fsVars
        ELSE \E id \in Ids \ (Existing \cup {IdOf(s) : s \in Cmds}) :
               /\ cmd' = [cmd EXCEPT ![c] = [op |-> "run", key |-> NoName, detach |-> detach,
                                             info |-> [Unset EXCEPT !.id = id, !.name = name],
                                             found |-> Unset]]
               /\ cpc' = [cpc EXCEPT ![c] = "fork"]
               /\ sockdirs' = sockdirs \cup {id}
               /\ layers' = layers \cup {id}
               /\ UNCHANGED <<sock, mounted, wiped>>
    /\ UNCHANGED <<srvVars, instVars, dbVars, envVars>>

\* Mutant: a running container is started as well.
Start_Running(c) ==
    \E key \in Keys, detach \in Detach :
        BeginWithGet(c, "start", key, detach, LAMBDA info : "fork")

\* ContainerStartCli::startContainer: only a stopped container is started.
StartOrRefuse(info) == IF IsRunning(info) THEN "failed" ELSE "fork"

Start(c) ==
    \E key \in Keys, detach \in Detach :
        BeginWithGet(c, "start", key, detach, StartOrRefuse)

\* ContainerService::start: the semaphore is 1, the child becomes the server.
Fork(c) ==
    /\ cpc[c] = "fork"
    /\ \/ /\ CliGoto(c, "wait")
          /\ spc' = [spc EXCEPT ![c] = "clone"]
       \/ SyscallsFail /\ CliFails(c) /\ UNCHANGED spc
    /\ UNCHANGED <<sem, instVars, dbVars, fsVars, envVars>>

\* SemUtil::zero returns once the server has set the semaphore to 0; then
\* pty_client, or with -d the id is printed.
WaitForServer(c) ==
    /\ cpc[c] = "wait" /\ sem[c] = 0
    /\ CliGoto(c, IF cmd[c].detach THEN "done" ELSE "connect")
    /\ UNCHANGED <<srvVars, instVars, dbVars, fsVars, envVars>>

-----------------------------------------------------------------------------
(* attach, and the client that run and start become *)

Attach(c) ==
    \E key \in Keys :
        BeginWithGet(c, "attach", key, FALSE,
                     LAMBDA info : IF IsRunning(info) THEN "connect" ELSE "failed")

\* What is done to pid p on behalf of container id reaches another process.
Strays(p, id) ==
    \/ p \in foreign
    \/ \E s \in Cmds : HasProcess(s) /\ pid[s] = p /\ IdOf(s) # id

\* ContainerExecCli::handleCommand.
Exec(c) ==
    \E key \in Keys :
        BeginWithGet(c, "exec", key, FALSE,
                     LAMBDA info : IF IsRunning(info) THEN "setns" ELSE "failed")

\* ContainerService::exec joins the namespaces of the pid that was read; a
\* process that is gone, or a zombie, has none.  pty_exec is PtyExec's subject.
SetNs(c) ==
    /\ cpc[c] = "setns"
    /\ LET p == cmd[c].found.pid
       IN  IF p \in foreign \/ \E s \in Cmds : cst[s] \in {"mounting", "running"} /\ pid[s] = p
           THEN CliGoto(c, "client") /\ strayed' = (strayed \/ Strays(p, cmd[c].found.id))
           ELSE CliFails(c) /\ UNCHANGED strayed
    /\ UNCHANGED <<srvVars, instVars, dbVars, fsVars, foreign>>

\* connect on hoststack.socket: refused unless its server still listens.
Connect(c) ==
    /\ cpc[c] = "connect"
    /\ CliGoto(c, IF sock[IdOf(c)] # NoServer /\ spc[sock[IdOf(c)]] \notin {"none", "exited"}
                  THEN "client" ELSE "failed")
    /\ UNCHANGED <<srvVars, instVars, dbVars, fsVars, envVars>>

\* End of input, or the server closed the connection.
ClientEnds(c) ==
    /\ cpc[c] = "client"
    /\ CliGoto(c, "done")
    /\ UNCHANGED <<srvVars, instVars, dbVars, fsVars, envVars>>

-----------------------------------------------------------------------------
(* stop, rm *)

Stop(c) ==
    \E key \in Keys :
        BeginWithGet(c, "stop", key, FALSE,
                     LAMBDA info : IF IsRunning(info) THEN "term" ELSE "failed")

\* removeContainer: a running one only with -f, after ContainerService::stop,
\* which looks the container up for itself.
Remove(c) ==
    \E key \in Keys, force \in BOOLEAN :
        BeginWithGet(c, "rm", key, FALSE,
                     LAMBDA info : IF ~IsRunning(info) THEN "remove"
                                   ELSE IF force THEN "stop_get" ELSE "failed")

\* rm ignores whether the stop worked.
AfterStop(c) == IF cmd[c].op = "rm" THEN "remove" ELSE "done"

\* ContainerService::stop, called by rm -f.  The pid it signals is read now; what
\* is removed afterwards is the container of the first lookup.
StopGet(c) ==
    /\ cpc[c] = "stop_get"
    /\ \/ Matching(cmd[c].key) = {} /\ CliGoto(c, AfterStop(c)) /\ UNCHANGED dbVars
       \/ \E id \in Matching(cmd[c].key) :
            LET info == Checked(db[id])
            IN  /\ Put(id, info)
                /\ IF IsRunning(info)
                   THEN /\ cmd' = [cmd EXCEPT ![c].found = info]
                        /\ cpc' = [cpc EXCEPT ![c] = "term"]
                   ELSE CliGoto(c, AfterStop(c))
    /\ UNCHANGED <<srvVars, instVars, fsVars, envVars>>

\* kill(pid, SIGTERM).  The first process of a PID namespace dies of it only
\* if it wants to: InstanceExits covers that.
SigTerm(c) ==
    /\ cpc[c] = "term"
    /\ LET p == cmd[c].found.pid
       IN  /\ CliGoto(c, IF Live(p) THEN "sleep" ELSE AfterStop(c))
           /\ strayed' = (strayed \/ Strays(p, cmd[c].found.id))
    /\ UNCHANGED <<srvVars, instVars, dbVars, fsVars, foreign>>

\* What a killed process leaves, if it had opened its terminal or had not.
Corpse(s, opened) ==
    IF cst[s] = "unopened" \/ (cst[s] = "mounting" /\ ~spoke[s] /\ ~opened)
    THEN "unopened" ELSE "zombie"

\* Three seconds later, kill(pid, SIGKILL) with the same pid.
SigKill(c) ==
    /\ cpc[c] = "sleep"
    /\ LET p == cmd[c].found.pid
       IN  /\ \E opened \in BOOLEAN :
                cst' = [s \in Cmds |-> IF HasProcess(s) /\ pid[s] = p THEN Corpse(s, opened)
                                       ELSE cst[s]]
           /\ foreign' = foreign \ {p}
           /\ strayed' = (strayed \/ Strays(p, cmd[c].found.id))
    /\ CliGoto(c, AfterStop(c))
    /\ UNCHANGED <<srvVars, pid, spoke, dbVars, fsVars>>

\* ContainerFs::remove_container, first command: rm -rf containers/<id>.  If it
\* fails, the rest is left out; the socket may be gone all the same.
RemoveSockdir(c) ==
    /\ cpc[c] = "remove"
    /\ \/ /\ sockdirs' = sockdirs \ {IdOf(c)}
          /\ sock' = [sock EXCEPT ![IdOf(c)] = NoServer]
          /\ CliGoto(c, "remove_layer")
       \/ /\ SyscallsFail
          /\ sock' \in {sock, [sock EXCEPT ![IdOf(c)] = NoServer]}
          /\ CliFails(c)
          /\ UNCHANGED sockdirs
    /\ UNCHANGED <<srvVars, instVars, dbVars, layers, mounted, wiped, envVars>>

\* Second command: rm -rf of the layer.  Through a mounted file system it
\* deletes what is mounted and fails on the mount point.  If it fails for
\* another reason, directories a mount needs may be gone or not.
RemoveLayer(c) ==
    /\ cpc[c] = "remove_layer"
    /\ IF mounted[IdOf(c)] > 0
       THEN /\ wiped' = wiped \cup {IdOf(c)}
            /\ CliFails(c)
            /\ UNCHANGED layers
       ELSE /\ \/ layers' = layers \ {IdOf(c)} /\ CliGoto(c, "delete")
               \/ /\ SyscallsFail
                  /\ layers' \in {layers, layers \ {IdOf(c)}}
                  /\ CliFails(c)
            /\ UNCHANGED wiped
    /\ UNCHANGED <<srvVars, instVars, dbVars, sockdirs, sock, mounted, envVars>>

\* delete_by_id.  If somebody else removed the record in the meantime the
\* empty optional is read: the process dies or deletes nothing.
DeleteRecord(c) ==
    /\ cpc[c] = "delete"
    /\ IF db[IdOf(c)] # NoRecord
       THEN /\ db' = [db EXCEPT ![IdOf(c)] = NoRecord]
            /\ gone' = gone \cup {IdOf(c)}
            /\ CliGoto(c, "done")
       ELSE /\ UNCHANGED dbVars
            /\ \E end \in {"done", "failed"} : CliGoto(c, end)
    /\ UNCHANGED <<srvVars, instVars, fsVars, envVars>>

-----------------------------------------------------------------------------
(* The server: pty_run_container *)

SrvGoto(s, step) == spc' = [spc EXCEPT ![s] = step]

\* ptyClone.
SrvClone(s) ==
    /\ spc[s] = "clone"
    /\ \/ \E p \in FreePids :
            /\ pid' = [pid EXCEPT ![s] = p]
            /\ cst' = [cst EXCEPT ![s] = "mounting"]
            /\ SrvGoto(s, "header")
       \/ SyscallsFail /\ SrvGoto(s, "exited") /\ UNCHANGED <<pid, cst>>
    /\ UNCHANGED <<cliVars, sem, spoke, dbVars, fsVars, envVars>>

\* Mutants: the read is repeated when it fails; the callback is not called.
SrvHeader_Retries(s) ==
    /\ spc[s] = "header" /\ spoke[s]
    /\ SrvGoto(s, "record")
    /\ UNCHANGED <<cliVars, sem, instVars, dbVars, fsVars, envVars>>

SrvHeader_NoCallback(s) ==
    /\ spc[s] = "header" /\ (spoke[s] \/ cst[s] \in {"zombie", "reaped"})
    /\ SrvGoto(s, "listen")
    /\ UNCHANGED <<cliVars, sem, instVars, dbVars, fsVars, envVars>>

\* header_len = read(masterFd, ...) blocks until the container writes or its
\* end of the terminal is closed: for good if it was never opened.
SrvHeader(s) ==
    /\ spc[s] = "header"
    /\ spoke[s] \/ cst[s] \in {"zombie", "reaped"}
    /\ SrvGoto(s, "record")
    /\ UNCHANGED <<cliVars, sem, instVars, dbVars, fsVars, envVars>>

\* Mutants: update adds a record that is not there; the status is not set.
SrvRecord_Inserts(s) ==
    /\ spc[s] = "record"
    /\ Put(IdOf(s), Running(cmd[s].info, pid[s]))
    /\ SrvGoto(s, "listen")
    /\ UNCHANGED <<cliVars, sem, instVars, fsVars, envVars>>

SrvRecord_NoStatus(s) ==
    /\ spc[s] = "record"
    /\ IF cmd[s].op = "run" \/ db[IdOf(s)] # NoRecord
       THEN Put(IdOf(s), [cmd[s].info EXCEPT !.pid = pid[s]])
       ELSE UNCHANGED dbVars
    /\ SrvGoto(s, "listen")
    /\ UNCHANGED <<cliVars, sem, instVars, fsVars, envVars>>

\* callback(childPid): insert for run; update, which replaces a record that
\* is there and does nothing otherwise, for start.
SrvRecord(s) ==
    /\ spc[s] = "record"
    /\ IF cmd[s].op = "run" \/ db[IdOf(s)] # NoRecord
       THEN Put(IdOf(s), Running(cmd[s].info, pid[s]))
       ELSE UNCHANGED dbVars
    /\ SrvGoto(s, "listen")
    /\ UNCHANGED <<cliVars, sem, instVars, fsVars, envVars>>

\* socket, unlink, bind, listen, init_pool.  A failure ends the server.
SrvListen(s) ==
    /\ spc[s] = "listen"
    /\ \/ /\ IdOf(s) \in sockdirs
          /\ sock' = [sock EXCEPT ![IdOf(s)] = s]
          /\ SrvGoto(s, "post")
       \/ /\ IdOf(s) \notin sockdirs \/ SyscallsFail
          /\ SrvGoto(s, "exited")
          /\ UNCHANGED sock
    /\ UNCHANGED <<cliVars, sem, instVars, dbVars, sockdirs, layers, mounted, wiped, envVars>>

\* Mutant: the command is not released.
SrvPost_Forgotten(s) ==
    /\ spc[s] = "post"
    /\ SrvGoto(s, "relay")
    /\ UNCHANGED <<cliVars, sem, instVars, dbVars, fsVars, envVars>>

\* SemUtil::set(synchSem, 0).
SrvPost(s) ==
    /\ spc[s] = "post"
    /\ sem' = [sem EXCEPT ![s] = 0]
    /\ SrvGoto(s, "relay")
    /\ UNCHANGED <<cliVars, instVars, dbVars, fsVars, envVars>>

\* Mutant: the server does not wait for its child.
SrvRelayEnds_NoWait(s) ==
    /\ spc[s] = "relay"
    /\ cst[s] \in {"running", "zombie"}
    /\ SrvGoto(s, "umount")
    /\ UNCHANGED <<cliVars, sem, instVars, dbVars, fsVars, envVars>>

\* The select loop ends when nobody holds the container's terminal: the
\* container ended, or it closed its terminal and goes on.  That the loop gets
\* there is PtyRelay's subject; here it is never blocked by a client.
SrvRelayEnds(s) ==
    /\ spc[s] = "relay"
    /\ cst[s] \in {"running", "zombie"}
    /\ SrvGoto(s, "reap")
    /\ UNCHANGED <<cliVars, sem, instVars, dbVars, fsVars, envVars>>

\* Mutant: the server ends with its child.
SrvReap_Ends(s) ==
    /\ spc[s] = "reap" /\ cst[s] = "zombie"
    /\ cst' = [cst EXCEPT ![s] = "reaped"]
    /\ SrvGoto(s, "exited")
    /\ UNCHANGED <<cliVars, sem, pid, spoke, dbVars, fsVars, envVars>>

\* wait(NULL).
SrvReap(s) ==
    /\ spc[s] = "reap" /\ cst[s] = "zombie"
    /\ cst' = [cst EXCEPT ![s] = "reaped"]
    /\ SrvGoto(s, "umount")
    /\ UNCHANGED <<cliVars, sem, pid, spoke, dbVars, fsVars, envVars>>

\* Mutant: a mount that is not there is counted.
SrvUmount_Blind(s) ==
    /\ spc[s] = "umount"
    /\ mounted' = [mounted EXCEPT ![IdOf(s)] = @ - 1]
    /\ SrvGoto(s, "umount_volume")
    /\ UNCHANGED <<cliVars, sem, instVars, dbVars, sockdirs, sock, layers, wiped, envVars>>

\* ContainerFs::umount_container takes the topmost set of mounts off merged.
\* While another instance uses them they may be busy.
SrvUmount(s) ==
    /\ spc[s] = "umount"
    /\ LET id == IdOf(s)
       IN  \/ /\ mounted' = [mounted EXCEPT ![id] = IF @ > 0 THEN @ - 1 ELSE 0]
           \/ /\ LiveInstances(id) # {}
              /\ UNCHANGED mounted
    /\ SrvGoto(s, "umount_volume")
    /\ UNCHANGED <<cliVars, sem, instVars, dbVars, sockdirs, sock, layers, wiped, envVars>>

\* The two registry calls that end the server dereference the answer of
\* get_container_by_id_or_name: without a record the server dies or goes on.
SrvDbStep(s, next, New(_)) ==
    /\ IF db[IdOf(s)] # NoRecord
       THEN Put(IdOf(s), New(db[IdOf(s)])) /\ SrvGoto(s, next)
       ELSE UNCHANGED dbVars /\ \E end \in {next, "exited"} : SrvGoto(s, end)
    /\ UNCHANGED <<cliVars, sem, instVars, fsVars, envVars>>

\* umount_volume_list looks the container up, which may mark it stopped.
SrvUmountVolume(s) == spc[s] = "umount_volume" /\ SrvDbStep(s, "mark", Checked)

\* ContainerDao::change_status_to_stop.
SrvMark(s) == spc[s] = "mark" /\ SrvDbStep(s, "exited", Stopped)

ServerKilled(s) ==
    /\ ServerMayDie
    /\ spc[s] \notin {"none", "exited"}
    /\ SrvGoto(s, "exited")
    /\ UNCHANGED <<cliVars, sem, instVars, dbVars, fsVars, envVars>>

-----------------------------------------------------------------------------
(* The container's first process *)

InstGoto(s, state) == cst' = [cst EXCEPT ![s] = state]

\* _ptyCloneRun returns before anything is mounted: no session, no terminal, or
\* a terminal that cannot be set up.  A first mount that fails comes to the same
\* as the last.
InstanceSetupFails(s) ==
    /\ cst[s] = "mounting" /\ SyscallsFail
    /\ \E opened \in BOOLEAN : InstGoto(s, Corpse(s, opened))
    /\ UNCHANGED <<cliVars, srvVars, pid, spoke, dbVars, fsVars, envVars>>

\* mount_container, mount_volume_list, chroot, execvp.  A mount that fails
\* ends the process; what was mounted before it stays.
InstanceMounts(s) ==
    /\ cst[s] = "mounting"
    /\ \/ /\ IdOf(s) \in layers
          /\ mounted' = [mounted EXCEPT ![IdOf(s)] = @ + 1]
          /\ InstGoto(s, "running")
       \/ /\ IdOf(s) \in layers /\ SyscallsFail
          /\ mounted' = [mounted EXCEPT ![IdOf(s)] = @ + 1]
          /\ InstGoto(s, "zombie")
       \/ IdOf(s) \notin layers /\ InstGoto(s, "zombie") /\ UNCHANGED mounted
    /\ UNCHANGED <<cliVars, srvVars, pid, spoke, dbVars, sockdirs, sock, layers, wiped, envVars>>

\* First output: of the command, or of a mount step that complains.
InstanceSpeaks(s) ==
    /\ cst[s] \in {"mounting", "running"} /\ ~spoke[s]
    /\ spoke' = [spoke EXCEPT ![s] = TRUE]
    /\ UNCHANGED <<cliVars, srvVars, cst, pid, dbVars, fsVars, envVars>>

\* The command ends by itself, of SIGTERM, or of the hangup of its terminal.
InstanceExits(s) ==
    /\ cst[s] = "running"
    /\ InstGoto(s, "zombie")
    /\ UNCHANGED <<cliVars, srvVars, pid, spoke, dbVars, fsVars, envVars>>

\* init inherits and reaps the container of a server that is gone.
OrphanReaped(s) ==
    /\ spc[s] = "exited" /\ cst[s] \in {"zombie", "unopened"}
    /\ InstGoto(s, "reaped")
    /\ UNCHANGED <<cliVars, srvVars, pid, spoke, dbVars, fsVars, envVars>>

\* Another program gets a pid that a container had.
ForeignStarts ==
    /\ PidReuse
    /\ \E p \in {pid[s] : s \in Cmds} \cap FreePids : foreign' = foreign \cup {p}
    /\ UNCHANGED <<cliVars, srvVars, instVars, dbVars, fsVars, strayed>>

-----------------------------------------------------------------------------
CliStep(c) ==
    \/ Fork(c) \/ WaitForServer(c) \/ Connect(c) \/ SetNs(c)
    \/ StopGet(c) \/ SigTerm(c) \/ SigKill(c)
    \/ RemoveSockdir(c) \/ RemoveLayer(c) \/ DeleteRecord(c)

UserStep(c) == Run(c) \/ Start(c) \/ Stop(c) \/ Remove(c) \/ Attach(c) \/ Exec(c) \/ ClientEnds(c)

ServerWork(s) ==
    \/ SrvClone(s) \/ SrvHeader(s) \/ SrvRecord(s) \/ SrvListen(s)
    \/ SrvReap(s) \/ SrvUmount(s) \/ SrvUmountVolume(s) \/ SrvMark(s)
    \/ cst[s] = "zombie" /\ SrvRelayEnds(s)

ServerStep(s) == ServerWork(s) \/ SrvPost(s)

InstanceStep(s) == InstanceSetupFails(s) \/ InstanceMounts(s) \/ OrphanReaped(s)

EnvStep(s) ==
    \/ InstanceSpeaks(s) \/ InstanceExits(s) \/ ServerKilled(s)
    \/ cst[s] = "running" /\ SrvRelayEnds(s)

Next ==
    \/ ForeignStarts
    \/ \E c \in Cmds : CliStep(c) \/ UserStep(c) \/ ServerStep(c) \/ InstanceStep(c) \/ EnvStep(c)

Spec == Init /\ [][Next]_vars

\* Every process that can go on does; a user need not give a command or hang
\* up, and a container need not say anything or end.
Fairness == \A c \in Cmds : WF_vars(CliStep(c)) /\ WF_vars(ServerStep(c)) /\ WF_vars(InstanceStep(c))

FairSpec == Spec /\ Fairness

-----------------------------------------------------------------------------
(* Properties *)

Store == INSTANCE ContainerStore

\* Whatever the commands and servers do at the same time, the registry
\* changes one record at a time and no removed container comes back: the
\* server that ends, or the start whose snapshot is old, never re-creates it.
StoreSteps == [][Store!Next]_<<db, gone>>

\* When `run` goes on after its semaphore, its container was recorded and its
\* server had bound the socket: nobody is told of a container that `ps` and
\* `attach` do not know.
RunIsRegistered ==
    \A c \in Cmds :
        cmd[c].op = "run" /\ cpc[c] \in {"connect", "client", "done"} =>
            /\ db[IdOf(c)] # NoRecord \/ IdOf(c) \in gone
            /\ spc[c] \in {"relay", "reap", "umount", "umount_volume", "mark", "exited"}

\* A server that got as far as serving and has ended leaves no record that
\* claims its container runs, whatever other servers and commands wrote
\* meanwhile from what they had read before.
NoStaleClaim ==
    \A s \in Cmds :
        sem[s] = 0 /\ spc[s] = "exited" /\ db[IdOf(s)] # NoRecord => db[IdOf(s)].pid # pid[s]

\* A pid from the registry still belongs to its container when it is used: the
\* signals of `stop` and `rm -f`, sent seconds after the lookup, and the
\* namespaces `exec` joins are that container's, although other programs get
\* pids that containers had.
SignalsArrive == ~strayed

\* Between commands that do not overlap, one process at most runs for an id.
SingleInstance == \A id \in Ids : Cardinality(LiveInstances(id)) <= 1

\* Once everything has settled, the registry says running of exactly the
\* containers that run, with their pid, and a container's file systems are
\* mounted exactly while it runs.
StatusTrue ==
    Settled => \A id \in Ids :
        /\ mounted[id] = Cardinality(LiveInstances(id))
        /\ db[id] # NoRecord =>
              /\ IsRunning(db[id]) => \E s \in LiveInstances(id) : pid[s] = db[id].pid
              /\ ~IsRunning(db[id]) => LiveInstances(id) = {}

\* A live container's file systems are not unmounted under it.
LiveIsMounted ==
    \A s \in Cmds : cst[s] = "running" => mounted[IdOf(s)] > 0

\* A name belongs to one container.
NamesUnique ==
    \A a, b \in Ids :
        db[a] # NoRecord /\ db[b] # NoRecord /\ db[a].name # NoName /\ db[a].name = db[b].name
            => a = b

\* rm never deletes through mounted file systems.
NothingWiped == wiped = {}

\* A server whose container is dead finishes, at whatever point of the start or
\* of the relay that happened, provided no client blocks the relay by not
\* reading: PtyRelay's RelayEnds has that as its hypothesis, here the relay is
\* one fair step.
ServersFinish ==
    \A s \in Cmds : cst[s] = "zombie" ~> spc[s] = "exited"

\* A command that was given ends, or stays connected to its container.
CommandsReturn ==
    \A c \in Cmds : cpc[c] # "idle" ~> cpc[c] \in {"client", "done", "failed"}

\* If every container goes on to print something, a prompt for instance, every
\* command ends or is connected: the header that pty_run_container reads is
\* all a command waits for.
SpeakingReturns ==
    (\A c \in Cmds : WF_vars(InstanceSpeaks(c))) => CommandsReturn
=============================================================================
