---------------------------- MODULE ContainerDao ---------------------------
(***************************************************************************)
(* util/container_dao.cpp: every container record lives in one JSON file,  *)
(* and every hoststack process (a command, the server of a container, the  *)
(* supervisor) opens that file for itself.  A rewrite is: read the whole   *)
(* file, change the array in memory, open the file again for output, which *)
(* truncates it, write the array, close.  There is no lock.  One action is *)
(* one access to the file, so the accesses of different processes          *)
(* interleave as the kernel allows.                                        *)
(*                                                                         *)
(* Reading is one step and writing is one step: iostream moves the few     *)
(* hundred bytes of the file in one system call, and Json::Reader stops    *)
(* after the first value, so a longer text that was there before is never  *)
(* read.                                                                   *)
(***************************************************************************)
EXTENDS ContainerInfo, Integers, Sequences

CONSTANTS
    Procs,      \* processes that use the registry
    MaxCalls,   \* bound: registry calls a process makes
    Serial,     \* TRUE: no two calls overlap
    MayCrash,   \* TRUE: a process may be killed in the middle of a call
    NoFile,     \* data.json does not exist yet
    Truncated,  \* data.json was opened for output and nothing was written
    Removed     \* array element that delete_by_id did not copy

ASSUME DaoAssumption ==
    /\ MaxCalls \in Nat
    /\ Serial \in BOOLEAN
    /\ MayCrash \in BOOLEAN
    /\ NoFile # Truncated
    /\ {NoFile, Truncated} \cap Seq(Info \cup {Removed}) = {}
    /\ Removed \notin Info

VARIABLES
    file,        \* content of data.json
    alive,       \* pids that have an entry in /proc
    pc,          \* pc[p]: what process p does next
    frame,       \* frame[p]: the local variables of p's call
    calls,       \* calls[p]: calls p has made (bound only)
    issued,      \* ids gen_id has returned
    registered,  \* ids whose insert returned and that nobody asked to delete
    gone         \* ids delete_by_id found in the file and left out

vars == <<file, alive, pc, frame, calls, issued, registered, gone>>

Array == Seq(Info \cup {Removed})

Ops == {"none", "insert", "get", "start", "stop", "delete"}

Steps == {"idle", "hold", "dead", "torn", "get_read", "got", "insert_read",
          "update_read", "update_more", "delete_read", "open", "write"}

\* Where a process is not inside a call; torn: it was killed while the file
\* it was writing had no text.
Quiet == {"idle", "hold", "dead", "torn"}

Frame == [op : Ops, key : Keys \cup {NoName}, info : Info,
          root : Array, buf : Array, todo : 0..3, ret : Steps]

NoFrame == [op |-> "none", key |-> NoName, info |-> Unset,
            root |-> <<>>, buf |-> <<>>, todo |-> 0, ret |-> "idle"]

TypeOK ==
    /\ file \in Array \cup {NoFile, Truncated}
    /\ alive \subseteq Pids
    /\ pc \in [Procs -> Steps]
    /\ frame \in [Procs -> Frame]
    /\ calls \in [Procs -> 0..MaxCalls]
    /\ issued \subseteq Ids
    /\ registered \subseteq Ids \cup {NoId}
    /\ gone \subseteq Ids

-----------------------------------------------------------------------------
(* The JSON array.  delete_by_id compacts it; here the element stays as    *)
(* Removed, which no loop matches and size() does not count.               *)

\* What jsonreader.parse leaves in root: nothing, if there is no text.
Root(f) == IF f \in {NoFile, Truncated} THEN <<>> ELSE f

Holds(root, i, id) == root[i] # Removed /\ root[i].id = id

IdsIn(root) == {root[i].id : i \in {j \in DOMAIN root : root[j] # Removed}}

IsEmpty(root) == \A i \in DOMAIN root : root[i] = Removed

\* ContainerDao::list: the records of the array, here their positions.  No
\* file, no text or no element: no vector, of which ls shows as much as of an
\* empty one.
list(f) == {i \in DOMAIN Root(f) : Root(f)[i] # Removed}

\* `ls` shows the running containers, with -a all of them.
ls(f, all) == {i \in list(f) : all \/ Root(f)[i].status = CONTAINER_RUNNING}

\* The for loops return at the first element that fits.
FirstMatch(root, key, i) ==
    /\ i \in DOMAIN root /\ root[i] # Removed /\ Matches(root[i], key)
    /\ \A j \in 1..(i - 1) : root[j] # Removed => ~Matches(root[j], key)

\* Mutant: the first element is replaced, whatever its id.
UpdatedRoot_First(root, info) ==
    [i \in DOMAIN root |-> IF i = 1 THEN info ELSE root[i]]

\* The first element with this id is replaced, if there is one.
UpdatedRoot(root, info) ==
    [i \in DOMAIN root |->
        IF Holds(root, i, info.id) /\ \A j \in 1..(i - 1) : ~Holds(root, j, info.id)
        THEN info ELSE root[i]]

\* Mutant: the comparison turned round.
RemainingRoot_Others(root, id) ==
    [i \in DOMAIN root |-> IF Holds(root, i, id) THEN root[i] ELSE Removed]

RemainingRoot(root, id) ==
    [i \in DOMAIN root |-> IF Holds(root, i, id) THEN Removed ELSE root[i]]

-----------------------------------------------------------------------------
Init ==
    /\ file = NoFile
    /\ alive = {}
    /\ pc = [p \in Procs |-> "idle"]
    /\ frame = [p \in Procs |-> NoFrame]
    /\ calls = [p \in Procs |-> 0]
    /\ issued = {}
    /\ registered = {}
    /\ gone = {}

Goto(p, step, f) ==
    /\ pc' = [pc EXCEPT ![p] = step]
    /\ frame' = [frame EXCEPT ![p] = f]

Return(p) == Goto(p, "idle", NoFrame)

MayEnter(p) == Serial => \A q \in Procs \ {p} : pc[q] \in Quiet

Call(p) ==
    /\ pc[p] = "idle"
    /\ MayEnter(p)
    /\ calls[p] < MaxCalls
    /\ calls' = [calls EXCEPT ![p] = @ + 1]

\* ContainerDao::insert, from the callback of `run`: a new id, a new process.
CallInsert(p) ==
    /\ Call(p)
    /\ \E id \in Ids \ issued, name \in Names \cup {NoName}, pid \in Pids \ alive :
        /\ Goto(p, "insert_read",
                [NoFrame EXCEPT !.op = "insert",
                                !.info = Running([Unset EXCEPT !.id = id, !.name = name], pid)])
        /\ issued' = issued \cup {id}
        /\ alive' = alive \cup {pid}
    /\ UNCHANGED <<file, registered, gone>>

\* get_container_by_id_or_name on its own (attach, exec, stop), or as the
\* first half of `start`: keys come from a command line.
CallGet(p, op) ==
    /\ Call(p)
    /\ \E key \in Keys : Goto(p, "get_read", [NoFrame EXCEPT !.op = op, !.key = key])
    /\ UNCHANGED <<file, alive, issued, registered, gone>>

\* change_status_to_stop, with the id its caller holds.
CallStop(p) ==
    /\ Call(p)
    /\ \E id \in issued : Goto(p, "get_read", [NoFrame EXCEPT !.op = "stop", !.key = id])
    /\ UNCHANGED <<file, alive, issued, registered, gone>>

\* delete_by_id, with the id its caller holds.
CallDelete(p) ==
    /\ Call(p)
    /\ \E id \in issued :
        /\ Goto(p, "get_read", [NoFrame EXCEPT !.op = "delete", !.key = id])
        /\ registered' = registered \ {id}
    /\ UNCHANGED <<file, alive, issued, gone>>

-----------------------------------------------------------------------------
\* get_container_by_id_or_name: a record that claims to run while its pid is
\* gone is stopped on the spot and the file rewritten.
GetFound(p) ==
    /\ pc[p] = "get_read"
    /\ \E i \in DOMAIN Root(file) :
        /\ FirstMatch(Root(file), frame[p].key, i)
        /\ LET info == Root(file)[i]
               root == [Root(file) EXCEPT ![i] = Stopped(info)]
           IN  IF info.status = CONTAINER_RUNNING /\ info.pid \notin alive
               THEN Goto(p, "open", [frame[p] EXCEPT !.info = Stopped(info), !.root = root,
                                                     !.buf = root, !.ret = "got"])
               ELSE Goto(p, "got", [frame[p] EXCEPT !.info = info])
    /\ UNCHANGED <<file, alive, calls, issued, registered, gone>>

\* No file, no text, no element, or none that matches: an empty optional.
GetMissing(p) ==
    /\ pc[p] = "get_read"
    /\ \A i \in DOMAIN Root(file) :
        Root(file)[i] # Removed => ~Matches(Root(file)[i], frame[p].key)
    /\ Goto(p, "got", [frame[p] EXCEPT !.info = Unset])
    /\ UNCHANGED <<file, alive, calls, issued, registered, gone>>

Found(p) == frame[p].info.id # NoId

\* The caller of get, with its answer.  `start` goes on with a stopped
\* container and keeps the answer until its container runs.
GotGet(p) ==
    /\ pc[p] = "got"
    /\ \/ frame[p].op = "get" /\ Return(p)
       \/ /\ frame[p].op = "start"
          /\ IF Found(p) /\ frame[p].info.status # CONTAINER_RUNNING
             THEN Goto(p, "hold", frame[p])
             ELSE Return(p)
    /\ UNCHANGED <<file, alive, calls, issued, registered, gone>>

\* change_status_to_stop writes through the optional without a test: on an
\* empty one the process dies or goes on with a record nobody filled in.
GotStop(p) ==
    /\ pc[p] = "got" /\ frame[p].op = "stop"
    /\ \/ Goto(p, "update_read", [frame[p] EXCEPT !.info = Stopped(@)])
       \/ ~Found(p) /\ Goto(p, "dead", NoFrame)
    /\ UNCHANGED <<file, alive, calls, issued, registered, gone>>

GotDelete(p) ==
    /\ pc[p] = "got" /\ frame[p].op = "delete"
    /\ Goto(p, "delete_read", frame[p])
    /\ UNCHANGED <<file, alive, calls, issued, registered, gone>>

\* The callback of `start`: the answer get gave, now with a pid, is written
\* back by update.
StartCallback(p) ==
    /\ pc[p] = "hold"
    /\ MayEnter(p)
    /\ \E pid \in Pids \ alive :
        /\ alive' = alive \cup {pid}
        /\ Goto(p, "update_read", [frame[p] EXCEPT !.info = Running(@, pid)])
    /\ UNCHANGED <<file, calls, issued, registered, gone>>

\* `start` gives up before its callback (clone, mount or socket failed).
StartFails(p) ==
    /\ pc[p] = "hold"
    /\ Return(p)
    /\ UNCHANGED <<file, alive, calls, issued, registered, gone>>

-----------------------------------------------------------------------------
\* insert reads, ignoring whether that worked, and appends.
InsertRead(p) ==
    /\ pc[p] = "insert_read"
    /\ LET root == Append(Root(file), frame[p].info)
       IN  Goto(p, "open", [frame[p] EXCEPT !.buf = root,
                                            !.root = IF frame[p].op = "insert" THEN root ELSE @])
    /\ UNCHANGED <<file, alive, calls, issued, registered, gone>>

\* update calls insert once for each test that fails (no file, no text, no
\* element) and does not return after it: it ends by writing its own array.
UpdateRead(p) ==
    /\ pc[p] = "update_read"
    /\ Goto(p, "update_more",
            [frame[p] EXCEPT !.root = UpdatedRoot(Root(file), frame[p].info),
                             !.todo = CASE file = NoFile -> 3
                                        [] file = Truncated -> 2
                                        [] file \notin {NoFile, Truncated} ->
                                             IF IsEmpty(Root(file)) THEN 1 ELSE 0])
    /\ UNCHANGED <<file, alive, calls, issued, registered, gone>>

UpdateMore(p) ==
    /\ pc[p] = "update_more"
    /\ IF frame[p].todo > 0
       THEN Goto(p, "insert_read", [frame[p] EXCEPT !.todo = @ - 1, !.ret = "update_more"])
       ELSE Goto(p, "open", [frame[p] EXCEPT !.buf = frame[p].root, !.ret = "idle"])
    /\ UNCHANGED <<file, alive, calls, issued, registered, gone>>

\* delete_by_id copies every other element.  On an empty optional it reads an
\* id that was never set: the process dies, or nothing has that id.
DeleteRead(p) ==
    /\ pc[p] = "delete_read"
    /\ \/ IsEmpty(Root(file)) /\ Return(p) /\ UNCHANGED gone
       \/ /\ ~IsEmpty(Root(file))
          /\ LET root == RemainingRoot(Root(file), frame[p].info.id)
             IN  Goto(p, "open", [frame[p] EXCEPT !.root = root, !.buf = root, !.ret = "idle"])
          /\ gone' = gone \cup ({frame[p].info.id} \cap IdsIn(Root(file)) \cap Ids)
       \/ ~IsEmpty(Root(file)) /\ ~Found(p) /\ Goto(p, "dead", NoFrame) /\ UNCHANGED gone
    /\ UNCHANGED <<file, alive, calls, issued, registered>>

\* fout.open(hoststack_data_file)
OpenTrunc(p) ==
    /\ pc[p] = "open"
    /\ file' = Truncated
    /\ Goto(p, "write", frame[p])
    /\ UNCHANGED <<alive, calls, issued, registered, gone>>

\* Mutant: closed without having written.
WriteClose_Empty(p) ==
    /\ pc[p] = "write"
    /\ IF frame[p].ret = "idle" THEN Return(p) ELSE Goto(p, frame[p].ret, frame[p])
    /\ UNCHANGED <<file, alive, calls, issued, registered, gone>>

\* fout << str; fout.close()
WriteClose(p) ==
    /\ pc[p] = "write"
    /\ file' = frame[p].buf
    /\ IF frame[p].ret = "idle" THEN Return(p) ELSE Goto(p, frame[p].ret, frame[p])
    /\ registered' = IF frame[p].op = "insert"
                     THEN registered \cup {frame[p].info.id} ELSE registered
    /\ UNCHANGED <<alive, calls, issued, gone>>

-----------------------------------------------------------------------------
\* The environment: a container's process goes away, a registry process is
\* killed inside a call.
PidExit ==
    /\ \E pid \in alive : alive' = alive \ {pid}
    /\ UNCHANGED <<file, pc, frame, calls, issued, registered, gone>>

Crash(p) ==
    /\ MayCrash
    /\ pc[p] \notin Quiet
    /\ Goto(p, IF pc[p] = "write" THEN "torn" ELSE "dead", NoFrame)
    /\ UNCHANGED <<file, alive, calls, issued, registered, gone>>

Step(p) ==
    \/ CallInsert(p) \/ CallGet(p, "get") \/ CallGet(p, "start")
    \/ CallStop(p) \/ CallDelete(p)
    \/ GetFound(p) \/ GetMissing(p)
    \/ GotGet(p) \/ GotStop(p) \/ GotDelete(p)
    \/ StartCallback(p) \/ StartFails(p)
    \/ InsertRead(p) \/ UpdateRead(p) \/ UpdateMore(p) \/ DeleteRead(p)
    \/ OpenTrunc(p) \/ WriteClose(p)
    \/ Crash(p)

Next == PidExit \/ \E p \in Procs : Step(p)

Spec == Init /\ [][Next]_vars

-----------------------------------------------------------------------------
(* Properties *)

\* The file is without text only while some process is between opening it
\* for output and closing it, or after one was killed there: every rewrite
\* of container_dao.cpp that truncates also writes.
FileWhole ==
    file = Truncated => \E p \in Procs : pc[p] \in {"write", "torn"}

\* When no call is under way, `ls -a` shows every container whose insert
\* returned and that nobody asked to delete, once.
RegistryComplete ==
    (\A p \in Procs : pc[p] \in Quiet) =>
        \A id \in registered : \E i \in ls(file, TRUE) :
            /\ Root(file)[i].id = id
            /\ \A j \in ls(file, TRUE) : Root(file)[j].id = id => j = i

-----------------------------------------------------------------------------
(* Serial calls implement ContainerStore.  The step that decides the new   *)
(* content, the last read of the call, is the abstract step; from then on  *)
(* the registry is what the call is about to leave in the file.            *)

Decided(p) ==
    \/ pc[p] \in {"open", "write", "update_more"}
    \/ pc[p] = "insert_read" /\ frame[p].op # "insert"

Content ==
    IF \E p \in Procs : Decided(p)
    THEN frame[CHOOSE p \in Procs : Decided(p)].root
    ELSE Root(file)

RecordOf(root, id) ==
    IF \E i \in DOMAIN root : Holds(root, i, id)
    THEN root[CHOOSE i \in DOMAIN root : Holds(root, i, id)]
    ELSE Removed

Store == INSTANCE ContainerStore
           WITH NoRecord <- Removed, db <- [id \in Ids |-> RecordOf(Content, id)]

\* ContainerDao, called by one process at a time, is a registry that changes
\* one record per call.
StoreSpec == Store!Spec
=============================================================================
