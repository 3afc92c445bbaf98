------------------------------ MODULE RepoDirs -----------------------------
(***************************************************************************)
(* The directories commands make with mkdir_r (common/usg_common.cpp):     *)
(* every command makes the repository, in create_repo, and `run` also the  *)
(* directories of its container, in create_container and, in the process   *)
(* it clones, in mount_container (util/container_fs.cpp).  Any other       *)
(* command does what the first two calls of a run do.                      *)
(*                                                                         *)
(* mkdir_r looks for the directory, then for its parents one by one, and   *)
(* makes what it did not find; commands may run at the same time.          *)
(***************************************************************************)
EXTENDS Integers, SequencesExt

CONSTANTS
    Runs,       \* `run` commands; the container has the name of its command
    fslist,     \* directories of a root file system, paths below merged
    overlays    \* targets of the table that are overlays, names

\* True of any string literals; the provers are not told so.
ASSUME NameAssumption ==
    {"data", "hoststack", "containers", "overlay2", "merged", "work", "diff"} \subseteq STRING

ASSUME RepoAssumption ==
    /\ Runs \subseteq STRING
    /\ fslist \in Seq(Seq(STRING)) /\ \A k \in DOMAIN fslist : fslist[k] # <<>>
    /\ overlays \in Seq(STRING) /\ overlays # <<>>

hoststack_repo == <<"data", "hoststack">>
containers     == Append(hoststack_repo, "containers")

getUnionFS       == Append(hoststack_repo, "overlay2")
getLayerDir(id)  == Append(getUnionFS, id)
getMergedDir(id) == Append(getLayerDir(id), "merged")
getWorkDir(id)   == Append(getLayerDir(id), "work")
getDiffDir(id)   == Append(getLayerDir(id), "diff")

create_repo == <<containers, getUnionFS>>

create_container(id) ==
    <<Append(containers, id), getDiffDir(id), getWorkDir(id), getMergedDir(id)>>
        \o [k \in DOMAIN fslist |-> getMergedDir(id) \o fslist[k]]

\* The upper and the work directory of each overlay.
mount_container(id) ==
    [k \in 1..(2 * Len(overlays)) |->
        Append(IF k % 2 = 1 THEN getDiffDir(id) ELSE getWorkDir(id), overlays[(k + 1) \div 2])]

\* The calls of mkdir_r a run makes; the result of one is only logged.
MkdirCalls(c) == create_repo \o create_container(c) \o mount_container(c)

VARIABLES
    dirs,   \* directories there are
    mkdirCall, \* index of the call of mkdir_r each command is in
    depth,  \* names of the path it looks at, or makes, next
    up,     \* whether it is back from looking and makes directories
    failed, \* the directories that mkdir refused, and their calls returned -1
    fresh   \* whether there was no repository at the start

dirsVars == <<dirs, mkdirCall, depth, up, failed, fresh>>

Prefix(p, k) == SubSeq(p, 1, k)

\* A directory with all those above it, but the root.
Lineage(p) == {Prefix(p, k) : k \in 1..Len(p)}

Made(c) == UNION {Lineage(p) : p \in ToSet(MkdirCalls(c))}

\* Directories that are there before the first command, or are made by one.
AllDirs == Lineage(containers) \cup Lineage(getUnionFS) \cup UNION {Made(c) : c \in Runs}

DirsTypeOK ==
    /\ dirs \subseteq AllDirs
    /\ \A c \in Runs :
          /\ mkdirCall[c] \in 1..(Len(MkdirCalls(c)) + 1)
          /\ mkdirCall[c] <= Len(MkdirCalls(c)) => depth[c] \in 0..Len(MkdirCalls(c)[mkdirCall[c]])
    /\ up \in [Runs -> BOOLEAN]
    /\ failed \in [Runs -> SUBSET AllDirs]
    /\ fresh \in BOOLEAN

DirsInit ==
    /\ dirs \in {{}, {<<"data">>}, Lineage(containers) \cup {getUnionFS}}
    /\ fresh = (getUnionFS \notin dirs)
    /\ mkdirCall = [c \in Runs |-> 1]
    /\ depth = [c \in Runs |-> Len(MkdirCalls(c)[1])]
    /\ up = [c \in Runs |-> FALSE]
    /\ failed = [c \in Runs |-> {}]

-----------------------------------------------------------------------------
Finished(c) == mkdirCall[c] > Len(MkdirCalls(c))

Path(c) == MkdirCalls(c)[mkdirCall[c]]

\* mkdir_r returns to the caller, which goes on with its next directory.
MkdirReturn(c) ==
    /\ mkdirCall' = [mkdirCall EXCEPT ![c] = @ + 1]
    /\ depth' = [depth EXCEPT ![c] =
          IF mkdirCall[c] < Len(MkdirCalls(c)) THEN Len(MkdirCalls(c)[mkdirCall[c] + 1]) ELSE 0]
    /\ up' = [up EXCEPT ![c] = FALSE]

\* The call for the first k names returns 0: the call that made it goes on to
\* its mkdir, if there is one.
MkdirReturns(c, k) ==
    IF k = Len(Path(c)) THEN MkdirReturn(c)
    ELSE /\ up' = [up EXCEPT ![c] = TRUE]
         /\ depth' = [depth EXCEPT ![c] = k + 1]
         /\ UNCHANGED mkdirCall

\* access finds the directory, or there is no name left.
Found(c) ==
    /\ ~Finished(c) /\ ~up[c]
    /\ depth[c] = 0 \/ Prefix(Path(c), depth[c]) \in dirs
    /\ MkdirReturns(c, depth[c])
    /\ UNCHANGED <<dirs, failed, fresh>>

\* access finds nothing: on to the parent (strstr_r).
Missing(c) ==
    /\ ~Finished(c) /\ ~up[c]
    /\ depth[c] > 0 /\ Prefix(Path(c), depth[c]) \notin dirs
    /\ depth' = [depth EXCEPT ![c] = @ - 1]
    /\ UNCHANGED <<dirs, mkdirCall, up, failed, fresh>>

\* mkdir: the parent is there, because this command found or made it.
Mkdir(c) ==
    /\ ~Finished(c) /\ up[c]
    /\ Prefix(Path(c), depth[c]) \notin dirs
    /\ dirs' = dirs \cup {Prefix(Path(c), depth[c])}
    /\ MkdirReturns(c, depth[c])
    /\ UNCHANGED <<failed, fresh>>

\* Mutant: the command gives up.
MkdirExists_GivesUp(c) ==
    /\ ~Finished(c) /\ up[c]
    /\ Prefix(Path(c), depth[c]) \in dirs
    /\ failed' = [failed EXCEPT ![c] = @ \cup {Prefix(Path(c), depth[c])}]
    /\ mkdirCall' = [mkdirCall EXCEPT ![c] = Len(MkdirCalls(c)) + 1]
    /\ UNCHANGED <<dirs, depth, up, fresh>>

\* EEXIST, somebody else made it meanwhile: all the calls return -1.
MkdirExists(c) ==
    /\ ~Finished(c) /\ up[c]
    /\ Prefix(Path(c), depth[c]) \in dirs
    /\ failed' = [failed EXCEPT ![c] = @ \cup {Prefix(Path(c), depth[c])}]
    /\ MkdirReturn(c)
    /\ UNCHANGED <<dirs, fresh>>

DirsNext == \E c \in Runs : Found(c) \/ Missing(c) \/ Mkdir(c) \/ MkdirExists(c)

DirsSpec == DirsInit /\ [][DirsNext]_dirsVars

-----------------------------------------------------------------------------
(* Properties *)

SocketDir(c) == Append(containers, c)

\* Although failures are only logged, a `run` ends up with all directories of
\* its root file system, whoever it raced with: a directory that made one call
\* fail is found by the next.  Only the directory of its socket, made by one
\* call, can be missing, and only if there was no repository at the start.
DirsComplete ==
    \A c \in Runs : Finished(c) =>
        /\ Made(c) \ {SocketDir(c)} \subseteq dirs
        /\ SocketDir(c) \notin dirs => fresh /\ containers \in failed[c]
=============================================================================
