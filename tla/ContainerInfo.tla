--------------------------- MODULE ContainerInfo ---------------------------
(***************************************************************************)
(* The record hoststack keeps for every container (util/container_info.h)  *)
(* and the two conversions between it and its JSON form.  Of its fields    *)
(* the model keeps those that some control decision reads: id, name, pid   *)
(* and status.  The command, the volumes and the time stamps are carried   *)
(* along by the code and never tested.                                     *)
(***************************************************************************)

CONSTANTS
    Ids,     \* container ids that gen_id (a version 4 UUID) may return
    Names,   \* names a user may give with --name
    NoName,  \* the empty name of a container that was given none
    Pids,    \* process ids of the host
    NoPid,   \* the pid 0 of a container that is not running
    NoId     \* the content of a ContainerInfo that was never filled in

ASSUME InfoAssumption ==
    /\ NoName \notin Ids \cup Names
    /\ NoPid \notin Pids
    /\ NoId \notin Ids \cup Names

CONTAINER_RUNNING == "CONTAINER_RUNNING"
CONTAINER_STOPED  == "CONTAINER_STOPED"

container_status_t == {CONTAINER_RUNNING, CONTAINER_STOPED}

Info == [id     : Ids \cup {NoId},
         name   : Names \cup {NoName},
         pid    : Pids \cup {NoPid},
         status : container_status_t]

\* What a command line can name: get_container_by_id_or_name compares its
\* argument with both fields.
Keys == Ids \cup Names

Matches(info, key) == info.name = key \/ info.id = key

\* Mutants: the two fields exchanged; the pid left behind.
Stopped_Swapped(info) == [info EXCEPT !.status = NoPid, !.pid = CONTAINER_STOPED]
Stopped_KeepsPid(info) == [info EXCEPT !.status = CONTAINER_STOPED]

\* The record ContainerDao::change_status_to_stop and the /proc test of
\* get_container_by_id_or_name leave behind.
Stopped(info) == [info EXCEPT !.status = CONTAINER_STOPED, !.pid = NoPid]

\* The record of a container whose first process is pid.
Running(info, pid) == [info EXCEPT !.status = CONTAINER_RUNNING, !.pid = pid]

\* A ContainerInfo seen through an empty std::optional: no field was set.
Unset == [id |-> NoId, name |-> NoName, pid |-> NoPid,
          status |-> CONTAINER_RUNNING]
=============================================================================
