----------------------------- MODULE ContainerFs ---------------------------
(***************************************************************************)
(* The mounts of one container over its starts (util/container_fs.cpp):    *)
(* the process that pty_run_container clones mounts the table of           *)
(* directories and then the volumes; when it is gone the server unmounts   *)
(* the directories in reverse order, the last of them twice, and then the  *)
(* volumes.                                                                *)
(*                                                                         *)
(* A path is the sequence of its names below the merged directory.  The    *)
(* kernel's mount table is the sequence of what is mounted, oldest first.  *)
(***************************************************************************)
EXTENDS Integers, SequencesExt

CONSTANTS
    Dests,      \* paths inside the container that volumes are given for
    MayLack,    \* directories of the table that some hosts do not have
    MaxVolumes, \* bound: volumes of the container
    MaxStarts   \* bound: times the container is run or started

\* mnt_dir_arr, without the empty entry that ends it.
mnt_dir_arr ==
    << <<"bin">>, <<"etc">>, <<"lib">>, <<"lib64">>, <<"opt">>, <<"run">>, <<"sbin">>,
       <<"usr">>, <<"var">>, <<"proc">>, <<"sys">>, <<"dev">>, <<"dev", "pts">>,
       <<"dev", "shm">>, <<"tmp">> >>

\* The entries whose type is FS_TYPE, an overlay of the host's directory.
Overlays == {mnt_dir_arr[k] : k \in 1..9}

Targets == ToSet(mnt_dir_arr)

ASSUME FsAssumption ==
    /\ MayLack \subseteq Overlays
    /\ Dests \subseteq Seq(STRING) \ {<<>>}
    /\ MaxVolumes \in Nat /\ MaxStarts \in Nat

VARIABLES
    volumes,  \* volume_list: destinations, in the order of the std::set
    present,  \* directories of the table that the host has
    mounts,   \* the mount table: [at, start], oldest first
    starts,   \* times the container was started
    pc,       \* what is done next, and by whom
    i         \* the loop variable

fsVars == <<volumes, present, mounts, starts, pc, i>>

FsTypeOK ==
    /\ volumes \in BoundedSeq(Dests, MaxVolumes)
    /\ present \subseteq Targets
    /\ mounts \in Seq([at : Targets \cup Dests, start : 1..MaxStarts])
    /\ starts \in 0..MaxStarts
    /\ pc \in {"stopped", "mount", "volumes", "running", "umount", "retry", "umount_volumes"}
    /\ i \in 0..(Len(mnt_dir_arr) + MaxVolumes + 1)

FsInit ==
    /\ volumes \in BoundedSeq(Dests, MaxVolumes)
    /\ IsInjective(volumes)
    /\ \E lack \in SUBSET MayLack : present = Targets \ lack
    /\ mounts = <<>>
    /\ starts = 0
    /\ pc = "stopped"
    /\ i = 0

-----------------------------------------------------------------------------
(* The kernel.  A path leads into the youngest mount at or above it; a     *)
(* mount that another one sits on is busy.                                 *)

Above(p, q) == IsPrefix(p, q)

\* Entry k is what path p leads into.
LeadsInto(p, k) ==
    /\ k \in DOMAIN mounts /\ Above(mounts[k].at, p)
    /\ \A j \in DOMAIN mounts : j > k => ~Above(mounts[j].at, p)

\* Entry c was mounted on a place inside entry k.
SitsOn(c, k) ==
    /\ k < c /\ Above(mounts[k].at, mounts[c].at)
    /\ \A j \in (k + 1)..(c - 1) : ~Above(mounts[j].at, mounts[c].at)

Busy(k) == \E c \in DOMAIN mounts : SitsOn(c, k)

Mount(p) == mounts' = Append(mounts, [at |-> p, start |-> starts])

\* EINVAL if p is not where something is mounted, EBUSY if that is in use;
\* the code logs both and goes on.
Umount(p) ==
    LET Gone(k) == LeadsInto(p, k) /\ mounts[k].at = p /\ ~Busy(k)
    IN  IF \E k \in DOMAIN mounts : Gone(k)
        THEN mounts' = RemoveAt(mounts, CHOOSE k \in DOMAIN mounts : Gone(k))
        ELSE UNCHANGED mounts

-----------------------------------------------------------------------------
(* mount_container and mount_volume_list, in the cloned process.           *)

Goto(step, k) == pc' = step /\ i' = k

Start ==
    /\ pc = "stopped" /\ starts < MaxStarts
    /\ starts' = starts + 1
    /\ Goto("mount", 0)
    /\ UNCHANGED <<volumes, present, mounts>>

\* The entry of round k: the first is taken before the loop and once more by
\* the assignment that precedes i++.
EntryAt(k) == mnt_dir_arr[IF k = 0 THEN 1 ELSE k]

\* Mutant: what is mounted already is not mounted again.
MountStep_Once ==
    /\ pc = "mount" /\ i <= Len(mnt_dir_arr)
    /\ IF \/ EntryAt(i) \in Overlays /\ EntryAt(i) \notin present
          \/ \E k \in DOMAIN mounts : mounts[k].at = EntryAt(i)
       THEN UNCHANGED mounts
       ELSE Mount(EntryAt(i))
    /\ Goto("mount", i + 1)
    /\ UNCHANGED <<volumes, present, starts>>

\* An overlay is mounted if the host has the directory, the rest always.
MountStep ==
    /\ pc = "mount" /\ i <= Len(mnt_dir_arr)
    /\ IF EntryAt(i) \in Overlays /\ EntryAt(i) \notin present
       THEN UNCHANGED mounts
       ELSE Mount(EntryAt(i))
    /\ Goto("mount", i + 1)
    /\ UNCHANGED <<volumes, present, starts>>

\* A mount that fails: of an overlay, the process exits; of the others it
\* goes on without.
MountFails ==
    /\ pc = "mount" /\ i <= Len(mnt_dir_arr)
    /\ \/ EntryAt(i) \in Overlays \cap present /\ Goto("umount", Len(mnt_dir_arr))
       \/ EntryAt(i) \notin Overlays /\ Goto("mount", i + 1)
    /\ UNCHANGED <<volumes, present, mounts, starts>>

MountDone ==
    /\ pc = "mount" /\ i > Len(mnt_dir_arr)
    /\ Goto("volumes", 1)
    /\ UNCHANGED <<volumes, present, mounts, starts>>

\* mount_volume, bind_mount.
VolumeStep ==
    /\ pc = "volumes" /\ i <= Len(volumes)
    /\ \/ Mount(volumes[i]) /\ Goto("volumes", i + 1)
       \/ UNCHANGED mounts /\ Goto("umount", Len(mnt_dir_arr))
    /\ UNCHANGED <<volumes, present, starts>>

VolumesDone ==
    /\ pc = "volumes" /\ i > Len(volumes)
    /\ Goto("running", 0)
    /\ UNCHANGED <<volumes, present, mounts, starts>>

\* The container ends and its server goes on to umount_container.
Exit ==
    /\ pc = "running"
    /\ Goto("umount", Len(mnt_dir_arr))
    /\ UNCHANGED <<volumes, present, mounts, starts>>

-----------------------------------------------------------------------------
(* umount_container and umount_volume_list, in the server.                 *)

\* while (--i >= 0)
UmountEntry(k) == mnt_dir_arr[k]

UmountStep ==
    /\ pc = "umount" /\ i > 0
    /\ IF UmountEntry(i) \in present THEN Umount(UmountEntry(i)) ELSE UNCHANGED mounts
    /\ Goto("umount", i - 1)
    /\ UNCHANGED <<volumes, present, starts>>

UmountDone ==
    /\ pc = "umount" /\ i = 0
    /\ Goto("retry", 0)
    /\ UNCHANGED <<volumes, present, mounts, starts>>

\* What is left in line: the last path that was unmounted.
LastTarget ==
    mnt_dir_arr[CHOOSE k \in DOMAIN mnt_dir_arr :
        /\ mnt_dir_arr[k] \in present
        /\ \A j \in 1..(k - 1) : mnt_dir_arr[j] \notin present]

\* Mutant: no retry.
Retry_Not ==
    /\ pc = "retry"
    /\ Goto("umount_volumes", 1)
    /\ UNCHANGED <<volumes, present, mounts, starts>>

Retry ==
    /\ pc = "retry"
    /\ Umount(LastTarget)
    /\ Goto("umount_volumes", 1)
    /\ UNCHANGED <<volumes, present, starts>>

UmountVolume ==
    /\ pc = "umount_volumes" /\ i <= Len(volumes)
    /\ Umount(volumes[i])
    /\ Goto("umount_volumes", i + 1)
    /\ UNCHANGED <<volumes, present, starts>>

UmountVolumesDone ==
    /\ pc = "umount_volumes" /\ i > Len(volumes)
    /\ Goto("stopped", 0)
    /\ UNCHANGED <<volumes, present, mounts, starts>>

FsNext ==
    \/ Start \/ MountStep \/ MountFails \/ MountDone \/ VolumeStep \/ VolumesDone
    \/ Exit \/ UmountStep \/ UmountDone \/ Retry \/ UmountVolume \/ UmountVolumesDone

FsSpec == FsInit /\ [][FsNext]_fsVars

-----------------------------------------------------------------------------
(* Properties *)

Related(p, q) == Above(p, q) \/ Above(q, p)

\* No volume goes to a place strictly inside, or strictly around, another
\* volume or a directory of the table.
NoNesting ==
    \A k \in DOMAIN volumes :
        \A p \in (Targets \cup ToSet(volumes)) \ {volumes[k]} : ~Related(p, volumes[k])

\* umount_container undoes all that a start has mounted, the directory that
\* the loop mounts twice included, however far the start got, if volumes are
\* not nested.  What stays mounted, with nested volumes, is at the directories
\* they are nested in or around: every other directory is always unmounted.
NothingLeft ==
    pc = "stopped" =>
        /\ NoNesting => mounts = <<>>
        /\ \A k \in DOMAIN mounts : \E dest \in ToSet(volumes) : Related(mounts[k].at, dest)

\* A running container never sees, at a volume or at an overlay of the table,
\* what an earlier start left mounted there.  (The table's other mounts may fail
\* without ending the start.)
FreshMounts ==
    pc = "running" =>
        \A p \in ToSet(volumes) \cup (Overlays \cap present) :
            \E k \in DOMAIN mounts : LeadsInto(p, k) /\ mounts[k].start = starts
=============================================================================
