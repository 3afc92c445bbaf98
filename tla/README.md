# hoststack in TLA+

hoststack runs containers whose image is the host's own file system. This
directory holds TLA+ models of its registry, of the life of a container across
the processes that take part in it, of the supervisor that restarts what died,
of the programs that relay terminals, of a container's mounts and directories,
of the semaphores, streams and sockets they use, and of the string helpers that
command lines and configuration go through; TLC configurations that check them
on small instances; and proofs that TLAPS checks.

Paths below are relative to the repository's `src/`.

## The system

There is no daemon that owns the containers. Every `hoststack` command is a
process of its own, and what it leaves behind for others is

- the registry, `data.json`, an array of records (id, name, pid, status, ...);
- two directories per container: `containers/<id>` with the socket
  `hoststack.socket`, and the layer (`diff`, `work`, `merged`);
- the mounts on `merged`;
- for each running container a *server* process, forked by `run` or `start`,
  which holds the master side of the container's terminal.

| Component | State it keeps | Operations | Talks to |
|---|---|---|---|
| `util/container_dao.cpp` ContainerDao | `data.json` | insert, update, delete_by_id, change_status_to_stop, get_container_by_id_or_name (which also writes), get_container_by, list | every command and server, through the file, without a lock |
| `util/container_service.cpp` ContainerService | none; a semaphore per call | start (fork a server, wait for it), stop (SIGTERM, 3 s, SIGKILL), exec | Dao, server, SemUtil |
| `pty/pty_exec_util.cpp` pty_run_container | pool of clients, master descriptor | clone, read the header, callback, bind, post, relay, reap, unmount, mark | command (semaphore), Dao, Fs, clients (socket) |
| `pty/pty_exec_util.cpp` pty_client | its connection, the user's terminal | connect, relay | server |
| `pty/pty_exec_util.cpp` pty_exec | a terminal of its own, the user's terminal | fork a command on a new terminal, relay | the command |
| `util/container_fs.cpp` ContainerFs | directories, mounts, volumes | create_container, remove_container, mount_container, umount_container, mount_volume_list, umount_volume_list | kernel, Dao |
| `cli/*.cpp` run, start, stop, rm, attach | local variables, a snapshot of a record | one command each | all of the above |
| `cli/*.cpp` exec, ls | a snapshot of a record | join the namespaces of a container; print the registry | Dao |
| `hoststack_supervisor.cpp` | none; threads in flight | poll the registry every 3 s, restart what died | Dao, start |
| `common/sem_util.cpp` SemUtil | System V semaphores | get (always with `IPC_PRIVATE`), set, zero; unused: get by key, inc, dec, remove | start, server |
| `pty/pty_fork.cpp`, `pty_master_open.cpp`, `tty_functions.cpp` | terminal attributes | ptyClone, ptyFork, ... | kernel |
| `common/usg_common.cpp` | none | array_join, trim, str_split, path_join, mkdir_r, ... | run, start, Fs |
| `common/socket_io.cpp` | a read buffer | rio_writen; unused: rio_readn, rio_readnb, rio_readlineb, open_clientfd, open_listenfd | server, clients |
| `common/properties_config.cpp` | a map | read a file, get | all |
| `common/logger.cpp` | log files | | all |

What is hard here:

- *Interleaving.* Registry calls are read-modify-write on a file, by any number
  of processes. Commands decide on records they read earlier: `run` checks the
  name long before it records it, `start` checks the status before the
  container exists, `stop` kills a pid three seconds after reading it.
- *Ordering.* The server of an instance that ended unmounts and marks its
  container by id; by then the id may stand for a new instance.
- *Handshake.* A command waits for its server, the server waits for the first
  output of the container, and either may be gone.
- *Crashes.* A process may be killed between truncating and writing the file; a
  server may be killed at any point and leaves a container nobody reaps.
- *Restarts.* The supervisor starts a thread per dead container it finds, every
  three seconds, and the threads share the global variable through which
  `start` waits for its server.
- *Terminals.* A relay reads and writes with one thread of control, so either
  direction can block the other; the server does the same for all its clients,
  one of which can stop all. And whatever ends a relay, it has to give the user
  a usable terminal back.
- *Bookkeeping.* The select loop of the server counts ready descriptors and
  keeps highwater marks over slots and descriptors that are reused.

`PROJECT.json` lists these hazards one by one, at the line where each bites.

## Modules

| Module | What it models |
|---|---|
| `ContainerInfo` | a record and the changes the code makes to one |
| `ContainerStore` | *abstract*: what a registry promises, one record changed per step, removed ids never back |
| `ContainerDao` | `container_dao.cpp`, access by access, by processes that interleave and may be killed |
| `ContainerDaoProofs` | theorems about `ContainerDao` |
| `ContainerLifecycle` | commands, servers and container processes over an atomic registry |
| `LifecycleProofs` | theorems about `ContainerLifecycle`, whatever overlaps |
| `SequentialProofs` | theorems about `ContainerLifecycle` under the discipline of `Sequential`, and `NoStaleClaim`; extends `LifecycleProofs` |
| `PtyRelay` | the select loop of `pty_run_container` and its pool of clients |
| `Supervisor` | the polling loop and its restart threads; extends `ContainerLifecycle`, whose commands the threads and the users give |
| `SupervisorProofs` | theorems about `Supervisor`; extends `SequentialProofs` |
| `PtyExec` | `pty_client` and `pty_exec`, with `ptyFork` and `ptyMasterOpen`, between two terminals that buffer a bounded amount |
| `StartHandshake` | how threads of one process wait for the servers they start |
| `SemUtil` | making, finding, using and removing a semaphore set |
| `SocketIo` | `rio_writen` against `rio_readn`, `rio_readnb` and `rio_readlineb` |
| `OpenFd` | `open_clientfd` and `open_listenfd` |
| `ContainerFs` | the mounts of one container over its starts, mount by mount |
| `RepoDirs` | the directories that commands make with `mkdir_r`, at the same time |
| `FsProofs` | theorems about `RepoDirs` and `ContainerFs` |
| `UsgStrings` | `array_join`, `str_join`, `str_split`, `path_join` and what they allocate; `trim` |
| `PropertiesConfig` | reading a configuration file; extends `UsgStrings` |
| `StringProofs` | theorems about `UsgStrings` and `PropertiesConfig` |
| `MCContainerDao`, `MCContainerLifecycle`, `MCSupervisor` | instances for TLC |
| `MCPty` | `PtyRelay` or `PtyExec`: a sum, not a product, as they share no state |
| `PtyProofs` | theorems about `PtyRelay`, `PtyExec` and their sum |
| `MCCommon` | one of `ContainerFs`, `RepoDirs`, `UsgStrings`, `PropertiesConfig`, `SocketIo`, `OpenFd`, `SemUtil`, `StartHandshake`, in the same way |
| `CommonProofs` | theorems about `SemUtil`, `StartHandshake`, `SocketIo`, `OpenFd` and the sum; extends `FsProofs` |

`ContainerLifecycle` and `ContainerDao` compose through `ContainerStore`: the
serial `ContainerDao` implements it (`StoreSpec`), and every registry change of
`ContainerLifecycle` is one of its steps (`StoreSteps`).

### ContainerDao

`file` is the content of `data.json`: `NoFile`, `Truncated` (opened for output,
nothing written yet) or the array. `pc[p]` and `frame[p]` are the program
counter and the locals of the call process `p` is in. The actions follow the
calls: `GetFound`, `GetMissing`, `InsertRead`, `UpdateRead`, `DeleteRead` are
the reads, `OpenTrunc` and `WriteClose` the two halves of every rewrite,
`UpdateMore` the fall-through of `update`, which calls `insert` for each test
that fails and then goes on to overwrite what it inserted. `StartCallback` is
the update `start` makes from the snapshot it took before its container
existed. `PidExit` takes a process out of `/proc`; `Crash` kills a process
inside a call, which ends `dead`, or `torn` if the file was truncated.

Abstractions: reading the file is one step, and so is writing it (the files are
small enough for one system call); deleted elements stay in the array as
`Removed`, which no loop matches, so that positions need not be shifted; JSON
text, times and the command are left out. An empty optional that is written
through (`change_status_to_stop` and `delete_by_id` after a removal) is
undefined: the process dies or goes on with a record nobody filled in.

### ContainerLifecycle

Each member of `Cmds` is one command; `cmd[c]` and `cpc[c]` are its locals and
where it is. The server it forks is named after it (`spc[c]`), and so is the
container that server clones (`cst[c]`, `pid[c]`). One action is one access to
shared state; a registry call is one step, so what goes wrong in this module
would go wrong with a perfect registry too.

| Code | Actions |
|---|---|
| `run`, `start` up to the server | `Run`, `Start`, `Fork`, `WaitForServer` |
| `pty_client` | `Connect`, `ClientEnds` (also of `Attach`) |
| `exec` | `Exec`, `SetNs` |
| `stop`, `rm` | `Stop`, `StopGet`, `SigTerm`, `SigKill`; `Remove`, `AfterStop`, `RemoveSockdir`, `RemoveLayer`, `DeleteRecord` |
| `pty_run_container` | `SrvClone`, `SrvHeader`, `SrvRecord`, `SrvListen`, `SrvPost`, `SrvRelayEnds`, `SrvReap`, `SrvUmount`, `SrvUmountVolume`, `SrvMark` |
| the container | `InstanceSetupFails`, `InstanceMounts`, `InstanceSpeaks`, `InstanceExits` |
| environment | `OrphanReaped`, `ForeignStarts`, `ServerKilled` |

`mounted[id]` counts sets of mounts: `mount_container` adds one,
`umount_container` takes one. Mounts are taken to propagate between the
container's namespace and the host's, as the code does when it mounts in the
container and unmounts in the server. `strayed` and `wiped` record that a signal
or an `exec` reached a process it was not meant for, and that `rm -rf` went
through mounts.

A command keeps two records: `info`, which `rm` goes on to remove, and `found`,
the answer to its last lookup, whose pid is signalled or joined. They differ in
`rm -f`, where `ContainerService::stop` looks up once more (`StopGet`). `rm -rf`
may fail: `remove_container` then returns at once and the record stays, with
none, some or all of the directory gone. A process that dies before it has opened
its end of the terminal is `unopened`: the master is not told of the end of a
terminal that nobody opened, and the server's `read` (`SrvHeader`) blocks for
good. This takes a failing call or a kill in the first moments of the process,
so it occurs with `SyscallsFail` and with the signals of `stop`.

The relay is one step here, `SrvRelayEnds`, and a fair one in `LifeFair`: that
the loop gets there although clients may stop reading is `PtyRelay`'s subject,
where it has a hypothesis (`RelayEnds`). `ServersFinish` is to be read with it.

`Sequential`, `PidReuse`, `SlowReuse`, `SyscallsFail` and `ServerMayDie` switch
parts of the environment on. `SlowReuse` says that the kernel does not give a
pid to somebody else in two cases: while a command that has read it still means
to use it, three seconds at most, and before the server of the container that
had it has ended, which is a few unmounts and a rewrite of the registry after the
container was reaped. Pids are handed out in a circle, so this holds unless
tens of thousands of processes start in that time; a relay that a client blocks
does not count, since the pid is not free before the server has reaped the
container. `Sequential` is the discipline of a user who gives a command
only when everything before it has settled; the code enforces nothing of it.

### PtyRelay

The pool's fields keep their names. Output is numbered, `seen[fd]` is the last
piece written to client `fd`. Each round of a `for` loop is a step, so that
clients connect, write and close in between. A client that closed its end is
found out by `read` in the loop over the clients or by the failing `write` in
the broadcast, whichever comes first.

`select` never fails here: the server has no signal handler, so there is no
`EINTR`. `full` has the descriptors without room: every write may fill its
reader's buffer (`WriteTo`), the next one then waits until the client or the
container reads (`ReaderReads`), closes, or ends. The server has one thread, so
a client that stops reading stops input, output and the end of the container for
everybody. `InputServed` and `RelayEnds` say that this is the only thing that
does: their hypothesis `[]<>~WriteBlocks` excepts a write that blocks for good,
and a write that blocks for a while has to leave nothing undone. How much fits
into a buffer is not counted; `PtyExec` counts. The number of descriptors a process may have
(`RLIMIT_NOFILE`) is taken not to exceed `FD_SETSIZE`, so the pool cannot
overflow before `accept` fails: `Too many clients` is dead code.

### Supervisor

`loop` and `vector` are the polling loop, `tpc[t]` and `tinfo[t]` the thread in
slot `t`; from `startContainer` on the thread is the starter `t` of
`ContainerLifecycle`. `SupInit` is a host after a reboot: records that claim to
run, and nothing running. `Dies` ends the loop and all threads at once, as a
read through the NULL that `list` returns does (`ListsNothing`: no file, no
text, or an empty array), or an `err_exit` in a thread. Servers are processes
of their own and live on.

The threads sleep three seconds before they look again. `Prompt` says that this
is longer than what servers and other threads were doing with the container
when it began; with `Prompt = FALSE` TLC finds two threads that start one
container (`RevivedOnce` violated), since the record says `stoped` from the
mark to the callback of the new server, which comes after the container's first
output. A slot whose thread starts a container is used up, which bounds the
restarts.

### PtyExec

`role` tells the three programs apart: `pty_client`, `pty_exec` and `pty_exec`
with `-d`. Data are counted, so `typed`, `inq`, `outq` and `shown` say where a
piece of input or output is. `ptyMasterOpen` is a call per step, each of which
may fail; `ptyFork`'s failure is only reported, and the loop then runs with a
`masterFd` nobody has set: closed, or the program's own terminal (`Garbage`).
`far` is the other side: for `pty_exec` the forked child, which sets its terminal
up, changes its root and executes, or fails to and strays into the loop; for
`pty_client` the server.

`EINTR` does not occur in these programs: they install no handler. A program
that dies (`err_exit`, `SIGPIPE`) leaves the terminal raw; `TerminalRestored`
speaks of those that return. A child that ends before it has opened its
terminal (`unopened`) leaves `pty_exec` waiting, so `ExecEnds` starts from a
hangup. Writing to the standard output (`StdoutWrite`) is taken not to block: whoever
reads it, a terminal or a pipe, is taken to go on reading. A reader that stops
for good keeps the program from ending, and `ExecEnds` does not speak of that. After the end of its input `pty_exec` waits for the command without
reading its output, which is why `OutputRelayed` excepts that step.

### StartHandshake and SemUtil

`StartHandshake` has the threads of one process in `ContainerService::start`.
The set each waits for (`waitsFor`) and the set its server zeroes (`posts`) are
both read from the global `synchSem`, at different moments. Semaphore sets are
numbered as they are made, are never removed, and the system has `SEMMNI`;
any number may exist at the start. `met[t]` is a history variable: the other
starts that overlapped with `t`'s. A start that met nobody returns when its own
server listens. Two overlapping starts may wait for each other's servers, but
nobody waits in vain; with three, one can: `a` forks, `b` makes its set, `a`
reads the variable, and `c` makes its set before `b` forks. Then `a` waits for
`b`'s set, of which no server was told. `WaitsAnswered` says exactly this.

The program itself only makes private sets (`IPC_PRIVATE`) and never calls
`inc`, `dec` or `remove`; `SemUtil` models the library beyond that use, with a
client of its own. It has processes that get one set by its key, use it as a lock and may
remove it, and may be killed anywhere; `otime` is the field by which the others
see that the set has been given its value. Killed makers leave a set that is
never ready, and who finds it gives up after `MAX_TRIES`.

### SocketIo and OpenFd

`SocketIo` is one stream. `wire` holds what was written and not read, and the
kernel takes or gives any number of bytes at a time. The writer is the server
that sends a new client the header, whose length is -1 when the first read
failed; `ToSize` is the conversion to `size_t`, modulo `2 * SSIZE_MAX + 2`. The kernel
refuses a count beyond `SSIZE_MAX`, and this alone keeps memory behind the
header from being sent (`StreamWhole`). An interrupted call is a stuttering
step. The readers, `rio_readn`, `rio_readnb` and `rio_readlineb`, have no caller in
the program, nor do the functions of `OpenFd`: `ReadWhole` and `NothingLeaks`
state their contract as a library. `OpenFd` follows both functions call by call. When the `close` of a
failed attempt fails, they return without `freeaddrinfo`; `NothingLeaks`
excepts the list in that case.

### ContainerFs

`mounts` is the kernel's mount table below `merged`, oldest first. The kernel
is modelled by three facts: a path leads into the youngest mount at or above
it, `umount` of a path takes that mount away if it is mounted exactly there,
and refuses with `EBUSY` if another mount sits inside it. `pc` and `i` follow
`mount_container`, `mount_volume_list`, `umount_container` (`Exit` is the
moment the server gets there) and `umount_volume_list`. `FS_TYPE` is
`overlay2` (`util/path_assembler.h:5`), so the `aufs` branch is dead.

The loop of `mount_container` takes its next entry before it increments, so
entry 0 is mounted twice. `umount_container` goes through the table once, in
reverse, and then unmounts the last path again; its comment says that the last
`umount` "often" fails and succeeds when retried. The model shows why: without
the retry (`Retry_Not`) one mount is always left.

Volumes nested in a directory of the table, or in each other, do stay mounted:
the table is unmounted before the volumes, and volumes in the order in which
they were mounted. `NothingLeft` therefore speaks of volumes that are not
nested, the second part of `NothingLeft` says that nothing else is affected, and `FreshMounts`
that a later start mounts over what was left and never shows it: at the overlays
of the table (`/bin`, `/etc`, ...) and at the volumes. A mount of the table's other
entries (`/proc`, `/dev`, `/tmp`, ...) that fails is only logged, so a container may
run without it, and see there what an earlier start left.

Left out: a volume whose text is not `/src:/dest` (the code goes on with memory
it has freed), and what `mkdir_r` does on the way, which is in `RepoDirs`.

### RepoDirs

Every command begins with `create_repo`; `run` goes on with `create_container`,
and its cloned process makes the directories of the overlays. `MkdirCalls(c)` is
that list, `mkdirCall[c]` the call of `mkdir_r` the command is in and `depth[c]` how
many names of its path it looks at: down with `access` (`Found`, `Missing`),
up again with `mkdir` (`Mkdir`, `MkdirExists`). `mkdir` fails only with
`EEXIST`; a full disk is not modelled.

### UsgStrings

Pure operators over strings, sequences of characters, and the three places
that use them: the callback of `run` (`RunRecords`), `start` (`StartSplits`) and
`bind_mount` (`VolumePlaced`). `BLANK`, a set of characters in the code, is one
character. A command of empty arguments only makes `array_join` return NULL, on
which the server dies; nothing follows in the model. `CommandKept` says exactly what
becomes of a command that is stored and started again: each argument is cut at
its blanks, and empty ones are dropped. `str_join` has no caller; it is checked
against `array_join` (in `BuffersFit`).

### PropertiesConfig

One round of the loop is a step, with any line. `strtok` is `str_split` at the
delimiter, and a line without a key or a value ends the process: `std::string`
throws when it is made from NULL. `ConfigReads` speaks of files of comments and
lines with one `=`, and says that the first line for a key counts.

## Runs

| Run | Instance | Shows |
|---|---|---|
| `DaoSerial` | 2 processes, 2 ids, 1 name, 3 calls each, calls do not overlap | `ContainerDao` implements `ContainerStore` (`StoreSpec`), and no container gets lost (`RegistryComplete`), although `start` holds a snapshot across other calls and `update` falls through |
| `DaoConcurrent` | 2 calls each, overlapping, with kills | `TypeOK`; the file is without text only inside a rewrite or after a kill in one (`FileWhole`) |
| `DaoLostRecord` | the same without kills | *violated*: `RegistryComplete` |
| `LifeConcurrent` | 2 commands of any kind at any time, pid reuse, failing system calls, killed servers | `TypeOK`; a `run` that reports success is recorded and served (`RunIsRegistered`); every registry change is a step of the abstract registry (`StoreSteps`) |
| `LifeSequential` | 3 commands, one new name, settled in between, pids reused but neither within a command nor before the server of their container has ended | one process per container, a true status, balanced mounts, nothing unmounted under a live container, unique names, no signal and no `exec` to a foreign process (`SignalsArrive`) |
| `LifeFair` | 2 commands at any time, no `rm` | no ended server leaves a stale claim; servers of dead containers finish, if no client blocks their relay; commands return if containers print something |
| `LifeForcedRemoval` | one `rm -f` | *violated*: `NothingWiped` |
| `LifeSilent` | `run -d` of a container that prints nothing | *violated*: `CommandsReturn` |
| `Supervise` | one container lost in a reboot, 2 restarts, killed servers, a user's `stop` or `rm` | `SupTypeOK`; one process per container although threads overlap with polls and users, and what is recorded as stopped and at rest is down (`RevivedOnce`); a dead container gets a server again unless the supervisor died or a user's lookup came first (`DeadRevived`) |
| `Relay` | server: 3 clients for 2 descriptors, 2 pieces of output; user's side: every role, 3 pieces each way, room for 1 of input and 2 of output | server: the pool is consistent; `nready` never runs out early and is never negative; output reaches all clients; unless a write blocks for good, input is read and the loop ends with its container. User's side: the terminal is given back and a failed `ptyFork` leaves no descriptor (`TerminalRestored`), `ExecEnds`, and output is shown unless the command stops reading (`OutputRelayed`) |
| `ExecStray` | the same | *violated*: `OnlyParentRelays` |
| `Common` | see below | mounts: all is unmounted unless volumes are nested, what stays is where they are (`NothingLeft`), and is never seen by a later start (`FreshMounts`). Directories: a root file system is always complete, only the socket's directory can be missing, after a race for the repository (`DirsComplete`). Strings: `CommandKept` and `PathNames` against reference definitions, `BuffersFit`. Configuration: `ConfigReads`. Streams: nothing lost, repeated or added (`StreamWhole`), short counts only at the end, whole lines (`ReadWhole`). Sockets: `NothingLeaks`. Semaphores: `OneToken`. Starts: `WaitsAnswered`. All of them: `CommonTypeOK` |

`Common` has up to 2 volumes out of 6 places, 2 starts, failing mounts and hosts
without `/bin`; 2 `run`s that find no repository, half of one, or all of it;
strings of up to 3 characters and 2 arguments; files of 2 lines of up to 4
characters; streams of up to 3 bytes through a buffer of 2; up to 2 addresses;
3 processes, one of which may be killed, for one semaphore; 3 threads in
`start` with room for 0 to 3 semaphores.

*Bounds.* Two processes are enough for every lost update and every torn read of
a file that is rewritten as a whole: more processes only repeat the pair. Three
calls per process let a record be inserted, changed and removed by different
processes and a snapshot outlive all of that. Two ids tell apart "this record"
and "another one". In `ContainerLifecycle` two overlapping commands give every
pair of commands and servers; three are used where the commands follow each
other, so that a container is run, ended and run again and a name is reused. In
`PtyRelay` two descriptors are the least with which a slot below the highwater
mark is free while one above it is taken; the third client makes `accept` fail.
In `ContainerFs` the places of volumes are beside, on, inside and around
directories of the table and inside each other, so two volumes give every
relation there is, and the second start meets what the first one left. In
`UsgStrings` the buffers begin with 1 pointer and 2 characters, in place of 64
and 1024, so that they grow several times, and the read buffer of `SocketIo`
has 2 bytes in place of 8192, so that calls straddle it. Three threads are the
least with which a start waits in vain, three processes the least of which one
makes a semaphore, one finds it and one comes after its removal. In `Supervise`
two threads are enough to collide; the user's command and the killed server
are what can come between a thread's two looks.

*Fairness.* `LifeFair` and `LifeSilent` assume weak fairness of each command,
each server and the mounting of each container: they are processes that the
kernel schedules when they can run. Nothing is assumed of users, of the output
of a container or of its end; `SpeakingReturns` takes the output as an explicit
hypothesis. `Supervise` adds the supervisor's loop and threads, and takes it
that containers print something. `Relay` assumes weak fairness of the server, of
the program at the user's terminal and of the set-up of its child, not of users,
clients or commands. A write that waits for room is not enabled, so fairness does
not get it done: `InputServed` and `RelayEnds` have as a hypothesis that no write
of the server blocks for good, `OutputRelayed` that the command goes on reading.
Deadlock checking is off in all runs: processes end, and when all
have ended nothing more happens.

### What the violations say

The four violated runs are disagreements between the code and what a comment or
the README says of it; `PROJECT.json` quotes the lines. `LifeSequential` also
marks the border of what holds: with commands that overlap (`Sequential =
FALSE`), TLC finds two `run`s with one name that both pass the check
(`NamesUnique`), two `start`s of one container that both go through
(`SingleInstance`), and an old server that unmounts and marks stopped a
container that was started again while it was cleaning up (`StatusTrue`,
`LiveIsMounted`). Without `SlowReuse`, `SignalsArrive` fails: `stop` sends
SIGKILL three seconds after its lookup, by when a container that obeyed SIGTERM
is reaped and its pid may be another's; `exec` opens `/proc/<pid>` in the same
way. With kills, `RegistryComplete` fails even for calls that do not
overlap: a process killed between truncating and writing leaves no record at
all. And with `rm` among the commands of `LifeFair`, `SpeakingReturns` fails:
`rm` takes the socket's directory from under a server that has yet to bind, the
server exits, and its command waits for ever.

## Proofs

The theorems hold for every value of the constants that satisfies the named
assumptions of their modules (`InfoAssumption`, `DaoAssumption`,
`LifecycleAssumption`, `RelayAssumption`, `ExecAssumption`, `SemAssumption`,
`HandshakeAssumption`, `IoAssumption`, `OpenAssumption`, `RepoAssumption`, `NameAssumption`,
`FsAssumption`, `SupervisorAssumption`, `BeforeAssumption`, `StringsAssumption`,
`ConfigAssumption`), which TLC evaluates on every instance. Most of these say
that bounds are numbers and sets are finite; `NameAssumption` tells the prover
that the seven directory names in `RepoDirs` are strings, and
`BeforeAssumption` that there are ids and pids enough for the containers of
before the reboot. A theorem that needs one of the
switches of the environment says so as its hypothesis.

Every proof has the same shape: an inductive invariant, one lemma per action or
group of actions that keeps it, and a last step that puts them together.

### The registry (`ContainerDaoProofs`)

| Theorem | Statement | Argument |
|---|---|---|
| `DaoTypeCorrect` | `Spec => []TypeOK` | `TypeOK` is inductive: stopping, starting, appending and removing give records and arrays of records |
| `DaoFileWhole` | `Spec => []FileWhole` | inductive together with `TypeOK`: only `OpenTrunc` leaves the file without text, and it leaves its process in `write`; `WriteClose` gives the file an array; `Crash` turns `write` into `torn`, which no action leaves |
| `SerialImplementsStore` | `Serial`, `~MayCrash`: `Spec => StoreSpec` | the refinement of `ContainerStore`. The abstract step is the last read of a call, which decides what the file will be; `Content` is that array from then on. `SerialInv` says that at most one process is inside a call (`OneCaller`), that the locals of a call are what its place in the code implies (`FramesOK`), that the array has each id once and none that was removed (`ContentOK`), and that the record a process holds is new if it is about to be inserted, and otherwise is or was in the registry, under the same name (`HeldOK`). Each step then keeps `Content`, inserts, replaces or removes one record (`ContentStep`), and that is a step or a stutter of the store |
| `SerialRegistryComplete` | the same, and `Names \cap Ids = {}`: `Spec => []RegistryComplete` | `RegisteredOK`, on top of `SerialInv`: what is registered is in `Content`, and a delete under way takes out only the record it was asked to. Names must not be ids because `delete_by_id` looks its id up among the names too |

`Serial` and `~MayCrash` are what `DaoLostRecord` and the remarks above show to
be needed: the code has no lock, and a kill inside a rewrite empties the file.

### Commands, servers and containers (`LifecycleProofs`, `SequentialProofs`)

| Theorem | Hypotheses | Property |
|---|---|---|
| `LifecycleTypeCorrect` | none | `TypeOK` |
| `LifecycleStoreSteps` | none | `StoreSteps` (an action property) |
| `LifecycleRunIsRegistered` | none | `RunIsRegistered` |
| `ServersLeaveNoClaim` | `~PidReuse`, `~ServerMayDie` | `NoStaleClaim` |
| `SequentialSingleInstance` | `Sequential` | `SingleInstance` |
| `SequentialLiveIsMounted` | `Sequential` | `LiveIsMounted` |
| `SequentialNamesUnique` | `Sequential` | `NamesUnique` |
| `SequentialStatusTrue` | `Sequential`, `~ServerMayDie` | `StatusTrue` |
| `SequentialSignalsArrive` | `Sequential`, `SlowReuse`, `~ServerMayDie` | `SignalsArrive` |

The theorems say more than the runs do: `LifeSequential` has no failing system
calls and no killed servers, whereas the theorems allow failing system calls
throughout, and killed servers wherever `~ServerMayDie` is not a hypothesis.

The first three rest on `RegInv`: a command works on one id
(`CommandsIdentified`), forks once (`ForksOnce`), a record is filed under its id
(`RecordsKeyed`), the id of a `run` is new until its server records it
(`RunsFresh`), records are of ids that were there or were given out
(`RecordsKnown`), however old the record a command holds is, its name is the
current one (`NamesKept`), and a semaphore is
released only by a server that serves (`ReleasedServes`).

The sequential ones add `SeqInv`. `Coupled` ties the state of a server to that
of its container. `OneActive` says that one command at most is neither idle nor
settled, and `BusyUnique` that a container has one server at most that still
has something to do for it: the properties fail as soon as two do. `ClaimsMade`
and `NamesFresh` say that the registry already claims what runs, and that the
name `run` looked up is still free. `StatusTrue` speaks of settled states only;
what leads there is `ClaimHeld` (a record that claims to run has a server that
will mark it), `MountingServed` and `MountHeld` (a set of mounts has a server
that will take it away), each with the one exception (`StuckAt`) of a server
that failed before it released its command: that command never returns, and
under this discipline nothing is given after it. `SignalsArrive` adds `PidsDistinct` and
`UsesOwn`: a pid that a command still means to use is its container's, or
nobody's.

### The supervisor (`SupervisorProofs`)

| Theorem | Hypotheses | Property |
|---|---|---|
| `SupTypeCorrect` | none | `SupTypeOK` |
| `SupRevivedOnce` | `Prompt`, `"start" \notin Kinds`, `Names \cap Ids = {}` | `RevivedOnce` |

The hypotheses are those of the run `Supervise`, for any number of threads,
users' commands and containers. `Prompt` is the code's own timing: a thread
sleeps three seconds between its two looks, by when the commands, the servers
and the other threads at that container have come to rest. Users leave starting to the supervisor,
since two starts at once race with each other also without it
(`ContainerLifecycle`). No name is an id, because `get` matches both, so that a
lookup by id could find another container.

`SupInv` is inductive without the discipline of `SequentialProofs`: commands of
several users and threads overlap. `Begun` says how far a command, its server
and its container can be from each other; `Filed` and `SlotsKept` that records
are filed under their ids and that what threads hold is of a container that was
run. `BusyUnique` is the heart: a container has one server or process at most.
It is kept because a start is given only by a thread, and a thread between its
second look and its start has the container for itself (`Alone`): at the second
look the record claimed a process that was not there and everything was at rest
(`Prompt`), and `ClaimsTrue` (the record of a container that runs has its pid)
makes a dead claim mean that nothing runs. From then on a second thread with the
same container sleeps until the first is through, and finds it running or its
claim gone. The proof classifies the steps
of commands, servers and threads by what they do to the registry and to
processes (`StepCase`), then shows each part of `SupInv` once per class.

### Terminals (`PtyProofs`)

| Theorem | Argument |
|---|---|
| `RelayTypeCorrect` | needs all of the invariants below: that `nready` is not negative is not a matter of types |
| `RelayPoolConsistent` | not inductive as it stands: dropping a client clears its descriptor from `read_set`, which must not be the terminal's or the listening one. `PoolInv` adds `OwnFds`, that no client has such a descriptor, and the types |
| `RelayOutputDelivered` | speaks of the states between rounds only. `OutputInv` says what holds within the broadcast: the slots below `i` are served. That the loop's end serves all needs `PoolInv`: no client is above `maxi`, no two slots share a descriptor |
| `RelayNoneSkipped` | `CountInv`: in the loop `nready` is at least the number of ready clients from slot `i` on, plus one if the terminal is ready; slots are counted by the cardinality of their set |
| `ExecTerminalRestored` | `TerminalInv`: `ptyFork` has not answered while it is under way, nothing is open before its first call, and `exec -d` leaves the terminal alone |
| `ExecTypeCorrect`, `ExecOutputConserved` | inductive together: what was shown, is in hand and is in the terminal adds up to what the other side wrote, which bounds what the buffers hold |
| `PtyTypeCorrect` | a behaviour of the sum is one of each relay, so both type theorems hold in it |

### Semaphores, streams, sockets (`CommonProofs`)

| Theorem | Argument |
|---|---|
| `SemTypeCorrect`, `SemOneToken` | `SemInv`: who holds the id of the set that exists (`Identified`), the maker is alone until the set is ready (`MakerAlone`), value and holders add up to one (`TokenKept`), users found it ready (`UsersFoundReady`), and the kernel's list of undo values is that of the holders (`UndoList`), which is what a kill gives back |
| `HandshakeTypeCorrect`, `HandshakeWaitsAnswered` | `HandshakeInv`: meeting is mutual (`MetEachOther`), a start that met nobody has its own set in `synchSem` (`AloneHasItsOwn`), and a start that waits for a set nobody posts has a fork to come that will, or has met two others (`ServerToCome`) |
| `OpenTypeCorrect`, `OpenNothingLeaks` | `OpenInv`: where the loop is tells what is open |
| `IoStreamWhole` | `StreamInv`: what was taken, is buffered, is in the socket and is to be written is the header, in order, at every step (`StreamWhole`), with counts that agree with the sequences (`Counted`) |
| `IoReadWhole` | adds `LineInv`: the line so far has no newline and leaves room for the zero |
| `CommonTypeCorrect` | from the type theorems of the parts; a step of the sum is a step of one part and leaves the others as they are (`CommonBehavesAsParts`, a lemma) |

### Directories and mounts (`FsProofs`)

`RunsGetTheirDirs`: `DirsSpec => []DirsComplete`, for any number of commands,
any root file system and any overlays. The callers of `mkdir_r` ignore its
failures, so a call may end with its directory missing; the proof says why the
later calls make up for it. Four directories are shared (`/data`, the
repository, `containers`, `overlay2`), the rest is a command's own. A failing
call leaves the next shared directory at least: the `n`-th call, whether it
succeeds or not, leaves the `n`-th of them (`KnownThere`). A call can only fail
on a directory it had passed as missing (`PassedMissing`), which is neither one
it knows to be there nor its own; so from the fifth call on none fails
(`CallsDone`), the third fails only on `containers` and only in a new
repository (`SocketDone`), and what the fourth may have left out is above
directories made later, as directories are closed under parents (`Closed`).

`DirsTypeCorrect`: `DirsSpec => []DirsTypeOK`. What is missing to the types is
that only directories of `AllDirs`, those of a command or of the repository, are
ever made or refused (`DirsWithin`): the path a caller is at is an ancestor of
the one it was given.

`FsTypeCorrect` and `FsFreshMounts`: `FsSpec => []FsTypeOK` and
`FsSpec => []FreshMounts`, for any volumes, nested or not, and any number of
starts. `FsInv` ties the loop variable to the loop it belongs to. `FreshInv`
says of each loop that what it has mounted so far in this start is what the
path leads into; it is kept because a new mount hides only what is at or below
its own place, and is itself a mount of this start.

`FsNothingLeft`: `FsSpec => []NothingLeft`. Unmounting works on the youngest
mount at a path and is refused while something is mounted below, so the proof
counts. A path is `Clean` if no other volume is nested with it and, if it is a
volume itself, no directory of the table. `LeftInv` says of every clean path
that at most as many mounts are there as this start has put there and not yet
taken away (`MountsAt`: per directory and volume, step of the start and round of
its loop; two for the first directory), and that whatever lies above it was
mounted before (`Ordered`). A clean path that is unmounted has only clean
directories below it, later in the table (`CleanBelow`, `TableOrder`: only
`/dev` has any), whose count has come down to 0; so the unmount takes one away
(`CleanUmount`). The retry takes the second mount of the first directory, if
the host has that directory; if not, nothing was mounted there. When the
container has stopped every count is 0.

### Strings and the configuration (`StringProofs`)

| Theorem | Property |
|---|---|
| `StringBuffersFit` | `StringsSpec => []BuffersFit` |
| `VolumePathNames` | `StringsSpec => []PathNames` |
| `CommandStaysKept` | `StringsSpec => []CommandKept` |
| `ConfigAlwaysReads` | `ConfigSpec => []ConfigReads` |

The state is simple (`Derived`: what is recorded, executed and mounted is what
the helpers make of what was given; `ConfigInv`); the work is in what the loops
of the helpers compute for strings of any length. The loops are folds. That a
fold exists as a function, and passes through the values its operation gives,
is proved first (`FoldExists`, `TraceOf`); every loop then has a trace
(`SizeTrace`, `JoinTrace`, `StrJoinTrace`, `SplitTrace`), and facts about traces
go by induction over their length. The library's induction theorems take an
operator as a parameter, which the provers cannot instantiate; `UpTo` is
induction for a *set* of numbers instead, from the well-foundedness of `<`, and
each use of it defines the set of positions up to which a fact holds.

- `BuffersFit`: the length of the joined text is the sum of the lengths and of
  the separators (`ArrayJoinFits`); doubling keeps ahead of tokens that come one
  by one (`SplitFits`) and of texts that come piece by piece (`StrJoinFits`,
  `PathJoinFits`).
- `SplitBetween`, which the other three rest on: two texts with a delimiter
  between them have the tokens of the one and then those of the other. `strtok`
  works on its last token only, so what it finds later does not depend on what it
  found before (`TokenBehind`, `RunContinues`).
- `PathNames`: a separator cut off at the end and separators cut off at the
  start change no token (`WithoutLastFacts`, `WithoutFirstFacts`); two
  separators in a row come from one of the two paths (`PathJoinTwice`).
- `CommandKept`: `AreWords` is the invariant of the loop of `str_split`: after
  `p` characters the tokens are the words that begin in them, each from its
  start to the gap behind it, but for the last one, which ends at `p` while it
  is open. `ArrayJoinWords` takes the command apart argument by argument.
- `ConfigReads`: `trim` gives what lies between the outermost characters that are
  no blanks (`TrimInk`), so a line is skipped if and only if it is empty or a
  comment (`SkippedIsComment`), and a plain line gives its key and its value
  (`PlainRead`); `insert` then keeps the first line for each key (`InsertSays`).

### Only model-checked

Every invariant and every action property that a passing run checks is also a
theorem. What remains with TLC is liveness (`ServersFinish` and
`SpeakingReturns` in `LifeFair`, `DeadRevived` in `Supervise`, `InputServed`,
`RelayEnds`, `ExecEnds` and `OutputRelayed` in `Relay`): it rests on fairness
and on what is enabled, which is out of the prover's reach. The violations are
counterexamples, which need no proof.

## Not modelled

- the logger, usage texts and option parsing: no state that anything reads;
- terminal attributes one by one, and `ttySetCbreak`, `zero_nowait`,
  `zero_timeout`, `mkdirat_r` and number conversion, which nothing calls or
  which only convert;
- `include/jsoncpp` and `include/sole.h`, which are third-party: the registry is
  modelled as the array that jsoncpp reads and writes, ids as fresh values;
- the zombies that servers leave in the supervisor, which never waits for them;
- the root directory of a command: a failed `chroot` is only reported by the
  code, and the command then runs outside the container's root.
