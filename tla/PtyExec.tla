------------------------------ MODULE PtyExec ------------------------------
(***************************************************************************)
(* The two programs that sit between a user's terminal and a terminal in a *)
(* container: pty_client, which run, start and attach become, talks to the *)
(* container's server over a socket; pty_exec starts a command of its own  *)
(* on a new pseudo terminal inside the container (pty/pty_exec_util.cpp,   *)
(* pty_fork.cpp, pty_master_open.cpp, tty_functions.cpp).  Both put the    *)
(* user's terminal in raw mode, relay until one side ends, and put it back.*)
(*                                                                         *)
(* Data are counted, not kept: typed and produced pieces on both sides, of *)
(* which a terminal or socket buffers a bounded number.                    *)
(***************************************************************************)
EXTENDS Integers

CONSTANTS
    InCap,     \* pieces of input the far terminal or socket buffers
    OutCap,    \* pieces of output it buffers
    MaxTyped,  \* bound: pieces the user types
    MaxProduced  \* bound: pieces the far side writes

ASSUME ExecAssumption == {InCap, OutCap, MaxTyped, MaxProduced} \subseteq Nat \ {0}

VARIABLES
    role,      \* "client", "exec" or "execd", which is exec -d
    xpc,       \* what the program does next
    masterOpen,\* ptyMasterOpen's descriptor is open in the program
    masterFd,  \* the variable: "master", or what an unset one happens to hold
    childPid,  \* ptyFork's answer: "pid", "failed", or "none" before it
    tty,       \* the user's terminal: "cooked" or "raw"
    ready,     \* what select reported: a subset of {"stdin", "master"}
    far,       \* the far side: the forked child, or the server of a client
    typed,     \* pieces the user has typed and the program has not read
    keyed,     \* pieces the user has typed
    stdinEnd,  \* the user's side is at its end (end of file, hangup)
    inq,       \* input that waits for the far side
    outq,      \* output that waits for the program
    produced,  \* pieces of output the far side wrote
    shown      \* pieces the program wrote to its standard output

userVars == <<typed, keyed, stdinEnd>>
dataVars == <<inq, outq, produced>>
execVars == <<role, xpc, masterOpen, masterFd, childPid, tty, ready, far, userVars, dataVars, shown>>

XSteps == {"connect", "openpt", "grantpt", "unlockpt", "ptsname", "fork", "raw", "select",
           "stdin_read", "stdin_write", "master_read", "stdout_write", "wait", "reset",
           "done", "died"}

\* "setup" to "stray" are steps of the forked child: it becomes the controlling
\* process of the terminal, enters the container's root, and executes.  It ends
\* as a "zombie", or "unopened" when it never had the terminal open: the master
\* hears of the end of a terminal only once somebody has opened it.
FarSteps == {"none", "setup", "chroot", "execvp", "running", "stray", "unopened", "zombie", "reaped"}

\* What an int that nobody set may hold: a descriptor that is not open, or the
\* process's own terminal.
Garbage == {"bad", "stdio"}

ExecTypeOK ==
    /\ role \in {"client", "exec", "execd"}
    /\ xpc \in XSteps
    /\ masterOpen \in BOOLEAN
    /\ masterFd \in {"master"} \cup Garbage
    /\ childPid \in {"none", "pid", "failed"}
    /\ tty \in {"cooked", "raw"}
    /\ ready \subseteq {"stdin", "master"}
    /\ far \in FarSteps
    /\ typed \in 0..MaxTyped /\ keyed \in 0..MaxTyped
    /\ stdinEnd \in BOOLEAN
    /\ inq \in 0..InCap /\ outq \in 0..OutCap
    /\ produced \in 0..MaxProduced /\ shown \in 0..MaxProduced

\* A client's container has a server; exec starts from nothing.
ExecInit ==
    /\ role \in {"client", "exec", "execd"}
    /\ xpc = IF role = "client" THEN "connect" ELSE "openpt"
    /\ masterOpen = FALSE
    /\ masterFd \in Garbage
    /\ childPid = "none"
    /\ tty = "cooked"
    /\ ready = {}
    /\ far = IF role = "client" THEN "running" ELSE "none"
    /\ typed = 0 /\ keyed = 0 /\ stdinEnd = FALSE
    /\ inq = 0 /\ outq = 0 /\ produced = 0 /\ shown = 0

XGoto(step) == xpc' = step

-----------------------------------------------------------------------------
(* The user and the command *)

UserTypes ==
    /\ keyed < MaxTyped /\ ~stdinEnd
    /\ keyed' = keyed + 1 /\ typed' = typed + 1
    /\ UNCHANGED <<role, xpc, masterOpen, masterFd, childPid, tty, ready, far, stdinEnd, dataVars, shown>>

UserEnds ==
    /\ ~stdinEnd
    /\ stdinEnd' = TRUE
    /\ UNCHANGED <<role, xpc, masterOpen, masterFd, childPid, tty, ready, far, typed, keyed, dataVars, shown>>

CommandReads ==
    /\ far = "running" /\ inq > 0
    /\ inq' = inq - 1
    /\ UNCHANGED <<role, xpc, masterOpen, masterFd, childPid, tty, ready, far, userVars, outq, produced, shown>>

\* A write to a full terminal blocks.
CommandWrites ==
    /\ far = "running" /\ produced < MaxProduced /\ outq < OutCap
    /\ produced' = produced + 1 /\ outq' = outq + 1
    /\ UNCHANGED <<role, xpc, masterOpen, masterFd, childPid, tty, ready, far, userVars, inq, shown>>

CommandEnds ==
    /\ far = "running"
    /\ far' = "zombie"
    /\ UNCHANGED <<role, xpc, masterOpen, masterFd, childPid, tty, ready, userVars, dataVars, shown>>

-----------------------------------------------------------------------------
(* pty_client: connect; ptyFork: one call after the other *)

\* connect, then the terminal; refused: err_exit before the terminal is touched.
ConnectServer ==
    /\ xpc = "connect"
    /\ \/ XGoto("raw") /\ masterFd' = "master" /\ masterOpen' = TRUE
       \/ XGoto("died") /\ UNCHANGED <<masterFd, masterOpen>>
    /\ UNCHANGED <<role, childPid, tty, ready, far, userVars, dataVars, shown>>

\* ptyFork returns -1, which pty_exec only reports.
ForkFails ==
    /\ childPid' = "failed"
    /\ XGoto("raw")
    /\ UNCHANGED <<role, masterFd, tty, ready, far, userVars, dataVars, shown>>

OpenPt ==
    /\ xpc = "openpt"
    /\ \/ /\ masterOpen' = TRUE /\ XGoto("grantpt")
          /\ UNCHANGED <<role, masterFd, childPid, tty, ready, far, userVars, dataVars, shown>>
       \/ ForkFails /\ UNCHANGED masterOpen

NextCall == [grantpt |-> "unlockpt", unlockpt |-> "ptsname", ptsname |-> "fork"]

\* grantpt, unlockpt, ptsname (and a name that is too long): each closes the
\* descriptor when it fails.
MasterCall ==
    /\ xpc \in DOMAIN NextCall
    /\ \/ /\ XGoto(NextCall[xpc])
          /\ UNCHANGED <<role, masterOpen, masterFd, childPid, tty, ready, far, userVars, dataVars, shown>>
       \/ ForkFails /\ masterOpen' = FALSE

PtyFork ==
    /\ xpc = "fork"
    /\ \/ /\ childPid' = "pid" /\ far' = "setup" /\ masterFd' = "master"
          /\ XGoto("raw")
          /\ UNCHANGED <<role, masterOpen, tty, ready, userVars, dataVars, shown>>
       \/ ForkFails /\ masterOpen' = FALSE

-----------------------------------------------------------------------------
(* The child of ptyFork *)

ChildGoto(step) ==
    /\ far' = step
    /\ UNCHANGED <<role, xpc, masterOpen, masterFd, childPid, tty, ready, userVars, dataVars, shown>>

\* setsid and open of the slave, then its attributes and dup2: any failure is
\* err_exit.
ChildSetup ==
    /\ far = "setup"
    /\ \E end \in {"chroot", "unopened", "zombie"} : ChildGoto(end)

\* chdir and chroot: a failure is only reported.
ChildChroot == far = "chroot" /\ ChildGoto("execvp")

\* execvp does not return, or it does and the child goes on below.
ChildExecvp == far = "execvp" /\ \E end \in {"running", "stray"} : ChildGoto(end)

\* The child in the parent's loop, with a masterFd of its own that nobody set:
\* it takes the input that was meant for the command.  Its write fails, wait
\* has no child to report and the assertion ends it; or it writes to its own
\* terminal and goes on.
StrayRelays ==
    /\ far = "stray" /\ inq > 0
    /\ inq' = inq - 1
    /\ \/ far' = "zombie" /\ UNCHANGED <<outq, produced>>
       \/ /\ outq < OutCap /\ produced < MaxProduced
          /\ outq' = outq + 1 /\ produced' = produced + 1
          /\ UNCHANGED far
    /\ UNCHANGED <<role, xpc, masterOpen, masterFd, childPid, tty, ready, userVars, shown>>

-----------------------------------------------------------------------------
(* The relay *)

HungUp == far \in {"zombie", "reaped"}

\* ttySetRaw or its like in pty_client, whose failure nobody looks at.
EnterRaw ==
    /\ xpc = "raw" /\ role # "execd"
    /\ tty' \in {"raw", "cooked"}
    /\ XGoto("select")
    /\ UNCHANGED <<role, masterOpen, masterFd, childPid, ready, far, userVars, dataVars, shown>>

\* With -d the output goes nowhere; err_exit if that cannot be had.
dumpStdOut ==
    /\ xpc = "raw" /\ role = "execd"
    /\ xpc' \in {"select", "died"}
    /\ UNCHANGED <<role, masterOpen, masterFd, childPid, tty, ready, far, userVars, dataVars, shown>>

Watched == IF role = "execd" THEN {"master"} ELSE {"stdin", "master"}

StdinReadable == typed > 0 \/ stdinEnd

MasterReadable == IF masterFd = "stdio" THEN StdinReadable ELSE outq > 0 \/ HungUp

AfterSelect(set) == IF "stdin" \in set THEN "stdin_read" ELSE "master_read"

\* Mutant: the highest descriptor, the terminal's, is left out.
SelectReady_OffByOne ==
    {d \in Watched : d = "stdin" /\ StdinReadable}

SelectReady ==
    {d \in Watched : (d = "stdin" /\ StdinReadable) \/ (d = "master" /\ MasterReadable)}

SelectFds ==
    /\ xpc = "select" /\ masterFd # "bad"
    /\ ready' = SelectReady
    /\ ready' # {}
    /\ XGoto(AfterSelect(ready'))
    /\ UNCHANGED <<role, masterOpen, masterFd, childPid, tty, far, userVars, dataVars, shown>>

\* A descriptor that is not open: select fails and leaves the set as it was
\* given; a number beyond the set may also end the process.
SelectBad ==
    /\ xpc = "select" /\ masterFd = "bad"
    /\ ready' = Watched
    /\ xpc' \in {AfterSelect(Watched), "died"}
    /\ UNCHANGED <<role, masterOpen, masterFd, childPid, tty, far, userVars, dataVars, shown>>

\* Out of the loop: pty_exec waits for its child first.
Broken == IF role = "client" THEN "reset" ELSE "wait"

StdinRead ==
    /\ xpc = "stdin_read" /\ StdinReadable
    /\ IF typed > 0
       THEN typed' = typed - 1 /\ XGoto("stdin_write")
       ELSE UNCHANGED typed /\ XGoto(Broken)
    /\ UNCHANGED <<role, masterOpen, masterFd, childPid, tty, ready, far, keyed, stdinEnd, dataVars, shown>>

AfterStdin == IF "master" \in ready THEN "master_read" ELSE "select"

\* rio_writen blocks while the far side's buffer is full.  A terminal that hung
\* up takes the input or refuses it; a socket refuses it with a SIGPIPE, which
\* the client does not ignore.
StdinWrite ==
    /\ xpc = "stdin_write"
    /\ \/ /\ masterFd = "master" /\ ~HungUp /\ inq < InCap
          /\ inq' = inq + 1 /\ XGoto(AfterStdin)
       \/ /\ masterFd = "master" /\ HungUp
          /\ xpc' \in IF role = "client" THEN {"died"} ELSE {AfterStdin, Broken}
          /\ UNCHANGED inq
       \/ masterFd = "bad" /\ XGoto(Broken) /\ UNCHANGED inq
       \/ masterFd = "stdio" /\ XGoto(AfterStdin) /\ UNCHANGED inq
    /\ UNCHANGED <<role, masterOpen, masterFd, childPid, tty, ready, far, userVars, outq, produced, shown>>

\* Mutant: the error that ends a terminal is taken for an interrupted read.
ReadMaster_Again ==
    /\ xpc = "master_read"
    /\ \/ /\ masterFd = "master" /\ outq > 0
          /\ outq' = outq - 1 /\ XGoto("stdout_write")
       \/ /\ masterFd = "master" /\ outq = 0
          /\ XGoto("select") /\ UNCHANGED outq
    /\ UNCHANGED <<role, masterOpen, masterFd, childPid, tty, ready, far, userVars, inq, produced, shown>>

ReadMaster ==
    /\ xpc = "master_read"
    /\ \/ /\ masterFd = "master" /\ outq > 0
          /\ outq' = outq - 1 /\ XGoto("stdout_write") /\ UNCHANGED typed
       \/ /\ masterFd = "master" /\ outq = 0 /\ HungUp
          /\ XGoto(Broken) /\ UNCHANGED <<outq, typed>>
       \/ masterFd = "bad" /\ XGoto(Broken) /\ UNCHANGED <<outq, typed>>
       \/ /\ masterFd = "stdio" /\ StdinReadable
          /\ IF typed > 0 THEN typed' = typed - 1 /\ XGoto("stdout_write")
                          ELSE UNCHANGED typed /\ XGoto(Broken)
          /\ UNCHANGED outq
    /\ UNCHANGED <<role, masterOpen, masterFd, childPid, tty, ready, far, keyed, stdinEnd, inq, produced, shown>>

\* A short or failed write to the standard output is err_exit.
StdoutWrite ==
    /\ xpc = "stdout_write"
    /\ \/ /\ shown' = IF masterFd = "master" THEN shown + 1 ELSE shown
          /\ XGoto("select")
       \/ UNCHANGED shown /\ XGoto("died")
    /\ UNCHANGED <<role, masterOpen, masterFd, childPid, tty, ready, far, userVars, dataVars>>

\* wait(NULL): without a child it answers -1, as ptyFork did.
WaitChild ==
    /\ xpc = "wait"
    /\ \/ childPid = "pid" /\ far \in {"zombie", "unopened"} /\ far' = "reaped"
       \/ childPid = "failed" /\ UNCHANGED far
    /\ XGoto("reset")
    /\ UNCHANGED <<role, masterOpen, masterFd, childPid, tty, ready, userVars, dataVars, shown>>

\* Mutant: the terminal is put back only when the far side ended first.
ttyReset_WhenGone ==
    /\ xpc = "reset"
    /\ tty' = IF HungUp THEN "cooked" ELSE tty
    /\ XGoto("done")
    /\ UNCHANGED <<role, masterOpen, masterFd, childPid, ready, far, userVars, dataVars, shown>>

ttyReset ==
    /\ xpc = "reset"
    /\ tty' = IF role = "execd" THEN tty ELSE "cooked"
    /\ XGoto("done")
    /\ UNCHANGED <<role, masterOpen, masterFd, childPid, ready, far, userVars, dataVars, shown>>

Program ==
    \/ ConnectServer \/ OpenPt \/ MasterCall \/ PtyFork
    \/ EnterRaw \/ dumpStdOut \/ SelectFds \/ SelectBad \/ StdinRead \/ StdinWrite
    \/ ReadMaster \/ StdoutWrite \/ WaitChild \/ ttyReset

Child == ChildSetup \/ ChildChroot \/ ChildExecvp

User == UserTypes \/ UserEnds

Command == CommandReads \/ CommandWrites \/ CommandEnds

ExecNext == Program \/ Child \/ StrayRelays \/ User \/ Command

\* The program and its child go on; the user and the command need not.
ExecFairness == WF_execVars(Program) /\ WF_execVars(Child)

ExecSpec == ExecInit /\ [][ExecNext]_execVars /\ ExecFairness

-----------------------------------------------------------------------------
(* Properties *)

\* A program that returns leaves the user's terminal as it found it, whichever
\* side ended first and although ptyFork may have failed; and a ptyFork that
\* fails, at whatever call, leaves no descriptor behind.
TerminalRestored ==
    /\ xpc = "done" => tty = "cooked"
    /\ childPid = "failed" => ~masterOpen

\* When the command, or the server, ends and its terminal hangs up, the program
\* ends, whatever the user types.  (A child that fails before it has opened the
\* terminal is not noticed: see FarSteps.  Whoever reads the standard output is
\* taken to go on reading: StdoutWrite does not block.)
ExecEnds == HungUp ~> xpc \in {"done", "died"}

Blocked == xpc = "stdin_write" /\ inq = InCap

\* What the command writes is shown, unless the program has left its loop or
\* is blocked for good by a command that does not read what the user typed:
\* the loop cannot read the terminal while it waits to write to it.
OutputRelayed ==
    []<>~Blocked =>
        \A k \in 1..MaxProduced :
            produced >= k ~> shown >= k \/ xpc \in {"wait", "reset", "done", "died"}

\* The loop below the child's execvp is the parent's.
OnlyParentRelays == far # "stray"
=============================================================================
