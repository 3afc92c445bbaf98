-------------------------- MODULE SupervisorProofs -------------------------
(***************************************************************************)
(* Theorems about Supervisor, for every set of commands, restart threads,  *)
(* containers and pids, with or without pid reuse, failing system calls,   *)
(* killed servers and torn reads of the registry.                          *)
(***************************************************************************)
EXTENDS Supervisor, SequentialProofs

-----------------------------------------------------------------------------
(* The invariant *)

\* What a command has and how far it and its server can be: one that has not
\* begun, one of before the reboot, one with an id.  A container exists while
\* its server has yet to wait for it, or after the server was killed.
Begun ==
    \A c \in Cmds :
        /\ cmd[c].op = "none" /\ c \in Before => cpc[c] = "done" /\ spc[c] = "exited" /\ ~HasProcess(c)
        /\ cmd[c].op = "none" /\ c \notin Before => cpc[c] \in {"idle", "failed"} /\ spc[c] = "none"
        /\ cmd[c].op # "none" => c \notin Before /\ cpc[c] # "idle" /\ IdOf(c) \in Ids
        /\ cmd[c].op \notin {"none", "run", "start"} => spc[c] = "none" /\ cpc[c] # "fork"
        /\ cpc[c] = "fork" => spc[c] = "none"
        /\ cpc[c] = "stop_get" => cmd[c].op = "rm"
        /\ spc[c] \in {"none", "clone"} \cup Cleaning => ~HasProcess(c)
        /\ spc[c] \in Attached => HasProcess(c)

\* Container id was made by a run, now or before the reboot.
Owned(id) == \E s \in Cmds : (s \in Before \/ cmd[s].op = "run") /\ IdOf(s) = id

\* A record is filed under its own id and is of a container that was run.
Filed ==
    \A id \in Ids : db[id] # NoRecord => db[id].id = id /\ Owned(id)

\* The threads: a slot that has not started a container has not begun; what
\* the loop and the threads hold are records.
SlotsKept ==
    /\ \A info \in vector : info.id \in Ids
    /\ \A t \in Threads :
        /\ tpc[t] \in {"none", "asleep", "mark", "start"} => cpc[t] = "idle"
        /\ tpc[t] \in {"asleep", "mark", "start"} => tinfo[t].id \in Ids
        /\ tpc[t] \in {"mark", "start"} => Owned(tinfo[t].id)

\* The record of a container that is served, or whose server was killed,
\* says running, with its pid.
ClaimsTrue ==
    \A s \in Cmds :
        HasProcess(s) /\ spc[s] \in Claimed \cup {"exited"} /\ db[IdOf(s)] # NoRecord =>
            IsRunning(db[IdOf(s)]) /\ db[IdOf(s)].pid = pid[s]

\* A thread between its second look and its start has the container for
\* itself: nobody has a server or a process for it, and no other thread is at
\* the same point with it.
Alone ==
    \A t \in Threads :
        tpc[t] \in {"mark", "start"} =>
            /\ \A c \in Cmds : IdOf(c) = tinfo[t].id => ~Busy(c)
            /\ \A u \in Threads : u # t /\ tpc[u] \in {"mark", "start"} => tinfo[u].id # tinfo[t].id

SupInv == SupTypeOK /\ Begun /\ Filed /\ SlotsKept /\ BusyUnique /\ ClaimsTrue /\ Alone

-----------------------------------------------------------------------------
(* The beginning *)

LEMMA OldInfoIs == OldInfo \in [Before -> Info] /\ Lost(OldInfo)
  BY BeforeAssumption DEF OldInfo

\* A record of before the reboot is filed under the id of a container that
\* was lost.
LEMMA OldRecord ==
    ASSUME NEW lost \in SUBSET Before, NEW id \in Ids, \E s \in lost : OldInfo[s].id = id
    PROVE  LET info == OldInfo[CHOOSE s \in lost : OldInfo[s].id = id]
           IN  info \in Info /\ info.id = id
  BY OldInfoIs

LEMMA SupInitInv == ASSUME SupInit PROVE SupInv
<1>1. PICK lost \in SUBSET Before :
        /\ cmd = [c \in Cmds |-> IF c \in lost THEN [NoCmd EXCEPT !.info = OldInfo[c]] ELSE NoCmd]
        /\ db = [id \in Ids |-> IF \E s \in lost : OldInfo[s].id = id
                                THEN OldInfo[CHOOSE s \in lost : OldInfo[s].id = id] ELSE NoRecord]
        /\ sockdirs = {OldInfo[s].id : s \in lost}
        /\ layers = {OldInfo[s].id : s \in lost}
  BY DEF SupInit
<1>2. Before \subseteq Cmds /\ Threads \subseteq Cmds /\ Threads \cap Before = {}
  BY SupervisorAssumption
<1>3. \A s \in Before : OldInfo[s] \in Info /\ OldInfo[s].id \in Ids /\ OldInfo[s].pid \in Pids
  BY OldInfoIs DEF Lost
<1>4. /\ NoCmd \in Cmd /\ NoCmd.op = "none" /\ NoCmd.info = Unset
      /\ \A s \in Before : /\ [NoCmd EXCEPT !.info = OldInfo[s]] \in Cmd
                           /\ [NoCmd EXCEPT !.info = OldInfo[s]].op = "none"
                           /\ [NoCmd EXCEPT !.info = OldInfo[s]].info = OldInfo[s]
  BY <1>3, UnsetIsInfo DEF NoCmd, Cmd
<1>5. \A c \in Cmds : /\ cmd[c] \in Cmd /\ cmd[c].op = "none"
                      /\ c \in lost => cmd[c].info = OldInfo[c]
                      /\ c \notin lost => cmd[c].info = Unset
  BY <1>1, <1>4
<1>6. \A id \in Ids : /\ db[id] \in Info \cup {NoRecord}
                      /\ db[id] # NoRecord =>
                            db[id].id = id /\ \E s \in lost : OldInfo[s].id = id
  <2>. TAKE id \in Ids
  <2>1. CASE \E s \in lost : OldInfo[s].id = id
    BY <1>1, <2>1, OldRecord
  <2>2. CASE ~ \E s \in lost : OldInfo[s].id = id
    BY <1>1, <2>2
  <2>. QED  BY <2>1, <2>2
<1>7. /\ cpc = [c \in Cmds |-> IF c \in Before THEN "done" ELSE "idle"]
      /\ spc = [c \in Cmds |-> IF c \in Before THEN "exited" ELSE "none"]
      /\ cst = [c \in Cmds |-> IF c \in Before THEN "reaped" ELSE "none"]
      /\ vector = {} /\ tpc = [t \in Threads |-> "none"] /\ tinfo = [t \in Threads |-> Unset]
      /\ loop = "list"
  BY DEF SupInit
<1>8. SupTypeOK
  <2>1. cmd \in [Cmds -> Cmd] /\ db \in [Ids -> Info \cup {NoRecord}]
    BY <1>1, <1>5, <1>6
  <2>2. sockdirs \subseteq Ids /\ layers \subseteq Ids
    BY <1>1, <1>3
  <2>3. /\ cpc \in [Cmds -> CliSteps] /\ spc \in [Cmds -> ServerSteps]
        /\ cst \in [Cmds -> InstanceStates]
    BY <1>7 DEF CliSteps, ServerSteps, InstanceStates
  <2>4. pid \in [Cmds -> Pids \cup {NoPid}] /\ sem \in [Cmds -> {0, 1}]
    BY <1>3 DEF SupInit
  <2>5. spoke \in [Cmds -> BOOLEAN] /\ strayed \in BOOLEAN
    <3>1. spoke = [c \in Cmds |-> c \in Before] /\ strayed = FALSE
      BY DEF SupInit
    <3>2. [c \in Cmds |-> c \in Before] \in [Cmds -> BOOLEAN]
      OBVIOUS
    <3>. QED  BY <3>1, <3>2, Zenon
  <2>6. /\ gone \subseteq Ids /\ wiped \subseteq Ids /\ foreign \subseteq Pids
        /\ sock \in [Ids -> Cmds \cup {NoServer}] /\ mounted \in [Ids -> Nat]
    BY DEF SupInit
  <2>7. TypeOK
    BY <2>1, <2>2, <2>3, <2>4, <2>5, <2>6 DEF TypeOK
  <2>8. tpc \in [Threads -> ThreadSteps] /\ tinfo \in [Threads -> Info]
    BY <1>7, UnsetIsInfo DEF ThreadSteps
  <2>. QED  BY <1>7, <2>7, <2>8 DEF SupTypeOK
<1>9. \A c \in Cmds : ~HasProcess(c) /\ ~Busy(c)
  BY <1>7 DEF HasProcess, Busy
<1>10. Begun
  BY <1>5, <1>7, <1>9 DEF Begun, Cleaning, Attached
<1>11. Filed
  BY <1>2, <1>5, <1>6 DEF Filed, Owned, IdOf
<1>12. SlotsKept
  BY <1>2, <1>7 DEF SlotsKept
<1>13. BusyUnique /\ ClaimsTrue
  BY <1>9 DEF BusyUnique, ClaimsTrue
<1>14. Alone
  BY <1>7 DEF Alone
<1>. QED  BY <1>8, <1>10, <1>11, <1>12, <1>13, <1>14 DEF SupInv

-----------------------------------------------------------------------------
(* What a step may do, seen from the commands and their servers *)

\* Command c goes on, the others stay where they are.
OnlyCli(c) == \A d \in Cmds : d # c => cmd'[d] = cmd[d] /\ cpc'[d] = cpc[d]

\* Commands go on without the registry, servers stay where they are.
Calm ==
    /\ UNCHANGED <<cmd, spc, pid, db>>
    /\ \A d \in Cmds :
        /\ HasProcess(d)' => HasProcess(d)
        /\ HasProcess(d) /\ ~HasProcess(d)' => spc[d] = "exited"
        /\ \/ cpc'[d] = cpc[d]
           \/ /\ d \notin Before
              /\ cpc'[d] \notin {"idle", "fork", "stop_get"}
              /\ cmd[d].op = "none" => cpc'[d] = "failed"

\* Command c, or a restart thread, holds what it looked up.
Looked(c, id) ==
    /\ UNCHANGED <<spc, cst, pid>> /\ OnlyCli(c)
    /\ db[id] # NoRecord /\ db' = [db EXCEPT ![id] = Checked(db[id])]
    /\ c \notin Before /\ cpc[c] \in {"idle", "stop_get"} /\ cpc'[c] # "idle"
    /\ \/ IdOf(c)' = id
       \/ IdOf(c)' = IdOf(c) /\ cmd'[c].op = cmd[c].op /\ cmd[c].op = "rm"
    /\ cmd'[c].op \in {"start", "stop", "rm", "attach", "exec"}
    /\ cpc'[c] = "stop_get" => cmd'[c].op = "rm"
    /\ cpc'[c] = "fork" =>
        /\ cmd'[c].op = "start" /\ cpc[c] = "idle"
        /\ \/ "start" \in Kinds
           \/ /\ c \in Threads /\ tpc[c] = "start" /\ tpc'[c] = "started"
              /\ Names \cap Ids = {} => id = tinfo[c].id /\ IdOf(c)' = id

\* A run begins, with an id nobody has.
Began(c) ==
    /\ UNCHANGED <<spc, cst, pid, db>> /\ OnlyCli(c)
    /\ c \notin Before \cup Threads /\ cpc[c] = "idle" /\ cpc'[c] = "fork"
    /\ cmd'[c].op = "run" /\ IdOf(c)' \in Ids
    /\ \A s \in Cmds : IdOf(s) # IdOf(c)'

Forked(c) ==
    /\ UNCHANGED <<cmd, cst, pid, db>> /\ OnlyCli(c)
    /\ cpc[c] = "fork" /\ cpc'[c] = "wait"
    /\ spc' = [spc EXCEPT ![c] = "clone"]

Deleted(c) ==
    /\ UNCHANGED <<cmd, spc, cst, pid>> /\ OnlyCli(c)
    /\ cpc[c] = "delete" /\ cpc'[c] = "done"
    /\ db' = [db EXCEPT ![IdOf(c)] = NoRecord]

OnlyServer(s) ==
    /\ UNCHANGED <<cmd, cpc>>
    /\ \A d \in Cmds : d # s => /\ spc'[d] = spc[d] /\ pid'[d] = pid[d]
                                /\ HasProcess(d)' = HasProcess(d)

Cloned(s) ==
    /\ OnlyServer(s) /\ UNCHANGED db
    /\ spc[s] = "clone" /\ spc'[s] = "header" /\ HasProcess(s)'

\* A server goes on; where it skips the registry, there is no record.
Moved(s) ==
    /\ OnlyServer(s) /\ UNCHANGED <<pid, db>>
    /\ \/ /\ HasProcess(s)' = HasProcess(s)
          /\ \/ spc[s] = "clone" /\ spc'[s] = "exited"
             \/ spc[s] = "header" /\ spc'[s] = "record"
             \/ spc[s] = "record" /\ spc'[s] = "listen" /\ db[IdOf(s)] = NoRecord
             \/ spc[s] = "listen" /\ spc'[s] \in {"post", "exited"}
             \/ spc[s] = "post" /\ spc'[s] = "relay"
             \/ spc[s] = "relay" /\ spc'[s] \in {"reap", "exited"}
             \/ spc[s] = "umount" /\ spc'[s] = "umount_volume"
             \/ spc[s] = "umount_volume" /\ spc'[s] \in {"mark", "exited"}
             \/ spc[s] = "mark" /\ spc'[s] = "exited"
       \/ ~HasProcess(s)' /\ spc[s] = "reap" /\ spc'[s] = "umount"

\* A server writes the record of its container: at its callback, when it has
\* unmounted the volumes, at its end.
Wrote(s) ==
    /\ OnlyServer(s) /\ UNCHANGED pid /\ HasProcess(s)' = HasProcess(s)
    /\ \/ /\ spc[s] = "record" /\ spc'[s] = "listen"
          /\ cmd[s].op = "run" \/ db[IdOf(s)] # NoRecord
          /\ db' = [db EXCEPT ![IdOf(s)] = Running(cmd[s].info, pid[s])]
       \/ /\ spc[s] = "umount_volume" /\ spc'[s] = "mark" /\ db[IdOf(s)] # NoRecord
          /\ db' = [db EXCEPT ![IdOf(s)] = Checked(db[IdOf(s)])]
       \/ /\ spc[s] = "mark" /\ spc'[s] = "exited" /\ db[IdOf(s)] # NoRecord
          /\ db' = [db EXCEPT ![IdOf(s)] = Stopped(db[IdOf(s)])]

\* A thread marks its container stopped.
ThreadMarked(t) ==
    /\ UNCHANGED <<cmd, cpc, spc, cst, pid>>
    /\ tpc[t] = "mark" /\ db[tinfo[t].id] # NoRecord
    /\ db' = [db EXCEPT ![tinfo[t].id] = Stopped(db[tinfo[t].id])]

StepCase ==
    \/ Calm
    \/ \E c \in Cmds, id \in Ids : Looked(c, id)
    \/ \E c \in Cmds : Began(c) \/ Forked(c) \/ Deleted(c)
    \/ \E s \in Cmds : Cloned(s) \/ Moved(s) \/ Wrote(s)
    \/ \E t \in Threads : ThreadMarked(t)

LEMMA UserLookup ==
    ASSUME SupTypeOK, Begun, Filed, NEW c \in Users, NEW op \in CliOps \ {"run"},
           NEW running, NEW stopped, LookupStep(c, op, running, stopped),
           "idle" \notin running \cup stopped,
           "fork" \in running \cup stopped => op = "start" /\ "start" \in Kinds,
           "stop_get" \in running \cup stopped => op = "rm"
    PROVE  Calm \/ \E id \in Ids : Looked(c, id)
<1>1. c \in Cmds /\ c \notin Before
  BY DEF Users
<1>2. /\ UNCHANGED <<spc, cst, pid>> /\ cpc[c] = "idle" /\ cmd[c].op = "none"
  BY <1>1 DEF LookupStep, srvVars, instVars, Begun
<1>3. CASE cpc' = [cpc EXCEPT ![c] = "failed"] /\ UNCHANGED <<cmd, db, gone>>
  BY <1>1, <1>2, <1>3 DEF Calm, HasProcess, SupTypeOK, TypeOK
<1>4. ASSUME NEW id \in Ids, NEW key \in Keys, NEW detach \in BOOLEAN,
             NEW step \in running \cup stopped,
             db[id] # NoRecord,
             db' = [db EXCEPT ![id] = Checked(db[id])],
             cpc' = [cpc EXCEPT ![c] = step],
             cmd' = [cmd EXCEPT ![c] = [op |-> op, key |-> key, detach |-> detach,
                                        info |-> Checked(db[id]), found |-> Checked(db[id])]]
      PROVE  Looked(c, id)
  <2>1. Checked(db[id]).id = id
    BY <1>4, InfoKept DEF SupTypeOK, TypeOK, Filed
  <2>2. cmd'[c].op = op /\ IdOf(c)' = id /\ cpc'[c] = step
    BY <1>1, <1>4, <2>1 DEF SupTypeOK, TypeOK, IdOf
  <2>3. OnlyCli(c)
    BY <1>4 DEF OnlyCli, SupTypeOK, TypeOK
  <2>4. op \in {"start", "stop", "rm", "attach", "exec"}
    BY DEF CliOps
  <2>. QED  BY <1>1, <1>2, <1>4, <2>2, <2>3, <2>4 DEF Looked
<1>. QED  BY <1>3, <1>4 DEF LookupStep

LEMMA UserGiven ==
    ASSUME SupTypeOK, Begun, Filed, NEW c \in Users, UserStep(c)
    PROVE  StepCase
<1>1. c \in Cmds /\ c \notin Before \cup Threads
  BY DEF Users
<1>2. CASE Run(c)
  <2>1. UNCHANGED <<spc, cst, pid, db>> /\ cpc[c] = "idle" /\ cmd[c].op = "none"
    BY <1>1, <1>2 DEF Run, Given, srvVars, instVars, dbVars, Begun
  <2>2. CASE CliFails(c)
    BY <1>1, <2>1, <2>2 DEF CliFails, CliGoto, Calm, HasProcess, SupTypeOK, TypeOK, StepCase
  <2>3. CASE ~CliFails(c)
    <3>1. PICK name \in Names \cup {NoName}, detach \in Detach,
               id \in Ids \ (Existing \cup {IdOf(s) : s \in Cmds}) :
            /\ cmd' = [cmd EXCEPT ![c] = [op |-> "run", key |-> NoName, detach |-> detach,
                                          info |-> [Unset EXCEPT !.id = id, !.name = name],
                                          found |-> Unset]]
            /\ cpc' = [cpc EXCEPT ![c] = "fork"]
      BY <1>2, <2>3 DEF Run
    <3>2. cmd'[c].op = "run" /\ IdOf(c)' = id /\ cpc'[c] = "fork"
      BY <1>1, <3>1 DEF SupTypeOK, TypeOK, IdOf, Unset
    <3>3. OnlyCli(c)
      BY <3>1 DEF OnlyCli, SupTypeOK, TypeOK
    <3>4. \A s \in Cmds : IdOf(s) # id
      OBVIOUS
    <3>5. Began(c)
      BY <1>1, <2>1, <3>2, <3>3, <3>4 DEF Began
    <3>. QED  BY <1>1, <3>5 DEF StepCase
  <2>. QED  BY <2>2, <2>3
<1>3. CASE Start(c)
  <2>1. "start" \in Kinds
    BY <1>3 DEF Start, BeginWithGet, Given
  <2>2. LookupStep(c, "start", {"failed"}, {"fork"})
    BY <1>1, <1>3, StartLooksUp
  <2>. QED  BY <1>1, <2>1, <2>2, UserLookup DEF CliOps, StepCase
<1>4. CASE Stop(c)
  <2>1. LookupStep(c, "stop", {"term"}, {"failed"})
    BY <1>1, <1>4, StopLooksUp
  <2>. QED  BY <1>1, <2>1, UserLookup DEF CliOps, StepCase
<1>5. CASE Remove(c)
  <2>1. LookupStep(c, "rm", {"stop_get", "failed"}, {"remove"})
    BY <1>1, <1>5, RemoveLooksUp
  <2>. QED  BY <1>1, <2>1, UserLookup DEF CliOps, StepCase
<1>6. CASE Attach(c)
  <2>1. LookupStep(c, "attach", {"connect"}, {"failed"})
    BY <1>1, <1>6, AttachLooksUp
  <2>. QED  BY <1>1, <2>1, UserLookup DEF CliOps, StepCase
<1>7. CASE Exec(c)
  <2>1. LookupStep(c, "exec", {"setns"}, {"failed"})
    BY <1>1, <1>7, ExecLooksUp
  <2>. QED  BY <1>1, <2>1, UserLookup DEF CliOps, StepCase
<1>8. CASE ClientEnds(c)
  BY <1>1, <1>8 DEF ClientEnds, CliGoto, srvVars, instVars, dbVars, Begun, Calm, HasProcess,
                    SupTypeOK, TypeOK, StepCase
<1>. QED  BY <1>2, <1>3, <1>4, <1>5, <1>6, <1>7, <1>8 DEF UserStep

LEMMA UserGoesOn ==
    ASSUME SupTypeOK, Begun, Filed, NEW c \in Users, CliStep(c)
    PROVE  StepCase
<1>1. c \in Cmds /\ c \notin Before \cup Threads
  BY DEF Users
<1>2. CASE Fork(c)
  <2>1. UNCHANGED <<cst, pid, db, cmd>> /\ cpc[c] = "fork" /\ cmd[c].op # "none"
    BY <1>1, <1>2 DEF Fork, CliGoto, CliFails, instVars, dbVars, Begun
  <2>2. CASE cpc' = [cpc EXCEPT ![c] = "wait"] /\ spc' = [spc EXCEPT ![c] = "clone"]
    BY <1>1, <2>1, <2>2 DEF Forked, OnlyCli, SupTypeOK, TypeOK, StepCase
  <2>3. CASE cpc' = [cpc EXCEPT ![c] = "failed"] /\ UNCHANGED spc
    BY <1>1, <2>1, <2>3 DEF Calm, HasProcess, SupTypeOK, TypeOK, StepCase
  <2>. QED  BY <1>2, <2>2, <2>3 DEF Fork, CliGoto, CliFails
<1>3. CASE StopGet(c)
  <2>1. UNCHANGED <<spc, cst, pid>> /\ cpc[c] = "stop_get" /\ cmd[c].op = "rm" /\ AfterStop(c) = "remove"
    BY <1>1, <1>3 DEF StopGet, srvVars, instVars, Begun, AfterStop
  <2>2. CASE CliGoto(c, "remove") /\ UNCHANGED dbVars
    BY <1>1, <2>1, <2>2 DEF CliGoto, dbVars, Calm, HasProcess, SupTypeOK, TypeOK, StepCase
  <2>3. ASSUME NEW id \in Matching(cmd[c].key),
               Put(id, Checked(db[id])),
               \/ /\ cmd' = [cmd EXCEPT ![c].found = Checked(db[id])]
                  /\ cpc' = [cpc EXCEPT ![c] = "term"]
               \/ CliGoto(c, "remove")
        PROVE  Looked(c, id) /\ id \in Ids
    <3>1. id \in Ids /\ db[id] # NoRecord /\ db' = [db EXCEPT ![id] = Checked(db[id])]
      BY <2>3 DEF Matching, Put
    <3>2. Checked(db[id]).id = id
      BY <3>1, InfoKept DEF SupTypeOK, TypeOK, Filed
    <3>3. OnlyCli(c) /\ cpc'[c] \in {"term", "remove"}
      BY <1>1, <2>3 DEF CliGoto, OnlyCli, SupTypeOK, TypeOK
    <3>4. cmd[c] \in Cmd
      BY <1>1 DEF SupTypeOK, TypeOK
    <3>5. cmd'[c].op = "rm" /\ IdOf(c)' = IdOf(c)
      BY <1>1, <2>1, <2>3, <3>2, <3>4 DEF CliGoto, IdOf, SupTypeOK, TypeOK, Cmd
    <3>. QED  BY <1>1, <2>1, <3>1, <3>3, <3>5 DEF Looked
  <2>. QED  BY <1>1, <1>3, <2>1, <2>2, <2>3 DEF StopGet, StepCase
<1>4. CASE SigKill(c)
  <2>1. /\ UNCHANGED <<cmd, spc, pid, db>> /\ cpc[c] = "sleep"
        /\ \A s \in Cmds : HasProcess(s)' = HasProcess(s)
    BY <1>4 DEF SigKill, CliGoto, Corpse, srvVars, dbVars, HasProcess, SupTypeOK, TypeOK
  <2>2. cpc' = [cpc EXCEPT ![c] = AfterStop(c)] /\ AfterStop(c) \in {"remove", "done"}
    BY <1>4 DEF SigKill, CliGoto, AfterStop
  <2>. QED  BY <1>1, <2>1, <2>2 DEF Begun, Calm, SupTypeOK, TypeOK, StepCase
<1>5. CASE DeleteRecord(c)
  <2>1. UNCHANGED <<cmd, spc, cst, pid>> /\ cpc[c] = "delete"
    BY <1>5 DEF DeleteRecord, CliGoto, srvVars, instVars
  <2>2. CASE db[IdOf(c)] # NoRecord
    BY <1>1, <1>5, <2>1, <2>2 DEF DeleteRecord, CliGoto, Deleted, OnlyCli, SupTypeOK, TypeOK, StepCase
  <2>3. CASE db[IdOf(c)] = NoRecord
    <3>1. db' = db /\ \E end \in {"done", "failed"} : cpc' = [cpc EXCEPT ![c] = end]
      BY <1>5, <2>3 DEF DeleteRecord, CliGoto, dbVars
    <3>. QED  BY <1>1, <2>1, <3>1 DEF Begun, Calm, HasProcess, SupTypeOK, TypeOK, StepCase
  <2>. QED  BY <2>2, <2>3
<1>6. CASE \/ WaitForServer(c) \/ Connect(c) \/ SetNs(c) \/ SigTerm(c)
           \/ RemoveSockdir(c) \/ RemoveLayer(c)
  <2>1. UNCHANGED <<cmd, spc, cst, pid, db>> /\ cpc[c] \notin {"idle", "done", "failed"}
    BY <1>6 DEF WaitForServer, Connect, SetNs, SigTerm, RemoveSockdir, RemoveLayer, CliGoto, CliFails,
                srvVars, instVars, dbVars
  <2>2. \E step \in CliSteps \ {"idle", "fork", "stop_get"} : cpc' = [cpc EXCEPT ![c] = step]
    BY <1>6 DEF WaitForServer, Connect, SetNs, SigTerm, RemoveSockdir, RemoveLayer, CliGoto, CliFails,
                AfterStop, CliSteps
  <2>3. cmd[c].op # "none"
    BY <1>1, <2>1 DEF Begun
  <2>. QED  BY <1>1, <2>1, <2>2, <2>3 DEF Calm, HasProcess, SupTypeOK, TypeOK, StepCase
<1>. QED  BY <1>2, <1>3, <1>4, <1>5, <1>6 DEF CliStep

LEMMA ServerGoesOn ==
    ASSUME SupTypeOK, Begun, NEW s \in Cmds, ServerStep(s) \/ (spc[s] = "relay" /\ ServerKilled(s))
    PROVE  Cloned(s) \/ Moved(s) \/ Wrote(s)
<1>. USE DEF SupTypeOK, TypeOK
<1>1. CASE SrvClone(s)
  <2>1. UNCHANGED <<cmd, cpc, db>> /\ spc[s] = "clone"
    BY <1>1 DEF SrvClone, cliVars, dbVars
  <2>2. CASE SrvGoto(s, "exited") /\ UNCHANGED <<pid, cst>>
    <3>1. OnlyServer(s) /\ spc'[s] = "exited" /\ HasProcess(s)' = HasProcess(s)
      BY <2>1, <2>2 DEF SrvGoto, OnlyServer, HasProcess
    <3>. QED  BY <2>1, <2>2, <3>1 DEF Moved
  <2>3. CASE ~(SrvGoto(s, "exited") /\ UNCHANGED <<pid, cst>>)
    <3>1. PICK p \in FreePids : /\ pid' = [pid EXCEPT ![s] = p]
                                /\ cst' = [cst EXCEPT ![s] = "mounting"]
                                /\ SrvGoto(s, "header")
      BY <1>1, <2>3 DEF SrvClone
    <3>2. HasProcess(s)' /\ spc'[s] = "header" /\ OnlyServer(s)
      BY <2>1, <3>1 DEF SrvGoto, OnlyServer, HasProcess
    <3>. QED  BY <2>1, <3>2 DEF Cloned
  <2>. QED  BY <2>2, <2>3
<1>2. CASE \/ SrvHeader(s) \/ SrvListen(s) \/ SrvPost(s) \/ SrvRelayEnds(s) \/ SrvUmount(s)
           \/ spc[s] = "relay" /\ ServerKilled(s)
  <2>1. UNCHANGED <<cmd, cpc, cst, pid, db>>
    BY <1>2 DEF SrvHeader, SrvListen, SrvPost, SrvRelayEnds, SrvUmount, ServerKilled, cliVars, instVars, dbVars
  <2>2. /\ \A d \in Cmds : d # s => spc'[d] = spc[d]
        /\ \/ spc[s] = "header" /\ spc'[s] = "record"
           \/ spc[s] = "listen" /\ spc'[s] \in {"post", "exited"}
           \/ spc[s] = "post" /\ spc'[s] = "relay"
           \/ spc[s] = "relay" /\ spc'[s] \in {"reap", "exited"}
           \/ spc[s] = "umount" /\ spc'[s] = "umount_volume"
    BY <1>2 DEF SrvHeader, SrvListen, SrvPost, SrvRelayEnds, SrvUmount, ServerKilled, SrvGoto
  <2>3. OnlyServer(s) /\ HasProcess(s)' = HasProcess(s)
    BY <2>1, <2>2 DEF OnlyServer, HasProcess
  <2>. QED  BY <2>1, <2>2, <2>3 DEF Moved
<1>3. CASE SrvRecord(s)
  <2>1. UNCHANGED <<cmd, cpc, cst, pid>> /\ spc[s] = "record" /\ spc'[s] = "listen"
    BY <1>3 DEF SrvRecord, SrvGoto, cliVars, instVars
  <2>2. OnlyServer(s) /\ HasProcess(s)' = HasProcess(s)
    BY <1>3, <2>1 DEF SrvRecord, SrvGoto, OnlyServer, HasProcess
  <2>3. \/ db' = db /\ db[IdOf(s)] = NoRecord
        \/ /\ cmd[s].op = "run" \/ db[IdOf(s)] # NoRecord
           /\ db' = [db EXCEPT ![IdOf(s)] = Running(cmd[s].info, pid[s])]
    BY <1>3 DEF SrvRecord, Put, dbVars
  <2>. QED  BY <2>1, <2>2, <2>3 DEF Moved, Wrote
<1>4. CASE SrvReap(s)
  <2>1. UNCHANGED <<cmd, cpc, pid, db>> /\ spc[s] = "reap" /\ spc'[s] = "umount" /\ ~HasProcess(s)'
    BY <1>4 DEF SrvReap, SrvGoto, cliVars, dbVars, HasProcess
  <2>2. OnlyServer(s)
    BY <1>4, <2>1 DEF SrvReap, SrvGoto, OnlyServer, HasProcess
  <2>. QED  BY <2>1, <2>2 DEF Moved
<1>5. CASE SrvUmountVolume(s) \/ SrvMark(s)
  <2>1. UNCHANGED <<cmd, cpc, cst, pid>> /\ \A d \in Cmds : d # s => spc'[d] = spc[d]
    BY <1>5 DEF SrvUmountVolume, SrvMark, SrvDbStep, SrvGoto, cliVars, instVars
  <2>2. OnlyServer(s) /\ HasProcess(s)' = HasProcess(s)
    BY <2>1 DEF OnlyServer, HasProcess
  <2>3. CASE db[IdOf(s)] = NoRecord
    <3>1. /\ db' = db
          /\ \/ spc[s] = "umount_volume" /\ spc'[s] \in {"mark", "exited"}
             \/ spc[s] = "mark" /\ spc'[s] = "exited"
      BY <1>5, <2>3 DEF SrvUmountVolume, SrvMark, SrvDbStep, SrvGoto, dbVars
    <3>. QED  BY <2>1, <2>2, <3>1 DEF Moved
  <2>4. CASE db[IdOf(s)] # NoRecord
    <3>1. \/ /\ spc[s] = "umount_volume" /\ spc'[s] = "mark"
             /\ db' = [db EXCEPT ![IdOf(s)] = Checked(db[IdOf(s)])]
          \/ /\ spc[s] = "mark" /\ spc'[s] = "exited"
             /\ db' = [db EXCEPT ![IdOf(s)] = Stopped(db[IdOf(s)])]
      BY <1>5, <2>4 DEF SrvUmountVolume, SrvMark, SrvDbStep, SrvGoto, Put
    <3>. QED  BY <2>1, <2>2, <2>4, <3>1 DEF Wrote
  <2>. QED  BY <2>3, <2>4
<1>. QED  BY <1>1, <1>2, <1>3, <1>4, <1>5 DEF ServerStep, ServerWork

\* The container's process by itself.
LEMMA ProcessGoesOn ==
    ASSUME SupTypeOK, NEW s \in Cmds, InstanceStep(s) \/ InstanceSpeaks(s) \/ InstanceExits(s)
    PROVE  Calm
<1>1. UNCHANGED <<cmd, cpc, spc, pid, db>>
  BY DEF InstanceStep, InstanceSpeaks, InstanceExits, InstanceSetupFails, InstanceMounts, OrphanReaped,
         cliVars, srvVars, dbVars
<1>2. \A d \in Cmds : /\ HasProcess(d)' => HasProcess(d)
                      /\ HasProcess(d) /\ ~HasProcess(d)' => spc[d] = "exited"
  BY DEF InstanceStep, InstanceSpeaks, InstanceExits, InstanceSetupFails, InstanceMounts, OrphanReaped,
         InstGoto, Corpse, HasProcess, SupTypeOK, TypeOK
<1>. QED  BY <1>1, <1>2 DEF Calm

\* The supervisor's process dies.
LEMMA DiesCalm ==
    ASSUME SupTypeOK, Begun, Dies
    PROVE  Calm
<1>1. UNCHANGED <<cmd, spc, cst, pid, db>>
  BY DEF Dies, srvVars, instVars, dbVars
<1>2. \A d \in Cmds :
        \/ cpc'[d] = cpc[d]
        \/ cpc[d] \in {"fork", "wait"} /\ cpc'[d] = "failed"
  BY DEF Dies
<1>3. \A d \in Cmds : cpc[d] \in {"fork", "wait"} => d \notin Before
  BY DEF Begun
<1>. QED  BY <1>1, <1>2, <1>3 DEF Calm, HasProcess

\* The thread's start: the lookup is by id.
LEMMA ThreadStarts ==
    ASSUME SupTypeOK, Begun, Filed, SlotsKept, NEW t \in Threads, ThreadStart(t)
    PROVE  StepCase
<1>1. t \in Cmds /\ t \notin Before /\ cpc[t] = "idle" /\ tpc[t] = "start" /\ tinfo[t].id \in Ids
  BY SupervisorAssumption DEF SlotsKept, ThreadStart
<1>2. CASE ThreadEnds(t)
  BY <1>2 DEF ThreadEnds, vars, cliVars, srvVars, instVars, dbVars, Calm, HasProcess, StepCase
<1>3. CASE ~ThreadEnds(t)
  <2>1. /\ Matching(tinfo[t].id) # {} /\ Lookup(t, "start", tinfo[t].id, TRUE, StartOrRefuse)
        /\ tpc' = [tpc EXCEPT ![t] = "started"] /\ tinfo' = tinfo
    BY <1>3 DEF ThreadStart, ThreadGoto
  <2>2. PICK id \in Matching(tinfo[t].id) :
          /\ db' = [db EXCEPT ![id] = Checked(db[id])]
          /\ cpc' = [cpc EXCEPT ![t] = StartOrRefuse(Checked(db[id]))]
          /\ cmd' = [cmd EXCEPT ![t] = [op |-> "start", key |-> tinfo[t].id, detach |-> TRUE,
                                        info |-> Checked(db[id]), found |-> Checked(db[id])]]
    BY <2>1 DEF Lookup, Put
  <2>3. id \in Ids /\ db[id] # NoRecord /\ Matches(db[id], tinfo[t].id)
    BY DEF Matching
  <2>4. db[id] \in Info /\ db[id].id = id
    BY <2>3 DEF SupTypeOK, TypeOK, Filed
  <2>5. Checked(db[id]).id = id
    BY <2>4, InfoKept
  <2>6. Names \cap Ids = {} => id = tinfo[t].id
    BY <1>1, <2>3, <2>4, InfoAssumption DEF Matches, Info
  <2>7. UNCHANGED <<spc, cst, pid>>
    BY <2>1 DEF Lookup, srvVars, instVars
  <2>8. cmd'[t].op = "start" /\ IdOf(t)' = id /\ cpc'[t] \in {"fork", "failed"} /\ tpc'[t] = "started"
    BY <1>1, <2>1, <2>2, <2>5 DEF IdOf, StartOrRefuse, SupTypeOK, TypeOK
  <2>9. OnlyCli(t)
    BY <2>2 DEF OnlyCli, SupTypeOK, TypeOK
  <2>10. Looked(t, id)
    BY <1>1, <2>2, <2>3, <2>6, <2>7, <2>8, <2>9 DEF Looked
  <2>. QED  BY <1>1, <2>3, <2>10 DEF StepCase
<1>. QED  BY <1>2, <1>3

LEMMA ThreadGoesOn ==
    ASSUME SupTypeOK, Begun, Filed, SlotsKept, NEW t \in Threads, ThreadStep(t)
    PROVE  StepCase
<1>1. t \in Cmds /\ t \notin Before
  BY SupervisorAssumption
<1>2. ASSUME UNCHANGED vars
      PROVE  Calm
  BY <1>2 DEF vars, cliVars, srvVars, instVars, dbVars, Calm, HasProcess
<1>3. CASE Recheck(t)
  BY <1>2, <1>3, DiesCalm DEF Recheck, ThreadEnds, StepCase
<1>4. CASE Mark(t)
  <2>1. CASE Dies
    BY <2>1, DiesCalm DEF StepCase
  <2>2. CASE ~Dies
    <3>1. UNCHANGED <<cmd, cpc, spc, cst, pid>> /\ tpc[t] = "mark"
      BY <1>4, <2>2 DEF Mark, cliVars, srvVars, instVars
    <3>2. CASE db[tinfo[t].id] # NoRecord
      BY <1>4, <2>2, <3>1, <3>2 DEF Mark, Put, ThreadMarked, StepCase
    <3>3. CASE db[tinfo[t].id] = NoRecord
      <4>1. db' = db
        BY <1>4, <2>2, <3>3 DEF Mark, dbVars
      <4>. QED  BY <3>1, <4>1 DEF Calm, HasProcess, StepCase
    <3>. QED  BY <3>2, <3>3
  <2>. QED  BY <2>1, <2>2
<1>5. CASE ThreadFork(t)
  <2>1. CASE Dies
    BY <2>1, DiesCalm DEF StepCase
  <2>2. CASE ~Dies
    <3>1. /\ UNCHANGED <<cmd, cst, pid, db>> /\ cpc[t] = "fork"
          /\ cpc' = [cpc EXCEPT ![t] = "wait"] /\ spc' = [spc EXCEPT ![t] = "clone"]
      BY <1>5, <2>2 DEF ThreadFork, CliGoto, SrvGoto, instVars, dbVars
    <3>2. Forked(t)
      BY <1>1, <3>1 DEF Forked, OnlyCli, SupTypeOK, TypeOK
    <3>. QED  BY <1>1, <3>2 DEF StepCase
  <2>. QED  BY <2>1, <2>2
<1>6. CASE WaitForServer(t)
  <2>1. /\ UNCHANGED <<cmd, spc, cst, pid, db>> /\ cpc[t] = "wait"
        /\ \E step \in {"done", "connect"} : cpc' = [cpc EXCEPT ![t] = step]
    BY <1>6 DEF WaitForServer, CliGoto, srvVars, instVars, dbVars
  <2>2. cmd[t].op # "none"
    BY <1>1, <2>1 DEF Begun
  <2>. QED  BY <1>1, <2>1, <2>2 DEF Calm, HasProcess, SupTypeOK, TypeOK, StepCase
<1>. QED  BY <1>3, <1>4, <1>5, <1>6, ThreadStarts DEF ThreadStep

LEMMA SupSteps ==
    ASSUME SupTypeOK, Begun, Filed, SlotsKept, [SupNext]_allVars
    PROVE  StepCase
<1>1. ASSUME UNCHANGED vars
      PROVE  StepCase
  BY <1>1 DEF vars, cliVars, srvVars, instVars, dbVars, Calm, HasProcess, StepCase
<1>2. CASE LoopStep
  BY <1>1, <1>2, DiesCalm DEF LoopStep, ListsNothing, List, ListDone, CheckRecord, StepCase
<1>3. ASSUME NEW c \in Users, UserCommand(c)
      PROVE  StepCase
  BY <1>3, UserGiven, UserGoesOn DEF UserCommand
<1>4. ASSUME NEW s \in Cmds, Server(s) \/ Instance(s) \/ Speaks(s) \/ Environment(s)
      PROVE  StepCase
  <2>1. CASE Server(s) \/ (spc[s] = "relay" /\ ServerKilled(s))
    BY <2>1, ServerGoesOn DEF Server, StepCase
  <2>2. CASE Instance(s) \/ Speaks(s) \/ InstanceExits(s)
    BY <2>2, ProcessGoesOn DEF Instance, Speaks, StepCase
  <2>. QED  BY <1>4, <2>1, <2>2 DEF Environment
<1>5. CASE UNCHANGED allVars
  BY <1>1, <1>5 DEF allVars
<1>. QED  BY <1>2, <1>3, <1>4, <1>5, ThreadGoesOn DEF SupNext

-----------------------------------------------------------------------------
(* Types, commands and records *)

\* Who has a server or a container, and who made a container, holds on to it.
LEMMA HoldersKept ==
    ASSUME SupTypeOK, Begun, StepCase, NEW d \in Cmds,
           Busy(d) \/ d \in Before \/ cmd[d].op = "run"
    PROVE  cmd'[d] = cmd[d] /\ IdOf(d)' = IdOf(d)
<1>1. cpc[d] \notin {"idle", "stop_get"}
  <2>1. cmd[d].op = "run" \/ d \in Before \/ spc[d] # "none" \/ cpc[d] = "fork"
    BY DEF Busy, Begun
  <2>. QED  BY <2>1 DEF Begun
<1>2. cmd'[d] = cmd[d]
  <2>1. CASE \/ Calm \/ \E s \in Cmds : Forked(s) \/ Deleted(s) \/ Cloned(s) \/ Moved(s) \/ Wrote(s)
             \/ \E t \in Threads : ThreadMarked(t)
    BY <2>1 DEF Calm, Forked, Deleted, Cloned, Moved, Wrote, OnlyServer, ThreadMarked
  <2>2. ASSUME NEW c \in Cmds, NEW id \in Ids, Looked(c, id)
        PROVE  cmd'[d] = cmd[d]
    BY <1>1, <2>2 DEF Looked, OnlyCli
  <2>3. ASSUME NEW c \in Cmds, Began(c)
        PROVE  cmd'[d] = cmd[d]
    BY <1>1, <2>3 DEF Began, OnlyCli
  <2>. QED  BY <2>1, <2>2, <2>3 DEF StepCase
<1>. QED  BY <1>2 DEF IdOf

LEMMA OwnedKept ==
    ASSUME SupTypeOK, Begun, StepCase, NEW id, Owned(id)
    PROVE  Owned(id)'
<1>1. PICK s \in Cmds : (s \in Before \/ cmd[s].op = "run") /\ IdOf(s) = id
  BY DEF Owned
<1>2. cmd'[s] = cmd[s] /\ IdOf(s)' = id
  BY <1>1, HoldersKept
<1>. QED  BY <1>1, <1>2 DEF Owned

LEMMA BegunStep ==
    ASSUME SupTypeOK, Begun, StepCase
    PROVE  Begun'
<1>. USE DEF Cleaning, Attached
<1>1. CASE Calm
  <2>1. \A d \in Cmds : IdOf(d)' = IdOf(d)
    BY <1>1 DEF Calm, IdOf
  <2>. QED  BY <1>1, <2>1 DEF Calm, Begun
<1>2. ASSUME NEW c \in Cmds, NEW id \in Ids, Looked(c, id)
      PROVE  Begun'
  <2>1. \A d \in Cmds : HasProcess(d)' = HasProcess(d) /\ (d # c => IdOf(d)' = IdOf(d))
    BY <1>2 DEF Looked, OnlyCli, HasProcess, IdOf
  <2>2. spc[c] = "none" /\ IdOf(c)' \in Ids
    BY <1>2 DEF Looked, Begun, IdOf
  <2>. QED  BY <1>2, <2>1, <2>2 DEF Looked, OnlyCli, Begun
<1>3. ASSUME NEW c \in Cmds, Began(c)
      PROVE  Begun'
  <2>1. \A d \in Cmds : HasProcess(d)' = HasProcess(d) /\ (d # c => IdOf(d)' = IdOf(d))
    BY <1>3 DEF Began, OnlyCli, HasProcess, IdOf
  <2>2. spc[c] = "none"
    BY <1>3 DEF Began, Begun
  <2>. QED  BY <1>3, <2>1, <2>2 DEF Began, OnlyCli, Begun
<1>4. ASSUME NEW c \in Cmds, Forked(c) \/ Deleted(c)
      PROVE  Begun'
  <2>1. \A d \in Cmds : HasProcess(d)' = HasProcess(d) /\ IdOf(d)' = IdOf(d)
    BY <1>4 DEF Forked, Deleted, HasProcess, IdOf
  <2>2. CASE Forked(c)
    <3>1. spc[c] = "none" /\ cmd[c].op \in {"run", "start"} /\ spc'[c] = "clone" /\ ~HasProcess(c)
      BY <2>2 DEF Forked, Begun, SupTypeOK, TypeOK
    <3>2. \A d \in Cmds : d # c => spc'[d] = spc[d]
      BY <2>2 DEF Forked, SupTypeOK, TypeOK
    <3>. QED  BY <2>1, <2>2, <3>1, <3>2 DEF Forked, OnlyCli, Begun
  <2>3. CASE Deleted(c)
    <3>1. cmd[c].op # "none"
      BY <2>3 DEF Deleted, Begun
    <3>. QED  BY <2>1, <2>3, <3>1 DEF Deleted, OnlyCli, Begun
  <2>. QED  BY <1>4, <2>2, <2>3
<1>5. ASSUME NEW s \in Cmds, Cloned(s) \/ Moved(s) \/ Wrote(s)
      PROVE  Begun'
  <2>1. OnlyServer(s)
    BY <1>5 DEF Cloned, Moved, Wrote
  <2>2. \A d \in Cmds : IdOf(d)' = IdOf(d)
    BY <2>1 DEF OnlyServer, IdOf
  <2>3. /\ spc[s] \notin {"none", "exited"} /\ spc'[s] # "none"
        /\ spc'[s] \in {"clone"} \cup Cleaning => ~HasProcess(s)'
        /\ spc'[s] \in Attached => HasProcess(s)'
    BY <1>5 DEF Cloned, Moved, Wrote, Begun
  <2>4. cmd[s].op \in {"run", "start"} /\ s \notin Before /\ cpc[s] # "fork"
    BY <2>3 DEF Begun
  <2>. QED  BY <2>1, <2>2, <2>3, <2>4 DEF OnlyServer, Begun
<1>6. ASSUME NEW t \in Threads, ThreadMarked(t)
      PROVE  Begun'
  <2>1. \A d \in Cmds : HasProcess(d)' = HasProcess(d) /\ IdOf(d)' = IdOf(d)
    BY <1>6 DEF ThreadMarked, HasProcess, IdOf
  <2>. QED  BY <1>6, <2>1 DEF ThreadMarked, Begun
<1>. QED  BY <1>1, <1>2, <1>3, <1>4, <1>5, <1>6 DEF StepCase

LEMMA FiledStep ==
    ASSUME SupTypeOK, Begun, Filed, SlotsKept, StepCase
    PROVE  Filed'
<1>1. \A id \in Ids : Owned(id) => Owned(id)'
  BY OwnedKept
<1>2. ASSUME \A id \in Ids : db'[id] # NoRecord =>
               \/ db'[id].id = id /\ Owned(id)'
               \/ db[id] # NoRecord /\ db'[id].id = db[id].id
      PROVE  Filed'
  BY <1>1, <1>2 DEF Filed
<1>3. ASSUME NEW id \in Ids, db[id] # NoRecord, NEW info \in {Checked(db[id]), Stopped(db[id])},
             db' = [db EXCEPT ![id] = info]
      PROVE  Filed'
  <2>1. info.id = db[id].id
    BY <1>3, InfoKept DEF SupTypeOK, TypeOK
  <2>. QED  BY <1>2, <1>3, <2>1 DEF SupTypeOK, TypeOK
<1>4. CASE db' = db
  BY <1>2, <1>4
<1>5. ASSUME NEW c \in Cmds, NEW id \in Ids, Looked(c, id)
      PROVE  Filed'
  BY <1>3, <1>5 DEF Looked
<1>6. ASSUME NEW c \in Cmds, Deleted(c)
      PROVE  Filed'
  <2>1. IdOf(c) \in Ids
    BY <1>6 DEF Deleted, Begun
  <2>. QED  BY <1>2, <1>6, <2>1 DEF Deleted, SupTypeOK, TypeOK
<1>7. ASSUME NEW s \in Cmds, Wrote(s)
      PROVE  Filed'
  <2>1. IdOf(s) \in Ids
    BY <1>7 DEF Wrote, Begun
  <2>2. CASE /\ cmd[s].op = "run" \/ db[IdOf(s)] # NoRecord
             /\ db' = [db EXCEPT ![IdOf(s)] = Running(cmd[s].info, pid[s])]
    <3>1. cmd[s].info \in Info /\ pid[s] \in Pids \cup {NoPid}
      BY DEF SupTypeOK, TypeOK, Cmd
    <3>2. Running(cmd[s].info, pid[s]).id = IdOf(s)
      BY <3>1, InfoKept DEF IdOf
    <3>3. Owned(IdOf(s))
      BY <2>1, <2>2 DEF Owned, Filed
    <3>. QED  BY <1>1, <1>2, <2>1, <2>2, <3>2, <3>3 DEF SupTypeOK, TypeOK
  <2>. QED  BY <1>3, <1>7, <2>1, <2>2 DEF Wrote
<1>8. ASSUME NEW t \in Threads, ThreadMarked(t)
      PROVE  Filed'
  <2>1. tinfo[t].id \in Ids
    BY <1>8 DEF ThreadMarked, SlotsKept
  <2>. QED  BY <1>3, <1>8, <2>1 DEF ThreadMarked
<1>. QED
  BY <1>4, <1>5, <1>6, <1>7, <1>8 DEF StepCase, Calm, Began, Forked, Cloned, Moved

\* A user's command moves nobody else.
LEMMA UserAlone ==
    ASSUME TypeOK, NEW c \in Cmds, CliStep(c) \/ UserStep(c)
    PROVE  \A d \in Cmds : d # c => cpc'[d] = cpc[d]
<1>. USE DEF TypeOK
<1>1. ASSUME NEW op, NEW running, NEW stopped, LookupStep(c, op, running, stopped)
      PROVE  \A d \in Cmds : d # c => cpc'[d] = cpc[d]
  BY <1>1 DEF LookupStep
<1>2. CASE Run(c) \/ ClientEnds(c)
  BY <1>2 DEF Run, ClientEnds, CliGoto, CliFails
<1>3. CASE CliStep(c)
  <2>1. CASE StopGet(c)
    BY <2>1 DEF StopGet, CliGoto
  <2>2. CASE Fork(c) \/ WaitForServer(c) \/ Connect(c) \/ SetNs(c)
    BY <2>2 DEF Fork, WaitForServer, Connect, SetNs, CliGoto, CliFails
  <2>3. CASE \/ SigTerm(c) \/ SigKill(c) \/ RemoveSockdir(c) \/ RemoveLayer(c) \/ DeleteRecord(c)
    BY <2>3 DEF SigTerm, SigKill, RemoveSockdir, RemoveLayer, DeleteRecord, CliGoto, CliFails
  <2>. QED  BY <1>3, <2>1, <2>2, <2>3 DEF CliStep
<1>. QED  BY <1>1, <1>2, <1>3, UserCases

\* Slots whose threads go on or end, with the records they have.
LEMMA SlotsStutter ==
    ASSUME SupTypeOK, Begun, SlotsKept, StepCase, vector' \subseteq vector,
           \A t \in Threads :
               \/ /\ tpc'[t] = tpc[t] /\ tinfo'[t] = tinfo[t]
                  /\ tpc[t] \in {"none", "asleep", "mark", "start"} => cpc'[t] = cpc[t]
               \/ tpc'[t] = "start" /\ tpc[t] = "mark" /\ tinfo'[t] = tinfo[t] /\ cpc'[t] = cpc[t]
               \/ tpc'[t] = "none" /\ tpc[t] \in {"none", "asleep", "start"} /\ cpc'[t] = cpc[t]
               \/ tpc'[t] \in {"started", "lost"}
    PROVE  SlotsKept'
<1>1. \A id \in Ids : Owned(id) => Owned(id)'
  BY OwnedKept
<1>. QED  BY <1>1 DEF SlotsKept

LEMMA DiesSlots ==
    ASSUME SupTypeOK, Begun, SlotsKept, StepCase, Dies
    PROVE  SlotsKept'
<1>1. /\ vector' = {} /\ tinfo' = tinfo
      /\ \A t \in Threads : tpc'[t] = IF tpc[t] = "none" THEN "none" ELSE "lost"
  BY DEF Dies
<1>2. \A t \in Threads : tpc[t] = "none" => cpc'[t] = cpc[t]
  <2>1. \A t \in Threads : tpc[t] = "none" => cpc[t] = "idle" /\ t \in Cmds
    BY SupervisorAssumption DEF SlotsKept
  <2>. QED  BY <2>1 DEF Dies
<1>. QED  BY <1>1, <1>2, SlotsStutter

LEMMA LoopSlots ==
    ASSUME SupTypeOK, Begun, Filed, SlotsKept, StepCase, LoopStep
    PROVE  SlotsKept'
<1>1. CASE ListsNothing
  BY <1>1, DiesSlots DEF ListsNothing
<1>2. ASSUME UNCHANGED <<vars, threadVars>>
      PROVE  \A t \in Threads : cpc'[t] = cpc[t] /\ tpc'[t] = tpc[t] /\ tinfo'[t] = tinfo[t]
                                /\ \A id : Owned(id)' = Owned(id)
  BY <1>2 DEF vars, cliVars, threadVars, Owned, IdOf
<1>3. CASE List
  <2>1. vector' = Records /\ \A info \in Records : info.id \in Ids
    BY <1>3 DEF List, Records, Filed
  <2>. QED  BY <1>2, <1>3, <2>1 DEF List, SlotsKept
<1>4. CASE ListDone
  BY <1>2, <1>4, SlotsStutter DEF ListDone
<1>5. CASE CheckRecord
  <2>. DEFINE info == CHOOSE i \in vector : TRUE
              t == CHOOSE u \in FreeSlots : TRUE
  <2>1. info \in vector /\ vector' \subseteq vector /\ UNCHANGED vars
    BY <1>5 DEF CheckRecord
  <2>2. CASE UNCHANGED threadVars
    BY <1>2, <2>1, <2>2, SlotsStutter
  <2>3. CASE ~ UNCHANGED threadVars
    <3>1. /\ FreeSlots # {}
          /\ tpc' = [tpc EXCEPT ![t] = "asleep"] /\ tinfo' = [tinfo EXCEPT ![t] = info]
      BY <1>5, <2>3 DEF CheckRecord
    <3>2. t \in Threads /\ tpc[t] = "none"
      BY <3>1 DEF FreeSlots
    <3>3. info.id \in Ids /\ cpc[t] = "idle"
      BY <2>1, <3>2 DEF SlotsKept
    <3>4. cpc' = cpc /\ \A id : Owned(id)' = Owned(id)
      BY <2>1 DEF vars, cliVars, Owned, IdOf
    <3>5. /\ tpc'[t] = "asleep" /\ tinfo'[t] = info
          /\ \A u \in Threads : u # t => tpc'[u] = tpc[u] /\ tinfo'[u] = tinfo[u]
      BY <3>1, <3>2 DEF SupTypeOK
    <3>. HIDE DEF info, t
    <3>. QED  BY <2>1, <3>2, <3>3, <3>4, <3>5 DEF SlotsKept
  <2>. QED  BY <2>2, <2>3
<1>. QED  BY <1>1, <1>3, <1>4, <1>5 DEF LoopStep

LEMMA ThreadSlots ==
    ASSUME SupTypeOK, Begun, Filed, SlotsKept, StepCase, NEW t \in Threads, ThreadStep(t)
    PROVE  SlotsKept'
<1>1. CASE Dies
  BY <1>1, DiesSlots
<1>2. CASE ThreadEnds(t) /\ tpc[t] \in {"asleep", "start"}
  <2>1. /\ vector' = vector /\ cpc' = cpc /\ tpc'[t] = "none"
        /\ \A u \in Threads : u # t => tpc'[u] = tpc[u] /\ tinfo'[u] = tinfo[u]
    BY <1>2 DEF ThreadEnds, ThreadGoto, vars, cliVars, loopVars, SupTypeOK
  <2>. QED  BY <1>2, <2>1, SlotsStutter
<1>3. CASE Recheck(t) /\ ~Dies /\ ~ThreadEnds(t)
  <2>1. /\ UNCHANGED <<vars, loopVars>> /\ db[tinfo[t].id] # NoRecord /\ tpc[t] = "asleep"
        /\ tpc' = [tpc EXCEPT ![t] = "mark"] /\ tinfo' = [tinfo EXCEPT ![t] = db[tinfo[t].id]]
    BY <1>3 DEF Recheck, ThreadGoto, IsDeadClaim
  <2>2. tinfo[t].id \in Ids /\ cpc[t] = "idle"
    BY <2>1 DEF SlotsKept
  <2>3. db[tinfo[t].id].id = tinfo[t].id /\ Owned(tinfo[t].id)
    BY <2>1, <2>2 DEF Filed
  <2>4. vector' = vector /\ cpc' = cpc /\ \A id : Owned(id)' = Owned(id)
    BY <2>1 DEF vars, cliVars, loopVars, Owned, IdOf
  <2>5. /\ tpc'[t] = "mark" /\ tinfo'[t].id = tinfo[t].id
        /\ \A u \in Threads : u # t => tpc'[u] = tpc[u] /\ tinfo'[u] = tinfo[u]
    BY <2>1, <2>3 DEF SupTypeOK
  <2>. QED  BY <2>2, <2>3, <2>4, <2>5 DEF SlotsKept
<1>4. CASE Mark(t) /\ ~Dies
  <2>1. /\ vector' = vector /\ cpc' = cpc /\ tpc[t] = "mark" /\ tpc'[t] = "start" /\ tinfo' = tinfo
        /\ \A u \in Threads : u # t => tpc'[u] = tpc[u]
    BY <1>4 DEF Mark, ThreadGoto, cliVars, loopVars, SupTypeOK
  <2>. QED  BY <2>1, SlotsStutter
<1>5. CASE ThreadStart(t) /\ ~ThreadEnds(t)
  <2>1. /\ vector' = vector /\ tpc'[t] = "started" /\ tinfo' = tinfo
        /\ \A u \in Threads : u # t => tpc'[u] = tpc[u]
        /\ Lookup(t, "start", tinfo[t].id, TRUE, StartOrRefuse)
    BY <1>5 DEF ThreadStart, ThreadGoto, loopVars, SupTypeOK
  <2>2. \A u \in Threads : u # t => cpc'[u] = cpc[u]
    <3>1. Threads \subseteq Cmds
      BY SupervisorAssumption
    <3>. QED  BY <2>1, <3>1 DEF Lookup, CliFails, CliGoto, SupTypeOK, TypeOK
  <2>. QED  BY <2>1, <2>2, SlotsStutter
<1>6. CASE (ThreadFork(t) /\ ~Dies) \/ (WaitForServer(t) /\ UNCHANGED supVars)
  <2>1. /\ UNCHANGED supVars /\ cpc[t] \in {"fork", "wait"}
        /\ \E step \in CliSteps : cpc' = [cpc EXCEPT ![t] = step]
    BY <1>6 DEF ThreadFork, WaitForServer, CliGoto, CliSteps
  <2>2. Threads \subseteq Cmds
    BY SupervisorAssumption
  <2>3. tpc[t] \notin {"none", "asleep", "mark", "start"}
    BY <2>1 DEF SlotsKept
  <2>4. vector' = vector /\ tpc' = tpc /\ tinfo' = tinfo
    BY <2>1 DEF supVars, loopVars, threadVars
  <2>5. \A u \in Threads : u # t => cpc'[u] = cpc[u]
    BY <2>1, <2>2 DEF SupTypeOK, TypeOK
  <2>. QED  BY <2>3, <2>4, <2>5, SlotsStutter
<1>. QED
  BY <1>1, <1>2, <1>3, <1>4, <1>5, <1>6 DEF ThreadStep, Recheck, Mark, ThreadStart

LEMMA SlotsStep ==
    ASSUME SupTypeOK, Begun, Filed, SlotsKept, StepCase, [SupNext]_allVars
    PROVE  SlotsKept'
<1>1. ASSUME UNCHANGED supVars, \A t \in Threads : cpc'[t] = cpc[t]
      PROVE  SlotsKept'
  BY <1>1, SlotsStutter DEF supVars, loopVars, threadVars
<1>2. ASSUME NEW c \in Users, UserCommand(c)
      PROVE  SlotsKept'
  <2>1. c \in Cmds /\ c \notin Threads /\ Threads \subseteq Cmds
    BY SupervisorAssumption DEF Users
  <2>2. \A d \in Cmds : d # c => cpc'[d] = cpc[d]
    BY <1>2, <2>1, UserAlone DEF UserCommand, SupTypeOK
  <2>. QED  BY <1>1, <1>2, <2>1, <2>2 DEF UserCommand
<1>3. ASSUME NEW s \in Cmds, Server(s) \/ Instance(s) \/ Speaks(s) \/ Environment(s)
      PROVE  SlotsKept'
  <2>1. CASE Server(s) \/ (Environment(s) /\ spc[s] = "relay" /\ ServerKilled(s))
    <3>1. cpc' = cpc
      BY <2>1, ServerGoesOn DEF Server, Cloned, Moved, Wrote, OnlyServer
    <3>. QED  BY <1>1, <2>1, <3>1 DEF Server, Environment
  <2>2. CASE Instance(s) \/ Speaks(s) \/ (Environment(s) /\ InstanceExits(s))
    <3>1. cpc' = cpc
      BY <2>2 DEF Instance, InstanceStep, Speaks, InstanceSpeaks, InstanceExits, InstanceSetupFails,
                  InstanceMounts, OrphanReaped, cliVars
    <3>. QED  BY <1>1, <2>2, <3>1 DEF Instance, Speaks, Environment
  <2>. QED  BY <1>3, <2>1, <2>2 DEF Environment
<1>4. CASE UNCHANGED allVars
  BY <1>1, <1>4 DEF allVars, vars, cliVars
<1>. QED  BY <1>2, <1>3, <1>4, LoopSlots, ThreadSlots DEF SupNext

LEMMA DiesType ==
    ASSUME SupTypeOK, Dies
    PROVE  SupTypeOK'
<1>1. cpc' \in [Cmds -> CliSteps] /\ tpc' \in [Threads -> ThreadSteps]
  BY DEF Dies, SupTypeOK, TypeOK, CliSteps, ThreadSteps
<1>2. /\ UNCHANGED <<cmd, sem, spc, cst, pid, spoke, db, gone, sockdirs, sock, layers, mounted, wiped,
                     foreign, strayed, tinfo>>
      /\ loop' = "dead" /\ vector' = {}
  BY DEF Dies, srvVars, instVars, dbVars, fsVars, envVars
<1>. QED  BY <1>1, <1>2 DEF SupTypeOK, TypeOK

LEMMA TypeStutter ==
    ASSUME TypeOK, UNCHANGED vars
    PROVE  TypeOK'
  BY DEF vars, cliVars, srvVars, instVars, dbVars, fsVars, envVars, TypeOK

LEMMA LoopType ==
    ASSUME SupTypeOK, LoopStep
    PROVE  SupTypeOK'
<1>1. CASE ListsNothing
  BY <1>1, DiesType DEF ListsNothing
<1>2. CASE List
  <2>1. Records \subseteq Info
    BY DEF Records, SupTypeOK, TypeOK
  <2>. QED  BY <1>2, <2>1, TypeStutter DEF List, threadVars, SupTypeOK
<1>3. CASE ListDone
  BY <1>3, TypeStutter DEF ListDone, threadVars, SupTypeOK
<1>4. CASE CheckRecord
  <2>. DEFINE info == CHOOSE i \in vector : TRUE
              t == CHOOSE u \in FreeSlots : TRUE
  <2>1. info \in Info /\ vector' \subseteq Info /\ UNCHANGED <<vars, loop>>
    BY <1>4 DEF CheckRecord, SupTypeOK
  <2>2. \/ UNCHANGED <<tpc, tinfo>>
        \/ tpc' = [tpc EXCEPT ![t] = "asleep"] /\ tinfo' = [tinfo EXCEPT ![t] = info]
    BY <1>4 DEF CheckRecord, threadVars
  <2>. HIDE DEF info, t
  <2>3. tpc' \in [Threads -> ThreadSteps] /\ tinfo' \in [Threads -> Info]
    BY <2>1, <2>2 DEF SupTypeOK, ThreadSteps
  <2>. QED  BY <2>1, <2>3, TypeStutter DEF SupTypeOK
<1>. QED  BY <1>1, <1>2, <1>3, <1>4 DEF LoopStep

LEMMA ThreadType ==
    ASSUME SupTypeOK, Begun, Identified, SlotsKept, NEW t \in Threads, ThreadStep(t)
    PROVE  SupTypeOK'
<1>1. CASE Dies
  BY <1>1, DiesType
<1>2. CASE ThreadEnds(t)
  BY <1>2, TypeStutter, UnsetIsInfo DEF ThreadEnds, ThreadGoto, loopVars, SupTypeOK, ThreadSteps
<1>3. CASE Recheck(t) /\ ~Dies /\ ~ThreadEnds(t)
  <2>1. /\ UNCHANGED <<vars, loopVars>> /\ db[tinfo[t].id] # NoRecord /\ tpc[t] = "asleep"
        /\ tpc' = [tpc EXCEPT ![t] = "mark"] /\ tinfo' = [tinfo EXCEPT ![t] = db[tinfo[t].id]]
    BY <1>3 DEF Recheck, ThreadGoto, IsDeadClaim
  <2>2. db[tinfo[t].id] \in Info
    BY <2>1 DEF SlotsKept, SupTypeOK, TypeOK
  <2>. QED  BY <2>1, <2>2, TypeStutter DEF loopVars, SupTypeOK, ThreadSteps
<1>4. CASE Mark(t) /\ ~Dies
  <2>1. /\ UNCHANGED <<cmd, cpc, sem, spc, cst, pid, spoke, gone, sockdirs, sock, layers, mounted, wiped,
                       foreign, strayed, loop, vector, tinfo>>
        /\ tpc[t] = "mark" /\ tpc' = [tpc EXCEPT ![t] = "start"]
    BY <1>4 DEF Mark, ThreadGoto, Put, cliVars, srvVars, instVars, dbVars, fsVars, envVars, loopVars
  <2>2. tinfo[t].id \in Ids
    BY <2>1 DEF SlotsKept
  <2>3. db[tinfo[t].id] # NoRecord => Stopped(db[tinfo[t].id]) \in Info
    BY <2>2, InfoKept DEF SupTypeOK, TypeOK
  <2>4. db' \in [Ids -> Info \cup {NoRecord}]
    BY <1>4, <2>3 DEF Mark, Put, dbVars, SupTypeOK, TypeOK
  <2>. QED  BY <2>1, <2>4 DEF SupTypeOK, TypeOK, ThreadSteps
<1>5. CASE ThreadStart(t) /\ ~ThreadEnds(t)
  <2>1. /\ UNCHANGED <<sem, spc, cst, pid, spoke, sockdirs, sock, layers, mounted, wiped,
                       foreign, strayed, loop, vector, tinfo>>
        /\ tpc' = [tpc EXCEPT ![t] = "started"] /\ tpc[t] = "start"
        /\ Matching(tinfo[t].id) # {} /\ Lookup(t, "start", tinfo[t].id, TRUE, StartOrRefuse)
    BY <1>5 DEF ThreadStart, ThreadGoto, Lookup, srvVars, instVars, fsVars, envVars, loopVars
  <2>2. PICK id \in Matching(tinfo[t].id) :
          /\ db' = [db EXCEPT ![id] = Checked(db[id])] /\ gone' = gone
          /\ cpc' = [cpc EXCEPT ![t] = StartOrRefuse(Checked(db[id]))]
          /\ cmd' = [cmd EXCEPT ![t] = [op |-> "start", key |-> tinfo[t].id, detach |-> TRUE,
                                        info |-> Checked(db[id]), found |-> Checked(db[id])]]
    BY <2>1 DEF Lookup, Put
  <2>3. id \in Ids /\ db[id] # NoRecord /\ tinfo[t].id \in Keys
    BY <2>1 DEF Matching, SlotsKept, Keys
  <2>4. Checked(db[id]) \in Info
    BY <2>3, InfoKept DEF SupTypeOK, TypeOK
  <2>5. [op |-> "start", key |-> tinfo[t].id, detach |-> TRUE,
         info |-> Checked(db[id]), found |-> Checked(db[id])] \in Cmd
    BY <2>3, <2>4 DEF Cmd, CliOps
  <2>6. cmd' \in [Cmds -> Cmd] /\ db' \in [Ids -> Info \cup {NoRecord}]
    BY <2>2, <2>4, <2>5 DEF SupTypeOK, TypeOK
  <2>7. cpc' \in [Cmds -> CliSteps]
    BY <2>2 DEF StartOrRefuse, SupTypeOK, TypeOK, CliSteps
  <2>. QED  BY <2>1, <2>2, <2>6, <2>7 DEF SupTypeOK, TypeOK, ThreadSteps
<1>6. CASE ThreadFork(t) /\ ~Dies
  <2>1. /\ UNCHANGED <<cmd, sem, cst, pid, spoke, db, gone, sockdirs, sock, layers, mounted, wiped,
                       foreign, strayed, loop, vector, tpc, tinfo>>
        /\ cpc' = [cpc EXCEPT ![t] = "wait"] /\ spc' = [spc EXCEPT ![t] = "clone"]
    BY <1>6 DEF ThreadFork, CliGoto, SrvGoto, instVars, dbVars, fsVars, envVars, supVars, loopVars,
                threadVars
  <2>. QED  BY <2>1 DEF SupTypeOK, TypeOK, CliSteps, ServerSteps
<1>7. CASE WaitForServer(t) /\ UNCHANGED supVars
  <2>1. t \in Cmds
    BY SupervisorAssumption
  <2>2. TypeOK'
    BY <1>7, <2>1, CliType DEF CliStep, SupTypeOK
  <2>. QED  BY <1>7, <2>2 DEF supVars, loopVars, threadVars, SupTypeOK
<1>. QED
  BY <1>1, <1>2, <1>3, <1>4, <1>5, <1>6, <1>7 DEF ThreadStep

LEMMA SupTypeStep ==
    ASSUME SupTypeOK, Begun, SlotsKept, [SupNext]_allVars
    PROVE  SupTypeOK'
<1>1. Identified
  BY DEF Begun, Identified
<1>2. ASSUME TypeOK', UNCHANGED supVars
      PROVE  SupTypeOK'
  BY <1>2 DEF supVars, loopVars, threadVars, SupTypeOK
<1>3. ASSUME NEW c \in Users, UserCommand(c)
      PROVE  SupTypeOK'
  <2>1. c \in Cmds
    BY DEF Users
  <2>. QED  BY <1>1, <1>2, <1>3, <2>1, CliType, UserType DEF UserCommand, SupTypeOK
<1>4. ASSUME NEW s \in Cmds, Server(s) \/ Instance(s) \/ Speaks(s) \/ Environment(s)
      PROVE  SupTypeOK'
  <2>1. ServerStep(s) \/ EnvStep(s) \/ InstanceStep(s)
    BY <1>4 DEF Server, Instance, Speaks, Environment, EnvStep
  <2>2. TypeOK'
    BY <1>1, <2>1, ServerType, InstanceType DEF SupTypeOK
  <2>. QED  BY <1>2, <1>4, <2>2 DEF Server, Instance, Speaks, Environment
<1>5. CASE UNCHANGED allVars
  BY <1>2, <1>5, TypeStutter DEF allVars, SupTypeOK
<1>. QED  BY <1>1, <1>3, <1>4, <1>5, LoopType, ThreadType DEF SupNext

\* The four parts keep each other, whatever users, threads and servers do.
LEMMA BaseStep ==
    ASSUME SupTypeOK, Begun, Filed, SlotsKept, [SupNext]_allVars
    PROVE  SupTypeOK' /\ Begun' /\ Filed' /\ SlotsKept'
<1>1. StepCase
  BY SupSteps
<1>. QED  BY <1>1, SupTypeStep, BegunStep, FiledStep, SlotsStep

\* Every variable of the supervisor and of the containers it looks after keeps
\* its type; that a thread's record names a container is part of the argument.
THEOREM SupTypeCorrect == SupSpec => []SupTypeOK
<1>1. SupInit => SupTypeOK /\ Begun /\ Filed /\ SlotsKept
  BY SupInitInv DEF SupInv
<1>2. SupTypeOK /\ Begun /\ Filed /\ SlotsKept /\ [SupNext]_allVars
        => (SupTypeOK /\ Begun /\ Filed /\ SlotsKept)'
  BY BaseStep
<1>. QED  BY <1>1, <1>2, PTL DEF SupSpec

-----------------------------------------------------------------------------
(* One server for a container *)

\* Who becomes busy has begun a run or a start.
LEMMA NewBusy ==
    ASSUME SupTypeOK, Begun, StepCase, NEW d \in Cmds, Busy(d)', ~Busy(d)
    PROVE  /\ cpc'[d] = "fork" /\ cpc[d] = "idle"
           /\ Began(d) \/ \E id \in Ids : Looked(d, id)
<1>1. CASE Calm
  BY <1>1 DEF Calm, Busy
<1>2. ASSUME NEW c \in Cmds, NEW id \in Ids, Looked(c, id)
      PROVE  d = c /\ cpc'[d] = "fork"
  <2>1. \A e \in Cmds : HasProcess(e)' = HasProcess(e)
    BY <1>2 DEF Looked, HasProcess
  <2>2. spc'[d] = spc[d] /\ (d # c => cpc'[d] = cpc[d])
    BY <1>2 DEF Looked, OnlyCli
  <2>3. CASE d # c
    BY <2>1, <2>2, <2>3 DEF Busy
  <2>4. CASE d = c
    <3>1. spc[c] = "none" /\ ~HasProcess(c)
      BY <1>2 DEF Looked, Begun
    <3>. QED  BY <2>1, <2>2, <2>4, <3>1 DEF Busy
  <2>. QED  BY <2>3, <2>4
<1>3. ASSUME NEW c \in Cmds, Began(c)
      PROVE  d = c
  <2>1. \A e \in Cmds : HasProcess(e)' = HasProcess(e)
    BY <1>3 DEF Began, HasProcess
  <2>2. spc'[d] = spc[d] /\ (d # c => cpc'[d] = cpc[d])
    BY <1>3 DEF Began, OnlyCli
  <2>. QED  BY <2>1, <2>2 DEF Busy
<1>4. ASSUME NEW c \in Cmds, Forked(c) \/ Deleted(c)
      PROVE  FALSE
  <2>1. HasProcess(d)' = HasProcess(d)
    BY <1>4 DEF Forked, Deleted, HasProcess
  <2>2. d # c => spc'[d] = spc[d] /\ cpc'[d] = cpc[d]
    BY <1>4 DEF Forked, Deleted, OnlyCli, SupTypeOK, TypeOK
  <2>3. d # c
    BY <1>4, <2>1 DEF Forked, Deleted, Busy
  <2>. QED  BY <2>1, <2>2, <2>3 DEF Busy
<1>5. ASSUME NEW s \in Cmds, Cloned(s) \/ Moved(s) \/ Wrote(s)
      PROVE  FALSE
  <2>1. OnlyServer(s) /\ spc[s] \notin {"none", "exited"}
    BY <1>5 DEF Cloned, Moved, Wrote
  <2>. QED  BY <2>1 DEF OnlyServer, Busy
<1>6. ASSUME NEW t \in Threads, ThreadMarked(t)
      PROVE  FALSE
  <2>1. HasProcess(d)' = HasProcess(d)
    BY <1>6 DEF ThreadMarked, HasProcess
  <2>. QED  BY <1>6, <2>1 DEF ThreadMarked, Busy
<1>7. ASSUME NEW id \in Ids, Looked(d, id), cpc'[d] = "fork"
      PROVE  cpc[d] = "idle"
  BY <1>7 DEF Looked
<1>8. Began(d) => cpc'[d] = "fork" /\ cpc[d] = "idle"
  BY DEF Began
<1>. QED  BY <1>1, <1>2, <1>3, <1>4, <1>5, <1>6, <1>7, <1>8 DEF StepCase

\* A start that begins is a thread's, with its container for itself.
LEMMA NewHasIt ==
    ASSUME SupTypeOK, Begun, SlotsKept, Alone, StepCase, "start" \notin Kinds, Names \cap Ids = {},
           NEW d \in Cmds, Busy(d)', ~Busy(d), NEW e \in Cmds, Busy(e)', e # d
    PROVE  IdOf(e)' # IdOf(d)'
<1>1. cpc'[d] = "fork" /\ cpc[d] = "idle" /\ (Began(d) \/ \E id \in Ids : Looked(d, id))
  BY NewBusy
<1>2. OnlyCli(d)
  BY <1>1 DEF Began, Looked
<1>3. Busy(e)
  BY <1>2, NewBusy DEF OnlyCli
<1>4. IdOf(e)' = IdOf(e)
  BY <1>3, HoldersKept
<1>5. CASE Began(d)
  BY <1>4, <1>5 DEF Began
<1>6. ASSUME NEW id \in Ids, Looked(d, id)
      PROVE  IdOf(e)' # IdOf(d)'
  <2>1. d \in Threads /\ tpc[d] = "start" /\ IdOf(d)' = tinfo[d].id
    BY <1>1, <1>6 DEF Looked
  <2>. QED  BY <1>3, <1>4, <2>1 DEF Alone
<1>. QED  BY <1>1, <1>5, <1>6

LEMMA SupBusyStep ==
    ASSUME SupTypeOK, Begun, SlotsKept, Alone, BusyUnique, StepCase,
           "start" \notin Kinds, Names \cap Ids = {}
    PROVE  BusyUnique'
<1>. SUFFICES ASSUME NEW s \in Cmds, NEW t \in Cmds, Busy(s)', Busy(t)', IdOf(s)' = IdOf(t)', s # t
              PROVE  FALSE
  BY DEF BusyUnique
<1>1. Busy(s) /\ Busy(t)
  BY NewHasIt
<1>2. IdOf(s)' = IdOf(s) /\ IdOf(t)' = IdOf(t)
  BY <1>1, HoldersKept
<1>. QED  BY <1>1, <1>2 DEF BusyUnique

-----------------------------------------------------------------------------
(* What the registry says of a container that runs *)

\* Such a record is not taken for a dead claim, neither by the loop nor by a
\* lookup: the pid is in /proc.
LEMMA ClaimLives ==
    ASSUME SupTypeOK, Begun, ClaimsTrue, NEW s \in Cmds, HasProcess(s),
           spc[s] \in Claimed \cup {"exited"}, db[IdOf(s)] # NoRecord
    PROVE  /\ IdOf(s) \in Ids /\ db[IdOf(s)] \in Info
           /\ IsRunning(db[IdOf(s)]) /\ db[IdOf(s)].pid = pid[s] /\ Live(db[IdOf(s)].pid)
           /\ Checked(db[IdOf(s)]) = db[IdOf(s)]
<1>1. IdOf(s) \in Ids
  BY DEF Begun, Claimed
<1>2. db[IdOf(s)] \in Info
  BY <1>1 DEF SupTypeOK, TypeOK
<1>3. IsRunning(db[IdOf(s)]) /\ db[IdOf(s)].pid = pid[s]
  BY DEF ClaimsTrue
<1>4. Live(db[IdOf(s)].pid)
  BY <1>3 DEF Live
<1>. QED  BY <1>1, <1>2, <1>3, <1>4, CheckedPid

\* The claims of servers that stay where they are outlast lookups and what is
\* written about other containers.
LEMMA ClaimKept ==
    ASSUME SupTypeOK, Begun, ClaimsTrue, StepCase, NEW s \in Cmds, HasProcess(s),
           spc[s] \in Claimed \cup {"exited"}, pid'[s] = pid[s], db'[IdOf(s)'] # NoRecord,
           \/ db' = db
           \/ \E id \in Ids : db[id] # NoRecord /\ db' = [db EXCEPT ![id] = Checked(db[id])]
           \/ \E id \in Ids : \E info : id # IdOf(s) /\ db' = [db EXCEPT ![id] = info]
    PROVE  IsRunning(db'[IdOf(s)']) /\ db'[IdOf(s)'].pid = pid'[s]
<1>1. Busy(s)
  BY DEF Busy
<1>2. IdOf(s)' = IdOf(s)
  BY <1>1, HoldersKept
<1>3. IdOf(s) \in Ids
  BY DEF Begun, Claimed
<1>4. db[IdOf(s)] # NoRecord
  BY <1>2, <1>3 DEF SupTypeOK, TypeOK
<1>5. IsRunning(db[IdOf(s)]) /\ db[IdOf(s)].pid = pid[s] /\ Checked(db[IdOf(s)]) = db[IdOf(s)]
  BY <1>4, ClaimLives
<1>6. db'[IdOf(s)] = db[IdOf(s)]
  BY <1>3, <1>4, <1>5 DEF SupTypeOK, TypeOK
<1>. QED  BY <1>2, <1>5, <1>6

LEMMA ClaimsStep ==
    ASSUME SupTypeOK, Begun, SlotsKept, Alone, BusyUnique, ClaimsTrue, StepCase
    PROVE  ClaimsTrue'
<1>. SUFFICES ASSUME NEW s \in Cmds, HasProcess(s)', spc'[s] \in Claimed \cup {"exited"},
                     db'[IdOf(s)'] # NoRecord
              PROVE  IsRunning(db'[IdOf(s)']) /\ db'[IdOf(s)'].pid = pid'[s]
  BY DEF ClaimsTrue, IsRunning
<1>1. CASE Calm
  <2>1. HasProcess(s) /\ spc'[s] = spc[s] /\ pid'[s] = pid[s] /\ db' = db
    BY <1>1 DEF Calm
  <2>. QED  BY <2>1, ClaimKept
<1>2. ASSUME NEW c \in Cmds, NEW id \in Ids, Looked(c, id)
      PROVE  IsRunning(db'[IdOf(s)']) /\ db'[IdOf(s)'].pid = pid'[s]
  <2>1. HasProcess(s) /\ spc'[s] = spc[s] /\ pid'[s] = pid[s]
    BY <1>2 DEF Looked, HasProcess
  <2>. QED  BY <1>2, <2>1, ClaimKept DEF Looked
<1>3. ASSUME NEW c \in Cmds, Began(c) \/ Forked(c)
      PROVE  IsRunning(db'[IdOf(s)']) /\ db'[IdOf(s)'].pid = pid'[s]
  <2>1. HasProcess(s) /\ spc'[s] = spc[s] /\ pid'[s] = pid[s] /\ db' = db
    BY <1>3 DEF Began, Forked, HasProcess, Claimed, SupTypeOK, TypeOK
  <2>. QED  BY <2>1, ClaimKept
<1>4. ASSUME NEW c \in Cmds, Deleted(c)
      PROVE  IsRunning(db'[IdOf(s)']) /\ db'[IdOf(s)'].pid = pid'[s]
  <2>1. HasProcess(s) /\ spc'[s] = spc[s] /\ pid'[s] = pid[s] /\ IdOf(s)' = IdOf(s)
    BY <1>4 DEF Deleted, HasProcess, IdOf
  <2>2. IdOf(c) \in Ids
    BY <1>4 DEF Deleted, Begun
  <2>3. db' = [db EXCEPT ![IdOf(c)] = NoRecord] /\ IdOf(c) # IdOf(s)
    BY <1>4, <2>1, <2>2 DEF Deleted, SupTypeOK, TypeOK
  <2>. QED  BY <2>1, <2>2, <2>3, ClaimKept
<1>5. ASSUME NEW d \in Cmds, Cloned(d) \/ Moved(d)
      PROVE  IsRunning(db'[IdOf(s)']) /\ db'[IdOf(s)'].pid = pid'[s]
  <2>1. OnlyServer(d) /\ db' = db
    BY <1>5 DEF Cloned, Moved
  <2>2. CASE s # d
    <3>1. HasProcess(s) /\ spc'[s] = spc[s] /\ pid'[s] = pid[s]
      BY <2>1, <2>2 DEF OnlyServer
    <3>. QED  BY <2>1, <3>1, ClaimKept
  <2>3. CASE s = d
    <3>1. Moved(s) /\ IdOf(s)' = IdOf(s)
      BY <1>5, <2>1, <2>3 DEF Cloned, Claimed, OnlyServer, IdOf
    <3>2. HasProcess(s) /\ pid'[s] = pid[s]
      BY <3>1 DEF Moved
    <3>3. spc[s] \in Claimed
      BY <2>1, <3>1, <3>2 DEF Moved, Begun, Claimed, Cleaning
    <3>. QED  BY <2>1, <3>2, <3>3, ClaimKept
  <2>. QED  BY <2>2, <2>3
<1>6. ASSUME NEW d \in Cmds, Wrote(d)
      PROVE  IsRunning(db'[IdOf(s)']) /\ db'[IdOf(s)'].pid = pid'[s]
  <2>1. /\ OnlyServer(d) /\ pid' = pid /\ HasProcess(d)' = HasProcess(d)
        /\ spc[d] \notin {"none", "exited"}
    BY <1>6 DEF Wrote
  <2>2. HasProcess(s) /\ IdOf(s)' = IdOf(s) /\ (s # d => spc'[s] = spc[s])
    BY <2>1 DEF OnlyServer, IdOf
  <2>3. IdOf(d) \in Ids /\ Busy(d) /\ Busy(s)
    BY <2>1, <2>2 DEF Begun, Busy
  <2>4. CASE s = d
    <3>1. spc[s] = "record"
      BY <1>6, <2>2, <2>4 DEF Wrote, Begun, Cleaning
    <3>2. db' = [db EXCEPT ![IdOf(s)] = Running(cmd[s].info, pid[s])]
      BY <1>6, <2>4, <3>1 DEF Wrote
    <3>3. cmd[s].info \in Info
      BY DEF SupTypeOK, TypeOK, Cmd
    <3>4. /\ Running(cmd[s].info, pid[s]).status = CONTAINER_RUNNING
          /\ Running(cmd[s].info, pid[s]).pid = pid[s]
      BY <3>3 DEF Running, Info
    <3>5. db'[IdOf(s)] = Running(cmd[s].info, pid[s])
      BY <2>3, <2>4, <3>2 DEF SupTypeOK, TypeOK
    <3>. QED  BY <2>1, <2>2, <3>4, <3>5 DEF IsRunning
  <2>5. CASE s # d
    <3>1. IdOf(s) # IdOf(d)
      BY <2>3, <2>5 DEF BusyUnique
    <3>2. \E info : db' = [db EXCEPT ![IdOf(d)] = info]
      BY <1>6 DEF Wrote
    <3>. QED  BY <2>1, <2>2, <2>3, <2>5, <3>1, <3>2, ClaimKept
  <2>. QED  BY <2>4, <2>5
<1>7. ASSUME NEW t \in Threads, ThreadMarked(t)
      PROVE  IsRunning(db'[IdOf(s)']) /\ db'[IdOf(s)'].pid = pid'[s]
  <2>1. HasProcess(s) /\ spc'[s] = spc[s] /\ pid'[s] = pid[s]
    BY <1>7 DEF ThreadMarked, HasProcess
  <2>2. tinfo[t].id \in Ids /\ IdOf(s) # tinfo[t].id
    BY <1>7, <2>1 DEF ThreadMarked, SlotsKept, Alone, Busy
  <2>3. \E info : db' = [db EXCEPT ![tinfo[t].id] = info]
    BY <1>7 DEF ThreadMarked
  <2>. QED  BY <2>1, <2>2, <2>3, ClaimKept
<1>. QED  BY <1>1, <1>2, <1>3, <1>4, <1>5, <1>6, <1>7 DEF StepCase

-----------------------------------------------------------------------------
(* A thread has its container for itself *)

\* Thread t has looked again, and goes on to mark its container.
Chosen(t) ==
    /\ UNCHANGED vars /\ tpc[t] = "asleep"
    /\ Prompt => AtRest(tinfo[t].id)
    /\ IsDeadClaim(db[tinfo[t].id])
    /\ tinfo'[t] = db[tinfo[t].id]
    /\ \A u \in Threads : u # t => tpc'[u] = tpc[u] /\ tinfo'[u] = tinfo[u]

LEMMA ThreadsMove ==
    ASSUME SupTypeOK, [SupNext]_allVars
    PROVE  \/ \A t \in Threads : tpc'[t] \in {"mark", "start"} =>
                tpc[t] \in {"mark", "start"} /\ tinfo'[t] = tinfo[t]
           \/ \E t \in Threads : Chosen(t)
<1>. DEFINE Plain == \A t \in Threads : tpc'[t] \in {"mark", "start"} =>
                        tpc[t] \in {"mark", "start"} /\ tinfo'[t] = tinfo[t]
<1>1. ASSUME UNCHANGED <<tpc, tinfo>>
      PROVE  Plain
  BY <1>1
<1>2. CASE Dies
  <2>1. \A t \in Threads : tpc'[t] \in {"none", "lost"}
    BY <1>2 DEF Dies
  <2>. QED  BY <2>1
<1>3. CASE CheckRecord
  <2>. DEFINE t == CHOOSE u \in FreeSlots : TRUE
  <2>1. \/ UNCHANGED <<tpc, tinfo>>
        \/ \E info : tpc' = [tpc EXCEPT ![t] = "asleep"] /\ tinfo' = [tinfo EXCEPT ![t] = info]
    BY <1>3 DEF CheckRecord, threadVars
  <2>. HIDE DEF t
  <2>. QED  BY <2>1 DEF SupTypeOK
<1>4. ASSUME NEW t \in Threads, ThreadEnds(t)
      PROVE  Plain
  BY <1>4 DEF ThreadEnds, ThreadGoto, SupTypeOK
<1>5. ASSUME NEW t \in Threads, Recheck(t), ~Dies, ~ThreadEnds(t)
      PROVE  Chosen(t)
  BY <1>5 DEF Recheck, ThreadGoto, Chosen, SupTypeOK
<1>6. ASSUME NEW t \in Threads, Mark(t), ~Dies
      PROVE  Plain
  BY <1>6 DEF Mark, ThreadGoto, SupTypeOK
<1>7. ASSUME NEW t \in Threads, ThreadStart(t), ~ThreadEnds(t)
      PROVE  Plain
  BY <1>7 DEF ThreadStart, ThreadGoto, SupTypeOK
<1>8. ASSUME UNCHANGED supVars
      PROVE  Plain
  BY <1>1, <1>8 DEF supVars, threadVars
<1>9. CASE LoopStep
  BY <1>1, <1>2, <1>3, <1>9 DEF LoopStep, ListsNothing, List, ListDone, threadVars
<1>10. ASSUME NEW t \in Threads, ThreadStep(t)
       PROVE  Plain \/ \E u \in Threads : Chosen(u)
  BY <1>2, <1>4, <1>5, <1>6, <1>7, <1>8, <1>10 DEF ThreadStep, ThreadFork
<1>. QED
  BY <1>8, <1>9, <1>10 DEF SupNext, UserCommand, Server, Instance, Speaks, Environment, allVars

LEMMA AloneStep ==
    ASSUME SupTypeOK, Begun, Filed, SlotsKept, BusyUnique, ClaimsTrue, Alone, StepCase,
           [SupNext]_allVars, Prompt, "start" \notin Kinds, Names \cap Ids = {}
    PROVE  Alone'
<1>1. ASSUME \A t \in Threads : tpc'[t] \in {"mark", "start"} =>
                tpc[t] \in {"mark", "start"} /\ tinfo'[t] = tinfo[t]
      PROVE  Alone'
  <2>1. ASSUME NEW t \in Threads, tpc'[t] \in {"mark", "start"},
               NEW c \in Cmds, IdOf(c)' = tinfo[t].id, Busy(c)'
        PROVE  FALSE
    <3>1. tpc[t] \in {"mark", "start"}
      BY <1>1, <2>1
    <3>2. CASE Busy(c)
      <4>1. IdOf(c)' = IdOf(c)
        BY <3>2, HoldersKept
      <4>. QED  BY <2>1, <3>1, <3>2, <4>1 DEF Alone
    <3>3. CASE ~Busy(c)
      <4>1. cpc'[c] = "fork" /\ (Began(c) \/ \E id \in Ids : Looked(c, id))
        BY <2>1, <3>3, NewBusy
      <4>2. CASE Began(c)
        BY <2>1, <3>1, <4>2 DEF Began, SlotsKept, Owned
      <4>3. ASSUME NEW id \in Ids, Looked(c, id)
            PROVE  FALSE
        <5>1. c \in Threads /\ tpc[c] = "start" /\ tpc'[c] = "started" /\ IdOf(c)' = tinfo[c].id
          BY <4>1, <4>3 DEF Looked
        <5>2. c # t
          BY <2>1, <5>1
        <5>. QED  BY <2>1, <3>1, <5>1, <5>2 DEF Alone
      <4>. QED  BY <4>1, <4>2, <4>3
    <3>. QED  BY <3>2, <3>3
  <2>2. \A t, u \in Threads :
          u # t /\ tpc'[t] \in {"mark", "start"} /\ tpc'[u] \in {"mark", "start"} =>
              tinfo'[u].id # tinfo'[t].id
    BY <1>1 DEF Alone
  <2>. QED  BY <1>1, <2>1, <2>2 DEF Alone
<1>2. ASSUME NEW t \in Threads, Chosen(t)
      PROVE  Alone'
  <2>1. tinfo[t].id \in Ids /\ IsDeadClaim(db[tinfo[t].id]) /\ AtRest(tinfo[t].id)
    BY <1>2 DEF Chosen, SlotsKept
  <2>2. tinfo'[t].id = tinfo[t].id
    BY <1>2, <2>1 DEF Chosen, Filed, IsDeadClaim
  <2>3. \A c \in Cmds : IdOf(c)' = IdOf(c) /\ Busy(c)' = Busy(c)
    BY <1>2 DEF Chosen, vars, cliVars, srvVars, instVars, IdOf, Busy, HasProcess
  <2>4. ASSUME NEW c \in Cmds, IdOf(c) = tinfo[t].id, Busy(c)
        PROVE  FALSE
    <3>1. cpc[c] # "fork" /\ spc[c] \in {"none", "relay", "exited"}
      BY <2>1, <2>4 DEF AtRest
    <3>2. HasProcess(c) /\ spc[c] \in Claimed \cup {"exited"}
      BY <2>4, <3>1 DEF Busy, Begun, Attached, Claimed
    <3>. QED  BY <2>1, <2>4, <3>2, ClaimLives DEF IsDeadClaim
  <2>5. \A u \in Threads : u # t /\ tpc[u] \in {"mark", "start"} => tinfo[u].id # tinfo[t].id
    BY <2>1 DEF AtRest, Restarting
  <2>6. \A u \in Threads : u # t => tpc'[u] = tpc[u] /\ tinfo'[u] = tinfo[u]
    BY <1>2 DEF Chosen
  <2>. QED  BY <2>2, <2>3, <2>4, <2>5, <2>6 DEF Alone
<1>. QED  BY <1>1, <1>2, ThreadsMove

LEMMA SupInvStep ==
    ASSUME SupInv, [SupNext]_allVars, Prompt, "start" \notin Kinds, Names \cap Ids = {}
    PROVE  SupInv'
<1>. USE DEF SupInv
<1>1. StepCase
  BY SupSteps
<1>2. SupTypeOK' /\ Begun' /\ Filed' /\ SlotsKept'
  BY BaseStep
<1>3. BusyUnique' /\ ClaimsTrue' /\ Alone'
  BY <1>1, SupBusyStep, ClaimsStep, AloneStep
<1>. QED  BY <1>2, <1>3

\* However polls, restarts and users' commands overlap, a container gets one
\* process at most, and no thread marks a container stopped that has come
\* back: for any number of threads and containers, although servers are killed,
\* pids reused, records removed and the supervisor dies.  Three seconds outlast
\* what others began (Prompt), no name is a container's id, and users leave
\* starting to the supervisor; two starts at once are the lifecycle's own race.
THEOREM SupRevivedOnce ==
    ASSUME Prompt, "start" \notin Kinds, Names \cap Ids = {}
    PROVE  SupSpec => []RevivedOnce
<1>1. SupInit => SupInv
  BY SupInitInv
<1>2. SupInv /\ [SupNext]_allVars => SupInv'
  BY SupInvStep
<1>3. SupInv => RevivedOnce
  <2>. SUFFICES ASSUME SupInv, NEW id \in Ids
                PROVE  /\ Cardinality(LiveInstances(id)) <= 1
                       /\ AtRest(id) /\ db[id] # NoRecord /\ ~IsRunning(db[id])
                            => LiveInstances(id) = {}
    BY DEF RevivedOnce
  <2>1. Cardinality(LiveInstances(id)) <= 1
    BY LiveCount DEF SupInv
  <2>2. ASSUME AtRest(id), db[id] # NoRecord, ~IsRunning(db[id]), NEW s \in LiveInstances(id)
        PROVE  FALSE
    <3>1. s \in Cmds /\ IdOf(s) = id /\ HasProcess(s)
      BY DEF LiveInstances, HasProcess
    <3>2. spc[s] \in Claimed \cup {"exited"}
      BY <2>2, <3>1 DEF AtRest, SupInv, Begun, Claimed
    <3>. QED  BY <2>2, <3>1, <3>2 DEF SupInv, ClaimsTrue
  <2>. QED  BY <2>1, <2>2
<1>. QED  BY <1>1, <1>2, <1>3, PTL DEF SupSpec
=============================================================================
