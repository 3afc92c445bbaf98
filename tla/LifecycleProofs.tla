-------------------------- MODULE LifecycleProofs --------------------------
(***************************************************************************)
(* Theorems about ContainerLifecycle, for every set of commands, ids,      *)
(* names and pids, with or without pid reuse, failing system calls, killed *)
(* servers and commands that overlap.                                      *)
(***************************************************************************)
EXTENDS ContainerLifecycle, TLAPS

-----------------------------------------------------------------------------
(* Records *)

\* The conversions of a record keep its id and its name.
LEMMA InfoKept ==
    ASSUME NEW info \in Info
    PROVE  /\ Stopped(info) \in Info
           /\ Stopped(info).id = info.id /\ Stopped(info).name = info.name
           /\ Checked(info) \in Info
           /\ Checked(info).id = info.id /\ Checked(info).name = info.name
           /\ \A p \in Pids \cup {NoPid} :
                /\ Running(info, p) \in Info
                /\ Running(info, p).id = info.id /\ Running(info, p).name = info.name
<1>1. /\ Stopped(info) \in Info
      /\ Stopped(info).id = info.id /\ Stopped(info).name = info.name
  BY DEF Info, Stopped, container_status_t, CONTAINER_STOPED
<1>2. \A p \in Pids \cup {NoPid} :
        /\ Running(info, p) \in Info
        /\ Running(info, p).id = info.id /\ Running(info, p).name = info.name
  BY DEF Info, Running, container_status_t, CONTAINER_RUNNING
<1>. QED  BY <1>1, <1>2 DEF Checked

LEMMA UnsetIsInfo == Unset \in Info /\ Unset.id = NoId
  BY DEF Unset, Info, container_status_t

-----------------------------------------------------------------------------
(* The commands that begin with a lookup differ in where they go on. *)

\* Command c looks a container up and goes on to one of the steps for a
\* container that runs or for one that does not.
LookupStep(c, op, running, stopped) ==
    /\ cpc[c] = "idle" /\ (Sequential => Settled)
    /\ UNCHANGED <<srvVars, instVars, fsVars, envVars>>
    /\ \/ cpc' = [cpc EXCEPT ![c] = "failed"] /\ UNCHANGED <<cmd, db, gone>>
       \/ \E id \in Ids, key \in Keys, detach \in BOOLEAN, step \in running \cup stopped :
            /\ db[id] # NoRecord
            /\ step \in IF IsRunning(Checked(db[id])) THEN running ELSE stopped
            /\ db' = [db EXCEPT ![id] = Checked(db[id])]
            /\ UNCHANGED gone
            /\ cpc' = [cpc EXCEPT ![c] = step]
            /\ cmd' = [cmd EXCEPT ![c] = [op |-> op, key |-> key, detach |-> detach,
                                          info |-> Checked(db[id]), found |-> Checked(db[id])]]

\* start, attach, exec, stop and rm begin like that.
LEMMA StartLooksUp ==
    ASSUME NEW c \in Cmds, Start(c)
    PROVE  LookupStep(c, "start", {"failed"}, {"fork"})
<1>1. PICK key \in Keys, detach \in Detach :
        BeginWithGet(c, "start", key, detach, StartOrRefuse)
  BY DEF Start
<1>2. detach \in BOOLEAN
  BY LifecycleAssumption
<1>3. Given(c, "start") /\ Lookup(c, "start", key, detach, StartOrRefuse)
  BY <1>1 DEF BeginWithGet
<1>. QED  BY <1>2, <1>3 DEF Given, Lookup, LookupStep, StartOrRefuse, Matching,
                                  CliFails, CliGoto, Put, dbVars

LEMMA AttachLooksUp ==
    ASSUME NEW c \in Cmds, Attach(c)
    PROVE  LookupStep(c, "attach", {"connect"}, {"failed"})
<1>1. PICK key \in Keys :
        /\ Given(c, "attach")
        /\ Lookup(c, "attach", key, FALSE,
                  LAMBDA info : IF IsRunning(info) THEN "connect" ELSE "failed")
  BY DEF Attach, BeginWithGet
<1>. QED  BY <1>1 DEF Given, Lookup, LookupStep, Matching, CliFails, CliGoto, Put, dbVars

LEMMA ExecLooksUp ==
    ASSUME NEW c \in Cmds, Exec(c)
    PROVE  LookupStep(c, "exec", {"setns"}, {"failed"})
<1>1. PICK key \in Keys :
        /\ Given(c, "exec")
        /\ Lookup(c, "exec", key, FALSE,
                  LAMBDA info : IF IsRunning(info) THEN "setns" ELSE "failed")
  BY DEF Exec, BeginWithGet
<1>. QED  BY <1>1 DEF Given, Lookup, LookupStep, Matching, CliFails, CliGoto, Put, dbVars

LEMMA StopLooksUp ==
    ASSUME NEW c \in Cmds, Stop(c)
    PROVE  LookupStep(c, "stop", {"term"}, {"failed"})
<1>1. PICK key \in Keys :
        /\ Given(c, "stop")
        /\ Lookup(c, "stop", key, FALSE,
                  LAMBDA info : IF IsRunning(info) THEN "term" ELSE "failed")
  BY DEF Stop, BeginWithGet
<1>. QED  BY <1>1 DEF Given, Lookup, LookupStep, Matching, CliFails, CliGoto, Put, dbVars

LEMMA RemoveLooksUp ==
    ASSUME NEW c \in Cmds, Remove(c)
    PROVE  LookupStep(c, "rm", {"stop_get", "failed"}, {"remove"})
<1>1. PICK key \in Keys, force \in BOOLEAN :
        /\ Given(c, "rm")
        /\ Lookup(c, "rm", key, FALSE,
                  LAMBDA info : IF ~IsRunning(info) THEN "remove"
                                ELSE IF force THEN "stop_get" ELSE "failed")
  BY DEF Remove, BeginWithGet
<1>. QED  BY <1>1 DEF Given, Lookup, LookupStep, Matching, CliFails, CliGoto, Put, dbVars

-----------------------------------------------------------------------------
(* Types *)

\* A command that has begun has a container id, and one that has not has
\* neither arguments nor a server.
CommandsIdentified ==
    \A c \in Cmds :
        /\ cmd[c].op = "none" => cpc[c] \in {"idle", "failed"} /\ spc[c] = "none"
        /\ cmd[c].op # "none" => cpc[c] # "idle" /\ IdOf(c) \in Ids

\* A command that removes and a server that finishes have a container id.
Identified ==
    \A c \in Cmds :
        cpc[c] \in {"remove_layer", "delete"} \/ spc[c] \in {"umount_volume", "mark"} =>
            IdOf(c) \in Ids

LEMMA LookupType ==
    ASSUME TypeOK, NEW c \in Cmds, NEW op \in CliOps,
           NEW running \in SUBSET CliSteps, NEW stopped \in SUBSET CliSteps,
           LookupStep(c, op, running, stopped)
    PROVE  TypeOK'
<1>1. UNCHANGED <<sem, spc, cst, pid, spoke, sockdirs, sock, layers, mounted, wiped, foreign, strayed>>
  BY DEF LookupStep, srvVars, instVars, fsVars, envVars
<1>2. CASE cpc' = [cpc EXCEPT ![c] = "failed"] /\ UNCHANGED <<cmd, db, gone>>
  BY <1>1, <1>2 DEF TypeOK, CliSteps
<1>3. ASSUME NEW id \in Ids, NEW key \in Keys, NEW detach \in BOOLEAN,
             NEW step \in running \cup stopped,
             db[id] # NoRecord,
             db' = [db EXCEPT ![id] = Checked(db[id])],
             UNCHANGED gone,
             cpc' = [cpc EXCEPT ![c] = step],
             cmd' = [cmd EXCEPT ![c] = [op |-> op, key |-> key, detach |-> detach,
                                        info |-> Checked(db[id]), found |-> Checked(db[id])]]
      PROVE  TypeOK'
  <2>1. Checked(db[id]) \in Info
    BY <1>3, InfoKept DEF TypeOK
  <2>2. [op |-> op, key |-> key, detach |-> detach,
         info |-> Checked(db[id]), found |-> Checked(db[id])] \in Cmd
    BY <2>1 DEF Cmd
  <2>3. cmd' \in [Cmds -> Cmd]
    BY <1>3, <2>2 DEF TypeOK
  <2>4. db' \in [Ids -> Info \cup {NoRecord}] /\ cpc' \in [Cmds -> CliSteps]
    BY <1>3, <2>1 DEF TypeOK
  <2>. QED  BY <1>1, <1>3, <2>3, <2>4 DEF TypeOK
<1>. QED  BY <1>2, <1>3 DEF LookupStep

LEMMA CliType ==
    ASSUME TypeOK, Identified, NEW c \in Cmds, CliStep(c)
    PROVE  TypeOK'
<1>. USE DEF cliVars, srvVars, instVars, dbVars, fsVars, envVars
<1>1. CASE Fork(c)
  BY <1>1 DEF Fork, CliGoto, CliFails, TypeOK, CliSteps, ServerSteps
<1>2. CASE WaitForServer(c)
  BY <1>2 DEF WaitForServer, CliGoto, TypeOK, CliSteps
<1>3. CASE Connect(c)
  BY <1>3 DEF Connect, CliGoto, TypeOK, CliSteps
<1>4. CASE SetNs(c)
  <2>1. strayed' \in BOOLEAN
    BY <1>4, Zenon DEF SetNs, TypeOK
  <2>2. cpc' \in [Cmds -> CliSteps] /\ cmd' = cmd
    BY <1>4 DEF SetNs, CliGoto, CliFails, TypeOK, CliSteps
  <2>. QED  BY <1>4, <2>1, <2>2 DEF SetNs, TypeOK
<1>5. CASE StopGet(c)
  <2>1. UNCHANGED <<sem, spc, cst, pid, spoke, sockdirs, sock, layers, mounted, wiped, foreign, strayed>>
    BY <1>5 DEF StopGet
  <2>2. AfterStop(c) \in CliSteps
    BY DEF AfterStop, CliSteps
  <2>3. CASE CliGoto(c, AfterStop(c)) /\ UNCHANGED dbVars
    BY <2>1, <2>2, <2>3 DEF CliGoto, TypeOK
  <2>4. ASSUME NEW id \in Matching(cmd[c].key),
               Put(id, Checked(db[id])),
               \/ /\ cmd' = [cmd EXCEPT ![c].found = Checked(db[id])]
                  /\ cpc' = [cpc EXCEPT ![c] = "term"]
               \/ CliGoto(c, AfterStop(c))
        PROVE  TypeOK'
    <3>1. id \in Ids /\ Checked(db[id]) \in Info
      BY <2>4, InfoKept DEF Matching, TypeOK
    <3>2. db' \in [Ids -> Info \cup {NoRecord}] /\ gone' = gone
      BY <2>4, <3>1 DEF Put, TypeOK
    <3>3. [cmd[c] EXCEPT !.found = Checked(db[id])] \in Cmd
      BY <3>1 DEF TypeOK, Cmd
    <3>4. cmd' \in [Cmds -> Cmd] /\ cpc' \in [Cmds -> CliSteps]
      BY <2>2, <2>4, <3>3 DEF CliGoto, TypeOK, CliSteps
    <3>. QED  BY <2>1, <3>2, <3>4 DEF TypeOK
  <2>. QED  BY <1>5, <2>3, <2>4 DEF StopGet
<1>6. CASE SigTerm(c)
  <2>1. strayed' \in BOOLEAN
    BY <1>6, Zenon DEF SigTerm, TypeOK
  <2>2. cpc' \in [Cmds -> CliSteps] /\ cmd' = cmd
    BY <1>6 DEF SigTerm, CliGoto, AfterStop, TypeOK, CliSteps
  <2>. QED  BY <1>6, <2>1, <2>2 DEF SigTerm, TypeOK
<1>7. CASE SigKill(c)
  <2>1. strayed' \in BOOLEAN
    BY <1>7, Zenon DEF SigKill, TypeOK
  <2>2. cpc' \in [Cmds -> CliSteps] /\ cmd' = cmd
    BY <1>7 DEF SigKill, CliGoto, AfterStop, TypeOK, CliSteps
  <2>3. cst' \in [Cmds -> InstanceStates] /\ foreign' \subseteq Pids
    BY <1>7 DEF SigKill, Corpse, TypeOK, InstanceStates
  <2>. QED  BY <1>7, <2>1, <2>2, <2>3 DEF SigKill, TypeOK
<1>8. CASE RemoveSockdir(c)
  BY <1>8 DEF RemoveSockdir, CliGoto, CliFails, TypeOK, CliSteps
<1>9. CASE RemoveLayer(c)
  <2>1. IdOf(c) \in Ids
    BY <1>9 DEF RemoveLayer, Identified
  <2>. QED  BY <1>9, <2>1 DEF RemoveLayer, CliGoto, CliFails, TypeOK, CliSteps
<1>10. CASE DeleteRecord(c)
  <2>1. IdOf(c) \in Ids
    BY <1>10 DEF DeleteRecord, Identified
  <2>. QED  BY <1>10, <2>1 DEF DeleteRecord, CliGoto, TypeOK, CliSteps
<1>. QED  BY <1>1, <1>2, <1>3, <1>4, <1>5, <1>6, <1>7, <1>8, <1>9, <1>10 DEF CliStep

LEMMA UserType ==
    ASSUME TypeOK, NEW c \in Cmds, UserStep(c)
    PROVE  TypeOK'
<1>1. CASE Run(c)
  <2>1. UNCHANGED <<sem, spc, cst, pid, spoke, db, gone, foreign, strayed>>
    BY <1>1 DEF Run, srvVars, instVars, dbVars, envVars
  <2>2. PICK name \in Names \cup {NoName}, detach \in Detach :
          \/ CliFails(c) /\ UNCHANGED fsVars
          \/ \E id \in Ids :
               /\ cmd' = [cmd EXCEPT ![c] = [op |-> "run", key |-> NoName, detach |-> detach,
                                             info |-> [Unset EXCEPT !.id = id, !.name = name],
                                             found |-> Unset]]
               /\ cpc' = [cpc EXCEPT ![c] = "fork"]
               /\ sockdirs' = sockdirs \cup {id}
               /\ layers' = layers \cup {id}
               /\ UNCHANGED <<sock, mounted, wiped>>
    BY <1>1 DEF Run
  <2>3. CASE CliFails(c) /\ UNCHANGED fsVars
    BY <2>1, <2>3 DEF CliFails, CliGoto, fsVars, TypeOK, CliSteps
  <2>4. CASE ~(CliFails(c) /\ UNCHANGED fsVars)
    <3>1. PICK id \in Ids :
               /\ cmd' = [cmd EXCEPT ![c] = [op |-> "run", key |-> NoName, detach |-> detach,
                                             info |-> [Unset EXCEPT !.id = id, !.name = name],
                                             found |-> Unset]]
               /\ cpc' = [cpc EXCEPT ![c] = "fork"]
               /\ sockdirs' = sockdirs \cup {id}
               /\ layers' = layers \cup {id}
               /\ UNCHANGED <<sock, mounted, wiped>>
      BY <2>2, <2>4
    <3>2. detach \in BOOLEAN
      BY LifecycleAssumption
    <3>3. [Unset EXCEPT !.id = id, !.name = name] \in Info
      BY UnsetIsInfo DEF Info
    <3>4. [op |-> "run", key |-> NoName, detach |-> detach,
           info |-> [Unset EXCEPT !.id = id, !.name = name], found |-> Unset] \in Cmd
      BY <3>2, <3>3, UnsetIsInfo DEF Cmd, CliOps
    <3>5. cmd' \in [Cmds -> Cmd]
      BY <3>1, <3>4 DEF TypeOK
    <3>. QED  BY <2>1, <3>1, <3>5 DEF TypeOK, CliSteps
  <2>. QED  BY <2>3, <2>4
<1>2. CASE Start(c)
  BY <1>2, StartLooksUp, LookupType DEF CliOps, CliSteps
<1>3. CASE Stop(c)
  BY <1>3, StopLooksUp, LookupType DEF CliOps, CliSteps
<1>4. CASE Remove(c)
  BY <1>4, RemoveLooksUp, LookupType DEF CliOps, CliSteps
<1>5. CASE Attach(c)
  BY <1>5, AttachLooksUp, LookupType DEF CliOps, CliSteps
<1>6. CASE Exec(c)
  BY <1>6, ExecLooksUp, LookupType DEF CliOps, CliSteps
<1>7. CASE ClientEnds(c)
  BY <1>7 DEF ClientEnds, CliGoto, TypeOK, CliSteps, srvVars, instVars, dbVars, fsVars, envVars
<1>. QED  BY <1>1, <1>2, <1>3, <1>4, <1>5, <1>6, <1>7 DEF UserStep

\* The steps of a server, in its order.
LEMMA ServerType ==
    ASSUME TypeOK, Identified, NEW s \in Cmds, ServerStep(s) \/ EnvStep(s)
    PROVE  TypeOK'
<1>. USE DEF cliVars, srvVars, instVars, dbVars, fsVars, envVars
<1>1. CASE SrvClone(s)
  BY <1>1 DEF SrvClone, SrvGoto, FreePids, TypeOK, ServerSteps, InstanceStates
<1>2. CASE SrvHeader(s)
  BY <1>2 DEF SrvHeader, SrvGoto, TypeOK, ServerSteps
<1>3. CASE SrvRecord(s)
  <2>1. cmd[s].info \in Info /\ pid[s] \in Pids \cup {NoPid}
    BY DEF TypeOK, Cmd
  <2>2. Running(cmd[s].info, pid[s]) \in Info
    BY <2>1, InfoKept
  <2>. QED  BY <1>3, <2>2 DEF SrvRecord, Put, SrvGoto, TypeOK, ServerSteps
<1>4. CASE SrvListen(s)
  BY <1>4 DEF SrvListen, SrvGoto, TypeOK, ServerSteps
<1>5. CASE SrvPost(s)
  BY <1>5 DEF SrvPost, SrvGoto, TypeOK, ServerSteps
<1>6. CASE SrvRelayEnds(s)
  BY <1>6 DEF SrvRelayEnds, SrvGoto, TypeOK, ServerSteps
<1>7. CASE SrvReap(s)
  BY <1>7 DEF SrvReap, SrvGoto, TypeOK, ServerSteps, InstanceStates
<1>8. CASE SrvUmount(s)
  BY <1>8 DEF SrvUmount, SrvGoto, TypeOK, ServerSteps
<1>9. CASE SrvUmountVolume(s)
  <2>1. IdOf(s) \in Ids
    BY <1>9 DEF SrvUmountVolume, Identified
  <2>2. db[IdOf(s)] # NoRecord => Checked(db[IdOf(s)]) \in Info
    BY <2>1, InfoKept DEF TypeOK
  <2>. QED  BY <1>9, <2>2 DEF SrvUmountVolume, SrvDbStep, Put, SrvGoto, TypeOK, ServerSteps
<1>10. CASE SrvMark(s)
  <2>1. IdOf(s) \in Ids
    BY <1>10 DEF SrvMark, Identified
  <2>2. db[IdOf(s)] # NoRecord => Stopped(db[IdOf(s)]) \in Info
    BY <2>1, InfoKept DEF TypeOK
  <2>. QED  BY <1>10, <2>2 DEF SrvMark, SrvDbStep, Put, SrvGoto, TypeOK, ServerSteps
<1>11. CASE ServerKilled(s)
  BY <1>11 DEF ServerKilled, SrvGoto, TypeOK, ServerSteps
<1>12. CASE InstanceSpeaks(s)
  <2>1. spoke' \in [Cmds -> BOOLEAN]
    BY <1>12 DEF InstanceSpeaks, TypeOK
  <2>. QED  BY <1>12, <2>1 DEF InstanceSpeaks, TypeOK
<1>13. CASE InstanceExits(s)
  BY <1>13 DEF InstanceExits, InstGoto, TypeOK, InstanceStates
<1>. QED
  BY <1>1, <1>2, <1>3, <1>4, <1>5, <1>6, <1>7, <1>8, <1>9, <1>10, <1>11, <1>12, <1>13
  DEF ServerStep, ServerWork, EnvStep

LEMMA InstanceType ==
    ASSUME TypeOK, NEW s \in Cmds, InstanceStep(s)
    PROVE  TypeOK'
<1>. USE DEF cliVars, srvVars, instVars, dbVars, fsVars, envVars
<1>1. CASE InstanceSetupFails(s)
  BY <1>1 DEF InstanceSetupFails, Corpse, InstGoto, TypeOK, InstanceStates
<1>2. CASE InstanceMounts(s)
  BY <1>2 DEF InstanceMounts, InstGoto, TypeOK, InstanceStates
<1>3. CASE OrphanReaped(s)
  BY <1>3 DEF OrphanReaped, InstGoto, TypeOK, InstanceStates
<1>. QED  BY <1>1, <1>2, <1>3 DEF InstanceStep

LEMMA TypeStep ==
    ASSUME TypeOK, CommandsIdentified, [Next]_vars
    PROVE  TypeOK'
<1>1. CASE ForeignStarts
  BY <1>1 DEF ForeignStarts, FreePids, TypeOK, cliVars, srvVars, instVars, dbVars, fsVars
<1>2. CASE UNCHANGED vars
  BY <1>2 DEF vars, cliVars, srvVars, instVars, dbVars, fsVars, envVars, TypeOK
<1>3. Identified
  BY DEF CommandsIdentified, Identified
<1>. QED  BY <1>1, <1>2, <1>3, CliType, UserType, ServerType, InstanceType DEF Next

LEMMA TypeInit == ASSUME Init PROVE TypeOK
<1>1. NoCmd \in Cmd
  BY UnsetIsInfo DEF NoCmd, Cmd
<1>2. \A id \in Ids : Stopped([Unset EXCEPT !.id = id]) \in Info
  <2>. TAKE id \in Ids
  <2>1. [Unset EXCEPT !.id = id] \in Info
    BY UnsetIsInfo DEF Info
  <2>. QED  BY <2>1, InfoKept
<1>3. db \in [Ids -> Info \cup {NoRecord}]
  BY <1>2 DEF Init
<1>4. spoke \in [Cmds -> BOOLEAN] /\ strayed \in BOOLEAN
  BY DEF Init
<1>. QED
  BY <1>1, <1>3, <1>4, LifecycleAssumption DEF Init, TypeOK, CliSteps, ServerSteps, InstanceStates

-----------------------------------------------------------------------------
(* The registry and the commands that use it *)

\* A command forks one server, and only run and start do; run goes through
\* its own steps and no others.
ForksOnce ==
    \A c \in Cmds :
        /\ cpc[c] \in {"idle", "fork"} => spc[c] = "none"
        /\ spc[c] # "none" => cmd[c].op \in {"run", "start"}
        /\ cpc[c] = "fork" => cmd[c].op \in {"run", "start"}
        /\ cpc[c] = "stop_get" => cmd[c].op = "rm"
        /\ cmd[c].op = "run" => cpc[c] \in {"fork", "wait", "connect", "client", "done", "failed"}

\* A record is filed under its own id, and a removed id has none.
RecordsKeyed ==
    \A id \in Ids :
        /\ db[id] # NoRecord => db[id].id = id
        /\ id \in gone => db[id] = NoRecord

\* run has created the container and its server has yet to insert the record.
Unrecorded(c) ==
    cmd[c].op = "run" /\ (cpc[c] = "fork" \/ spc[c] \in {"clone", "header", "record"})

\* Until then the id is in nobody else's hands and was never in the registry.
RunsFresh ==
    \A c \in Cmds : Unrecorded(c) =>
        /\ db[IdOf(c)] = NoRecord /\ IdOf(c) \notin gone
        /\ \A s \in Cmds : s # c => IdOf(s) # IdOf(c)

\* An id that is or was in the registry belongs to a run of this time or an
\* earlier one, so gen_id does not return it again.
RecordsKnown ==
    \A id \in Ids :
        db[id] # NoRecord \/ id \in gone =>
            id \in Existing \/ \E s \in Cmds : cmd[s].op = "run" /\ IdOf(s) = id

\* However old the record a command holds is, its name is the current one.
NamesKept ==
    \A c \in Cmds :
        cmd[c].op # "none" /\ db[IdOf(c)] # NoRecord => cmd[c].info.name = db[IdOf(c)].name

Serving == {"relay", "reap", "umount", "umount_volume", "mark"}

\* The semaphore is set by a server that serves, and a run's server serves
\* after its container was recorded.
ReleasedServes ==
    \A c \in Cmds :
        /\ sem[c] = 0 => spc[c] \in Serving \cup {"exited"}
        /\ cmd[c].op = "run" /\ (sem[c] = 0 \/ spc[c] \in {"listen", "post"} \cup Serving)
             => db[IdOf(c)] # NoRecord \/ IdOf(c) \in gone
        /\ cmd[c].op = "run" /\ cpc[c] \in {"connect", "client", "done"} => sem[c] = 0

RegInv ==
    /\ CommandsIdentified
    /\ ForksOnce
    /\ RecordsKeyed
    /\ RunsFresh
    /\ RecordsKnown
    /\ NamesKept
    /\ ReleasedServes

LEMMA RegInit == ASSUME Init PROVE RegInv
<1>1. \A c \in Cmds : cmd[c].op = "none" /\ cpc[c] = "idle" /\ spc[c] = "none" /\ sem[c] = 1
  BY DEF Init, NoCmd
<1>2. \A id \in Ids : db[id] # NoRecord => id \in Existing /\ db[id] = Stopped([Unset EXCEPT !.id = id])
  BY DEF Init
<1>3. \A id \in Ids : Stopped([Unset EXCEPT !.id = id]).id = id
  BY DEF Stopped, Unset
<1>4. gone = {}
  BY DEF Init
<1>5. RecordsKeyed /\ RecordsKnown
  BY <1>2, <1>3, <1>4 DEF RecordsKeyed, RecordsKnown
<1>. QED
  BY <1>1, <1>5 DEF RegInv, CommandsIdentified, ForksOnce, RunsFresh, Unrecorded, NamesKept,
                    ReleasedServes

\* Steps that change neither what a command holds nor the registry.
LEMMA RegQuiet ==
    ASSUME TypeOK, RegInv, NEW c \in Cmds,
           \/ Fork(c) \/ WaitForServer(c) \/ Connect(c) \/ SetNs(c) \/ SigTerm(c) \/ SigKill(c)
           \/ RemoveSockdir(c) \/ RemoveLayer(c) \/ ClientEnds(c)
           \/ SrvClone(c) \/ SrvHeader(c) \/ SrvListen(c) \/ SrvPost(c) \/ SrvRelayEnds(c)
           \/ SrvReap(c) \/ SrvUmount(c) \/ ServerKilled(c)
    PROVE  RegInv' /\ UNCHANGED <<db, gone>>
<1>. USE DEF cliVars, srvVars, instVars, dbVars, fsVars, envVars, AfterStop
<1>1. cmd' = cmd /\ db' = db /\ gone' = gone
  BY DEF Fork, WaitForServer, Connect, SetNs, SigTerm, SigKill, RemoveSockdir, RemoveLayer,
         ClientEnds, SrvClone, SrvHeader, SrvListen, SrvPost, SrvRelayEnds, SrvReap, SrvUmount,
         ServerKilled, CliGoto, CliFails
<1>2. RecordsKeyed' /\ RecordsKnown' /\ NamesKept'
  BY <1>1 DEF RegInv, RecordsKeyed, RecordsKnown, NamesKept, IdOf
<1>3. \A s \in Cmds : IdOf(s)' = IdOf(s)
  BY <1>1 DEF IdOf
<1>. USE DEF TypeOK, RegInv, CommandsIdentified, ForksOnce, RunsFresh, Unrecorded, ReleasedServes, Serving
<1>4. CASE Fork(c)
  BY <1>1, <1>2, <1>3, <1>4 DEF Fork, CliGoto, CliFails
<1>5. CASE WaitForServer(c)
  BY <1>1, <1>2, <1>3, <1>5 DEF WaitForServer, CliGoto
<1>6. CASE Connect(c)
  BY <1>1, <1>2, <1>3, <1>6 DEF Connect, CliGoto
<1>7. CASE SetNs(c)
  BY <1>1, <1>2, <1>3, <1>7 DEF SetNs, CliGoto, CliFails
<1>8. CASE SigTerm(c)
  BY <1>1, <1>2, <1>3, <1>8 DEF SigTerm, CliGoto
<1>9. CASE SigKill(c)
  BY <1>1, <1>2, <1>3, <1>9 DEF SigKill, CliGoto
<1>10. CASE RemoveSockdir(c)
  BY <1>1, <1>2, <1>3, <1>10 DEF RemoveSockdir, CliGoto, CliFails
<1>11. CASE RemoveLayer(c)
  BY <1>1, <1>2, <1>3, <1>11 DEF RemoveLayer, CliGoto, CliFails
<1>12. CASE ClientEnds(c)
  BY <1>1, <1>2, <1>3, <1>12 DEF ClientEnds, CliGoto
<1>13. CASE SrvClone(c)
  BY <1>1, <1>2, <1>3, <1>13 DEF SrvClone, SrvGoto
<1>14. CASE SrvHeader(c)
  BY <1>1, <1>2, <1>3, <1>14 DEF SrvHeader, SrvGoto
<1>15. CASE SrvListen(c)
  BY <1>1, <1>2, <1>3, <1>15 DEF SrvListen, SrvGoto
<1>16. CASE SrvPost(c)
  BY <1>1, <1>2, <1>3, <1>16 DEF SrvPost, SrvGoto
<1>17. CASE SrvRelayEnds(c)
  BY <1>1, <1>2, <1>3, <1>17 DEF SrvRelayEnds, SrvGoto
<1>18. CASE SrvReap(c)
  BY <1>1, <1>2, <1>3, <1>18 DEF SrvReap, SrvGoto
<1>19. CASE SrvUmount(c)
  BY <1>1, <1>2, <1>3, <1>19 DEF SrvUmount, SrvGoto
<1>20. CASE ServerKilled(c)
  BY <1>1, <1>2, <1>3, <1>20 DEF ServerKilled, SrvGoto
<1>. QED
  BY <1>1, <1>4, <1>5, <1>6, <1>7, <1>8, <1>9, <1>10, <1>11, <1>12, <1>13, <1>14, <1>15, <1>16,
     <1>17, <1>18, <1>19, <1>20

\* The registry of ContainerStore holds the same records.
LEMMA StoreInfo == Store!Info = Info
  BY DEF Store!Info, Info, Store!container_status_t, container_status_t,
         Store!CONTAINER_RUNNING, CONTAINER_RUNNING, Store!CONTAINER_STOPED, CONTAINER_STOPED

\* Writing back a record that was converted replaces it.
LEMMA PutUpdates ==
    ASSUME TypeOK, RecordsKeyed, NEW id \in Ids, db[id] # NoRecord, NEW info \in Info,
           info.id = id, info.name = db[id].name, Put(id, info)
    PROVE  Store!Update(id)
  BY StoreInfo DEF Put, Store!Update, Store!Put

\* Replacing a record changes neither which ids are registered nor, for any
\* of them, the id and the name.
LEMMA UpdateKeeps ==
    ASSUME TypeOK, RecordsKeyed, NEW id \in Ids, Store!Update(id)
    PROVE  /\ gone' = gone
           /\ \A i \in Ids : /\ (db'[i] = NoRecord) <=> (db[i] = NoRecord)
                             /\ db[i] # NoRecord => db'[i].id = i /\ db'[i].name = db[i].name
           /\ RecordsKeyed'
<1>1. PICK info \in Info : /\ info.id = id /\ info.name = db[id].name
                           /\ db' = [db EXCEPT ![id] = info]
  BY StoreInfo DEF Store!Update, Store!Put
<1>2. info # NoRecord
  BY LifecycleAssumption
<1>3. gone' = gone /\ db[id] # NoRecord
  BY DEF Store!Update
<1>4. \A i \in Ids : /\ (db'[i] = NoRecord) <=> (db[i] = NoRecord)
                     /\ db[i] # NoRecord => db'[i].id = i /\ db'[i].name = db[i].name
  BY <1>1, <1>2, <1>3 DEF TypeOK, RecordsKeyed
<1>. QED  BY <1>3, <1>4 DEF RecordsKeyed

\* The servers' registry calls at their end, and the lookup of rm -f.
LEMMA RegServerEnds ==
    ASSUME TypeOK, RegInv, NEW s \in Cmds, SrvUmountVolume(s) \/ SrvMark(s)
    PROVE  RegInv' /\ (Store!Update(IdOf(s)) \/ UNCHANGED <<db, gone>>)
<1>1. IdOf(s) \in Ids
  BY DEF SrvUmountVolume, SrvMark, RegInv, CommandsIdentified
<1>2. /\ cmd' = cmd /\ cpc' = cpc /\ sem' = sem
      /\ spc[s] \in {"umount_volume", "mark"}
      /\ spc' = [spc EXCEPT ![s] = "mark"] \/ spc' = [spc EXCEPT ![s] = "exited"]
  BY DEF SrvUmountVolume, SrvMark, SrvDbStep, SrvGoto, cliVars
<1>3. Store!Update(IdOf(s)) \/ UNCHANGED <<db, gone>>
  <2>1. CASE db[IdOf(s)] = NoRecord
    BY <2>1 DEF SrvUmountVolume, SrvMark, SrvDbStep, dbVars
  <2>2. CASE db[IdOf(s)] # NoRecord
    <3>1. db[IdOf(s)] \in Info /\ db[IdOf(s)].id = IdOf(s)
      BY <1>1, <2>2 DEF TypeOK, RegInv, RecordsKeyed
    <3>2. PICK info \in {Checked(db[IdOf(s)]), Stopped(db[IdOf(s)])} : Put(IdOf(s), info)
      BY <2>2 DEF SrvUmountVolume, SrvMark, SrvDbStep
    <3>. QED  BY <1>1, <2>2, <3>1, <3>2, InfoKept, PutUpdates DEF RegInv
  <2>. QED  BY <2>1, <2>2
<1>4. /\ gone' = gone
      /\ \A i \in Ids : /\ (db'[i] = NoRecord) <=> (db[i] = NoRecord)
                        /\ db[i] # NoRecord => db'[i].id = i /\ db'[i].name = db[i].name
      /\ RecordsKeyed'
  BY <1>1, <1>3, UpdateKeeps DEF RegInv, RecordsKeyed
<1>5. \A c \in Cmds : IdOf(c)' = IdOf(c)
  BY <1>2 DEF IdOf
<1>6. RecordsKnown' /\ NamesKept'
  BY <1>2, <1>4, <1>5 DEF RegInv, RecordsKnown, NamesKept, CommandsIdentified
<1>7. CommandsIdentified' /\ ForksOnce'
  BY <1>2, <1>5 DEF RegInv, CommandsIdentified, ForksOnce, TypeOK
<1>8. RunsFresh'
  BY <1>2, <1>4, <1>5 DEF RegInv, CommandsIdentified, RunsFresh, Unrecorded, TypeOK
<1>9. ReleasedServes'
  BY <1>2, <1>4, <1>5 DEF RegInv, CommandsIdentified, ReleasedServes, Serving, TypeOK
<1>. QED  BY <1>3, <1>4, <1>6, <1>7, <1>8, <1>9 DEF RegInv

\* callback(childPid): the record of a run is inserted, that of a start is
\* replaced.
LEMMA RegRecord ==
    ASSUME TypeOK, RegInv, NEW s \in Cmds, SrvRecord(s)
    PROVE  /\ RegInv'
           /\ Store!Insert(IdOf(s)) \/ Store!Update(IdOf(s)) \/ UNCHANGED <<db, gone>>
<1>1. /\ IdOf(s) \in Ids /\ cmd[s].op \in {"run", "start"}
      /\ spc[s] = "record" /\ spc' = [spc EXCEPT ![s] = "listen"]
      /\ cmd' = cmd /\ cpc' = cpc /\ sem' = sem /\ gone' = gone
  BY DEF SrvRecord, SrvGoto, cliVars, Put, dbVars, RegInv, CommandsIdentified, ForksOnce
<1>2. \A c \in Cmds : IdOf(c)' = IdOf(c)
  BY <1>1 DEF IdOf
<1>3. cpc[s] # "fork"
  BY <1>1 DEF RegInv, ForksOnce
<1>4. CommandsIdentified' /\ ForksOnce'
  BY <1>1, <1>2 DEF RegInv, CommandsIdentified, ForksOnce, TypeOK
<1>. DEFINE info == Running(cmd[s].info, pid[s])
<1>5. info \in Info /\ info.id = IdOf(s) /\ info.name = cmd[s].info.name
  <2>1. cmd[s].info \in Info /\ pid[s] \in Pids \cup {NoPid}
    BY DEF TypeOK, Cmd
  <2>. QED  BY <2>1, InfoKept DEF IdOf
<1>6. CASE cmd[s].op = "run"
  <2>1. db' = [db EXCEPT ![IdOf(s)] = info]
    BY <1>6 DEF SrvRecord, Put
  <2>2. /\ db[IdOf(s)] = NoRecord /\ IdOf(s) \notin gone
        /\ \A c \in Cmds : c # s => IdOf(c) # IdOf(s)
    BY <1>1, <1>6 DEF RegInv, RunsFresh, Unrecorded
  <2>3. Store!Insert(IdOf(s))
    BY <1>1, <1>5, <2>1, <2>2, StoreInfo DEF Store!Insert, Store!Put
  <2>4. info # NoRecord
    BY <1>5, LifecycleAssumption
  <2>. HIDE DEF info
  <2>5. /\ db'[IdOf(s)] = info
        /\ \A i \in Ids : i # IdOf(s) => db'[i] = db[i]
    BY <1>1, <2>1 DEF TypeOK
  <2>6. RecordsKeyed'
    BY <1>1, <1>5, <2>2, <2>5 DEF RegInv, RecordsKeyed
  <2>7. RecordsKnown'
    BY <1>1, <1>2, <1>6, <2>5 DEF RegInv, RecordsKnown
  <2>8. NamesKept'
    BY <1>1, <1>2, <1>5, <2>2, <2>5 DEF RegInv, NamesKept, CommandsIdentified
  <2>9. RunsFresh'
    BY <1>1, <1>2, <1>3, <2>2, <2>5 DEF RegInv, RunsFresh, Unrecorded, CommandsIdentified, TypeOK
  <2>10. ReleasedServes'
    BY <1>1, <1>2, <2>2, <2>4, <2>5 DEF RegInv, ReleasedServes, Serving, CommandsIdentified, TypeOK
  <2>. QED  BY <1>4, <2>3, <2>6, <2>7, <2>8, <2>9, <2>10 DEF RegInv
<1>7. CASE cmd[s].op = "start"
  <2>1. Store!Update(IdOf(s)) \/ UNCHANGED <<db, gone>>
    <3>1. CASE db[IdOf(s)] = NoRecord
      BY <1>7, <3>1 DEF SrvRecord, dbVars
    <3>2. CASE db[IdOf(s)] # NoRecord
      <4>1. Put(IdOf(s), info)
        BY <3>2 DEF SrvRecord
      <4>2. info.name = db[IdOf(s)].name
        BY <1>5, <1>7, <3>2 DEF RegInv, NamesKept
      <4>. QED  BY <1>1, <1>5, <3>2, <4>1, <4>2, PutUpdates DEF RegInv
    <3>. QED  BY <3>1, <3>2
  <2>2. /\ \A i \in Ids : /\ (db'[i] = NoRecord) <=> (db[i] = NoRecord)
                          /\ db[i] # NoRecord => db'[i].id = i /\ db'[i].name = db[i].name
        /\ RecordsKeyed'
    BY <1>1, <2>1, UpdateKeeps DEF RegInv, RecordsKeyed
  <2>3. RecordsKnown' /\ NamesKept'
    BY <1>1, <1>2, <2>2 DEF RegInv, RecordsKnown, NamesKept, CommandsIdentified
  <2>4. RunsFresh'
    BY <1>1, <1>2, <2>2 DEF RegInv, CommandsIdentified, RunsFresh, Unrecorded, TypeOK
  <2>5. ReleasedServes'
    BY <1>1, <1>2, <1>7, <2>2 DEF RegInv, CommandsIdentified, ReleasedServes, Serving, TypeOK
  <2>. QED  BY <1>4, <2>1, <2>2, <2>3, <2>4, <2>5 DEF RegInv
<1>. QED  BY <1>1, <1>6, <1>7

\* delete_by_id at the end of rm.
LEMMA RegDelete ==
    ASSUME TypeOK, RegInv, NEW c \in Cmds, DeleteRecord(c)
    PROVE  RegInv' /\ (Store!Delete(IdOf(c)) \/ UNCHANGED <<db, gone>>)
<1>1. /\ cmd' = cmd /\ spc' = spc /\ sem' = sem /\ cpc[c] = "delete"
      /\ \E end \in {"done", "failed"} : cpc' = [cpc EXCEPT ![c] = end]
  BY DEF DeleteRecord, CliGoto, srvVars
<1>2. IdOf(c) \in Ids /\ cmd[c].op # "run" /\ cmd[c].op # "none"
  BY <1>1 DEF RegInv, CommandsIdentified, ForksOnce
<1>3. \A s \in Cmds : IdOf(s)' = IdOf(s)
  BY <1>1 DEF IdOf
<1>4. CommandsIdentified' /\ ForksOnce'
  BY <1>1, <1>2, <1>3 DEF RegInv, CommandsIdentified, ForksOnce, TypeOK
<1>5. CASE db[IdOf(c)] # NoRecord
  <2>1. db' = [db EXCEPT ![IdOf(c)] = NoRecord] /\ gone' = gone \cup {IdOf(c)}
    BY <1>5 DEF DeleteRecord
  <2>2. Store!Delete(IdOf(c))
    BY <1>5, <2>1 DEF Store!Delete, Store!Put
  <2>3. /\ db'[IdOf(c)] = NoRecord
        /\ \A i \in Ids : i # IdOf(c) => db'[i] = db[i]
        /\ \A i : i \in gone' <=> i \in gone \/ i = IdOf(c)
    BY <1>2, <2>1 DEF TypeOK
  <2>4. RecordsKeyed'
    BY <2>3 DEF RegInv, RecordsKeyed
  <2>5. RecordsKnown'
    BY <1>1, <1>2, <1>3, <1>5, <2>3 DEF RegInv, RecordsKnown
  <2>6. NamesKept'
    BY <1>1, <1>3, <2>3 DEF RegInv, NamesKept, CommandsIdentified
  <2>7. RunsFresh'
    <3>1. ASSUME NEW a \in Cmds, Unrecorded(a)'
          PROVE  Unrecorded(a) /\ a # c /\ IdOf(a) \in Ids
      BY <1>1, <1>2, <3>1 DEF Unrecorded, RegInv, CommandsIdentified, TypeOK
    <3>. QED  BY <1>3, <2>3, <3>1 DEF RegInv, RunsFresh
  <2>8. ReleasedServes'
    BY <1>1, <1>2, <1>3, <2>3 DEF RegInv, ReleasedServes, CommandsIdentified, TypeOK
  <2>. QED  BY <1>4, <2>2, <2>4, <2>5, <2>6, <2>7, <2>8 DEF RegInv
<1>6. CASE db[IdOf(c)] = NoRecord
  <2>1. db' = db /\ gone' = gone
    BY <1>6 DEF DeleteRecord, dbVars
  <2>2. RecordsKeyed' /\ RecordsKnown' /\ NamesKept'
    BY <1>1, <1>3, <2>1 DEF RegInv, RecordsKeyed, RecordsKnown, NamesKept
  <2>3. RunsFresh'
    BY <1>1, <1>2, <1>3, <2>1 DEF RegInv, RunsFresh, Unrecorded, TypeOK
  <2>4. ReleasedServes'
    BY <1>1, <1>2, <1>3, <2>1 DEF RegInv, ReleasedServes, TypeOK
  <2>. QED  BY <1>4, <2>1, <2>2, <2>3, <2>4 DEF RegInv
<1>. QED  BY <1>5, <1>6

\* The container that run creates has an id nobody has seen.
LEMMA RegRun ==
    ASSUME TypeOK, RegInv, NEW c \in Cmds, Run(c)
    PROVE  RegInv' /\ UNCHANGED <<db, gone>>
<1>1. /\ spc' = spc /\ sem' = sem /\ db' = db /\ gone' = gone /\ cpc[c] = "idle"
      /\ RecordsKeyed'
  BY DEF Run, Given, srvVars, dbVars, RegInv, RecordsKeyed
<1>2. cmd[c].op = "none" /\ spc[c] = "none"
  BY <1>1 DEF RegInv, CommandsIdentified, ForksOnce
<1>3. CASE CliFails(c)
  <2>1. cmd' = cmd /\ cpc' = [cpc EXCEPT ![c] = "failed"]
    BY <1>3 DEF CliFails, CliGoto
  <2>2. \A s \in Cmds : IdOf(s)' = IdOf(s)
    BY <2>1 DEF IdOf
  <2>. QED
    BY <1>1, <1>2, <2>1, <2>2 DEF RegInv, CommandsIdentified, ForksOnce, RunsFresh, Unrecorded,
                                  RecordsKnown, NamesKept, ReleasedServes, TypeOK
<1>4. ASSUME NEW name \in Names \cup {NoName}, NEW detach \in Detach,
             NEW id \in Ids \ (Existing \cup {IdOf(s) : s \in Cmds}),
             cmd' = [cmd EXCEPT ![c] = [op |-> "run", key |-> NoName, detach |-> detach,
                                        info |-> [Unset EXCEPT !.id = id, !.name = name],
                                        found |-> Unset]],
             cpc' = [cpc EXCEPT ![c] = "fork"]
      PROVE  RegInv'
  <2>1. cmd'[c].op = "run" /\ IdOf(c)' = id
    BY <1>4, UnsetIsInfo DEF TypeOK, IdOf, Unset
  <2>2. \A s \in Cmds : s # c => cmd'[s] = cmd[s] /\ IdOf(s)' = IdOf(s)
    BY <1>4 DEF TypeOK, IdOf
  <2>3. db[id] = NoRecord /\ id \notin gone /\ \A s \in Cmds : IdOf(s) # id
    BY DEF RegInv, RecordsKnown
  <2>4. cpc'[c] = "fork" /\ \A s \in Cmds : s # c => cpc'[s] = cpc[s]
    BY <1>4 DEF TypeOK
  <2>5. sem[c] # 0
    BY <1>2 DEF RegInv, ReleasedServes, Serving
  <2>6. CommandsIdentified' /\ ForksOnce'
    BY <1>1, <1>2, <2>1, <2>2, <2>4 DEF RegInv, CommandsIdentified, ForksOnce
  <2>7. RecordsKnown'
    BY <1>1, <1>2, <2>2 DEF RegInv, RecordsKnown
  <2>8. NamesKept'
    BY <1>1, <2>1, <2>2, <2>3 DEF RegInv, NamesKept
  <2>9. RunsFresh'
    BY <1>1, <2>1, <2>2, <2>3, <2>4 DEF RegInv, RunsFresh, Unrecorded
  <2>10. ReleasedServes'
    BY <1>1, <1>2, <2>1, <2>2, <2>4, <2>5 DEF RegInv, ReleasedServes, Serving
  <2>. QED  BY <1>1, <2>6, <2>7, <2>8, <2>9, <2>10 DEF RegInv
<1>. QED  BY <1>1, <1>3, <1>4 DEF Run

\* start, attach, exec, stop and rm hold what they looked up.
LEMMA RegLookup ==
    ASSUME TypeOK, RegInv, NEW c \in Cmds, NEW op \in CliOps \ {"run"},
           NEW running \in SUBSET CliSteps, NEW stopped \in SUBSET CliSteps,
           LookupStep(c, op, running, stopped),
           "idle" \notin running \cup stopped,
           "fork" \in running \cup stopped => op = "start",
           "stop_get" \in running \cup stopped => op = "rm"
    PROVE  RegInv' /\ ((\E id \in Ids : Store!Update(id)) \/ UNCHANGED <<db, gone>>)
<1>1. /\ spc' = spc /\ sem' = sem /\ cpc[c] = "idle"
  BY DEF LookupStep, srvVars
<1>2. cmd[c].op = "none" /\ spc[c] = "none"
  BY <1>1 DEF RegInv, CommandsIdentified, ForksOnce
<1>3. CASE cpc' = [cpc EXCEPT ![c] = "failed"] /\ UNCHANGED <<cmd, db, gone>>
  <2>1. \A s \in Cmds : IdOf(s)' = IdOf(s)
    BY <1>3 DEF IdOf
  <2>. QED
    BY <1>1, <1>2, <1>3, <2>1 DEF RegInv, CommandsIdentified, ForksOnce, RunsFresh, Unrecorded,
                                  RecordsKnown, RecordsKeyed, NamesKept, ReleasedServes, TypeOK
<1>4. ASSUME NEW id \in Ids, NEW key \in Keys, NEW detach \in BOOLEAN,
             NEW step \in running \cup stopped,
             db[id] # NoRecord,
             db' = [db EXCEPT ![id] = Checked(db[id])],
             UNCHANGED gone,
             cpc' = [cpc EXCEPT ![c] = step],
             cmd' = [cmd EXCEPT ![c] = [op |-> op, key |-> key, detach |-> detach,
                                        info |-> Checked(db[id]), found |-> Checked(db[id])]]
      PROVE  RegInv' /\ Store!Update(id)
  <2>1. db[id] \in Info /\ db[id].id = id
    BY <1>4 DEF TypeOK, RegInv, RecordsKeyed
  <2>2. /\ Checked(db[id]) \in Info
        /\ Checked(db[id]).id = id /\ Checked(db[id]).name = db[id].name
    BY <2>1, InfoKept
  <2>3. Store!Update(id)
    BY <1>4, <2>2, PutUpdates DEF RegInv, Put
  <2>4. /\ gone' = gone
        /\ \A i \in Ids : /\ (db'[i] = NoRecord) <=> (db[i] = NoRecord)
                          /\ db[i] # NoRecord => db'[i].id = i /\ db'[i].name = db[i].name
        /\ RecordsKeyed'
    BY <2>3, UpdateKeeps DEF RegInv
  <2>5. cmd'[c].op = op /\ IdOf(c)' = id /\ cmd'[c].info.name = db[id].name
    BY <1>4, <2>2 DEF TypeOK, IdOf
  <2>6. \A s \in Cmds : s # c => cmd'[s] = cmd[s] /\ IdOf(s)' = IdOf(s)
    BY <1>4 DEF TypeOK, IdOf
  <2>7. cpc'[c] = step /\ \A s \in Cmds : s # c => cpc'[s] = cpc[s]
    BY <1>4 DEF TypeOK
  <2>8. op # "run" /\ op # "none"
    BY DEF CliOps
  <2>9. CommandsIdentified' /\ ForksOnce'
    BY <1>1, <1>2, <2>5, <2>6, <2>7, <2>8 DEF RegInv, CommandsIdentified, ForksOnce
  <2>10. RecordsKnown'
    BY <1>2, <2>4, <2>6 DEF RegInv, RecordsKnown
  <2>11. NamesKept'
    BY <1>4, <2>4, <2>5, <2>6 DEF RegInv, NamesKept, CommandsIdentified
  <2>12. RunsFresh'
    BY <1>1, <1>4, <2>4, <2>5, <2>6, <2>7, <2>8 DEF RegInv, RunsFresh, Unrecorded, CommandsIdentified
  <2>13. ReleasedServes'
    BY <1>1, <2>4, <2>5, <2>6, <2>7, <2>8 DEF RegInv, ReleasedServes, CommandsIdentified
  <2>. QED  BY <2>3, <2>4, <2>9, <2>10, <2>11, <2>12, <2>13 DEF RegInv
<1>. QED  BY <1>3, <1>4 DEF LookupStep

\* The second lookup of rm -f.
LEMMA RegStopGet ==
    ASSUME TypeOK, RegInv, NEW c \in Cmds, StopGet(c)
    PROVE  RegInv' /\ ((\E id \in Ids : Store!Update(id)) \/ UNCHANGED <<db, gone>>)
<1>1. spc' = spc /\ sem' = sem /\ cpc[c] = "stop_get"
  BY DEF StopGet, srvVars
<1>2. cmd[c].op = "rm" /\ AfterStop(c) = "remove"
  BY <1>1 DEF RegInv, ForksOnce, AfterStop
<1>3. CASE CliGoto(c, "remove") /\ UNCHANGED dbVars
  <2>1. cmd' = cmd /\ db' = db /\ gone' = gone /\ cpc' = [cpc EXCEPT ![c] = "remove"]
    BY <1>3 DEF CliGoto, dbVars
  <2>2. \A s \in Cmds : IdOf(s)' = IdOf(s)
    BY <2>1 DEF IdOf
  <2>. QED
    BY <1>1, <1>2, <2>1, <2>2 DEF RegInv, CommandsIdentified, ForksOnce, RunsFresh, Unrecorded,
                                  RecordsKnown, RecordsKeyed, NamesKept, ReleasedServes, TypeOK
<1>4. ASSUME NEW id \in Matching(cmd[c].key),
             Put(id, Checked(db[id])),
             \/ /\ cmd' = [cmd EXCEPT ![c].found = Checked(db[id])]
                /\ cpc' = [cpc EXCEPT ![c] = "term"]
             \/ CliGoto(c, "remove")
      PROVE  RegInv' /\ Store!Update(id)
  <2>1. id \in Ids /\ db[id] # NoRecord
    BY DEF Matching
  <2>2. db[id] \in Info /\ db[id].id = id
    BY <2>1 DEF TypeOK, RegInv, RecordsKeyed
  <2>3. /\ Checked(db[id]) \in Info
        /\ Checked(db[id]).id = id /\ Checked(db[id]).name = db[id].name
    BY <2>2, InfoKept
  <2>4. Store!Update(id)
    BY <1>4, <2>1, <2>3, PutUpdates DEF RegInv
  <2>5. /\ gone' = gone
        /\ \A i \in Ids : /\ (db'[i] = NoRecord) <=> (db[i] = NoRecord)
                          /\ db[i] # NoRecord => db'[i].id = i /\ db'[i].name = db[i].name
        /\ RecordsKeyed'
    BY <2>1, <2>4, UpdateKeeps DEF RegInv
  <2>6. /\ cmd'[c].op = "rm"
        /\ cmd'[c].info = cmd[c].info /\ IdOf(c)' = IdOf(c)
    BY <1>2, <1>4, <2>3 DEF TypeOK, Cmd, IdOf, CliGoto
  <2>7. \A s \in Cmds : s # c => cmd'[s] = cmd[s] /\ IdOf(s)' = IdOf(s)
    BY <1>4 DEF TypeOK, IdOf, CliGoto
  <2>8. /\ cpc'[c] \in {"term", "remove"}
        /\ \A s \in Cmds : s # c => cpc'[s] = cpc[s]
    BY <1>4 DEF TypeOK, CliGoto
  <2>9. CommandsIdentified' /\ ForksOnce'
    BY <1>1, <1>2, <2>1, <2>6, <2>7, <2>8 DEF RegInv, CommandsIdentified, ForksOnce
  <2>10. RecordsKnown'
    BY <1>2, <2>5, <2>7 DEF RegInv, RecordsKnown
  <2>11. NamesKept'
    BY <1>2, <2>1, <2>5, <2>6, <2>7 DEF RegInv, NamesKept, CommandsIdentified
  <2>12. RunsFresh'
    BY <1>1, <2>1, <2>5, <2>6, <2>7, <2>8 DEF RegInv, RunsFresh, Unrecorded, CommandsIdentified
  <2>13. ReleasedServes'
    BY <1>1, <2>5, <2>6, <2>7, <2>8 DEF RegInv, ReleasedServes, CommandsIdentified
  <2>. QED  BY <2>4, <2>5, <2>9, <2>10, <2>11, <2>12, <2>13 DEF RegInv
<1>5. \A id \in Matching(cmd[c].key) : id \in Ids
  BY DEF Matching
<1>. QED  BY <1>2, <1>3, <1>4, <1>5 DEF StopGet

\* The steps of the container's process and of other programs.
LEMMA RegStutter ==
    ASSUME RegInv, UNCHANGED <<cmd, cpc, sem, spc, db, gone>>
    PROVE  RegInv'
  BY DEF RegInv, CommandsIdentified, ForksOnce, RecordsKeyed, RunsFresh, Unrecorded, RecordsKnown,
         NamesKept, ReleasedServes, IdOf

\* Every step keeps the invariant and changes the registry as ContainerStore
\* allows.
LEMMA RegStep ==
    ASSUME TypeOK, RegInv, [Next]_vars
    PROVE  RegInv' /\ (Store!Next \/ UNCHANGED <<db, gone>>)
<1>1. ASSUME NEW c \in Cmds, CliStep(c)
      PROVE  RegInv' /\ (Store!Next \/ UNCHANGED <<db, gone>>)
  <2>1. CASE StopGet(c)
    BY <2>1, RegStopGet DEF Store!Next
  <2>2. CASE DeleteRecord(c)
    <3>1. IdOf(c) \in Ids
      BY <2>2 DEF DeleteRecord, RegInv, CommandsIdentified
    <3>. QED  BY <2>2, <3>1, RegDelete DEF Store!Next
  <2>. QED  BY <1>1, <2>1, <2>2, RegQuiet DEF CliStep
<1>2. ASSUME NEW c \in Cmds, UserStep(c)
      PROVE  RegInv' /\ (Store!Next \/ UNCHANGED <<db, gone>>)
  <2>1. CASE Start(c)
    <3>1. LookupStep(c, "start", {"failed"}, {"fork"})
      BY <2>1, StartLooksUp
    <3>. QED  BY <3>1, RegLookup DEF CliOps, CliSteps, Store!Next
  <2>2. CASE Stop(c)
    <3>1. LookupStep(c, "stop", {"term"}, {"failed"})
      BY <2>2, StopLooksUp
    <3>. QED  BY <3>1, RegLookup DEF CliOps, CliSteps, Store!Next
  <2>3. CASE Remove(c)
    <3>1. LookupStep(c, "rm", {"stop_get", "failed"}, {"remove"})
      BY <2>3, RemoveLooksUp
    <3>. QED  BY <3>1, RegLookup DEF CliOps, CliSteps, Store!Next
  <2>4. CASE Attach(c)
    <3>1. LookupStep(c, "attach", {"connect"}, {"failed"})
      BY <2>4, AttachLooksUp
    <3>. QED  BY <3>1, RegLookup DEF CliOps, CliSteps, Store!Next
  <2>5. CASE Exec(c)
    <3>1. LookupStep(c, "exec", {"setns"}, {"failed"})
      BY <2>5, ExecLooksUp
    <3>. QED  BY <3>1, RegLookup DEF CliOps, CliSteps, Store!Next
  <2>. QED  BY <1>2, <2>1, <2>2, <2>3, <2>4, <2>5, RegRun, RegQuiet DEF UserStep
<1>3. ASSUME NEW s \in Cmds, ServerStep(s) \/ EnvStep(s)
      PROVE  RegInv' /\ (Store!Next \/ UNCHANGED <<db, gone>>)
  <2>1. CASE SrvRecord(s) \/ SrvUmountVolume(s) \/ SrvMark(s)
    <3>1. IdOf(s) \in Ids
      BY <2>1 DEF SrvRecord, SrvUmountVolume, SrvMark, RegInv, CommandsIdentified
    <3>. QED  BY <2>1, <3>1, RegRecord, RegServerEnds DEF Store!Next
  <2>2. CASE InstanceSpeaks(s) \/ InstanceExits(s)
    BY <2>2, RegStutter DEF InstanceSpeaks, InstanceExits, cliVars, srvVars, dbVars
  <2>. QED  BY <1>3, <2>1, <2>2, RegQuiet DEF ServerStep, ServerWork, EnvStep
<1>4. ASSUME NEW s \in Cmds, InstanceStep(s)
      PROVE  RegInv' /\ UNCHANGED <<db, gone>>
  BY <1>4, RegStutter DEF InstanceStep, InstanceSetupFails, InstanceMounts, OrphanReaped,
                          cliVars, srvVars, dbVars
<1>5. CASE ForeignStarts
  BY <1>5, RegStutter DEF ForeignStarts, cliVars, srvVars, dbVars
<1>6. CASE UNCHANGED vars
  BY <1>6, RegStutter DEF vars, cliVars, srvVars, dbVars
<1>. QED  BY <1>1, <1>2, <1>3, <1>4, <1>5, <1>6 DEF Next

-----------------------------------------------------------------------------
(* Theorems *)

LEMMA LifecycleInvariant == Spec => [](TypeOK /\ RegInv)
<1>1. Init => TypeOK /\ RegInv
  BY TypeInit, RegInit
<1>2. TypeOK /\ RegInv /\ [Next]_vars => (TypeOK /\ RegInv)'
  BY TypeStep, RegStep DEF RegInv
<1>. QED  BY <1>1, <1>2, PTL DEF Spec

\* Every variable of the lifecycle keeps its type, whatever the commands,
\* servers and containers do at the same time.
THEOREM LifecycleTypeCorrect == Spec => []TypeOK
  BY LifecycleInvariant, PTL

\* Commands and servers that overlap, die or hold old records still change
\* the registry one record at a time: every step is a step of ContainerStore,
\* so an id is inserted once, keeps its name and, once removed, stays away.
THEOREM LifecycleStoreSteps == Spec => StoreSteps
<1>1. TypeOK /\ RegInv /\ [Next]_vars => [Store!Next]_<<db, gone>>
  BY RegStep
<1>. QED  BY <1>1, LifecycleInvariant, PTL DEF Spec, StoreSteps

\* When SemUtil::zero lets `run` go on, its container is in the registry, or
\* was and has been removed since, and its server has bound the socket.
THEOREM LifecycleRunIsRegistered == Spec => []RunIsRegistered
<1>1. TypeOK /\ RegInv => RunIsRegistered
  BY DEF RegInv, ReleasedServes, Serving, RunIsRegistered
<1>. QED  BY <1>1, LifecycleInvariant, PTL
=============================================================================
