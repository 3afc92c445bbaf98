-------------------------- MODULE SequentialProofs -------------------------
(***************************************************************************)
(* What ContainerLifecycle keeps when commands do not overlap: each is     *)
(* given when the ones before it have returned and the servers they left   *)
(* behind are relaying or have ended (Sequential).  Containers may end at  *)
(* any time, so a server may still be cleaning up after its container      *)
(* while a command goes on.                                                *)
(***************************************************************************)
EXTENDS LifecycleProofs, FiniteSetTheorems

\* A user's step: run, a command that begins with a lookup, or the end of input.
LEMMA UserCases ==
    ASSUME NEW c \in Cmds, UserStep(c)
    PROVE  \/ Run(c) \/ ClientEnds(c)
           \/ \E op, running, stopped : LookupStep(c, op, running, stopped)
  BY StartLooksUp, StopLooksUp, RemoveLooksUp, AttachLooksUp, ExecLooksUp DEF UserStep

-----------------------------------------------------------------------------
(* A server and its container *)

\* The server has been forked and has yet to release its command.
Starting == {"clone", "header", "record", "listen", "post"}

\* The server has a container it has yet to wait for.
Attached == {"header", "record", "listen", "post", "relay", "reap"}

Cleaning == {"umount", "umount_volume", "mark"}

\* A container exists from the clone until its server, or init after the
\* server's end, has reaped it.
Coupled ==
    \A s \in Cmds :
        /\ spc[s] \in {"none", "clone"} => cst[s] = "none"
        /\ spc[s] \in Attached => HasProcess(s)
        /\ spc[s] \in Cleaning => cst[s] = "reaped"
        /\ cst[s] # "none" => pid[s] \in Pids
        /\ sem[s] = 0 => cst[s] # "none"
        /\ spc[s] \in Starting => cpc[s] = "wait" /\ sem[s] = 1

\* Steps of a command keep its server and container as they are.
LEMMA CoupledLookup ==
    ASSUME TypeOK, RegInv, Coupled, NEW c \in Cmds, NEW op, NEW running, NEW stopped,
           LookupStep(c, op, running, stopped)
    PROVE  Coupled'
<1>1. /\ spc' = spc /\ cst' = cst /\ pid' = pid /\ sem' = sem
      /\ \A s \in Cmds : s # c => cpc'[s] = cpc[s]
  BY DEF LookupStep, srvVars, instVars, TypeOK
<1>2. spc[c] = "none"
  BY DEF LookupStep, RegInv, ForksOnce
<1>. QED  BY <1>1, <1>2 DEF Coupled, HasProcess, Starting

LEMMA CoupledCli ==
    ASSUME TypeOK, RegInv, Coupled, NEW c \in Cmds, CliStep(c) \/ UserStep(c)
    PROVE  Coupled'
<1>. USE DEF srvVars, instVars, TypeOK
<1>1. CASE Fork(c)
  <2>1. spc[c] = "none" /\ cst[c] = "none" /\ cpc[c] = "fork" /\ sem[c] = 1
    BY <1>1 DEF Fork, RegInv, ForksOnce, Coupled, ReleasedServes, Serving
  <2>. QED  BY <1>1, <2>1 DEF Fork, CliGoto, CliFails, Coupled, HasProcess, Starting, Attached, Cleaning
<1>2. CASE SigKill(c)
  <2>1. /\ spc' = spc /\ pid' = pid /\ sem' = sem /\ cpc[c] = "sleep"
        /\ \A s \in Cmds : s # c => cpc'[s] = cpc[s]
        /\ \A s \in Cmds : \/ cst'[s] = cst[s]
                           \/ HasProcess(s) /\ cst'[s] \in {"zombie", "unopened"}
    BY <1>2 DEF SigKill, CliGoto, Corpse
  <2>. QED  BY <2>1 DEF Coupled, HasProcess, Starting, Attached, Cleaning
<1>3. CASE \/ WaitForServer(c) \/ Connect(c) \/ SetNs(c) \/ StopGet(c) \/ SigTerm(c)
           \/ RemoveSockdir(c) \/ RemoveLayer(c) \/ DeleteRecord(c) \/ ClientEnds(c) \/ Run(c)
  <2>1. /\ spc' = spc /\ cst' = cst /\ pid' = pid /\ sem' = sem
        /\ \A s \in Cmds : s # c => cpc'[s] = cpc[s]
    BY <1>3 DEF WaitForServer, Connect, SetNs, StopGet, SigTerm, RemoveSockdir, RemoveLayer,
                DeleteRecord, ClientEnds, Run, CliGoto, CliFails
  <2>2. cpc[c] # "wait" \/ sem[c] = 0
    BY <1>3 DEF WaitForServer, Connect, SetNs, StopGet, SigTerm, RemoveSockdir, RemoveLayer,
                DeleteRecord, ClientEnds, Run, Given
  <2>. QED  BY <2>1, <2>2 DEF Coupled, HasProcess
<1>. QED
  BY <1>1, <1>2, <1>3, StartLooksUp, StopLooksUp, RemoveLooksUp, AttachLooksUp, ExecLooksUp,
     CoupledLookup DEF CliStep, UserStep

LEMMA CoupledServer ==
    ASSUME TypeOK, RegInv, Coupled, NEW s \in Cmds, ServerStep(s) \/ EnvStep(s) \/ InstanceStep(s)
    PROVE  Coupled'
<1>. USE DEF cliVars, srvVars, instVars, TypeOK, Coupled, HasProcess, Starting, Attached, Cleaning
<1>1. CASE SrvClone(s)
  BY <1>1 DEF SrvClone, SrvGoto, FreePids
<1>2. CASE SrvHeader(s) \/ SrvRecord(s) \/ SrvListen(s)
  BY <1>2 DEF SrvHeader, SrvRecord, SrvListen, SrvGoto
<1>3. CASE SrvPost(s)
  BY <1>3 DEF SrvPost, SrvGoto
<1>4. CASE SrvRelayEnds(s) \/ SrvReap(s)
  BY <1>4 DEF SrvRelayEnds, SrvReap, SrvGoto
<1>5. CASE SrvUmount(s) \/ SrvUmountVolume(s) \/ SrvMark(s) \/ ServerKilled(s)
  BY <1>5 DEF SrvUmount, SrvUmountVolume, SrvMark, SrvDbStep, ServerKilled, SrvGoto
<1>6. CASE InstanceSetupFails(s) \/ InstanceMounts(s) \/ OrphanReaped(s) \/ InstanceExits(s)
  BY <1>6 DEF InstanceSetupFails, InstanceMounts, OrphanReaped, InstanceExits, InstGoto,
              Corpse
<1>7. CASE InstanceSpeaks(s)
  BY <1>7 DEF InstanceSpeaks
<1>. QED
  BY <1>1, <1>2, <1>3, <1>4, <1>5, <1>6, <1>7 DEF ServerStep, ServerWork, EnvStep, InstanceStep

LEMMA CoupledStep ==
    ASSUME TypeOK, RegInv, Coupled, [Next]_vars
    PROVE  Coupled'
<1>1. CASE ForeignStarts \/ UNCHANGED vars
  BY <1>1 DEF ForeignStarts, vars, cliVars, srvVars, instVars, Coupled, HasProcess
<1>. QED  BY <1>1, CoupledCli, CoupledServer DEF Next

-----------------------------------------------------------------------------
(* Claims that are not left behind: a kernel that does not reuse pids, and  *)
(* servers nobody kills.  Commands may overlap.                             *)

PidsOwn == \A s, t \in Cmds : pid[s] = pid[t] /\ pid[s] # NoPid => s = t

LEMMA PidsOwnStep ==
    ASSUME TypeOK, PidsOwn, ~PidReuse, [Next]_vars
    PROVE  PidsOwn'
<1>1. CASE pid' = pid
  BY <1>1 DEF PidsOwn
<1>2. ASSUME NEW s \in Cmds, NEW p \in FreePids, pid' = [pid EXCEPT ![s] = p]
      PROVE  PidsOwn'
  BY <1>2 DEF FreePids, PidsOwn, TypeOK
<1>3. ASSUME NEW c \in Cmds, UserStep(c)
      PROVE  pid' = pid
  BY <1>3, StartLooksUp, StopLooksUp, RemoveLooksUp, AttachLooksUp, ExecLooksUp
  DEF UserStep, Run, ClientEnds, LookupStep, instVars
<1>4. ASSUME NEW c \in Cmds, CliStep(c)
      PROVE  pid' = pid
  BY <1>4 DEF CliStep, Fork, WaitForServer, Connect, SetNs, StopGet, SigTerm, SigKill,
              RemoveSockdir, RemoveLayer, DeleteRecord, instVars
<1>5. ASSUME NEW s \in Cmds, ServerStep(s) \/ EnvStep(s) \/ InstanceStep(s)
      PROVE  pid' = pid \/ \E p \in FreePids : pid' = [pid EXCEPT ![s] = p]
  BY <1>5 DEF ServerStep, ServerWork, EnvStep, InstanceStep, SrvClone, SrvHeader, SrvRecord,
              SrvListen, SrvPost, SrvRelayEnds, SrvReap, SrvUmount, SrvUmountVolume, SrvMark,
              SrvDbStep, ServerKilled, InstanceSpeaks, InstanceExits, InstanceSetupFails,
              InstanceMounts, OrphanReaped, instVars
<1>6. CASE ForeignStarts \/ UNCHANGED vars
  BY <1>6, <1>1 DEF ForeignStarts, vars, instVars
<1>. QED  BY <1>1, <1>2, <1>3, <1>4, <1>5, <1>6 DEF Next

\* A conversion writes no pid that the record did not have.
LEMMA CheckedPid ==
    ASSUME NEW info \in Info
    PROVE  /\ Checked(info).pid \in {info.pid, NoPid}
           /\ Stopped(info).pid = NoPid /\ ~IsRunning(Stopped(info))
           /\ IsRunning(Checked(info)) =>
                Checked(info).pid = info.pid /\ IsRunning(info) /\ Live(info.pid)
           /\ IsRunning(info) /\ Live(info.pid) => Checked(info) = info
  BY DEF Checked, Stopped, Info, IsRunning, CONTAINER_STOPED, CONTAINER_RUNNING

\* No record is new and no record has a new pid.
PidsOnlyLost ==
    \A id \in Ids : db'[id] # NoRecord =>
        \/ db'[id].pid = NoPid
        \/ db[id] # NoRecord /\ db'[id].pid = db[id].pid

LEMMA WriteBackPid ==
    ASSUME TypeOK, NEW id \in Ids, db[id] # NoRecord,
           NEW info \in {Checked(db[id]), Stopped(db[id])}, db' = [db EXCEPT ![id] = info]
    PROVE  PidsOnlyLost
<1>1. db[id] \in Info
  BY DEF TypeOK
<1>2. info.pid \in {db[id].pid, NoPid}
  BY <1>1, CheckedPid
<1>3. db'[id] = info /\ \A i \in Ids : i # id => db'[i] = db[i]
  BY DEF TypeOK
<1>. QED  BY <1>2, <1>3 DEF PidsOnlyLost

LEMMA ClaimsDropped ==
    ASSUME TypeOK, RegInv, Coupled, NoStaleClaim, PidsOnlyLost,
           \A s \in Cmds : sem'[s] = 0 /\ spc'[s] = "exited" =>
               /\ sem[s] = 0 /\ spc[s] = "exited"
               /\ IdOf(s)' = IdOf(s) /\ pid'[s] = pid[s]
    PROVE  NoStaleClaim'
<1>. SUFFICES ASSUME NEW s \in Cmds, sem'[s] = 0, spc'[s] = "exited", db'[IdOf(s)'] # NoRecord
              PROVE  db'[IdOf(s)'].pid # pid'[s]
  BY DEF NoStaleClaim
<1>1. /\ sem[s] = 0 /\ spc[s] = "exited" /\ IdOf(s)' = IdOf(s) /\ pid'[s] = pid[s]
  OBVIOUS
<1>2. IdOf(s) \in Ids /\ pid[s] # NoPid
  BY <1>1, InfoAssumption DEF RegInv, CommandsIdentified, Coupled
<1>. QED  BY <1>1, <1>2 DEF NoStaleClaim, PidsOnlyLost

\* A lookup changes neither the servers nor what they serve.
LEMMA ClaimLookup ==
    ASSUME TypeOK, RegInv, Coupled, NoStaleClaim, NEW c \in Cmds, NEW op, NEW running, NEW stopped,
           LookupStep(c, op, running, stopped)
    PROVE  NoStaleClaim'
<1>1. spc' = spc /\ sem' = sem /\ pid' = pid /\ spc[c] = "none"
  BY DEF LookupStep, srvVars, instVars, RegInv, ForksOnce
<1>2. \A s \in Cmds : s # c => IdOf(s)' = IdOf(s)
  BY DEF LookupStep, IdOf, TypeOK
<1>3. PidsOnlyLost
  <2>1. CASE UNCHANGED db
    BY <2>1 DEF PidsOnlyLost
  <2>2. CASE ~ UNCHANGED db
    <3>1. PICK id \in Ids : db[id] # NoRecord /\ db' = [db EXCEPT ![id] = Checked(db[id])]
      BY <2>2 DEF LookupStep
    <3>. QED  BY <3>1, WriteBackPid
  <2>. QED  BY <2>1, <2>2
<1>. QED  BY <1>1, <1>2, <1>3, ClaimsDropped

LEMMA ClaimCli ==
    ASSUME TypeOK, RegInv, Coupled, NoStaleClaim, NEW c \in Cmds, CliStep(c) \/ UserStep(c)
    PROVE  NoStaleClaim'
<1>1. CASE StopGet(c)
  <2>1. spc' = spc /\ sem' = sem /\ pid' = pid /\ spc[c] = "none"
    BY <1>1 DEF StopGet, srvVars, instVars, RegInv, ForksOnce
  <2>2. \A s \in Cmds : s # c => IdOf(s)' = IdOf(s)
    BY <1>1 DEF StopGet, CliGoto, IdOf, TypeOK
  <2>3. PidsOnlyLost
    <3>1. CASE UNCHANGED db
      BY <3>1 DEF PidsOnlyLost
    <3>2. CASE ~ UNCHANGED db
      <4>1. PICK id \in Ids : db[id] # NoRecord /\ db' = [db EXCEPT ![id] = Checked(db[id])]
        BY <1>1, <3>2 DEF StopGet, Matching, Put, dbVars
      <4>. QED  BY <4>1, WriteBackPid
    <3>. QED  BY <3>1, <3>2
  <2>. QED  BY <2>1, <2>2, <2>3, ClaimsDropped
<1>2. CASE DeleteRecord(c)
  <2>1. spc' = spc /\ sem' = sem /\ pid' = pid /\ \A s \in Cmds : IdOf(s)' = IdOf(s)
    BY <1>2 DEF DeleteRecord, CliGoto, srvVars, instVars, IdOf
  <2>2. PidsOnlyLost
    BY <1>2 DEF DeleteRecord, dbVars, PidsOnlyLost, TypeOK
  <2>. QED  BY <2>1, <2>2, ClaimsDropped
<1>3. CASE Fork(c)
  <2>1. /\ sem' = sem /\ pid' = pid /\ db' = db /\ \A s \in Cmds : IdOf(s)' = IdOf(s)
        /\ \A s \in Cmds : spc'[s] = spc[s] \/ spc'[s] = "clone"
    BY <1>3 DEF Fork, CliGoto, CliFails, dbVars, instVars, IdOf, TypeOK
  <2>. QED  BY <2>1, ClaimsDropped DEF PidsOnlyLost
<1>4. CASE Run(c)
  <2>1. spc' = spc /\ sem' = sem /\ pid' = pid /\ db' = db /\ spc[c] = "none"
    BY <1>4 DEF Run, Given, srvVars, instVars, dbVars, RegInv, ForksOnce
  <2>2. \A s \in Cmds : s # c => IdOf(s)' = IdOf(s)
    BY <1>4 DEF Run, CliFails, CliGoto, IdOf, TypeOK
  <2>. QED  BY <2>1, <2>2, ClaimsDropped DEF PidsOnlyLost
<1>5. CASE \/ WaitForServer(c) \/ Connect(c) \/ SetNs(c) \/ SigTerm(c) \/ SigKill(c)
           \/ RemoveSockdir(c) \/ RemoveLayer(c) \/ ClientEnds(c)
  <2>1. /\ spc' = spc /\ sem' = sem /\ pid' = pid /\ db' = db
        /\ \A s \in Cmds : IdOf(s)' = IdOf(s)
    BY <1>5 DEF WaitForServer, Connect, SetNs, SigTerm, SigKill, RemoveSockdir, RemoveLayer,
                ClientEnds, CliGoto, CliFails, srvVars, instVars, dbVars, IdOf
  <2>. QED  BY <2>1, ClaimsDropped DEF PidsOnlyLost
<1>. QED
  BY <1>1, <1>2, <1>3, <1>4, <1>5, StartLooksUp, StopLooksUp, RemoveLooksUp, AttachLooksUp,
     ExecLooksUp, ClaimLookup DEF CliStep, UserStep

LEMMA ClaimServer ==
    ASSUME TypeOK, RegInv, Coupled, PidsOwn, NoStaleClaim, ~ServerMayDie, NEW s \in Cmds,
           ServerStep(s) \/ EnvStep(s) \/ InstanceStep(s)
    PROVE  NoStaleClaim'
<1>1. cmd' = cmd /\ \A c \in Cmds : IdOf(c)' = IdOf(c)
  BY DEF ServerStep, ServerWork, EnvStep, InstanceStep, SrvClone, SrvHeader, SrvRecord,
         SrvListen, SrvPost, SrvRelayEnds, SrvReap, SrvUmount, SrvUmountVolume, SrvMark,
         SrvDbStep, ServerKilled, InstanceSpeaks, InstanceExits, InstanceSetupFails,
         InstanceMounts, OrphanReaped, cliVars, IdOf
<1>2. CASE SrvRecord(s)
  <2>1. /\ sem' = sem /\ pid' = pid /\ spc[s] = "record" /\ spc' = [spc EXCEPT ![s] = "listen"]
        /\ db' = db \/ db' = [db EXCEPT ![IdOf(s)] = Running(cmd[s].info, pid[s])]
    BY <1>2 DEF SrvRecord, SrvGoto, Put, dbVars, instVars
  <2>2. cmd[s].info \in Info
    BY DEF TypeOK, Cmd
  <2>3. Running(cmd[s].info, pid[s]).pid = pid[s]
    BY <2>2 DEF Running, Info
  <2>4. pid[s] # NoPid
    BY <2>1, InfoAssumption DEF Coupled, HasProcess, Attached
  <2>5. \A t \in Cmds : sem[t] = 0 /\ spc'[t] = "exited" => spc[t] = "exited" /\ t # s
    BY <2>1 DEF TypeOK
  <2>6. \A t \in Cmds : t # s => pid[t] # pid[s]
    BY <2>4 DEF PidsOwn
  <2>7. \A id \in Ids : db'[id] = db[id] \/ db'[id].pid = pid[s]
    BY <2>1, <2>3 DEF TypeOK
  <2>8. \A t \in Cmds : sem[t] = 0 => IdOf(t) \in Ids
    BY DEF RegInv, CommandsIdentified, ReleasedServes, Serving
  <2>. QED  BY <1>1, <2>1, <2>5, <2>6, <2>7, <2>8 DEF NoStaleClaim
<1>3. CASE SrvUmountVolume(s) \/ SrvMark(s)
  <2>1. /\ sem' = sem /\ pid' = pid /\ IdOf(s) \in Ids
        /\ \A t \in Cmds : t # s => spc'[t] = spc[t]
    BY <1>3 DEF SrvUmountVolume, SrvMark, SrvDbStep, SrvGoto, instVars, RegInv, CommandsIdentified,
                TypeOK
  <2>2. PidsOnlyLost
    <3>1. CASE db' = db
      BY <3>1 DEF PidsOnlyLost
    <3>2. CASE db' # db
      <4>1. PICK info \in {Checked(db[IdOf(s)]), Stopped(db[IdOf(s)])} :
              db[IdOf(s)] # NoRecord /\ db' = [db EXCEPT ![IdOf(s)] = info]
        BY <1>3, <3>2 DEF SrvUmountVolume, SrvMark, SrvDbStep, Put, dbVars
      <4>. QED  BY <2>1, <4>1, WriteBackPid
    <3>. QED  BY <3>1, <3>2
  <2>3. spc'[s] = "exited" => db'[IdOf(s)] = NoRecord \/ db'[IdOf(s)].pid = NoPid
    <3>1. CASE db[IdOf(s)] = NoRecord
      BY <1>3, <3>1 DEF SrvUmountVolume, SrvMark, SrvDbStep, dbVars
    <3>2. CASE db[IdOf(s)] # NoRecord /\ SrvMark(s)
      <4>1. db' = [db EXCEPT ![IdOf(s)] = Stopped(db[IdOf(s)])] /\ db[IdOf(s)] \in Info
        BY <2>1, <3>2 DEF SrvMark, SrvDbStep, Put, TypeOK
      <4>. QED  BY <2>1, <4>1, CheckedPid DEF TypeOK
    <3>3. CASE db[IdOf(s)] # NoRecord /\ SrvUmountVolume(s)
      BY <3>3 DEF SrvUmountVolume, SrvDbStep, SrvGoto, TypeOK
    <3>. QED  BY <1>3, <3>1, <3>2, <3>3
  <2>4. \A t \in Cmds : sem[t] = 0 => IdOf(t) \in Ids /\ pid[t] # NoPid
    BY InfoAssumption DEF RegInv, CommandsIdentified, ReleasedServes, Serving, Coupled
  <2>. QED  BY <1>1, <2>1, <2>2, <2>3, <2>4 DEF NoStaleClaim, PidsOnlyLost
<1>4. CASE \/ SrvClone(s) \/ SrvHeader(s) \/ SrvListen(s) \/ SrvPost(s) \/ SrvRelayEnds(s)
           \/ SrvReap(s) \/ SrvUmount(s) \/ InstanceStep(s)
           \/ InstanceSpeaks(s) \/ InstanceExits(s)
  <2>1. /\ db' = db /\ \A t \in Cmds : t # s => spc'[t] = spc[t] /\ sem'[t] = sem[t] /\ pid'[t] = pid[t]
        /\ \/ spc'[s] = spc[s] /\ sem'[s] = sem[s] /\ pid'[s] = pid[s]
           \/ sem'[s] = sem[s] /\ spc[s] \in Starting
           \/ spc'[s] \notin {"exited"}
    BY <1>4 DEF SrvClone, SrvHeader, SrvListen, SrvPost, SrvRelayEnds, SrvReap, SrvUmount,
                InstanceStep, InstanceSpeaks, InstanceExits, InstanceSetupFails,
                InstanceMounts, OrphanReaped, SrvGoto, srvVars, dbVars, instVars, Starting, TypeOK
  <2>. QED  BY <1>1, <2>1, ClaimsDropped DEF PidsOnlyLost, Coupled
<1>5. ~ServerKilled(s)
  BY DEF ServerKilled
<1>. QED
  BY <1>2, <1>3, <1>4, <1>5 DEF ServerStep, ServerWork, EnvStep

\* change_status_to_stop has the last word: where pids are not reused and no
\* server is killed, a server that served and ended leaves no record with the
\* pid of its container, however many commands and servers overlap and
\* however old what they write back is.
THEOREM ServersLeaveNoClaim ==
    ASSUME ~PidReuse, ~ServerMayDie
    PROVE  Spec => []NoStaleClaim
<1>1. Init => Coupled /\ PidsOwn /\ NoStaleClaim
  BY DEF Init, Coupled, PidsOwn, NoStaleClaim, Starting, Attached, Cleaning
<1>2. TypeOK /\ RegInv /\ Coupled /\ PidsOwn /\ NoStaleClaim /\ [Next]_vars
        => (Coupled /\ PidsOwn /\ NoStaleClaim)'
  <2>. SUFFICES ASSUME TypeOK, RegInv, Coupled, PidsOwn, NoStaleClaim, [Next]_vars
                PROVE  (Coupled /\ PidsOwn /\ NoStaleClaim)'
    OBVIOUS
  <2>1. CASE ForeignStarts \/ UNCHANGED vars
    <3>1. sem' = sem /\ spc' = spc /\ cmd' = cmd /\ pid' = pid /\ db' = db
      BY <2>1 DEF ForeignStarts, vars, cliVars, srvVars, instVars, dbVars
    <3>. QED  BY <3>1, CoupledStep, PidsOwnStep DEF NoStaleClaim, IdOf
  <2>. QED  BY <2>1, CoupledStep, PidsOwnStep, ClaimCli, ClaimServer DEF Next
<1>. QED  BY <1>1, <1>2, LifecycleInvariant, PTL DEF Spec

-----------------------------------------------------------------------------
(* One command at a time *)

\* Command c has not returned, or what it started is not up yet.
Active(c) ==
    \/ cpc[c] \notin {"idle", "client", "done", "failed"}
    \/ spc[c] \in Starting
    \/ cst[c] = "mounting"

OneActive == \A c, d \in Cmds : Active(c) /\ Active(d) => c = d

\* Command s is about to fork a server, or its server or container is there.
Busy(s) == cpc[s] = "fork" \/ spc[s] \notin {"none", "exited"} \/ HasProcess(s)

\* Nothing is active when everything has settled, and what is busy serves.
LEMMA SettledIdle ==
    ASSUME TypeOK, Coupled, Settled
    PROVE  \A c \in Cmds : /\ ~Active(c)
                           /\ Busy(c) => spc[c] = "relay" /\ cst[c] = "running"
<1>. SUFFICES ASSUME NEW c \in Cmds
              PROVE  /\ ~Active(c)
                     /\ Busy(c) => spc[c] = "relay" /\ cst[c] = "running"
  OBVIOUS
<1>1. CASE spc[c] = "none"
  BY <1>1 DEF Settled, Coupled, Active, Busy, Starting, HasProcess
<1>2. CASE spc[c] = "relay"
  BY <1>2 DEF Settled, Active, Busy, Starting
<1>3. CASE spc[c] = "exited"
  BY <1>3 DEF Settled, Active, Busy, Starting, HasProcess
<1>. QED  BY <1>1, <1>2, <1>3 DEF Settled

\* A command becomes active when it is given, and then nothing else is.
LEMMA ActivityStep ==
    ASSUME TypeOK, RegInv, Coupled, [Next]_vars
    PROVE  \/ \A d \in Cmds : Active(d)' => Active(d)
           \/ \E c \in Cmds : /\ cpc[c] = "idle" /\ (Sequential => Settled)
                              /\ \A d \in Cmds : d # c => (Active(d)' => Active(d))
<1>1. ASSUME NEW c \in Cmds, NEW op, NEW running, NEW stopped,
             LookupStep(c, op, running, stopped)
      PROVE  \E a \in Cmds : /\ cpc[a] = "idle" /\ (Sequential => Settled)
                             /\ \A d \in Cmds : d # a => (Active(d)' => Active(d))
  <2>1. /\ cpc[c] = "idle" /\ (Sequential => Settled) /\ spc' = spc /\ cst' = cst
        /\ \A d \in Cmds : d # c => cpc'[d] = cpc[d]
    BY <1>1 DEF LookupStep, srvVars, instVars, TypeOK
  <2>. QED  BY <2>1 DEF Active
<1>2. ASSUME NEW c \in Cmds, Run(c)
      PROVE  \E a \in Cmds : /\ cpc[a] = "idle" /\ (Sequential => Settled)
                             /\ \A d \in Cmds : d # a => (Active(d)' => Active(d))
  <2>1. /\ cpc[c] = "idle" /\ (Sequential => Settled) /\ spc' = spc /\ cst' = cst
        /\ \A d \in Cmds : d # c => cpc'[d] = cpc[d]
    BY <1>2 DEF Run, Given, CliFails, CliGoto, srvVars, instVars, TypeOK
  <2>. QED  BY <2>1 DEF Active
<1>3. ASSUME NEW c \in Cmds, CliStep(c) \/ ClientEnds(c)
      PROVE  \A d \in Cmds : Active(d)' => Active(d)
  <2>1. CASE ClientEnds(c)
    BY <2>1 DEF ClientEnds, CliGoto, srvVars, instVars, Active, TypeOK
  <2>2. CASE CliStep(c)
    <3>1. /\ \A d \in Cmds : d # c => cpc'[d] = cpc[d] /\ spc'[d] = spc[d]
          /\ \A d \in Cmds : cst'[d] = cst[d] \/ cst'[d] \in {"zombie", "unopened"}
      BY <2>2 DEF CliStep, Fork, WaitForServer, Connect, SetNs, StopGet, SigTerm, SigKill, Corpse,
                  RemoveSockdir, RemoveLayer, DeleteRecord, CliGoto, CliFails, srvVars, instVars,
                  TypeOK
    <3>2. cpc[c] \notin {"idle", "client", "done", "failed"}
      BY <2>2 DEF CliStep, Fork, WaitForServer, Connect, SetNs, StopGet, SigTerm, SigKill,
                  RemoveSockdir, RemoveLayer, DeleteRecord
    <3>. QED  BY <3>1, <3>2 DEF Active
  <2>. QED  BY <1>3, <2>1, <2>2
<1>4. ASSUME NEW s \in Cmds, ServerStep(s) \/ EnvStep(s) \/ InstanceStep(s)
      PROVE  \A d \in Cmds : Active(d)' => Active(d)
  <2>1. /\ cpc' = cpc /\ \A d \in Cmds : d # s => cst'[d] = cst[d] /\ spc'[d] = spc[d]
        /\ spc'[s] \in Starting \/ cst'[s] = "mounting" =>
             spc[s] \in Starting \/ cst[s] = "mounting"
    BY <1>4 DEF ServerStep, ServerWork, EnvStep, InstanceStep, SrvClone, SrvHeader, SrvRecord,
         SrvListen, SrvPost, SrvRelayEnds, SrvReap, SrvUmount, SrvUmountVolume, SrvMark,
         SrvDbStep, ServerKilled, InstanceSpeaks, InstanceExits, InstanceSetupFails,
         InstanceMounts, OrphanReaped, SrvGoto, InstGoto, cliVars, srvVars, instVars, Starting, TypeOK
  <2>. QED  BY <2>1 DEF Active
<1>5. CASE ForeignStarts \/ UNCHANGED vars
  BY <1>5 DEF ForeignStarts, vars, cliVars, srvVars, instVars, Active
<1>. QED  BY <1>1, <1>2, <1>3, <1>4, <1>5, UserCases DEF Next

LEMMA OneActiveStep ==
    ASSUME TypeOK, RegInv, Coupled, OneActive, Sequential, [Next]_vars
    PROVE  OneActive'
<1>1. CASE \A d \in Cmds : Active(d)' => Active(d)
  BY <1>1 DEF OneActive
<1>2. ASSUME NEW c \in Cmds, Settled, \A d \in Cmds : d # c => (Active(d)' => Active(d))
      PROVE  OneActive'
  BY <1>2, SettledIdle DEF OneActive
<1>. QED  BY <1>1, <1>2, ActivityStep

-----------------------------------------------------------------------------
(* What a step may do to the registry, seen from the servers *)

\* The server has recorded its container and has yet to wait for it.
Claimed == {"listen", "post", "relay", "reap"}

\* get_container_by_id_or_name has looked id up.
Refreshed(id) ==
    /\ db[id] # NoRecord
    /\ db' = [db EXCEPT ![id] = Checked(db[id])]
    /\ \A s \in Cmds : spc'[s] = spc[s] \/ (spc[s] = "umount_volume" /\ spc'[s] = "mark")

MarkedBy(s) ==
    /\ spc[s] = "mark" /\ db[IdOf(s)] # NoRecord
    /\ db' = [db EXCEPT ![IdOf(s)] = Stopped(db[IdOf(s)])]
    /\ spc' = [spc EXCEPT ![s] = "exited"]

RecordedBy(s) ==
    /\ spc[s] = "record" /\ (cmd[s].op = "run" \/ db[IdOf(s)] # NoRecord)
    /\ db' = [db EXCEPT ![IdOf(s)] = Running(cmd[s].info, pid[s])]
    /\ spc' = [spc EXCEPT ![s] = "listen"]

DeletedBy(c) ==
    /\ cpc[c] = "delete"
    /\ db' = [db EXCEPT ![IdOf(c)] = NoRecord]
    /\ spc' = spc

\* The registry is left alone.  A server gets past its callback without a
\* record if rm took it away, and ends without marking it if there is none.
NotWritten ==
    /\ db' = db
    /\ \A s \in Cmds :
        /\ spc'[s] = "listen" /\ spc[s] # "listen" => spc[s] = "record" /\ db[IdOf(s)] = NoRecord
        /\ spc'[s] \in Claimed \ {"listen"} => spc[s] \in Claimed
        /\ spc'[s] \notin {"none", "clone"} \cup Claimed => spc[s] # "none"
        /\ spc[s] \in Claimed \cup Cleaning => spc'[s] \in Claimed \cup Cleaning \cup {"exited"}
        /\ spc'[s] = "exited" /\ spc[s] \in Claimed \cup Cleaning =>
             ServerMayDie \/ spc[s] = "listen" \/ db[IdOf(s)] = NoRecord

RegistryCase ==
    \/ NotWritten
    \/ \E id \in Ids : Refreshed(id)
    \/ \E s \in Cmds : MarkedBy(s) \/ RecordedBy(s) \/ DeletedBy(s)

\* What a command holds changes while it is idle or at the second lookup of
\* rm -f; a server keeps the pid of the container it has cloned.
ServersKept ==
    \A s \in Cmds :
        /\ cpc[s] \notin {"idle", "stop_get"} => cmd'[s] = cmd[s]
        /\ spc[s] # "clone" => pid'[s] = pid[s]

LEMMA RegistrySteps ==
    ASSUME TypeOK, RegInv, [Next]_vars
    PROVE  RegistryCase /\ ServersKept
<1>. USE DEF TypeOK
<1>1. ASSUME NEW c \in Cmds, NEW op, NEW running, NEW stopped,
             LookupStep(c, op, running, stopped)
      PROVE  RegistryCase /\ ServersKept
  <2>1. ServersKept
    BY <1>1 DEF LookupStep, ServersKept, instVars
  <2>2. spc' = spc /\ (db' = db \/ \E id \in Ids : db[id] # NoRecord /\ db' = [db EXCEPT ![id] = Checked(db[id])])
    BY <1>1 DEF LookupStep, srvVars
  <2>. QED  BY <2>1, <2>2 DEF RegistryCase, NotWritten, Refreshed, Claimed, Cleaning
<1>2. ASSUME NEW c \in Cmds, Run(c) \/ ClientEnds(c)
      PROVE  RegistryCase /\ ServersKept
  <2>1. ServersKept
    BY <1>2 DEF Run, ClientEnds, Given, CliFails, CliGoto, ServersKept, instVars
  <2>2. spc' = spc /\ db' = db
    BY <1>2 DEF Run, ClientEnds, srvVars, dbVars
  <2>. QED  BY <2>1, <2>2 DEF RegistryCase, NotWritten, Claimed, Cleaning
<1>3. ASSUME NEW c \in Cmds, CliStep(c)
      PROVE  RegistryCase /\ ServersKept
  <2>1. ServersKept
    BY <1>3 DEF CliStep, Fork, WaitForServer, Connect, SetNs, StopGet, SigTerm, SigKill,
                RemoveSockdir, RemoveLayer, DeleteRecord, CliGoto, CliFails, ServersKept, instVars
  <2>2. CASE StopGet(c)
    <3>1. spc' = spc /\ (db' = db \/ \E id \in Ids : db[id] # NoRecord /\ db' = [db EXCEPT ![id] = Checked(db[id])])
      BY <2>2 DEF StopGet, Matching, Put, dbVars, srvVars
    <3>. QED  BY <2>1, <3>1 DEF RegistryCase, NotWritten, Refreshed, Claimed, Cleaning
  <2>3. CASE DeleteRecord(c)
    <3>1. cpc[c] = "delete" /\ spc' = spc /\ (db' = db \/ db' = [db EXCEPT ![IdOf(c)] = NoRecord])
      BY <2>3 DEF DeleteRecord, dbVars, srvVars
    <3>. QED  BY <2>1, <3>1 DEF RegistryCase, NotWritten, DeletedBy, Claimed, Cleaning
  <2>4. CASE Fork(c)
    <3>1. /\ db' = db /\ spc[c] = "none"
          /\ \A s \in Cmds : \/ spc'[s] = spc[s]
                             \/ spc[s] = "none" /\ spc'[s] = "clone"
      BY <2>4 DEF Fork, dbVars, RegInv, ForksOnce
    <3>. QED  BY <2>1, <3>1 DEF RegistryCase, NotWritten, Claimed, Cleaning
  <2>5. CASE \/ WaitForServer(c) \/ Connect(c) \/ SetNs(c) \/ SigTerm(c) \/ SigKill(c)
             \/ RemoveSockdir(c) \/ RemoveLayer(c)
    <3>1. spc' = spc /\ db' = db
      BY <2>5 DEF WaitForServer, Connect, SetNs, SigTerm, SigKill, RemoveSockdir, RemoveLayer,
                  srvVars, dbVars
    <3>. QED  BY <2>1, <3>1 DEF RegistryCase, NotWritten, Claimed, Cleaning
  <2>. QED  BY <1>3, <2>2, <2>3, <2>4, <2>5 DEF CliStep
<1>4. ASSUME NEW s \in Cmds, ServerStep(s) \/ EnvStep(s) \/ InstanceStep(s)
      PROVE  RegistryCase /\ ServersKept
  <2>1. ServersKept
    <3>1. cmd' = cmd /\ (pid' = pid \/ SrvClone(s))
      BY <1>4 DEF ServerStep, ServerWork, EnvStep, InstanceStep, SrvClone, SrvHeader, SrvRecord,
         SrvListen, SrvPost, SrvRelayEnds, SrvReap, SrvUmount, SrvUmountVolume, SrvMark,
         SrvDbStep, ServerKilled, InstanceSpeaks, InstanceExits, InstanceSetupFails,
         InstanceMounts, OrphanReaped, cliVars, instVars
    <3>. QED  BY <3>1 DEF SrvClone, ServersKept
  <2>2. CASE SrvRecord(s)
    <3>1. /\ spc[s] = "record" /\ spc' = [spc EXCEPT ![s] = "listen"]
          /\ \/ db' = db /\ db[IdOf(s)] = NoRecord
             \/ RecordedBy(s)
      BY <2>2 DEF SrvRecord, SrvGoto, Put, dbVars, RecordedBy
    <3>. QED  BY <2>1, <3>1 DEF RegistryCase, NotWritten, Claimed, Cleaning
  <2>3. CASE SrvUmountVolume(s)
    <3>1. CASE db[IdOf(s)] = NoRecord
      <4>1. /\ db' = db /\ spc[s] = "umount_volume"
            /\ spc' = [spc EXCEPT ![s] = "mark"] \/ spc' = [spc EXCEPT ![s] = "exited"]
        BY <2>3, <3>1 DEF SrvUmountVolume, SrvDbStep, SrvGoto, dbVars
      <4>. QED  BY <2>1, <3>1, <4>1 DEF RegistryCase, NotWritten, Claimed, Cleaning
    <3>2. CASE db[IdOf(s)] # NoRecord
      <4>1. /\ db' = [db EXCEPT ![IdOf(s)] = Checked(db[IdOf(s)])] /\ spc[s] = "umount_volume"
            /\ spc' = [spc EXCEPT ![s] = "mark"] /\ IdOf(s) \in Ids
        BY <2>3, <3>2 DEF SrvUmountVolume, SrvDbStep, SrvGoto, Put, RegInv, CommandsIdentified
      <4>. QED  BY <2>1, <3>2, <4>1 DEF RegistryCase, Refreshed
    <3>. QED  BY <3>1, <3>2
  <2>4. CASE SrvMark(s)
    <3>1. CASE db[IdOf(s)] = NoRecord
      <4>1. /\ db' = db /\ spc[s] = "mark" /\ spc' = [spc EXCEPT ![s] = "exited"]
        BY <2>4, <3>1 DEF SrvMark, SrvDbStep, SrvGoto, dbVars
      <4>. QED  BY <2>1, <3>1, <4>1 DEF RegistryCase, NotWritten, Claimed, Cleaning
    <3>2. CASE db[IdOf(s)] # NoRecord
      BY <2>1, <2>4, <3>2 DEF SrvMark, SrvDbStep, SrvGoto, Put, RegistryCase, MarkedBy
    <3>. QED  BY <3>1, <3>2
  <2>5. CASE SrvClone(s) \/ SrvHeader(s) \/ SrvListen(s) \/ SrvPost(s) \/ SrvRelayEnds(s)
    <3>1. /\ db' = db /\ \A t \in Cmds : t # s => spc'[t] = spc[t]
          /\ \/ spc[s] = "clone" /\ spc'[s] \in {"header", "exited"}
             \/ spc[s] = "header" /\ spc'[s] = "record"
             \/ spc[s] = "listen" /\ spc'[s] \in {"post", "exited"}
             \/ spc[s] = "post" /\ spc'[s] = "relay"
             \/ spc[s] = "relay" /\ spc'[s] = "reap"
      BY <2>5 DEF SrvClone, SrvHeader, SrvListen, SrvPost, SrvRelayEnds, SrvGoto, dbVars
    <3>. QED  BY <2>1, <3>1 DEF RegistryCase, NotWritten, Claimed, Cleaning
  <2>6. CASE SrvReap(s) \/ SrvUmount(s) \/ ServerKilled(s)
    <3>1. /\ db' = db /\ \A t \in Cmds : t # s => spc'[t] = spc[t]
          /\ \/ spc[s] = "reap" /\ spc'[s] = "umount"
             \/ spc[s] = "umount" /\ spc'[s] = "umount_volume"
             \/ spc[s] # "none" /\ spc'[s] = "exited" /\ ServerMayDie
      BY <2>6 DEF SrvReap, SrvUmount, ServerKilled, SrvGoto, dbVars
    <3>. QED  BY <2>1, <3>1 DEF RegistryCase, NotWritten, Claimed, Cleaning
  <2>7. CASE InstanceStep(s) \/ InstanceSpeaks(s) \/ InstanceExits(s)
    <3>1. spc' = spc /\ db' = db
      BY <2>7 DEF InstanceStep, InstanceSpeaks, InstanceExits, InstanceSetupFails, InstanceMounts,
                  OrphanReaped, srvVars, dbVars
    <3>. QED  BY <2>1, <3>1 DEF RegistryCase, NotWritten, Claimed, Cleaning
  <2>. QED  BY <1>4, <2>2, <2>3, <2>4, <2>5, <2>6, <2>7 DEF ServerStep, ServerWork, EnvStep
<1>5. CASE ForeignStarts \/ UNCHANGED vars
  <2>1. spc' = spc /\ db' = db /\ cmd' = cmd /\ pid' = pid
    BY <1>5 DEF ForeignStarts, vars, cliVars, srvVars, instVars, dbVars
  <2>. QED  BY <2>1 DEF RegistryCase, ServersKept, NotWritten, Claimed, Cleaning
<1>. QED  BY <1>1, <1>2, <1>3, <1>4, <1>5, UserCases DEF Next

-----------------------------------------------------------------------------
(* One instance per container *)

\* At most one command at a time has a container, or is about to.
BusyUnique == \A s, t \in Cmds : Busy(s) /\ Busy(t) /\ IdOf(s) = IdOf(t) => s = t

\* The record of a container that is served says so.
ClaimsMade ==
    \A s \in Cmds : spc[s] \in Claimed /\ db[IdOf(s)] # NoRecord =>
        IsRunning(db[IdOf(s)]) /\ db[IdOf(s)].pid = pid[s]

\* A command with a server or a container is past its lookups.
LEMMA BusyHolds ==
    ASSUME TypeOK, RegInv, Coupled, ServersKept, NEW s \in Cmds, Busy(s)
    PROVE  /\ cmd'[s] = cmd[s] /\ IdOf(s)' = IdOf(s)
           /\ cmd[s].op \in {"run", "start"} /\ IdOf(s) \in Ids
<1>1. cpc[s] = "fork" \/ spc[s] # "none"
  BY DEF Busy, Coupled, HasProcess
<1>2. cpc[s] \notin {"idle", "stop_get"} /\ cmd[s].op \in {"run", "start"}
  BY <1>1 DEF RegInv, ForksOnce
<1>. QED  BY <1>2 DEF ServersKept, IdOf, RegInv, CommandsIdentified

\* A container that is recorded and whose server has not waited for it is
\* not marked stopped by a lookup: its pid is in /proc.
LEMMA ClaimChecked ==
    ASSUME TypeOK, RegInv, Coupled, ClaimsMade, NEW s \in Cmds, spc[s] \in Claimed,
           db[IdOf(s)] # NoRecord
    PROVE  IsRunning(db[IdOf(s)]) /\ Checked(db[IdOf(s)]) = db[IdOf(s)]
<1>1. IsRunning(db[IdOf(s)]) /\ db[IdOf(s)].pid = pid[s] /\ HasProcess(s) /\ IdOf(s) \in Ids
  BY DEF ClaimsMade, Coupled, Claimed, Attached, RegInv, CommandsIdentified
<1>2. Live(db[IdOf(s)].pid) /\ db[IdOf(s)] \in Info
  BY <1>1 DEF Live, TypeOK
<1>. QED  BY <1>1, <1>2, CheckedPid

\* The id a command is given is in nobody's hands: run makes a new one, and
\* start refuses a container whose record says running.
LEMMA GivenIsFree ==
    ASSUME TypeOK, RegInv, Coupled, ClaimsMade, Settled, NEW c \in Cmds, Run(c) \/ Start(c),
           cpc'[c] = "fork"
    PROVE  \A t \in Cmds : t # c /\ Busy(t) => IdOf(t) # IdOf(c)'
<1>1. CASE Run(c)
  <2>1. PICK name \in Names \cup {NoName}, detach \in Detach,
             id \in Ids \ (Existing \cup {IdOf(s) : s \in Cmds}) :
          cmd' = [cmd EXCEPT ![c] = [op |-> "run", key |-> NoName, detach |-> detach,
                                     info |-> [Unset EXCEPT !.id = id, !.name = name],
                                     found |-> Unset]]
    BY <1>1 DEF Run, CliFails, CliGoto, TypeOK
  <2>2. IdOf(c)' = id
    BY <2>1 DEF IdOf, TypeOK, Unset
  <2>. QED  BY <2>2
<1>2. CASE Start(c)
  <2>1. LookupStep(c, "start", {"failed"}, {"fork"})
    BY <1>2, StartLooksUp
  <2>2. PICK id \in Ids : /\ db[id] # NoRecord /\ ~IsRunning(Checked(db[id]))
                          /\ IdOf(c)' = Checked(db[id]).id
    BY <2>1 DEF LookupStep, IdOf, TypeOK
  <2>3. IdOf(c)' = id
    <3>1. db[id] \in Info /\ db[id].id = id
      BY <2>2 DEF TypeOK, RegInv, RecordsKeyed
    <3>. QED  BY <2>2, <3>1, InfoKept
  <2>. SUFFICES ASSUME NEW t \in Cmds, Busy(t), IdOf(t) = id
                PROVE  FALSE
    BY <2>3
  <2>4. spc[t] \in Claimed
    BY SettledIdle DEF Claimed
  <2>. QED  BY <2>2, <2>4, ClaimChecked
<1>. QED  BY <1>1, <1>2

\* A command becomes busy when it is given.
LEMMA BusyStep ==
    ASSUME TypeOK, RegInv, Coupled, [Next]_vars
    PROVE  \/ \A d \in Cmds : Busy(d)' => Busy(d)
           \/ \E c \in Cmds : /\ Run(c) \/ Start(c)
                              /\ cpc'[c] = "fork" /\ (Sequential => Settled)
                              /\ \A d \in Cmds : d # c => (Busy(d)' => Busy(d))
<1>1. ASSUME NEW c \in Cmds, NEW op, NEW running, NEW stopped,
             LookupStep(c, op, running, stopped)
      PROVE  /\ Sequential => Settled
             /\ \A d \in Cmds : d # c => (Busy(d)' => Busy(d))
             /\ cpc'[c] # "fork" => ~Busy(c)'
             /\ cpc'[c] = "fork" => "fork" \in running \cup stopped
  <2>1. /\ spc' = spc /\ cst' = cst /\ (Sequential => Settled) /\ cpc[c] = "idle"
        /\ \A d \in Cmds : d # c => cpc'[d] = cpc[d]
        /\ cpc'[c] = "fork" => "fork" \in running \cup stopped
    BY <1>1 DEF LookupStep, srvVars, instVars, TypeOK
  <2>2. spc[c] = "none" /\ cst[c] = "none"
    BY <2>1 DEF RegInv, ForksOnce, Coupled
  <2>. QED  BY <2>1, <2>2 DEF Busy, HasProcess
<1>2. ASSUME NEW c \in Cmds, Run(c)
      PROVE  /\ Sequential => Settled
             /\ \A d \in Cmds : d # c => (Busy(d)' => Busy(d))
             /\ cpc'[c] # "fork" => ~Busy(c)'
  <2>1. /\ spc' = spc /\ cst' = cst /\ (Sequential => Settled) /\ cpc[c] = "idle"
        /\ \A d \in Cmds : d # c => cpc'[d] = cpc[d]
    BY <1>2 DEF Run, Given, CliFails, CliGoto, srvVars, instVars, TypeOK
  <2>2. spc[c] = "none" /\ cst[c] = "none"
    BY <2>1 DEF RegInv, ForksOnce, Coupled
  <2>. QED  BY <2>1, <2>2 DEF Busy, HasProcess
<1>3. ASSUME NEW c \in Cmds, UserStep(c)
      PROVE  \/ \A d \in Cmds : Busy(d)' => Busy(d)
             \/ /\ Run(c) \/ Start(c)
                /\ cpc'[c] = "fork" /\ (Sequential => Settled)
                /\ \A d \in Cmds : d # c => (Busy(d)' => Busy(d))
  <2>1. CASE Start(c)
    BY <1>1, <2>1, StartLooksUp
  <2>2. CASE Stop(c)
    BY <1>1, <2>2, StopLooksUp
  <2>3. CASE Remove(c)
    BY <1>1, <2>3, RemoveLooksUp
  <2>4. CASE Attach(c)
    BY <1>1, <2>4, AttachLooksUp
  <2>5. CASE Exec(c)
    BY <1>1, <2>5, ExecLooksUp
  <2>6. CASE Run(c)
    BY <1>2, <2>6
  <2>7. CASE ClientEnds(c)
    BY <2>7 DEF ClientEnds, CliGoto, srvVars, instVars, Busy, HasProcess, TypeOK
  <2>. QED  BY <1>3, <2>1, <2>2, <2>3, <2>4, <2>5, <2>6, <2>7 DEF UserStep
<1>4. ASSUME NEW c \in Cmds, CliStep(c)
      PROVE  \A d \in Cmds : Busy(d)' => Busy(d)
  <2>1. CASE Fork(c)
    BY <2>1 DEF Fork, CliGoto, CliFails, instVars, Busy, HasProcess, TypeOK
  <2>2. CASE CliStep(c) /\ ~Fork(c)
    <3>1. /\ spc' = spc /\ \A d \in Cmds : d # c => cpc'[d] = cpc[d]
          /\ cpc'[c] # "fork"
          /\ \A d \in Cmds : cst'[d] = cst[d] \/ HasProcess(d)
      BY <2>2 DEF CliStep, WaitForServer, Connect, SetNs, StopGet, SigTerm, SigKill,
                  RemoveSockdir, RemoveLayer, DeleteRecord, CliGoto, CliFails, AfterStop,
                  srvVars, instVars, TypeOK
    <3>. QED  BY <3>1 DEF Busy, HasProcess
  <2>. QED  BY <1>4, <2>1, <2>2
<1>5. ASSUME NEW s \in Cmds, ServerStep(s) \/ EnvStep(s) \/ InstanceStep(s)
      PROVE  \A d \in Cmds : Busy(d)' => Busy(d)
  <2>1. /\ cpc' = cpc /\ \A d \in Cmds : d # s => cst'[d] = cst[d] /\ spc'[d] = spc[d]
        /\ spc[s] \notin {"none", "exited"} \/ HasProcess(s)
    BY <1>5 DEF ServerStep, ServerWork, EnvStep, InstanceStep, SrvClone, SrvHeader, SrvRecord,
         SrvListen, SrvPost, SrvRelayEnds, SrvReap, SrvUmount, SrvUmountVolume, SrvMark,
         SrvDbStep, ServerKilled, InstanceSpeaks, InstanceExits, InstanceSetupFails,
         InstanceMounts, OrphanReaped, SrvGoto, InstGoto, HasProcess, cliVars, srvVars, instVars,
         TypeOK
  <2>. QED  BY <2>1 DEF Busy, HasProcess
<1>6. CASE ForeignStarts \/ UNCHANGED vars
  BY <1>6 DEF ForeignStarts, vars, cliVars, srvVars, instVars, Busy, HasProcess
<1>. QED  BY <1>3, <1>4, <1>5, <1>6 DEF Next

LEMMA BusyUniqueStep ==
    ASSUME TypeOK, RegInv, Coupled, BusyUnique, ClaimsMade, Sequential, [Next]_vars
    PROVE  BusyUnique'
<1>1. ServersKept
  BY RegistrySteps
<1>2. \A d \in Cmds : Busy(d) => IdOf(d)' = IdOf(d)
  BY <1>1, BusyHolds
<1>3. CASE \A d \in Cmds : Busy(d)' => Busy(d)
  BY <1>2, <1>3 DEF BusyUnique
<1>4. ASSUME NEW c \in Cmds, Run(c) \/ Start(c), cpc'[c] = "fork", Settled,
             \A d \in Cmds : d # c => (Busy(d)' => Busy(d))
      PROVE  BusyUnique'
  <2>1. \A t \in Cmds : t # c /\ Busy(t) => IdOf(t) # IdOf(c)'
    BY <1>4, GivenIsFree
  <2>. QED  BY <1>2, <1>4, <2>1 DEF BusyUnique
<1>. QED  BY <1>3, <1>4, BusyStep

LEMMA ClaimsMadeStep ==
    ASSUME TypeOK, RegInv, Coupled, BusyUnique, ClaimsMade, [Next]_vars
    PROVE  ClaimsMade'
<1>1. RegistryCase /\ ServersKept
  BY RegistrySteps
<1>. SUFFICES ASSUME NEW s \in Cmds, spc'[s] \in Claimed, db'[IdOf(s)'] # NoRecord
              PROVE  IsRunning(db'[IdOf(s)']) /\ db'[IdOf(s)'].pid = pid'[s]
  BY DEF ClaimsMade, IsRunning
<1>2. spc[s] \in Claimed \cup {"record"}
  BY <1>1 DEF RegistryCase, NotWritten, Refreshed, MarkedBy, RecordedBy, DeletedBy, Claimed, TypeOK
<1>3. Busy(s) /\ pid'[s] = pid[s]
  BY <1>1, <1>2 DEF Busy, ServersKept, Claimed
<1>4. IdOf(s)' = IdOf(s) /\ IdOf(s) \in Ids
  BY <1>1, <1>3, BusyHolds
<1>5. CASE NotWritten
  BY <1>2, <1>3, <1>4, <1>5 DEF NotWritten, ClaimsMade, Claimed
<1>6. ASSUME NEW id \in Ids, Refreshed(id)
      PROVE  IsRunning(db'[IdOf(s)']) /\ db'[IdOf(s)'].pid = pid'[s]
  <2>1. spc[s] \in Claimed
    BY <1>2, <1>6 DEF Refreshed, Claimed
  <2>2. CASE id = IdOf(s)
    <3>1. Checked(db[id]) = db[id] /\ db'[id] = db[id]
      BY <1>6, <2>1, <2>2, ClaimChecked DEF Refreshed, TypeOK
    <3>. QED  BY <1>3, <1>4, <1>6, <2>1, <2>2, <3>1 DEF ClaimsMade, Refreshed
  <2>3. CASE id # IdOf(s)
    <3>1. db'[IdOf(s)] = db[IdOf(s)]
      BY <1>4, <1>6, <2>3 DEF Refreshed, TypeOK
    <3>. QED  BY <1>3, <1>4, <2>1, <3>1 DEF ClaimsMade
  <2>. QED  BY <2>2, <2>3
<1>7. ASSUME NEW t \in Cmds, MarkedBy(t)
      PROVE  IsRunning(db'[IdOf(s)']) /\ db'[IdOf(s)'].pid = pid'[s]
  <2>1. t # s /\ spc'[s] = spc[s]
    BY <1>7 DEF MarkedBy, Claimed, TypeOK
  <2>2. IdOf(t) # IdOf(s)
    BY <1>3, <1>7, <2>1 DEF BusyUnique, Busy, MarkedBy
  <2>3. db'[IdOf(s)] = db[IdOf(s)]
    BY <1>4, <1>7, <2>2 DEF MarkedBy, TypeOK
  <2>. QED  BY <1>3, <1>4, <2>1, <2>3 DEF ClaimsMade
<1>8. ASSUME NEW t \in Cmds, RecordedBy(t)
      PROVE  IsRunning(db'[IdOf(s)']) /\ db'[IdOf(s)'].pid = pid'[s]
  <2>1. CASE t = s
    <3>1. cmd[s].info \in Info
      BY DEF TypeOK, Cmd
    <3>2. IsRunning(Running(cmd[s].info, pid[s])) /\ Running(cmd[s].info, pid[s]).pid = pid[s]
      BY <3>1 DEF Running, IsRunning, Info
    <3>. QED  BY <1>3, <1>4, <1>8, <2>1, <3>2 DEF RecordedBy, TypeOK
  <2>2. CASE t # s
    <3>1. IdOf(t) # IdOf(s)
      BY <1>3, <1>8, <2>2 DEF BusyUnique, Busy, RecordedBy
    <3>2. db'[IdOf(s)] = db[IdOf(s)] /\ spc'[s] = spc[s]
      BY <1>4, <1>8, <2>2, <3>1 DEF RecordedBy, TypeOK
    <3>. QED  BY <1>3, <1>4, <3>2 DEF ClaimsMade
  <2>. QED  BY <2>1, <2>2
<1>9. ASSUME NEW c \in Cmds, DeletedBy(c)
      PROVE  IsRunning(db'[IdOf(s)']) /\ db'[IdOf(s)'].pid = pid'[s]
  <2>1. db'[IdOf(s)] = db[IdOf(s)] /\ spc'[s] = spc[s]
    BY <1>4, <1>9 DEF DeletedBy, TypeOK
  <2>. QED  BY <1>3, <1>4, <2>1 DEF ClaimsMade
<1>. QED  BY <1>1, <1>5, <1>6, <1>7, <1>8, <1>9 DEF RegistryCase

-----------------------------------------------------------------------------
(* Mounts and names *)

LEMMA LiveMountedStep ==
    ASSUME TypeOK, RegInv, Coupled, BusyUnique, LiveIsMounted, [Next]_vars
    PROVE  LiveIsMounted'
<1>1. \A s \in Cmds : Busy(s) => IdOf(s)' = IdOf(s) /\ IdOf(s) \in Ids
  BY RegistrySteps, BusyHolds
<1>2. \A s \in Cmds : cst[s] \in {"mounting", "running"} => Busy(s)
  BY DEF Busy, HasProcess
<1>3. ASSUME mounted' = mounted, \A s \in Cmds : cst'[s] = "running" => cst[s] = "running"
      PROVE  LiveIsMounted'
  BY <1>1, <1>2, <1>3 DEF LiveIsMounted
<1>4. ASSUME NEW s \in Cmds, InstanceMounts(s)
      PROVE  LiveIsMounted'
  <2>1. /\ cst[s] = "mounting" /\ \A t \in Cmds : t # s => cst'[t] = cst[t]
        /\ \/ mounted' = [mounted EXCEPT ![IdOf(s)] = @ + 1]
           \/ mounted' = mounted /\ cst'[s] = "zombie"
    BY <1>4 DEF InstanceMounts, InstGoto, TypeOK
  <2>2. Busy(s) /\ IdOf(s) \in Ids
    BY <1>1, <1>2, <2>1
  <2>3. CASE mounted' = [mounted EXCEPT ![IdOf(s)] = @ + 1]
    <3>1. \A id \in Ids : mounted[id] \in Nat /\ mounted'[id] >= mounted[id]
      BY <2>3 DEF TypeOK
    <3>2. mounted'[IdOf(s)] > 0
      BY <2>2, <2>3 DEF TypeOK
    <3>3. ASSUME NEW t \in Cmds, cst'[t] = "running", t # s
          PROVE  mounted'[IdOf(t)'] > 0
      <4>1. Busy(t) /\ mounted[IdOf(t)] > 0
        BY <1>2, <2>1, <3>3 DEF LiveIsMounted
      <4>2. IdOf(t)' = IdOf(t) /\ IdOf(t) \in Ids
        BY <1>1, <4>1
      <4>3. mounted'[IdOf(t)] \in Nat
        BY <2>3, <4>2 DEF TypeOK
      <4>. QED  BY <3>1, <4>1, <4>2, <4>3
    <3>. QED  BY <1>1, <2>2, <3>2, <3>3 DEF LiveIsMounted
  <2>4. CASE mounted' = mounted /\ cst'[s] = "zombie"
    BY <1>3, <2>1, <2>4
  <2>. QED  BY <2>1, <2>3, <2>4
<1>5. ASSUME NEW s \in Cmds, SrvUmount(s)
      PROVE  LiveIsMounted'
  <2>1. /\ cst' = cst /\ spc[s] = "umount"
        /\ \A id \in Ids : id # IdOf(s) => mounted'[id] = mounted[id]
    BY <1>5 DEF SrvUmount, instVars, TypeOK
  <2>2. Busy(s) /\ cst[s] = "reaped"
    BY <2>1 DEF Busy, Coupled, Cleaning
  <2>3. ASSUME NEW t \in Cmds, cst[t] = "running"
        PROVE  Busy(t) /\ IdOf(t) # IdOf(s)
    BY <1>2, <2>2, <2>3 DEF BusyUnique
  <2>. QED  BY <1>1, <2>1, <2>3 DEF LiveIsMounted
<1>6. ASSUME NEW c \in Cmds, CliStep(c)
      PROVE  mounted' = mounted /\ \A s \in Cmds : cst'[s] = "running" => cst[s] = "running"
  BY <1>6 DEF CliStep, Fork, WaitForServer, Connect, SetNs, StopGet, SigTerm, SigKill, Corpse,
              RemoveSockdir, RemoveLayer, DeleteRecord, fsVars, instVars, TypeOK
<1>7. ASSUME NEW c \in Cmds, UserStep(c)
      PROVE  mounted' = mounted /\ cst' = cst
  BY <1>7, StartLooksUp, StopLooksUp, RemoveLooksUp, AttachLooksUp, ExecLooksUp
  DEF UserStep, Run, ClientEnds, LookupStep, fsVars, instVars
<1>8. ASSUME NEW s \in Cmds, ServerStep(s) \/ EnvStep(s) \/ InstanceStep(s)
      PROVE  \/ InstanceMounts(s) \/ SrvUmount(s)
             \/ mounted' = mounted /\ \A t \in Cmds : cst'[t] = "running" => cst[t] = "running"
  BY <1>8 DEF ServerStep, ServerWork, EnvStep, InstanceStep, SrvClone, SrvHeader, SrvRecord,
         SrvListen, SrvPost, SrvRelayEnds, SrvReap, SrvUmountVolume, SrvMark,
         SrvDbStep, ServerKilled, InstanceSpeaks, InstanceExits, InstanceSetupFails,
         OrphanReaped, Corpse, SrvGoto, InstGoto, fsVars, instVars, TypeOK
<1>9. CASE ForeignStarts \/ UNCHANGED vars
  BY <1>3, <1>9 DEF ForeignStarts, vars, fsVars, instVars
<1>. QED  BY <1>3, <1>4, <1>5, <1>6, <1>7, <1>8, <1>9 DEF Next

\* The name that run was given is still nobody's when the record is inserted.
NamesFresh ==
    \A c \in Cmds : Unrecorded(c) /\ cmd[c].info.name # NoName =>
        \A id \in Ids : db[id] # NoRecord => db[id].name # cmd[c].info.name

\* A record gets its name when run's server inserts it.
LEMMA NameStep ==
    ASSUME TypeOK, RegInv, [Next]_vars
    PROVE  \/ \A id \in Ids : db'[id] # NoRecord => db[id] # NoRecord /\ db'[id].name = db[id].name
           \/ \E s \in Cmds :
                /\ Unrecorded(s) /\ RecordedBy(s) /\ IdOf(s) \in Ids
                /\ db'[IdOf(s)].name = cmd[s].info.name
                /\ \A id \in Ids : id # IdOf(s) => db'[id] = db[id]
<1>1. RegistryCase
  BY RegistrySteps
<1>2. ASSUME NEW id \in Ids, db[id] # NoRecord, NEW info, info.name = db[id].name,
             db' = [db EXCEPT ![id] = info]
      PROVE  \A i \in Ids : db'[i] # NoRecord => db[i] # NoRecord /\ db'[i].name = db[i].name
  BY <1>2 DEF TypeOK
<1>3. CASE NotWritten
  BY <1>3 DEF NotWritten
<1>4. ASSUME NEW id \in Ids, Refreshed(id)
      PROVE  \A i \in Ids : db'[i] # NoRecord => db[i] # NoRecord /\ db'[i].name = db[i].name
  BY <1>2, <1>4, InfoKept DEF Refreshed, TypeOK
<1>5. ASSUME NEW s \in Cmds, MarkedBy(s)
      PROVE  \A i \in Ids : db'[i] # NoRecord => db[i] # NoRecord /\ db'[i].name = db[i].name
  <2>1. IdOf(s) \in Ids
    BY <1>5 DEF MarkedBy, RegInv, CommandsIdentified
  <2>. QED  BY <1>2, <1>5, <2>1, InfoKept DEF MarkedBy, TypeOK
<1>6. ASSUME NEW s \in Cmds, DeletedBy(s)
      PROVE  \A i \in Ids : db'[i] # NoRecord => db[i] # NoRecord /\ db'[i].name = db[i].name
  BY <1>6 DEF DeletedBy, TypeOK
<1>7. ASSUME NEW s \in Cmds, RecordedBy(s)
      PROVE  \/ \A i \in Ids : db'[i] # NoRecord => db[i] # NoRecord /\ db'[i].name = db[i].name
             \/ /\ Unrecorded(s) /\ IdOf(s) \in Ids
                /\ db'[IdOf(s)].name = cmd[s].info.name
                /\ \A id \in Ids : id # IdOf(s) => db'[id] = db[id]
  <2>1. IdOf(s) \in Ids /\ cmd[s].op # "none"
    BY <1>7 DEF RecordedBy, RegInv, CommandsIdentified
  <2>2. Running(cmd[s].info, pid[s]).name = cmd[s].info.name
    BY InfoKept DEF TypeOK, Cmd
  <2>3. CASE cmd[s].op = "run"
    BY <1>7, <2>1, <2>2, <2>3 DEF RecordedBy, Unrecorded, TypeOK
  <2>4. CASE cmd[s].op # "run"
    <3>1. db[IdOf(s)] # NoRecord /\ cmd[s].info.name = db[IdOf(s)].name
      BY <1>7, <2>1, <2>4 DEF RecordedBy, RegInv, NamesKept
    <3>. QED  BY <1>2, <1>7, <2>1, <2>2, <3>1 DEF RecordedBy
  <2>. QED  BY <2>3, <2>4
<1>. QED  BY <1>1, <1>3, <1>4, <1>5, <1>6, <1>7 DEF RegistryCase

LEMMA UnrecordedStep ==
    ASSUME TypeOK, RegInv, Coupled, [Next]_vars, NEW c \in Cmds, Unrecorded(c)', ~Unrecorded(c)
    PROVE  Run(c)
<1>1. spc'[c] \in {"clone", "header", "record"} => spc[c] \in {"clone", "header", "record"} \/ cpc[c] = "fork"
  <2>1. ASSUME NEW d \in Cmds, CliStep(d) \/ UserStep(d)
        PROVE  spc'[c] = spc[c] \/ cpc[c] = "fork"
    <3>1. CASE UserStep(d)
      BY <3>1, StartLooksUp, StopLooksUp, RemoveLooksUp, AttachLooksUp, ExecLooksUp
      DEF UserStep, Run, ClientEnds, LookupStep, srvVars
    <3>2. CASE CliStep(d)
      BY <3>2 DEF CliStep, Fork, WaitForServer, Connect, SetNs, StopGet, SigTerm, SigKill,
                RemoveSockdir, RemoveLayer, DeleteRecord, srvVars, TypeOK
    <3>. QED  BY <2>1, <3>1, <3>2
  <2>2. ASSUME NEW s \in Cmds, ServerStep(s) \/ EnvStep(s) \/ InstanceStep(s)
        PROVE  spc'[c] \in {"clone", "header", "record"} => spc[c] \in {"clone", "header", "record"}
    BY <2>2 DEF ServerStep, ServerWork, EnvStep, InstanceStep, SrvClone, SrvHeader, SrvRecord,
         SrvListen, SrvPost, SrvRelayEnds, SrvReap, SrvUmount, SrvUmountVolume, SrvMark,
         SrvDbStep, ServerKilled, InstanceSpeaks, InstanceExits, InstanceSetupFails,
         InstanceMounts, OrphanReaped, SrvGoto, srvVars, TypeOK
  <2>3. CASE ForeignStarts \/ UNCHANGED vars
    BY <2>3 DEF ForeignStarts, vars, srvVars
  <2>. QED  BY <2>1, <2>2, <2>3 DEF Next
<1>2. CASE cmd'[c] = cmd[c]
  <2>1. CASE cpc'[c] = "fork" /\ cpc[c] # "fork"
    <3>1. ASSUME NEW d \in Cmds, UserStep(d)
          PROVE  Run(c)
      <4>1. ASSUME NEW op, NEW running, NEW stopped, LookupStep(d, op, running, stopped),
                   "fork" \in running \cup stopped => op = "start"
            PROVE  FALSE
        BY <1>2, <2>1, <4>1 DEF LookupStep, TypeOK, Unrecorded
      <4>2. CASE ClientEnds(d)
        BY <2>1, <4>2 DEF ClientEnds, CliGoto, TypeOK
      <4>3. CASE Run(d)
        BY <2>1, <4>3 DEF Run, CliFails, CliGoto, TypeOK
      <4>. QED
        BY <3>1, <4>1, <4>2, <4>3, StartLooksUp, StopLooksUp, RemoveLooksUp, AttachLooksUp,
           ExecLooksUp DEF UserStep
    <3>2. ASSUME NEW d \in Cmds, CliStep(d)
          PROVE  FALSE
      BY <2>1, <3>2 DEF CliStep, Fork, WaitForServer, Connect, SetNs, StopGet, SigTerm, SigKill,
                RemoveSockdir, RemoveLayer, DeleteRecord, CliGoto, CliFails, AfterStop, TypeOK
    <3>3. ASSUME NEW s \in Cmds, ServerStep(s) \/ EnvStep(s) \/ InstanceStep(s)
          PROVE  FALSE
      BY <2>1, <3>3 DEF ServerStep, ServerWork, EnvStep, InstanceStep, SrvClone, SrvHeader,
         SrvRecord, SrvListen, SrvPost, SrvRelayEnds, SrvReap, SrvUmount, SrvUmountVolume, SrvMark,
         SrvDbStep, ServerKilled, InstanceSpeaks, InstanceExits, InstanceSetupFails,
         InstanceMounts, OrphanReaped, cliVars
    <3>4. ~(ForeignStarts \/ UNCHANGED vars)
      BY <2>1 DEF ForeignStarts, vars, cliVars
    <3>. QED  BY <3>1, <3>2, <3>3, <3>4 DEF Next
  <2>2. CASE ~(cpc'[c] = "fork" /\ cpc[c] # "fork")
    BY <1>1, <1>2, <2>2 DEF Unrecorded
  <2>. QED  BY <2>1, <2>2
<1>3. CASE cmd'[c] # cmd[c]
  <2>1. ASSUME NEW d \in Cmds, UserStep(d)
        PROVE  Run(c)
    <3>1. ASSUME NEW op, NEW running, NEW stopped, LookupStep(d, op, running, stopped), op # "run"
          PROVE  FALSE
      BY <1>3, <3>1 DEF LookupStep, TypeOK, Unrecorded
    <3>2. CASE ClientEnds(d)
      BY <1>3, <3>2 DEF ClientEnds, CliGoto
    <3>3. CASE Run(d)
      BY <1>3, <3>3 DEF Run, CliFails, CliGoto, TypeOK
    <3>. QED
      BY <2>1, <3>1, <3>2, <3>3, StartLooksUp, StopLooksUp, RemoveLooksUp, AttachLooksUp,
         ExecLooksUp DEF UserStep
  <2>2. ASSUME NEW d \in Cmds, CliStep(d)
        PROVE  FALSE
    <3>1. d = c /\ StopGet(c)
      BY <1>3, <2>2 DEF CliStep, Fork, WaitForServer, Connect, SetNs, StopGet, SigTerm, SigKill,
                RemoveSockdir, RemoveLayer, DeleteRecord, CliGoto, CliFails, TypeOK
    <3>2. cmd[c].op = "rm"
      BY <3>1 DEF StopGet, RegInv, ForksOnce
    <3>3. cmd'[c].op = cmd[c].op
      BY <3>1 DEF StopGet, CliGoto, TypeOK, Cmd
    <3>. QED  BY <3>2, <3>3 DEF Unrecorded
  <2>3. ASSUME NEW s \in Cmds, ServerStep(s) \/ EnvStep(s) \/ InstanceStep(s)
        PROVE  FALSE
    BY <1>3, <2>3 DEF ServerStep, ServerWork, EnvStep, InstanceStep, SrvClone, SrvHeader,
         SrvRecord, SrvListen, SrvPost, SrvRelayEnds, SrvReap, SrvUmount, SrvUmountVolume, SrvMark,
         SrvDbStep, ServerKilled, InstanceSpeaks, InstanceExits, InstanceSetupFails,
         InstanceMounts, OrphanReaped, cliVars
  <2>4. ~(ForeignStarts \/ UNCHANGED vars)
    BY <1>3 DEF ForeignStarts, vars, cliVars
  <2>. QED  BY <2>1, <2>2, <2>3, <2>4 DEF Next
<1>. QED  BY <1>2, <1>3

LEMMA NamesStep ==
    ASSUME TypeOK, RegInv, Coupled, OneActive, NamesFresh, NamesUnique, [Next]_vars
    PROVE  NamesFresh' /\ NamesUnique'
<1>1. ASSUME NEW s \in Cmds, Unrecorded(s)
      PROVE  Active(s)
  BY <1>1 DEF Unrecorded, Active, Starting
<1>2. \A c \in Cmds : Unrecorded(c) => cmd'[c] = cmd[c]
  <2>1. ServersKept
    BY RegistrySteps
  <2>. QED  BY <2>1 DEF Unrecorded, ServersKept, RegInv, ForksOnce
<1>3. ASSUME NEW c \in Cmds, Run(c), ~Unrecorded(c), Unrecorded(c)', cmd'[c].info.name # NoName
      PROVE  \A id \in Ids : db'[id] # NoRecord => db'[id].name # cmd'[c].info.name
  <2>1. db' = db
    BY <1>3 DEF Run, dbVars
  <2>2. PICK name \in Names \cup {NoName}, detach \in Detach :
          IF name # NoName /\ get_container_by_name(name) # {}
          THEN CliFails(c)
          ELSE \E id \in Ids :
             cmd' = [cmd EXCEPT ![c] = [op |-> "run", key |-> NoName, detach |-> detach,
                                        info |-> [Unset EXCEPT !.id = id, !.name = name],
                                        found |-> Unset]]
    BY <1>3 DEF Run
  <2>3. ~CliFails(c)
    BY <1>3 DEF CliFails, CliGoto, Unrecorded, TypeOK, Run, srvVars
  <2>4. cmd'[c].info.name = name
    <3>1. PICK id \in Ids :
             cmd' = [cmd EXCEPT ![c] = [op |-> "run", key |-> NoName, detach |-> detach,
                                        info |-> [Unset EXCEPT !.id = id, !.name = name],
                                        found |-> Unset]]
      BY <2>2, <2>3
    <3>. QED  BY <3>1 DEF TypeOK, Unset
  <2>5. get_container_by_name(name) = {}
    BY <1>3, <2>2, <2>3, <2>4, Zenon
  <2>. QED  BY <2>1, <2>4, <2>5 DEF get_container_by_name
<1>4. CASE \A id \in Ids : db'[id] # NoRecord => db[id] # NoRecord /\ db'[id].name = db[id].name
  <2>1. NamesUnique'
    BY <1>4 DEF NamesUnique
  <2>2. NamesFresh'
    BY <1>2, <1>3, <1>4, UnrecordedStep DEF NamesFresh
  <2>. QED  BY <2>1, <2>2
<1>5. ASSUME NEW s \in Cmds, Unrecorded(s), RecordedBy(s), IdOf(s) \in Ids,
             db'[IdOf(s)].name = cmd[s].info.name,
             \A id \in Ids : id # IdOf(s) => db'[id] = db[id]
      PROVE  NamesFresh' /\ NamesUnique'
  <2>1. NamesUnique'
    BY <1>5 DEF NamesUnique, NamesFresh
  <2>2. ~Unrecorded(s)'
    <3>1. spc'[s] = "listen" /\ spc[s] = "record"
      BY <1>5 DEF RecordedBy, TypeOK
    <3>2. cpc[s] = "wait" /\ cpc'[s] = cpc[s]
      <4>1. cpc[s] = "wait"
        BY <3>1 DEF Coupled, Starting
      <4>2. CASE cpc' = cpc
        BY <4>1, <4>2
      <4>3. CASE cpc' # cpc
        <5>1. \E c \in Cmds : CliStep(c) \/ UserStep(c)
          BY <4>3 DEF Next, ServerStep, ServerWork, EnvStep, InstanceStep, SrvClone, SrvHeader,
             SrvRecord, SrvListen, SrvPost, SrvRelayEnds, SrvReap, SrvUmount, SrvUmountVolume,
             SrvMark, SrvDbStep, ServerKilled, InstanceSpeaks, InstanceExits, InstanceSetupFails,
             InstanceMounts, OrphanReaped, ForeignStarts, vars, cliVars
        <5>2. \E c \in Cmds : CliStep(c) /\ spc'[s] = "clone"
          BY <3>1, <5>1, StartLooksUp, StopLooksUp, RemoveLooksUp, AttachLooksUp, ExecLooksUp
          DEF CliStep, UserStep, Run, ClientEnds, LookupStep, Fork, WaitForServer, Connect, SetNs,
              StopGet, SigTerm, SigKill, RemoveSockdir, RemoveLayer, DeleteRecord, srvVars, TypeOK
        <5>. QED  BY <3>1, <5>2
      <4>. QED  BY <4>2, <4>3
    <3>. QED  BY <3>1, <3>2 DEF Unrecorded
  <2>3. ASSUME NEW c \in Cmds, Unrecorded(c)'
        PROVE  FALSE
    <3>1. CASE Unrecorded(c)
      BY <1>1, <1>5, <2>2, <2>3, <3>1 DEF OneActive
    <3>2. CASE ~Unrecorded(c)
      <4>1. Run(c)
        BY <2>3, <3>2, UnrecordedStep
      <4>. QED  BY <1>5, <4>1 DEF Run, srvVars, RecordedBy, TypeOK
    <3>. QED  BY <3>1, <3>2
  <2>. QED  BY <2>1, <2>3 DEF NamesFresh
<1>. QED  BY <1>4, <1>5, NameStep

-----------------------------------------------------------------------------
(* What holds whenever commands do not overlap, even if servers are killed, *)
(* system calls fail and pids are reused.                                   *)

SeqInv ==
    /\ Coupled
    /\ OneActive
    /\ BusyUnique
    /\ ClaimsMade
    /\ LiveIsMounted
    /\ NamesFresh
    /\ NamesUnique

LEMMA SeqInit == ASSUME Init PROVE SeqInv
<1>1. \A c \in Cmds : /\ cmd[c] = NoCmd /\ cpc[c] = "idle" /\ spc[c] = "none" /\ cst[c] = "none"
                      /\ sem[c] = 1
  BY DEF Init
<1>2. \A c \in Cmds : ~Active(c) /\ ~Busy(c) /\ ~Unrecorded(c)
  BY <1>1 DEF Active, Busy, HasProcess, Starting, Unrecorded, NoCmd
<1>3. Coupled
  BY <1>1 DEF Coupled, Starting, Attached, Cleaning
<1>4. ClaimsMade /\ LiveIsMounted
  BY <1>1 DEF ClaimsMade, Claimed, LiveIsMounted
<1>5. NamesUnique
  <2>1. \A id \in Ids : db[id] # NoRecord => db[id].name = NoName
    BY DEF Init, Stopped, Unset
  <2>. QED  BY <2>1 DEF NamesUnique
<1>. QED  BY <1>2, <1>3, <1>4, <1>5 DEF SeqInv, OneActive, BusyUnique, NamesFresh

LEMMA SeqStep ==
    ASSUME Sequential, TypeOK, RegInv, SeqInv, [Next]_vars
    PROVE  SeqInv'
  BY CoupledStep, OneActiveStep, BusyUniqueStep, ClaimsMadeStep, LiveMountedStep, NamesStep
  DEF SeqInv

LEMMA SequentialInvariant ==
    ASSUME Sequential
    PROVE  Spec => [](TypeOK /\ RegInv /\ SeqInv)
<1>1. Init => SeqInv
  BY SeqInit
<1>2. TypeOK /\ RegInv /\ SeqInv /\ [Next]_vars => SeqInv'
  BY SeqStep
<1>. QED  BY <1>1, <1>2, LifecycleInvariant, PTL DEF Spec

\* The container that lives for an id is the only one.
LEMMA LiveUnique ==
    ASSUME BusyUnique, NEW id \in Ids, NEW s \in LiveInstances(id)
    PROVE  LiveInstances(id) = {s}
  BY DEF LiveInstances, BusyUnique, Busy, HasProcess

LEMMA LiveCount ==
    ASSUME BusyUnique, NEW id \in Ids
    PROVE  \/ LiveInstances(id) = {} /\ Cardinality(LiveInstances(id)) = 0
           \/ LiveInstances(id) # {} /\ Cardinality(LiveInstances(id)) = 1
<1>1. CASE LiveInstances(id) = {}
  BY <1>1, FS_EmptySet
<1>2. CASE LiveInstances(id) # {}
  <2>1. PICK s \in LiveInstances(id) : TRUE
    BY <1>2
  <2>2. LiveInstances(id) = {s}
    BY <2>1, LiveUnique
  <2>3. Cardinality({s}) = 1
    BY FS_Singleton, Zenon
  <2>. QED  BY <1>2, <2>2, <2>3
<1>. QED  BY <1>1, <1>2

\* `start` never gives a container a second process: the registry it asks
\* says running from before the command that started it returned until its
\* server has waited for it.
THEOREM SequentialSingleInstance ==
    ASSUME Sequential
    PROVE  Spec => []SingleInstance
<1>1. SeqInv => SingleInstance
  <2>. SUFFICES ASSUME BusyUnique, NEW id \in Ids
                PROVE  Cardinality(LiveInstances(id)) <= 1
    BY DEF SeqInv, SingleInstance
  <2>1. Cardinality(LiveInstances(id)) \in {0, 1}
    BY LiveCount, Zenon
  <2>. QED  BY <2>1
<1>. QED  BY <1>1, SequentialInvariant, PTL

\* ContainerFs::umount_container never takes the file systems from under a
\* container that runs.
THEOREM SequentialLiveIsMounted ==
    ASSUME Sequential
    PROVE  Spec => []LiveIsMounted
<1>1. SeqInv => LiveIsMounted
  BY DEF SeqInv
<1>. QED  BY <1>1, SequentialInvariant, PTL

\* The name that `run` looked up before it forked is still free when its
\* server inserts the record, seconds later.
THEOREM SequentialNamesUnique ==
    ASSUME Sequential
    PROVE  Spec => []NamesUnique
<1>1. SeqInv => NamesUnique
  BY DEF SeqInv
<1>. QED  BY <1>1, SequentialInvariant, PTL

-----------------------------------------------------------------------------
(* What the registry and the mount table say, if no server is killed *)

\* The server ended before it released its command, which waits for ever.
StuckAt(c) == cpc[c] = "wait" /\ spc[c] = "exited" /\ sem[c] = 1

\* A record that says running belongs to a server that has yet to mark it, or
\* to one that ended early; then no other command is given.
ClaimHeld ==
    \A id \in Ids : db[id] # NoRecord /\ IsRunning(db[id]) =>
        \E s \in Cmds :
            /\ IdOf(s) = id /\ pid[s] = db[id].pid
            /\ spc[s] \in Claimed \cup Cleaning \/ StuckAt(s)

\* Likewise a mount, which is one at most.
MountHeld ==
    \A id \in Ids :
        /\ mounted[id] \in {0, 1}
        /\ mounted[id] = 1 =>
             \E s \in Cmds :
                /\ IdOf(s) = id /\ cst[s] \in {"running", "zombie", "reaped"}
                /\ spc[s] \in Attached \cup {"umount"} \/ StuckAt(s)

MountingServed ==
    \A s \in Cmds : cst[s] = "mounting" => spc[s] \in Attached \ {"reap"} \/ StuckAt(s)

\* How a server moves if nobody kills it.
LEMMA ServerMoves ==
    ASSUME TypeOK, RegInv, Coupled, ~ServerMayDie, [Next]_vars, NEW s \in Cmds
    PROVE  /\ spc[s] \in Attached =>
                \/ spc'[s] \in Attached \cup {"umount"}
                \/ spc[s] = "listen" /\ spc'[s] = "exited"
           /\ cst[s] = "mounting" /\ spc[s] \in Attached \ {"reap"} =>
                \/ spc'[s] \in Attached \ {"reap"}
                \/ spc[s] = "listen" /\ spc'[s] = "exited"
           /\ spc[s] = "umount" => spc'[s] = "umount" \/ SrvUmount(s)
           /\ cpc[s] = "wait" /\ sem[s] = 1 /\ spc[s] # "post" => cpc'[s] = "wait" /\ sem'[s] = 1
           /\ StuckAt(s) => StuckAt(s)'
           /\ cst[s] \in {"running", "zombie", "reaped"} =>
                cst'[s] \in {"running", "zombie", "reaped"}
           /\ cst'[s] = "mounting" => cst[s] = "mounting" \/ spc'[s] = "header"
<1>. USE DEF TypeOK, StuckAt, Attached
<1>1. CASE /\ cpc'[s] = cpc[s] \/ cpc[s] # "wait"
           /\ spc'[s] = spc[s] /\ sem'[s] = sem[s] /\ cst'[s] = cst[s]
  BY <1>1
<1>2. ASSUME NEW c \in Cmds, UserStep(c)
      PROVE  /\ cpc'[s] = cpc[s] \/ cpc[s] # "wait"
             /\ spc'[s] = spc[s] /\ sem'[s] = sem[s] /\ cst'[s] = cst[s]
  <2>1. ASSUME NEW op, NEW running, NEW stopped, LookupStep(c, op, running, stopped)
        PROVE  /\ cpc'[s] = cpc[s] \/ cpc[s] # "wait"
               /\ spc' = spc /\ sem' = sem /\ cst' = cst
    BY <2>1 DEF LookupStep, srvVars, instVars
  <2>2. CASE Run(c) \/ ClientEnds(c)
    BY <2>2 DEF Run, ClientEnds, Given, CliFails, CliGoto, srvVars, instVars
  <2>. QED  BY <1>2, <2>1, <2>2, UserCases
<1>3. ASSUME NEW c \in Cmds, CliStep(c)
      PROVE  \/ /\ cpc'[s] = cpc[s] \/ cpc[s] # "wait" \/ sem[s] = 0
                /\ spc'[s] = spc[s] /\ sem'[s] = sem[s]
                /\ \/ cst'[s] = cst[s]
                   \/ cst[s] \in {"running", "zombie"} /\ cst'[s] = "zombie"
                   \/ cst[s] \in {"mounting", "unopened"} /\ cst'[s] \in {"zombie", "unopened"}
             \/ spc[s] = "none" /\ cpc[s] = "fork" /\ cst'[s] = cst[s]
  BY <1>3 DEF CliStep, Fork, WaitForServer, Connect, SetNs, StopGet, SigTerm, SigKill,
              RemoveSockdir, RemoveLayer, DeleteRecord, CliGoto, CliFails, srvVars, instVars,
              HasProcess, Corpse, RegInv, ForksOnce
<1>4. ASSUME NEW d \in Cmds, d # s, ServerStep(d) \/ EnvStep(d) \/ InstanceStep(d)
      PROVE  cpc'[s] = cpc[s] /\ spc'[s] = spc[s] /\ sem'[s] = sem[s] /\ cst'[s] = cst[s]
  BY <1>4 DEF ServerStep, ServerWork, EnvStep, InstanceStep, SrvClone, SrvHeader, SrvRecord,
         SrvListen, SrvPost, SrvRelayEnds, SrvReap, SrvUmount, SrvUmountVolume, SrvMark,
         SrvDbStep, ServerKilled, InstanceSpeaks, InstanceExits, InstanceSetupFails,
         InstanceMounts, OrphanReaped, SrvGoto, InstGoto, cliVars, srvVars, instVars
<1>5. CASE InstanceSpeaks(s) \/ InstanceExits(s) \/ InstanceStep(s)
  <2>1. /\ cpc' = cpc /\ spc' = spc /\ sem' = sem
        /\ cst'[s] = "mounting" => cst[s] = "mounting"
        /\ \/ cst'[s] = cst[s]
           \/ cst'[s] \in {"running", "zombie", "reaped"}
           \/ cst[s] = "mounting" /\ cst'[s] = "unopened"
    BY <1>5 DEF InstanceSpeaks, InstanceExits, InstanceStep, InstanceSetupFails, InstanceMounts,
                OrphanReaped, Corpse, InstGoto, cliVars, srvVars
  <2>. QED  BY <2>1
<1>6. CASE ServerStep(s) \/ (cst[s] = "running" /\ SrvRelayEnds(s))
  <2>1. /\ cpc' = cpc /\ (sem' = sem \/ spc[s] = "post")
        /\ \/ spc[s] = "clone" /\ spc'[s] \in {"header", "exited"} /\ cst'[s] \in {"mounting", cst[s]}
              /\ (cst'[s] = "mounting" => spc'[s] = "header" \/ cst[s] = "mounting")
           \/ spc[s] = "header" /\ spc'[s] = "record" /\ cst' = cst
           \/ spc[s] = "record" /\ spc'[s] = "listen" /\ cst' = cst
           \/ spc[s] = "listen" /\ spc'[s] \in {"post", "exited"} /\ cst' = cst
           \/ spc[s] = "post" /\ spc'[s] = "relay" /\ cst' = cst
           \/ spc[s] = "relay" /\ spc'[s] = "reap" /\ cst' = cst /\ cst[s] # "mounting"
           \/ spc[s] = "reap" /\ spc'[s] = "umount" /\ cst[s] = "zombie" /\ cst'[s] = "reaped"
           \/ SrvUmount(s) /\ spc[s] = "umount" /\ spc'[s] = "umount_volume" /\ cst' = cst
           \/ spc[s] \in {"umount_volume", "mark"} /\ cst' = cst
    BY <1>6 DEF ServerStep, ServerWork, SrvClone, SrvHeader, SrvRecord,
         SrvListen, SrvPost, SrvRelayEnds, SrvReap, SrvUmount, SrvUmountVolume, SrvMark,
         SrvDbStep, SrvGoto, cliVars, instVars
  <2>2. spc[s] = "clone" => cst[s] = "none"
    BY DEF Coupled
  <2>. QED  BY <2>1, <2>2
<1>7. ~ServerKilled(s)
  BY DEF ServerKilled
<1>8. CASE ForeignStarts \/ UNCHANGED vars
  BY <1>1, <1>8 DEF ForeignStarts, vars, cliVars, srvVars, instVars
<1>9. ASSUME NEW d \in Cmds, EnvStep(d)
      PROVE  \/ d # s \/ InstanceSpeaks(s) \/ InstanceExits(s) \/ ServerKilled(s)
             \/ (cst[s] = "running" /\ SrvRelayEnds(s))
  BY <1>9 DEF EnvStep
<1>10. ASSUME NEW c \in Cmds, CliStep(c)
       PROVE  /\ spc[s] \in Attached => spc'[s] = spc[s]
              /\ spc[s] = "umount" => spc'[s] = "umount"
              /\ cpc[s] = "wait" /\ sem[s] = 1 => cpc'[s] = "wait" /\ sem'[s] = 1 /\ spc'[s] = spc[s]
              /\ cst[s] \in {"running", "zombie", "reaped"} =>
                   cst'[s] \in {"running", "zombie", "reaped"}
              /\ cst'[s] = "mounting" => cst[s] = "mounting"
  BY <1>3, <1>10
<1>11. ASSUME NEW c \in Cmds, CliStep(c)
       PROVE  StuckAt(s) => StuckAt(s)'
  BY <1>10, <1>11
<1>. QED
  BY <1>1, <1>2, <1>4, <1>5, <1>6, <1>7, <1>8, <1>9, <1>10, <1>11 DEF Next

LEMMA ClaimHeldStep ==
    ASSUME TypeOK, RegInv, Coupled, ~ServerMayDie, ClaimHeld, [Next]_vars
    PROVE  ClaimHeld'
<1>1. RegistryCase /\ ServersKept
  BY RegistrySteps
<1>2. \A s \in Cmds : StuckAt(s) => StuckAt(s)'
  BY ServerMoves
<1>3. \A s \in Cmds : spc[s] = "listen" /\ spc'[s] = "exited" => StuckAt(s)'
  <2>. SUFFICES ASSUME NEW s \in Cmds, spc[s] = "listen", spc'[s] = "exited"
                PROVE  StuckAt(s)'
    OBVIOUS
  <2>1. cpc[s] = "wait" /\ sem[s] = 1
    BY DEF Coupled, Starting
  <2>. QED  BY <2>1, ServerMoves DEF StuckAt
<1>4. \A s \in Cmds : spc[s] # "none" => IdOf(s)' = IdOf(s) /\ IdOf(s) \in Ids
  BY <1>1 DEF ServersKept, RegInv, ForksOnce, CommandsIdentified, IdOf
<1>5. \A s \in Cmds : spc[s] \in Claimed \cup Cleaning \cup {"exited", "record"} =>
        pid'[s] = pid[s] /\ IdOf(s)' = IdOf(s) /\ IdOf(s) \in Ids
  BY <1>1, <1>4 DEF ServersKept, Claimed, Cleaning
<1>. SUFFICES ASSUME NEW id \in Ids, db'[id] # NoRecord, IsRunning(db'[id])
              PROVE  \E s \in Cmds :
                        /\ IdOf(s)' = id /\ pid'[s] = db'[id].pid
                        /\ spc'[s] \in Claimed \cup Cleaning \/ StuckAt(s)'
  BY DEF ClaimHeld, IsRunning
<1>6. ASSUME db[id] # NoRecord, IsRunning(db[id]), db'[id].pid = db[id].pid,
             \A s \in Cmds : IdOf(s) = id /\ spc[s] \in Claimed \cup Cleaning =>
                spc'[s] \in Claimed \cup Cleaning \/ StuckAt(s)'
      PROVE  \E s \in Cmds :
                /\ IdOf(s)' = id /\ pid'[s] = db'[id].pid
                /\ spc'[s] \in Claimed \cup Cleaning \/ StuckAt(s)'
  <2>1. PICK s \in Cmds : /\ IdOf(s) = id /\ pid[s] = db[id].pid
                          /\ spc[s] \in Claimed \cup Cleaning \/ StuckAt(s)
    BY <1>6 DEF ClaimHeld
  <2>2. spc'[s] \in Claimed \cup Cleaning \/ StuckAt(s)'
    BY <1>2, <1>6, <2>1
  <2>3. pid'[s] = pid[s] /\ IdOf(s)' = IdOf(s)
    BY <1>5, <2>1 DEF StuckAt
  <2>. QED  BY <1>6, <2>1, <2>2, <2>3
<1>7. CASE NotWritten
  <2>1. \A s \in Cmds : IdOf(s) = id /\ spc[s] \in Claimed \cup Cleaning =>
          spc'[s] \in Claimed \cup Cleaning \/ StuckAt(s)'
    BY <1>3, <1>7 DEF NotWritten
  <2>. QED  BY <1>6, <1>7, <2>1 DEF NotWritten
<1>8. ASSUME NEW i \in Ids, Refreshed(i)
      PROVE  \E s \in Cmds :
                /\ IdOf(s)' = id /\ pid'[s] = db'[id].pid
                /\ spc'[s] \in Claimed \cup Cleaning \/ StuckAt(s)'
  <2>1. \A s \in Cmds : spc[s] \in Claimed \cup Cleaning => spc'[s] \in Claimed \cup Cleaning
    BY <1>8 DEF Refreshed, Cleaning
  <2>2. db[id] # NoRecord /\ IsRunning(db[id]) /\ db'[id].pid = db[id].pid
    <3>1. CASE i = id
      <4>1. db[id] \in Info /\ db'[id] = Checked(db[id]) /\ db[id] # NoRecord
        BY <1>8, <3>1 DEF Refreshed, TypeOK
      <4>. QED  BY <4>1, CheckedPid
    <3>2. CASE i # id
      BY <1>8, <3>2 DEF Refreshed, TypeOK
    <3>. QED  BY <3>1, <3>2
  <2>. QED  BY <1>6, <2>1, <2>2
<1>9. ASSUME NEW t \in Cmds, MarkedBy(t)
      PROVE  \E s \in Cmds :
                /\ IdOf(s)' = id /\ pid'[s] = db'[id].pid
                /\ spc'[s] \in Claimed \cup Cleaning \/ StuckAt(s)'
  <2>1. IdOf(t) # id
    <3>. SUFFICES ASSUME IdOf(t) = id PROVE FALSE
      OBVIOUS
    <3>1. db[id] \in Info /\ db'[id] = Stopped(db[id])
      BY <1>9 DEF MarkedBy, TypeOK
    <3>. QED  BY <3>1, CheckedPid
  <2>2. db'[id] = db[id] /\ \A s \in Cmds : IdOf(s) = id => spc'[s] = spc[s]
    BY <1>9, <2>1 DEF MarkedBy, TypeOK
  <2>. QED  BY <1>6, <2>2
<1>10. ASSUME NEW t \in Cmds, RecordedBy(t)
      PROVE  \E s \in Cmds :
                /\ IdOf(s)' = id /\ pid'[s] = db'[id].pid
                /\ spc'[s] \in Claimed \cup Cleaning \/ StuckAt(s)'
  <2>1. CASE IdOf(t) = id
    <3>1. cmd[t].info \in Info
      BY DEF TypeOK, Cmd
    <3>2. Running(cmd[t].info, pid[t]).pid = pid[t]
      BY <3>1 DEF Running, Info
    <3>3. db'[id].pid = pid[t] /\ spc[t] = "record" /\ spc'[t] = "listen"
      BY <1>10, <2>1, <3>2 DEF RecordedBy, TypeOK
    <3>4. pid'[t] = pid[t] /\ IdOf(t)' = id
      BY <1>5, <2>1, <3>3
    <3>. QED  BY <3>3, <3>4 DEF Claimed
  <2>2. CASE IdOf(t) # id
    <3>1. db'[id] = db[id] /\ \A s \in Cmds : IdOf(s) = id => spc'[s] = spc[s]
      BY <1>10, <2>2 DEF RecordedBy, TypeOK
    <3>. QED  BY <1>6, <3>1
  <2>. QED  BY <2>1, <2>2
<1>11. ASSUME NEW c \in Cmds, DeletedBy(c)
      PROVE  \E s \in Cmds :
                /\ IdOf(s)' = id /\ pid'[s] = db'[id].pid
                /\ spc'[s] \in Claimed \cup Cleaning \/ StuckAt(s)'
  <2>1. db'[id] = db[id] /\ spc' = spc
    BY <1>11 DEF DeletedBy, TypeOK
  <2>. QED  BY <1>6, <2>1
<1>. QED  BY <1>1, <1>7, <1>8, <1>9, <1>10, <1>11 DEF RegistryCase

LEMMA MountingStep ==
    ASSUME TypeOK, RegInv, Coupled, ~ServerMayDie, MountingServed, [Next]_vars
    PROVE  MountingServed'
<1>. SUFFICES ASSUME NEW s \in Cmds, cst'[s] = "mounting"
              PROVE  spc'[s] \in Attached \ {"reap"} \/ StuckAt(s)'
  BY DEF MountingServed
<1>1. CASE spc'[s] = "header"
  BY <1>1 DEF Attached
<1>2. CASE cst[s] = "mounting" /\ spc[s] \in Attached \ {"reap"}
  <2>1. spc[s] = "listen" => cpc[s] = "wait" /\ sem[s] = 1
    BY DEF Coupled, Starting
  <2>. QED  BY <1>2, <2>1, ServerMoves DEF StuckAt
<1>3. CASE cst[s] = "mounting" /\ StuckAt(s)
  BY <1>3, ServerMoves
<1>. QED  BY <1>1, <1>2, <1>3, ServerMoves DEF MountingServed

LEMMA MountHeldStep ==
    ASSUME TypeOK, RegInv, Coupled, OneActive, BusyUnique, ~ServerMayDie, MountingServed,
           MountHeld, [Next]_vars
    PROVE  MountHeld'
<1>1. ServersKept
  BY RegistrySteps
<1>2. \A s \in Cmds : spc[s] # "none" => IdOf(s)' = IdOf(s) /\ IdOf(s) \in Ids
  BY <1>1 DEF ServersKept, RegInv, ForksOnce, CommandsIdentified, IdOf
<1>3. \A s \in Cmds : cst[s] # "none" => spc[s] # "none"
  BY DEF Coupled
<1>. DEFINE Holds(s) == /\ cst[s] \in {"running", "zombie", "reaped"}
                        /\ spc[s] \in Attached \cup {"umount"} \/ StuckAt(s)
<1>4. ASSUME NEW s \in Cmds, Holds(s)
      PROVE  Holds(s)' \/ SrvUmount(s)
  <2>1. spc[s] = "listen" => cpc[s] = "wait" /\ sem[s] = 1
    BY DEF Coupled, Starting
  <2>. QED  BY <1>4, <2>1, ServerMoves DEF StuckAt
<1>5. ASSUME NEW id \in Ids, mounted'[id] = mounted[id],
             \A s \in Cmds : SrvUmount(s) => IdOf(s) # id
      PROVE  /\ mounted'[id] \in {0, 1}
             /\ mounted'[id] = 1 => \E s \in Cmds : IdOf(s)' = id /\ Holds(s)'
  <2>1. CASE mounted[id] = 1
    <3>1. PICK s \in Cmds : IdOf(s) = id /\ Holds(s)
      BY <2>1 DEF MountHeld
    <3>2. IdOf(s)' = id /\ Holds(s)'
      BY <1>2, <1>3, <1>4, <1>5, <3>1
    <3>. QED  BY <1>5, <2>1, <3>2
  <2>. QED  BY <1>5, <2>1 DEF MountHeld
<1>. HIDE DEF Holds
<1>6. ASSUME mounted' = mounted, \A s \in Cmds : ~SrvUmount(s)
      PROVE  MountHeld'
  BY <1>5, <1>6 DEF MountHeld, Holds
<1>7. ASSUME NEW s \in Cmds, InstanceMounts(s)
      PROVE  MountHeld'
  <2>1. /\ cst[s] = "mounting" /\ spc' = spc
        /\ \/ /\ mounted' = [mounted EXCEPT ![IdOf(s)] = @ + 1]
              /\ cst'[s] \in {"running", "zombie"}
           \/ mounted' = mounted
    BY <1>7 DEF InstanceMounts, InstGoto, srvVars, TypeOK
  <2>2. \A t \in Cmds : ~SrvUmount(t)
    <3>1. \A t \in Cmds : SrvUmount(t) => spc'[t] # spc[t]
      BY DEF SrvUmount, SrvGoto, TypeOK
    <3>. QED  BY <2>1, <3>1
  <2>3. CASE mounted' = mounted
    BY <1>6, <2>2, <2>3
  <2>4. CASE mounted' = [mounted EXCEPT ![IdOf(s)] = @ + 1] /\ cst'[s] \in {"running", "zombie"}
    <3>1. IdOf(s) \in Ids /\ IdOf(s)' = IdOf(s) /\ Active(s) /\ Busy(s)
      BY <1>2, <1>3, <2>1 DEF Active, Busy, HasProcess
    <3>2. mounted[IdOf(s)] = 0
      <4>. SUFFICES ASSUME mounted[IdOf(s)] = 1 PROVE FALSE
        BY <3>1 DEF MountHeld
      <4>1. PICK t \in Cmds : /\ IdOf(t) = IdOf(s) /\ cst[t] \in {"running", "zombie", "reaped"}
                              /\ spc[t] \in Attached \cup {"umount"} \/ StuckAt(t)
        BY <3>1 DEF MountHeld
      <4>2. t # s
        BY <2>1, <4>1
      <4>3. CASE StuckAt(t)
        BY <3>1, <4>2, <4>3 DEF StuckAt, Active, OneActive
      <4>4. CASE spc[t] \in Attached \cup {"umount"}
        BY <3>1, <4>1, <4>2, <4>4 DEF Attached, Busy, BusyUnique
      <4>. QED  BY <4>1, <4>3, <4>4
    <3>3. mounted'[IdOf(s)] = 1 /\ \A id \in Ids : id # IdOf(s) => mounted'[id] = mounted[id]
      BY <2>4, <3>1, <3>2 DEF TypeOK
    <3>4. Holds(s)'
      <4>1. spc[s] \in Attached \ {"reap"} \/ StuckAt(s)
        BY <2>1 DEF MountingServed
      <4>2. spc'[s] \in Attached \cup {"umount"} \/ StuckAt(s)'
        BY <2>1, <4>1, ServerMoves
      <4>. QED  BY <2>4, <4>2 DEF Holds
    <3>5. \A id \in Ids : id # IdOf(s) =>
            /\ mounted'[id] \in {0, 1}
            /\ mounted'[id] = 1 => \E t \in Cmds : IdOf(t)' = id /\ Holds(t)'
      BY <1>5, <2>2, <3>3
    <3>6. \A id \in Ids :
            /\ mounted'[id] \in {0, 1}
            /\ mounted'[id] = 1 => \E t \in Cmds : IdOf(t)' = id /\ Holds(t)'
      BY <3>1, <3>3, <3>4, <3>5
    <3>. QED  BY <3>6 DEF MountHeld, Holds
  <2>. QED  BY <2>1, <2>3, <2>4
<1>8. ASSUME NEW s \in Cmds, SrvUmount(s)
      PROVE  MountHeld'
  <2>1. /\ spc[s] = "umount" /\ cst[s] = "reaped" /\ IdOf(s) \in Ids
        /\ spc' = [spc EXCEPT ![s] = "umount_volume"]
    BY <1>2, <1>8 DEF SrvUmount, SrvGoto, Coupled, Cleaning
  <2>2. LiveInstances(IdOf(s)) = {}
    BY <2>1 DEF LiveInstances, BusyUnique, Busy, HasProcess
  <2>3. mounted' = [mounted EXCEPT ![IdOf(s)] = IF @ > 0 THEN @ - 1 ELSE 0]
    BY <1>8, <2>2 DEF SrvUmount
  <2>4. mounted'[IdOf(s)] = 0 /\ \A id \in Ids : id # IdOf(s) => mounted'[id] = mounted[id]
    <3>1. mounted[IdOf(s)] \in {0, 1}
      BY <2>1 DEF MountHeld
    <3>. QED  BY <2>1, <2>3, <3>1 DEF TypeOK
  <2>5. \A t \in Cmds : SrvUmount(t) => t = s
    <3>1. \A t \in Cmds : SrvUmount(t) => spc'[t] # spc[t]
      BY DEF SrvUmount, SrvGoto, TypeOK
    <3>. QED  BY <2>1, <3>1 DEF TypeOK
  <2>6. \A id \in Ids : id # IdOf(s) =>
          /\ mounted'[id] \in {0, 1}
          /\ mounted'[id] = 1 => \E t \in Cmds : IdOf(t)' = id /\ Holds(t)'
    BY <1>5, <2>4, <2>5
  <2>7. \A id \in Ids :
          /\ mounted'[id] \in {0, 1}
          /\ mounted'[id] = 1 => \E t \in Cmds : IdOf(t)' = id /\ Holds(t)'
    BY <2>4, <2>6
  <2>. QED  BY <2>7 DEF MountHeld, Holds
<1>9. ASSUME NEW c \in Cmds, CliStep(c)
      PROVE  mounted' = mounted
  BY <1>9 DEF CliStep, Fork, WaitForServer, Connect, SetNs, StopGet, SigTerm, SigKill,
              RemoveSockdir, RemoveLayer, DeleteRecord, fsVars
<1>10. ASSUME NEW c \in Cmds, UserStep(c)
      PROVE  mounted' = mounted
  <2>1. ASSUME NEW op, NEW running, NEW stopped, LookupStep(c, op, running, stopped)
        PROVE  mounted' = mounted
    BY <2>1 DEF LookupStep, fsVars
  <2>2. CASE Run(c) \/ ClientEnds(c)
    BY <2>2 DEF Run, ClientEnds, fsVars
  <2>. QED  BY <1>10, <2>1, <2>2, UserCases
<1>11. ASSUME NEW s \in Cmds, ServerStep(s) \/ EnvStep(s) \/ InstanceStep(s)
      PROVE  InstanceMounts(s) \/ SrvUmount(s) \/ mounted' = mounted
  BY <1>11 DEF ServerStep, ServerWork, EnvStep, InstanceStep, SrvClone, SrvHeader, SrvRecord,
         SrvListen, SrvPost, SrvRelayEnds, SrvReap, SrvUmountVolume, SrvMark,
         SrvDbStep, ServerKilled, InstanceSpeaks, InstanceExits, InstanceSetupFails,
         OrphanReaped, fsVars
<1>12. CASE ForeignStarts \/ UNCHANGED vars
  <2>1. mounted' = mounted
    BY <1>12 DEF ForeignStarts, vars, fsVars
  <2>. QED  BY <1>6, <1>8, <2>1
<1>. QED  BY <1>6, <1>7, <1>8, <1>9, <1>10, <1>11, <1>12 DEF Next

\* Where everything has settled, no command is stuck and the servers serve.
LEMMA SettledStatus ==
    ASSUME TypeOK, RegInv, SeqInv, ClaimHeld, MountHeld
    PROVE  StatusTrue
<1>. SUFFICES ASSUME Settled, NEW id \in Ids
              PROVE  /\ mounted[id] = Cardinality(LiveInstances(id))
                     /\ db[id] # NoRecord =>
                          /\ IsRunning(db[id]) => \E s \in LiveInstances(id) : pid[s] = db[id].pid
                          /\ ~IsRunning(db[id]) => LiveInstances(id) = {}
  BY DEF StatusTrue
<1>1. \A s \in Cmds : ~Active(s) /\ (Busy(s) => spc[s] = "relay" /\ cst[s] = "running")
  BY SettledIdle DEF SeqInv
<1>2. \A s \in Cmds : ~StuckAt(s)
  BY <1>1 DEF StuckAt, Active
<1>3. \A s \in Cmds : spc[s] \in Claimed \cup Cleaning \cup Attached =>
        spc[s] = "relay" /\ cst[s] = "running"
  BY <1>1 DEF Busy, Claimed, Cleaning, Attached
<1>4. \A s \in LiveInstances(id) : s \in Cmds /\ IdOf(s) = id /\ spc[s] = "relay" /\ cst[s] = "running"
  BY <1>1 DEF LiveInstances, Busy, HasProcess
<1>5. \A s \in Cmds : IdOf(s) = id /\ cst[s] = "running" => s \in LiveInstances(id)
  BY DEF LiveInstances
<1>6. ASSUME db[id] # NoRecord, IsRunning(db[id])
      PROVE  \E s \in LiveInstances(id) : pid[s] = db[id].pid
  BY <1>2, <1>3, <1>5, <1>6 DEF ClaimHeld
<1>7. ASSUME db[id] # NoRecord, ~IsRunning(db[id])
      PROVE  LiveInstances(id) = {}
  BY <1>4, <1>7 DEF SeqInv, ClaimsMade, Claimed
<1>8. mounted[id] \in {0, 1}
  BY DEF MountHeld
<1>9. LiveInstances(id) # {} => mounted[id] = 1
  <2>. SUFFICES ASSUME NEW s \in LiveInstances(id)
                PROVE  mounted[id] = 1
    OBVIOUS
  <2>1. mounted[id] > 0
    BY <1>4 DEF SeqInv, LiveIsMounted
  <2>. QED  BY <1>8, <2>1
<1>10. mounted[id] = 1 => LiveInstances(id) # {}
  <2>. SUFFICES ASSUME mounted[id] = 1
                PROVE  LiveInstances(id) # {}
    OBVIOUS
  <2>1. PICK s \in Cmds : IdOf(s) = id /\ spc[s] \in Attached \cup {"umount"}
    BY <1>2 DEF MountHeld
  <2>2. spc[s] \in Claimed \cup Cleaning \cup Attached
    BY <2>1 DEF Cleaning
  <2>. QED  BY <1>3, <1>5, <2>1, <2>2
<1>11. mounted[id] = Cardinality(LiveInstances(id))
  <2>1. \/ LiveInstances(id) = {} /\ Cardinality(LiveInstances(id)) = 0
        \/ LiveInstances(id) # {} /\ Cardinality(LiveInstances(id)) = 1
    BY LiveCount DEF SeqInv
  <2>. QED  BY <1>8, <1>9, <1>10, <2>1
<1>. QED  BY <1>6, <1>7, <1>11

LEMMA HeldInvariant ==
    ASSUME Sequential, ~ServerMayDie
    PROVE  Spec => [](TypeOK /\ RegInv /\ SeqInv /\ ClaimHeld /\ MountingServed /\ MountHeld)
<1>1. Init => ClaimHeld /\ MountingServed /\ MountHeld
  <2>. SUFFICES ASSUME Init PROVE ClaimHeld /\ MountingServed /\ MountHeld
    OBVIOUS
  <2>1. \A id \in Ids : db[id] # NoRecord => ~IsRunning(db[id])
    BY DEF Init, Stopped, Unset, IsRunning, CONTAINER_RUNNING, CONTAINER_STOPED
  <2>2. \A s \in Cmds : cst[s] # "mounting"
    BY DEF Init
  <2>3. \A id \in Ids : mounted[id] = 0
    BY DEF Init
  <2>. QED  BY <2>1, <2>2, <2>3 DEF ClaimHeld, MountingServed, MountHeld
<1>2. TypeOK /\ RegInv /\ SeqInv /\ ClaimHeld /\ MountingServed /\ MountHeld /\ [Next]_vars
        => ClaimHeld' /\ MountingServed' /\ MountHeld'
  BY ClaimHeldStep, MountingStep, MountHeldStep DEF SeqInv
<1>. QED  BY <1>1, <1>2, SequentialInvariant, PTL DEF Spec

\* Whenever the commands have returned and the servers are relaying or have
\* ended, the registry says running of exactly the containers that run, with
\* their pids, and exactly those have their file systems mounted, once.
\* System calls may have failed and pids may have been reused.
THEOREM SequentialStatusTrue ==
    ASSUME Sequential, ~ServerMayDie
    PROVE  Spec => []StatusTrue
<1>1. TypeOK /\ RegInv /\ SeqInv /\ ClaimHeld /\ MountHeld => StatusTrue
  BY SettledStatus
<1>. QED  BY <1>1, HeldInvariant, PTL

-----------------------------------------------------------------------------
(* Pids read from the registry, if the kernel is slow to reuse them *)

\* The pid is not free for others: of a process that is there, or of a
\* container whose server has yet to finish.
Owns(s) == HasProcess(s) \/ spc[s] \in Attached \cup Cleaning

PidsDistinct ==
    /\ \A s, t \in Cmds : Owns(s) /\ Owns(t) /\ pid[s] = pid[t] => s = t
    /\ \A s \in Cmds : Owns(s) => pid[s] \notin foreign

Using == {"setns", "term", "sleep"}

\* The pid a command is about to use is its container's, or nobody's.
UsesOwn ==
    \A c \in Cmds : cpc[c] \in Using => ~Strays(cmd[c].found.pid, cmd[c].found.id)

\* A pid is taken while nobody goes by it.
LEMMA FreeForGood ==
    ASSUME SlowReuse, NEW p \in FreePids
    PROVE  /\ p \notin foreign
           /\ \A s \in Cmds : HasProcess(s) => pid[s] # p
           /\ \A s \in Cmds : pid[s] = p => spc[s] = "exited"
           /\ \A c \in Cmds : cpc[c] \in Using => cmd[c].found.pid # p
  BY DEF FreePids, Live, GoesBy, Using

\* A step gives at most one free pid away, to a new container or to another
\* program.
PidStep ==
    \/ /\ \A s \in Cmds : Owns(s)' => Owns(s) /\ pid'[s] = pid[s]
       /\ \A s \in Cmds : HasProcess(s)' => HasProcess(s)
       /\ foreign' \subseteq foreign
    \/ \E t \in Cmds, p \in FreePids :
        /\ pid'[t] = p /\ foreign' = foreign
        /\ \A s \in Cmds : s # t => /\ Owns(s)' => Owns(s) /\ pid'[s] = pid[s]
                                    /\ HasProcess(s)' => HasProcess(s)
        /\ cmd' = cmd /\ cpc' = cpc
    \/ \E p \in FreePids :
        /\ foreign' = foreign \cup {p}
        /\ UNCHANGED <<cmd, cpc, spc, cst, pid>>

LEMMA PidSteps ==
    ASSUME TypeOK, RegInv, Coupled, [Next]_vars
    PROVE  PidStep
<1>1. ASSUME \A s \in Cmds : spc'[s] = spc[s] /\ pid'[s] = pid[s],
             \A s \in Cmds : HasProcess(s)' => HasProcess(s),
             foreign' \subseteq foreign
      PROVE  PidStep
  BY <1>1 DEF PidStep, Owns
<1>2. ASSUME NEW c \in Cmds, UserStep(c)
      PROVE  PidStep
  <2>1. ASSUME NEW op, NEW running, NEW stopped, LookupStep(c, op, running, stopped)
        PROVE  spc' = spc /\ pid' = pid /\ cst' = cst /\ foreign' = foreign
    BY <2>1 DEF LookupStep, srvVars, instVars, envVars
  <2>2. CASE Run(c) \/ ClientEnds(c)
    BY <1>1, <2>2 DEF Run, ClientEnds, srvVars, instVars, envVars, HasProcess
  <2>. QED  BY <1>1, <1>2, <2>1, <2>2, UserCases DEF HasProcess
<1>3. ASSUME NEW c \in Cmds, CliStep(c)
      PROVE  PidStep
  <2>1. CASE Fork(c)
    <3>1. pid' = pid /\ cst' = cst /\ foreign' = foreign
      BY <2>1 DEF Fork, instVars, envVars
    <3>2. \A s \in Cmds : spc'[s] = spc[s] \/ spc'[s] = "clone"
      BY <2>1 DEF Fork, TypeOK
    <3>. QED  BY <3>1, <3>2 DEF PidStep, Owns, HasProcess, Attached, Cleaning
  <2>2. CASE SigKill(c)
    <3>1. /\ spc' = spc /\ pid' = pid /\ foreign' \subseteq foreign
          /\ \A s \in Cmds : HasProcess(s)' => HasProcess(s)
      BY <2>2 DEF SigKill, srvVars, HasProcess, TypeOK
    <3>. QED  BY <1>1, <3>1
  <2>3. CASE \/ WaitForServer(c) \/ Connect(c) \/ SetNs(c) \/ StopGet(c) \/ SigTerm(c)
             \/ RemoveSockdir(c) \/ RemoveLayer(c) \/ DeleteRecord(c)
    <3>1. spc' = spc /\ pid' = pid /\ cst' = cst /\ foreign' = foreign
      BY <2>3 DEF WaitForServer, Connect, SetNs, StopGet, SigTerm, RemoveSockdir, RemoveLayer,
                  DeleteRecord, srvVars, instVars, envVars
    <3>. QED  BY <1>1, <3>1 DEF HasProcess
  <2>. QED  BY <1>3, <2>1, <2>2, <2>3 DEF CliStep
<1>4. ASSUME NEW s \in Cmds, ServerStep(s) \/ EnvStep(s) \/ InstanceStep(s)
      PROVE  PidStep
  <2>1. CASE SrvClone(s)
    <3>1. CASE \E p \in FreePids : pid' = [pid EXCEPT ![s] = p]
      <4>1. PICK p \in FreePids : pid' = [pid EXCEPT ![s] = p]
        BY <3>1
      <4>2. /\ pid'[s] = p /\ foreign' = foreign /\ cmd' = cmd /\ cpc' = cpc
            /\ \A t \in Cmds : t # s => pid'[t] = pid[t] /\ cst'[t] = cst[t] /\ spc'[t] = spc[t]
        BY <2>1, <4>1 DEF SrvClone, SrvGoto, envVars, cliVars, TypeOK
      <4>. QED  BY <4>2 DEF PidStep, Owns, HasProcess
    <3>2. CASE SrvGoto(s, "exited") /\ UNCHANGED <<pid, cst>>
      <4>1. foreign' = foreign /\ \A t \in Cmds : spc'[t] = spc[t] \/ spc'[t] = "exited"
        BY <2>1, <3>2 DEF SrvClone, SrvGoto, envVars, TypeOK
      <4>. QED  BY <3>2, <4>1 DEF PidStep, Owns, HasProcess, Attached, Cleaning
    <3>. QED  BY <2>1, <3>1, <3>2 DEF SrvClone
  <2>2. CASE ~SrvClone(s)
    <3>1. /\ pid' = pid /\ foreign' = foreign
          /\ \A t \in Cmds : t # s => cst'[t] = cst[t] /\ spc'[t] = spc[t]
          /\ cst'[s] = cst[s] \/ cst'[s] = "reaped" \/ HasProcess(s)
          /\ spc'[s] = spc[s] \/ spc'[s] = "exited" \/ spc[s] \in Attached \cup Cleaning
      BY <1>4, <2>2 DEF ServerStep, ServerWork, EnvStep, InstanceStep, SrvHeader, SrvRecord,
         SrvListen, SrvPost, SrvRelayEnds, SrvReap, SrvUmount, SrvUmountVolume, SrvMark,
         SrvDbStep, ServerKilled, InstanceSpeaks, InstanceExits, InstanceSetupFails,
         InstanceMounts, OrphanReaped, SrvGoto, InstGoto, HasProcess, srvVars, instVars, envVars,
         Attached, Cleaning, TypeOK
    <3>. QED  BY <3>1 DEF PidStep, Owns, HasProcess, Attached, Cleaning
  <2>. QED  BY <2>1, <2>2
<1>5. CASE ForeignStarts
  BY <1>5 DEF ForeignStarts, PidStep, cliVars, srvVars, instVars
<1>6. CASE UNCHANGED vars
  BY <1>1, <1>6 DEF vars, cliVars, srvVars, instVars, envVars, HasProcess
<1>. QED  BY <1>2, <1>3, <1>4, <1>5, <1>6 DEF Next

LEMMA PidsDistinctStep ==
    ASSUME TypeOK, RegInv, Coupled, SlowReuse, PidsDistinct, [Next]_vars
    PROVE  PidsDistinct'
<1>1. ASSUME NEW p \in FreePids, NEW s \in Cmds, Owns(s)
      PROVE  pid[s] # p
  BY <1>1, FreeForGood DEF Owns, Attached, Cleaning
<1>2. CASE /\ \A s \in Cmds : Owns(s)' => Owns(s) /\ pid'[s] = pid[s]
           /\ foreign' \subseteq foreign
  BY <1>2 DEF PidsDistinct
<1>3. ASSUME NEW t \in Cmds, NEW p \in FreePids, pid'[t] = p, foreign' = foreign,
             \A s \in Cmds : s # t => (Owns(s)' => Owns(s) /\ pid'[s] = pid[s])
      PROVE  PidsDistinct'
  BY <1>1, <1>3, FreeForGood DEF PidsDistinct
<1>4. ASSUME NEW p \in FreePids, foreign' = foreign \cup {p}, UNCHANGED <<cmd, cpc, spc, cst, pid>>
      PROVE  PidsDistinct'
  <2>1. \A s \in Cmds : Owns(s)' <=> Owns(s)
    BY <1>4 DEF Owns, HasProcess
  <2>. QED  BY <1>1, <1>4, <2>1 DEF PidsDistinct
<1>. QED  BY <1>2, <1>3, <1>4, PidSteps DEF PidStep

\* What a lookup answers: the pid of a container that is running belongs to
\* the container that was asked for.
LEMMA AnswerIsOwn ==
    ASSUME TypeOK, RegInv, ClaimHeld, PidsDistinct, \A s \in Cmds : ~StuckAt(s),
           NEW id \in Ids, db[id] # NoRecord, IsRunning(Checked(db[id]))
    PROVE  ~Strays(Checked(db[id]).pid, id)
<1>1. db[id] \in Info
  BY DEF TypeOK
<1>2. IsRunning(db[id]) /\ Checked(db[id]).pid = db[id].pid
  BY <1>1, CheckedPid
<1>3. PICK s \in Cmds : /\ IdOf(s) = id /\ pid[s] = db[id].pid
                        /\ spc[s] \in Claimed \cup Cleaning
  BY <1>2 DEF ClaimHeld
<1>4. Owns(s)
  BY <1>3 DEF Owns, Claimed, Attached
<1>5. db[id].pid \notin foreign
  BY <1>3, <1>4 DEF PidsDistinct
<1>6. ASSUME NEW t \in Cmds, HasProcess(t), pid[t] = db[id].pid
      PROVE  IdOf(t) = id
  BY <1>3, <1>4, <1>6 DEF PidsDistinct, Owns
<1>. QED  BY <1>2, <1>5, <1>6 DEF Strays

\* Where a command gets a pid to use.
LEMMA UsingStep ==
    ASSUME TypeOK, RegInv, Coupled, [Next]_vars, NEW c \in Cmds, cpc'[c] \in Using
    PROVE  \/ /\ cpc[c] \in Using /\ cmd'[c] = cmd[c]
           \/ /\ \E id \in Ids : /\ db[id] # NoRecord /\ IsRunning(Checked(db[id]))
                                 /\ cmd'[c].found = Checked(db[id])
              /\ \A s \in Cmds : s # c => cmd'[s] = cmd[s]
              /\ cst' = cst /\ pid' = pid /\ foreign' = foreign /\ cst[c] = "none"
              /\ cpc[c] = "stop_get" \/ (Sequential => Settled)
<1>1. ASSUME NEW d \in Cmds, NEW op, NEW running, NEW stopped,
             LookupStep(d, op, running, stopped), stopped \cap Using = {}
      PROVE  \/ /\ cpc[c] \in Using /\ cmd'[c] = cmd[c]
             \/ /\ \E id \in Ids : /\ db[id] # NoRecord /\ IsRunning(Checked(db[id]))
                                   /\ cmd'[c].found = Checked(db[id])
                /\ \A s \in Cmds : s # c => cmd'[s] = cmd[s]
                /\ cst' = cst /\ pid' = pid /\ foreign' = foreign /\ cst[c] = "none"
                /\ cpc[c] = "stop_get" \/ (Sequential => Settled)
  <2>1. CASE d = c
    <3>1. /\ cst' = cst /\ pid' = pid /\ foreign' = foreign /\ (Sequential => Settled)
          /\ cpc[c] = "idle"
      BY <1>1, <2>1 DEF LookupStep, instVars, envVars
    <3>2. cst[c] = "none"
      BY <3>1 DEF RegInv, ForksOnce, Coupled
    <3>3. PICK id \in Ids, key \in Keys, detach \in BOOLEAN, step \in running \cup stopped :
            /\ db[id] # NoRecord
            /\ step \in IF IsRunning(Checked(db[id])) THEN running ELSE stopped
            /\ cpc' = [cpc EXCEPT ![c] = step]
            /\ cmd' = [cmd EXCEPT ![c] = [op |-> op, key |-> key, detach |-> detach,
                                          info |-> Checked(db[id]), found |-> Checked(db[id])]]
      BY <1>1, <2>1 DEF LookupStep, Using, TypeOK
    <3>4. cpc'[c] = step /\ IsRunning(Checked(db[id]))
      BY <1>1, <3>3 DEF TypeOK
    <3>5. cmd'[c].found = Checked(db[id]) /\ \A s \in Cmds : s # c => cmd'[s] = cmd[s]
      BY <3>3 DEF TypeOK
    <3>. QED  BY <3>1, <3>2, <3>3, <3>4, <3>5
  <2>2. CASE d # c
    BY <1>1, <2>2 DEF LookupStep, TypeOK
  <2>. QED  BY <2>1, <2>2
<1>2. ASSUME NEW d \in Cmds, UserStep(d)
      PROVE  \/ /\ cpc[c] \in Using /\ cmd'[c] = cmd[c]
             \/ \E op, running, stopped :
                  LookupStep(d, op, running, stopped) /\ stopped \cap Using = {}
  <2>1. CASE Run(d) \/ ClientEnds(d)
    BY <2>1 DEF Run, ClientEnds, CliFails, CliGoto, Using, TypeOK
  <2>2. CASE Start(d)
    BY <2>2, StartLooksUp DEF Using
  <2>3. CASE Stop(d)
    BY <2>3, StopLooksUp DEF Using
  <2>4. CASE Remove(d)
    BY <2>4, RemoveLooksUp DEF Using
  <2>5. CASE Attach(d)
    BY <2>5, AttachLooksUp DEF Using
  <2>6. CASE Exec(d)
    BY <2>6, ExecLooksUp DEF Using
  <2>. QED  BY <1>2, <2>1, <2>2, <2>3, <2>4, <2>5, <2>6 DEF UserStep
<1>3. ASSUME NEW d \in Cmds, CliStep(d), ~StopGet(d)
      PROVE  cpc[c] \in Using /\ cmd'[c] = cmd[c]
  BY <1>3 DEF CliStep, Fork, WaitForServer, Connect, SetNs, SigTerm, SigKill,
              RemoveSockdir, RemoveLayer, DeleteRecord, CliGoto, CliFails, AfterStop, Using, TypeOK
<1>4. ASSUME NEW d \in Cmds, StopGet(d)
      PROVE  \/ /\ cpc[c] \in Using /\ cmd'[c] = cmd[c]
             \/ /\ \E id \in Ids : /\ db[id] # NoRecord /\ IsRunning(Checked(db[id]))
                                   /\ cmd'[c].found = Checked(db[id])
                /\ \A s \in Cmds : s # c => cmd'[s] = cmd[s]
                /\ cst' = cst /\ pid' = pid /\ foreign' = foreign /\ cst[c] = "none"
                /\ cpc[c] = "stop_get" \/ (Sequential => Settled)
  <2>1. CASE d = c
    <3>1. /\ cst' = cst /\ pid' = pid /\ foreign' = foreign /\ cpc[c] = "stop_get"
      BY <1>4, <2>1 DEF StopGet, instVars, envVars
    <3>2. cst[c] = "none"
      BY <3>1 DEF RegInv, ForksOnce, Coupled
    <3>3. PICK id \in Ids : /\ db[id] # NoRecord /\ IsRunning(Checked(db[id]))
                            /\ cmd' = [cmd EXCEPT ![c].found = Checked(db[id])]
      BY <1>4, <2>1 DEF StopGet, CliGoto, AfterStop, Matching, Using, TypeOK
    <3>4. cmd'[c].found = Checked(db[id]) /\ \A s \in Cmds : s # c => cmd'[s] = cmd[s]
      BY <3>3 DEF TypeOK, Cmd
    <3>. QED  BY <3>1, <3>2, <3>3, <3>4
  <2>2. CASE d # c
    BY <1>4, <2>2 DEF StopGet, CliGoto, TypeOK
  <2>. QED  BY <2>1, <2>2
<1>5. ASSUME NEW s \in Cmds, ServerStep(s) \/ EnvStep(s) \/ InstanceStep(s)
      PROVE  cpc[c] \in Using /\ cmd'[c] = cmd[c]
  BY <1>5 DEF ServerStep, ServerWork, EnvStep, InstanceStep, SrvClone, SrvHeader, SrvRecord,
         SrvListen, SrvPost, SrvRelayEnds, SrvReap, SrvUmount, SrvUmountVolume, SrvMark,
         SrvDbStep, ServerKilled, InstanceSpeaks, InstanceExits, InstanceSetupFails,
         InstanceMounts, OrphanReaped, cliVars
<1>6. CASE ForeignStarts \/ UNCHANGED vars
  BY <1>6 DEF ForeignStarts, vars, cliVars
<1>. QED  BY <1>1, <1>2, <1>3, <1>4, <1>5, <1>6 DEF Next

LEMMA UsesOwnStep ==
    ASSUME TypeOK, RegInv, SeqInv, ClaimHeld, Sequential, SlowReuse, PidsDistinct, UsesOwn,
           [Next]_vars
    PROVE  UsesOwn'
<1>. SUFFICES ASSUME NEW c \in Cmds, cpc'[c] \in Using
              PROVE  ~Strays(cmd[c].found.pid, cmd[c].found.id)'
  BY DEF UsesOwn
<1>1. Coupled
  BY DEF SeqInv
<1>2. \A s \in Cmds : HasProcess(s) => cmd'[s] = cmd[s]
  <2>1. ServersKept
    BY RegistrySteps
  <2>. QED  BY <1>1, <2>1, BusyHolds DEF Busy
<1>3. CASE cpc[c] \in Using /\ cmd'[c] = cmd[c]
  <2>. DEFINE p == cmd[c].found.pid
              i == cmd[c].found.id
  <2>1. ~Strays(p, i) /\ cmd'[c].found.id = i /\ cmd'[c].found.pid = p
    BY <1>3 DEF UsesOwn
  <2>2. p \notin foreign /\ \A s \in Cmds : HasProcess(s) /\ pid[s] = p => IdOf(s) = i
    BY <2>1 DEF Strays
  <2>3. \A q \in FreePids : q # p
    BY <1>3, FreeForGood
  <2>. HIDE DEF p, i
  <2>4. p \notin foreign'
    BY <1>1, <2>2, <2>3, PidSteps DEF PidStep
  <2>5. ASSUME NEW s \in Cmds, HasProcess(s)', pid'[s] = p
        PROVE  IdOf(s)' = i
    <3>1. HasProcess(s) /\ pid[s] = p
      <4>1. Owns(s)'
        BY <2>5 DEF Owns
      <4>. QED  BY <1>1, <2>3, <2>5, <4>1, PidSteps DEF PidStep, HasProcess
    <3>2. cmd'[s] = cmd[s]
      BY <1>2, <3>1
    <3>. QED  BY <2>2, <3>1, <3>2 DEF IdOf
  <2>. QED  BY <2>1, <2>4, <2>5 DEF Strays
<1>4. ASSUME NEW id \in Ids, db[id] # NoRecord, IsRunning(Checked(db[id])),
             cmd'[c].found = Checked(db[id]), \A s \in Cmds : s # c => cmd'[s] = cmd[s],
             cst' = cst, pid' = pid, foreign' = foreign, cst[c] = "none",
             cpc[c] = "stop_get" \/ Settled
      PROVE  ~Strays(cmd[c].found.pid, cmd[c].found.id)'
  <2>1. \A s \in Cmds : ~StuckAt(s)
    <3>1. CASE Settled
      BY <1>1, <3>1, SettledIdle DEF StuckAt, Active
    <3>2. CASE cpc[c] = "stop_get"
      BY <3>2 DEF StuckAt, Active, SeqInv, OneActive
    <3>. QED  BY <1>4, <3>1, <3>2
  <2>2. ~Strays(Checked(db[id]).pid, id)
    BY <1>4, <2>1, AnswerIsOwn
  <2>3. Checked(db[id]).id = id
    <3>1. db[id] \in Info /\ db[id].id = id
      BY <1>4 DEF TypeOK, RegInv, RecordsKeyed
    <3>. QED  BY <3>1, InfoKept
  <2>4. cmd'[c].found.id = id /\ cmd'[c].found.pid = Checked(db[id]).pid
    BY <1>4, <2>3
  <2>5. \A s \in Cmds : HasProcess(s)' => HasProcess(s) /\ IdOf(s)' = IdOf(s) /\ pid'[s] = pid[s]
    BY <1>4 DEF HasProcess, IdOf
  <2>. QED  BY <1>4, <2>2, <2>4, <2>5 DEF Strays
<1>. QED  BY <1>1, <1>3, <1>4, UsingStep

LEMMA SignalsStep ==
    ASSUME TypeOK, RegInv, UsesOwn, SignalsArrive, [Next]_vars
    PROVE  SignalsArrive'
<1>1. CASE strayed' = strayed
  BY <1>1, Zenon DEF SignalsArrive
<1>2. ASSUME NEW c \in Cmds, cpc[c] \in Using,
             strayed' = (strayed \/ Strays(cmd[c].found.pid, cmd[c].found.id))
      PROVE  SignalsArrive'
  BY <1>2, Zenon DEF SignalsArrive, UsesOwn
<1>3. ASSUME NEW c \in Cmds, SetNs(c) \/ SigTerm(c) \/ SigKill(c)
      PROVE  SignalsArrive'
  <2>1. CASE SetNs(c)
    <3>1. cpc[c] \in Using
      BY <2>1 DEF SetNs, Using
    <3>. QED  BY <1>1, <1>2, <2>1, <3>1, Zenon DEF SetNs
  <2>2. CASE SigTerm(c)
    <3>1. cpc[c] \in Using
      BY <2>2 DEF SigTerm, Using
    <3>. QED  BY <1>2, <2>2, <3>1, Zenon DEF SigTerm
  <2>3. CASE SigKill(c)
    <3>1. cpc[c] \in Using
      BY <2>3 DEF SigKill, Using
    <3>. QED  BY <1>2, <2>3, <3>1, Zenon DEF SigKill
  <2>. QED  BY <1>3, <2>1, <2>2, <2>3
<1>4. ASSUME NEW c \in Cmds, CliStep(c), ~(SetNs(c) \/ SigTerm(c) \/ SigKill(c))
      PROVE  strayed' = strayed
  BY <1>4 DEF CliStep, Fork, WaitForServer, Connect, StopGet, RemoveSockdir, RemoveLayer,
              DeleteRecord, envVars
<1>5. ASSUME NEW c \in Cmds, UserStep(c)
      PROVE  strayed' = strayed
  <2>1. ASSUME NEW op, NEW running, NEW stopped, LookupStep(c, op, running, stopped)
        PROVE  strayed' = strayed
    BY <2>1 DEF LookupStep, envVars
  <2>2. CASE Run(c) \/ ClientEnds(c)
    BY <2>2 DEF Run, ClientEnds, envVars
  <2>. QED  BY <1>5, <2>1, <2>2, UserCases
<1>6. ASSUME NEW s \in Cmds, ServerStep(s) \/ EnvStep(s) \/ InstanceStep(s)
      PROVE  strayed' = strayed
  BY <1>6 DEF ServerStep, ServerWork, EnvStep, InstanceStep, SrvClone, SrvHeader, SrvRecord,
         SrvListen, SrvPost, SrvRelayEnds, SrvReap, SrvUmount, SrvUmountVolume, SrvMark,
         SrvDbStep, ServerKilled, InstanceSpeaks, InstanceExits, InstanceSetupFails,
         InstanceMounts, OrphanReaped, envVars
<1>7. CASE ForeignStarts \/ UNCHANGED vars
  BY <1>1, <1>7 DEF ForeignStarts, vars, envVars
<1>. QED  BY <1>1, <1>3, <1>4, <1>5, <1>6, <1>7 DEF Next

\* The signals `stop` and `rm -f` send three seconds apart, and the namespaces
\* `exec` joins, are those of the container that was asked for, although the
\* pid comes from a record and other programs get pids that containers had:
\* a record never outlives the server that will mark it.
THEOREM SequentialSignalsArrive ==
    ASSUME Sequential, SlowReuse, ~ServerMayDie
    PROVE  Spec => []SignalsArrive
<1>. DEFINE Held == TypeOK /\ RegInv /\ SeqInv /\ ClaimHeld /\ MountingServed /\ MountHeld
<1>1. Init => PidsDistinct /\ UsesOwn /\ SignalsArrive
  <2>. SUFFICES ASSUME Init PROVE PidsDistinct /\ UsesOwn /\ SignalsArrive
    OBVIOUS
  <2>1. \A s \in Cmds : ~Owns(s) /\ cpc[s] = "idle"
    BY DEF Init, Owns, HasProcess, Attached, Cleaning
  <2>2. SignalsArrive
    BY Zenon DEF Init, SignalsArrive
  <2>. QED  BY <2>1, <2>2 DEF PidsDistinct, UsesOwn, Using
<1>2. Held /\ PidsDistinct /\ UsesOwn /\ SignalsArrive /\ [Next]_vars
        => PidsDistinct' /\ UsesOwn' /\ SignalsArrive'
  BY PidsDistinctStep, UsesOwnStep, SignalsStep DEF SeqInv
<1>3. Spec => []Held
  BY HeldInvariant
<1>. QED  BY <1>1, <1>2, <1>3, PTL DEF Spec
=============================================================================
