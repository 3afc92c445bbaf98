------------------------------ MODULE SemUtil ------------------------------
(***************************************************************************)
(* common/sem_util.cpp: System V semaphores.  Processes get the set of one *)
(* key with the value 1, which one of them creates, and use it as a lock:  *)
(* dec reserves it, inc releases it.  The kernel keeps the set when its    *)
(* creator dies, and undoes a dead process's reservation.                  *)
(***************************************************************************)
EXTENDS Integers, FiniteSets

CONSTANTS
    Procs,
    MAX_TRIES,   \* polls for a set that somebody else is making
    MaxCrashes   \* bound: processes that are killed

ASSUME SemAssumption ==
    /\ IsFiniteSet(Procs)
    /\ MAX_TRIES \in Nat \ {0}
    /\ MaxCrashes \in Nat

VARIABLES
    exists,  \* the key has a set
    made,    \* sets made for the key so far
    semval,  \* its value
    otime,   \* sem_otime is not 0: somebody has done a semop on it
    sempc,     \* sempc[p]: what process p does next
    semid,   \* semid[p]: which of the sets p's identifier names
    tries,   \* tries[p]: the poll that p is at
    semadj,  \* semadj[p]: what the kernel adds when p dies
    crashes

kernelSem == <<exists, made, semval, otime>>
semVars == <<kernelSem, sempc, semid, tries, semadj, crashes>>

SemSteps == {"semget", "setval", "semop", "semget2", "poll", "have", "dec", "holds",
             "exited", "killed"}

SemTypeOK ==
    /\ exists \in BOOLEAN /\ otime \in BOOLEAN
    /\ made \in 0..Cardinality(Procs)
    /\ semval \in 0..1
    /\ sempc \in [Procs -> SemSteps]
    /\ semid \in [Procs -> 0..Cardinality(Procs)]
    /\ tries \in [Procs -> 0..MAX_TRIES]
    /\ semadj \in [Procs -> 0..1]
    /\ crashes \in 0..MaxCrashes

SemInit ==
    /\ exists = FALSE /\ made = 0 /\ semval = 0 /\ otime = FALSE
    /\ sempc = [p \in Procs |-> "semget"]
    /\ semid = [p \in Procs |-> 0]
    /\ tries = [p \in Procs |-> 0]
    /\ semadj = [p \in Procs |-> 0]
    /\ crashes = 0

SemGoto(p, step) == sempc' = [sempc EXCEPT ![p] = step]

\* An identifier of a set that was removed is not that of its successor.
Valid(p) == exists /\ semid[p] = made

-----------------------------------------------------------------------------
(* get(key, 1) *)

\* Mutant: without IPC_EXCL everybody takes the set for a new one.
SemGet_Shares(p) ==
    /\ sempc[p] = "semget"
    /\ exists' = TRUE
    /\ made' = IF exists THEN made ELSE made + 1
    /\ semval' = IF exists THEN semval ELSE 0
    /\ otime' = IF exists THEN otime ELSE FALSE
    /\ semid' = [semid EXCEPT ![p] = made']
    /\ SemGoto(p, "setval")
    /\ UNCHANGED <<tries, semadj, crashes>>

\* semget(IPC_CREAT | IPC_EXCL): one process makes the set, which no semop has
\* touched; for another it exists.  No room for a set is err_exit.
SemGet(p) ==
    /\ sempc[p] = "semget"
    /\ \/ /\ ~exists
          /\ exists' = TRUE /\ made' = made + 1 /\ semval' = 0 /\ otime' = FALSE
          /\ semid' = [semid EXCEPT ![p] = made']
          /\ SemGoto(p, "setval")
       \/ ~exists /\ SemGoto(p, "exited") /\ UNCHANGED <<kernelSem, semid>>
       \/ exists /\ SemGoto(p, "semget2") /\ UNCHANGED <<kernelSem, semid>>
    /\ UNCHANGED <<tries, semadj, crashes>>

\* semctl(SETVAL, 0)
SemSetVal(p) ==
    /\ sempc[p] = "setval"
    /\ IF Valid(p) THEN semval' = 0 /\ SemGoto(p, "semop")
                   ELSE UNCHANGED semval /\ SemGoto(p, "exited")
    /\ UNCHANGED <<exists, made, otime, semid, tries, semadj, crashes>>

\* semop(+1), which tells the others that the set is ready.
SemReady(p) ==
    /\ sempc[p] = "semop"
    /\ IF Valid(p) THEN semval' = semval + 1 /\ otime' = TRUE /\ SemGoto(p, "have")
                   ELSE UNCHANGED <<semval, otime>> /\ SemGoto(p, "exited")
    /\ UNCHANGED <<exists, made, semid, tries, semadj, crashes>>

\* semget without IPC_CREAT
SemGet2(p) ==
    /\ sempc[p] = "semget2"
    /\ IF exists THEN semid' = [semid EXCEPT ![p] = made] /\ SemGoto(p, "poll")
                 ELSE UNCHANGED semid /\ SemGoto(p, "exited")
    /\ UNCHANGED <<kernelSem, tries, semadj, crashes>>

\* One round of the loop of MAX_TRIES polls, a second apart.
SemPoll(p) ==
    /\ sempc[p] = "poll"
    /\ \/ ~Valid(p) /\ SemGoto(p, "exited") /\ UNCHANGED tries
       \/ Valid(p) /\ otime /\ SemGoto(p, "have") /\ UNCHANGED tries
       \/ /\ Valid(p) /\ ~otime
          /\ tries' = [tries EXCEPT ![p] = @ + 1]
          /\ SemGoto(p, IF tries'[p] = MAX_TRIES THEN "exited" ELSE "poll")
    /\ UNCHANGED <<kernelSem, semid, semadj, crashes>>

-----------------------------------------------------------------------------
(* The operations *)

Reserve(p) ==
    /\ semval > 0
    /\ semval' = semval - 1
    /\ semadj' = [semadj EXCEPT ![p] = @ + 1]
    /\ SemGoto(p, "holds")

\* Nothing was reserved: -1 to the caller.
Refuse(p) == SemGoto(p, "have") /\ UNCHANGED <<semval, semadj>>

\* A caller that means to wait calls dec.
CallDec(p) ==
    /\ sempc[p] = "have"
    /\ SemGoto(p, "dec")
    /\ UNCHANGED <<kernelSem, semid, tries, semadj, crashes>>

\* dec goes on after EINTR, and fails when the set is gone.
Dec(p) ==
    /\ sempc[p] = "dec"
    /\ \/ Valid(p) /\ Reserve(p)
       \/ ~Valid(p) /\ SemGoto(p, "exited") /\ UNCHANGED <<semval, semadj>>
    /\ UNCHANGED <<exists, made, otime, semid, tries, crashes>>

\* dec_nowait, and dec_timeout at the moment that decides it.
DecAtOnce(p) ==
    /\ sempc[p] = "have"
    /\ IF Valid(p) /\ semval > 0 THEN Reserve(p) ELSE Refuse(p)
    /\ UNCHANGED <<exists, made, otime, semid, tries, crashes>>

Inc(p) ==
    /\ sempc[p] = "holds"
    /\ semval' = IF Valid(p) THEN semval + 1 ELSE semval
    /\ semadj' = [semadj EXCEPT ![p] = IF Valid(p) THEN @ - 1 ELSE @]
    /\ SemGoto(p, "have")
    /\ UNCHANGED <<exists, made, otime, semid, tries, crashes>>

\* remove: by a holder, who is the last that needs it.  The adjustments for the
\* set go with it.
SemRemove(p) ==
    /\ sempc[p] = "holds" /\ Valid(p)
    /\ exists' = FALSE
    /\ semadj' = [q \in Procs |-> 0]
    /\ SemGoto(p, "exited")
    /\ UNCHANGED <<made, semval, otime, semid, tries, crashes>>

\* A process is killed anywhere; the kernel undoes what it has not given back.
SemKilled(p) ==
    /\ crashes < MaxCrashes
    /\ sempc[p] \notin {"exited", "killed"}
    /\ crashes' = crashes + 1
    /\ semval' = IF Valid(p) THEN semval + semadj[p] ELSE semval
    /\ semadj' = [semadj EXCEPT ![p] = 0]
    /\ SemGoto(p, "killed")
    /\ UNCHANGED <<exists, made, otime, semid, tries>>

Getting(p) == SemGet(p) \/ SemSetVal(p) \/ SemReady(p) \/ SemGet2(p) \/ SemPoll(p)

SemStep(p) ==
    \/ Getting(p) \/ CallDec(p) \/ Dec(p) \/ DecAtOnce(p) \/ Inc(p)
    \/ SemRemove(p) \/ SemKilled(p)

SemNext == \E p \in Procs : SemStep(p)

SemSpec == SemInit /\ [][SemNext]_semVars

-----------------------------------------------------------------------------
(* Properties *)

Holders == {p \in Procs : sempc[p] = "holds" /\ semid[p] = made}

\* However the processes that make and find the set interleave, and whoever is
\* killed where, the value of a set that is ready and its holders are one: no
\* two hold it, and who waits for it while nobody does can have it.  And nobody
\* uses a set before the process that made it has given it its value.
OneToken ==
    /\ exists /\ otime => semval + Cardinality(Holders) = 1
    /\ \A p \in Procs : sempc[p] \in {"have", "dec", "holds"} /\ Valid(p) => otime
=============================================================================
