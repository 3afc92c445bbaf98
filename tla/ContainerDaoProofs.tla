------------------------- MODULE ContainerDaoProofs ------------------------
(***************************************************************************)
(* TLAPS proofs about ContainerDao, for any number of processes, ids,      *)
(* names and pids, any bound on the calls, and with or without overlapping *)
(* calls and killed processes.                                             *)
(***************************************************************************)
EXTENDS ContainerDao, TLAPS

-----------------------------------------------------------------------------
(* What the operators on records and on the JSON array return.             *)

\* A ContainerInfo nobody filled in has the type of a record, and stopping
\* or starting a record gives a record.
LEMMA InfoType ==
    /\ Unset \in Info
    /\ \A info \in Info : Stopped(info) \in Info
    /\ \A info \in Info, pid \in Pids : Running(info, pid) \in Info
    /\ \A id \in Ids, name \in Names \cup {NoName} :
         [Unset EXCEPT !.id = id, !.name = name] \in Info
  BY DEF Unset, Info, Stopped, Running, container_status_t,
         CONTAINER_RUNNING, CONTAINER_STOPED

\* Whatever the file holds, the parsed array is an array of records.
LEMMA RootType ==
    ASSUME file \in Array \cup {NoFile, Truncated}
    PROVE  Root(file) \in Array
  BY DEF Root, Array

\* The three ways ContainerDao changes the array give arrays of records.
LEMMA ArrayOps ==
    ASSUME NEW root \in Array, NEW info \in Info, NEW id
    PROVE  /\ Append(root, info) \in Array
           /\ UpdatedRoot(root, info) \in Array
           /\ RemainingRoot(root, id) \in Array
           /\ \A i \in DOMAIN root : [root EXCEPT ![i] = info] \in Array
<1>1. Append(root, info) \in Array
  BY DEF Array
<1>2. UpdatedRoot(root, info) \in Array
  BY DEF Array, UpdatedRoot
<1>3. RemainingRoot(root, id) \in Array
  BY DEF Array, RemainingRoot
<1>4. \A i \in DOMAIN root : [root EXCEPT ![i] = info] \in Array
  BY DEF Array
<1> QED BY <1>1, <1>2, <1>3, <1>4

LEMMA NoFrameType == NoFrame \in Frame
<1> DEFINE none == <<>>
<1>1. none \in Array
  BY DEF Array
<1>2. Unset \in Info
  BY InfoType
<1>z. 0 \in 0..3
  OBVIOUS
<1> HIDE DEF none
<1>3. [op |-> "none", key |-> NoName, info |-> Unset, root |-> none, buf |-> none,
       todo |-> 0, ret |-> "idle"] \in Frame
  BY <1>1, <1>2, <1>z DEF Frame, Ops, Steps
<1> QED BY <1>3 DEF NoFrame, none

\* A call is counted within the bound.
LEMMA CallType ==
    ASSUME calls \in [Procs -> 0..MaxCalls], NEW p \in Procs, Call(p)
    PROVE  calls' \in [Procs -> 0..MaxCalls]
<1>1. calls[p] + 1 \in 0..MaxCalls
  BY DaoAssumption DEF Call
<1> QED BY <1>1 DEF Call

\* Moving a process to a step with well-typed locals keeps both typed.
LEMMA GotoType ==
    ASSUME pc \in [Procs -> Steps], frame \in [Procs -> Frame],
           NEW p \in Procs, NEW step \in Steps, NEW f \in Frame, Goto(p, step, f)
    PROVE  pc' \in [Procs -> Steps] /\ frame' \in [Procs -> Frame]
  BY DEF Goto

-----------------------------------------------------------------------------
(* Type correctness.                                                       *)

LEMMA TypeInit == Init => TypeOK
  BY NoFrameType, DaoAssumption DEF Init, TypeOK, Steps, Array

LEMMA TypeStep ==
    ASSUME TypeOK, NEW p \in Procs, Step(p)
    PROVE  TypeOK'
<1> DEFINE f == frame[p]
<1>f. f \in Frame
  BY DEF TypeOK
<1>r. Root(file) \in Array
  BY RootType DEF TypeOK
<1> USE DEF TypeOK
<1>1. CASE CallInsert(p)
  <2>1. PICK id \in Ids \ issued, name \in Names \cup {NoName}, pid \in Pids \ alive :
          /\ Goto(p, "insert_read",
                [NoFrame EXCEPT !.op = "insert",
                                !.info = Running([Unset EXCEPT !.id = id, !.name = name], pid)])
          /\ issued' = issued \cup {id}
          /\ alive' = alive \cup {pid}
    BY <1>1 DEF CallInsert
  <2>2. Running([Unset EXCEPT !.id = id, !.name = name], pid) \in Info
    BY InfoType
  <2>3. [NoFrame EXCEPT !.op = "insert",
           !.info = Running([Unset EXCEPT !.id = id, !.name = name], pid)] \in Frame
    BY <2>2, NoFrameType DEF Frame, Ops
  <2>4. pc' \in [Procs -> Steps] /\ frame' \in [Procs -> Frame]
    BY <2>1, <2>3, GotoType DEF Steps
  <2> QED BY <1>1, <2>1, <2>4, CallType DEF CallInsert
<1>2. ASSUME NEW op \in {"get", "start"}, CallGet(p, op)
      PROVE  TypeOK'
  <2>1. PICK key \in Keys : Goto(p, "get_read", [NoFrame EXCEPT !.op = op, !.key = key])
    BY <1>2 DEF CallGet
  <2>2. [NoFrame EXCEPT !.op = op, !.key = key] \in Frame
    BY NoFrameType DEF Frame, Ops
  <2>3. pc' \in [Procs -> Steps] /\ frame' \in [Procs -> Frame]
    BY <2>1, <2>2, GotoType DEF Steps
  <2> QED BY <1>2, <2>3, CallType DEF CallGet
<1>3. CASE CallStop(p)
  <2>1. PICK id \in issued : Goto(p, "get_read", [NoFrame EXCEPT !.op = "stop", !.key = id])
    BY <1>3 DEF CallStop
  <2>2. [NoFrame EXCEPT !.op = "stop", !.key = id] \in Frame
    BY NoFrameType DEF Frame, Ops, Keys
  <2>3. pc' \in [Procs -> Steps] /\ frame' \in [Procs -> Frame]
    BY <2>1, <2>2, GotoType DEF Steps
  <2> QED BY <1>3, <2>3, CallType DEF CallStop
<1>4. CASE CallDelete(p)
  <2>1. PICK id \in issued :
          /\ Goto(p, "get_read", [NoFrame EXCEPT !.op = "delete", !.key = id])
          /\ registered' = registered \ {id}
    BY <1>4 DEF CallDelete
  <2>2. [NoFrame EXCEPT !.op = "delete", !.key = id] \in Frame
    BY NoFrameType DEF Frame, Ops, Keys
  <2>3. pc' \in [Procs -> Steps] /\ frame' \in [Procs -> Frame]
    BY <2>1, <2>2, GotoType DEF Steps
  <2> QED BY <1>4, <2>1, <2>3, CallType DEF CallDelete
<1>5. CASE GetFound(p)
  <2>1. PICK i \in DOMAIN Root(file) :
          /\ FirstMatch(Root(file), f.key, i)
          /\ LET info == Root(file)[i]
                 root == [Root(file) EXCEPT ![i] = Stopped(info)]
             IN  IF info.status = CONTAINER_RUNNING /\ info.pid \notin alive
                 THEN Goto(p, "open", [f EXCEPT !.info = Stopped(info), !.root = root,
                                                !.buf = root, !.ret = "got"])
                 ELSE Goto(p, "got", [f EXCEPT !.info = info])
    BY <1>5 DEF GetFound
  <2> DEFINE info == Root(file)[i]
             root == [Root(file) EXCEPT ![i] = Stopped(info)]
  <2>2. info \in Info
    BY <1>r, <2>1 DEF FirstMatch, Array
  <2>3. Stopped(info) \in Info /\ root \in Array
    BY <1>r, <2>2, InfoType, ArrayOps
  <2>4. /\ [f EXCEPT !.info = Stopped(info), !.root = root, !.buf = root, !.ret = "got"] \in Frame
        /\ [f EXCEPT !.info = info] \in Frame
    <3> HIDE DEF info, root
    <3> QED BY <1>f, <2>2, <2>3 DEF Frame, Steps
  <2>5. pc' \in [Procs -> Steps] /\ frame' \in [Procs -> Frame]
    BY <2>1, <2>4, GotoType DEF Steps
  <2> QED BY <1>5, <2>5 DEF GetFound
<1>6. CASE GetMissing(p)
  <2>1. [f EXCEPT !.info = Unset] \in Frame
    BY <1>f, InfoType DEF Frame
  <2> QED BY <1>6, <2>1, GotoType DEF GetMissing, Steps
<1>7. CASE GotGet(p)
  BY <1>7, <1>f, NoFrameType, GotoType DEF GotGet, Return, Steps
<1>8. CASE GotStop(p)
  <2>1. [f EXCEPT !.info = Stopped(@)] \in Frame
    <3>1. f.info \in Info
      BY <1>f DEF Frame
    <3>2. Stopped(f.info) \in Info
      BY <3>1, InfoType
    <3> QED BY <1>f, <3>2 DEF Frame
  <2> QED BY <1>8, <2>1, NoFrameType, GotoType DEF GotStop, Steps
<1>9. CASE GotDelete(p)
  BY <1>9, <1>f, GotoType DEF GotDelete, Steps
<1>10. CASE StartCallback(p)
  <2>1. PICK pid \in Pids \ alive :
          /\ alive' = alive \cup {pid}
          /\ Goto(p, "update_read", [f EXCEPT !.info = Running(@, pid)])
    BY <1>10 DEF StartCallback
  <2>2. f.info \in Info
    BY <1>f DEF Frame
  <2>3. Running(f.info, pid) \in Info
    BY <2>2, InfoType
  <2>4. [f EXCEPT !.info = Running(@, pid)] \in Frame
    BY <1>f, <2>3 DEF Frame
  <2>5. pc' \in [Procs -> Steps] /\ frame' \in [Procs -> Frame]
    BY <2>1, <2>4, GotoType DEF Steps
  <2> QED BY <1>10, <2>1, <2>5 DEF StartCallback
<1>11. CASE StartFails(p)
  BY <1>11, NoFrameType, GotoType DEF StartFails, Return, Steps
<1>12. CASE InsertRead(p)
  <2> DEFINE root == Append(Root(file), f.info)
             g == [f EXCEPT !.buf = root, !.root = IF f.op = "insert" THEN root ELSE @]
  <2>1. root \in Array
    BY <1>f, <1>r, ArrayOps DEF Frame
  <2>2. g \in Frame
    <3> HIDE DEF root
    <3> QED BY <1>f, <2>1 DEF Frame
  <2>3. Goto(p, "open", g)
    BY <1>12 DEF InsertRead
  <2>4. pc' \in [Procs -> Steps] /\ frame' \in [Procs -> Frame]
    <3> HIDE DEF g
    <3> QED BY <2>2, <2>3, GotoType DEF Steps
  <2> QED BY <1>12, <2>4 DEF InsertRead
<1>13. CASE UpdateRead(p)
  <2> DEFINE root == UpdatedRoot(Root(file), f.info)
             todo == CASE file = NoFile -> 3
                       [] file = Truncated -> 2
                       [] file \notin {NoFile, Truncated} ->
                            IF IsEmpty(Root(file)) THEN 1 ELSE 0
             g == [f EXCEPT !.root = root, !.todo = todo]
  <2>1. root \in Array
    BY <1>f, <1>r, ArrayOps DEF Frame
  <2>2. todo \in 0..3
    BY DaoAssumption
  <2>3. g \in Frame
    <3> HIDE DEF root, todo
    <3> QED BY <1>f, <2>1, <2>2 DEF Frame
  <2>4. Goto(p, "update_more", g)
    BY <1>13 DEF UpdateRead
  <2>5. pc' \in [Procs -> Steps] /\ frame' \in [Procs -> Frame]
    <3> HIDE DEF g
    <3> QED BY <2>3, <2>4, GotoType DEF Steps
  <2> QED BY <1>13, <2>5 DEF UpdateRead
<1>14. CASE UpdateMore(p)
  <2> DEFINE less == f.todo - 1
  <2>0. f.todo > 0 => less \in 0..3
    BY <1>f DEF Frame
  <2> HIDE DEF less
  <2>1. /\ f.todo > 0 => [f EXCEPT !.todo = less, !.ret = "update_more"] \in Frame
        /\ [f EXCEPT !.buf = f.root, !.ret = "idle"] \in Frame
    BY <1>f, <2>0 DEF Frame, Steps
  <2>2. pc' \in [Procs -> Steps] /\ frame' \in [Procs -> Frame]
    BY <1>14, <2>1, GotoType DEF UpdateMore, Steps, less
  <2> QED BY <1>14, <2>2 DEF UpdateMore
<1>15. CASE DeleteRead(p)
  <2> DEFINE root == RemainingRoot(Root(file), f.info.id)
             g == [f EXCEPT !.root = root, !.buf = root, !.ret = "idle"]
  <2>1. root \in Array
    BY <1>f, <1>r, ArrayOps, InfoType DEF Frame
  <2>2. g \in Frame
    <3> HIDE DEF root
    <3> QED BY <1>f, <2>1 DEF Frame, Steps
  <2>3. \/ Goto(p, "idle", NoFrame)
        \/ Goto(p, "open", g)
        \/ Goto(p, "dead", NoFrame)
    BY <1>15 DEF DeleteRead, Return
  <2>4. pc' \in [Procs -> Steps] /\ frame' \in [Procs -> Frame]
    <3> HIDE DEF g
    <3> QED BY <2>2, <2>3, NoFrameType, GotoType DEF Steps
  <2>5. gone' \subseteq Ids /\ issued' = issued
    BY <1>15 DEF DeleteRead
  <2> QED BY <1>15, <2>4, <2>5 DEF DeleteRead
<1>16. CASE OpenTrunc(p)
  BY <1>16, <1>f, GotoType DEF OpenTrunc, Steps
<1>17. CASE WriteClose(p)
  <2>1. f.buf \in Array /\ f.ret \in Steps
    BY <1>f DEF Frame
  <2>2. pc' \in [Procs -> Steps] /\ frame' \in [Procs -> Frame]
    BY <1>17, <1>f, <2>1, NoFrameType, GotoType DEF WriteClose, Return, Steps
  <2>3. registered' \subseteq Ids \cup {NoId}
    BY <1>17, <1>f DEF WriteClose, Frame, Info
  <2> QED BY <1>17, <2>1, <2>2, <2>3 DEF WriteClose
<1>18. CASE Crash(p)
  BY <1>18, NoFrameType, GotoType DEF Crash, Steps
<1> QED BY <1>1, <1>2, <1>3, <1>4, <1>5, <1>6, <1>7, <1>8, <1>9, <1>10, <1>11,
           <1>12, <1>13, <1>14, <1>15, <1>16, <1>17, <1>18, Step(p) DEF Step

\* Type correctness of ContainerDao.
THEOREM DaoTypeCorrect == Spec => []TypeOK
<1>1. Init => TypeOK
  BY TypeInit
<1>2. TypeOK /\ [Next]_vars => TypeOK'
  <2> SUFFICES ASSUME TypeOK, [Next]_vars
               PROVE  TypeOK'
    OBVIOUS
  <2>1. CASE PidExit
    BY <2>1 DEF PidExit, TypeOK
  <2>2. ASSUME NEW p \in Procs, Step(p)
        PROVE  TypeOK'
    BY <2>2, TypeStep
  <2>3. CASE UNCHANGED vars
    BY <2>3 DEF vars, TypeOK
  <2> QED BY <2>1, <2>2, <2>3 DEF Next
<1> QED BY <1>1, <1>2, PTL DEF Spec

-----------------------------------------------------------------------------
(* The truncated file.                                                     *)

\* Only the process that opened the file for output, or its death there,
\* accounts for a file without text: whoever else moves, the witness stays,
\* and when the witness moves it leaves a whole file behind.
LEMMA FileWholeStep ==
    ASSUME TypeOK, FileWhole, NEW p \in Procs, Step(p)
    PROVE  FileWhole'
<1> DEFINE Open == {"write", "torn"}
<1>1. CASE OpenTrunc(p)
  <2>1. pc'[p] = "write"
    BY <1>1 DEF OpenTrunc, Goto, TypeOK
  <2> QED BY <2>1 DEF FileWhole
<1>2. CASE WriteClose(p)
  <2>1. file' \in Array
    BY <1>2 DEF WriteClose, TypeOK, Frame
  <2> QED BY <2>1, DaoAssumption DEF FileWhole, Array
<1>3. ASSUME file' = file, \A q \in Procs : pc[q] \in Open => pc'[q] \in Open
      PROVE  FileWhole'
  BY <1>3 DEF FileWhole
<1>4. ASSUME NEW step \in Steps, NEW g, Goto(p, step, g), pc[p] \notin Open
      PROVE  \A q \in Procs : pc[q] \in Open => pc'[q] \in Open
  BY <1>4 DEF Goto, TypeOK
<1>5. CASE Crash(p)
  <2>1. \A q \in Procs : pc[q] \in Open => pc'[q] \in Open
    BY <1>5 DEF Crash, Quiet, Goto, TypeOK
  <2> QED BY <1>5, <1>3, <2>1 DEF Crash
<1>6. CASE CallInsert(p) \/ CallGet(p, "get") \/ CallGet(p, "start") \/ CallStop(p) \/ CallDelete(p)
  <2>1. file' = file /\ pc[p] = "idle"
    BY <1>6 DEF CallInsert, CallGet, CallStop, CallDelete, Call
  <2>2. \E step \in Steps : \E g : Goto(p, step, g)
    BY <1>6, Zenon DEF CallInsert, CallGet, CallStop, CallDelete, Steps
  <2> QED BY <1>3, <1>4, <2>1, <2>2
<1>7. CASE \/ GetFound(p) \/ GetMissing(p)
           \/ GotGet(p) \/ GotStop(p) \/ GotDelete(p)
           \/ StartCallback(p) \/ StartFails(p)
  <2>1. file' = file /\ pc[p] \in {"get_read", "got", "hold"}
    BY <1>7 DEF GetFound, GetMissing, GotGet, GotStop, GotDelete, StartCallback, StartFails
  <2>2. \A q \in Procs : q # p => pc'[q] = pc[q]
    BY <1>7 DEF GetFound, GetMissing, GotGet, GotStop, GotDelete, StartCallback, StartFails,
                Goto, Return, TypeOK
  <2> QED BY <1>3, <2>1, <2>2
<1>8. CASE InsertRead(p) \/ UpdateRead(p) \/ UpdateMore(p) \/ DeleteRead(p)
  <2>1. file' = file /\ pc[p] \in {"insert_read", "update_read", "update_more", "delete_read"}
    BY <1>8 DEF InsertRead, UpdateRead, UpdateMore, DeleteRead
  <2>2. \E step \in Steps : \E g : Goto(p, step, g)
    BY <1>8, Zenon DEF InsertRead, UpdateRead, UpdateMore, DeleteRead, Return, Steps
  <2>3. \A q \in Procs : q # p => pc'[q] = pc[q]
    BY <2>2 DEF Goto, TypeOK
  <2> QED BY <1>3, <2>1, <2>3
<1> QED BY <1>1, <1>2, <1>5, <1>6, <1>7, <1>8, Step(p) DEF Step

\* However the calls of any number of processes overlap, data.json has no
\* text only inside some process's open/write/close, or after a process was
\* killed there.
THEOREM DaoFileWhole == Spec => []FileWhole
<1>1. Init => FileWhole
  BY DaoAssumption DEF Init, FileWhole
<1>2. TypeOK /\ FileWhole /\ [Next]_vars => FileWhole'
  <2> SUFFICES ASSUME TypeOK, FileWhole, [Next]_vars
               PROVE  FileWhole'
    OBVIOUS
  <2>1. CASE PidExit
    BY <2>1 DEF PidExit, FileWhole
  <2>2. ASSUME NEW p \in Procs, Step(p)
        PROVE  FileWhole'
    BY <2>2, FileWholeStep
  <2>3. CASE UNCHANGED vars
    BY <2>3 DEF vars, FileWhole
  <2> QED BY <2>1, <2>2, <2>3 DEF Next
<1> QED BY <1>1, <1>2, DaoTypeCorrect, PTL DEF Spec

-----------------------------------------------------------------------------
(* Calls that do not overlap                                               *)

Caller(p) == pc[p] \notin Quiet

\* One call at a time.
OneCaller == \A p, q \in Procs : Caller(p) /\ Caller(q) => p = q

\* Where the locals of a call stand.  A rewrite leaves the caller's own array
\* in the file, but for the inserts that update makes on its way to it.
FrameOK(p) ==
    /\ pc[p] \in {"get_read", "got", "hold", "delete_read", "update_read", "update_more"}
          => frame[p].op # "insert"
    /\ pc[p] = "hold" => frame[p].op = "start"
    /\ pc[p] = "delete_read" => frame[p].op = "delete"
    /\ pc[p] = "insert_read" =>
          frame[p].ret = (IF frame[p].op = "insert" THEN "idle" ELSE "update_more")
    /\ pc[p] \in {"open", "write"} =>
          /\ frame[p].ret \in {"idle", "got", "update_more"}
          /\ frame[p].op = "insert" => frame[p].ret = "idle"
          /\ frame[p].ret # "update_more" => frame[p].buf = frame[p].root

FramesOK == \A p \in Procs : FrameOK(p)

\* Every element has an id, and no two the same.
Keyed(root) ==
    /\ \A i \in DOMAIN root : root[i] # Removed => root[i].id \in Ids
    /\ \A i, j \in DOMAIN root :
         root[i] # Removed /\ root[j] # Removed /\ root[i].id = root[j].id => i = j

\* Ids that are in the registry or were.
Once == IdsIn(Content) \cup gone

ContentOK ==
    /\ Keyed(Content)
    /\ IdsIn(Content) \cap gone = {}
    /\ Once \subseteq issued

\* Process p is about to insert a new record.
Inserting(p) == pc[p] = "insert_read" /\ frame[p].op = "insert"

\* The record a process holds is new, or it is or was in the registry; there
\* it has the same name.
Held(p) ==
    /\ Inserting(p) => frame[p].info.id \in issued /\ frame[p].info.id \notin Once
    /\ ~Inserting(p) => frame[p].info.id \in Once \cup {NoId}
    /\ frame[p].info.id \in IdsIn(Content) =>
          RecordOf(Content, frame[p].info.id).name = frame[p].info.name

HeldOK == \A p \in Procs : Held(p)

SerialInv == OneCaller /\ FramesOK /\ ContentOK /\ HeldOK

\* A delete takes out the record it was asked to; whatever else is registered
\* stays in the registry.
RegisteredOK ==
    /\ registered \subseteq IdsIn(Content)
    /\ \A p \in Procs : pc[p] \in {"open", "write"} /\ frame[p].op = "insert" =>
         frame[p].info.id \in IdsIn(Content)
    /\ \A p \in Procs : Caller(p) /\ frame[p].op = "delete" =>
         /\ frame[p].key \in Ids \ registered
         /\ frame[p].info.id \in {frame[p].key, NoId}

-----------------------------------------------------------------------------
(* The array as a map from ids to records *)

LEMMA RecordFound ==
    ASSUME NEW root, Keyed(root), NEW id, NEW i \in DOMAIN root, Holds(root, i, id)
    PROVE  RecordOf(root, id) = root[i] /\ id \in IdsIn(root) /\ id \in Ids
<1> DEFINE k == CHOOSE j \in DOMAIN root : Holds(root, j, id)
<1>1. k \in DOMAIN root /\ Holds(root, k, id)
  OBVIOUS
<1>2. k = i
  BY <1>1 DEF Keyed, Holds
<1>3. RecordOf(root, id) = root[k]
  BY DEF RecordOf
<1> QED BY <1>2, <1>3 DEF IdsIn, Holds, Keyed

LEMMA RecordMissing ==
    ASSUME NEW root, NEW id, id \notin IdsIn(root)
    PROVE  RecordOf(root, id) = Removed
  BY DEF RecordOf, IdsIn, Holds

LEMMA HoldsOf ==
    ASSUME NEW root, NEW id \in IdsIn(root)
    PROVE  \E i \in DOMAIN root : Holds(root, i, id)
  BY DEF IdsIn, Holds

\* The record of an id that is in the array.
LEMMA RecordThere ==
    ASSUME NEW root \in Array, Keyed(root), NEW id \in IdsIn(root)
    PROVE  RecordOf(root, id) \in Info /\ RecordOf(root, id).id = id /\ RecordOf(root, id) # Removed
<1>1. PICK i \in DOMAIN root : Holds(root, i, id)
  BY HoldsOf
<1>2. RecordOf(root, id) = root[i]
  BY <1>1, RecordFound
<1> QED BY <1>1, <1>2 DEF Holds, Array

\* insert: one more record.
LEMMA AppendRecord ==
    ASSUME NEW root \in Array, Keyed(root),
           NEW info \in Info, info.id \in Ids, info.id \notin IdsIn(root)
    PROVE  /\ Keyed(Append(root, info))
           /\ IdsIn(Append(root, info)) = IdsIn(root) \cup {info.id}
           /\ \A id : RecordOf(Append(root, info), id) =
                        IF id = info.id THEN info ELSE RecordOf(root, id)
<1> DEFINE r == Append(root, info)
           n == Len(root)
<1>1. /\ n \in Nat /\ DOMAIN root = 1..n /\ DOMAIN r = 1..(n + 1)
      /\ r[n + 1] = info /\ \A i \in 1..n : r[i] = root[i]
  BY DEF Array
<1>2. info # Removed
  BY DaoAssumption
<1>3. \A i \in 1..n : root[i] # Removed => root[i].id # info.id
  BY <1>1 DEF IdsIn
<1> HIDE DEF r, n
<1>4. Keyed(r)
  BY <1>1, <1>2, <1>3 DEF Keyed
<1>5. IdsIn(r) = IdsIn(root) \cup {info.id}
  <2>1. ASSUME NEW id \in IdsIn(r) PROVE id \in IdsIn(root) \cup {info.id}
    BY <1>1, <2>1 DEF IdsIn
  <2>2. ASSUME NEW id \in IdsIn(root) \cup {info.id} PROVE id \in IdsIn(r)
    BY <1>1, <1>2, <2>2 DEF IdsIn
  <2> QED BY <2>1, <2>2
<1>6. ASSUME NEW id
      PROVE  RecordOf(r, id) = IF id = info.id THEN info ELSE RecordOf(root, id)
  <2>1. CASE id = info.id
    <3>1. n + 1 \in DOMAIN r /\ Holds(r, n + 1, id)
      BY <1>1, <1>2, <2>1 DEF Holds
    <3> QED BY <1>1, <1>4, <2>1, <3>1, RecordFound
  <2>2. CASE id # info.id /\ id \in IdsIn(root)
    <3>1. PICK i \in DOMAIN root : Holds(root, i, id)
      BY <2>2, HoldsOf
    <3>2. i \in DOMAIN r /\ Holds(r, i, id) /\ r[i] = root[i]
      BY <1>1, <3>1 DEF Holds
    <3> QED BY <1>4, <2>2, <3>1, <3>2, RecordFound
  <2>3. CASE id # info.id /\ id \notin IdsIn(root)
    BY <1>5, <2>3, RecordMissing
  <2> QED BY <2>1, <2>2, <2>3
<1> QED BY <1>4, <1>5, <1>6 DEF r

\* A record is written over with one of the same id.
LEMMA ReplaceRecord ==
    ASSUME NEW root \in Array, Keyed(root), NEW k \in DOMAIN root, root[k] # Removed,
           NEW info \in Info, info.id = root[k].id
    PROVE  /\ Keyed([root EXCEPT ![k] = info])
           /\ IdsIn([root EXCEPT ![k] = info]) = IdsIn(root)
           /\ \A id : RecordOf([root EXCEPT ![k] = info], id) =
                        IF id = info.id THEN info ELSE RecordOf(root, id)
<1> DEFINE r == [root EXCEPT ![k] = info]
<1>1. DOMAIN r = DOMAIN root /\ r[k] = info /\ \A i \in DOMAIN root : i # k => r[i] = root[i]
  OBVIOUS
<1>2. info # Removed
  BY DaoAssumption
<1> HIDE DEF r
<1>3. Keyed(r)
  BY <1>1, <1>2 DEF Keyed
<1>4. IdsIn(r) = IdsIn(root)
  <2>1. ASSUME NEW id \in IdsIn(r) PROVE id \in IdsIn(root)
    BY <1>1, <2>1 DEF IdsIn
  <2>2. ASSUME NEW id \in IdsIn(root) PROVE id \in IdsIn(r)
    BY <1>1, <1>2, <2>2 DEF IdsIn
  <2> QED BY <2>1, <2>2
<1>5. ASSUME NEW id
      PROVE  RecordOf(r, id) = IF id = info.id THEN info ELSE RecordOf(root, id)
  <2>1. CASE id = info.id
    BY <1>1, <1>2, <1>3, <2>1, RecordFound DEF Holds
  <2>2. CASE id # info.id /\ id \in IdsIn(root)
    <3>1. PICK i \in DOMAIN root : Holds(root, i, id)
      BY <2>2, HoldsOf
    <3>2. i \in DOMAIN r /\ Holds(r, i, id) /\ r[i] = root[i]
      BY <1>1, <2>2, <3>1 DEF Holds
    <3> QED BY <1>3, <2>2, <3>1, <3>2, RecordFound
  <2>3. CASE id # info.id /\ id \notin IdsIn(root)
    BY <1>4, <2>3, RecordMissing
  <2> QED BY <2>1, <2>2, <2>3
<1> QED BY <1>3, <1>4, <1>5 DEF r

\* update writes over the record with that id, if there is one.
LEMMA UpdatedIs ==
    ASSUME NEW root \in Array, Keyed(root), NEW info \in Info
    PROVE  \/ info.id \notin IdsIn(root) /\ UpdatedRoot(root, info) = root
           \/ \E k \in DOMAIN root : /\ Holds(root, k, info.id)
                                     /\ UpdatedRoot(root, info) = [root EXCEPT ![k] = info]
<1> DEFINE r == UpdatedRoot(root, info)
           First(i) == Holds(root, i, info.id) /\ \A j \in 1..(i - 1) : ~Holds(root, j, info.id)
<1>0. /\ root = [i \in DOMAIN root |-> root[i]]
      /\ DOMAIN root = 1..Len(root) /\ Len(root) \in Nat
  BY DEF Array
<1>1. CASE info.id \notin IdsIn(root)
  <2>1. \A i \in DOMAIN root : ~Holds(root, i, info.id)
    BY <1>1 DEF IdsIn, Holds
  <2>2. r = [i \in DOMAIN root |-> root[i]]
    BY <2>1 DEF UpdatedRoot
  <2> QED BY <1>0, <1>1, <2>2
<1>2. CASE info.id \in IdsIn(root)
  <2>1. PICK k \in DOMAIN root : Holds(root, k, info.id)
    BY <1>2, HoldsOf
  <2>2. \A i \in DOMAIN root : Holds(root, i, info.id) => i = k
    BY <2>1 DEF Keyed, Holds
  <2>3. \A i \in DOMAIN root : First(i) <=> i = k
    BY <1>0, <2>1, <2>2
  <2>4. r = [i \in DOMAIN root |-> IF i = k THEN info ELSE root[i]]
    BY <2>3 DEF UpdatedRoot
  <2>5. [root EXCEPT ![k] = info] = [i \in DOMAIN root |-> IF i = k THEN info ELSE root[i]]
    BY <1>0
  <2> QED BY <2>1, <2>4, <2>5
<1> QED BY <1>1, <1>2

\* delete_by_id: one record less, if there was one.
LEMMA RemoveRecord ==
    ASSUME NEW root \in Array, Keyed(root), NEW id
    PROVE  /\ Keyed(RemainingRoot(root, id))
           /\ IdsIn(RemainingRoot(root, id)) = IdsIn(root) \ {id}
           /\ \A x : RecordOf(RemainingRoot(root, id), x) =
                       IF x = id THEN Removed ELSE RecordOf(root, x)
<1> DEFINE r == RemainingRoot(root, id)
<1>1. /\ DOMAIN r = DOMAIN root
      /\ \A i \in DOMAIN root : r[i] = IF Holds(root, i, id) THEN Removed ELSE root[i]
  BY DEF RemainingRoot
<1> HIDE DEF r
<1>2. Keyed(r)
  BY <1>1 DEF Keyed
<1>3. IdsIn(r) = IdsIn(root) \ {id}
  <2>1. ASSUME NEW x \in IdsIn(r) PROVE x \in IdsIn(root) \ {id}
    BY <1>1, <2>1 DEF IdsIn, Holds
  <2>2. ASSUME NEW x \in IdsIn(root) \ {id} PROVE x \in IdsIn(r)
    BY <1>1, <2>2 DEF IdsIn, Holds
  <2> QED BY <2>1, <2>2
<1>4. ASSUME NEW x
      PROVE  RecordOf(r, x) = IF x = id THEN Removed ELSE RecordOf(root, x)
  <2>1. CASE x = id
    BY <1>3, <2>1, RecordMissing
  <2>2. CASE x # id /\ x \in IdsIn(root)
    <3>1. PICK i \in DOMAIN root : Holds(root, i, x)
      BY <2>2, HoldsOf
    <3>2. i \in DOMAIN r /\ Holds(r, i, x) /\ r[i] = root[i]
      BY <1>1, <2>2, <3>1 DEF Holds
    <3> QED BY <1>2, <2>2, <3>1, <3>2, RecordFound
  <2>3. CASE x # id /\ x \notin IdsIn(root)
    BY <1>3, <2>3, RecordMissing
  <2> QED BY <2>1, <2>2, <2>3
<1> QED BY <1>2, <1>3, <1>4 DEF r

-----------------------------------------------------------------------------
(* How a step changes the registry *)

LEMMA ContentAt ==
    ASSUME NEW p \in Procs, \A q \in Procs : q # p => ~Caller(q)
    PROVE  Content = IF Decided(p) THEN frame[p].root ELSE Root(file)
<1>1. \A q \in Procs : Decided(q) => q = p
  BY DEF Decided, Caller, Quiet
<1> QED BY <1>1 DEF Content

LEMMA ContentNext ==
    ASSUME NEW p \in Procs, \A q \in Procs : q # p => ~(Caller(q)')
    PROVE  Content' = IF Decided(p)' THEN frame'[p].root ELSE Root(file')
<1>1. \A q \in Procs : Decided(q)' => q = p
  BY DEF Decided, Caller, Quiet
<1> QED BY <1>1 DEF Content

\* A step moves one process.
LEMMA OthersStay ==
    ASSUME TypeOK, NEW p \in Procs, Step(p)
    PROVE  \A q \in Procs : q # p => pc'[q] = pc[q] /\ frame'[q] = frame[q]
<1>1. \E step, f : Goto(p, step, f)
  <2>1. CASE CallInsert(p) \/ CallGet(p, "get") \/ CallGet(p, "start") \/ CallStop(p) \/ CallDelete(p)
    BY <2>1, Zenon DEF CallInsert, CallGet, CallStop, CallDelete
  <2>2. CASE \/ GetMissing(p) \/ GotGet(p) \/ GotStop(p) \/ GotDelete(p)
             \/ StartCallback(p) \/ StartFails(p)
    BY <2>2, Zenon DEF GetMissing, GotGet, GotStop, GotDelete, StartCallback, StartFails, Return
  <2>3. CASE GetFound(p)
    BY <2>3, Zenon DEF GetFound
  <2>4. CASE InsertRead(p) \/ UpdateRead(p) \/ UpdateMore(p) \/ DeleteRead(p)
    BY <2>4, Zenon DEF InsertRead, UpdateRead, UpdateMore, DeleteRead, Return
  <2>5. CASE OpenTrunc(p) \/ WriteClose(p) \/ Crash(p)
    BY <2>5, Zenon DEF OpenTrunc, WriteClose, Crash, Return
  <2> QED BY <2>1, <2>2, <2>3, <2>4, <2>5, Step(p) DEF Step
<1> QED BY <1>1 DEF Goto, TypeOK

\* The process that takes a step, but for a start that gives up, is alone.
LEMMA Alone ==
    ASSUME Serial, TypeOK, OneCaller, NEW p \in Procs, Step(p), ~StartFails(p)
    PROVE  \A q \in Procs : q # p => ~Caller(q) /\ ~(Caller(q)')
<1>1. Caller(p) \/ MayEnter(p)
  BY DEF Step, CallInsert, CallGet, CallStop, CallDelete, Call, StartCallback, GetFound, GetMissing,
         GotGet, GotStop, GotDelete, InsertRead, UpdateRead, UpdateMore, DeleteRead, OpenTrunc,
         WriteClose, Crash, Caller, Quiet
<1>2. \A q \in Procs : q # p => ~Caller(q)
  BY <1>1 DEF OneCaller, MayEnter, Caller
<1> QED BY <1>2, OthersStay DEF Caller

LEMMA OneCallerStep ==
    ASSUME Serial, TypeOK, OneCaller, NEW p \in Procs, Step(p)
    PROVE  OneCaller'
<1>1. CASE StartFails(p)
  <2>1. pc'[p] = "idle"
    BY <1>1 DEF StartFails, Return, Goto, TypeOK
  <2> QED BY <2>1, OthersStay DEF OneCaller, Caller, Quiet
<1>2. CASE ~StartFails(p)
  BY <1>2, Alone DEF OneCaller
<1> QED BY <1>1, <1>2

\* Where process p is after a step to f.
LEMMA GotoAt ==
    ASSUME TypeOK, NEW p \in Procs, NEW step, NEW f, Goto(p, step, f)
    PROVE  pc'[p] = step /\ frame'[p] = f
  BY DEF Goto, TypeOK

\* The four things a step may do to the registry: nothing, one record more,
\* one written over, one less.
ContentKept == Content' = Content /\ gone' = gone

ContentInserted(p) ==
    Inserting(p) /\ Content' = Append(Content, frame[p].info) /\ gone' = gone

ContentReplaced ==
    \E k \in DOMAIN Content, info \in Info :
        /\ Content[k] # Removed
        /\ info.id = Content[k].id /\ info.name = Content[k].name
        /\ Content' = [Content EXCEPT ![k] = info]
        /\ gone' = gone

ContentRemoved(p) ==
    /\ pc[p] = "delete_read"
    /\ Content' = RemainingRoot(Content, frame[p].info.id)
    /\ gone' = gone \cup ({frame[p].info.id} \cap IdsIn(Content) \cap Ids)

ContentStep(p) ==
    ContentKept \/ ContentInserted(p) \/ ContentReplaced \/ ContentRemoved(p)

LEMMA ContentType ==
    ASSUME TypeOK
    PROVE  Content \in Array
<1>1. CASE \E p \in Procs : Decided(p)
  <2> DEFINE q == CHOOSE p \in Procs : Decided(p)
  <2>1. q \in Procs
    BY <1>1
  <2>2. frame[q].root \in Array
    BY <2>1 DEF TypeOK, Frame
  <2> QED BY <1>1, <2>2 DEF Content
<1>2. CASE ~ \E p \in Procs : Decided(p)
  BY <1>2, RootType DEF Content, TypeOK
<1> QED BY <1>1, <1>2

LEMMA ContentSteps ==
    ASSUME Serial, ~MayCrash, TypeOK, TypeOK', SerialInv, NEW p \in Procs, Step(p)
    PROVE  ContentStep(p)
<1> DEFINE f == frame[p]
<1>f. f \in Frame
  BY DEF TypeOK
<1>r. Root(file) \in Array
  BY RootType DEF TypeOK
<1>a. ASSUME ~StartFails(p)
      PROVE  /\ Content = IF Decided(p) THEN frame[p].root ELSE Root(file)
             /\ Content' = IF Decided(p)' THEN frame'[p].root ELSE Root(file')
  BY <1>a, Alone, ContentAt, ContentNext DEF SerialInv
<1>1. CASE StartFails(p)
  <2>1. pc[p] = "hold" /\ pc'[p] = "idle" /\ file' = file /\ gone' = gone
    BY <1>1 DEF StartFails, Return, Goto, TypeOK
  <2>2. ~Decided(p) /\ ~(Decided(p)')
    BY <2>1 DEF Decided
  <2>3. \A q \in Procs : /\ Decided(q)' <=> Decided(q)
                         /\ Decided(q) => frame'[q] = frame[q]
    BY <2>2, OthersStay DEF Decided
  <2>4. CASE \E q \in Procs : Decided(q)
    <3>1. PICK q \in Procs : Decided(q)
      BY <2>4
    <3>2. \A x \in Procs : Decided(x) => x = q
      BY <3>1 DEF Decided, SerialInv, OneCaller, Caller, Quiet
    <3>3. (CHOOSE x \in Procs : Decided(x)) = q /\ (CHOOSE x \in Procs : Decided(x)') = q
      BY <2>3, <3>1, <3>2
    <3> QED BY <2>1, <2>3, <3>1, <3>3 DEF Content, ContentStep, ContentKept
  <2>5. CASE ~ \E q \in Procs : Decided(q)
    BY <2>1, <2>3, <2>5 DEF Content, ContentStep, ContentKept
  <2> QED BY <2>4, <2>5
<1>2. CASE CallInsert(p) \/ CallGet(p, "get") \/ CallGet(p, "start") \/ CallStop(p) \/ CallDelete(p)
  <2>1. pc[p] = "idle" /\ file' = file /\ gone' = gone /\ ~StartFails(p)
    BY <1>2 DEF CallInsert, CallGet, CallStop, CallDelete, Call, StartFails
  <2>2. pc'[p] = "get_read" \/ (pc'[p] = "insert_read" /\ frame'[p].op = "insert")
    <3>1. CASE CallInsert(p)
      <4>1. PICK id \in Ids \ issued, name \in Names \cup {NoName}, pid \in Pids \ alive :
              Goto(p, "insert_read",
                [NoFrame EXCEPT !.op = "insert",
                                !.info = Running([Unset EXCEPT !.id = id, !.name = name], pid)])
        BY <3>1 DEF CallInsert
      <4> DEFINE new == Running([Unset EXCEPT !.id = id, !.name = name], pid)
                 g == [NoFrame EXCEPT !.op = "insert", !.info = new]
      <4>2. g.op = "insert"
        <5> HIDE DEF new
        <5> QED BY DEF NoFrame
      <4>3. pc'[p] = "insert_read" /\ frame'[p] = g
        BY <4>1, GotoAt
      <4> HIDE DEF g
      <4> QED BY <4>2, <4>3
    <3>2. CASE CallGet(p, "get") \/ CallGet(p, "start") \/ CallStop(p) \/ CallDelete(p)
      BY <3>2, GotoAt DEF CallGet, CallStop, CallDelete
    <3> QED BY <1>2, <3>1, <3>2
  <2>3. ~Decided(p) /\ ~(Decided(p)')
    BY <2>1, <2>2 DEF Decided
  <2> QED BY <1>a, <2>1, <2>3 DEF ContentStep, ContentKept
<1>3. CASE GetMissing(p) \/ GotGet(p) \/ GotStop(p) \/ GotDelete(p) \/ StartCallback(p)
  <2>1. pc[p] \in {"get_read", "got", "hold"} /\ file' = file /\ gone' = gone
    BY <1>3 DEF GetMissing, GotGet, GotStop, GotDelete, StartCallback
  <2>2. pc'[p] \in {"got", "idle", "hold", "update_read", "dead", "delete_read"}
    BY <1>3, GotoAt DEF GetMissing, GotGet, GotStop, GotDelete, StartCallback, Return
  <2>3. ~StartFails(p) \/ StartFails(p)
    OBVIOUS
  <2>4. ~Decided(p) /\ ~(Decided(p)')
    BY <2>1, <2>2 DEF Decided
  <2> QED BY <1>1, <1>a, <2>1, <2>4 DEF ContentStep, ContentKept
<1>4. CASE GetFound(p)
  <2>1. PICK i \in DOMAIN Root(file) :
          /\ FirstMatch(Root(file), f.key, i)
          /\ LET info == Root(file)[i]
                 root == [Root(file) EXCEPT ![i] = Stopped(info)]
             IN  IF info.status = CONTAINER_RUNNING /\ info.pid \notin alive
                 THEN Goto(p, "open", [f EXCEPT !.info = Stopped(info), !.root = root,
                                                !.buf = root, !.ret = "got"])
                 ELSE Goto(p, "got", [f EXCEPT !.info = info])
    BY <1>4 DEF GetFound
  <2> DEFINE info == Root(file)[i]
             root == [Root(file) EXCEPT ![i] = Stopped(info)]
  <2>2. pc[p] = "get_read" /\ file' = file /\ gone' = gone /\ ~StartFails(p) /\ ~Decided(p)
    BY <1>4 DEF GetFound, StartFails, Decided
  <2>3. Content = Root(file)
    BY <1>a, <2>2
  <2>4. info \in Info /\ info # Removed
    BY <1>r, <2>1, DaoAssumption DEF FirstMatch, Array
  <2>5. Stopped(info) \in Info /\ Stopped(info).id = info.id /\ Stopped(info).name = info.name
    BY <2>4, InfoType DEF Stopped, Info
  <2>6. CASE info.status = CONTAINER_RUNNING /\ info.pid \notin alive
    <3>1. Goto(p, "open", [f EXCEPT !.info = Stopped(info), !.root = root,
                                    !.buf = root, !.ret = "got"])
      BY <2>1, <2>6
    <3> HIDE DEF info, root
    <3> DEFINE g == [f EXCEPT !.info = Stopped(info), !.root = root, !.buf = root, !.ret = "got"]
    <3>a. g.root = root
      BY <1>f DEF Frame
    <3>b. pc'[p] = "open" /\ frame'[p] = g
      BY <3>1, GotoAt
    <3>2. pc'[p] = "open" /\ frame'[p].root = root
      BY <3>a, <3>b
    <3>3. Content' = root
      BY <1>a, <2>2, <3>2 DEF Decided
    <3> QED BY <2>2, <2>3, <2>4, <2>5, <3>3 DEF ContentStep, ContentReplaced, root, info
  <2>7. CASE ~(info.status = CONTAINER_RUNNING /\ info.pid \notin alive)
    <3>1. pc'[p] = "got"
      BY <2>1, <2>7, GotoAt
    <3>2. ~(Decided(p)')
      BY <3>1 DEF Decided
    <3> QED BY <1>a, <2>2, <2>3, <3>2 DEF ContentStep, ContentKept
  <2> QED BY <2>6, <2>7
<1>5. CASE InsertRead(p)
  <2> DEFINE root == Append(Root(file), f.info)
             g == [f EXCEPT !.buf = root, !.root = IF f.op = "insert" THEN root ELSE @]
  <2>1. pc[p] = "insert_read" /\ Goto(p, "open", g) /\ gone' = gone /\ ~StartFails(p)
    BY <1>5 DEF InsertRead, StartFails
  <2>2. g.root = IF f.op = "insert" THEN root ELSE f.root
    <3> HIDE DEF root
    <3> QED BY <1>f DEF Frame
  <2>3. pc'[p] = "open" /\ frame'[p].root = IF f.op = "insert" THEN root ELSE f.root
    <3> HIDE DEF g
    <3> QED BY <2>1, <2>2, GotoAt
  <2>4. Content' = IF f.op = "insert" THEN root ELSE f.root
    <3>1. Decided(p)'
      BY <2>3 DEF Decided
    <3> QED BY <1>a, <2>1, <2>3, <3>1
  <2>5. Content = IF f.op = "insert" THEN Root(file) ELSE f.root
    BY <1>a, <2>1 DEF Decided
  <2> QED BY <2>1, <2>4, <2>5 DEF ContentStep, ContentKept, ContentInserted, Inserting
<1>6. CASE UpdateRead(p)
  <2> DEFINE root == UpdatedRoot(Root(file), f.info)
             todo == CASE file = NoFile -> 3
                       [] file = Truncated -> 2
                       [] file \notin {NoFile, Truncated} ->
                            IF IsEmpty(Root(file)) THEN 1 ELSE 0
             g == [f EXCEPT !.root = root, !.todo = todo]
  <2>1. pc[p] = "update_read" /\ Goto(p, "update_more", g) /\ gone' = gone /\ ~StartFails(p)
    BY <1>6 DEF UpdateRead, StartFails
  <2>2. g.root = root
    <3> HIDE DEF root, todo
    <3> QED BY <1>f DEF Frame
  <2>3. pc'[p] = "update_more" /\ frame'[p].root = root
    <3> HIDE DEF g
    <3> QED BY <2>1, <2>2, GotoAt
  <2>4. Content' = root
    <3>1. Decided(p)'
      BY <2>3 DEF Decided
    <3> QED BY <1>a, <2>1, <2>3, <3>1
  <2>5. Content = Root(file)
    BY <1>a, <2>1 DEF Decided
  <2>6. f.info \in Info
    BY <1>f DEF Frame
  <2>7. CASE UpdatedRoot(Content, f.info) = Content
    BY <2>1, <2>4, <2>5, <2>7 DEF ContentStep, ContentKept
  <2>8. CASE \E k \in DOMAIN Content : /\ Holds(Content, k, f.info.id)
                                       /\ UpdatedRoot(Content, f.info) = [Content EXCEPT ![k] = f.info]
    <3>1. PICK k \in DOMAIN Content : /\ Holds(Content, k, f.info.id)
                                      /\ UpdatedRoot(Content, f.info) = [Content EXCEPT ![k] = f.info]
      BY <2>8
    <3>2. f.info.id \in IdsIn(Content) /\ RecordOf(Content, f.info.id) = Content[k]
      BY <3>1, RecordFound DEF SerialInv, ContentOK
    <3>3. Content[k].name = f.info.name
      BY <3>2 DEF SerialInv, HeldOK, Held
    <3>4. Content' = [Content EXCEPT ![k] = f.info]
      BY <2>4, <2>5, <3>1
    <3> QED BY <2>1, <2>6, <3>1, <3>3, <3>4 DEF ContentStep, ContentReplaced, Holds
  <2> QED BY <2>5, <2>6, <2>7, <2>8, <1>r, UpdatedIs DEF SerialInv, ContentOK
<1>7. CASE UpdateMore(p)
  <2>1. pc[p] = "update_more" /\ file' = file /\ gone' = gone /\ ~StartFails(p)
    BY <1>7 DEF UpdateMore, StartFails
  <2>2. f.op # "insert"
    BY <2>1 DEF SerialInv, FramesOK, FrameOK
  <2>3. CASE f.todo > 0
    <3> DEFINE less == f.todo - 1
    <3>1. Goto(p, "insert_read", [f EXCEPT !.todo = less, !.ret = "update_more"])
      BY <1>7, <2>3 DEF UpdateMore
    <3> HIDE DEF less
    <3> DEFINE g == [f EXCEPT !.todo = less, !.ret = "update_more"]
    <3>a. g.root = f.root /\ g.op = f.op
      BY <1>f DEF Frame
    <3>b. pc'[p] = "insert_read" /\ frame'[p] = g
      BY <3>1, GotoAt
    <3>2. pc'[p] = "insert_read" /\ frame'[p].root = f.root /\ frame'[p].op = f.op
      BY <3>a, <3>b
    <3>3. Decided(p) /\ Decided(p)'
      BY <2>1, <2>2, <3>2 DEF Decided
    <3> QED BY <1>a, <2>1, <3>2, <3>3 DEF ContentStep, ContentKept
  <2>4. CASE ~(f.todo > 0)
    <3>1. Goto(p, "open", [f EXCEPT !.buf = f.root, !.ret = "idle"])
      BY <1>7, <2>4 DEF UpdateMore
    <3> DEFINE g == [f EXCEPT !.buf = f.root, !.ret = "idle"]
    <3>a. g.root = f.root
      BY <1>f DEF Frame
    <3>b. pc'[p] = "open" /\ frame'[p] = g
      BY <3>1, GotoAt
    <3>2. pc'[p] = "open" /\ frame'[p].root = f.root
      BY <3>a, <3>b
    <3>3. Decided(p) /\ Decided(p)'
      BY <2>1, <3>2 DEF Decided
    <3> QED BY <1>a, <2>1, <3>2, <3>3 DEF ContentStep, ContentKept
  <2> QED BY <2>3, <2>4
<1>8. CASE DeleteRead(p)
  <2> DEFINE root == RemainingRoot(Root(file), f.info.id)
             g == [f EXCEPT !.root = root, !.buf = root, !.ret = "idle"]
  <2>1. pc[p] = "delete_read" /\ file' = file /\ ~StartFails(p)
    BY <1>8 DEF DeleteRead, StartFails
  <2>2. Content = Root(file)
    BY <1>a, <2>1 DEF Decided
  <2>3. CASE gone' = gone /\ (Goto(p, "idle", NoFrame) \/ Goto(p, "dead", NoFrame))
    <3>1. pc'[p] \in {"idle", "dead"}
      BY <2>3, GotoAt
    <3>2. ~(Decided(p)')
      BY <3>1 DEF Decided
    <3> QED BY <1>a, <2>1, <2>2, <2>3, <3>2 DEF ContentStep, ContentKept
  <2>4. CASE /\ Goto(p, "open", g)
             /\ gone' = gone \cup ({f.info.id} \cap IdsIn(Root(file)) \cap Ids)
    <3>1. g.root = root
      <4> HIDE DEF root
      <4> QED BY <1>f DEF Frame
    <3>2. pc'[p] = "open" /\ frame'[p].root = root
      <4> HIDE DEF g
      <4> QED BY <2>4, <3>1, GotoAt
    <3>3. Content' = root
      <4>1. Decided(p)'
        BY <3>2 DEF Decided
      <4> QED BY <1>a, <2>1, <3>2, <4>1
    <3> QED BY <2>1, <2>2, <2>4, <3>3 DEF ContentStep, ContentRemoved
  <2> QED BY <1>8, <2>3, <2>4 DEF DeleteRead, Return
<1>9. CASE OpenTrunc(p)
  <2>1. pc[p] = "open" /\ Goto(p, "write", f) /\ gone' = gone /\ ~StartFails(p)
    BY <1>9 DEF OpenTrunc, StartFails
  <2>2. pc'[p] = "write" /\ frame'[p] = f
    BY <2>1, GotoAt
  <2>3. Decided(p) /\ Decided(p)'
    BY <2>1, <2>2 DEF Decided
  <2> QED BY <1>a, <2>1, <2>2, <2>3 DEF ContentStep, ContentKept
<1>10. CASE WriteClose(p)
  <2>1. pc[p] = "write" /\ file' = f.buf /\ gone' = gone /\ ~StartFails(p)
    BY <1>10 DEF WriteClose, StartFails
  <2>2. Content = f.root
    BY <1>a, <2>1 DEF Decided
  <2>3. CASE f.ret = "update_more"
    <3>1. pc'[p] = "update_more" /\ frame'[p] = f
      BY <1>10, <2>3, GotoAt DEF WriteClose
    <3>2. Decided(p)'
      BY <3>1 DEF Decided
    <3> QED BY <1>a, <2>1, <2>2, <3>1, <3>2 DEF ContentStep, ContentKept
  <2>4. CASE f.ret # "update_more"
    <3>1. f.buf = f.root /\ f.buf \in Array
      BY <1>f, <2>1, <2>4 DEF SerialInv, FramesOK, FrameOK, Frame
    <3>2. Root(file') = f.root
      BY <2>1, <3>1, DaoAssumption DEF Root, Array
    <3>3. pc'[p] \in {"idle", "got"}
      BY <1>10, <2>4, GotoAt, <2>1 DEF WriteClose, Return, SerialInv, FramesOK, FrameOK
    <3>4. ~(Decided(p)')
      BY <3>3 DEF Decided
    <3> QED BY <1>a, <2>1, <2>2, <3>2, <3>4 DEF ContentStep, ContentKept
  <2> QED BY <2>3, <2>4
<1>11. ~Crash(p)
  BY DEF Crash
<1> QED BY <1>1, <1>2, <1>3, <1>4, <1>5, <1>6, <1>7, <1>8, <1>9, <1>10, <1>11, Step(p) DEF Step

\* The same, seen from the records.
LEMMA ContentEffect ==
    ASSUME TypeOK, SerialInv, NEW p \in Procs, ContentStep(p)
    PROVE  /\ Keyed(Content')
           /\ IdsIn(Content') \cap gone' = {}
           /\ Once \subseteq Once'
           /\ Once' \subseteq Once \cup {frame[p].info.id}
           /\ ~Inserting(p) => Once' = Once
           /\ \A id \in IdsIn(Content) \cap IdsIn(Content') :
                RecordOf(Content', id).name = RecordOf(Content, id).name
           /\ \A id \in IdsIn(Content') \ IdsIn(Content) :
                /\ Inserting(p) /\ id = frame[p].info.id
                /\ RecordOf(Content', id) = frame[p].info
<1> DEFINE f == frame[p]
<1>f. f.info \in Info
  BY DEF TypeOK, Frame
<1>c. Content \in Array /\ Keyed(Content) /\ IdsIn(Content) \cap gone = {} /\ Held(p)
  BY ContentType DEF SerialInv, ContentOK, HeldOK
<1>1. CASE ContentKept
  BY <1>1, <1>c DEF ContentKept, Once
<1>2. CASE ContentInserted(p)
  <2>1. f.info.id \in Ids /\ f.info.id \notin Once
    BY <1>2, <1>c, <1>f DEF ContentInserted, Held, SerialInv, ContentOK, TypeOK
  <2>2. /\ Keyed(Content')
        /\ IdsIn(Content') = IdsIn(Content) \cup {f.info.id}
        /\ \A id : RecordOf(Content', id) = IF id = f.info.id THEN f.info ELSE RecordOf(Content, id)
    BY <1>2, <1>c, <1>f, <2>1, AppendRecord DEF ContentInserted, Once
  <2> QED BY <1>2, <1>c, <2>1, <2>2 DEF ContentInserted, Once
<1>3. CASE ContentReplaced
  <2>1. PICK k \in DOMAIN Content, info \in Info :
          /\ Content[k] # Removed
          /\ info.id = Content[k].id /\ info.name = Content[k].name
          /\ Content' = [Content EXCEPT ![k] = info]
          /\ gone' = gone
    BY <1>3 DEF ContentReplaced
  <2> DEFINE new == [Content EXCEPT ![k] = info]
  <2>a. /\ Keyed(new) /\ IdsIn(new) = IdsIn(Content)
        /\ \A id : RecordOf(new, id) = IF id = info.id THEN info ELSE RecordOf(Content, id)
    BY <1>c, <2>1, ReplaceRecord, Zenon
  <2>b. Content' = new
    BY <2>1
  <2>2. /\ Keyed(Content')
        /\ IdsIn(Content') = IdsIn(Content)
        /\ \A id : RecordOf(Content', id) = IF id = info.id THEN info ELSE RecordOf(Content, id)
    <3> HIDE DEF new
    <3> QED BY <2>a, <2>b
  <2>3. RecordOf(Content, info.id) = Content[k]
    BY <1>c, <2>1, RecordFound DEF Holds
  <2> QED BY <1>c, <2>1, <2>2, <2>3 DEF Once
<1>4. CASE ContentRemoved(p)
  <2>1. /\ Keyed(Content')
        /\ IdsIn(Content') = IdsIn(Content) \ {f.info.id}
        /\ \A x : RecordOf(Content', x) = IF x = f.info.id THEN Removed ELSE RecordOf(Content, x)
    BY <1>4, <1>c, RemoveRecord DEF ContentRemoved
  <2>2. IdsIn(Content) \subseteq Ids
    BY <1>c DEF Keyed, IdsIn
  <2> QED BY <1>4, <1>c, <2>1, <2>2 DEF ContentRemoved, Once
<1> QED BY <1>1, <1>2, <1>3, <1>4 DEF ContentStep

LEMMA StoreInfo == Store!Info = Info
  BY DEF Store!Info, Info, Store!container_status_t, container_status_t,
         Store!CONTAINER_RUNNING, CONTAINER_RUNNING, Store!CONTAINER_STOPED, CONTAINER_STOPED

\* Every such step is one of the abstract registry, or leaves it as it is.
LEMMA StoreStep ==
    ASSUME TypeOK, SerialInv, NEW p \in Procs, ContentStep(p)
    PROVE  [Store!Next]_<<[id \in Ids |-> RecordOf(Content, id)], gone>>
<1> DEFINE f == frame[p]
           db == [id \in Ids |-> RecordOf(Content, id)]
<1>f. f.info \in Info
  BY DEF TypeOK, Frame
<1>c. Content \in Array /\ Keyed(Content) /\ IdsIn(Content) \cap gone = {} /\ Held(p)
  BY ContentType DEF SerialInv, ContentOK, HeldOK
<1>1. CASE ContentKept
  BY <1>1 DEF ContentKept
<1>2. CASE ContentInserted(p)
  <2>1. f.info.id \in Ids /\ f.info.id \notin Once
    BY <1>2, <1>c, <1>f DEF ContentInserted, Held, SerialInv, ContentOK, TypeOK
  <2>2. \A id : RecordOf(Content', id) = IF id = f.info.id THEN f.info ELSE RecordOf(Content, id)
    BY <1>2, <1>c, <1>f, <2>1, AppendRecord DEF ContentInserted, Once
  <2>3. RecordOf(Content, f.info.id) = Removed
    BY <2>1, RecordMissing DEF Once
  <2>4. db' = [db EXCEPT ![f.info.id] = f.info]
    BY <2>2
  <2>5. Store!Insert(f.info.id)
    <3>1. db[f.info.id] = Removed /\ f.info.id \notin gone /\ gone' = gone
      BY <1>2, <2>1, <2>3 DEF Once, ContentInserted
    <3> QED BY <1>f, <2>4, <3>1, StoreInfo DEF Store!Insert, Store!Put
  <2> QED BY <2>1, <2>5 DEF Store!Next
<1>3. CASE ContentReplaced
  <2>1. PICK k \in DOMAIN Content, info \in Info :
          /\ Content[k] # Removed
          /\ info.id = Content[k].id /\ info.name = Content[k].name
          /\ Content' = [Content EXCEPT ![k] = info]
          /\ gone' = gone
    BY <1>3 DEF ContentReplaced
  <2>2. \A id : RecordOf(Content', id) = IF id = info.id THEN info ELSE RecordOf(Content, id)
    <3> DEFINE new == [Content EXCEPT ![k] = info]
    <3>1. \A id : RecordOf(new, id) = IF id = info.id THEN info ELSE RecordOf(Content, id)
      BY <1>c, <2>1, ReplaceRecord, Zenon
    <3>2. Content' = new
      BY <2>1
    <3> HIDE DEF new
    <3> QED BY <3>1, <3>2
  <2>3. RecordOf(Content, info.id) = Content[k] /\ info.id \in Ids
    BY <1>c, <2>1, RecordFound DEF Holds
  <2>4. db' = [db EXCEPT ![info.id] = info]
    BY <2>2
  <2>5. Store!Update(info.id)
    <3>1. db[info.id] # Removed /\ info.name = db[info.id].name /\ gone' = gone
      BY <2>1, <2>3
    <3> QED BY <2>1, <2>4, <3>1, StoreInfo DEF Store!Update, Store!Put
  <2> QED BY <2>3, <2>5 DEF Store!Next
<1>4. CASE ContentRemoved(p)
  <2>1. \A x : RecordOf(Content', x) = IF x = f.info.id THEN Removed ELSE RecordOf(Content, x)
    BY <1>4, <1>c, RemoveRecord DEF ContentRemoved
  <2>2. CASE f.info.id \in IdsIn(Content)
    <3>1. f.info.id \in Ids /\ RecordOf(Content, f.info.id) # Removed
      BY <1>c, <2>2, RecordThere DEF Keyed, IdsIn
    <3>2. db' = [db EXCEPT ![f.info.id] = Removed]
      BY <2>1
    <3>3. gone' = gone \cup {f.info.id}
      BY <1>4, <2>2, <3>1 DEF ContentRemoved
    <3>4. Store!Delete(f.info.id)
      BY <3>1, <3>2, <3>3 DEF Store!Delete, Store!Put
    <3> QED BY <3>1, <3>4 DEF Store!Next
  <2>3. CASE f.info.id \notin IdsIn(Content)
    <3>1. \A x \in Ids : RecordOf(Content', x) = RecordOf(Content, x)
      BY <2>1, <2>3, RecordMissing
    <3>2. gone' = gone
      BY <1>4, <2>3 DEF ContentRemoved
    <3> QED BY <3>1, <3>2
  <2> QED BY <2>2, <2>3
<1> QED BY <1>1, <1>2, <1>3, <1>4 DEF ContentStep

-----------------------------------------------------------------------------
(* What a step does to the locals of the call *)

\* An insert begins, with an id that is new.
ShapeInsert(p) ==
    /\ pc[p] = "idle" /\ pc'[p] = "insert_read"
    /\ frame'[p].op = "insert" /\ frame'[p].ret = "idle"
    /\ frame'[p].info.id \in Ids \ issued /\ issued' = issued \cup {frame'[p].info.id}
    /\ registered' = registered

\* Another call begins with a lookup.
ShapeEnter(p) ==
    /\ pc[p] = "idle" /\ pc'[p] = "get_read"
    /\ frame'[p].op # "insert" /\ frame'[p].info.id = NoId
    /\ issued' = issued
    /\ IF frame'[p].op = "delete"
       THEN frame'[p].key \in Ids /\ registered' = registered \ {frame'[p].key}
       ELSE registered' = registered

\* The lookup is answered, by nothing or by a record of the file.
ShapeGet(p) ==
    /\ pc[p] = "get_read" /\ pc'[p] \in {"open", "got"}
    /\ frame'[p].op = frame[p].op /\ frame'[p].key = frame[p].key
    /\ pc'[p] = "open" => frame'[p].ret = "got" /\ frame'[p].buf = frame'[p].root
    /\ issued' = issued /\ registered' = registered
    /\ \/ frame'[p].info.id = NoId
       \/ \E i \in DOMAIN Root(file) :
            /\ Root(file)[i] # Removed /\ Matches(Root(file)[i], frame[p].key)
            /\ frame'[p].info.id = Root(file)[i].id
            /\ frame'[p].info.name = Root(file)[i].name

\* The call goes on with the record it has.
ShapeGoOn(p) ==
    /\ frame'[p].op = frame[p].op /\ frame'[p].key = frame[p].key
    /\ frame'[p].info.id = frame[p].info.id /\ frame'[p].info.name = frame[p].info.name
    /\ issued' = issued
    /\ registered' = IF pc[p] = "write" /\ frame[p].op = "insert"
                     THEN registered \cup {frame[p].info.id} ELSE registered
    /\ \/ pc[p] = "got" /\ pc'[p] = "hold" /\ frame[p].op = "start"
       \/ pc[p] = "got" /\ pc'[p] = "update_read"
       \/ pc[p] = "got" /\ pc'[p] = "delete_read" /\ frame[p].op = "delete"
       \/ pc[p] = "hold" /\ pc'[p] = "update_read"
       \/ pc[p] = "update_read" /\ pc'[p] = "update_more"
       \/ /\ pc[p] = "insert_read" /\ pc'[p] = "open" /\ frame'[p].ret = frame[p].ret
          /\ frame[p].op = "insert" => frame'[p].buf = frame'[p].root
       \/ pc[p] = "update_more" /\ pc'[p] = "insert_read" /\ frame'[p].ret = "update_more"
       \/ /\ pc[p] \in {"update_more", "delete_read"} /\ pc'[p] = "open"
          /\ frame'[p].ret = "idle" /\ frame'[p].buf = frame'[p].root
       \/ pc[p] = "open" /\ pc'[p] = "write" /\ frame'[p] = frame[p]
       \/ /\ pc[p] = "write" /\ frame[p].ret # "idle" /\ pc'[p] = frame[p].ret
          /\ frame'[p] = frame[p]

ShapeLeave(p) ==
    /\ pc[p] # "idle" /\ pc'[p] \in {"idle", "dead"} /\ frame'[p] = NoFrame
    /\ issued' = issued
    /\ registered' = IF pc[p] = "write" /\ frame[p].op = "insert"
                     THEN registered \cup {frame[p].info.id} ELSE registered

Shape(p) == ShapeInsert(p) \/ ShapeEnter(p) \/ ShapeGet(p) \/ ShapeGoOn(p) \/ ShapeLeave(p)

LEMMA StepShape ==
    ASSUME ~MayCrash, TypeOK, NEW p \in Procs, Step(p)
    PROVE  Shape(p)
<1> DEFINE f == frame[p]
<1>f. f \in Frame /\ f.info \in Info
  BY DEF TypeOK, Frame
<1>r. Root(file) \in Array
  BY RootType DEF TypeOK
<1>1. CASE CallInsert(p)
  <2>1. PICK id \in Ids \ issued, name \in Names \cup {NoName}, pid \in Pids \ alive :
          /\ Goto(p, "insert_read",
                [NoFrame EXCEPT !.op = "insert",
                                !.info = Running([Unset EXCEPT !.id = id, !.name = name], pid)])
          /\ issued' = issued \cup {id}
    BY <1>1 DEF CallInsert
  <2> DEFINE new == Running([Unset EXCEPT !.id = id, !.name = name], pid)
             g == [NoFrame EXCEPT !.op = "insert", !.info = new]
  <2>2. new.id = id
    BY DEF Running, Unset
  <2>3. g.op = "insert" /\ g.ret = "idle" /\ g.info = new
    <3> HIDE DEF new
    <3> QED BY DEF NoFrame
  <2>4. pc'[p] = "insert_read" /\ frame'[p] = g
    BY <2>1, GotoAt
  <2> HIDE DEF new, g
  <2> QED BY <1>1, <2>1, <2>2, <2>3, <2>4 DEF CallInsert, Call, Shape, ShapeInsert
<1>2. ASSUME NEW op \in {"get", "start"}, CallGet(p, op)
      PROVE  Shape(p)
  <2>1. PICK key \in Keys : Goto(p, "get_read", [NoFrame EXCEPT !.op = op, !.key = key])
    BY <1>2 DEF CallGet
  <2> DEFINE g == [NoFrame EXCEPT !.op = op, !.key = key]
  <2>2. g.op = op /\ g.info.id = NoId
    BY DEF NoFrame, Unset
  <2>3. pc'[p] = "get_read" /\ frame'[p] = g
    BY <2>1, GotoAt
  <2> HIDE DEF g
  <2> QED BY <1>2, <2>2, <2>3 DEF CallGet, Call, Shape, ShapeEnter
<1>3. CASE CallStop(p)
  <2>1. PICK id \in issued : Goto(p, "get_read", [NoFrame EXCEPT !.op = "stop", !.key = id])
    BY <1>3 DEF CallStop
  <2> DEFINE g == [NoFrame EXCEPT !.op = "stop", !.key = id]
  <2>2. g.op = "stop" /\ g.info.id = NoId
    BY DEF NoFrame, Unset
  <2>3. pc'[p] = "get_read" /\ frame'[p] = g
    BY <2>1, GotoAt
  <2> HIDE DEF g
  <2> QED BY <1>3, <2>2, <2>3 DEF CallStop, Call, Shape, ShapeEnter
<1>4. CASE CallDelete(p)
  <2>1. PICK id \in issued :
          /\ Goto(p, "get_read", [NoFrame EXCEPT !.op = "delete", !.key = id])
          /\ registered' = registered \ {id}
    BY <1>4 DEF CallDelete
  <2> DEFINE g == [NoFrame EXCEPT !.op = "delete", !.key = id]
  <2>2. g.op = "delete" /\ g.info.id = NoId /\ g.key = id /\ id \in Ids
    BY DEF NoFrame, Unset, TypeOK
  <2>3. pc'[p] = "get_read" /\ frame'[p] = g
    BY <2>1, GotoAt
  <2> HIDE DEF g
  <2> QED BY <1>4, <2>1, <2>2, <2>3 DEF CallDelete, Call, Shape, ShapeEnter
<1>5. CASE GetFound(p)
  <2>1. PICK i \in DOMAIN Root(file) :
          /\ FirstMatch(Root(file), f.key, i)
          /\ LET info == Root(file)[i]
                 root == [Root(file) EXCEPT ![i] = Stopped(info)]
             IN  IF info.status = CONTAINER_RUNNING /\ info.pid \notin alive
                 THEN Goto(p, "open", [f EXCEPT !.info = Stopped(info), !.root = root,
                                                !.buf = root, !.ret = "got"])
                 ELSE Goto(p, "got", [f EXCEPT !.info = info])
    BY <1>5 DEF GetFound
  <2> DEFINE info == Root(file)[i]
             stopped == Stopped(info)
             root == [Root(file) EXCEPT ![i] = Stopped(info)]
             g == [f EXCEPT !.info = stopped, !.root = root, !.buf = root, !.ret = "got"]
             h == [f EXCEPT !.info = info]
  <2>2. info \in Info /\ info # Removed /\ Matches(info, f.key)
    BY <1>r, <2>1, DaoAssumption DEF FirstMatch, Array
  <2>3. stopped.id = info.id /\ stopped.name = info.name
    BY <2>2 DEF Stopped, Info
  <2>4. /\ g.op = f.op /\ g.key = f.key /\ g.ret = "got" /\ g.buf = g.root /\ g.info = stopped
        /\ h.op = f.op /\ h.key = f.key /\ h.info = info
    <3> HIDE DEF info, root, stopped
    <3> QED BY <1>f DEF Frame
  <2>5. (pc'[p] = "open" /\ frame'[p] = g) \/ (pc'[p] = "got" /\ frame'[p] = h)
    <3>1. Goto(p, "open", g) \/ Goto(p, "got", h)
      BY <2>1
    <3> HIDE DEF g, h
    <3> QED BY <3>1, GotoAt
  <2> HIDE DEF stopped, root, g, h
  <2> QED BY <1>5, <2>2, <2>3, <2>4, <2>5 DEF GetFound, Shape, ShapeGet
<1>6. CASE GetMissing(p)
  <2> DEFINE g == [f EXCEPT !.info = Unset]
  <2>1. g.op = f.op /\ g.key = f.key /\ g.info.id = NoId
    BY <1>f DEF Frame, Unset
  <2>2. pc'[p] = "got" /\ frame'[p] = g
    BY <1>6, GotoAt DEF GetMissing
  <2> HIDE DEF g
  <2> QED BY <1>6, <2>1, <2>2 DEF GetMissing, Shape, ShapeGet
<1>7. CASE GotGet(p)
  <2>1. \/ pc'[p] = "idle" /\ frame'[p] = NoFrame
        \/ pc'[p] = "hold" /\ f.op = "start" /\ frame'[p] = f
    BY <1>7, GotoAt DEF GotGet, Return
  <2> QED BY <1>7, <2>1 DEF GotGet, Shape, ShapeGoOn, ShapeLeave
<1>8. CASE GotStop(p)
  <2> DEFINE new == Stopped(f.info)
             g == [f EXCEPT !.info = new]
  <2>1. new.id = f.info.id /\ new.name = f.info.name
    BY <1>f DEF Stopped, Info
  <2>2. g.op = f.op /\ g.key = f.key /\ g.info = new
    <3> HIDE DEF new
    <3> QED BY <1>f DEF Frame
  <2>3. (pc'[p] = "update_read" /\ frame'[p] = g) \/ (pc'[p] = "dead" /\ frame'[p] = NoFrame)
    BY <1>8, GotoAt DEF GotStop
  <2> HIDE DEF new, g
  <2> QED BY <1>8, <2>1, <2>2, <2>3 DEF GotStop, Shape, ShapeGoOn, ShapeLeave
<1>9. CASE GotDelete(p)
  <2>1. pc'[p] = "delete_read" /\ frame'[p] = f
    BY <1>9, GotoAt DEF GotDelete
  <2> QED BY <1>9, <2>1 DEF GotDelete, Shape, ShapeGoOn
<1>10. CASE StartCallback(p)
  <2>1. PICK pid \in Pids \ alive : Goto(p, "update_read", [f EXCEPT !.info = Running(@, pid)])
    BY <1>10 DEF StartCallback
  <2> DEFINE new == Running(f.info, pid)
             g == [f EXCEPT !.info = new]
  <2>2. new.id = f.info.id /\ new.name = f.info.name
    BY <1>f DEF Running, Info
  <2>3. g.op = f.op /\ g.key = f.key /\ g.info = new
    <3> HIDE DEF new
    <3> QED BY <1>f DEF Frame
  <2>4. pc'[p] = "update_read" /\ frame'[p] = g
    BY <2>1, GotoAt
  <2> HIDE DEF new, g
  <2> QED BY <1>10, <2>2, <2>3, <2>4 DEF StartCallback, Shape, ShapeGoOn
<1>11. CASE StartFails(p)
  <2>1. pc'[p] = "idle" /\ frame'[p] = NoFrame
    BY <1>11, GotoAt DEF StartFails, Return
  <2> QED BY <1>11, <2>1 DEF StartFails, Shape, ShapeLeave
<1>12. CASE InsertRead(p)
  <2> DEFINE root == Append(Root(file), f.info)
             g == [f EXCEPT !.buf = root, !.root = IF f.op = "insert" THEN root ELSE @]
  <2>1. /\ g.op = f.op /\ g.key = f.key /\ g.info = f.info /\ g.ret = f.ret
        /\ f.op = "insert" => g.buf = g.root
    <3> HIDE DEF root
    <3> QED BY <1>f DEF Frame
  <2>2. Goto(p, "open", g)
    BY <1>12 DEF InsertRead
  <2> HIDE DEF g
  <2>3. pc'[p] = "open" /\ frame'[p] = g
    BY <2>2, GotoAt
  <2> QED BY <1>12, <2>1, <2>3 DEF InsertRead, Shape, ShapeGoOn
<1>13. CASE UpdateRead(p)
  <2> DEFINE root == UpdatedRoot(Root(file), f.info)
             todo == CASE file = NoFile -> 3
                       [] file = Truncated -> 2
                       [] file \notin {NoFile, Truncated} ->
                            IF IsEmpty(Root(file)) THEN 1 ELSE 0
             g == [f EXCEPT !.root = root, !.todo = todo]
  <2>1. g.op = f.op /\ g.key = f.key /\ g.info = f.info
    <3> HIDE DEF root, todo
    <3> QED BY <1>f DEF Frame
  <2>2. Goto(p, "update_more", g)
    BY <1>13 DEF UpdateRead
  <2> HIDE DEF g
  <2>3. pc'[p] = "update_more" /\ frame'[p] = g
    BY <2>2, GotoAt
  <2> QED BY <1>13, <2>1, <2>3 DEF UpdateRead, Shape, ShapeGoOn
<1>14. CASE UpdateMore(p)
  <2> DEFINE less == f.todo - 1
             g == [f EXCEPT !.todo = less, !.ret = "update_more"]
             h == [f EXCEPT !.buf = f.root, !.ret = "idle"]
  <2>1. /\ g.op = f.op /\ g.key = f.key /\ g.info = f.info /\ g.ret = "update_more"
        /\ h.op = f.op /\ h.key = f.key /\ h.info = f.info /\ h.ret = "idle" /\ h.buf = h.root
    <3> HIDE DEF less
    <3> QED BY <1>f DEF Frame
  <2>2. Goto(p, "insert_read", g) \/ Goto(p, "open", h)
    BY <1>14 DEF UpdateMore
  <2> HIDE DEF g, h
  <2>3. (pc'[p] = "insert_read" /\ frame'[p] = g) \/ (pc'[p] = "open" /\ frame'[p] = h)
    BY <2>2, GotoAt
  <2> QED BY <1>14, <2>1, <2>3 DEF UpdateMore, Shape, ShapeGoOn
<1>15. CASE DeleteRead(p)
  <2> DEFINE root == RemainingRoot(Root(file), f.info.id)
             g == [f EXCEPT !.root = root, !.buf = root, !.ret = "idle"]
  <2>1. g.op = f.op /\ g.key = f.key /\ g.info = f.info /\ g.ret = "idle" /\ g.buf = g.root
    <3> HIDE DEF root
    <3> QED BY <1>f DEF Frame
  <2>2. Goto(p, "idle", NoFrame) \/ Goto(p, "open", g) \/ Goto(p, "dead", NoFrame)
    BY <1>15 DEF DeleteRead, Return
  <2> HIDE DEF g
  <2>3. \/ pc'[p] \in {"idle", "dead"} /\ frame'[p] = NoFrame
        \/ pc'[p] = "open" /\ frame'[p] = g
    BY <2>2, GotoAt
  <2> QED BY <1>15, <2>1, <2>3 DEF DeleteRead, Shape, ShapeGoOn, ShapeLeave
<1>16. CASE OpenTrunc(p)
  <2>1. pc'[p] = "write" /\ frame'[p] = f
    BY <1>16, GotoAt DEF OpenTrunc
  <2> QED BY <1>16, <2>1 DEF OpenTrunc, Shape, ShapeGoOn
<1>17. CASE WriteClose(p)
  <2>1. \/ pc'[p] = "idle" /\ frame'[p] = NoFrame
        \/ f.ret # "idle" /\ pc'[p] = f.ret /\ frame'[p] = f
    BY <1>17, GotoAt DEF WriteClose, Return
  <2> QED BY <1>17, <2>1 DEF WriteClose, Shape, ShapeGoOn, ShapeLeave
<1>18. ~Crash(p)
  BY DEF Crash
<1> QED BY <1>1, <1>2, <1>3, <1>4, <1>5, <1>6, <1>7, <1>8, <1>9, <1>10, <1>11,
           <1>12, <1>13, <1>14, <1>15, <1>16, <1>17, <1>18, Step(p) DEF Step

-----------------------------------------------------------------------------
(* Calls that do not overlap implement ContainerStore.                     *)

LEMMA FramesStep ==
    ASSUME ~MayCrash, TypeOK, FramesOK, NEW p \in Procs, Step(p)
    PROVE  FramesOK'
<1>1. FrameOK(p)'
  <2>1. FrameOK(p)
    BY DEF FramesOK
  <2>2. CASE ShapeInsert(p) \/ ShapeEnter(p) \/ ShapeGet(p)
    BY <2>1, <2>2 DEF ShapeInsert, ShapeEnter, ShapeGet, FrameOK
  <2>3. CASE ShapeGoOn(p)
    BY <2>1, <2>3 DEF ShapeGoOn, FrameOK
  <2>4. CASE ShapeLeave(p)
    BY <2>4 DEF ShapeLeave, FrameOK
  <2> QED BY <2>2, <2>3, <2>4, StepShape DEF Shape
<1>2. ASSUME NEW q \in Procs, q # p
      PROVE  FrameOK(q)'
  BY <1>2, OthersStay DEF FramesOK, FrameOK
<1> QED BY <1>1, <1>2 DEF FramesOK

\* The ids that have been given out stay so.
LEMMA IssuedGrows ==
    ASSUME ~MayCrash, TypeOK, NEW p \in Procs, Step(p)
    PROVE  issued \subseteq issued'
  BY StepShape DEF Shape, ShapeInsert, ShapeEnter, ShapeGet, ShapeGoOn, ShapeLeave

LEMMA ContentOKStep ==
    ASSUME Serial, ~MayCrash, TypeOK, TypeOK', SerialInv, NEW p \in Procs, Step(p)
    PROVE  ContentOK'
<1>1. ContentStep(p)
  BY ContentSteps
<1>2. /\ Keyed(Content') /\ IdsIn(Content') \cap gone' = {}
      /\ Once' \subseteq Once \cup {frame[p].info.id}
      /\ ~Inserting(p) => Once' = Once
  BY <1>1, ContentEffect
<1>3. Once \subseteq issued /\ Held(p) /\ issued \subseteq issued'
  BY IssuedGrows DEF SerialInv, ContentOK, HeldOK
<1>4. Once' \subseteq issued'
  BY <1>2, <1>3 DEF Held
<1> QED BY <1>2, <1>4 DEF ContentOK

\* The ids of a well-formed array are ids.
LEMMA KeyedIds ==
    ASSUME NEW root, Keyed(root)
    PROVE  IdsIn(root) \subseteq Ids /\ NoId \notin IdsIn(root)
  BY InfoAssumption DEF Keyed, IdsIn

\* What the file is about to hold once an insert has read it.
LEMMA InsertedContent ==
    ASSUME Serial, TypeOK, OneCaller, NEW p \in Procs, Step(p), Inserting(p), InsertRead(p)
    PROVE  Content' = Append(Content, frame[p].info)
<1> DEFINE f == frame[p]
           root == Append(Root(file), f.info)
           g == [f EXCEPT !.buf = root, !.root = root]
<1>1. f \in Frame
  BY DEF TypeOK
<1>2. Goto(p, "open", g) /\ ~StartFails(p) /\ ~Decided(p)
  BY DEF InsertRead, Inserting, StartFails, Decided
<1>3. g.root = root
  <2> HIDE DEF root
  <2> QED BY <1>1 DEF Frame
<1>4. pc'[p] = "open" /\ frame'[p] = g
  BY <1>2, GotoAt
<1>5. Decided(p)'
  BY <1>4 DEF Decided
<1>6. Content = Root(file) /\ Content' = frame'[p].root
  BY <1>2, <1>5, Alone, ContentAt, ContentNext
<1> HIDE DEF g
<1> QED BY <1>3, <1>4, <1>6

LEMMA HeldStep ==
    ASSUME Serial, ~MayCrash, TypeOK, TypeOK', SerialInv, NEW p \in Procs, Step(p)
    PROVE  HeldOK'
<1> DEFINE f == frame[p]
           g == frame'[p]
<1>1. ContentStep(p)
  BY ContentSteps
<1>2. /\ Keyed(Content')
      /\ Once \subseteq Once' /\ Once' \subseteq Once \cup {frame[p].info.id}
      /\ ~Inserting(p) => Once' = Once
      /\ \A id \in IdsIn(Content) \cap IdsIn(Content') :
           RecordOf(Content', id).name = RecordOf(Content, id).name
      /\ \A id \in IdsIn(Content') \ IdsIn(Content) :
           /\ Inserting(p) /\ id = frame[p].info.id
           /\ RecordOf(Content', id) = frame[p].info
  BY <1>1, ContentEffect
<1>3. NoId \notin IdsIn(Content')
  BY <1>2, KeyedIds
<1>4. \A q \in Procs : Held(q)
  BY DEF SerialInv, HeldOK
<1>i. issued \subseteq issued' /\ Once \subseteq issued
  BY IssuedGrows DEF SerialInv, ContentOK
<1>5. ASSUME NEW q \in Procs, q # p
      PROVE  Held(q)'
  <2>1. pc'[q] = pc[q] /\ frame'[q] = frame[q]
    BY <1>5, OthersStay
  <2>2. Inserting(q)' <=> Inserting(q)
    BY <2>1 DEF Inserting
  <2>3. Inserting(q) => ~Inserting(p)
    BY <1>5 DEF SerialInv, OneCaller, Inserting, Caller, Quiet
  <2> QED BY <1>2, <1>3, <1>4, <1>i, <2>1, <2>2, <2>3 DEF Held
<1>6. Held(p)'
  <2>1. ASSUME g.info.id = NoId, ~(Inserting(p)')
        PROVE  Held(p)'
    BY <1>3, <2>1 DEF Held
  <2>2. CASE ShapeInsert(p)
    <3>1. Inserting(p)' /\ ~Inserting(p)
      BY <2>2 DEF ShapeInsert, Inserting
    <3>2. Once' = Once
      BY <1>2, <3>1
    <3>3. g.info.id \in issued' /\ g.info.id \notin Once'
      BY <1>i, <2>2, <3>2 DEF ShapeInsert
    <3>4. IdsIn(Content)' \subseteq Once'
      BY DEF Once
    <3> QED BY <3>1, <3>3, <3>4 DEF Held
  <2>3. CASE ShapeEnter(p)
    BY <2>1, <2>3 DEF ShapeEnter, Inserting
  <2>4. CASE ShapeLeave(p)
    BY <2>1, <2>4 DEF ShapeLeave, Inserting, NoFrame, Unset
  <2>5. CASE ShapeGet(p)
    <3>1. ~Inserting(p) /\ ~(Inserting(p)') /\ ~StartFails(p) /\ ~Decided(p)
      BY <2>5 DEF ShapeGet, Inserting, StartFails, Decided
    <3>2. Content = Root(file)
      BY <3>1, Alone, ContentAt DEF SerialInv
    <3>3. CASE g.info.id = NoId
      BY <2>1, <3>1, <3>3
    <3>4. CASE g.info.id # NoId
      <4>1. PICK i \in DOMAIN Content :
              Content[i] # Removed /\ g.info.id = Content[i].id /\ g.info.name = Content[i].name
        BY <2>5, <3>2, <3>4 DEF ShapeGet
      <4>2. RecordOf(Content, g.info.id) = Content[i] /\ g.info.id \in IdsIn(Content)
        BY <4>1, RecordFound DEF Holds, SerialInv, ContentOK
      <4>3. g.info.id \in Once'
        BY <1>2, <4>2 DEF Once
      <4>4. g.info.id \in IdsIn(Content') => RecordOf(Content', g.info.id).name = g.info.name
        BY <1>2, <4>1, <4>2
      <4> QED BY <3>1, <4>3, <4>4 DEF Held
    <3> QED BY <3>3, <3>4
  <2>6. CASE ShapeGoOn(p)
    <3>1. g.info.id = f.info.id /\ g.info.name = f.info.name
      BY <2>6 DEF ShapeGoOn
    <3>2. CASE Inserting(p)
      <4>1. ~(Inserting(p)') /\ ~Decided(p) /\ Decided(p)' /\ ~StartFails(p)
        BY <2>6, <3>2 DEF ShapeGoOn, Inserting, Decided, StartFails
      <4>2. f.info.id \in Ids /\ f.info.id \notin IdsIn(Content)
        BY <1>4, <3>2 DEF Held, Once, TypeOK
      <4>3. InsertRead(p)
        BY <3>2, Step(p) DEF Step, Inserting, CallInsert, CallGet, CallStop, CallDelete, Call,
             GetFound, GetMissing, GotGet, GotStop, GotDelete, StartCallback, StartFails,
             UpdateRead, UpdateMore, DeleteRead, OpenTrunc, WriteClose, Crash
      <4>4. Content' = Append(Content, f.info)
        BY <3>2, <4>3, InsertedContent DEF SerialInv
      <4>5. f.info \in Info /\ Content \in Array /\ Keyed(Content)
        BY ContentType DEF TypeOK, Frame, SerialInv, ContentOK
      <4>6. f.info.id \in IdsIn(Content') /\ RecordOf(Content', f.info.id) = f.info
        BY <4>2, <4>4, <4>5, AppendRecord
      <4> QED BY <3>1, <4>1, <4>6 DEF Held, Once
    <3>3. CASE ~Inserting(p)
      <4>1. ~(Inserting(p)')
        BY <2>6, <3>3 DEF ShapeGoOn, Inserting, SerialInv, FramesOK, FrameOK
      <4> QED BY <1>2, <1>4, <3>1, <3>3, <4>1 DEF Held
    <3> QED BY <3>2, <3>3
  <2> QED BY <2>2, <2>3, <2>4, <2>5, <2>6, StepShape DEF Shape
<1> QED BY <1>5, <1>6 DEF HeldOK

LEMMA SerialInit == Init => SerialInv
<1> SUFFICES ASSUME Init PROVE SerialInv
  OBVIOUS
<1>1. \A p \in Procs : pc[p] = "idle" /\ frame[p].info.id = NoId
  BY DEF Init, NoFrame, Unset
<1>2. Root(file) = <<>> /\ DOMAIN Root(file) = {}
  BY DEF Init, Root
<1>3. Content = Root(file)
  BY <1>1 DEF Content, Decided
<1>4. IdsIn(Content) = {} /\ Keyed(Content)
  BY <1>2, <1>3 DEF IdsIn, Keyed
<1>5. OneCaller /\ FramesOK
  BY <1>1 DEF OneCaller, Caller, Quiet, FramesOK, FrameOK
<1>6. ContentOK
  BY <1>4 DEF ContentOK, Once, Init
<1>7. HeldOK
  BY <1>1, <1>4 DEF HeldOK, Held, Inserting
<1> QED BY <1>5, <1>6, <1>7 DEF SerialInv

\* A step that changes neither the file nor a call leaves the registry alone.
LEMMA SerialStutter ==
    ASSUME SerialInv, UNCHANGED <<file, pc, frame, issued, gone>>
    PROVE  SerialInv' /\ Content' = Content
<1>1. \A p \in Procs : (Decided(p)' <=> Decided(p)) /\ (Inserting(p)' <=> Inserting(p))
                       /\ (Caller(p)' <=> Caller(p)) /\ (FrameOK(p)' <=> FrameOK(p))
  BY DEF Decided, Inserting, Caller, FrameOK
<1>2. Content' = Content
  BY DEF Content, Decided
<1>3. Once' = Once
  BY <1>2 DEF Once
<1>4. \A p \in Procs : Held(p)' <=> Held(p)
  BY <1>1, <1>2, <1>3 DEF Held
<1>5. ContentOK'
  BY <1>2, <1>3 DEF SerialInv, ContentOK
<1>6. OneCaller' /\ FramesOK' /\ HeldOK'
  BY <1>1, <1>4 DEF SerialInv, OneCaller, FramesOK, HeldOK
<1> QED BY <1>2, <1>5, <1>6 DEF SerialInv

LEMMA SerialStep ==
    ASSUME Serial, ~MayCrash, TypeOK, TypeOK', SerialInv, [Next]_vars
    PROVE  /\ SerialInv'
           /\ [Store!Next]_<<[id \in Ids |-> RecordOf(Content, id)], gone>>
<1>1. CASE PidExit \/ UNCHANGED vars
  <2>1. UNCHANGED <<file, pc, frame, issued, gone>>
    BY <1>1 DEF PidExit, vars
  <2>2. SerialInv' /\ Content' = Content /\ gone' = gone
    BY <2>1, SerialStutter
  <2> QED BY <2>2
<1>2. ASSUME NEW p \in Procs, Step(p)
      PROVE  /\ SerialInv'
             /\ [Store!Next]_<<[id \in Ids |-> RecordOf(Content, id)], gone>>
  <2>1. OneCaller' /\ FramesOK'
    BY <1>2, OneCallerStep, FramesStep DEF SerialInv
  <2>2. ContentOK' /\ HeldOK'
    BY <1>2, ContentOKStep, HeldStep
  <2>3. ContentStep(p)
    BY <1>2, ContentSteps
  <2>4. [Store!Next]_<<[id \in Ids |-> RecordOf(Content, id)], gone>>
    BY <2>3, StoreStep
  <2> QED BY <2>1, <2>2, <2>4 DEF SerialInv
<1> QED BY <1>1, <1>2 DEF Next

LEMMA StoreInit == Init => Store!Init
<1> SUFFICES ASSUME Init PROVE Store!Init
  OBVIOUS
<1>1. \A p \in Procs : pc[p] = "idle"
  BY DEF Init
<1>2. Content = Root(file) /\ DOMAIN Root(file) = {}
  BY <1>1 DEF Content, Decided, Init, Root
<1>3. \A id \in Ids : RecordOf(Content, id) = Removed
  BY <1>2 DEF RecordOf
<1> QED BY <1>3 DEF Store!Init, Init

\* ContainerDao implements ContainerStore, for any number of processes, calls,
\* ids and names, when no two calls overlap and none is killed: each call
\* changes one record, at the last read of the file, although update falls
\* through to insert and start writes back a record it read calls ago.
THEOREM SerialImplementsStore ==
    ASSUME Serial, ~MayCrash
    PROVE  Spec => StoreSpec
<1>1. Init => SerialInv /\ Store!Init
  BY SerialInit, StoreInit
<1>2. TypeOK /\ TypeOK' /\ SerialInv /\ [Next]_vars =>
        SerialInv' /\ [Store!Next]_<<[id \in Ids |-> RecordOf(Content, id)], gone>>
  BY SerialStep
<1> QED BY <1>1, <1>2, DaoTypeCorrect, PTL DEF Spec, StoreSpec, Store!Spec

-----------------------------------------------------------------------------
(* No container gets lost.                                                 *)

LEMMA RegisteredStep ==
    ASSUME Names \cap Ids = {}, Serial, ~MayCrash, TypeOK, TypeOK', SerialInv, RegisteredOK,
           NEW p \in Procs, Step(p)
    PROVE  RegisteredOK'
<1> DEFINE f == frame[p]
           g == frame'[p]
<1>1. ContentStep(p)
  BY ContentSteps
<1>2. Shape(p)
  BY StepShape
<1>3. \A q \in Procs : q # p => pc'[q] = pc[q] /\ frame'[q] = frame[q]
  BY OthersStay
<1>4. IdsIn(Content) \subseteq IdsIn(Content') \/ ContentRemoved(p)
  <2>1. Content \in Array /\ Keyed(Content) /\ Held(p) /\ f.info \in Info
    BY ContentType DEF SerialInv, ContentOK, HeldOK, TypeOK, Frame
  <2>2. CASE ContentInserted(p)
    <3>1. f.info.id \in Ids /\ f.info.id \notin IdsIn(Content)
      BY <2>1, <2>2 DEF ContentInserted, Held, TypeOK, Once
    <3> QED BY <2>1, <2>2, <3>1, AppendRecord DEF ContentInserted
  <2>3. CASE ContentReplaced
    <3>1. PICK k \in DOMAIN Content, info \in Info :
            /\ Content[k] # Removed /\ info.id = Content[k].id
            /\ Content' = [Content EXCEPT ![k] = info]
      BY <2>3 DEF ContentReplaced
    <3>2. IdsIn([Content EXCEPT ![k] = info]) = IdsIn(Content)
      BY <2>1, <3>1, ReplaceRecord, Zenon
    <3> QED BY <3>1, <3>2
  <2>4. CASE ContentKept
    BY <2>4 DEF ContentKept
  <2> QED BY <1>1, <2>2, <2>3, <2>4 DEF ContentStep
<1>5. ContentRemoved(p) => /\ pc[p] = "delete_read"
                           /\ IdsIn(Content') = IdsIn(Content) \ {f.info.id}
  BY ContentType, RemoveRecord DEF ContentRemoved, SerialInv, ContentOK
<1>6. /\ FrameOK(p) /\ NoId \notin IdsIn(Content) /\ registered \subseteq IdsIn(Content)
      /\ Caller(p) /\ f.op = "delete" =>
           f.key \in Ids \ registered /\ f.info.id \in {f.key, NoId}
      /\ pc[p] \in {"open", "write"} /\ f.op = "insert" => f.info.id \in IdsIn(Content)
  BY KeyedIds DEF SerialInv, FramesOK, ContentOK, RegisteredOK
<1>7. /\ registered' \subseteq registered \cup {f.info.id}
      /\ registered' \subseteq registered \/ (pc[p] = "write" /\ f.op = "insert")
  BY <1>2 DEF Shape, ShapeInsert, ShapeEnter, ShapeGet, ShapeGoOn, ShapeLeave
<1>8. registered' \subseteq IdsIn(Content')
  <2>1. CASE ContentRemoved(p)
    <3>1. f.op = "delete" /\ Caller(p) /\ registered' \subseteq registered
      BY <1>5, <1>6, <1>7, <2>1 DEF FrameOK, Caller, Quiet
    <3> QED BY <1>5, <1>6, <2>1, <3>1
  <2>2. CASE IdsIn(Content) \subseteq IdsIn(Content')
    BY <1>6, <1>7, <2>2
  <2> QED BY <1>4, <2>1, <2>2
<1>9. ASSUME NEW q \in Procs, pc'[q] \in {"open", "write"}, frame'[q].op = "insert"
      PROVE  frame'[q].info.id \in IdsIn(Content')
  <2>1. CASE q # p
    <3>1. Caller(q) /\ pc[q] \in {"open", "write"} /\ frame[q].op = "insert"
          /\ frame'[q].info = frame[q].info
      BY <1>3, <1>9, <2>1 DEF Caller, Quiet
    <3>2. ~ContentRemoved(p)
      BY <1>5, <2>1, <3>1 DEF SerialInv, OneCaller, Caller, Quiet
    <3>3. frame[q].info.id \in IdsIn(Content)
      BY <3>1 DEF RegisteredOK
    <3> QED BY <1>4, <3>1, <3>2, <3>3
  <2>2. CASE q = p
    <3>1. ShapeGoOn(p) /\ pc[p] \in {"insert_read", "open"} /\ f.op = "insert"
      BY <1>2, <1>6, <1>9, <2>2 DEF Shape, ShapeInsert, ShapeEnter, ShapeGet, ShapeGoOn,
           ShapeLeave, FrameOK
    <3>2. g.info.id = f.info.id
      BY <3>1 DEF ShapeGoOn
    <3>3. CASE pc[p] = "open"
      <4>1. ~ContentRemoved(p)
        BY <1>5, <3>3
      <4> QED BY <1>4, <1>6, <2>2, <3>1, <3>2, <3>3, <4>1
    <3>4. CASE pc[p] = "insert_read"
      <4>1. Inserting(p)
        BY <3>1, <3>4 DEF Inserting
      <4>2. InsertRead(p)
        BY <3>4, Step(p) DEF Step, CallInsert, CallGet, CallStop, CallDelete, Call,
             GetFound, GetMissing, GotGet, GotStop, GotDelete, StartCallback, StartFails,
             UpdateRead, UpdateMore, DeleteRead, OpenTrunc, WriteClose, Crash
      <4>3. Content' = Append(Content, f.info)
        BY <4>1, <4>2, InsertedContent DEF SerialInv
      <4>4. f.info \in Info /\ Content \in Array /\ Keyed(Content)
        BY ContentType DEF TypeOK, Frame, SerialInv, ContentOK
      <4>5. f.info.id \in Ids /\ f.info.id \notin IdsIn(Content)
        BY <4>1 DEF SerialInv, HeldOK, Held, Once, TypeOK
      <4>6. f.info.id \in IdsIn(Content')
        BY <4>3, <4>4, <4>5, AppendRecord
      <4> QED BY <2>2, <3>2, <4>6
    <3> QED BY <3>1, <3>3, <3>4
  <2> QED BY <2>1, <2>2
<1>10. ASSUME NEW q \in Procs, Caller(q)', frame'[q].op = "delete"
       PROVE  /\ frame'[q].key \in Ids \ registered'
              /\ frame'[q].info.id \in {frame'[q].key, NoId}
  <2>1. CASE q # p
    <3>1. Caller(q) /\ frame'[q] = frame[q]
      BY <1>3, <1>10, <2>1 DEF Caller
    <3>2. registered' \subseteq registered
      BY <1>7, <2>1, <3>1 DEF SerialInv, OneCaller, Caller, Quiet
    <3> QED BY <1>10, <3>1, <3>2 DEF RegisteredOK
  <2>2. CASE q = p
    <3>1. CASE ShapeInsert(p) \/ ShapeEnter(p)
      BY <1>10, <2>2, <3>1 DEF ShapeInsert, ShapeEnter
    <3>2. CASE ShapeLeave(p)
      BY <1>10, <2>2, <3>2 DEF ShapeLeave, NoFrame
    <3>3. CASE ShapeGoOn(p)
      <4>1. f.op = "delete" /\ g.key = f.key /\ g.info.id = f.info.id /\ registered' = registered
        BY <1>10, <2>2, <3>3 DEF ShapeGoOn
      <4>2. Caller(p)
        BY <1>6, <3>3, <4>1 DEF ShapeGoOn, FrameOK, Caller, Quiet
      <4> QED BY <1>6, <2>2, <4>1, <4>2
    <3>4. CASE ShapeGet(p)
      <4>1. Caller(p) /\ f.op = "delete" /\ g.key = f.key /\ registered' = registered
        BY <1>10, <2>2, <3>4 DEF ShapeGet, Caller, Quiet
      <4>2. f.key \in Ids \ registered
        BY <1>6, <4>1
      <4>3. Root(file) \in Array
        BY RootType DEF TypeOK
      <4>4. ASSUME NEW i \in DOMAIN Root(file), Root(file)[i] # Removed,
                   Matches(Root(file)[i], f.key)
            PROVE  Root(file)[i].id = f.key
        <5>1. Root(file)[i] \in Info
          BY <4>3, <4>4 DEF Array
        <5>2. Root(file)[i].name \in Names \cup {NoName}
          BY <5>1 DEF Info
        <5> QED BY <4>2, <4>4, <5>2, InfoAssumption DEF Matches
      <4>5. g.info.id \in {f.key, NoId}
        BY <3>4, <4>4 DEF ShapeGet
      <4> QED BY <2>2, <4>1, <4>2, <4>5
    <3> QED BY <1>2, <3>1, <3>2, <3>3, <3>4 DEF Shape
  <2> QED BY <2>1, <2>2
<1> QED BY <1>8, <1>9, <1>10 DEF RegisteredOK

\* When no two calls overlap and none is killed, no registered container is
\* missing from `ls -a` or shown twice, for any number of processes, calls and
\* containers; provided that no name is another container's id, because
\* delete_by_id looks its id up among the names too.
THEOREM SerialRegistryComplete ==
    ASSUME Names \cap Ids = {}, Serial, ~MayCrash
    PROVE  Spec => []RegistryComplete
<1>1. Init => SerialInv /\ RegisteredOK
  <2> SUFFICES ASSUME Init PROVE RegisteredOK
    BY SerialInit
  <2> QED BY DEF Init, RegisteredOK, Caller, Quiet
<1>2. TypeOK /\ TypeOK' /\ SerialInv /\ RegisteredOK /\ [Next]_vars => SerialInv' /\ RegisteredOK'
  <2> SUFFICES ASSUME TypeOK, TypeOK', SerialInv, RegisteredOK, [Next]_vars
               PROVE  RegisteredOK'
    BY SerialStep
  <2>1. CASE PidExit \/ UNCHANGED vars
    <3>1. UNCHANGED <<file, pc, frame, issued, registered, gone>>
      BY <2>1 DEF PidExit, vars
    <3>2. Content' = Content
      BY <3>1, SerialStutter
    <3> QED BY <3>1, <3>2 DEF RegisteredOK, Caller
  <2>2. ASSUME NEW p \in Procs, Step(p)
        PROVE  RegisteredOK'
    BY <2>2, RegisteredStep
  <2> QED BY <2>1, <2>2 DEF Next
<1>3. SerialInv /\ RegisteredOK => RegistryComplete
  <2> SUFFICES ASSUME SerialInv, RegisteredOK, \A p \in Procs : pc[p] \in Quiet,
                      NEW id \in registered
               PROVE  \E i \in ls(file, TRUE) :
                        /\ Root(file)[i].id = id
                        /\ \A j \in ls(file, TRUE) : Root(file)[j].id = id => j = i
    BY DEF RegistryComplete
  <2>1. Content = Root(file)
    BY DEF Content, Decided, Quiet
  <2>2. Keyed(Root(file)) /\ id \in IdsIn(Root(file))
    BY <2>1 DEF SerialInv, ContentOK, RegisteredOK
  <2>3. PICK i \in DOMAIN Root(file) : Holds(Root(file), i, id)
    BY <2>2, HoldsOf
  <2>4. ls(file, TRUE) = {j \in DOMAIN Root(file) : Root(file)[j] # Removed}
    BY DEF ls, list
  <2> QED BY <2>2, <2>3, <2>4 DEF Holds, Keyed
<1> QED BY <1>1, <1>2, <1>3, DaoTypeCorrect, PTL DEF Spec
=============================================================================
