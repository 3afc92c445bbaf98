--------------------------- MODULE ContainerStore --------------------------
(***************************************************************************)
(* What ContainerDao promises its callers: a registry that maps container  *)
(* ids to records and changes one record at a time.  An id enters the      *)
(* registry once, its record is then replaced or removed, a removed id     *)
(* never comes back, and nothing that happens to one container touches the *)
(* record of another.                                                      *)
(***************************************************************************)
EXTENDS ContainerInfo

CONSTANT NoRecord

VARIABLES
    db,    \* db[id]: the record of id, or NoRecord
    gone   \* ids whose record was removed

Put(id, info) == db' = [db EXCEPT ![id] = info]

Insert(id) ==
    /\ db[id] = NoRecord /\ id \notin gone
    /\ \E info \in Info : info.id = id /\ Put(id, info)
    /\ UNCHANGED gone

Update(id) ==
    /\ db[id] # NoRecord
    /\ \E info \in Info : info.id = id /\ info.name = db[id].name /\ Put(id, info)
    /\ UNCHANGED gone

Delete(id) ==
    /\ db[id] # NoRecord
    /\ Put(id, NoRecord)
    /\ gone' = gone \cup {id}

Init == db = [id \in Ids |-> NoRecord] /\ gone = {}

Next == \E id \in Ids : Insert(id) \/ Update(id) \/ Delete(id)

Spec == Init /\ [][Next]_<<db, gone>>
=============================================================================
