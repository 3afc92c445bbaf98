------------------------------- MODULE MCPty -------------------------------
(***************************************************************************)
(* The server's relay (PtyRelay) and the programs on the user's side       *)
(* (PtyExec) for TLC.  They share no state, so a behaviour is one of       *)
(* either: part says of which, and the other stays as it began.            *)
(***************************************************************************)
EXTENDS PtyRelay, PtyExec

VARIABLE part

MCInit ==
    /\ part \in {"relay", "exec"}
    /\ Init /\ ExecInit
    /\ part # "exec" => role = "client" /\ masterFd = "bad"

RelayDoes(A) == part = "relay" /\ A /\ UNCHANGED <<part, execVars>>
ExecDoes(A)  == part = "exec" /\ A /\ UNCHANGED <<part, vars>>

MCNext == RelayDoes(Next) \/ ExecDoes(ExecNext)

\* The state of both is well typed: no counter of the loops leaves its range.
PtyTypeOK == TypeOK /\ ExecTypeOK

all == <<part, vars, execVars>>

\* The fairness of PtyRelay's FairSpec and of PtyExec's ExecSpec.
MCSpec ==
    /\ MCInit
    /\ [][MCNext]_all
    /\ WF_all(RelayDoes(Server))
    /\ WF_all(ExecDoes(Program)) /\ WF_all(ExecDoes(Child))
=============================================================================
