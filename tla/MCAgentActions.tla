---------------------------- MODULE MCAgentActions ----------------------------
(* AgentActions for TLC. *)
EXTENDS AgentActions, TLC

Symmetric == Permutations(Proc) \cup Permutations(Action)

\* The state after a chat run has proposed one command and ended: the start for
\* runs about what approvals, cancellations and deletions do to it.
Offered(a) ==
    /\ exists = TRUE
    /\ pending = {a}
    /\ index = {a}
    /\ results = TRUE
    /\ status = [b \in Action |-> IF b = a THEN "pending" ELSE "new"]
    /\ due = [b \in Action |-> FALSE]
    /\ actionLock = [b \in Action |-> NoOne]
    /\ runLock = NoOne
    /\ pc = [p \in Proc |-> "idle"]
    /\ act = [p \in Proc |-> NoAction]
    /\ mem = [p \in Proc |-> Blank]
    /\ starts = [b \in Action |-> 0]
    /\ gone = {}

InitOffered == \E a \in Action : Offered(a)

SpecOffered == InitOffered /\ [][Next]_vars
FairOffered == SpecOffered /\ Fairness
=============================================================================
