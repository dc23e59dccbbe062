------------------------------ MODULE ActionOffer ------------------------------
(***************************************************************************)
(* What approving a proposed command promises, with no Redis, no locks and *)
(* no conversation: an offer is taken by one approval at a time, its       *)
(* command runs at most once and only while taken, and an offer that is    *)
(* closed (cancelled, expired, deleted, executed) never opens again.       *)
(***************************************************************************)
CONSTANT Action

VARIABLES
    offer,   \* how far the offer of each action has come
    ran      \* the actions whose command was handed to the executor

vars == <<offer, ran>>

OfferState == {"none", "open", "taken", "closed"}

Init ==
    /\ offer = [a \in Action |-> "none"]
    /\ ran = {}

Move(a, from, to) ==
    /\ offer[a] = from
    /\ offer' = [offer EXCEPT ![a] = to]
    /\ UNCHANGED ran

Propose(a) == Move(a, "none", "open")
Take(a)    == Move(a, "open", "taken")
Settle(a)  == Move(a, "taken", "closed")

\* The approval dies before it has started anything.
GiveBack(a) == a \notin ran /\ Move(a, "taken", "open")

\* Open offers are closed, several at once when a conversation is deleted.
Withdraw(A) ==
    /\ \A a \in A : offer[a] = "open"
    /\ offer' = [a \in Action |-> IF a \in A THEN "closed" ELSE offer[a]]
    /\ UNCHANGED ran

Run(a) ==
    /\ offer[a] = "taken"
    /\ a \notin ran
    /\ ran' = ran \cup {a}
    /\ UNCHANGED offer

Next ==
    \/ \E a \in Action : Propose(a) \/ Take(a) \/ Settle(a) \/ GiveBack(a) \/ Run(a)
    \/ \E A \in SUBSET Action : Withdraw(A)

Spec == Init /\ [][Next]_vars
=============================================================================
