--------------------------- MODULE AgentClaimProofs ---------------------------
(***************************************************************************)
(* Theorems about AgentActions, for any number of greenlets and actions,   *)
(* with deaths, deletions and lapsing run locks: the types, and that a     *)
(* claim belongs to one greenlet, from which AtMostOnce and                *)
(* WithdrawnNeverRan follow.                                               *)
(***************************************************************************)
EXTENDS AgentActions, TLAPS

-----------------------------------------------------------------------------

(* Type correctness.  A verdict is about to be recorded only once there is one,
   and an id is about to be indexed only once it is drawn. *)

TypeInv ==
    /\ TypeOK
    /\ \A p \in Proc : /\ pc[p] \in {"upGet", "upSet"} => mem[p].outcome # "none"
                       /\ pc[p] \in {"crIndex", "crSave"} => act[p] \in Action

LEMMA BlankIsMemory == Blank \in Memory
BY ActionsAssumption DEF Blank, Memory, Kind, Return, Outcome

LEMMA TypeInit == Init => TypeInv
BY BlankIsMemory DEF Init, TypeInv, TypeOK, Status, Live, Finished, Label, Return

LEMMA TypeStep == TypeInv /\ [Next]_vars => TypeInv'
<1> SUFFICES ASSUME TypeInv, [Next]_vars PROVE TypeInv'
    OBVIOUS
<1> USE DEF TypeInv, TypeOK
<1> DEFINE SharedOK ==
        /\ exists' \in BOOLEAN /\ pending' \in SUBSET Action /\ index' \in SUBSET Action
        /\ results' \in BOOLEAN /\ status' \in [Action -> Status]
        /\ due' \in [Action -> BOOLEAN]
        /\ actionLock' \in [Action -> Proc \cup {NoOne, Lost}]
        /\ runLock' \in Proc \cup {NoOne, Lost}
        /\ starts' \in [Action -> Nat] /\ gone' \in SUBSET Action
<1> DEFINE LocalOK ==
        /\ pc' \in [Proc -> Label]
        /\ act' \in [Proc -> Action \cup {NoAction}]
        /\ mem' \in [Proc -> Memory]
        /\ \A p \in Proc : /\ pc'[p] \in {"upGet", "upSet"} => mem'[p].outcome # "none"
                           /\ pc'[p] \in {"crIndex", "crSave"} => act'[p] \in Action
<1>0. /\ {"idle", "getConv", "release", "recon", "reconExpire", "reconSave"} \subseteq Label
      /\ Return \subseteq Label
      /\ "reply" \in Return
      /\ 0 \in 0..(MaxSteps - 1) /\ 0 \in 0..(MaxCalls - 1)
    BY ActionsAssumption DEF Label, Return
<1>1. ASSUME NEW p \in Proc, Finish(p) PROVE LocalOK
    BY <1>0, <1>1, BlankIsMemory DEF Finish
<1>2. ASSUME NEW p \in Proc, NEW l \in Label \ {"upGet", "crIndex"}, Goto(p, l),
             l = "upSet" => pc[p] = "upGet", l = "crSave" => pc[p] = "crIndex"
      PROVE LocalOK
    BY <1>2 DEF Goto
<1>m. ASSUME NEW p \in Proc, NEW l \in Label, NEW m \in Memory,
             pc' = [pc EXCEPT ![p] = l], mem' = [mem EXCEPT ![p] = m],
             act' \in [Proc -> Action \cup {NoAction}],
             \A q \in Proc \ {p} : act'[q] = act[q],
             l \in {"upGet", "upSet"} => m.outcome # "none",
             l \in {"crIndex", "crSave"} => act'[p] \in Action
      PROVE LocalOK
    <2>1. \A q \in Proc : pc'[q] \in {"upGet", "upSet"} => mem'[q].outcome # "none"
        BY <1>m
    <2> QED
        BY <1>m, <2>1
<1>3. ASSUME NEW p \in Proc, NEW l \in Return, CallGet(p, l) PROVE LocalOK
    <2>1. [mem[p] EXCEPT !.ret = l] \in Memory
        BY DEF Memory
    <2> QED
        BY <1>0, <1>m, <1>3, <2>1 DEF CallGet
<1>4. ASSUME NEW p \in Proc, ToRelease(p) PROVE LocalOK
    <2>1. mem[p] \in Memory
        OBVIOUS
    <2>2. [mem[p] EXCEPT !.copy = {}, !.prepared = FALSE, !.round = 0, !.calls = 0] \in Memory
        BY <1>0, <2>1, Zenon DEF Memory
    <2> QED
        BY <1>0, <1>m, <1>4, <2>2 DEF ToRelease
<1>5. ASSUME NEW p \in Proc, NEW l \in {"upGet"}, NEW o \in Outcome \ {"none"}, Decide(p, o, l)
      PROVE LocalOK
    <2>1. [mem[p] EXCEPT !.outcome = o] \in Memory
        BY DEF Memory
    <2>2. [mem[p] EXCEPT !.outcome = o].outcome # "none"
        BY DEF Memory
    <2> QED
        BY <1>m, <1>5, <2>1, <2>2 DEF Decide, Label
<1>6. CASE UNCHANGED vars
    BY <1>6 DEF vars, redis, locals, history
<1>7. ASSUME NEW p \in Proc, Request(p) PROVE TypeInv'
    <2>1. ASSUME NEW k, NEW l \in Return, BeginGet(p, k, l) PROVE TypeInv'
        <3>1. k \in Kind
            BY <2>1, ActionsAssumption DEF BeginGet, Kind
        <3>2. mem[p] \in Memory
            OBVIOUS
        <3>3. [mem[p] EXCEPT !.kind = k, !.ret = l] \in Memory
            BY <3>1, <3>2, Zenon DEF Memory
        <3> QED
            BY <1>0, <1>m, <2>1, <3>3 DEF BeginGet, redis, history
    <2>2. ASSUME NEW k, NEW a \in Action, NEW l \in {"apGet", "caLock"}, Begin(p, k, a, l)
          PROVE TypeInv'
        <3>1. k \in Kind
            BY <2>2, ActionsAssumption DEF Begin, Kind
        <3>2. [mem[p] EXCEPT !.kind = k] \in Memory
            BY <3>1 DEF Memory
        <3>3. l \in Label
            BY DEF Label
        <3> QED
            BY <1>m, <2>2, <3>2, <3>3 DEF Begin, redis, history
    <2> QED
        BY <1>7, <2>1, <2>2 DEF Request, Known, Return
<1>8. ASSUME NEW p \in Proc, Abandon(p) PROVE TypeInv'
    BY <1>1, <1>8 DEF Abandon
<1>9. CASE Lapse
    BY <1>9 DEF Lapse, RunLockLapse, Deadline, KeyLapse, ActionLockLapse, locals, history, Status
<1>10. ASSUME NEW p \in Proc, Loading(p) PROVE TypeInv'
    <2>1. CASE GetConv(p)
        <3>1. CASE ~exists /\ NotFound(p)
            <4>1. CASE Goto(p, "free")
                BY <1>2, <2>1, <4>1 DEF GetConv, redis, history, Label
            <4>2. CASE mem[p].ret = "upSave" /\ mem[p].outcome = "completed"
                <5>1. Decide(p, "failed", "upGet")
                    BY <3>1, <4>2 DEF NotFound, Decide
                <5> QED
                    BY <1>5, <2>1, <5>1 DEF GetConv, redis, history, Label, Outcome
            <4> QED
                BY <1>1, <1>4, <2>1, <3>1, <4>1, <4>2 DEF NotFound, GetConv, redis, history
        <3>2. CASE exists
            <4>1. mem[p] \in Memory
                OBVIOUS
            <4>2. [mem[p] EXCEPT !.copy = pending, !.todo = pending, !.dirty = FALSE] \in Memory
                BY <4>1, Zenon DEF Memory
            <4> QED
                BY <1>0, <1>m, <2>1, <3>2, <4>2 DEF GetConv, redis, history
        <3> QED
            BY <2>1, <3>1, <3>2 DEF GetConv
    <2>2. ASSUME NEW a \in Action, ReconOne(p, a) PROVE TypeInv'
        <3>1. mem[p] \in Memory
            OBVIOUS
        <3>2. ASSUME NEW t \in SUBSET Action, NEW c \in SUBSET Action, NEW b \in BOOLEAN,
                     NEW x \in Action \cup {NoAction}
              PROVE [mem[p] EXCEPT !.todo = t, !.copy = c, !.dirty = b, !.cur = x] \in Memory
            BY <3>1, Zenon DEF Memory
        <3> DEFINE overdue == status[a] = "pending" /\ due[a]
                   keep == status[a] \in Live /\ ~overdue
                   t == mem[p].todo \ {a}
                   c == IF keep THEN mem[p].copy ELSE mem[p].copy \ {a}
                   b == mem[p].dirty \/ ~keep
                   x == IF overdue THEN a ELSE NoAction
                   m == [mem[p] EXCEPT !.todo = t, !.copy = c, !.dirty = b, !.cur = x]
        <3>3. mem' = [mem EXCEPT ![p] = m]
            BY <2>2, Zenon DEF ReconOne
        <3>4. m \in Memory
            <4>1. t \in SUBSET Action /\ c \in SUBSET Action /\ x \in Action \cup {NoAction}
                BY <3>1 DEF Memory
            <4>2. b \in BOOLEAN
                OBVIOUS
            <4> QED
                BY <3>2, <4>1, <4>2
        <3> HIDE DEF m
        <3>5. PICK l \in {"recon", "reconExpire"} : pc' = [pc EXCEPT ![p] = l]
            BY <2>2 DEF ReconOne
        <3>6. LocalOK
            BY <1>0, <1>m, <2>2, <3>3, <3>4, <3>5 DEF ReconOne
        <3> QED
            BY <2>2, <3>6 DEF ReconOne, history
    <2>3. CASE ReconExpire(p)
        <3>1. [mem[p] EXCEPT !.cur = NoAction] \in Memory
            BY DEF Memory
        <3> QED
            BY <1>0, <1>m, <2>3, <3>1 DEF ReconExpire, history, Status, Finished
    <2>4. CASE ReconEnd(p)
        <3>1. [mem[p] EXCEPT !.dirty = FALSE] \in Memory
            BY DEF Memory
        <3>2. mem[p].ret \in Return \ {"upGet", "upSet", "crIndex", "crSave"}
            BY DEF Memory, Return
        <3> QED
            BY <1>0, <1>m, <2>4, <3>1, <3>2 DEF ReconEnd, redis, history
    <2>5. CASE ReconSave(p)
        <3>1. mem[p].ret \in Return \ {"upGet", "upSet", "crIndex", "crSave"} /\ mem[p].copy \in SUBSET Action
            BY DEF Memory, Return
        <3> QED
            BY <1>0, <1>2, <2>5, <3>1 DEF ReconSave, SaveConv, history
    <2>6. CASE Reply(p)
        BY <1>1, <2>6 DEF Reply, redis, history
    <2> QED
        BY <1>10, <2>1, <2>2, <2>3, <2>4, <2>5, <2>6 DEF Loading
<1>11. ASSUME NEW p \in Proc, Approving(p) PROVE TypeInv'
    <2>1. CASE ApGet(p)
        BY <1>1, <1>3, <2>1 DEF ApGet, redis, history, Return
    <2>2. CASE ClLock(p)
        BY <1>2, <1>4, <2>2 DEF ClLock, history, Label
    <2>3. CASE ClGet(p)
        BY <1>2, <2>3 DEF ClGet, redis, history, Label
    <2>4. CASE ClExpire(p)
        BY <1>2, <2>4 DEF ClExpire, SetStatus, history, Label, Status, Finished
    <2>5. CASE ClRun(p)
        <3>1. [mem[p] EXCEPT !.claimed = TRUE] \in Memory
            BY DEF Memory
        <3> QED
            BY <1>m, <2>5, <3>1 DEF ClRun, SetStatus, history, Label, Status, Live
    <2>6. CASE Validate(p)
        <3>1. /\ \/ Decide(p, "failed", "upGet")
                 \/ Decide(p, "rejected", "upGet")
                 \/ Goto(p, "exec")
              /\ starts' \in [Action -> Nat]
            BY <2>6 DEF Validate
        <3>2. LocalOK
            BY <1>2, <1>5, <3>1 DEF Label, Outcome
        <3> QED
            BY <2>6, <3>1, <3>2 DEF Validate, redis
    <2>7. CASE Exec(p)
        BY <1>5, <2>7 DEF Exec, redis, history, Label, Outcome
    <2>8. CASE UpGet(p)
        BY <1>2, <1>4, <1>5, <2>8 DEF UpGet, redis, history, Label, Outcome
    <2>9. CASE UpSet(p)
        <3>1. mem[p].outcome \in Status
            BY <2>9 DEF UpSet, Memory, Outcome, Status, Finished
        <3> QED
            BY <1>3, <2>9, <3>1 DEF UpSet, SetStatus, history, Return
    <2>10. CASE UpSave(p)
        BY <1>4, <2>10 DEF UpSave, DropPending, SaveConv, history, Memory
    <2>11. CASE EvSave(p)
        BY <1>1, <2>11 DEF EvSave, SaveConv, history, Memory
    <2> QED
        BY <1>11, <2>1, <2>2, <2>3, <2>4, <2>5, <2>6, <2>7, <2>8, <2>9, <2>10, <2>11 DEF Approving
<1>12. ASSUME NEW p \in Proc, Cancelling(p) PROVE TypeInv'
    <2>1. CASE CaLock(p)
        BY <1>1, <1>2, <2>1 DEF CaLock, history, Label
    <2>2. CASE CaGet(p)
        BY <1>2, <2>2 DEF CaGet, redis, history, Label
    <2>3. CASE CaSet(p)
        BY <1>3, <2>3 DEF CaSet, SetStatus, history, Return, Status, Finished
    <2>4. CASE CaSave(p)
        BY <1>2, <2>4 DEF CaSave, DropPending, SaveConv, history, Memory, Label
    <2> QED
        BY <1>12, <2>1, <2>2, <2>3, <2>4 DEF Cancelling
<1>13. ASSUME NEW p \in Proc, Deleting(p) PROVE TypeInv'
    <2>1. CASE DeCheck(p)
        BY <1>1, <1>2, <2>1 DEF DeCheck, redis, history, Label
    <2>2. CASE DeDelete(p)
        BY <1>1, <2>2 DEF DeDelete, Status
    <2> QED
        BY <1>13, <2>1, <2>2 DEF Deleting
<1>14. ASSUME NEW p \in Proc, Running(p) PROVE TypeInv'
    <2>0. mem[p] \in Memory /\ mem[p].copy \in SUBSET Action
        BY DEF Memory
    <2>1. CASE RuAppend(p)
        BY <1>2, <2>0, <2>1 DEF RuAppend, SaveConv, history, Label
    <2>2. CASE Think(p)
        <3>1. LocalOK
            BY <1>3, <1>4, <2>2 DEF Think, Return
        <3> QED
            BY <2>0, <2>2, <3>1 DEF Think, SaveConv, redis, history
    <2>3. CASE RuDone(p)
        BY <1>4, <2>0, <2>3 DEF RuDone, SaveConv, history
    <2>4. CASE RuTool(p)
        <3>1. LocalOK
            BY <1>3, <2>4 DEF RuTool, Return
        <3> QED
            BY <2>0, <2>4, <3>1 DEF RuTool, history
    <2>5. CASE CrSet(p)
        <3>1. CASE CallGet(p, "ruNext") /\ UNCHANGED status
            BY <1>3, <2>5, <3>1 DEF CrSet, history, Return
        <3>2. ASSUME NEW a \in Action, status' = [status EXCEPT ![a] = "pending"],
                     act' = [act EXCEPT ![p] = a], pc' = [pc EXCEPT ![p] = "crIndex"],
                     UNCHANGED mem
              PROVE TypeInv'
            BY <2>5, <3>2 DEF CrSet, history, Label, Status, Live
        <3> QED
            BY <2>5, <3>1, <3>2, Zenon DEF CrSet
    <2>6. CASE CrIndex(p)
        BY <1>2, <2>6 DEF CrIndex, history, Label, Return
    <2>7. CASE CrSave(p)
        <3>1. [mem[p] EXCEPT !.ret = "ruNext", !.prepared = TRUE] \in Memory
            <4>1. "ruNext" \in Return
                BY DEF Return
            <4> QED
                BY <2>0, <4>1, Zenon DEF Memory
        <3> QED
            BY <1>0, <1>m, <2>0, <2>7, <3>1 DEF CrSave, SaveConv, history
    <2>8. CASE RuNext(p)
        <3>1. CASE mem[p].calls + 1 < MaxCalls /\ NextCall(p)
            <4>1. mem[p].calls + 1 \in 0..(MaxCalls - 1) /\ "ruTool" \in Return
                BY <2>0, <3>1, ActionsAssumption DEF Memory, Return
            <4>2. ASSUME NEW i \in 0..(MaxCalls - 1)
                  PROVE [mem[p] EXCEPT !.ret = "ruTool", !.calls = i] \in Memory
                BY <2>0, <4>1, Zenon DEF Memory
            <4> DEFINE m == [mem[p] EXCEPT !.ret = "ruTool", !.calls = @ + 1]
            <4>3. m \in Memory
                BY <4>1, <4>2, Zenon
            <4>4. mem' = [mem EXCEPT ![p] = m]
                BY <3>1 DEF NextCall
            <4> HIDE DEF m
            <4>5. LocalOK
                BY <1>0, <1>m, <3>1, <4>3, <4>4 DEF NextCall
            <4> QED
                BY <2>0, <2>8, <4>5 DEF RuNext, SaveConv, history
        <3>2. CASE ToRelease(p)
            BY <1>4, <2>0, <2>8, <3>2 DEF RuNext, SaveConv, history
        <3>3. CASE mem[p].round + 1 < MaxSteps /\ NextRound(p)
            <4>1. mem[p].round + 1 \in 0..(MaxSteps - 1)
                BY <2>0, <3>3, ActionsAssumption DEF Memory
            <4>2. ASSUME NEW i \in 0..(MaxSteps - 1)
                  PROVE [mem[p] EXCEPT !.round = i, !.calls = 0] \in Memory
                BY <1>0, <2>0, Zenon DEF Memory
            <4> DEFINE m == [mem[p] EXCEPT !.round = @ + 1, !.calls = 0]
            <4>3. m \in Memory
                BY <4>1, <4>2, Zenon
            <4>4. mem' = [mem EXCEPT ![p] = m]
                BY <3>3 DEF NextRound
            <4> HIDE DEF m
            <4>5. LocalOK
                BY <1>m, <3>3, <4>3, <4>4 DEF NextRound, Label
            <4> QED
                BY <2>0, <2>8, <4>5 DEF RuNext, SaveConv, history
        <3> QED
            BY <2>8, <3>1, <3>2, <3>3 DEF RuNext
    <2> QED
        BY <1>14, <2>1, <2>2, <2>3, <2>4, <2>5, <2>6, <2>7, <2>8 DEF Running
<1>15. ASSUME NEW p \in Proc, Locking(p) PROVE TypeInv'
    <2>1. CASE RunLock(p)
        BY <1>1, <1>2, <1>3, <2>1 DEF RunLock, history, Label, Return
    <2>2. CASE Free(p)
        BY <1>1, <1>2, <1>4, <2>2 DEF Free, history, Label
    <2>3. CASE Release(p)
        BY <1>1, <1>2, <2>3 DEF Release, redis, history, Label
    <2>4. CASE RelDel(p)
        BY <1>1, <1>3, <2>4 DEF RelDel, history, Return
    <2> QED
        BY <1>15, <2>1, <2>2, <2>3, <2>4 DEF Locking
<1> QED
    BY <1>6, <1>7, <1>8, <1>9, <1>10, <1>11, <1>12, <1>13, <1>14, <1>15 DEF Next, Step

\* The type invariant of the runs.
THEOREM TypeCorrect == Spec => []TypeOK
<1>1. TypeInv => TypeOK
    BY DEF TypeInv
<1> QED
    BY TypeInit, TypeStep, <1>1, PTL DEF Spec

-----------------------------------------------------------------------------
(* Claims. *)

Loads == {"getConv", "recon", "reconExpire", "reconSave"}

\* p is at l, or inside the get_conversation that returns there.
To(p, l) == pc[p] = l \/ (pc[p] \in Loads /\ mem[p].ret = l)

\* p owns an action and has not yet decided whether to start it.
Fresh(p) == pc[p] = "clRun" \/ (mem[p].claimed /\ pc[p] \in {"free", "validate"})

\* Between SET NX and the finally clause the action lock holds p's token.
LockHeld(p) ==
    pc[p] \in {"clGet", "clExpire", "clRun", "caGet", "caSet", "free"} \/ To(p, "caSave")
    => act[p] \in Action /\ actionLock[act[p]] = p

\* A claimed action is no longer on offer.
ClaimHeld(p) ==
    mem[p].claimed =>
        /\ act[p] \in Action
        /\ status[act[p]] \notin {"new", "pending"}
        /\ \/ pc[p] \in {"free", "validate", "exec", "upGet", "upSet", "release", "relDel"}
           \/ To(p, "upSave") \/ To(p, "evSave")

\* Nobody can own the action that p is about to cancel.
Unowned(p) == pc[p] = "caSet" => starts[act[p]] = 0 /\ \A q \in Proc : ~Owner(q, act[p])

Undecided(p) == Fresh(p) => starts[act[p]] = 0

Refused(p) ==
    mem[p].outcome = "rejected" =>
        mem[p].claimed /\ starts[act[p]] = 0 /\ pc[p] \notin {"free", "validate"}

\* An approval or a cancellation is about an action.
Subject(p) ==
    /\ mem[p].kind \in {"approve", "cancel"} => act[p] \in Action
    /\ pc[p] = "clLock" => mem[p].kind = "approve"
    /\ pc[p] = "caLock" => mem[p].kind = "cancel"

Local(p) ==
    /\ Subject(p)
    /\ LockHeld(p)
    /\ ClaimHeld(p)
    /\ pc[p] = "validate" => mem[p].claimed
    /\ Undecided(p)
    /\ Unowned(p)
    /\ Refused(p)

Record(a) ==
    /\ starts[a] <= 1
    /\ starts[a] > 0 => status[a] \notin {"new", "pending"}
    /\ status[a] \in {"cancelled", "rejected"}
         => starts[a] = 0 /\ \A q \in Proc : act[q] = a => ~Fresh(q)

Exclusive(a) == \A p, q \in Proc : Owner(p, a) /\ Owner(q, a) => p = q

\* The inductive invariant.
ClaimInv ==
    /\ \A p \in Proc : Local(p)
    /\ \A a \in Action : Record(a) /\ Exclusive(a)

LEMMA ClaimInit == Init => ClaimInv
BY ActionsAssumption
   DEF Init, ClaimInv, Local, Subject, LockHeld, ClaimHeld, Unowned, Undecided, Refused, Record,
       Exclusive, Owner, Fresh, To, Loads, Blank

-----------------------------------------------------------------------------
(* What a step of p may do to the record of an action without endangering the
   claims of others. *)

Benign(a) ==
    \/ status'[a] = status[a]
    \/ status[a] = "new" /\ status'[a] = "pending"
    \/ status'[a] \in {"expired", "absent", "running", "completed", "failed"}
    \/ /\ status'[a] \in {"cancelled", "rejected"}
       /\ starts[a] = 0
       /\ \A q \in Proc : act[q] = a => ~Fresh(q)

OthersStay(p) ==
    \A q \in Proc \ {p} :
        /\ pc'[q] = pc[q] /\ act'[q] = act[q] /\ mem'[q] = mem[q]
        /\ \A a \in Action : actionLock[a] = q => actionLock'[a] = q

\* p gains no claim.
NoClaim(p) ==
    /\ \A a \in Action : Owner(p, a)' => Owner(p, a)
    /\ Fresh(p)' => Fresh(p) /\ act'[p] = act[p]

\* A step of p that starts nothing and claims nothing keeps the invariant when it
\* keeps what the invariant says of p.
LEMMA Frame ==
    ASSUME TypeOK, ClaimInv, NEW p, OthersStay(p), NoClaim(p), starts' = starts,
           \A a \in Action : Benign(a), p \in Proc => Local(p)'
    PROVE  ClaimInv'
<1>1. ASSUME NEW q \in Proc PROVE Local(q)'
    <2>1. CASE q = p
        BY <2>1
    <2>2. CASE q # p
        <3>1. pc'[q] = pc[q] /\ act'[q] = act[q] /\ mem'[q] = mem[q] /\ Local(q)
            BY <2>2 DEF OthersStay, ClaimInv
        <3>2. LockHeld(q)'
            BY <2>2, <3>1 DEF Local, LockHeld, OthersStay, To
        <3>3. ClaimHeld(q)'
            BY <3>1 DEF Local, ClaimHeld, Benign, To
        <3>4. Undecided(q)'
            BY <3>1 DEF Local, Undecided, Fresh
        <3>5. Unowned(q)'
            <4>1. ASSUME NEW r \in Proc, pc[q] = "caSet", ~Owner(r, act[q]) PROVE ~Owner(r, act[q])'
                <5>1. act[q] \in Action
                    BY <3>1, <4>1 DEF Local, LockHeld
                <5> QED
                    BY <3>1, <4>1, <5>1 DEF NoClaim, OthersStay, Owner
            <4> QED
                BY <3>1, <4>1 DEF Local, Unowned
        <3>6. Refused(q)' /\ (pc[q] = "validate" => mem[q].claimed)' /\ Subject(q)'
            BY <3>1 DEF Local, Refused, Subject
        <3> QED
            BY <3>2, <3>3, <3>4, <3>5, <3>6 DEF Local
    <2> QED
        BY <2>1, <2>2
<1>2. ASSUME NEW a \in Action PROVE Record(a)'
    <2>1. Record(a)
        BY DEF ClaimInv
    <2>2. \A q \in Proc : act'[q] = a /\ Fresh(q)' => act[q] = a /\ Fresh(q)
        BY DEF NoClaim, OthersStay, Fresh
    <2> QED
        BY <2>1, <2>2 DEF Record, Benign, TypeOK
<1>3. ASSUME NEW a \in Action PROVE Exclusive(a)'
    <2>1. \A q \in Proc : Owner(q, a)' => Owner(q, a)
        BY DEF NoClaim, OthersStay, Owner
    <2> QED
        BY <2>1 DEF ClaimInv, Exclusive
<1> QED
    BY <1>1, <1>2, <1>3 DEF ClaimInv

\* p is outside the protocol of the action locks and holds no claim.
Aside(p) ==
    /\ Subject(p)
    /\ ~mem[p].claimed /\ mem[p].outcome # "rejected"
    /\ pc[p] \notin {"clGet", "clExpire", "clRun", "caGet", "caSet", "free", "validate"}
    /\ ~To(p, "caSave")

LEMMA Leaves ==
    ASSUME TypeOK, ClaimInv, NEW p \in Proc, OthersStay(p), starts' = starts,
           \A a \in Action : Benign(a), Aside(p)'
    PROVE  ClaimInv'
<1>1. NoClaim(p)
    BY DEF NoClaim, Aside, Owner, Fresh
<1>2. Local(p)'
    BY DEF Aside, Local, LockHeld, ClaimHeld, Unowned, Undecided, Refused, Fresh
<1> QED
    BY <1>1, <1>2, Frame

\* p is done with the decision: it runs the command or records what became of it.
Late(p) ==
    \/ pc[p] \in {"exec", "upGet", "upSet", "release", "relDel"}
    \/ To(p, "upSave") \/ To(p, "evSave")

LEMMA Carries ==
    ASSUME TypeOK, ClaimInv, NEW p \in Proc, OthersStay(p), starts' = starts,
           \A a \in Action : Benign(a), act'[p] = act[p],
           mem[p].claimed, mem'[p].claimed, mem'[p].kind = mem[p].kind, Late(p)',
           mem'[p].outcome = "rejected" => starts[act[p]] = 0
    PROVE  ClaimInv'
<1>1. Local(p)
    BY DEF ClaimInv
<1>2. NoClaim(p)
    BY DEF NoClaim, Late, Owner, Fresh, To, Loads
<1>3. ClaimHeld(p)'
    BY <1>1 DEF Local, ClaimHeld, Benign, Late
<1>4. Local(p)'
    BY <1>1, <1>3 DEF Late, Local, Subject, LockHeld, Unowned, Undecided, Refused, Fresh, To, Loads
<1> QED
    BY <1>2, <1>4, Frame

\* Outside those places there is no claim and no refusal.
LEMMA Unclaimed ==
    ASSUME ClaimInv, NEW p \in Proc, pc[p] # "free", pc[p] # "validate", ~Late(p)
    PROVE  ~mem[p].claimed /\ mem[p].outcome # "rejected" /\ Subject(p)
BY DEF ClaimInv, Local, ClaimHeld, Refused, Late

-----------------------------------------------------------------------------
(* What the control flow helpers do to the memory of p and of the others. *)

OthersRest(p) ==
    \A q \in Proc \ {p} : pc'[q] = pc[q] /\ act'[q] = act[q] /\ mem'[q] = mem[q]

KeepsClaim(p) ==
    /\ act'[p] = act[p]
    /\ mem'[p].claimed = mem[p].claimed /\ mem'[p].outcome = mem[p].outcome
    /\ mem'[p].kind = mem[p].kind

LEMMA FinishStep ==
    ASSUME TypeOK, NEW p \in Proc, Finish(p)
    PROVE  OthersRest(p) /\ Aside(p)'
BY DEF TypeOK, Finish, OthersRest, Aside, Subject, Blank, To, Loads

LEMMA GotoStep ==
    ASSUME TypeOK, NEW p \in Proc, NEW l, Goto(p, l)
    PROVE  /\ OthersRest(p) /\ KeepsClaim(p)
           /\ pc'[p] = l /\ mem'[p] = mem[p]
BY DEF TypeOK, Goto, OthersRest, KeepsClaim

LEMMA CallGetStep ==
    ASSUME TypeOK, NEW p \in Proc, NEW l, CallGet(p, l)
    PROVE  /\ OthersRest(p) /\ KeepsClaim(p)
           /\ pc'[p] = "getConv" /\ mem'[p].ret = l
BY DEF TypeOK, CallGet, OthersRest, KeepsClaim, Memory

LEMMA ToReleaseStep ==
    ASSUME TypeOK, NEW p \in Proc, ToRelease(p)
    PROVE  OthersRest(p) /\ KeepsClaim(p) /\ pc'[p] = "release"
BY DEF TypeOK, ToRelease, OthersRest, KeepsClaim, Memory

LEMMA DecideStep ==
    ASSUME TypeOK, NEW p \in Proc, NEW o, NEW l, Decide(p, o, l)
    PROVE  /\ OthersRest(p) /\ pc'[p] = l /\ act'[p] = act[p]
           /\ mem'[p].claimed = mem[p].claimed /\ mem'[p].outcome = o
           /\ mem'[p].kind = mem[p].kind
BY DEF TypeOK, Decide, OthersRest, Memory

-----------------------------------------------------------------------------
(* The steps, group by group. *)

\* A step of p that leaves locks and executor alone, and every record as good as
\* it was.
Harmless(p) == actionLock' = actionLock /\ starts' = starts /\ \A a \in Action : Benign(a)

LEMMA RunningStep ==
    ASSUME TypeOK, ClaimInv, NEW p \in Proc, Running(p)
    PROVE  ClaimInv'
<1> DEFINE Runs == {"ruAppend", "think", "ruDone", "ruTool", "crSet", "crIndex", "crSave", "ruNext"}
<1>1. ~mem[p].claimed /\ mem[p].outcome # "rejected" /\ Subject(p)
    <2>1. pc[p] \in Runs
        BY DEF Running, RuAppend, Think, RuDone, RuTool, CrSet, CrIndex, CrSave, RuNext
    <2> QED
        BY <2>1, Unclaimed DEF Late, To, Loads
<1>2. Harmless(p)
    BY DEF Running, RuAppend, Think, RuDone, RuTool, CrSet, CrIndex, CrSave, RuNext, SaveConv,
           redis, history, TypeOK, Harmless, Benign
<1>3. ASSUME NEW l \in {"think", "crSave"}, Goto(p, l) PROVE OthersRest(p) /\ Aside(p)'
    BY <1>1, <1>3, GotoStep DEF KeepsClaim, Aside, Subject, To, Loads
<1>4. ASSUME NEW l \in Runs, CallGet(p, l) PROVE OthersRest(p) /\ Aside(p)'
    BY <1>1, <1>4, CallGetStep DEF KeepsClaim, Aside, Subject, To, Loads
<1>5. ASSUME ToRelease(p) PROVE OthersRest(p) /\ Aside(p)'
    BY <1>1, <1>5, ToReleaseStep DEF KeepsClaim, Aside, Subject, To, Loads
<1>6. OthersRest(p) /\ Aside(p)'
    <2>1. CASE RuAppend(p) \/ Think(p) \/ RuDone(p) \/ RuTool(p) \/ CrIndex(p)
        BY <1>3, <1>4, <1>5, <2>1 DEF RuAppend, Think, RuDone, RuTool, CrIndex
    <2>2. CASE CrSet(p)
        <3>1. CASE CallGet(p, "ruNext")
            BY <1>4, <3>1
        <3>2. ASSUME NEW a \in Action, act' = [act EXCEPT ![p] = a],
                     pc' = [pc EXCEPT ![p] = "crIndex"], UNCHANGED mem
              PROVE OthersRest(p) /\ Aside(p)'
            BY <1>1, <3>2 DEF OthersRest, Aside, Subject, To, Loads, TypeOK
        <3> QED
            BY <2>2, <3>1, <3>2 DEF CrSet
    <2>3. CASE CrSave(p)
        BY <1>1, <2>3 DEF CrSave, OthersRest, Aside, Subject, To, Loads, TypeOK, Memory
    <2>4. CASE RuNext(p)
        <3>1. CASE ToRelease(p)
            BY <1>5, <3>1
        <3>2. CASE NextCall(p)
            <4>1. /\ mem'[p].claimed = mem[p].claimed /\ mem'[p].outcome = mem[p].outcome
                  /\ mem'[p].ret = "ruTool" /\ mem'[p].kind = mem[p].kind
                BY <3>2 DEF NextCall, TypeOK, Memory
            <4> QED
                BY <1>1, <3>2, <4>1 DEF NextCall, OthersRest, Aside, Subject, To, Loads, TypeOK
        <3>3. CASE NextRound(p)
            BY <1>1, <3>3 DEF NextRound, OthersRest, Aside, Subject, To, Loads, TypeOK, Memory
        <3> QED
            BY <2>4, <3>1, <3>2, <3>3 DEF RuNext
    <2> QED
        BY <2>1, <2>2, <2>3, <2>4 DEF Running
<1> QED
    BY <1>2, <1>6, Leaves DEF Harmless, OthersRest, OthersStay

LEMMA DeletingStep ==
    ASSUME TypeOK, ClaimInv, NEW p \in Proc, Deleting(p)
    PROVE  ClaimInv'
<1>1. pc[p] \in {"deCheck", "deDelete"}
    BY DEF Deleting, DeCheck, DeDelete
<1>2. ~mem[p].claimed /\ mem[p].outcome # "rejected" /\ Subject(p)
    BY <1>1, Unclaimed DEF Late, To, Loads
<1>3. Harmless(p)
    BY DEF Deleting, DeCheck, DeDelete, redis, history, TypeOK, Harmless, Benign
<1>4. OthersRest(p) /\ Aside(p)'
    BY <1>2, GotoStep, FinishStep DEF Deleting, DeCheck, DeDelete, KeepsClaim, Aside, Subject, To, Loads
<1> QED
    BY <1>3, <1>4, Leaves DEF Harmless, OthersRest, OthersStay

\* get_conversation, whoever called it.
LEMMA LoadingStep ==
    ASSUME TypeOK, ClaimInv, NEW p \in Proc, Loading(p)
    PROVE  ClaimInv'
<1>1. Harmless(p)
    BY DEF Loading, GetConv, ReconOne, ReconExpire, ReconEnd, ReconSave, Reply, SaveConv,
           redis, history, TypeOK, Harmless, Benign
<1>2. CASE Finish(p)
    BY <1>1, <1>2, FinishStep, Leaves DEF Harmless, OthersRest, OthersStay
<1> DEFINE r == mem[p].ret
           Kept == /\ OthersRest(p) /\ act'[p] = act[p]
                   /\ mem'[p].claimed = mem[p].claimed /\ mem'[p].kind = mem[p].kind
                   /\ mem'[p].outcome \in {mem[p].outcome, "failed"}
           Moved == \/ pc'[p] \in Loads \cup {r} /\ mem'[p].ret = r
                    \/ pc'[p] = "release" /\ r # "caSave"
                    \/ pc'[p] = "upGet" /\ r = "upSave"
                    \/ pc'[p] = "free" /\ r = "caSave"
<1>3. Finish(p) \/ (pc[p] \in Loads /\ Kept /\ Moved)
    <2>1. CASE GetConv(p)
        <3>1. CASE NotFound(p)
            <4>1. \/ Finish(p)
                  \/ r = "caSave" /\ Goto(p, "free")
                  \/ r # "caSave" /\ ToRelease(p)
                  \/ r = "upSave" /\ Decide(p, "failed", "upGet")
                BY <3>1 DEF NotFound, Decide
            <4> QED
                BY <2>1, <4>1, GotoStep, ToReleaseStep, DecideStep DEF GetConv, KeepsClaim, Loads
        <3>2. CASE exists
            <4>1. /\ mem'[p].claimed = mem[p].claimed /\ mem'[p].outcome = mem[p].outcome
                  /\ mem'[p].ret = mem[p].ret /\ mem'[p].kind = mem[p].kind
                <5> DEFINE m == [mem[p] EXCEPT !.copy = pending, !.todo = pending, !.dirty = FALSE]
                <5>1. mem'[p] = m
                    BY <2>1, <3>2 DEF GetConv, TypeOK
                <5>2. mem[p] \in Memory
                    BY DEF TypeOK
                <5>3. m.claimed = mem[p].claimed /\ m.outcome = mem[p].outcome /\ m.ret = mem[p].ret
                      /\ m.kind = mem[p].kind
                    BY <5>2 DEF Memory
                <5> QED
                    BY <5>1, <5>3
            <4> QED
                BY <2>1, <3>2, <4>1 DEF GetConv, OthersRest, Loads, TypeOK
        <3> QED
            BY <2>1, <3>1, <3>2 DEF GetConv
    <2>2. ASSUME NEW a \in Action, ReconOne(p, a) PROVE pc[p] \in Loads /\ Kept /\ Moved
        BY <2>2 DEF ReconOne, OthersRest, Loads, TypeOK, Memory
    <2>3. CASE ReconExpire(p)
        BY <2>3 DEF ReconExpire, OthersRest, Loads, TypeOK, Memory
    <2>4. CASE ReconEnd(p)
        BY <2>4 DEF ReconEnd, OthersRest, Loads, TypeOK, Memory
    <2>5. CASE ReconSave(p)
        BY <2>5, GotoStep DEF ReconSave, KeepsClaim, Loads
    <2> QED
        BY <2>1, <2>2, <2>3, <2>4, <2>5 DEF Loading, Reply
<1>4. CASE pc[p] \in Loads /\ Kept /\ Moved
    <2>0. Local(p)
        BY DEF ClaimInv
    <2>1. CASE mem[p].claimed
        <3>1. r \in {"upSave", "evSave"}
            BY <1>4, <2>0, <2>1 DEF Local, ClaimHeld, To, Loads
        <3>2. Late(p)' /\ mem'[p].claimed
            BY <1>4, <2>1, <3>1 DEF Late, To, Loads
        <3>3. mem'[p].outcome = "rejected" => starts[act[p]] = 0
            BY <1>4, <2>0 DEF Local, Refused
        <3> QED
            BY <1>1, <1>4, <2>1, <3>2, <3>3, Carries DEF Harmless, OthersRest, OthersStay
    <2>2. CASE ~mem[p].claimed /\ r # "caSave"
        <3>1. mem[p].outcome # "rejected"
            BY <2>0, <2>2 DEF Local, Refused
        <3>2. Aside(p)'
            BY <1>4, <2>0, <2>2, <3>1 DEF Aside, Local, Subject, To, Loads, TypeOK, Memory, Return
        <3> QED
            BY <1>1, <1>4, <3>2, Leaves DEF Harmless, OthersRest, OthersStay
    <2>3. CASE ~mem[p].claimed /\ r = "caSave"
        <3>1. mem[p].outcome # "rejected"
            BY <2>0, <2>3 DEF Local, Refused
        <3>2. act[p] \in Action /\ actionLock[act[p]] = p
            BY <1>4, <2>0, <2>3 DEF Local, LockHeld, To
        <3>3. pc'[p] \in Loads \cup {"caSave", "free"} /\ ~mem'[p].claimed
              /\ mem'[p].outcome # "rejected"
            BY <1>4, <2>3, <3>1
        <3>4. Local(p)'
            BY <1>1, <1>4, <2>0, <3>2, <3>3
               DEF Harmless, Local, Subject, LockHeld, ClaimHeld, Undecided, Unowned, Refused, Fresh, Loads
        <3>5. NoClaim(p)
            BY <3>3 DEF NoClaim, Owner, Fresh, Loads
        <3> QED
            BY <1>1, <1>4, <3>4, <3>5, Frame DEF Harmless, OthersRest, OthersStay
    <2> QED
        BY <2>1, <2>2, <2>3
<1> QED
    BY <1>2, <1>3, <1>4

\* Cancellation decides under the action lock: "pending" read there means that
\* nobody has claimed the action, and nobody can before the lock is freed.
LEMMA CancellingStep ==
    ASSUME TypeOK, ClaimInv, NEW p \in Proc, Cancelling(p)
    PROVE  ClaimInv'
<1>1. pc[p] \in {"caLock", "caGet", "caSet", "caSave"} /\ starts' = starts
    BY DEF Cancelling, CaLock, CaGet, CaSet, CaSave, DropPending, SaveConv, SetStatus, history
<1>2. ~mem[p].claimed /\ mem[p].outcome # "rejected" /\ Subject(p)
    BY <1>1, Unclaimed DEF Late, To, Loads
<1>3. Local(p)
    BY DEF ClaimInv
<1>4. CASE CaLock(p)
    <2>1. CASE Finish(p) /\ UNCHANGED actionLock
        <3>1. OthersStay(p) /\ Aside(p)'
            BY <2>1, FinishStep DEF OthersRest, OthersStay
        <3> QED
            BY <1>1, <1>4, <3>1, Leaves DEF CaLock, Benign
    <2>2. CASE /\ actionLock[act[p]] = NoOne /\ Goto(p, "caGet")
               /\ actionLock' = [actionLock EXCEPT ![act[p]] = p]
        <3>1. act[p] \in Action
            BY <1>2, <1>4 DEF CaLock, Subject
        <3>2. OthersRest(p) /\ KeepsClaim(p) /\ pc'[p] = "caGet"
            BY <2>2, GotoStep
        <3>3. OthersStay(p)
            BY <2>2, <3>1, <3>2, ActionsAssumption DEF OthersRest, OthersStay, TypeOK
        <3>4. Local(p)'
            BY <1>2, <2>2, <3>1, <3>2
               DEF Local, Subject, LockHeld, ClaimHeld, Undecided, Unowned, Refused, Fresh,
                   KeepsClaim, To, Loads, TypeOK
        <3>5. NoClaim(p)
            BY <1>2, <3>2 DEF NoClaim, KeepsClaim, Owner, Fresh
        <3> QED
            BY <1>1, <1>4, <3>3, <3>4, <3>5, Frame DEF CaLock, Benign
    <2> QED
        BY <1>4, <2>1, <2>2 DEF CaLock
<1>5. CASE CaGet(p)
    <2>1. Harmless(p)
        BY <1>5 DEF CaGet, redis, history, Harmless, Benign
    <2>2. OthersRest(p) /\ KeepsClaim(p) /\ pc'[p] \in {"caSet", "free"}
        BY <1>5, GotoStep DEF CaGet
    <2>3. NoClaim(p)
        BY <1>2, <2>2 DEF NoClaim, KeepsClaim, Owner, Fresh
    <2>4. act[p] \in Action /\ actionLock[act[p]] = p
        BY <1>3, <1>5 DEF CaGet, Local, LockHeld
    <2>5. Unowned(p)'
        <3>1. SUFFICES ASSUME pc'[p] = "caSet"
                       PROVE  starts[act[p]] = 0 /\ \A q \in Proc : (~Owner(q, act[p]))'
            BY <2>1, <2>2 DEF Unowned, Harmless, KeepsClaim
        <3>2. status[act[p]] = "pending"
            BY <1>5, <3>1, GotoStep DEF CaGet
        <3>3. starts[act[p]] = 0
            BY <2>4, <3>2 DEF ClaimInv, Record, TypeOK
        <3>4. ASSUME NEW q \in Proc PROVE ~Owner(q, act[p])
            <4>1. CASE mem[q].claimed
                BY <3>2, <4>1 DEF ClaimInv, Local, ClaimHeld, Owner
            <4>2. CASE pc[q] = "clRun"
                BY <1>5, <2>4, <4>2 DEF CaGet, ClaimInv, Local, LockHeld, Owner
            <4> QED
                BY <4>1, <4>2 DEF Owner
        <3>5. ASSUME NEW q \in Proc PROVE (~Owner(q, act[p]))'
            <4>1. act'[p] = act[p] /\ ~Owner(q, act[p])
                BY <2>2, <3>4 DEF KeepsClaim
            <4>2. CASE q = p
                BY <2>3, <2>4, <4>1, <4>2 DEF NoClaim, Owner
            <4>3. CASE q # p
                BY <2>2, <4>1, <4>3 DEF OthersRest, Owner
            <4> QED
                BY <4>2, <4>3
        <3> QED
            BY <3>3, <3>5
    <2>6. Local(p)'
        BY <1>2, <2>1, <2>2, <2>4, <2>5
           DEF Local, Subject, LockHeld, ClaimHeld, Undecided, Refused, Fresh, KeepsClaim, Harmless, To, Loads
    <2> QED
        BY <2>1, <2>2, <2>3, <2>6, Frame DEF Harmless, OthersRest, OthersStay
<1>6. CASE CaSet(p)
    <2>1. OthersRest(p) /\ KeepsClaim(p) /\ pc'[p] = "getConv" /\ mem'[p].ret = "caSave"
        BY <1>6, CallGetStep DEF CaSet
    <2>2. act[p] \in Action /\ actionLock[act[p]] = p /\ actionLock' = actionLock
        BY <1>3, <1>6 DEF CaSet, SetStatus, Local, LockHeld
    <2>3. starts[act[p]] = 0 /\ \A q \in Proc : act[q] = act[p] => ~Fresh(q)
        BY <1>3, <1>6 DEF CaSet, Local, Unowned, Fresh, Owner
    <2>4. \A a \in Action : Benign(a)
        BY <1>6, <2>2, <2>3 DEF CaSet, SetStatus, Benign, TypeOK
    <2>5. Local(p)'
        BY <1>2, <2>1, <2>2
           DEF Local, Subject, LockHeld, ClaimHeld, Undecided, Unowned, Refused, Fresh,
               KeepsClaim, To, Loads
    <2>6. NoClaim(p)
        BY <1>2, <2>1 DEF NoClaim, KeepsClaim, Owner, Fresh
    <2> QED
        BY <1>1, <2>1, <2>2, <2>4, <2>5, <2>6, Frame DEF OthersRest, OthersStay
<1>7. CASE CaSave(p)
    <2>1. OthersRest(p) /\ KeepsClaim(p) /\ pc'[p] = "free"
        BY <1>7, GotoStep DEF CaSave
    <2>2. act[p] \in Action /\ actionLock[act[p]] = p
        BY <1>3, <1>7 DEF CaSave, DropPending, Local, LockHeld, To
    <2>3. Harmless(p)
        BY <1>7 DEF CaSave, DropPending, SaveConv, history, Harmless, Benign
    <2>4. Local(p)'
        BY <1>2, <2>1, <2>2, <2>3
           DEF Local, Subject, LockHeld, ClaimHeld, Undecided, Unowned, Refused, Fresh,
               KeepsClaim, Harmless, To, Loads
    <2>5. NoClaim(p)
        BY <1>2, <2>1 DEF NoClaim, KeepsClaim, Owner, Fresh
    <2> QED
        BY <2>1, <2>3, <2>4, <2>5, Frame DEF Harmless, OthersRest, OthersStay
<1> QED
    BY <1>4, <1>5, <1>6, <1>7 DEF Cancelling

\* A late step of p, with or without a claim, stays late.
LEMMA Onward ==
    ASSUME TypeOK, ClaimInv, NEW p \in Proc, Local(p), OthersRest(p), Harmless(p),
           act'[p] = act[p], mem'[p].claimed = mem[p].claimed, mem'[p].kind = mem[p].kind,
           mem'[p].outcome \in {mem[p].outcome, "completed", "failed"},
           Late(p)', ~To(p, "caSave")'
    PROVE  ClaimInv'
<1>1. OthersStay(p)
    BY DEF OthersRest, OthersStay, Harmless
<1>2. CASE mem[p].claimed
    BY <1>1, <1>2, Carries DEF Harmless, Local, Refused
<1>3. CASE ~mem[p].claimed
    <2>1. Aside(p)'
        BY <1>3 DEF Aside, Local, Subject, Refused, Late, To, Loads
    <2> QED
        BY <1>1, <2>1, Leaves DEF Harmless
<1> QED
    BY <1>2, <1>3

\* "pending" read under the action lock makes p the one owner.
LEMMA ClaimTaken ==
    ASSUME TypeOK, ClaimInv, NEW p \in Proc, ~mem[p].claimed, mem[p].outcome # "rejected",
           Subject(p), act[p] \in Action, actionLock[act[p]] = p, status[act[p]] = "pending",
           UNCHANGED <<status, starts, actionLock>>, OthersRest(p), KeepsClaim(p),
           pc'[p] = "clRun"
    PROVE  ClaimInv'
<1>1. starts[act[p]] = 0
    BY DEF ClaimInv, Record, TypeOK
<1>2. ASSUME NEW q \in Proc, act[q] = act[p], q # p
      PROVE pc[q] \notin {"clRun", "caSet"} /\ ~mem[q].claimed
    BY <1>2 DEF ClaimInv, Local, LockHeld, ClaimHeld
<1>3. Local(p)'
    BY <1>1 DEF Local, Subject, LockHeld, ClaimHeld, Undecided, Unowned, Refused, Fresh,
                KeepsClaim, To, Loads
<1>4. ASSUME NEW q \in Proc, q # p PROVE Local(q)'
    <2>1. pc'[q] = pc[q] /\ act'[q] = act[q] /\ mem'[q] = mem[q] /\ Local(q)
        BY <1>4 DEF OthersRest, ClaimInv
    <2>2. Unowned(q)'
        <3>1. ASSUME NEW t \in Proc, pc[q] = "caSet", ~Owner(t, act[q])
              PROVE (~Owner(t, act[q]))'
            <4>1. CASE t = p
                BY <1>2, <1>4, <2>1, <3>1, <4>1 DEF Owner, KeepsClaim
            <4>2. CASE t # p
                BY <2>1, <3>1, <4>2 DEF Owner, OthersRest
            <4> QED
                BY <4>1, <4>2
        <3> QED
            BY <2>1, <3>1 DEF Local, Unowned
    <2> QED
        BY <2>1, <2>2 DEF Local, Subject, LockHeld, ClaimHeld, Undecided, Refused, Fresh, To
<1>5. ASSUME NEW a \in Action PROVE Record(a)'
    <2>1. Record(a)
        BY DEF ClaimInv
    <2>2. ASSUME NEW q \in Proc, status[a] # "pending", act[q] = a => ~Fresh(q)
          PROVE (act[q] = a => ~Fresh(q))'
        BY <2>2 DEF OthersRest, KeepsClaim, Fresh
    <2> QED
        BY <2>1, <2>2 DEF Record
<1>6. ASSUME NEW a \in Action PROVE Exclusive(a)'
    <2>1. \A q \in Proc \ {p} : Owner(q, a)' => Owner(q, a) /\ a # act[p]
        BY <1>2 DEF OthersRest, Owner
    <2>2. Owner(p, a)' => a = act[p]
        BY DEF Owner, KeepsClaim
    <2> QED
        BY <2>1, <2>2 DEF ClaimInv, Exclusive
<1> QED
    BY <1>3, <1>4, <1>5, <1>6 DEF ClaimInv

\* Only the owner starts the executor, and only once.
LEMMA ExecutionStarted ==
    ASSUME TypeOK, ClaimInv, NEW p \in Proc, pc[p] = "validate", mem[p].claimed,
           act[p] \in Action, starts[act[p]] = 0, UNCHANGED <<status, actionLock>>,
           starts' = [starts EXCEPT ![act[p]] = @ + 1],
           OthersRest(p), KeepsClaim(p), pc'[p] = "exec"
    PROVE  ClaimInv'
<1>0. Local(p) /\ Owner(p, act[p]) /\ Fresh(p)
    BY DEF ClaimInv, Owner, Fresh
<1>1. starts'[act[p]] = 1 /\ \A a \in Action \ {act[p]} : starts'[a] = starts[a]
    BY DEF TypeOK
<1>2. Local(p)'
    BY <1>0 DEF Local, Subject, LockHeld, ClaimHeld, Undecided, Unowned, Refused, Fresh,
                KeepsClaim, To, Loads
<1>3. ASSUME NEW q \in Proc, q # p PROVE Local(q)'
    <2>1. pc'[q] = pc[q] /\ act'[q] = act[q] /\ mem'[q] = mem[q] /\ Local(q)
        BY <1>3 DEF OthersRest, ClaimInv
    <2>2. pc[q] \in {"clRun", "caSet"} \/ mem[q].claimed
            => act[q] \in Action \ {act[p]} /\ starts'[act[q]] = starts[act[q]]
        BY <1>0, <1>1, <1>3, <2>1
           DEF Local, LockHeld, ClaimHeld, Unowned, ClaimInv, Exclusive, Owner
    <2>3. Unowned(q)'
        <3>1. ASSUME NEW t \in Proc, ~Owner(t, act[q]) PROVE (~Owner(t, act[q]))'
            BY <1>0, <2>1, <3>1 DEF Owner, OthersRest, KeepsClaim
        <3> QED
            BY <2>1, <2>2, <3>1 DEF Local, Unowned
    <2>4. Undecided(q)' /\ Refused(q)'
        BY <2>1, <2>2 DEF Local, Undecided, Refused, Fresh
    <2> QED
        BY <2>1, <2>3, <2>4 DEF Local, Subject, LockHeld, ClaimHeld, To
<1>4. ASSUME NEW a \in Action PROVE Record(a)'
    <2>1. Record(a)
        BY DEF ClaimInv
    <2>2. ASSUME NEW q \in Proc, act[q] = a => ~Fresh(q) PROVE (act[q] = a => ~Fresh(q))'
        BY <2>2 DEF OthersRest, KeepsClaim, Fresh
    <2>3. CASE a = act[p]
        BY <1>0, <1>1, <2>1, <2>3 DEF Record, Local, ClaimHeld
    <2>4. CASE a # act[p]
        BY <1>1, <2>1, <2>2, <2>4 DEF Record
    <2> QED
        BY <2>3, <2>4
<1>5. ASSUME NEW a \in Action PROVE Exclusive(a)'
    <2>1. \A q \in Proc : Owner(q, a)' => Owner(q, a)
        BY DEF OthersRest, KeepsClaim, Owner
    <2> QED
        BY <2>1 DEF ClaimInv, Exclusive
<1> QED
    BY <1>2, <1>3, <1>4, <1>5 DEF ClaimInv

\* Approval: get_action, the claim, the execution and the record of its outcome.
LEMMA ApprovingStep ==
    ASSUME TypeInv, ClaimInv, NEW p \in Proc, Approving(p)
    PROVE  ClaimInv'
<1> USE DEF TypeInv
<1>0. Local(p)
    BY DEF ClaimInv
<1>1. CASE ApGet(p)
    <2>1. ~mem[p].claimed /\ mem[p].outcome # "rejected" /\ Subject(p)
        BY <1>1, Unclaimed DEF ApGet, Late, To, Loads
    <2>2. OthersRest(p) /\ Aside(p)'
        BY <1>1, <2>1, FinishStep, CallGetStep
           DEF ApGet, KeepsClaim, Aside, Subject, To, Loads
    <2> QED
        BY <1>1, <2>2, Leaves DEF ApGet, redis, history, OthersRest, OthersStay, Benign
<1>2. CASE ClLock(p)
    <2>1. ~mem[p].claimed /\ mem[p].outcome # "rejected" /\ Subject(p) /\ starts' = starts
        BY <1>2, Unclaimed DEF ClLock, Late, To, Loads, history
    <2>2. CASE ToRelease(p) /\ UNCHANGED actionLock
        <3>1. OthersStay(p) /\ Aside(p)'
            BY <2>1, <2>2, ToReleaseStep DEF KeepsClaim, Aside, Subject, To, Loads, OthersRest, OthersStay
        <3> QED
            BY <1>2, <2>1, <3>1, Leaves DEF ClLock, Benign
    <2>3. CASE /\ actionLock[act[p]] = NoOne /\ Goto(p, "clGet")
               /\ actionLock' = [actionLock EXCEPT ![act[p]] = p]
        <3>1. act[p] \in Action
            BY <2>1, <1>2 DEF ClLock, Subject
        <3>2. OthersRest(p) /\ KeepsClaim(p) /\ pc'[p] = "clGet"
            BY <2>3, GotoStep
        <3>3. OthersStay(p)
            BY <2>3, <3>1, <3>2, ActionsAssumption DEF OthersRest, OthersStay, TypeOK
        <3>4. Local(p)'
            BY <2>1, <2>3, <3>1, <3>2
               DEF Local, Subject, LockHeld, ClaimHeld, Undecided, Unowned, Refused, Fresh,
                   KeepsClaim, To, Loads, TypeOK
        <3>5. NoClaim(p)
            BY <2>1, <3>2 DEF NoClaim, KeepsClaim, Owner, Fresh
        <3> QED
            BY <1>2, <2>1, <3>3, <3>4, <3>5, Frame DEF ClLock, Benign
    <2> QED
        BY <1>2, <2>2, <2>3 DEF ClLock
<1>3. CASE ClGet(p)
    <2>1. ~mem[p].claimed /\ mem[p].outcome # "rejected" /\ Subject(p)
        BY <1>3, Unclaimed DEF ClGet, Late, To, Loads
    <2>2. act[p] \in Action /\ actionLock[act[p]] = p
        BY <1>0, <1>3 DEF ClGet, Local, LockHeld
    <2>3. CASE Goto(p, "free") \/ Goto(p, "clExpire")
        <3>1. OthersRest(p) /\ KeepsClaim(p) /\ pc'[p] \in {"free", "clExpire"}
            BY <2>3, GotoStep
        <3>2. Harmless(p)
            BY <1>3 DEF ClGet, redis, history, Harmless, Benign
        <3>3. Local(p)'
            BY <2>1, <2>2, <3>1, <3>2
               DEF Local, Subject, LockHeld, ClaimHeld, Undecided, Unowned, Refused, Fresh,
                   KeepsClaim, Harmless, To, Loads
        <3>4. NoClaim(p)
            BY <2>1, <3>1 DEF NoClaim, KeepsClaim, Owner, Fresh
        <3> QED
            BY <3>1, <3>2, <3>3, <3>4, Frame DEF Harmless, OthersRest, OthersStay
    <2>4. CASE status[act[p]] = "pending" /\ Goto(p, "clRun")
        <3>1. UNCHANGED <<status, starts, actionLock>>
            BY <1>3 DEF ClGet, redis, history
        <3>2. OthersRest(p) /\ KeepsClaim(p) /\ pc'[p] = "clRun"
            BY <2>4, GotoStep
        <3> QED
            BY <2>1, <2>2, <2>4, <3>1, <3>2, ClaimTaken
    <2> QED
        BY <1>3, <2>3, <2>4 DEF ClGet
<1>4. CASE ClExpire(p)
    <2>1. ~mem[p].claimed /\ mem[p].outcome # "rejected" /\ Subject(p)
        BY <1>4, Unclaimed DEF ClExpire, Late, To, Loads
    <2>2. OthersRest(p) /\ KeepsClaim(p) /\ pc'[p] = "free"
        BY <1>4, GotoStep DEF ClExpire
    <2>3. Harmless(p)
        BY <1>4 DEF ClExpire, SetStatus, history, Harmless, Benign, TypeOK
    <2>4. act[p] \in Action /\ actionLock[act[p]] = p
        BY <1>0, <1>4 DEF ClExpire, Local, LockHeld
    <2>5. Local(p)'
        BY <2>1, <2>2, <2>3, <2>4
           DEF Local, Subject, LockHeld, ClaimHeld, Undecided, Unowned, Refused, Fresh,
               KeepsClaim, Harmless, To, Loads
    <2>6. NoClaim(p)
        BY <2>1, <2>2 DEF NoClaim, KeepsClaim, Owner, Fresh
    <2> QED
        BY <2>2, <2>3, <2>5, <2>6, Frame DEF Harmless, OthersRest, OthersStay
<1>5. CASE ClRun(p)
    <2>1. ~mem[p].claimed /\ mem[p].outcome # "rejected" /\ Subject(p)
        BY <1>5, Unclaimed DEF ClRun, Late, To, Loads
    <2>2. act[p] \in Action /\ actionLock[act[p]] = p /\ starts[act[p]] = 0
        BY <1>0, <1>5 DEF ClRun, Local, LockHeld, Undecided, Fresh
    <2>3. /\ OthersRest(p) /\ pc'[p] = "free" /\ act'[p] = act[p]
          /\ mem'[p].claimed /\ mem'[p].outcome = mem[p].outcome /\ mem'[p].kind = mem[p].kind
        BY <1>5 DEF ClRun, OthersRest, TypeOK, Memory
    <2>4. Harmless(p) /\ status'[act[p]] = "running"
        BY <1>5, <2>2 DEF ClRun, SetStatus, history, Harmless, Benign, TypeOK
    <2>5. Local(p)'
        BY <2>1, <2>2, <2>3, <2>4
           DEF Local, Subject, LockHeld, ClaimHeld, Undecided, Unowned, Refused, Fresh,
               Harmless, To, Loads
    <2>6. NoClaim(p)
        BY <1>5, <2>3 DEF ClRun, NoClaim, Owner, Fresh
    <2> QED
        BY <2>3, <2>4, <2>5, <2>6, Frame DEF Harmless, OthersRest, OthersStay
<1>6. CASE Validate(p)
    <2>1. /\ mem[p].claimed /\ act[p] \in Action /\ starts[act[p]] = 0
          /\ UNCHANGED <<status, actionLock>>
        BY <1>0, <1>6 DEF Validate, Local, ClaimHeld, Undecided, Fresh, redis
    <2>2. CASE (Decide(p, "failed", "upGet") \/ Decide(p, "rejected", "upGet")) /\ UNCHANGED starts
        <3>1. /\ OthersRest(p) /\ pc'[p] = "upGet" /\ act'[p] = act[p]
              /\ mem'[p].claimed = mem[p].claimed /\ mem'[p].kind = mem[p].kind
            BY <2>2, DecideStep
        <3>2. OthersStay(p) /\ Late(p)' /\ \A a \in Action : Benign(a)
            BY <2>1, <3>1 DEF OthersRest, OthersStay, Late, Benign
        <3> QED
            BY <2>1, <2>2, <3>1, <3>2, Carries
    <2>3. CASE Goto(p, "exec") /\ starts' = [starts EXCEPT ![act[p]] = @ + 1]
        <3>1. OthersRest(p) /\ KeepsClaim(p) /\ pc'[p] = "exec" /\ pc[p] = "validate"
            BY <1>6, <2>3, GotoStep DEF Validate
        <3> QED
            BY <2>1, <2>3, <3>1, ExecutionStarted
    <2> QED
        BY <1>6, <2>2, <2>3 DEF Validate
<1>7. CASE Exec(p) \/ UpGet(p)
    <2>1. /\ OthersRest(p) /\ pc'[p] \in {"upGet", "upSet", "release"} /\ act'[p] = act[p]
          /\ mem'[p].claimed = mem[p].claimed /\ mem'[p].kind = mem[p].kind
          /\ mem'[p].outcome \in {mem[p].outcome, "completed", "failed"}
        BY <1>7, GotoStep, DecideStep, ToReleaseStep DEF Exec, UpGet, KeepsClaim
    <2>2. Harmless(p)
        BY <1>7 DEF Exec, UpGet, redis, history, Harmless, Benign
    <2>3. Late(p)' /\ ~To(p, "caSave")'
        BY <2>1 DEF Late, To, Loads
    <2> QED
        BY <1>0, <2>1, <2>2, <2>3, Onward
<1>8. CASE UpSet(p)
    <2>1. OthersRest(p) /\ KeepsClaim(p) /\ pc'[p] = "getConv" /\ mem'[p].ret = "upSave"
        BY <1>8, CallGetStep DEF UpSet
    <2>2. Harmless(p)
        <3>1. mem[p].outcome \in {"completed", "failed", "rejected"}
            BY <1>8 DEF UpSet, TypeOK, Memory, Outcome
        <3>2. CASE mem[p].outcome = "rejected"
            <4>1. mem[p].claimed /\ act[p] \in Action /\ starts[act[p]] = 0 /\ Owner(p, act[p])
                BY <1>0, <3>2 DEF Local, Refused, ClaimHeld, Owner
            <4>2. \A q \in Proc : act[q] = act[p] => ~Fresh(q)
                BY <1>8, <4>1 DEF UpSet, ClaimInv, Exclusive, Owner, Fresh
            <4> QED
                BY <1>8, <3>2, <4>1, <4>2 DEF UpSet, SetStatus, history, Harmless, Benign, TypeOK
        <3>3. CASE mem[p].outcome # "rejected"
            BY <1>8, <3>1, <3>3 DEF UpSet, SetStatus, history, Harmless, Benign, TypeOK
        <3> QED
            BY <3>2, <3>3
    <2>3. Late(p)' /\ ~To(p, "caSave")'
        BY <2>1 DEF Late, To, Loads
    <2> QED
        BY <1>0, <2>1, <2>2, <2>3, Onward DEF KeepsClaim
<1>9. CASE UpSave(p)
    <2>1. OthersRest(p) /\ KeepsClaim(p) /\ pc'[p] = "release"
        BY <1>9, ToReleaseStep DEF UpSave
    <2>2. Harmless(p)
        BY <1>9 DEF UpSave, DropPending, SaveConv, history, Harmless, Benign
    <2>3. Late(p)' /\ ~To(p, "caSave")'
        BY <2>1 DEF Late, To, Loads
    <2> QED
        BY <1>0, <2>1, <2>2, <2>3, Onward DEF KeepsClaim
<1>10. CASE EvSave(p)
    <2>1. OthersRest(p) /\ Aside(p)'
        BY <1>10, FinishStep DEF EvSave
    <2> QED
        BY <1>10, <2>1, Leaves DEF EvSave, SaveConv, history, OthersRest, OthersStay, Benign
<1> QED
    BY <1>1, <1>2, <1>3, <1>4, <1>5, <1>6, <1>7, <1>8, <1>9, <1>10 DEF Approving

\* Taking and releasing locks.
LEMMA LockingStep ==
    ASSUME TypeOK, ClaimInv, NEW p \in Proc, Locking(p)
    PROVE  ClaimInv'
<1>0. Local(p)
    BY DEF ClaimInv
<1>1. CASE RunLock(p)
    <2>1. ~mem[p].claimed /\ mem[p].outcome # "rejected" /\ Subject(p)
        BY <1>1, Unclaimed DEF RunLock, Late, To, Loads
    <2>2. OthersRest(p) /\ Aside(p)'
        BY <1>1, <2>1, FinishStep, GotoStep, CallGetStep
           DEF RunLock, KeepsClaim, Aside, Subject, To, Loads
    <2> QED
        BY <1>1, <2>2, Leaves DEF RunLock, history, OthersRest, OthersStay, Benign
<1>2. CASE Free(p)
    <2>1. UNCHANGED <<status, starts>> /\ act[p] \in Action /\ actionLock[act[p]] = p
        BY <1>0, <1>2 DEF Free, history, Local, LockHeld
    <2>2. \A q \in Proc \ {p}, a \in Action : actionLock[a] = q => actionLock'[a] = q
        BY <1>2, <2>1 DEF Free, TypeOK
    <2>3. CASE Finish(p)
        BY <2>1, <2>2, <2>3, FinishStep, Leaves DEF OthersRest, OthersStay, Benign
    <2>4. CASE ~mem[p].claimed /\ ToRelease(p)
        <3>1. OthersRest(p) /\ Aside(p)'
            BY <1>0, <2>4, ToReleaseStep
               DEF KeepsClaim, Local, Refused, Aside, Subject, To, Loads
        <3> QED
            BY <2>1, <2>2, <3>1, Leaves DEF OthersRest, OthersStay, Benign
    <2>5. CASE mem[p].claimed /\ Goto(p, "validate")
        <3>1. OthersRest(p) /\ KeepsClaim(p) /\ pc'[p] = "validate" /\ pc[p] = "free"
            BY <1>2, <2>5, GotoStep DEF Free
        <3>2. NoClaim(p)
            BY <2>5, <3>1 DEF NoClaim, KeepsClaim, Owner, Fresh
        <3>3. Local(p)'
            BY <1>0, <2>1, <2>5, <3>1
               DEF Local, Subject, LockHeld, ClaimHeld, Undecided, Unowned, Refused, Fresh,
                   KeepsClaim, To, Loads
        <3> QED
            BY <2>1, <2>2, <3>1, <3>2, <3>3, Frame DEF OthersRest, OthersStay, Benign
    <2> QED
        BY <1>2, <2>3, <2>4, <2>5 DEF Free
<1>3. CASE Release(p) \/ RelDel(p)
    <2>1. Harmless(p)
        BY <1>3 DEF Release, RelDel, redis, history, Harmless, Benign
    <2>2. CASE Finish(p)
        BY <2>1, <2>2, FinishStep, Leaves DEF Harmless, OthersRest, OthersStay
    <2>3. CASE Goto(p, "relDel") \/ CallGet(p, "evSave")
        <3>1. OthersRest(p) /\ KeepsClaim(p) /\ Late(p)' /\ ~To(p, "caSave")'
            BY <2>3, GotoStep, CallGetStep DEF Late, To, Loads
        <3> QED
            BY <1>0, <2>1, <3>1, Onward DEF KeepsClaim
    <2> QED
        BY <1>3, <2>2, <2>3 DEF Release, RelDel
<1> QED
    BY <1>1, <1>2, <1>3 DEF Locking

\* The arrival of a request.
LEMMA RequestStep ==
    ASSUME TypeOK, ClaimInv, NEW p \in Proc, Request(p)
    PROVE  ClaimInv'
<1>1. pc[p] = "idle" /\ UNCHANGED <<redis, history>>
    BY DEF Request, BeginGet, Begin
<1>2. ~mem[p].claimed /\ mem[p].outcome # "rejected"
    BY <1>1, Unclaimed DEF Late, To, Loads
<1>3. OthersRest(p) /\ Aside(p)'
    <2>1. ASSUME NEW k \in {"read", "delete", "run"}, NEW l \in {"reply", "deCheck", "runLock"},
                 BeginGet(p, k, l)
          PROVE OthersRest(p) /\ Aside(p)'
        <3>1. /\ mem'[p].claimed = mem[p].claimed /\ mem'[p].outcome = mem[p].outcome
              /\ mem'[p].ret = l /\ mem'[p].kind = k
            BY <2>1 DEF BeginGet, TypeOK, Memory
        <3> QED
            BY <1>2, <2>1, <3>1 DEF BeginGet, OthersRest, Aside, Subject, To, Loads, TypeOK
    <2>2. ASSUME NEW a \in Action, Begin(p, "approve", a, "apGet") \/ Begin(p, "cancel", a, "caLock")
          PROVE OthersRest(p) /\ Aside(p)'
        BY <1>2, <2>2 DEF Begin, OthersRest, Aside, Subject, To, Loads, TypeOK, Memory
    <2> QED
        BY <2>1, <2>2 DEF Request, Known
<1> QED
    BY <1>1, <1>3, Leaves DEF redis, history, OthersRest, OthersStay, Benign

\* The death of a greenlet, and the passing of time.
LEMMA AbandonStep ==
    ASSUME TypeOK, ClaimInv, NEW p \in Proc, Abandon(p)
    PROVE  ClaimInv'
<1>1. OthersRest(p) /\ Aside(p)'
    BY FinishStep DEF Abandon
<1>2. OthersStay(p)
    BY <1>1 DEF Abandon, OthersRest, OthersStay
<1> QED
    BY <1>1, <1>2, Leaves DEF Abandon, Benign

LEMMA LapseStep ==
    ASSUME TypeOK, ClaimInv, Lapse
    PROVE  ClaimInv'
<1>1. UNCHANGED locals /\ starts' = starts /\ \A a \in Action : Benign(a)
    BY DEF Lapse, RunLockLapse, Deadline, KeyLapse, ActionLockLapse, history, Benign, TypeOK
<1>2. OthersStay(NoOne)
    BY <1>1, ActionsAssumption
       DEF Lapse, RunLockLapse, Deadline, KeyLapse, ActionLockLapse, locals, OthersStay, TypeOK
<1>3. NoClaim(NoOne)
    BY <1>1 DEF NoClaim, Owner, Fresh, locals
<1> QED
    BY <1>1, <1>2, <1>3, ActionsAssumption, Frame

LEMMA ClaimStep == TypeInv /\ ClaimInv /\ [Next]_vars => ClaimInv'
<1> SUFFICES ASSUME TypeInv, ClaimInv, [Next]_vars PROVE ClaimInv'
    OBVIOUS
<1>1. CASE UNCHANGED vars
    BY <1>1 DEF vars, redis, locals, history, ClaimInv, Local, Subject, LockHeld, ClaimHeld,
                Undecided, Unowned, Refused, Record, Exclusive, Owner, Fresh, To
<1>2. TypeOK
    BY DEF TypeInv
<1>3. ASSUME NEW p \in Proc, Request(p) \/ Step(p) \/ Abandon(p) PROVE ClaimInv'
    BY <1>2, <1>3, RequestStep, ApprovingStep, CancellingStep, DeletingStep, LoadingStep,
       RunningStep, LockingStep, AbandonStep DEF Step
<1> QED
    BY <1>1, <1>2, <1>3, LapseStep DEF Next

LEMMA ClaimCorrect == Spec => []ClaimInv
BY TypeInit, TypeStep, ClaimInit, ClaimStep, PTL DEF Spec

-----------------------------------------------------------------------------
\* No command is handed to the batch executor twice (claim_action, approve).
THEOREM ApprovedOnce == Spec => []AtMostOnce
<1>1. ClaimInv => AtMostOnce
    BY DEF ClaimInv, Record, AtMostOnce
<1> QED
    BY <1>1, ClaimCorrect, PTL

\* A record that says "cancelled" or "rejected" belongs to a command that has not
\* run (cancel_action, claim_action, approve).
THEOREM WithdrawnForGood == Spec => []WithdrawnNeverRan
<1>1. ClaimInv => WithdrawnNeverRan
    BY DEF ClaimInv, Record, WithdrawnNeverRan
<1> QED
    BY <1>1, ClaimCorrect, PTL
====
