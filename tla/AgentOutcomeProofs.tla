-------------------------- MODULE AgentOutcomeProofs --------------------------
(***************************************************************************)
(* Theorems about AgentActions, continued: one chat run at a time where    *)
(* run locks do not lapse; and, also where they do, what becomes of a      *)
(* claim: OutcomeKept and VerdictStable of AgentActions, and that the      *)
(* protocol implements ActionOffer.                                        *)
(***************************************************************************)
EXTENDS AgentClaimProofs

-----------------------------------------------------------------------------
(* Runs. *)

\* Where p is, or where get_conversation will return to.
Place(p) == IF pc[p] \in Loads THEN mem[p].ret ELSE pc[p]

\* Places that only the holder of the run lock comes to, and those outside of any run.
\* ("free" belongs to cancellations, too.)
Guarded == {"clLock", "clGet", "clExpire", "clRun", "validate", "exec", "upGet", "upSet",
            "upSave", "release", "relDel", "ruAppend", "think", "ruTool", "crSet", "crIndex",
            "crSave", "ruNext", "ruDone"}
Outside == {"idle", "apGet", "runLock", "evSave"}

Lockers  == Guarded \cup {"apGet", "runLock"}
Locks(p) == mem[p].kind \in {"approve", "run"}

\* The inductive invariant: who is in a run holds the lock, and nobody else gets to where
\* the lock is freed.
RunInv ==
    \A p \in Proc : /\ Locks(p) /\ Place(p) \notin Outside => runLock = p
                    /\ Place(p) \in Lockers => Locks(p)

LEMMA InRunPlace ==
    ASSUME TypeOK, NEW p \in Proc
    PROVE  InRun(p) => Locks(p) /\ Place(p) \notin Outside
BY DEF TypeOK, Memory, Return, InRun, Locks, Place, Outside, Loads

LEMMA RunInit == Init => RunInv
BY DEF Init, Blank, RunInv, Locks, Place, Outside, Lockers, Guarded, Loads

-----------------------------------------------------------------------------
(* Where the control flow helpers take p. *)

Went(p, l) == OthersRest(p) /\ Place(p)' = l /\ mem'[p].kind = mem[p].kind
Ended(p)   == OthersRest(p) /\ Place(p)' = "idle" /\ ~Locks(p)'

LEMMA FinishEnds == ASSUME TypeOK, NEW p \in Proc, Finish(p) PROVE Ended(p)
BY DEF TypeOK, Finish, OthersRest, Blank, Ended, Place, Loads, Locks

LEMMA GotoGoes ==
    ASSUME TypeOK, NEW p \in Proc, NEW l, l \notin Loads, Goto(p, l) PROVE Went(p, l)
BY GotoStep DEF Went, Place, KeepsClaim

LEMMA CallGetGoes ==
    ASSUME TypeOK, NEW p \in Proc, NEW l, CallGet(p, l) PROVE Went(p, l)
BY CallGetStep DEF Went, Place, KeepsClaim, Loads

LEMMA ToReleaseGoes == ASSUME TypeOK, NEW p \in Proc, ToRelease(p) PROVE Went(p, "release")
BY ToReleaseStep DEF Went, Place, KeepsClaim, Loads

LEMMA DecideGoes ==
    ASSUME TypeOK, NEW p \in Proc, NEW o, NEW l, l \notin Loads, Decide(p, o, l)
    PROVE  Went(p, l)
BY DecideStep DEF Went, Place

-----------------------------------------------------------------------------
(* A step that leaves the run lock alone. *)

\* p ends, or stays inside its run, or outside of all.
Keeps(p) ==
    \/ Ended(p)
    \/ \E l : /\ Went(p, l)
              /\ Place(p) \in Outside => l \in Outside
              /\ l \in Lockers => Locks(p)

LEMMA KeepsRun ==
    ASSUME RunInv, NEW p \in Proc, Keeps(p), runLock' = runLock
    PROVE  RunInv'
<1>1. ASSUME NEW q \in Proc \ {p}
      PROVE /\ Locks(q)' = Locks(q) /\ Place(q)' = Place(q)
    BY DEF Keeps, Ended, Went, OthersRest, Locks, Place
<1>2. CASE Ended(p)
    BY <1>1, <1>2 DEF RunInv, Ended, Outside, Lockers, Guarded
<1>3. ASSUME NEW l, Went(p, l), Place(p) \in Outside => l \in Outside,
             l \in Lockers => Locks(p)
      PROVE RunInv'
    <2>1. Place(p)' = l /\ Locks(p)' = Locks(p)
        BY <1>3 DEF Went, Locks
    <2> QED
        BY <1>1, <1>3, <2>1 DEF RunInv
<1> QED
    BY <1>2, <1>3 DEF Keeps

\* From one guarded place to another.
LEMMA Inside ==
    ASSUME RunInv, NEW p \in Proc, pc[p] \in Guarded \ Loads,
           NEW l \in Guarded \cup {"free", "evSave"}, Went(p, l)
    PROVE  Keeps(p)
BY DEF RunInv, Keeps, Place, Lockers, Guarded, Outside, Loads

LEMMA ApprovingKeeps ==
    ASSUME TypeOK, RunInv, NEW p \in Proc, Approving(p)
    PROVE  Keeps(p) /\ runLock' = runLock
<1>0. runLock' = runLock
    BY DEF Approving, ApGet, ClLock, ClGet, ClExpire, ClRun, Validate, Exec, UpGet, UpSet, UpSave,
           EvSave, DropPending, SaveConv, SetStatus, redis
<1>1. CASE ApGet(p)
    <2>1. Ended(p) \/ Went(p, "runLock")
        BY <1>1, FinishEnds, CallGetGoes DEF ApGet
    <2> QED
        BY <1>0, <1>1, <2>1 DEF ApGet, RunInv, Keeps, Lockers, Outside, Place, Loads
<1>2. CASE ClLock(p) \/ ClGet(p) \/ ClExpire(p)
    <2>1. Went(p, "release") \/ Went(p, "clGet") \/ Went(p, "free") \/ Went(p, "clExpire")
          \/ Went(p, "clRun")
        BY <1>2, ToReleaseGoes, GotoGoes DEF ClLock, ClGet, ClExpire, Loads
    <2> QED
        BY <1>0, <1>2, <2>1, Inside DEF ClLock, ClGet, ClExpire, Guarded, Loads
<1>3. CASE ClRun(p)
    <2>1. Went(p, "free")
        BY <1>3 DEF ClRun, SetStatus, TypeOK, Memory, Went, OthersRest, Place, Loads
    <2> QED
        BY <1>0, <1>3, <2>1, Inside DEF ClRun, Guarded, Loads
<1>4. CASE Validate(p) \/ Exec(p) \/ UpGet(p) \/ UpSet(p) \/ UpSave(p)
    <2>1. Went(p, "release") \/ Went(p, "exec") \/ Went(p, "upGet") \/ Went(p, "upSet")
          \/ Went(p, "upSave")
        BY <1>4, ToReleaseGoes, GotoGoes, CallGetGoes, DecideGoes
           DEF Validate, Exec, UpGet, UpSet, UpSave, Loads
    <2> QED
        BY <1>0, <1>4, <2>1, Inside
           DEF Validate, Exec, UpGet, UpSet, UpSave, DropPending, Guarded, Loads
<1>5. CASE EvSave(p)
    BY <1>0, <1>5, FinishEnds DEF EvSave, Keeps
<1> QED
    BY <1>1, <1>2, <1>3, <1>4, <1>5 DEF Approving

LEMMA CancellingKeeps ==
    ASSUME TypeOK, RunInv, NEW p \in Proc, Cancelling(p) \/ Deleting(p)
    PROVE  Keeps(p) /\ runLock' = runLock
<1>0. runLock' = runLock
    BY DEF Cancelling, CaLock, CaGet, CaSet, CaSave, Deleting, DeCheck, DeDelete, DropPending,
           SaveConv, SetStatus, redis
<1>1. Ended(p) \/ \E l \in {"caGet", "caSet", "caSave", "free", "deDelete"} : Went(p, l)
    BY FinishEnds, GotoGoes, CallGetGoes
       DEF Cancelling, CaLock, CaGet, CaSet, CaSave, Deleting, DeCheck, DeDelete, Loads
<1>2. Place(p) \notin Outside
    BY DEF Cancelling, CaLock, CaGet, CaSet, CaSave, Deleting, DeCheck, DeDelete, DropPending,
           Place, Outside, Loads
<1> QED
    BY <1>0, <1>1, <1>2 DEF Keeps, Lockers, Guarded

\* get_conversation: p stays where it is about to return to, or it meets no conversation.
LEMMA LoadingKeeps ==
    ASSUME TypeOK, RunInv, NEW p \in Proc, Loading(p)
    PROVE  Keeps(p) /\ runLock' = runLock
<1>0. runLock' = runLock
    BY DEF Loading, GetConv, ReconOne, ReconExpire, ReconEnd, ReconSave, Reply, SaveConv, redis
<1>1. Went(p, Place(p)) => Keeps(p)
    BY DEF RunInv, Keeps
<1>2. CASE GetConv(p) /\ ~NotFound(p)
    <2>1. /\ pc[p] = "getConv"
          /\ pc' = [pc EXCEPT ![p] = "recon"]
          /\ mem' = [mem EXCEPT ![p] = [@ EXCEPT !.copy = pending, !.todo = pending,
                                                 !.dirty = FALSE]]
          /\ act' = act
        BY <1>2 DEF GetConv
    <2>2. Went(p, Place(p))
        BY <2>1 DEF TypeOK, Memory, Went, OthersRest, Place, Loads
    <2> QED
        BY <1>0, <1>1, <2>2
<1>3. CASE GetConv(p) /\ NotFound(p)
    <2>1. Place(p) = mem[p].ret
        BY <1>3 DEF GetConv, Place, Loads
    <2>2. CASE mem[p].ret = "caSave" /\ Goto(p, "free")
        <3>1. Went(p, "free")
            BY <2>2, GotoGoes DEF Loads
        <3> QED
            BY <1>0, <2>1, <2>2, <3>1 DEF Keeps, Outside, Lockers, Guarded
    <2>3. CASE mem[p].ret \in Guarded /\ ToRelease(p)
        <3>1. Went(p, "release")
            BY <2>3, ToReleaseGoes
        <3> QED
            BY <1>0, <2>1, <2>3, <3>1 DEF RunInv, Keeps, Outside, Lockers, Guarded
    <2>4. CASE /\ mem[p].ret = "upSave"
               /\ pc' = [pc EXCEPT ![p] = "upGet"]
               /\ mem' = [mem EXCEPT ![p].outcome = "failed"]
               /\ UNCHANGED act
        <3>1. Went(p, "upGet")
            BY <2>4 DEF TypeOK, Memory, Went, OthersRest, Place, Loads
        <3> QED
            BY <1>0, <2>1, <2>4, <3>1 DEF RunInv, Keeps, Outside, Lockers, Guarded
    <2>5. CASE Finish(p)
        BY <1>0, <2>5, FinishEnds DEF Keeps
    <2> QED
        BY <1>3, <2>2, <2>3, <2>4, <2>5 DEF NotFound, Guarded
<1>4. CASE (\E a \in Action : ReconOne(p, a)) \/ ReconExpire(p)
    <2>1. pc[p] \in Loads /\ pc'[p] \in {"recon", "reconExpire"}
        BY <1>4 DEF ReconOne, ReconExpire, TypeOK, Loads
    <2>2. mem'[p].ret = mem[p].ret /\ mem'[p].kind = mem[p].kind
        <3>1. CASE \E a \in Action : ReconOne(p, a)
            <4>1. PICK a \in Action : ReconOne(p, a)
                BY <3>1
            <4>2. \E t, c, d, u : mem' = [mem EXCEPT ![p] = [mem[p] EXCEPT
                                         !.todo = t, !.copy = c, !.dirty = d, !.cur = u]]
                BY <4>1 DEF ReconOne
            <4> QED
                BY <4>2 DEF TypeOK, Memory
        <3>2. CASE ReconExpire(p)
            BY <3>2 DEF ReconExpire, TypeOK, Memory
        <3> QED
            BY <1>4, <3>1, <3>2
    <2>3. OthersRest(p)
        BY <1>4 DEF ReconOne, ReconExpire, TypeOK, OthersRest
    <2>4. Place(p) = mem[p].ret
        BY <2>1 DEF Place
    <2>5. Place(p)' = mem[p].ret
        BY <2>1, <2>2 DEF Place, Loads
    <2>6. Went(p, Place(p))
        BY <2>2, <2>3, <2>4, <2>5 DEF Went
    <2> QED
        BY <1>0, <1>1, <2>6
<1>5. CASE ReconEnd(p) \/ ReconSave(p)
    <2>1. mem[p].ret \notin Loads
        BY DEF TypeOK, Memory, Return, Loads
    <2>2. pc[p] \in Loads /\ pc'[p] \in {"reconSave", mem[p].ret}
        BY <1>5 DEF ReconEnd, ReconSave, Goto, TypeOK, Loads
    <2>3. mem'[p].ret = mem[p].ret /\ mem'[p].kind = mem[p].kind
        BY <1>5 DEF ReconEnd, ReconSave, Goto, TypeOK, Memory
    <2>4. OthersRest(p)
        BY <1>5 DEF ReconEnd, ReconSave, Goto, TypeOK, OthersRest
    <2>5. Place(p) = mem[p].ret
        BY <2>2 DEF Place
    <2>6. Place(p)' = mem[p].ret
        BY <2>1, <2>2, <2>3 DEF Place, Loads
    <2>7. Went(p, Place(p))
        BY <2>3, <2>4, <2>5, <2>6 DEF Went
    <2> QED
        BY <1>0, <1>1, <2>7
<1>6. CASE Reply(p)
    BY <1>0, <1>6, FinishEnds DEF Reply, Keeps
<1> QED
    BY <1>2, <1>3, <1>4, <1>5, <1>6 DEF Loading

LEMMA RunningKeeps ==
    ASSUME TypeOK, RunInv, NEW p \in Proc, Running(p)
    PROVE  Keeps(p) /\ runLock' = runLock
<1>0. runLock' = runLock
    BY DEF Running, RuAppend, Think, RuDone, RuTool, CrSet, CrIndex, CrSave, RuNext, SaveConv, redis
<1>1. pc[p] \in Guarded \ Loads
    BY DEF Running, RuAppend, Think, RuDone, RuTool, CrSet, CrIndex, CrSave, RuNext, Guarded, Loads
<1>2. CASE RuAppend(p) \/ Think(p) \/ RuDone(p) \/ RuTool(p) \/ CrIndex(p)
    <2>1. \E l \in {"think", "release", "ruDone", "ruTool", "ruNext", "crSet", "crSave"} : Went(p, l)
        BY <1>2, GotoGoes, ToReleaseGoes, CallGetGoes
           DEF RuAppend, Think, RuDone, RuTool, CrIndex, Loads
    <2> QED
        BY <1>0, <1>1, <2>1, Inside DEF Guarded
<1>3. CASE CrSet(p)
    <2>1. Went(p, "ruNext") \/ Went(p, "crIndex")
        <3>1. CASE CallGet(p, "ruNext")
            BY <3>1, CallGetGoes
        <3>2. CASE ~CallGet(p, "ruNext")
            BY <1>3, <3>2 DEF CrSet, TypeOK, Went, OthersRest, Place, Loads
        <3> QED
            BY <3>1, <3>2
    <2> QED
        BY <1>0, <1>1, <2>1, Inside DEF Guarded
<1>4. CASE CrSave(p)
    <2>1. Went(p, "ruNext")
        BY <1>4 DEF CrSave, TypeOK, Memory, Went, OthersRest, Place, Loads
    <2> QED
        BY <1>0, <1>1, <2>1, Inside DEF Guarded
<1>5. CASE RuNext(p)
    <2>1. CASE NextCall(p)
        <3>1. Went(p, "ruTool")
            BY <2>1 DEF NextCall, TypeOK, Memory, Went, OthersRest, Place, Loads
        <3> QED
            BY <1>0, <1>1, <3>1, Inside DEF Guarded
    <2>2. CASE NextRound(p)
        <3>1. Went(p, "think")
            BY <2>2 DEF NextRound, TypeOK, Memory, Went, OthersRest, Place, Loads
        <3> QED
            BY <1>0, <1>1, <3>1, Inside DEF Guarded
    <2>3. CASE ToRelease(p)
        <3>1. Went(p, "release")
            BY <2>3, ToReleaseGoes
        <3> QED
            BY <1>0, <1>1, <3>1, Inside DEF Guarded
    <2> QED
        BY <1>5, <2>1, <2>2, <2>3 DEF RuNext
<1> QED
    BY <1>2, <1>3, <1>4, <1>5 DEF Running

-----------------------------------------------------------------------------
(* The steps that change the run lock. *)

LEMMA LockingRun ==
    ASSUME TypeOK, RunInv, NEW p \in Proc, Locking(p)
    PROVE  RunInv'
<1>1. CASE RunLock(p)
    <2>1. pc[p] = "runLock" /\ Place(p) = "runLock" /\ Locks(p)
        BY <1>1 DEF RunLock, RunInv, Place, Loads, Lockers
    <2>2. CASE Finish(p) /\ runLock' = runLock
        BY <2>2, FinishEnds, KeepsRun DEF Keeps
    <2>3. CASE /\ runLock = NoOne /\ runLock' = p
               /\ Goto(p, "clLock") \/ CallGet(p, "ruAppend")
        <3>1. PICK l \in {"clLock", "ruAppend"} : Went(p, l)
            BY <2>3, GotoGoes, CallGetGoes DEF Loads
        <3>2. Locks(p)' /\ Place(p)' = l
            BY <2>1, <3>1 DEF Went, Locks
        <3>3. ASSUME NEW q \in Proc \ {p}
              PROVE /\ Locks(q)' = Locks(q) /\ Place(q)' = Place(q)
                    /\ ~(Locks(q) /\ Place(q) \notin Outside)
            BY <2>3, <3>1, ActionsAssumption DEF Went, OthersRest, Locks, Place, RunInv
        <3> QED
            BY <2>3, <3>2, <3>3 DEF RunInv
    <2> QED
        BY <1>1, <2>2, <2>3 DEF RunLock
<1>2. CASE Free(p)
    <2>1. Place(p) = "free" /\ runLock' = runLock
        BY <1>2 DEF Free, Place, Loads
    <2>2. Ended(p) \/ (Locks(p) /\ Went(p, "release")) \/ (Locks(p) /\ Went(p, "validate"))
        BY <1>2, FinishEnds, ToReleaseGoes, GotoGoes DEF Free, Locks, Loads
    <2>3. Keeps(p)
        BY <2>1, <2>2 DEF Keeps, Outside
    <2> QED
        BY <2>1, <2>3, KeepsRun
<1>3. CASE Release(p)
    <2>1. runLock' = runLock /\ pc[p] \in Guarded \ Loads
        BY <1>3 DEF Release, redis, Guarded, Loads
    <2>2. Ended(p) \/ Went(p, "relDel")
        BY <1>3, FinishEnds, GotoGoes DEF Release, Loads
    <2>3. Keeps(p)
        BY <2>1, <2>2, Inside DEF Keeps, Guarded
    <2> QED
        BY <2>1, <2>3, KeepsRun
<1>4. CASE RelDel(p)
    <2>1. pc[p] = "relDel" /\ Place(p) = "relDel" /\ runLock' = NoOne
        BY <1>4 DEF RelDel, Place, Loads
    <2>2. runLock = p
        BY <2>1 DEF RunInv, Lockers, Guarded, Outside
    <2>3. Ended(p) \/ Went(p, "evSave")
        BY <1>4, FinishEnds, CallGetGoes DEF RelDel
    <2>4. ASSUME NEW q \in Proc \ {p}
          PROVE /\ Locks(q)' = Locks(q) /\ Place(q)' = Place(q)
                /\ ~(Locks(q) /\ Place(q) \notin Outside)
        BY <2>2, <2>3 DEF Ended, Went, OthersRest, Locks, Place, RunInv
    <2>5. Place(p)' \in {"idle", "evSave"}
        BY <2>3 DEF Ended, Went
    <2> QED
        BY <2>4, <2>5 DEF RunInv, Outside, Lockers, Guarded
<1> QED
    BY <1>1, <1>2, <1>3, <1>4 DEF Locking

LEMMA RequestRun ==
    ASSUME TypeOK, RunInv, NEW p \in Proc, Request(p)
    PROVE  RunInv'
<1>1. ASSUME NEW q \in Proc \ {p} PROVE Locks(q)' = Locks(q) /\ Place(q)' = Place(q)
    BY DEF Request, BeginGet, Begin, TypeOK, Locks, Place
<1>2. runLock' = runLock
    BY DEF Request, BeginGet, Begin, redis
<1>3. \/ Place(p)' \in {"reply", "deCheck", "caLock"} /\ ~Locks(p)'
      \/ Place(p)' \in {"runLock", "apGet"} /\ Locks(p)'
    <2>1. ASSUME NEW k, NEW l, BeginGet(p, k, l) PROVE Place(p)' = l /\ mem'[p].kind = k
        BY <2>1 DEF BeginGet, TypeOK, Memory, Place, Loads
    <2>2. ASSUME NEW k, NEW a, NEW l, l \notin Loads, Begin(p, k, a, l)
          PROVE Place(p)' = l /\ mem'[p].kind = k
        BY <2>2 DEF Begin, TypeOK, Memory, Place
    <2> QED
        BY <2>1, <2>2 DEF Request, Locks, Loads
<1> QED
    BY <1>1, <1>2, <1>3 DEF RunInv, Outside, Lockers, Guarded

\* A dead holder's lock is its own token no more.
LEMMA AbandonRun ==
    ASSUME TypeOK, RunInv, NEW p \in Proc, Abandon(p)
    PROVE  RunInv'
<1>1. Ended(p)
    BY FinishEnds DEF Abandon
<1>2. ASSUME NEW q \in Proc \ {p} PROVE Locks(q)' = Locks(q) /\ Place(q)' = Place(q)
    BY <1>1 DEF Ended, OthersRest, Locks, Place
<1>3. ASSUME NEW q \in Proc \ {p}, runLock = q PROVE runLock' = q
    BY <1>3 DEF Abandon
<1> QED
    BY <1>1, <1>2, <1>3 DEF RunInv, Ended, Lockers, Guarded, Outside

\* No live holder's lock lapses.
LEMMA LapseRun ==
    ASSUME Overrun = {}, TypeOK, RunInv, Lapse
    PROVE  RunInv'
<1>1. pc' = pc /\ mem' = mem
    BY DEF Lapse, RunLockLapse, Deadline, KeyLapse, ActionLockLapse, locals
<1>2. ASSUME NEW q \in Proc, runLock = q PROVE runLock' = q
    BY <1>2, ActionsAssumption DEF Lapse, RunLockLapse, Deadline, KeyLapse, ActionLockLapse
<1> QED
    BY <1>1, <1>2 DEF RunInv, Locks, Place

LEMMA RunStep == ASSUME Overrun = {}, TypeInv, RunInv, [Next]_vars PROVE RunInv'
<1>1. TypeOK
    BY DEF TypeInv
<1>2. CASE UNCHANGED vars
    BY <1>2 DEF vars, redis, locals, RunInv, Locks, Place
<1>3. ASSUME NEW p \in Proc, Request(p) \/ Step(p) \/ Abandon(p) PROVE RunInv'
    BY <1>1, <1>3, RequestRun, AbandonRun, LockingRun, ApprovingKeeps, CancellingKeeps,
       LoadingKeeps, RunningKeeps, KeepsRun DEF Step
<1> QED
    BY <1>1, <1>2, <1>3, LapseRun DEF Next

\* At most one chat run or approval holds the conversation, when each ends before its lock
\* does (acquire_run_lock, release_run_lock).
THEOREM OneAtATime == ASSUME Overrun = {} PROVE Spec => []OneRun
<1>1. TypeInv /\ RunInv /\ [Next]_vars => RunInv'
    BY RunStep
<1>2. TypeInv /\ RunInv => OneRun
    BY InRunPlace DEF TypeInv, RunInv, OneRun
<1> QED
    BY <1>1, <1>2, TypeInit, TypeStep, RunInit, PTL DEF Spec

-----------------------------------------------------------------------------
(* Outcomes. *)

Settled == {"completed", "failed", "rejected", "cancelled"}

\* Where an owner still has to run its command or to record what became of it.
Works == {"exec", "upGet", "upSet"}

\* What p may still rely on of what it has read.
Sees(p) ==
    /\ pc[p] \in Works \/ To(p, "upSave") => mem[p].claimed
    /\ pc[p] \in {"clRun", "caSet"} => status[act[p]] \in {"pending", "expired", "absent"}
    /\ pc[p] = "upSet" => status[act[p]] \in {"running", "expired", "absent"}
    /\ pc[p] = "clExpire" => due[act[p]]
    /\ pc[p] = "reconExpire" => mem[p].cur \in Action /\ due[mem[p].cur]
    /\ mem[p].claimed /\ pc[p] \in {"free", "validate"}
         => act[p] \in gone \/ due[act[p]] \/ status[act[p]] = "running"

\* A started command is running, with somebody to record its outcome, or recorded.
Told(a) ==
    starts[a] > 0 /\ a \notin gone /\ ~due[a] =>
        \/ status[a] \in {"completed", "failed"}
        \/ status[a] = "running" /\ \E q \in Proc : Owner(q, a) /\ pc[q] \in Works

\* The inductive invariant.
OutcomeInv == (\A p \in Proc : Sees(p)) /\ (\A a \in Action : Told(a))

LEMMA OutcomeInit == Init => OutcomeInv
BY ActionsAssumption DEF Init, OutcomeInv, Sees, Told, Works, To, Loads, Blank

-----------------------------------------------------------------------------
(* What a step of p, or of time when p is no greenlet, does to a record. *)

Rewrite(p, a) ==
    \/ status'[a] = status[a]
    \/ status[a] = "new" /\ status'[a] = "pending"
    \/ status'[a] = "expired" /\ due[a]
    \/ status'[a] = "absent" /\ a \in gone'
    \/ /\ status'[a] = "absent" /\ status[a] \in Live
       /\ status[a] = "pending" => due[a]
       /\ status[a] = "running" => \A q \in Proc : ~Owner(q, a)
    \/ /\ p \in Proc /\ Owner(p, a) /\ status[a] \notin Settled
       /\ \/ status'[a] \in {"completed", "failed"}
          \/ status'[a] \in {"running", "rejected"} /\ starts[a] = 0
    \/ /\ p \in Proc /\ pc[p] = "caSet" /\ act[p] = a /\ status[a] \notin Settled
       /\ status'[a] = "cancelled"

Quiet(p) ==
    /\ OthersRest(p)
    /\ gone \subseteq gone'
    /\ \A a \in Action : (due[a] => due'[a]) /\ Rewrite(p, a)

\* p leaves no record of a running command to nobody.
Persists(p) ==
    \A a \in Action :
        Owner(p, a) /\ pc[p] \in Works
        => \/ Owner(p, a)' /\ pc'[p] \in Works
           \/ status'[a] # "running"
           \/ a \in gone'

LEMMA OthersSee ==
    ASSUME TypeOK, ClaimInv, NEW p, Quiet(p), NEW q \in Proc, q # p, Sees(q)
    PROVE  Sees(q)'
<1>1. pc'[q] = pc[q] /\ act'[q] = act[q] /\ mem'[q] = mem[q] /\ Local(q)
    BY DEF Quiet, OthersRest, ClaimInv
<1>2. CASE Owner(q, act[q]) /\ act[q] \in Action
    <2>1. p \in Proc => ~Owner(p, act[q]) /\ ~(pc[p] = "caSet" /\ act[p] = act[q])
        BY <1>2 DEF ClaimInv, Exclusive, Local, Unowned
    <2>2. \/ status'[act[q]] = status[act[q]]
          \/ status[act[q]] = "new"
          \/ status'[act[q]] = "expired" /\ due[act[q]]
          \/ status'[act[q]] = "absent" /\ (act[q] \in gone' \/ due[act[q]])
        BY <1>2, <2>1 DEF Quiet, Rewrite, Live
    <2>3. mem[q].claimed => status[act[q]] # "new"
        BY <1>1 DEF Local, ClaimHeld
    <2>4. pc[q] # "caSet"
        BY <1>1, <1>2 DEF Local, Unowned
    <2> QED
        BY <1>1, <1>2, <2>2, <2>3, <2>4 DEF Quiet, Sees, To, Works, Loads, Owner
<1>3. CASE pc[q] = "caSet"
    <2>1. act[q] \in Action /\ \A t \in Proc : ~Owner(t, act[q])
        BY <1>1, <1>3 DEF Local, LockHeld, Unowned
    <2>2. p \in Proc => ~(pc[p] = "caSet" /\ act[p] = act[q])
        BY <1>1, <1>3 DEF ClaimInv, Local, LockHeld
    <2>3. status'[act[q]] \in {status[act[q]], "expired", "absent"} \/ status[act[q]] = "new"
        BY <2>1, <2>2 DEF Quiet, Rewrite
    <2>4. ~mem[q].claimed
        BY <1>3, <2>1 DEF Owner
    <2> QED
        BY <1>1, <1>3, <2>3, <2>4 DEF Sees, To, Works, Loads
<1>4. CASE ~Owner(q, act[q]) /\ pc[q] # "caSet"
    <2>1. pc[q] = "clExpire" => act[q] \in Action
        BY <1>1 DEF Local, LockHeld
    <2> QED
        BY <1>1, <1>4, <2>1 DEF Quiet, Sees, To, Works, Loads, Owner
<1>5. Owner(q, act[q]) => act[q] \in Action
    BY <1>1 DEF Owner, Local, LockHeld, ClaimHeld
<1> QED
    BY <1>2, <1>3, <1>4, <1>5

\* A step that starts nothing keeps the invariant when it keeps what p sees.
LEMMA Faithful ==
    ASSUME TypeOK, ClaimInv, OutcomeInv, NEW p, Quiet(p), starts' = starts,
           p \in Proc => Sees(p)' /\ Persists(p)
    PROVE  OutcomeInv'
<1>1. ASSUME NEW q \in Proc PROVE Sees(q)'
    BY OthersSee DEF OutcomeInv
<1>2. ASSUME NEW a \in Action PROVE Told(a)'
    <2>1. SUFFICES ASSUME starts[a] > 0, a \notin gone', ~due'[a]
                   PROVE  \/ status'[a] \in {"completed", "failed"}
                          \/ status'[a] = "running"
                             /\ \E q \in Proc : Owner(q, a)' /\ pc'[q] \in Works
        BY DEF Told
    <2>2. /\ a \notin gone /\ ~due[a] /\ Told(a)
          /\ status[a] \notin {"new", "pending"} /\ starts[a] # 0
        BY <2>1 DEF Quiet, OutcomeInv, ClaimInv, Record, TypeOK
    <2>3. p \in Proc => ~(pc[p] = "caSet" /\ act[p] = a)
        BY <2>2 DEF ClaimInv, Local, Unowned
    <2>4. CASE status'[a] = status[a]
        <3>1. CASE status[a] = "running"
            <4>1. PICK q \in Proc : Owner(q, a) /\ pc[q] \in Works
                BY <2>1, <2>2, <3>1 DEF Told
            <4>2. CASE q = p
                BY <2>1, <2>4, <3>1, <4>1, <4>2 DEF Persists
            <4>3. CASE q # p
                BY <2>4, <3>1, <4>1, <4>3 DEF Quiet, OthersRest, Owner
            <4> QED
                BY <4>2, <4>3
        <3> QED
            BY <2>1, <2>2, <2>4, <3>1 DEF Told
    <2>5. CASE status'[a] \in {"completed", "failed"}
        BY <2>5
    <2>6. CASE /\ status'[a] = "absent" /\ status[a] = "running"
               /\ \A q \in Proc : ~Owner(q, a)
        BY <2>1, <2>2, <2>6 DEF Told
    <2> QED
        BY <2>1, <2>2, <2>3, <2>4, <2>5, <2>6 DEF Quiet, Rewrite, Live
<1> QED
    BY <1>1, <1>2 DEF OutcomeInv

\* Nothing is asked of a greenlet elsewhere.
LEMMA Elsewhere ==
    ASSUME NEW p \in Proc, OutcomeInv,
           pc'[p] \notin Works \cup {"clRun", "caSet", "clExpire", "reconExpire", "free", "validate"},
           To(p, "upSave")' => mem'[p].claimed
    PROVE  Sees(p)'
BY DEF Sees, Works

\* All that is asked of a step.
Orderly(p) == Quiet(p) /\ (p \in Proc => Sees(p)' /\ Persists(p))

\* Records, deadlines and the dead stay as they are.
Rests == UNCHANGED <<status, due, gone>>

LEMMA Resting == ASSUME NEW p, OthersRest(p), Rests PROVE Quiet(p)
BY DEF Rests, Quiet, Rewrite

\* A step from a place that has no claim to a place of which nothing is asked.
LEMMA Passing ==
    ASSUME OutcomeInv, NEW p \in Proc, Quiet(p), pc[p] \notin Works,
           pc'[p] \notin Works \cup {"clRun", "caSet", "clExpire", "reconExpire", "free", "validate"},
           To(p, "upSave")' => mem'[p].claimed
    PROVE  Orderly(p)
BY Elsewhere DEF Orderly, Persists

-----------------------------------------------------------------------------
(* The steps, group by group. *)

LEMMA RunningOrderly ==
    ASSUME TypeOK, ClaimInv, OutcomeInv, NEW p \in Proc, Running(p)
    PROVE  Orderly(p) /\ starts' = starts
<1> DEFINE Runs == {"ruAppend", "think", "ruDone", "ruTool", "crSet", "crIndex", "crSave", "ruNext"}
<1>1. pc[p] \in Runs /\ UNCHANGED <<due, history>>
    BY DEF Running, RuAppend, Think, RuDone, RuTool, CrSet, CrIndex, CrSave, RuNext, SaveConv,
           redis, history
<1>2. OthersRest(p) /\ pc'[p] \in {"think", "crIndex", "crSave", "release", "getConv"}
      /\ (pc'[p] = "getConv" => mem'[p].ret \in Runs)
    <2>1. ASSUME NEW l \in {"think", "crSave"}, Goto(p, l)
          PROVE OthersRest(p) /\ pc'[p] = l
        BY <2>1, GotoStep
    <2>2. ASSUME NEW l \in Runs, CallGet(p, l)
          PROVE OthersRest(p) /\ pc'[p] = "getConv" /\ mem'[p].ret = l
        BY <2>2, CallGetStep
    <2>3. ASSUME ToRelease(p) PROVE OthersRest(p) /\ pc'[p] = "release"
        BY <2>3, ToReleaseStep
    <2>4. CASE RuAppend(p) \/ Think(p) \/ RuDone(p) \/ RuTool(p) \/ CrIndex(p)
        BY <2>1, <2>2, <2>3, <2>4 DEF RuAppend, Think, RuDone, RuTool, CrIndex
    <2>5. CASE CrSet(p)
        <3>1. CASE CallGet(p, "ruNext")
            BY <2>2, <3>1
        <3>2. CASE /\ \E a \in Action : act' = [act EXCEPT ![p] = a]
                   /\ pc' = [pc EXCEPT ![p] = "crIndex"] /\ UNCHANGED mem
            BY <3>2 DEF OthersRest, TypeOK
        <3> QED
            BY <2>5, <3>1, <3>2 DEF CrSet
    <2>6. CASE CrSave(p)
        BY <2>6 DEF CrSave, OthersRest, TypeOK, Memory
    <2>7. CASE RuNext(p)
        <3>1. CASE NextCall(p)
            <4>1. mem'[p].ret = "ruTool"
                BY <3>1 DEF NextCall, TypeOK, Memory
            <4> QED
                BY <3>1, <4>1 DEF NextCall, OthersRest, TypeOK
        <3>2. CASE NextRound(p)
            BY <3>2 DEF NextRound, OthersRest, TypeOK
        <3> QED
            BY <2>3, <2>7, <3>1, <3>2 DEF RuNext
    <2> QED
        BY <2>4, <2>5, <2>6, <2>7 DEF Running
<1>3. \A a \in Action : status'[a] = status[a] \/ (status[a] = "new" /\ status'[a] = "pending")
    BY DEF Running, RuAppend, Think, RuDone, RuTool, CrSet, CrIndex, CrSave, RuNext, SaveConv,
           redis, TypeOK
<1>4. Quiet(p)
    BY <1>1, <1>2, <1>3 DEF Quiet, Rewrite, history
<1> QED
    BY <1>1, <1>2, <1>4, Passing DEF Works, To, Loads, history

LEMMA DeletingOrderly ==
    ASSUME TypeOK, ClaimInv, OutcomeInv, NEW p \in Proc, Deleting(p)
    PROVE  Orderly(p) /\ starts' = starts
<1>1. /\ pc[p] \in {"deCheck", "deDelete"} /\ pc'[p] \in {"idle", "deDelete"}
      /\ OthersRest(p) /\ starts' = starts
    BY FinishStep, GotoStep DEF Deleting, DeCheck, DeDelete, Finish, history, TypeOK
<1>2. Quiet(p)
    BY <1>1 DEF Deleting, DeCheck, DeDelete, redis, history, Quiet, Rewrite, TypeOK
<1> QED
    BY <1>1, <1>2, Passing DEF Works, To, Loads

LEMMA CancellingOrderly ==
    ASSUME TypeOK, ClaimInv, OutcomeInv, NEW p \in Proc, Cancelling(p)
    PROVE  Orderly(p) /\ starts' = starts
<1>1. pc[p] \in {"caLock", "caGet", "caSet", "caSave"} /\ UNCHANGED <<due, history>>
    BY DEF Cancelling, CaLock, CaGet, CaSet, CaSave, DropPending, SaveConv, SetStatus,
           redis, history
<1>2. ~mem[p].claimed /\ Local(p)
    BY <1>1, Unclaimed DEF Late, To, Loads, ClaimInv
<1>3. /\ OthersRest(p) /\ (mem'[p].claimed => mem[p].claimed)
      /\ pc'[p] \in {"idle", "caGet", "caSet", "free", "getConv"}
      /\ pc'[p] = "getConv" => mem'[p].ret = "caSave"
      /\ pc'[p] = "caSet" => status[act[p]] = "pending" /\ UNCHANGED <<act, status>>
    <2>1. CASE CaLock(p)
        BY <2>1, FinishStep, GotoStep DEF CaLock, KeepsClaim, Aside, Finish, TypeOK
    <2>2. CASE CaGet(p)
        <3>1. UNCHANGED <<act, mem, status>> /\ (Goto(p, "free") \/ Goto(p, "caSet"))
              /\ (Goto(p, "caSet") \/ status[act[p]] # "pending")
            BY <2>2 DEF CaGet, Goto, redis
        <3>2. status[act[p]] # "pending" => Goto(p, "free")
            BY <2>2 DEF CaGet
        <3> QED
            BY <3>1, <3>2, GotoStep
    <2>3. CASE CaSet(p)
        BY <2>3, CallGetStep DEF CaSet, KeepsClaim
    <2>4. CASE CaSave(p)
        BY <2>4, GotoStep DEF CaSave, KeepsClaim
    <2> QED
        BY <2>1, <2>2, <2>3, <2>4 DEF Cancelling
<1>4. \A a \in Action : Rewrite(p, a)
    <2>1. CASE CaSet(p)
        <3>1. status[act[p]] \notin Settled
            BY <2>1 DEF CaSet, OutcomeInv, Sees, Settled
        <3> QED
            BY <2>1, <3>1 DEF CaSet, SetStatus, Rewrite, TypeOK
    <2>2. CASE ~CaSet(p)
        BY <2>2 DEF Cancelling, CaLock, CaGet, CaSave, DropPending, SaveConv, redis, Rewrite
    <2> QED
        BY <2>1, <2>2
<1>5. Quiet(p)
    BY <1>1, <1>3, <1>4 DEF Quiet, history
<1>6. Sees(p)'
    BY <1>2, <1>3 DEF Sees, Works, To, Loads
<1> QED
    BY <1>1, <1>5, <1>6 DEF Orderly, Persists, Works, history

LEMMA LoadingOrderly ==
    ASSUME TypeOK, ClaimInv, OutcomeInv, NEW p \in Proc, Loading(p)
    PROVE  Orderly(p) /\ starts' = starts
<1>0. Local(p) /\ Sees(p) /\ UNCHANGED <<due, history>>
    BY DEF Loading, GetConv, ReconOne, ReconExpire, ReconEnd, ReconSave, Reply, SaveConv,
           redis, history, ClaimInv, OutcomeInv
<1>1. CASE Finish(p) /\ UNCHANGED status
    BY <1>0, <1>1, FinishStep, Resting, Elsewhere
       DEF Finish, TypeOK, Orderly, Persists, Rests, Works, To, Loads, history, Loading, GetConv,
           ReconOne, ReconExpire, ReconEnd, ReconSave, Reply
<1> DEFINE r == mem[p].ret
<1>2. CASE GetConv(p)
    <2>1. pc[p] \in Loads /\ pc[p] \notin Works /\ UNCHANGED status
        BY <1>2 DEF GetConv, Loads, Works, redis
    <2>2. CASE exists
        <3>1. /\ mem'[p].claimed = mem[p].claimed /\ mem'[p].ret = mem[p].ret
              /\ pc'[p] = "recon" /\ OthersRest(p)
            <4> DEFINE m == [mem[p] EXCEPT !.copy = pending, !.todo = pending, !.dirty = FALSE]
            <4>1. mem'[p] = m /\ mem[p] \in Memory
                BY <1>2, <2>2 DEF GetConv, TypeOK
            <4>2. m.claimed = mem[p].claimed /\ m.ret = mem[p].ret
                BY <4>1 DEF Memory
            <4>3. pc'[p] = "recon" /\ OthersRest(p)
                BY <1>2, <2>2 DEF GetConv, TypeOK, OthersRest
            <4> QED
                BY <4>1, <4>2, <4>3
        <3> QED
            BY <1>0, <2>1, <3>1, Resting, Passing DEF Rests, history, Works, To, Loads, Sees
    <2>3. CASE r = "caSave" /\ Goto(p, "free")
        <3>1. OthersRest(p) /\ pc'[p] = "free" /\ mem'[p] = mem[p] /\ ~mem[p].claimed
            BY <1>0, <2>1, <2>3, GotoStep DEF Local, ClaimHeld, To, Loads
        <3> QED
            BY <1>0, <2>1, <3>1, Resting DEF Rests, history, Orderly, Persists, Sees, Works, To, Loads
    <2>4. CASE ToRelease(p)
        <3>1. OthersRest(p) /\ pc'[p] = "release"
            BY <2>4, ToReleaseStep
        <3> QED
            BY <1>0, <2>1, <3>1, Resting, Passing DEF Rests, history, Works, To, Loads
    <2>5. CASE r = "upSave" /\ Decide(p, "failed", "upGet")
        <3>1. OthersRest(p) /\ pc'[p] = "upGet" /\ mem'[p].claimed
            BY <1>0, <2>1, <2>5, DecideStep DEF Sees, To
        <3> QED
            BY <1>0, <2>1, <3>1, Resting DEF Rests, history, Orderly, Persists, Sees, Works, To, Loads
    <2> QED
        BY <1>0, <1>1, <1>2, <2>1, <2>2, <2>3, <2>4, <2>5 DEF GetConv, NotFound, Decide
<1>3. ASSUME NEW a \in Action, ReconOne(p, a) PROVE Orderly(p) /\ starts' = starts
    <2>1. /\ mem'[p].claimed = mem[p].claimed /\ mem'[p].ret = r /\ OthersRest(p)
          /\ pc[p] = "recon" /\ UNCHANGED status
        BY <1>3 DEF ReconOne, TypeOK, Memory, OthersRest
    <2>2. \/ pc'[p] = "recon"
          \/ pc'[p] = "reconExpire" /\ mem'[p].cur = a /\ due[a]
        BY <1>3 DEF ReconOne, TypeOK, Memory
    <2>3. Sees(p)'
        BY <1>0, <2>1, <2>2 DEF Sees, Works, To, Loads, history
    <2> QED
        BY <1>0, <2>1, <2>3, Resting DEF Rests, history, Orderly, Persists, Works
<1>4. CASE ReconExpire(p)
    <2>1. /\ mem'[p].claimed = mem[p].claimed /\ mem'[p].ret = r /\ OthersRest(p)
          /\ pc[p] = "reconExpire" /\ pc'[p] = "recon"
        BY <1>4 DEF ReconExpire, TypeOK, Memory, OthersRest
    <2>2. mem[p].cur \in Action /\ due[mem[p].cur]
        BY <1>0, <2>1 DEF Sees
    <2>3. Quiet(p)
        BY <1>0, <1>4, <2>1, <2>2 DEF ReconExpire, Quiet, Rewrite, TypeOK, history
    <2> QED
        BY <1>0, <2>1, <2>3, Passing DEF Sees, history, Works, To, Loads
<1>5. CASE ReconEnd(p) \/ ReconSave(p)
    <2>1. /\ mem'[p].claimed = mem[p].claimed /\ mem'[p].ret = r /\ OthersRest(p)
          /\ pc[p] \in {"recon", "reconSave"} /\ pc'[p] \in {"reconSave", r} /\ UNCHANGED status
        BY <1>5 DEF ReconEnd, ReconSave, SaveConv, Goto, TypeOK, Memory, OthersRest, redis
    <2>2. r \notin Works \cup {"clRun", "caSet", "clExpire", "reconExpire", "free", "validate"}
        BY DEF TypeOK, Memory, Return, Works
    <2> QED
        BY <1>0, <2>1, <2>2, Resting, Passing DEF Rests, Sees, history, Works, To, Loads
<1> QED
    BY <1>0, <1>1, <1>2, <1>3, <1>4, <1>5 DEF Loading, Reply, redis

LEMMA ApprovingOrderly ==
    ASSUME TypeInv, ClaimInv, OutcomeInv, NEW p \in Proc, Approving(p)
    PROVE  Orderly(p)
<1> USE DEF TypeInv
<1>0. /\ Local(p) /\ Sees(p) /\ UNCHANGED <<due, gone>>
      /\ pc[p] \in {"apGet", "clLock", "clGet", "clExpire", "clRun", "validate",
                    "exec", "upGet", "upSet", "upSave", "evSave"}
    BY DEF Approving, ApGet, ClLock, ClGet, ClExpire, ClRun, Validate, Exec, UpGet, UpSet, UpSave,
           EvSave, DropPending, SaveConv, SetStatus, redis, history, ClaimInv, OutcomeInv
<1>1. CASE ApGet(p) \/ ClLock(p) \/ UpSave(p) \/ EvSave(p)
    <2>1. UNCHANGED status /\ pc[p] \notin Works
        BY <1>1 DEF ApGet, ClLock, UpSave, EvSave, DropPending, SaveConv, redis, Works
    <2>2. /\ OthersRest(p) /\ pc'[p] \in {"idle", "getConv", "clGet", "release"}
          /\ pc'[p] = "getConv" => mem'[p].ret = "runLock"
        BY <1>1, FinishStep, GotoStep, CallGetStep, ToReleaseStep
           DEF ApGet, ClLock, UpSave, EvSave, Finish, TypeOK
    <2> QED
        BY <1>0, <2>1, <2>2, Resting, Passing DEF Rests, Works, To, Loads
<1>2. CASE ClGet(p)
    <2>1. UNCHANGED <<status, mem, act>> /\ OthersRest(p) /\ ~mem[p].claimed
        BY <1>0, <1>2 DEF ClGet, Goto, OthersRest, TypeOK, redis, Local, ClaimHeld, To, Loads
    <2>2. \/ pc'[p] = "free"
          \/ pc'[p] = "clExpire" /\ due[act[p]]
          \/ pc'[p] = "clRun" /\ status[act[p]] = "pending"
        BY <1>2 DEF ClGet, Goto, TypeOK
    <2> QED
        BY <1>0, <1>2, <2>1, <2>2, Resting
           DEF ClGet, Rests, Orderly, Persists, Sees, Works, To, Loads
<1>3. CASE ClExpire(p)
    <2>1. OthersRest(p) /\ pc'[p] = "free" /\ mem'[p] = mem[p] /\ ~mem[p].claimed
        BY <1>0, <1>3, GotoStep DEF ClExpire, Local, ClaimHeld, To, Loads
    <2>2. act[p] \in Action /\ due[act[p]]
        BY <1>0, <1>3 DEF ClExpire, Local, LockHeld, Sees
    <2>3. Quiet(p)
        BY <1>0, <1>3, <2>1, <2>2 DEF ClExpire, SetStatus, Quiet, Rewrite, TypeOK
    <2> QED
        BY <1>3, <2>1, <2>3 DEF ClExpire, Orderly, Persists, Sees, Works, To, Loads
<1>4. CASE ClRun(p)
    <2>1. OthersRest(p) /\ pc'[p] = "free" /\ act'[p] = act[p]
        BY <1>4 DEF ClRun, OthersRest, TypeOK
    <2>2. /\ act[p] \in Action /\ Owner(p, act[p]) /\ starts[act[p]] = 0
          /\ status[act[p]] \notin Settled
        BY <1>0, <1>4 DEF ClRun, Local, LockHeld, Undecided, Fresh, Owner, Sees, Settled
    <2>3. status'[act[p]] = "running" /\ \A a \in Action : a # act[p] => status'[a] = status[a]
        BY <1>4, <2>2 DEF ClRun, SetStatus, TypeOK
    <2>4. Quiet(p)
        BY <1>0, <2>1, <2>2, <2>3 DEF Quiet, Rewrite
    <2> QED
        BY <1>4, <2>1, <2>3, <2>4 DEF ClRun, Orderly, Persists, Sees, Works, To, Loads
<1>5. CASE Validate(p)
    <2>1. UNCHANGED status /\ mem[p].claimed /\ pc[p] = "validate"
        BY <1>0, <1>5 DEF Validate, redis, Local
    <2>2. OthersRest(p) /\ pc'[p] \in Works /\ mem'[p].claimed /\ pc'[p] # "upSet"
        BY <1>5, <2>1, GotoStep, DecideStep DEF Validate, Works
    <2> QED
        BY <1>0, <2>1, <2>2, Resting DEF Rests, Orderly, Persists, Sees, Works, To, Loads
<1>6. CASE Exec(p) \/ UpGet(p)
    <2>1. /\ OthersRest(p) /\ act'[p] = act[p] /\ UNCHANGED status
          /\ mem'[p].claimed = mem[p].claimed /\ mem[p].claimed
          /\ pc'[p] \in {"upGet", "upSet", "release"}
        BY <1>0, <1>6, GotoStep, DecideStep, ToReleaseStep
           DEF Exec, UpGet, KeepsClaim, redis, Sees, Works
    <2>2. /\ pc'[p] = "upSet" => status[act[p]] = "running"
          /\ pc'[p] = "release" => status[act[p]] # "running"
        BY <1>6, GotoStep, DecideStep, ToReleaseStep DEF Exec, UpGet
    <2>3. Sees(p)'
        BY <2>1, <2>2 DEF Sees, Works, To, Loads
    <2>4. Persists(p)
        BY <2>1, <2>2 DEF Persists, Owner, Works
    <2> QED
        BY <1>0, <2>1, <2>3, <2>4, Resting DEF Rests, Orderly
<1>7. CASE UpSet(p)
    <2>1. /\ OthersRest(p) /\ act'[p] = act[p] /\ pc'[p] = "getConv" /\ mem[p].claimed
          /\ mem'[p].claimed /\ mem'[p].ret = "upSave"
        BY <1>0, <1>7, CallGetStep DEF UpSet, KeepsClaim, Sees, Works
    <2>2. /\ act[p] \in Action /\ Owner(p, act[p]) /\ status[act[p]] \notin Settled
          /\ mem[p].outcome \in {"completed", "failed", "rejected"}
          /\ mem[p].outcome = "rejected" => starts[act[p]] = 0
        BY <1>0, <1>7, <2>1
           DEF UpSet, Local, ClaimHeld, Refused, Owner, Sees, Settled, TypeOK, Memory, Outcome
    <2>3. /\ status'[act[p]] = mem[p].outcome
          /\ \A a \in Action : a # act[p] => status'[a] = status[a]
        BY <1>7, <2>2 DEF UpSet, SetStatus, TypeOK
    <2>4. Quiet(p)
        BY <1>0, <2>1, <2>2, <2>3 DEF Quiet, Rewrite
    <2>5. Persists(p)
        BY <2>2, <2>3 DEF Persists, Owner
    <2> QED
        BY <2>1, <2>4, <2>5 DEF Orderly, Sees, Works, To, Loads
<1> QED
    BY <1>1, <1>2, <1>3, <1>4, <1>5, <1>6, <1>7 DEF Approving

LEMMA LockingOrderly ==
    ASSUME TypeOK, ClaimInv, OutcomeInv, NEW p \in Proc, Locking(p)
    PROVE  Orderly(p) /\ starts' = starts
<1>1. /\ UNCHANGED <<status, due, history>> /\ pc[p] \in {"runLock", "free", "release", "relDel"}
      /\ Sees(p)
    BY DEF Locking, RunLock, Free, Release, RelDel, redis, history, OutcomeInv
<1>2. \/ OthersRest(p) /\ pc'[p] \in {"idle", "release", "relDel", "clLock"}
      \/ OthersRest(p) /\ pc'[p] = "getConv" /\ mem'[p].ret # "upSave"
      \/ /\ OthersRest(p) /\ act'[p] = act[p] /\ mem'[p] = mem[p]
         /\ pc[p] = "free" /\ pc'[p] = "validate"
    BY FinishStep, GotoStep, CallGetStep, ToReleaseStep
       DEF Locking, RunLock, Free, Release, RelDel, Finish, KeepsClaim, TypeOK
<1>3. Quiet(p)
    BY <1>1, <1>2, Resting DEF Rests, history
<1>4. CASE pc'[p] # "validate"
    BY <1>1, <1>2, <1>3, <1>4, Passing DEF Works, To, Loads, history
<1>5. CASE pc'[p] = "validate"
    BY <1>1, <1>2, <1>3, <1>5 DEF Orderly, Persists, Sees, Works, To, Loads, history
<1> QED
    BY <1>4, <1>5

LEMMA RequestOrderly ==
    ASSUME TypeOK, ClaimInv, OutcomeInv, NEW p \in Proc, Request(p)
    PROVE  Orderly(p) /\ starts' = starts
<1>1. pc[p] = "idle" /\ UNCHANGED <<redis, history>>
    BY DEF Request, BeginGet, Begin
<1>2. /\ OthersRest(p) /\ pc'[p] \in {"getConv", "apGet", "caLock"}
      /\ pc'[p] = "getConv" => mem'[p].ret # "upSave"
    BY DEF Request, BeginGet, Begin, OthersRest, TypeOK, Memory
<1> QED
    BY <1>1, <1>2, Resting, Passing DEF Rests, redis, history, Works, To, Loads

\* What the dead had claimed is gone.
LEMMA AbandonOrderly ==
    ASSUME TypeOK, ClaimInv, OutcomeInv, NEW p \in Proc, Abandon(p)
    PROVE  Orderly(p) /\ starts' = starts
<1>1. /\ OthersRest(p) /\ pc'[p] = "idle" /\ UNCHANGED <<status, due, starts>>
      /\ gone \subseteq gone' /\ \A a \in Action : Owner(p, a) => a \in gone'
    BY FinishStep DEF Abandon, Finish, TypeOK
<1>2. Quiet(p)
    BY <1>1 DEF Quiet, Rewrite
<1>3. Persists(p)
    BY <1>1 DEF Persists
<1> QED
    BY <1>1, <1>2, <1>3, Elsewhere DEF Orderly, Works, To, Loads

LEMMA LapseOrderly ==
    ASSUME TypeOK, Lapse
    PROVE  Quiet(NoOne) /\ starts' = starts
<1>1. UNCHANGED locals /\ UNCHANGED history /\ \A a \in Action : due[a] => due'[a]
    BY DEF Lapse, RunLockLapse, Deadline, KeyLapse, ActionLockLapse, TypeOK
<1>2. \A a \in Action : Rewrite(NoOne, a)
    BY DEF Lapse, RunLockLapse, Deadline, KeyLapse, ActionLockLapse, Rewrite, Live, TypeOK
<1> QED
    BY <1>1, <1>2 DEF locals, history, Quiet, OthersRest

-----------------------------------------------------------------------------
\* The one step that starts a command: from now on p has its outcome to record.
LEMMA Started ==
    ASSUME TypeOK, ClaimInv, OutcomeInv, NEW p \in Proc, Orderly(p), Validate(p),
           starts' # starts
    PROVE  OutcomeInv'
<1>1. /\ Goto(p, "exec") /\ starts' = [starts EXCEPT ![act[p]] = @ + 1] /\ pc[p] = "validate"
      /\ UNCHANGED <<status, due, gone>>
    BY DEF Validate, redis
<1>2. OthersRest(p) /\ act'[p] = act[p] /\ mem'[p] = mem[p] /\ pc'[p] = "exec"
    BY <1>1, GotoStep DEF KeepsClaim
<1>3. mem[p].claimed /\ Local(p) /\ Sees(p)
    BY <1>1 DEF ClaimInv, OutcomeInv, Local
<1>4. ASSUME NEW q \in Proc PROVE Sees(q)'
    BY OthersSee DEF OutcomeInv, Orderly
<1>5. ASSUME NEW a \in Action PROVE Told(a)'
    <2>1. CASE a = act[p]
        BY <1>1, <1>2, <1>3, <2>1 DEF Told, Sees, Owner, Works
    <2>2. CASE a # act[p]
        <3>1. starts'[a] = starts[a] /\ Told(a)
            BY <1>1, <2>2 DEF OutcomeInv, TypeOK
        <3>2. ASSUME NEW q \in Proc, Owner(q, a), pc[q] \in Works
              PROVE Owner(q, a)' /\ pc'[q] \in Works
            BY <1>1, <1>2, <3>2 DEF OthersRest, Owner, Works
        <3> QED
            BY <1>1, <3>1, <3>2 DEF Told
    <2> QED
        BY <2>1, <2>2
<1> QED
    BY <1>4, <1>5 DEF OutcomeInv

LEMMA AllOrderly ==
    ASSUME TypeInv, ClaimInv, OutcomeInv, NEW p \in Proc, Request(p) \/ Step(p) \/ Abandon(p)
    PROVE  Orderly(p) /\ (starts' = starts \/ Validate(p))
<1> USE DEF TypeInv
<1>1. CASE Approving(p)
    BY <1>1, ApprovingOrderly
       DEF Approving, ApGet, ClLock, ClGet, ClExpire, ClRun, Exec, UpGet, UpSet, UpSave,
           EvSave, DropPending, SaveConv, SetStatus, history
<1> QED
    BY <1>1, RequestOrderly, CancellingOrderly, DeletingOrderly, LoadingOrderly,
       RunningOrderly, LockingOrderly, AbandonOrderly DEF Step

LEMMA OutcomeStep == TypeInv /\ ClaimInv /\ OutcomeInv /\ [Next]_vars => OutcomeInv'
<1> SUFFICES ASSUME TypeInv, ClaimInv, OutcomeInv, [Next]_vars PROVE OutcomeInv'
    OBVIOUS
<1>0. TypeOK
    BY DEF TypeInv
<1>1. CASE UNCHANGED vars
    BY <1>1 DEF vars, redis, locals, history, OutcomeInv, Sees, Told, Works, To, Loads, Owner
<1>2. ASSUME NEW p \in Proc, Request(p) \/ Step(p) \/ Abandon(p) PROVE OutcomeInv'
    <2>1. Orderly(p) /\ (starts' = starts \/ Validate(p))
        BY <1>2, AllOrderly
    <2> QED
        BY <1>0, <2>1, Faithful, Started DEF Orderly
<1>3. CASE Lapse
    BY <1>0, <1>3, LapseOrderly, Faithful, ActionsAssumption
<1> QED
    BY <1>1, <1>2, <1>3 DEF Next

LEMMA OutcomeCorrect == Spec => [](TypeInv /\ ClaimInv /\ OutcomeInv)
BY TypeInit, TypeStep, ClaimInit, ClaimStep, OutcomeInit, OutcomeStep, PTL DEF Spec

-----------------------------------------------------------------------------
\* Once the executor of a started command is through with the record, the record
\* tells that the command ran, unless a deletion, a death or the deadline took it
\* (update_action, _reconcile_pending_actions).
THEOREM OutcomesKept == Spec => []OutcomeKept
<1>1. OutcomeInv => OutcomeKept
    BY DEF OutcomeInv, Told, OutcomeKept
<1> QED
    BY <1>1, OutcomeCorrect, PTL

\* Neither a late update_action nor a late cancel_action replaces the verdict of
\* another: a finished record only expires or is deleted.
THEOREM VerdictsStand == Spec => VerdictStable
<1> DEFINE Stable == \A a \in Action : status[a] \in Finished \ {"expired"}
                                       /\ status'[a] # status[a]
                                       => status'[a] \in {"expired", "absent"}
<1>1. ASSUME TypeInv, ClaimInv, OutcomeInv, [Next]_vars PROVE Stable \/ UNCHANGED vars
    <2>1. CASE UNCHANGED vars
        BY <2>1
    <2>2. ASSUME NEW p, \A a \in Action : Rewrite(p, a) PROVE Stable
        BY <2>2 DEF Rewrite, Finished, Settled
    <2>3. ASSUME NEW p \in Proc, Request(p) \/ Step(p) \/ Abandon(p) PROVE Stable
        BY <1>1, <2>2, <2>3, AllOrderly DEF Orderly, Quiet
    <2>4. CASE Lapse
        BY <1>1, <2>2, <2>4, LapseOrderly DEF Quiet, TypeInv
    <2> QED
        BY <1>1, <2>1, <2>3, <2>4 DEF Next
<1> QED
    BY <1>1, OutcomeCorrect, PTL DEF VerdictStable, Spec

-----------------------------------------------------------------------------
(* The protocol implements ActionOffer. *)

\* An action that is not drawn yet is not indexed and has no deadline.
DrawnInv ==
    /\ \A a \in Action : status[a] = "new" => ~due[a] /\ a \notin index
    /\ \A p \in Proc : pc[p] = "crIndex" => status[act[p]] # "new"

\* What becomes of the claim of p in one of its steps.
Holds(p)  == pc[p] = "clRun" \/ mem[p].claimed
Same(p)   == \/ ~Holds(p) /\ ~Holds(p)'
             \/ act'[p] = act[p] /\ (Holds(p) <=> Holds(p)')
Takes(p)  == /\ pc[p] = "clGet" /\ ~Holds(p) /\ status[act[p]] = "pending"
             /\ pc'[p] = "clRun" /\ act'[p] = act[p] /\ UNCHANGED status
Quits(p)  == ~Holds(p)' /\ UNCHANGED status
Tenure(p) == Same(p) \/ Takes(p) \/ Quits(p)

LEMMA HelpersSame ==
    ASSUME TypeOK, NEW p \in Proc, pc[p] # "clRun"
    PROVE  /\ Finish(p) => ~Holds(p)'
           /\ \A l : l # "clRun" /\ Goto(p, l) => Same(p)
           /\ \A l : CallGet(p, l) => Same(p)
           /\ \A o, l : l # "clRun" /\ Decide(p, o, l) => Same(p)
           /\ ToRelease(p) => Same(p)
<1>1. Finish(p) => ~Holds(p)'
    BY DEF Finish, Blank, Holds, TypeOK
<1>2. ASSUME NEW l, l # "clRun", Goto(p, l) PROVE Same(p)
    BY <1>2, GotoStep DEF Same, Holds, KeepsClaim
<1>3. ASSUME NEW l, CallGet(p, l) PROVE Same(p)
    BY <1>3, CallGetStep DEF Same, Holds, KeepsClaim
<1>4. ASSUME NEW o, NEW l, l # "clRun", Decide(p, o, l) PROVE Same(p)
    BY <1>4, DecideStep DEF Same, Holds
<1>5. ToRelease(p) => Same(p)
    BY ToReleaseStep DEF Same, Holds, KeepsClaim
<1> QED
    BY <1>1, <1>2, <1>3, <1>4, <1>5

LEMMA RunningTenure ==
    ASSUME TypeOK, ClaimInv, NEW p \in Proc, Running(p) PROVE Tenure(p)
<1>1. ~Holds(p)
    <2>1. pc[p] \in {"ruAppend", "think", "ruDone", "ruTool", "crSet", "crIndex", "crSave", "ruNext"}
        BY DEF Running, RuAppend, Think, RuDone, RuTool, CrSet, CrIndex, CrSave, RuNext
    <2> QED
        BY <2>1, Unclaimed DEF Late, To, Loads, Holds
<1>2. CASE RuAppend(p) \/ Think(p) \/ RuDone(p) \/ RuTool(p) \/ CrIndex(p)
    BY <1>1, <1>2, HelpersSame DEF RuAppend, Think, RuDone, RuTool, CrIndex, Tenure, Holds
<1>3. CASE CrSet(p)
    <2>1. CASE CallGet(p, "ruNext")
        BY <1>1, <2>1, HelpersSame DEF Tenure, Holds
    <2>2. CASE ~CallGet(p, "ruNext")
        BY <1>1, <1>3, <2>2 DEF CrSet, Tenure, Same, Holds, TypeOK
    <2> QED
        BY <2>1, <2>2
<1>4. CASE CrSave(p)
    BY <1>1, <1>4 DEF CrSave, Tenure, Same, Holds, TypeOK, Memory
<1>5. CASE RuNext(p)
    <2>1. CASE NextCall(p)
        <3>1. mem'[p].claimed = mem[p].claimed /\ pc'[p] = "getConv"
            BY <2>1 DEF NextCall, TypeOK, Memory
        <3> QED
            BY <1>1, <3>1 DEF Tenure, Same, Holds
    <2>2. CASE NextRound(p)
        <3>1. mem'[p].claimed = mem[p].claimed /\ pc'[p] = "think"
            BY <2>2 DEF NextRound, TypeOK, Memory
        <3> QED
            BY <1>1, <3>1 DEF Tenure, Same, Holds
    <2>3. CASE ToRelease(p)
        BY <1>1, <2>3, HelpersSame DEF Tenure, Holds
    <2> QED
        BY <1>5, <2>1, <2>2, <2>3 DEF RuNext
<1> QED
    BY <1>2, <1>3, <1>4, <1>5 DEF Running

LEMMA LoadingTenure ==
    ASSUME TypeOK, ClaimInv, NEW p \in Proc, Loading(p) PROVE Tenure(p)
<1>1. CASE Finish(p)
    <2>1. UNCHANGED status /\ pc[p] # "clRun"
        BY <1>1 DEF Loading, GetConv, ReconOne, ReconExpire, ReconEnd, ReconSave, Reply, SaveConv,
                    redis, Finish, TypeOK
    <2> QED
        BY <1>1, <2>1, HelpersSame DEF Tenure, Quits
<1>2. CASE GetConv(p) /\ exists
    <2> DEFINE m == [mem[p] EXCEPT !.copy = pending, !.todo = pending, !.dirty = FALSE]
    <2>1. mem'[p] = m /\ mem[p] \in Memory /\ pc[p] = "getConv" /\ pc'[p] = "recon" /\ act' = act
        BY <1>2 DEF GetConv, TypeOK
    <2>2. m.claimed = mem[p].claimed
        BY <2>1 DEF Memory
    <2> QED
        BY <2>1, <2>2 DEF Tenure, Same, Holds
<1>3. CASE GetConv(p) /\ NotFound(p)
    <2>1. Finish(p) \/ Goto(p, "free") \/ ToRelease(p) \/ Decide(p, "failed", "upGet")
        BY <1>3 DEF NotFound, Decide
    <2> QED
        BY <1>1, <1>3, <2>1, HelpersSame DEF GetConv, Tenure
<1>4. ASSUME NEW a \in Action, ReconOne(p, a) PROVE Tenure(p)
    <2>1. mem'[p].claimed = mem[p].claimed
        BY <1>4 DEF ReconOne, TypeOK, Memory
    <2>2. pc[p] = "recon" /\ pc'[p] \in {"recon", "reconExpire"} /\ act' = act
        BY <1>4 DEF ReconOne, TypeOK
    <2> QED
        BY <2>1, <2>2 DEF Tenure, Same, Holds
<1>5. CASE ReconExpire(p) \/ ReconEnd(p)
    <2>1. mem'[p].claimed = mem[p].claimed
        BY <1>5 DEF ReconExpire, ReconEnd, TypeOK, Memory
    <2>2. mem[p].ret # "clRun"
        BY DEF TypeOK, Memory, Return
    <2>3. pc[p] # "clRun" /\ pc'[p] # "clRun" /\ act' = act
        BY <1>5, <2>2 DEF ReconExpire, ReconEnd, TypeOK
    <2> QED
        BY <2>1, <2>3 DEF Tenure, Same, Holds
<1>6. CASE ReconSave(p)
    <2>1. mem[p].ret # "clRun"
        BY DEF TypeOK, Memory, Return
    <2> QED
        BY <1>6, <2>1, HelpersSame DEF ReconSave, Tenure
<1> QED
    BY <1>1, <1>2, <1>3, <1>4, <1>5, <1>6 DEF Loading, GetConv, Reply

LEMMA ApprovingTenure ==
    ASSUME TypeOK, ClaimInv, NEW p \in Proc, Approving(p) PROVE Tenure(p)
<1>1. CASE ApGet(p) \/ EvSave(p)
    BY <1>1, HelpersSame DEF ApGet, EvSave, SaveConv, redis, Tenure, Quits
<1>2. CASE ClLock(p) \/ ClExpire(p) \/ Validate(p) \/ Exec(p) \/ UpGet(p) \/ UpSet(p) \/ UpSave(p)
    BY <1>2, HelpersSame
       DEF ClLock, ClExpire, Validate, Exec, UpGet, UpSet, UpSave, DropPending, Tenure
<1>3. CASE ClGet(p)
    <2>1. UNCHANGED <<status, mem, act>> /\ pc[p] = "clGet" /\ ~mem[p].claimed
        BY <1>3, Unclaimed DEF ClGet, Goto, redis, Late, To, Loads
    <2>2. pc'[p] # "clRun" \/ (pc'[p] = "clRun" /\ status[act[p]] = "pending")
        BY <1>3 DEF ClGet, Goto, TypeOK
    <2> QED
        BY <2>1, <2>2 DEF Tenure, Same, Takes, Holds
<1>4. CASE ClRun(p)
    <2>1. pc[p] = "clRun" /\ mem'[p].claimed /\ act' = act
        BY <1>4 DEF ClRun, TypeOK, Memory
    <2> QED
        BY <2>1 DEF Tenure, Same, Holds
<1> QED
    BY <1>1, <1>2, <1>3, <1>4 DEF Approving

LEMMA StepTenure ==
    ASSUME TypeOK, ClaimInv, NEW p \in Proc, Request(p) \/ Step(p) \/ Abandon(p)
    PROVE  Tenure(p)
<1>1. CASE Request(p)
    <2>1. pc[p] = "idle" /\ ~Holds(p)
        BY <1>1, Unclaimed DEF Request, BeginGet, Begin, Late, To, Loads, Holds
    <2>2. pc'[p] # "clRun" /\ mem'[p].claimed = mem[p].claimed
        <3>1. ASSUME NEW k, NEW l, BeginGet(p, k, l)
              PROVE pc'[p] # "clRun" /\ mem'[p].claimed = mem[p].claimed
            BY <3>1 DEF BeginGet, TypeOK, Memory
        <3>2. ASSUME NEW k, NEW a, NEW l, l # "clRun", Begin(p, k, a, l)
              PROVE pc'[p] # "clRun" /\ mem'[p].claimed = mem[p].claimed
            BY <3>2 DEF Begin, TypeOK, Memory
        <3> QED
            BY <1>1, <3>1, <3>2 DEF Request
    <2> QED
        BY <2>1, <2>2 DEF Tenure, Same, Holds
<1>2. CASE Deleting(p) \/ Cancelling(p)
    <2>1. pc[p] \in {"deCheck", "deDelete", "caLock", "caGet", "caSet", "caSave"}
        BY <1>2 DEF Deleting, DeCheck, DeDelete, Cancelling, CaLock, CaGet, CaSet, CaSave, DropPending
    <2>2. ~Holds(p)
        BY <2>1, Unclaimed DEF Late, To, Loads, Holds
    <2>3. Finish(p) \/ (\E l \in {"deDelete", "caGet", "caSet", "free"} : Goto(p, l))
          \/ CallGet(p, "caSave")
        BY <1>2 DEF Deleting, DeCheck, DeDelete, Cancelling, CaLock, CaGet, CaSet, CaSave, DropPending
    <2> QED
        BY <2>1, <2>2, <2>3, HelpersSame DEF Tenure, Same
<1>3. CASE Locking(p)
    <2>1. pc[p] # "clRun" /\ UNCHANGED status
        BY <1>3 DEF Locking, RunLock, Free, Release, RelDel, redis
    <2>2. \/ Finish(p) \/ ToRelease(p) \/ \E l : CallGet(p, l)
          \/ \E l \in {"clLock", "validate", "relDel"} : Goto(p, l)
        BY <1>3 DEF Locking, RunLock, Free, Release, RelDel
    <2> QED
        BY <2>1, <2>2, HelpersSame DEF Tenure, Quits
<1>4. CASE Abandon(p)
    BY <1>4, FinishStep DEF Abandon, Finish, Blank, TypeOK, Tenure, Quits, Holds
<1> QED
    BY <1>1, <1>2, <1>3, <1>4, RunningTenure, LoadingTenure, ApprovingTenure DEF Step

-----------------------------------------------------------------------------
\* Only create_action makes a record pending.
LEMMA NoneOpened ==
    ASSUME TypeOK, NEW p \in Proc, Request(p) \/ Step(p) \/ Abandon(p), ~CrSet(p), NEW a \in Action,
           status'[a] = "pending"
    PROVE  status[a] = "pending"
<1>1. CASE Request(p) \/ Abandon(p)
    BY <1>1 DEF Request, BeginGet, Begin, Abandon, redis
<1>2. CASE Approving(p)
    BY <1>2 DEF Approving, ApGet, ClLock, ClGet, ClExpire, ClRun, Validate, Exec, UpGet, UpSet,
                UpSave, EvSave, DropPending, SaveConv, SetStatus, redis, TypeOK, Memory, Outcome
<1>3. CASE Cancelling(p) \/ Deleting(p) \/ Locking(p)
    BY <1>3 DEF Cancelling, CaLock, CaGet, CaSet, CaSave, Deleting, DeCheck, DeDelete, Locking,
                RunLock, Free, Release, RelDel, DropPending, SaveConv, SetStatus, redis, TypeOK
<1>4. CASE Loading(p) \/ Running(p)
    BY <1>4 DEF Loading, GetConv, ReconOne, ReconExpire, ReconEnd, ReconSave, Reply, Running,
                RuAppend, Think, RuDone, RuTool, CrIndex, CrSave, RuNext, SaveConv, redis, TypeOK
<1> QED
    BY <1>1, <1>2, <1>3, <1>4 DEF Step

\* Only create_action indexes an action, and time passes only for pending ones.
LEMMA Filed ==
    ASSUME TypeOK, NEW p \in Proc, Request(p) \/ Step(p) \/ Abandon(p)
    PROVE  /\ due' = due
           /\ \A a \in index' : a \in index \/ (pc[p] = "crIndex" /\ a = act[p])
<1>1. CASE Request(p) \/ Abandon(p)
    BY <1>1 DEF Request, BeginGet, Begin, Abandon, redis
<1>2. CASE Approving(p)
    BY <1>2 DEF Approving, ApGet, ClLock, ClGet, ClExpire, ClRun, Validate, Exec, UpGet, UpSet,
                UpSave, EvSave, DropPending, SaveConv, SetStatus, redis
<1>3. CASE Cancelling(p) \/ Deleting(p) \/ Locking(p)
    BY <1>3 DEF Cancelling, CaLock, CaGet, CaSet, CaSave, Deleting, DeCheck, DeDelete, Locking,
                RunLock, Free, Release, RelDel, DropPending, SaveConv, SetStatus, redis
<1>4. CASE Loading(p) \/ Running(p)
    BY <1>4 DEF Loading, GetConv, ReconOne, ReconExpire, ReconEnd, ReconSave, Reply, Running,
                RuAppend, Think, RuDone, RuTool, CrSet, CrIndex, CrSave, RuNext, SaveConv, redis
<1> QED
    BY <1>1, <1>2, <1>3, <1>4 DEF Step

\* An action is about to be indexed only when it has just been drawn.
LEMMA Drawing ==
    ASSUME TypeOK, NEW p \in Proc, Request(p) \/ Step(p) \/ Abandon(p), pc'[p] = "crIndex"
    PROVE  CrSet(p) /\ status'[act'[p]] = "pending"
<1> USE DEF TypeOK, Finish, Goto, CallGet, ToRelease, Decide
<1>1. ~(Request(p) \/ Abandon(p))
    BY DEF Request, BeginGet, Begin, Abandon
<1>2. ~Approving(p)
    BY DEF Approving, ApGet, ClLock, ClGet, ClExpire, ClRun, Validate, Exec, UpGet, UpSet,
           UpSave, EvSave
<1>3. ~(Cancelling(p) \/ Deleting(p) \/ Locking(p))
    BY DEF Cancelling, CaLock, CaGet, CaSet, CaSave, Deleting, DeCheck, DeDelete, Locking,
           RunLock, Free, Release, RelDel
<1>4. ~Loading(p)
    <2>1. mem[p].ret # "crIndex"
        BY DEF Memory, Return
    <2> QED
        BY <2>1 DEF Loading, GetConv, NotFound, ReconOne, ReconExpire, ReconEnd, ReconSave, Reply
<1>5. CrSet(p)
    BY <1>1, <1>2, <1>3, <1>4
       DEF Step, Running, RuAppend, Think, RuDone, RuTool, CrIndex, CrSave, RuNext, NextCall, NextRound
<1> QED
    BY <1>5 DEF CrSet

LEMMA DrawnStep == TypeInv /\ ClaimInv /\ OutcomeInv /\ DrawnInv /\ [Next]_vars => DrawnInv'
<1> SUFFICES ASSUME TypeInv, ClaimInv, OutcomeInv, DrawnInv, [Next]_vars PROVE DrawnInv'
    OBVIOUS
<1>0. TypeOK
    BY DEF TypeInv
<1>1. CASE UNCHANGED vars
    BY <1>1 DEF vars, redis, locals, DrawnInv
<1>2. ASSUME NEW p, OthersRest(p), \A a \in Action : Rewrite(p, a),
             \A a \in Action : due'[a] => due[a] \/ status[a] = "pending",
             \A a \in index' : a \in index \/ (p \in Proc /\ pc[p] = "crIndex" /\ a = act[p]),
             p \in Proc /\ pc'[p] = "crIndex" => status'[act'[p]] = "pending"
      PROVE DrawnInv'
    <2>1. \A a \in Action : status'[a] = "new" => status[a] = "new"
        BY <1>2 DEF Rewrite
    <2>2. ASSUME NEW q \in Proc, pc'[q] = "crIndex" PROVE status'[act'[q]] # "new"
        <3>1. CASE q # p
            <4>1. act[q] \in Action /\ act'[q] = act[q] /\ pc[q] = "crIndex"
                BY <1>2, <2>2, <3>1 DEF OthersRest, TypeInv
            <4> QED
                BY <2>1, <4>1 DEF DrawnInv
        <3> QED
            BY <1>2, <2>2, <3>1
    <2> QED
        BY <1>0, <1>2, <2>1, <2>2 DEF DrawnInv, TypeOK
<1>3. ASSUME NEW p \in Proc, Request(p) \/ Step(p) \/ Abandon(p) PROVE DrawnInv'
    <2>1. Orderly(p)
        BY <1>3, AllOrderly
    <2> QED
        BY <1>0, <1>2, <1>3, <2>1, Filed, Drawing DEF Orderly, Quiet
<1>4. CASE Lapse
    <2>1. Quiet(NoOne)
        BY <1>0, <1>4, LapseOrderly
    <2>2. index' = index /\ \A a \in Action : due'[a] => due[a] \/ status[a] = "pending"
        BY <1>0, <1>4 DEF Lapse, RunLockLapse, Deadline, KeyLapse, ActionLockLapse, TypeOK
    <2> QED
        BY <1>2, <2>1, <2>2, ActionsAssumption DEF Quiet
<1> QED
    BY <1>1, <1>3, <1>4 DEF Next

-----------------------------------------------------------------------------
(* What a step means to the offers. *)

Owned(a) == \E q \in Proc : Owner(q, a)

\* The offer of an action, by its record and its owner.
LEMMA OfferIs ==
    ASSUME NEW a \in Action
    PROVE  /\ OfferOf(a) = IF status[a] = "new" THEN "none" ELSE IF Owned(a) THEN "taken"
                           ELSE IF status[a] = "pending" THEN "open" ELSE "closed"
           /\ OfferOf(a)' = IF status'[a] = "new" THEN "none" ELSE IF Owned(a)' THEN "taken"
                            ELSE IF status'[a] = "pending" THEN "open" ELSE "closed"
BY DEF OfferOf, Owned, Owner

\* A claimed action, or one about to be, is drawn, and while it is on offer nothing ran.
LEMMA OwnedDrawn ==
    ASSUME ClaimInv, OutcomeInv, NEW a \in Action, Owned(a) PROVE status[a] # "new"
BY DEF Owned, Owner, ClaimInv, OutcomeInv, Local, ClaimHeld, Sees

\* Offers are closed, or nothing happens to them.
LEMMA OffersClose ==
    ASSUME starts' = starts,
           \A a \in Action : \/ OfferOf(a)' = OfferOf(a)
                             \/ OfferOf(a) = "open" /\ OfferOf(a)' = "closed"
    PROVE  Offer!Next
<1> DEFINE A == {a \in Action : OfferOf(a) = "open" /\ OfferOf(a)' = "closed"}
<1>1. Offer!Withdraw(A)
    BY DEF Offer!Withdraw
<1> QED
    BY <1>1 DEF Offer!Next

LEMMA OfferMoves ==
    ASSUME starts' = starts, NEW a \in Action,
           \A b \in Action : b # a => OfferOf(b)' = OfferOf(b)
    PROVE  Offer!Move(a, OfferOf(a), OfferOf(a)')
BY DEF Offer!Move

\* No step but create_action opens a record, and none but the ends of a claim
\* changes who owns an action.
LEMMA OwnersStay ==
    ASSUME ClaimInv, OutcomeInv, DrawnInv, NEW p, \A a \in Action : Rewrite(p, a),
           \A a \in Action : status'[a] = "pending" => status[a] = "pending",
           \A a \in Action : Owned(a)' <=> Owned(a),
           \A a \in Action : status'[a] = "absent" /\ status[a] # "absent" => status[a] # "new",
           starts' = starts
    PROVE  Offer!Next
<1>1. ASSUME NEW a \in Action
      PROVE  \/ OfferOf(a)' = OfferOf(a)
             \/ OfferOf(a) = "open" /\ OfferOf(a)' = "closed"
    <2>1. status'[a] = status[a] \/ (status[a] # "new" /\ status'[a] \notin {"new", "pending"})
        <3>1. CASE status[a] = "new"
            <4>1. ~due[a] /\ ~Owned(a)
                BY <3>1, OwnedDrawn DEF DrawnInv
            <4>2. p \in Proc => ~(pc[p] = "caSet" /\ act[p] = a)
                BY <3>1 DEF OutcomeInv, Sees
            <4> QED
                BY <3>1, <4>1, <4>2 DEF Rewrite, Live, Owned
        <3>2. CASE status[a] # "new"
            BY <3>2 DEF Rewrite
        <3> QED
            BY <3>1, <3>2
    <2>2. Owned(a) => status[a] # "new"
        BY OwnedDrawn
    <2> QED
        BY <2>1, <2>2, OfferIs
<1> QED
    BY <1>1, OffersClose

\* Only drawn actions are indexed, and so deleted.
LEMMA OnlyDrawnVanish ==
    ASSUME TypeOK, DrawnInv, OutcomeInv, ClaimInv, NEW p \in Proc,
           Request(p) \/ Step(p) \/ Abandon(p), NEW a \in Action,
           status'[a] = "absent", status[a] = "new"
    PROVE  FALSE
<1>1. a \notin index
    BY DEF DrawnInv
<1>2. CASE Request(p) \/ Abandon(p)
    BY <1>2 DEF Request, BeginGet, Begin, Abandon, redis
<1>3. CASE Approving(p)
    BY <1>3 DEF Approving, ApGet, ClLock, ClGet, ClExpire, ClRun, Validate, Exec, UpGet, UpSet,
                UpSave, EvSave, DropPending, SaveConv, SetStatus, redis, TypeOK, Memory, Outcome
<1>4. CASE Cancelling(p) \/ Deleting(p) \/ Locking(p)
    BY <1>1, <1>4 DEF Cancelling, CaLock, CaGet, CaSet, CaSave, Deleting, DeCheck, DeDelete, Locking,
                RunLock, Free, Release, RelDel, DropPending, SaveConv, SetStatus, redis, TypeOK
<1>5. CASE Loading(p) \/ Running(p)
    BY <1>5 DEF Loading, GetConv, ReconOne, ReconExpire, ReconEnd, ReconSave, Reply, Running,
                RuAppend, Think, RuDone, RuTool, CrSet, CrIndex, CrSave, RuNext, SaveConv, redis, TypeOK
<1> QED
    BY <1>2, <1>3, <1>4, <1>5 DEF Step

\* A step of p that leaves its claim alone changes no owner.
LEMMA SameOwners ==
    ASSUME NEW p \in Proc, OthersRest(p), Same(p), NEW a \in Action
    PROVE  Owned(a)' <=> Owned(a)
<1>1. ASSUME NEW q \in Proc PROVE Owner(q, a)' <=> Owner(q, a)
    BY DEF OthersRest, Same, Holds, Owner
<1> QED
    BY <1>1 DEF Owned

LEMMA CreatingOffers ==
    ASSUME TypeInv, ClaimInv, OutcomeInv, NEW p \in Proc, CrSet(p)
    PROVE  Offer!Next
<1> USE DEF TypeInv
<1>1. OthersRest(p) /\ Running(p) /\ starts' = starts
    BY RunningOrderly DEF Running, Orderly, Quiet
<1>2. Same(p)
    <2>1. ~Takes(p) /\ ~mem[p].claimed /\ pc[p] = "crSet"
        BY Unclaimed DEF CrSet, Takes, Late, To, Loads
    <2> QED
        BY <1>1, <2>1, RunningTenure DEF Tenure, Quits, Same, Holds
<1>3. \A a \in Action : Owned(a)' <=> Owned(a)
    BY <1>1, <1>2, SameOwners
<1>4. CASE UNCHANGED status
    BY <1>1, <1>3, <1>4, OffersClose, OfferIs
<1>5. ASSUME NEW a \in Action, status[a] = "new", status' = [status EXCEPT ![a] = "pending"]
      PROVE Offer!Next
    <2>1. ~Owned(a)
        BY <1>5, OwnedDrawn
    <2>2. OfferOf(a) = "none" /\ OfferOf(a)' = "open"
        BY <1>3, <1>5, <2>1, OfferIs DEF TypeOK
    <2>3. \A b \in Action : b # a => OfferOf(b)' = OfferOf(b)
        BY <1>3, <1>5, OfferIs DEF TypeOK
    <2> QED
        BY <1>1, <2>2, <2>3, OfferMoves DEF Offer!Propose, Offer!Next
<1> QED
    BY <1>4, <1>5 DEF CrSet

\* A claim is taken on a pending record that nobody owns.
LEMMA TakingOffers ==
    ASSUME TypeOK, ClaimInv, NEW p \in Proc, OthersRest(p), Takes(p), starts' = starts
    PROVE  Offer!Next
<1>1. act[p] \in Action /\ actionLock[act[p]] = p
    BY DEF Takes, ClaimInv, Local, LockHeld
<1>2. SUFFICES ASSUME NEW a \in Action, a = act[p] PROVE Offer!Next
    BY <1>1
<1>3. ~Owned(a)
    <2>1. ASSUME NEW q \in Proc PROVE ~Owner(q, a)
        BY <1>1, <1>2 DEF ClaimInv, Local, LockHeld, ClaimHeld, Owner, Takes
    <2> QED
        BY <2>1 DEF Owned
<1>4. Owned(a)'
    <2>1. Owner(p, a)'
        BY <1>2 DEF Takes, Owner
    <2> QED
        BY <2>1 DEF Owned
<1>5. OfferOf(a) = "open" /\ OfferOf(a)' = "taken"
    BY <1>2, <1>3, <1>4, OfferIs DEF Takes
<1>6. ASSUME NEW b \in Action, b # a PROVE OfferOf(b)' = OfferOf(b)
    <2>1. \A q \in Proc : Owner(q, b)' <=> Owner(q, b)
        BY <1>2, <1>6 DEF OthersRest, Takes, Holds, Owner
    <2>2. Owned(b)' <=> Owned(b)
        BY <2>1 DEF Owned
    <2> QED
        BY <2>2, OfferIs DEF Takes
<1> QED
    BY <1>5, <1>6, OfferMoves DEF Offer!Take, Offer!Next

\* A claim ends: the offer is settled, or, if the greenlet died too early, open again.
LEMMA QuittingOffers ==
    ASSUME TypeOK, ClaimInv, OutcomeInv, NEW p \in Proc, OthersRest(p), Quits(p), starts' = starts
    PROVE  Offer!Next
<1>1. \A q \in Proc \ {p}, a \in Action : Owner(q, a)' <=> Owner(q, a)
    BY DEF OthersRest, Owner
<1>2. \A a \in Action : ~Owner(p, a)'
    BY DEF Quits, Holds, Owner
<1>3. ASSUME NEW a \in Action, Owner(p, a) PROVE Offer!Next
    <2>1. Owned(a) /\ status[a] # "new"
        BY <1>3, OwnedDrawn DEF Owned
    <2>2. ~Owned(a)'
        BY <1>1, <1>2, <1>3 DEF ClaimInv, Exclusive, Owned
    <2>3. ASSUME NEW b \in Action, b # a PROVE OfferOf(b)' = OfferOf(b)
        <3>1. ~Owner(p, b)
            BY <1>3, <2>3 DEF Owner
        <3>2. \A q \in Proc : Owner(q, b)' <=> Owner(q, b)
            BY <1>1, <1>2, <3>1
        <3>3. Owned(b)' <=> Owned(b)
            BY <3>2 DEF Owned
        <3> QED
            BY <3>3, OfferIs DEF Quits
    <2>4. OfferOf(a) = "taken"
        BY <2>1, OfferIs
    <2>5. CASE status[a] = "pending"
        <3>1. OfferOf(a)' = "open" /\ ~(starts[a] > 0)
            BY <2>2, <2>5, OfferIs DEF Quits, ClaimInv, Record
        <3> QED
            BY <2>3, <2>4, <3>1, OfferMoves DEF Offer!GiveBack, Offer!Next
    <2>6. CASE status[a] # "pending"
        <3>1. OfferOf(a)' = "closed"
            BY <2>1, <2>2, <2>6, OfferIs DEF Quits
        <3> QED
            BY <2>3, <2>4, <3>1, OfferMoves DEF Offer!Settle, Offer!Next
    <2> QED
        BY <2>5, <2>6
<1>4. CASE \A a \in Action : ~Owner(p, a)
    <2>1. \A a \in Action, q \in Proc : Owner(q, a)' <=> Owner(q, a)
        BY <1>1, <1>2, <1>4
    <2>2. \A a \in Action : Owned(a)' <=> Owned(a)
        BY <2>1 DEF Owned
    <2>3. \A a \in Action : OfferOf(a)' = OfferOf(a)
        BY <2>2, OfferIs DEF Quits
    <2> QED
        BY <2>3, OffersClose
<1> QED
    BY <1>3, <1>4

\* The command is handed to the executor while its offer is taken.
LEMMA RunningOffers ==
    ASSUME TypeOK, ClaimInv, OutcomeInv, NEW p \in Proc, Validate(p), starts' # starts
    PROVE  Offer!Next
<1>1. /\ Goto(p, "exec") /\ pc[p] = "validate" /\ UNCHANGED status
      /\ starts' = [starts EXCEPT ![act[p]] = @ + 1]
    BY DEF Validate, redis
<1>2. /\ mem[p].claimed /\ act[p] \in Action /\ starts[act[p]] = 0
    BY <1>1 DEF ClaimInv, Local, ClaimHeld, Undecided, Fresh
<1>3. Same(p) /\ OthersRest(p)
    BY <1>1, HelpersSame, GotoStep
<1>4. \A a \in Action : OfferOf(a)' = OfferOf(a)
    BY <1>1, <1>3, SameOwners, OfferIs
<1>5. OfferOf(act[p]) = "taken"
    <2>1. Owned(act[p])
        BY <1>2 DEF Owned, Owner
    <2> QED
        BY <1>2, <2>1, OwnedDrawn, OfferIs
<1>6. {a \in Action : starts'[a] > 0} = {a \in Action : starts[a] > 0} \cup {act[p]}
    BY <1>1, <1>2 DEF TypeOK
<1>7. ASSUME NEW a \in Action, a = act[p] PROVE Offer!Next
    <2>1. Offer!Run(a)
        BY <1>2, <1>4, <1>5, <1>6, <1>7 DEF Offer!Run
    <2> QED
        BY <2>1 DEF Offer!Next
<1> QED
    BY <1>2, <1>7

LEMMA OfferStep ==
    TypeInv /\ ClaimInv /\ OutcomeInv /\ DrawnInv /\ [Next]_vars => [Offer!Next]_(Offer!vars)
<1> SUFFICES ASSUME TypeInv, ClaimInv, OutcomeInv, DrawnInv, [Next]_vars
             PROVE  [Offer!Next]_(Offer!vars)
    OBVIOUS
<1>0. TypeOK
    BY DEF TypeInv
<1>1. CASE UNCHANGED vars
    <2>1. \A a \in Action : Owned(a)' <=> Owned(a)
        BY <1>1 DEF vars, locals, Owned, Owner
    <2>2. \A a \in Action : OfferOf(a)' = OfferOf(a)
        BY <1>1, <2>1, OfferIs DEF vars, redis
    <2> QED
        BY <1>1, <2>2, OffersClose DEF vars, history
<1>2. ASSUME NEW p \in Proc, Request(p) \/ Step(p) \/ Abandon(p) PROVE Offer!Next
    <2>1. Orderly(p) /\ (starts' = starts \/ Validate(p)) /\ OthersRest(p)
        BY <1>2, AllOrderly DEF Orderly, Quiet
    <2>2. CASE CrSet(p)
        BY <2>2, CreatingOffers
    <2>3. CASE starts' # starts
        BY <1>0, <2>1, <2>3, RunningOffers
    <2>4. CASE ~CrSet(p) /\ starts' = starts
        <3>1. Tenure(p)
            BY <1>0, <1>2, StepTenure
        <3>2. CASE Same(p)
            <4>1. \A a \in Action : Rewrite(p, a) /\ (Owned(a)' <=> Owned(a))
                BY <2>1, <3>2, SameOwners DEF Orderly, Quiet
            <4>2. \A a \in Action : status'[a] = "pending" => status[a] = "pending"
                BY <1>0, <1>2, <2>4, NoneOpened
            <4>3. \A a \in Action : status'[a] = "absent" => status[a] # "new"
                BY <1>0, <1>2, OnlyDrawnVanish
            <4> QED
                BY <2>4, <4>1, <4>2, <4>3, OwnersStay
        <3> QED
            BY <1>0, <2>1, <2>4, <3>1, <3>2, TakingOffers, QuittingOffers DEF Tenure
    <2> QED
        BY <2>2, <2>3, <2>4
<1>3. CASE Lapse
    <2>1. Quiet(NoOne) /\ starts' = starts
        BY <1>0, <1>3, LapseOrderly
    <2>2. /\ \A a \in Action : status'[a] = "pending" => status[a] = "pending"
          /\ \A a \in Action : status'[a] = "absent" /\ status[a] # "absent" => status[a] # "new"
          /\ UNCHANGED locals
        BY <1>0, <1>3 DEF Lapse, RunLockLapse, Deadline, KeyLapse, ActionLockLapse, TypeOK
    <2>3. \A a \in Action : Owned(a)' <=> Owned(a)
        BY <2>2 DEF Owned, Owner, locals
    <2> QED
        BY <2>1, <2>2, <2>3, OwnersStay DEF Quiet
<1> QED
    BY <1>1, <1>2, <1>3 DEF Next

LEMMA OfferInit == Init => DrawnInv /\ Offer!Init
BY ActionsAssumption, OfferIs DEF Init, DrawnInv, Offer!Init

\* The Redis protocol does what approving promises, whatever dies or lapses
\* (claim_action, cancel_action, update_action, delete_conversation).
THEOREM OfferKept == Spec => KeepsOffer
<1>1. Spec => []DrawnInv
    BY OutcomeCorrect, OfferInit, DrawnStep, PTL DEF Spec
<1> QED
    BY <1>1, OutcomeCorrect, OfferInit, OfferStep, PTL DEF Spec, KeepsOffer, Offer!Spec
====
