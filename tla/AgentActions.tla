----------------------------- MODULE AgentActions -----------------------------
(***************************************************************************)
(* Approval of batch commands proposed by the AI agent: the Redis state of *)
(* one conversation (ai/storage.py), the approval service (ai/actions.py)  *)
(* and the chat run that proposes actions (ai/runner.py).                  *)
(*                                                                         *)
(* Every request is a gevent greenlet that yields at each Redis call, so a *)
(* step is one Redis call together with the local computation after it.    *)
(* Nothing is transactional: a conversation is read, changed in memory and *)
(* written back whole.  Calls are merged only where the merge hides no     *)
(* interleaving; each such place says so.                                  *)
(***************************************************************************)
EXTENDS Integers, FiniteSets

CONSTANTS
    Proc,       \* greenlets serving requests on the conversation
    Action,     \* action ids that uuid4 may draw
    NoAction,   \* "no action" in a local variable
    NoOne,      \* a Redis lock key that does not exist
    Lost,       \* the token of a holder that died without releasing
    Kinds,      \* the kinds of requests that arrive
    Overrun,    \* those that may outlive the TTL of their run lock
    MaxSteps,   \* AgentRunner.max_steps
    MaxCalls    \* tool calls in one answer of the provider (a bound; the code has none)

ASSUME ActionsAssumption ==
    /\ NoAction \notin Action
    /\ NoOne \notin Proc /\ Lost \notin Proc /\ NoOne # Lost
    /\ Kinds \subseteq {"read", "approve", "cancel", "delete", "run"}
    /\ Overrun \subseteq Kinds \cap {"approve", "run"}
    /\ MaxSteps \in Nat \ {0}
    /\ MaxCalls \in Nat \ {0}

VARIABLES
    exists,      \* ai:conversation:<owner>:<id> is present
    pending,     \* its pending_action_ids
    index,       \* ai:conversation-actions
    results,     \* the asset result set the actions refer to is present
    status,      \* ai:action:<id>: its status, "new" (not drawn) or "absent"
    due,         \* expires_at <= now()
    actionLock,  \* ai:action-lock:<id>
    runLock,     \* ai:run-lock
    pc,          \* where each greenlet is
    act,         \* the action a request is about
    mem,         \* the rest of each greenlet's memory
    starts,      \* how often the batch executor was started for an action
    gone         \* actions that a deletion or a dying greenlet left behind

redis   == <<exists, pending, index, results, status, due, actionLock, runLock>>
locals  == <<pc, act, mem>>
history == <<starts, gone>>
vars    == <<redis, locals, history>>

Live     == {"pending", "running"}
Finished == {"completed", "failed", "rejected", "expired", "cancelled"}
Status   == Live \cup Finished \cup {"new", "absent"}

Kind     == {"none", "read", "approve", "cancel", "delete", "run"}
Outcome  == {"none", "completed", "failed", "rejected"}

\* The points at which get_conversation returns to its caller.
Return == {"reply", "runLock", "caSave", "deCheck", "upSave", "evSave",
           "ruAppend", "ruTool", "crSet", "ruNext", "ruDone"}

Label == Return \cup
         {"idle", "getConv", "recon", "reconExpire", "reconSave",
          "apGet", "clLock", "clGet", "clExpire", "clRun", "free", "validate",
          "exec", "upGet", "upSet", "release", "relDel", "caLock",
          "caGet", "caSet", "deDelete", "think", "crIndex", "crSave"}

Memory == [kind : Kind, ret : Return, copy : SUBSET Action,
           todo : SUBSET Action, dirty : BOOLEAN, cur : Action \cup {NoAction},
           outcome : Outcome, claimed : BOOLEAN, prepared : BOOLEAN,
           round : 0..(MaxSteps - 1), calls : 0..(MaxCalls - 1)]

Blank == [kind |-> "none", ret |-> "reply", copy |-> {}, todo |-> {},
          dirty |-> FALSE, cur |-> NoAction, outcome |-> "none",
          claimed |-> FALSE, prepared |-> FALSE, round |-> 0, calls |-> 0]

TypeOK ==
    /\ exists \in BOOLEAN
    /\ pending \in SUBSET Action
    /\ index \in SUBSET Action
    /\ results \in BOOLEAN
    /\ status \in [Action -> Status]
    /\ due \in [Action -> BOOLEAN]
    /\ actionLock \in [Action -> Proc \cup {NoOne, Lost}]
    /\ runLock \in Proc \cup {NoOne, Lost}
    /\ pc \in [Proc -> Label]
    /\ act \in [Proc -> Action \cup {NoAction}]
    /\ mem \in [Proc -> Memory]
    /\ starts \in [Action -> Nat]
    /\ gone \in SUBSET Action

\* A conversation created earlier, in which a query already stored a result set.
Init ==
    /\ exists = TRUE
    /\ pending = {}
    /\ index = {}
    /\ results = TRUE
    /\ status = [a \in Action |-> "new"]
    /\ due = [a \in Action |-> FALSE]
    /\ actionLock = [a \in Action |-> NoOne]
    /\ runLock = NoOne
    /\ pc = [p \in Proc |-> "idle"]
    /\ act = [p \in Proc |-> NoAction]
    /\ mem = [p \in Proc |-> Blank]
    /\ starts = [a \in Action |-> 0]
    /\ gone = {}

-----------------------------------------------------------------------------
(* Control flow of a greenlet. *)

Goto(p, l) ==
    /\ pc' = [pc EXCEPT ![p] = l]
    /\ UNCHANGED <<act, mem>>

\* Call get_conversation and continue at l.
CallGet(p, l) ==
    /\ pc' = [pc EXCEPT ![p] = "getConv"]
    /\ mem' = [mem EXCEPT ![p].ret = l]
    /\ UNCHANGED act

\* On to the finally clause that releases the run lock.
ToRelease(p) ==
    /\ pc' = [pc EXCEPT ![p] = "release"]
    /\ mem' = [mem EXCEPT ![p] = [@ EXCEPT !.copy = {}, !.prepared = FALSE, !.round = 0,
                                         !.calls = 0]]
    /\ UNCHANGED act

\* The request is answered; its greenlet ends.
Finish(p) ==
    /\ pc' = [pc EXCEPT ![p] = "idle"]
    /\ act' = [act EXCEPT ![p] = NoAction]
    /\ mem' = [mem EXCEPT ![p] = Blank]

Begin(p, k, a, l) ==
    /\ k \in Kinds
    /\ pc[p] = "idle"
    /\ pc' = [pc EXCEPT ![p] = l]
    /\ act' = [act EXCEPT ![p] = a]
    /\ mem' = [mem EXCEPT ![p].kind = k]
    /\ UNCHANGED <<redis, history>>

BeginGet(p, k, l) ==
    /\ k \in Kinds
    /\ pc[p] = "idle"
    /\ pc' = [pc EXCEPT ![p] = "getConv"]
    /\ mem' = [mem EXCEPT ![p] = [@ EXCEPT !.kind = k, !.ret = l]]
    /\ UNCHANGED <<act, redis, history>>

Known == {a \in Action : status[a] # "new"}

\* GET conversation or the conversation list (get_conversation alone), DELETE
\* conversation, POST chat, POST actions/approve and POST actions/cancel.
Request(p) ==
    \/ BeginGet(p, "read", "reply")
    \/ BeginGet(p, "delete", "deCheck")
    \/ BeginGet(p, "run", "runLock")
    \/ \E a \in Known : Begin(p, "approve", a, "apGet")
    \/ \E a \in Known : Begin(p, "cancel", a, "caLock")

-----------------------------------------------------------------------------
(* AgentStore.get_conversation and _reconcile_pending_actions. *)

\* AgentStoreNotFound, by the place it is raised at.  In approve the handlers
\* try update_action once more when "completed" could not be recorded.
NotFound(p) ==
    LET l == mem[p].ret IN
    \/ l \in {"reply", "deCheck", "evSave"} /\ Finish(p)
    \/ l = "runLock" /\ Finish(p)
    \/ l = "caSave" /\ Goto(p, "free")
    \/ l \in {"ruAppend", "ruTool", "crSet", "ruNext", "ruDone"} /\ ToRelease(p)
    \/ /\ l = "upSave" /\ mem[p].outcome = "completed"
       /\ pc' = [pc EXCEPT ![p] = "upGet"]
       /\ mem' = [mem EXCEPT ![p].outcome = "failed"]
       /\ UNCHANGED act
    \/ l = "upSave" /\ mem[p].outcome # "completed" /\ ToRelease(p)

GetConv(p) ==
    /\ pc[p] = "getConv"
    /\ \/ ~exists /\ NotFound(p)
       \/ /\ exists
          /\ pc' = [pc EXCEPT ![p] = "recon"]
          /\ mem' = [mem EXCEPT ![p] = [@ EXCEPT !.copy = pending, !.todo = pending,
                                                 !.dirty = FALSE]]
          /\ UNCHANGED act
    /\ UNCHANGED <<redis, history>>

\* One pending id: GET the action; a live one is kept, a finished or missing one
\* is dropped (a missing one also leaves the index), and a pending one whose
\* deadline has passed is about to be written back as expired.
ReconOne(p, a) ==
    /\ pc[p] = "recon"
    /\ a \in mem[p].todo
    /\ LET overdue == status[a] = "pending" /\ due[a]
           keep    == status[a] \in Live /\ ~overdue
           m       == mem[p] IN
       /\ mem' = [mem EXCEPT ![p] = [m EXCEPT !.todo = m.todo \ {a},
                                              !.copy = IF keep THEN m.copy ELSE m.copy \ {a},
                                              !.dirty = m.dirty \/ ~keep,
                                              !.cur = IF overdue THEN a ELSE NoAction]]
       /\ pc' = [pc EXCEPT ![p] = IF overdue THEN "reconExpire" ELSE "recon"]
    /\ index' = IF status[a] = "absent" THEN index \ {a} ELSE index
    /\ UNCHANGED <<act, exists, pending, results, status, due, actionLock, runLock, history>>

\* _save_action of the copy read above.  It takes no action lock.
ReconExpire(p) ==
    /\ pc[p] = "reconExpire"
    /\ status' = [status EXCEPT ![mem[p].cur] = "expired"]
    /\ pc' = [pc EXCEPT ![p] = "recon"]
    /\ mem' = [mem EXCEPT ![p].cur = NoAction]
    /\ UNCHANGED <<act, exists, pending, index, results, due, actionLock, runLock, history>>

ReconEnd(p) ==
    /\ pc[p] = "recon"
    /\ mem[p].todo = {}
    /\ pc' = [pc EXCEPT ![p] = IF mem[p].dirty THEN "reconSave" ELSE mem[p].ret]
    /\ mem' = [mem EXCEPT ![p].dirty = FALSE]
    /\ UNCHANGED act
    /\ UNCHANGED <<redis, history>>

\* _save_conversation: SET without checking that the key still exists.
SaveConv(ids) ==
    /\ exists' = TRUE
    /\ pending' = ids
    /\ UNCHANGED <<index, results, status, due, actionLock, runLock, history>>

ReconSave(p) ==
    /\ pc[p] = "reconSave"
    /\ SaveConv(mem[p].copy)
    /\ Goto(p, mem[p].ret)

Reply(p) ==
    /\ pc[p] = "reply"
    /\ Finish(p)
    /\ UNCHANGED <<redis, history>>

-----------------------------------------------------------------------------
(* ActionService.approve, AgentStore.claim_action and update_action. *)

\* get_action, then acquire_run_lock, which first loads the conversation.
ApGet(p) ==
    /\ pc[p] = "apGet"
    /\ IF status[act[p]] = "absent" THEN Finish(p) ELSE CallGet(p, "runLock")
    /\ UNCHANGED <<redis, history>>

\* Slip: an approval overwrites the run lock of a chat run.
RunLockTaken(p) ==
    /\ pc[p] = "runLock"
    /\ \/ mem[p].kind = "run" /\ runLock # NoOne /\ Finish(p) /\ UNCHANGED runLock
       \/ /\ mem[p].kind = "approve" \/ runLock = NoOne
          /\ runLock' = p
          /\ IF mem[p].kind = "approve" THEN Goto(p, "clLock") ELSE CallGet(p, "ruAppend")
    /\ UNCHANGED <<exists, pending, index, results, status, due, actionLock, history>>

\* SET NX of the run lock, for approve and for a chat run: "conversation is
\* already running" ends the request.
RunLock(p) ==
    /\ pc[p] = "runLock"
    /\ \/ runLock # NoOne /\ Finish(p) /\ UNCHANGED runLock
       \/ /\ runLock = NoOne
          /\ runLock' = p
          /\ IF mem[p].kind = "approve" THEN Goto(p, "clLock") ELSE CallGet(p, "ruAppend")
    /\ UNCHANGED <<exists, pending, index, results, status, due, actionLock, history>>

\* Slip: SET without NX.
ClLockOver(p) ==
    /\ pc[p] = "clLock"
    /\ actionLock' = [actionLock EXCEPT ![act[p]] = p]
    /\ Goto(p, "clGet")
    /\ UNCHANGED <<exists, pending, index, results, status, due, runLock, history>>

\* claim_action: SET NX of the action lock.
ClLock(p) ==
    /\ pc[p] = "clLock"
    /\ \/ actionLock[act[p]] # NoOne /\ ToRelease(p) /\ UNCHANGED actionLock
       \/ /\ actionLock[act[p]] = NoOne
          /\ actionLock' = [actionLock EXCEPT ![act[p]] = p]
          /\ Goto(p, "clGet")
    /\ UNCHANGED <<exists, pending, index, results, status, due, runLock, history>>

\* claim_action: GET the action, check that it is pending and in time.
ClGet(p) ==
    /\ pc[p] = "clGet"
    /\ Goto(p, CASE status[act[p]] # "pending" -> "free"
                 [] status[act[p]] = "pending" /\ due[act[p]] -> "clExpire"
                 [] OTHER -> "clRun")
    /\ UNCHANGED <<redis, history>>

SetStatus(a, s) ==
    /\ status' = [status EXCEPT ![a] = s]
    /\ UNCHANGED <<exists, pending, index, results, due, actionLock, runLock, history>>

ClExpire(p) ==
    /\ pc[p] = "clExpire"
    /\ SetStatus(act[p], "expired")
    /\ Goto(p, "free")

ClRun(p) ==
    /\ pc[p] = "clRun"
    /\ SetStatus(act[p], "running")
    /\ pc' = [pc EXCEPT ![p] = "free"]
    /\ mem' = [mem EXCEPT ![p].claimed = TRUE]
    /\ UNCHANGED act

\* The finally clause of claim_action and cancel_action: delete the action lock
\* if it still holds this request's token.  The lock outlives the few calls it
\* protects (30 s), so the compare and the delete are one step.
Free(p) ==
    /\ pc[p] = "free"
    /\ actionLock' = IF actionLock[act[p]] = p
                       THEN [actionLock EXCEPT ![act[p]] = NoOne] ELSE actionLock
    /\ \/ mem[p].kind = "cancel" /\ Finish(p)
       \/ mem[p].kind = "approve" /\ ~mem[p].claimed /\ ToRelease(p)
       \/ mem[p].kind = "approve" /\ mem[p].claimed /\ Goto(p, "validate")
    /\ UNCHANGED <<exists, pending, index, results, status, due, runLock, history>>

Decide(p, o, l) ==
    /\ pc' = [pc EXCEPT ![p] = l]
    /\ mem' = [mem EXCEPT ![p].outcome = o]
    /\ UNCHANGED act

\* Revalidation after the claim.  A missing result set is an AgentStoreNotFound,
\* so "failed"; a changed permission or a dangerous command is "rejected"; any
\* other error is "failed"; otherwise the batch executor is started.
Validate(p) ==
    /\ pc[p] = "validate"
    /\ \/ Decide(p, "failed", "upGet") /\ UNCHANGED starts
       \/ results /\ Decide(p, "rejected", "upGet") /\ UNCHANGED starts
       \/ /\ results
          /\ Goto(p, "exec")
          /\ starts' = [starts EXCEPT ![act[p]] = @ + 1]
    /\ UNCHANGED <<redis, gone>>

\* The executor returns or raises.  Its progress callback refreshes the TTL of
\* the action, which is why a running record does not lapse meanwhile.
Exec(p) ==
    /\ pc[p] = "exec"
    /\ \E o \in {"completed", "failed"} : Decide(p, o, "upGet")
    /\ UNCHANGED <<redis, history>>

\* update_action: GET; a missing record or a status other than "running" raises.
\* Raised while recording "completed" it is caught once and "failed" is tried.
UpGet(p) ==
    /\ pc[p] = "upGet"
    /\ \/ status[act[p]] = "running" /\ Goto(p, "upSet")
       \/ status[act[p]] # "running" /\ mem[p].outcome = "completed"
            /\ Decide(p, "failed", "upGet")
       \/ status[act[p]] # "running" /\ mem[p].outcome # "completed"
            /\ ToRelease(p)
    /\ UNCHANGED <<redis, history>>

\* Slip: a failed execution goes back on offer.
UpSetRetry(p) ==
    /\ pc[p] = "upSet"
    /\ SetStatus(act[p], IF mem[p].outcome = "failed" THEN "pending" ELSE mem[p].outcome)
    /\ CallGet(p, "upSave")

UpSet(p) ==
    /\ pc[p] = "upSet"
    /\ SetStatus(act[p], mem[p].outcome)
    /\ CallGet(p, "upSave")

\* save_conversation without the finished id, for update_action and cancel_action.
DropPending(p, l) ==
    /\ pc[p] = l
    /\ SaveConv(mem[p].copy \ {act[p]})

UpSave(p) == DropPending(p, "upSave") /\ ToRelease(p)

\* Slip: the finally clause forgets the run lock.
ReleaseNothing(p) ==
    /\ pc[p] = "release"
    /\ Finish(p)
    /\ UNCHANGED <<redis, history>>

\* release_run_lock: GET, compare, and in a later call DELETE.
Release(p) ==
    /\ pc[p] = "release"
    /\ \/ runLock = p /\ Goto(p, "relDel")
       \/ runLock # p /\ Finish(p)
    /\ UNCHANGED <<redis, history>>

\* After a recorded success the SSE generator of the approval appends an event
\* to the conversation, unless its client has gone away.
RelDel(p) ==
    /\ pc[p] = "relDel"
    /\ runLock' = NoOne
    /\ \/ mem[p].outcome = "completed" /\ CallGet(p, "evSave")
       \/ Finish(p)
    /\ UNCHANGED <<exists, pending, index, results, status, due, actionLock, history>>

EvSave(p) ==
    /\ pc[p] = "evSave"
    /\ SaveConv(mem[p].copy)
    /\ Finish(p)

-----------------------------------------------------------------------------
(* AgentStore.cancel_action.  It takes the action lock, never the run lock, and
   does not look at the deadline. *)

CaLock(p) ==
    /\ pc[p] = "caLock"
    /\ \/ actionLock[act[p]] # NoOne /\ Finish(p) /\ UNCHANGED actionLock
       \/ /\ actionLock[act[p]] = NoOne
          /\ actionLock' = [actionLock EXCEPT ![act[p]] = p]
          /\ Goto(p, "caGet")
    /\ UNCHANGED <<exists, pending, index, results, status, due, runLock, history>>

\* Slip: cancel whatever the record says.
CaGetAny(p) ==
    /\ pc[p] = "caGet"
    /\ Goto(p, IF status[act[p]] # "absent" THEN "caSet" ELSE "free")
    /\ UNCHANGED <<redis, history>>

CaGet(p) ==
    /\ pc[p] = "caGet"
    /\ Goto(p, IF status[act[p]] = "pending" THEN "caSet" ELSE "free")
    /\ UNCHANGED <<redis, history>>

CaSet(p) ==
    /\ pc[p] = "caSet"
    /\ SetStatus(act[p], "cancelled")
    /\ CallGet(p, "caSave")

CaSave(p) == DropPending(p, "caSave") /\ Goto(p, "free")

-----------------------------------------------------------------------------
(* AgentStore.delete_conversation.  It takes no lock. *)

\* Look at every action of the index; a running one refuses the deletion.  The
\* reads are merged: the gap that matters is the one before the DEL.
DeCheck(p) ==
    /\ pc[p] = "deCheck"
    /\ IF \E a \in index : status[a] = "running" THEN Finish(p) ELSE Goto(p, "deDelete")
    /\ UNCHANGED <<redis, history>>

\* One DEL of the results, the indexed actions, both indexes and the conversation.
DeDelete(p) ==
    /\ pc[p] = "deDelete"
    /\ exists' = FALSE
    /\ pending' = {}
    /\ index' = {}
    /\ results' = FALSE
    /\ status' = [a \in Action |-> IF a \in index THEN "absent" ELSE status[a]]
    /\ gone' = gone \cup index
    /\ Finish(p)
    /\ UNCHANGED <<due, actionLock, runLock, starts>>

-----------------------------------------------------------------------------
(* AgentRunner.run and the tools that touch the conversation.  Its append_message
   and append_event calls each load and save the conversation; consecutive ones
   are one pair here.  An answer with several tool calls is taken call by call. *)

RuAppend(p) ==
    /\ pc[p] = "ruAppend"
    /\ SaveConv(mem[p].copy)
    /\ Goto(p, "think")

\* The provider call.  It fails, or its client goes away, and the run ends; or
\* it returns and the conversation loaded before the call is saved, whatever
\* has happened to it meanwhile; then the run fails (input budget), answers, or
\* goes on to a tool call.
Think(p) ==
    /\ pc[p] = "think"
    /\ \/ ToRelease(p) /\ UNCHANGED <<redis, history>>
       \/ /\ SaveConv(mem[p].copy)
          /\ \/ ToRelease(p)
             \/ CallGet(p, "ruDone")
             \/ CallGet(p, "ruTool")

RuDone(p) ==
    /\ pc[p] = "ruDone"
    /\ SaveConv(mem[p].copy)
    /\ ToRelease(p)

\* The assistant message is saved, then a tool runs: a query stores a result
\* set, prepare_batch_command goes to create_action (once per round), anything
\* else, and any refusal, leaves the store alone.
RuTool(p) ==
    /\ pc[p] = "ruTool"
    /\ exists' = TRUE
    /\ pending' = mem[p].copy
    /\ \/ results' = TRUE /\ CallGet(p, "ruNext")
       \/ UNCHANGED results /\ CallGet(p, "ruNext")
       \/ UNCHANGED results /\ ~mem[p].prepared /\ CallGet(p, "crSet")
    /\ UNCHANGED <<index, status, due, actionLock, runLock, history>>

\* create_action: refused while an id is pending or without its result set;
\* otherwise SET of a fresh action.  Running out of ids counts as a refusal.
CrSet(p) ==
    /\ pc[p] = "crSet"
    /\ LET fresh == {a \in Action : status[a] = "new"}
           allowed == mem[p].copy = {} /\ results /\ fresh # {} IN
       \/ ~allowed /\ CallGet(p, "ruNext") /\ UNCHANGED status
       \/ /\ allowed
          /\ \E a \in fresh : /\ status' = [status EXCEPT ![a] = "pending"]
                              /\ act' = [act EXCEPT ![p] = a]
          /\ pc' = [pc EXCEPT ![p] = "crIndex"]
          /\ UNCHANGED mem
    /\ UNCHANGED <<exists, pending, index, results, due, actionLock, runLock, history>>

CrIndex(p) ==
    /\ pc[p] = "crIndex"
    /\ index' = index \cup {act[p]}
    /\ Goto(p, "crSave")
    /\ UNCHANGED <<exists, pending, results, status, due, actionLock, runLock, history>>

CrSave(p) ==
    /\ pc[p] = "crSave"
    /\ SaveConv(mem[p].copy \cup {act[p]})
    /\ pc' = [pc EXCEPT ![p] = "getConv"]
    /\ mem' = [mem EXCEPT ![p] = [@ EXCEPT !.ret = "ruNext", !.prepared = TRUE]]
    /\ UNCHANGED act

\* On to the next tool call of the same answer.
NextCall(p) ==
    /\ pc' = [pc EXCEPT ![p] = "getConv"]
    /\ mem' = [mem EXCEPT ![p] = [mem[p] EXCEPT !.ret = "ruTool", !.calls = @ + 1]]
    /\ UNCHANGED act

\* On to the next call of the provider.
NextRound(p) ==
    /\ pc' = [pc EXCEPT ![p] = "think"]
    /\ mem' = [mem EXCEPT ![p] = [mem[p] EXCEPT !.round = @ + 1, !.calls = 0]]
    /\ UNCHANGED act

\* Slip: one step more than max_steps.
RuNextMore(p) ==
    /\ pc[p] = "ruNext"
    /\ SaveConv(mem[p].copy)
    /\ \/ mem[p].prepared /\ ToRelease(p)
       \/ ~mem[p].prepared /\ NextRound(p)

\* Slip: a round of tool calls is not counted as a step.
RuNextUncounted(p) ==
    /\ pc[p] = "ruNext"
    /\ SaveConv(mem[p].copy)
    /\ \/ mem[p].prepared /\ ToRelease(p)
       \/ ~mem[p].prepared /\ Goto(p, "think")

\* The tool message is saved.  After the last call of the answer, a prepared
\* action ends the run ("approval.required"), and so does the last round.
RuNext(p) ==
    /\ pc[p] = "ruNext"
    /\ SaveConv(mem[p].copy)
    /\ \/ mem[p].calls + 1 < MaxCalls /\ NextCall(p)
       \/ (mem[p].prepared \/ mem[p].round + 1 = MaxSteps) /\ ToRelease(p)
       \/ ~mem[p].prepared /\ mem[p].round + 1 < MaxSteps /\ NextRound(p)

-----------------------------------------------------------------------------
(* Time, Redis expiry and failures. *)

\* Process p has claimed action a or is committed to doing so.
Owner(p, a) == act[p] = a /\ (pc[p] = "clRun" \/ mem[p].claimed)

\* The ten minutes of a pending action pass.
Deadline(a) ==
    /\ status[a] = "pending" /\ ~due[a]
    /\ due' = [due EXCEPT ![a] = TRUE]
    /\ UNCHANGED <<exists, pending, index, results, status, actionLock, runLock, locals, history>>

\* Slip: the executor's progress does not refresh the record.
KeyLapseUntouched(a) ==
    /\ status[a] = "running" \/ (status[a] = "pending" /\ due[a])
    /\ status' = [status EXCEPT ![a] = "absent"]
    /\ UNCHANGED <<exists, pending, index, results, due, actionLock, runLock, locals, history>>

\* Slip: a claimed record is written without a TTL.
KeyLapsePending(a) ==
    /\ status[a] = "pending" /\ due[a]
    /\ status' = [status EXCEPT ![a] = "absent"]
    /\ UNCHANGED <<exists, pending, index, results, due, actionLock, runLock, locals, history>>

\* The key of a pending action lapses after its deadline; that of a running one
\* when nobody has touched it for the execution TTL.  Finished actions and the
\* conversation itself are kept for 7 days, beyond the behaviours modelled.
KeyLapse(a) ==
    /\ \/ status[a] = "pending" /\ due[a]
       \/ status[a] = "running" /\ \A p \in Proc : ~Owner(p, a)
    /\ status' = [status EXCEPT ![a] = "absent"]
    /\ UNCHANGED <<exists, pending, index, results, due, actionLock, runLock, locals, history>>

\* A run lock lapses after its TTL: one left by a dead holder, or one whose
\* holder's kind of request may take longer than the TTL it asked for.
RunLockLapse ==
    /\ \/ runLock = Lost
       \/ runLock \in Proc /\ mem[runLock].kind \in Overrun
    /\ runLock' = NoOne
    /\ UNCHANGED <<exists, pending, index, results, status, due, actionLock, locals, history>>

ActionLockLapse(a) ==
    /\ actionLock[a] = Lost
    /\ actionLock' = [actionLock EXCEPT ![a] = NoOne]
    /\ UNCHANGED <<exists, pending, index, results, status, due, runLock, locals, history>>

\* The greenlet dies where it stands: the worker is restarted, or Redis stays
\* unreachable for the rest of the request.  Its locks keep their tokens.
Abandon(p) ==
    /\ pc[p] # "idle"
    /\ runLock' = IF runLock = p THEN Lost ELSE runLock
    /\ actionLock' = [a \in Action |-> IF actionLock[a] = p THEN Lost ELSE actionLock[a]]
    /\ gone' = gone \cup {a \in Action : Owner(p, a) \/ (act[p] = a /\ pc[p] \in {"crIndex", "crSave"})}
    /\ Finish(p)
    /\ UNCHANGED <<exists, pending, index, results, status, due, starts>>

-----------------------------------------------------------------------------
Approving(p) == ApGet(p) \/ ClLock(p) \/ ClGet(p) \/ ClExpire(p) \/ ClRun(p)
                \/ Validate(p) \/ Exec(p) \/ UpGet(p) \/ UpSet(p) \/ UpSave(p) \/ EvSave(p)
Cancelling(p) == CaLock(p) \/ CaGet(p) \/ CaSet(p) \/ CaSave(p)
Deleting(p) == DeCheck(p) \/ DeDelete(p)
Loading(p) == GetConv(p) \/ (\E a \in Action : ReconOne(p, a)) \/ ReconExpire(p)
              \/ ReconEnd(p) \/ ReconSave(p) \/ Reply(p)
Running(p) == RuAppend(p) \/ Think(p) \/ RuDone(p) \/ RuTool(p) \/ CrSet(p)
              \/ CrIndex(p) \/ CrSave(p) \/ RuNext(p)
Locking(p) == RunLock(p) \/ Free(p) \/ Release(p) \/ RelDel(p)

Step(p) == Approving(p) \/ Cancelling(p) \/ Deleting(p) \/ Loading(p)
           \/ Running(p) \/ Locking(p)

Lapse == \/ RunLockLapse
         \/ \E a \in Action : Deadline(a) \/ KeyLapse(a) \/ ActionLockLapse(a)

Next == \/ \E p \in Proc : Request(p) \/ Step(p) \/ Abandon(p)
        \/ Lapse

Spec == Init /\ [][Next]_vars

\* Greenlets keep being scheduled (every provider, SSH and Redis call has a
\* timeout), and time passes.  Nobody has to send a request or to fail.
Fairness ==
    /\ \A p \in Proc : WF_vars(Step(p))
    /\ \A a \in Action : WF_vars(Deadline(a)) /\ WF_vars(KeyLapse(a))
                         /\ WF_vars(ActionLockLapse(a))
    /\ WF_vars(runLock = Lost /\ RunLockLapse)

FairSpec == Spec /\ Fairness

-----------------------------------------------------------------------------
(* What the approval protocol promises. *)

\* An approved command is handed to the batch executor at most once, however
\* approvals, chat runs, deletions and restarts interleave, and even when a run
\* lock has lapsed: only a claim that read "pending" under the action lock leads
\* to the executor, and nothing makes a record pending again (claim_action).
AtMostOnce == \A a \in Action : starts[a] <= 1

\* A record that says "cancelled" or "rejected" belongs to a command that was
\* never handed to the executor: cancel_action excludes a claim in progress, and
\* a rejection comes from the one claimer, before it starts anything.
WithdrawnNeverRan ==
    \A a \in Action : status[a] \in {"cancelled", "rejected"} => starts[a] = 0

\* Once the executor of a started command is through with the record, the record
\* tells that the command ran, unless a deletion of the conversation or the death
\* of the greenlet took it, or the deadline passed and a reader that had seen
\* "pending" wrote "expired" over it (update_action, _reconcile_pending_actions).
OutcomeKept ==
    \A a \in Action :
        /\ starts[a] > 0
        /\ \A p \in Proc : ~Owner(p, a)
        => \/ status[a] \in {"completed", "failed"}
           \/ a \in gone
           \/ due[a]

\* A chat run or an approval between taking and releasing the run lock.
InRun(p) ==
    /\ mem[p].kind \in {"approve", "run"}
    /\ pc[p] \notin {"idle", "apGet", "runLock", "evSave"}
    /\ ~(pc[p] \in {"getConv", "recon", "reconExpire", "reconSave"}
         /\ mem[p].ret \in {"runLock", "evSave"})

\* At most one chat run or approval of a conversation is under way: the second
\* SET NX fails, and release_run_lock never frees another request's lock.
OneRun == \A p, q \in Proc : InRun(p) /\ InRun(q) => p = q

\* A finished action is never put back to life, and its verdict changes only by
\* the unlocked write of "expired" or by that write being overwritten: neither a
\* late update_action nor a late cancel_action replaces another verdict.
VerdictStable ==
    [][\A a \in Action :
          status[a] \in Finished \ {"expired"} /\ status'[a] # status[a]
          => status'[a] \in {"expired", "absent"}]_vars

\* The offer behind a record.  It is taken from the moment a claim has decided
\* to write "running" until that greenlet ends, whatever a reader writes over the
\* record meanwhile.
OfferOf(a) ==
    IF status[a] = "new" THEN "none"
    ELSE IF \E p \in Proc : Owner(p, a) THEN "taken"
    ELSE IF status[a] = "pending" THEN "open" ELSE "closed"

Offer == INSTANCE ActionOffer WITH
             offer <- [a \in Action |-> OfferOf(a)],
             ran <- {a \in Action : starts[a] > 0}

\* The Redis protocol keeps the promise of ActionOffer.
KeepsOffer == Offer!Spec

\* What the documentation says and the code does not keep.

\* "A conversation that still has a pending action refuses to be deleted."
DeletionRefused ==
    [][exists /\ ~exists' => \A a \in pending : status[a] # "pending"]_vars

\* "Cancelled, rejected, expired: the action was not executed."
ExpiredNeverRan == \A a \in Action : status[a] = "expired" => starts[a] = 0

\* Every request is answered, also when others hold the locks it needs.
RequestsEnd == \A p \in Proc : pc[p] # "idle" ~> pc[p] = "idle"

\* The conversation never stays locked: a dead holder's lock lapses.
LockReturns == (runLock # NoOne) ~> (runLock = NoOne)

\* No action stays pending or running for ever, whoever abandons it.
ActionsSettle == \A a \in Action : (status[a] \in Live) ~> (status[a] \notin Live)

=============================================================================
