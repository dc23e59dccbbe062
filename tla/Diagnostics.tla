------------------------------ MODULE Diagnostics ------------------------------
(***************************************************************************)
(* One read-only diagnostic run (ai/diagnostics.py): the runner, which sends *)
(* a profile's probes to the targets through the SSH adapter, stores the     *)
(* evidence, and writes a report and a verdict; and the requests that cancel *)
(* the run meanwhile.  They share one row of MySQL, its events and its       *)
(* report.                                                                   *)
(*                                                                           *)
(* A step is one committed transaction, or one read, with the local work     *)
(* after it.  update_run and append_event lock the row of the run (SELECT    *)
(* FOR UPDATE).  update_run writes the named columns only, so it is one      *)
(* step; append_event computes from what it read, so its read and its commit *)
(* are two.                                                                  *)
(***************************************************************************)
EXTENDS Integers, Sequences, FiniteSets

CONSTANTS
    Runner,     \* the greenlet of DiagnosticService.start
    Canceller,  \* the requests that cancel the run
    NoOne,      \* nobody holds the row
    Target,     \* the assets to diagnose
    Probes      \* how many probes the profile has

ASSUME DiagnosticsAssumption ==
    /\ Runner \notin Canceller
    /\ NoOne \notin Canceller \cup {Runner}
    /\ IsFiniteSet(Target) /\ Target # {}
    /\ Probes \in Nat \ {0}

VARIABLES
    status,     \* of the run's row; "absent" before create_run
    cancelRequested,
    latest,     \* latest_event_seq
    events,     \* the committed events of the run, in commit order
    report,     \* the status of the stored report, or "none"
    holder,     \* who has locked the row
    at,         \* where each party is
    emit,       \* the event a party is about to append, and where it goes on
    todo,       \* targets the current probe has yet to reach
    done,       \* probes whose results were collected
    bad,        \* targets with a failed result in a collected probe
    failing,    \* targets that failed the current probe
    spent,      \* the evidence budget is used up
    revoked,    \* permission_changed
    left,       \* evidence items still to be stored
    verdict,    \* the status the runner has decided on
    late        \* probes begun after a cancellation was accepted

row     == <<status, cancelRequested, latest, events, report, holder>>
work    == <<todo, done, bad, failing, spent, revoked, left, verdict>>
vars    == <<row, at, emit, work, late>>

Party    == Canceller \cup {Runner}
Terminal == {"completed", "partial", "failed", "cancelled", "interrupted"}
Status   == Terminal \cup {"absent", "queued", "running"}
Type     == {"started", "progress", "evidence", "completed", "failed"}

RunnerLabel == {"start", "queued", "check", "probe", "host", "collect", "store",
                "final", "saveFailed", "save", "settle", "done"}
Label == RunnerLabel \cup {"idle", "cancel", "emit", "commit", "dead"}

Emit == [type : Type, then : Label \ {"emit", "commit"}, seen : Nat]

TypeOK ==
    /\ status \in Status
    /\ cancelRequested \in BOOLEAN
    /\ latest \in Nat
    /\ events \in Seq([seq : Nat, type : Type])
    /\ report \in Terminal \cup {"none"}
    /\ holder \in Party \cup {NoOne}
    /\ at \in [Party -> Label]
    /\ emit \in [Party -> Emit]
    /\ todo \in SUBSET Target
    /\ done \in 0..Probes
    /\ bad \in SUBSET Target
    /\ failing \in SUBSET Target
    /\ spent \in BOOLEAN
    /\ revoked \in BOOLEAN
    /\ left \in Nat
    /\ verdict \in Terminal \cup {"none"}
    /\ late \in Nat

Quiet == [type |-> "started", then |-> "idle", seen |-> 0]

\* The request has been validated; nothing is stored yet.
Init ==
    /\ status = "absent"
    /\ cancelRequested = FALSE
    /\ latest = 0
    /\ events = <<>>
    /\ report = "none"
    /\ holder = NoOne
    /\ at = [p \in Party |-> IF p = Runner THEN "start" ELSE "idle"]
    /\ emit = [p \in Party |-> Quiet]
    /\ todo = {}
    /\ done = 0
    /\ bad = {}
    /\ failing = {}
    /\ spent = FALSE
    /\ revoked = FALSE
    /\ left = 0
    /\ verdict = "none"
    /\ late = 0

-----------------------------------------------------------------------------
(* The row and its events. *)

Goto(p, l) == at' = [at EXCEPT ![p] = l] /\ UNCHANGED emit

\* _emit: append an event, then go on at l.
CallEmit(p, type, l) ==
    /\ at' = [at EXCEPT ![p] = "emit"]
    /\ emit' = [emit EXCEPT ![p] = [type |-> type, then |-> l, seen |-> 0]]

\* update_run waits for the row and changes the named columns.
Update(newStatus, requested) ==
    /\ holder = NoOne
    /\ status' = newStatus
    /\ cancelRequested' = requested
    /\ UNCHANGED <<latest, events, report, holder>>

\* Slip: append_event reads the row without FOR UPDATE.
EmitReadUnlocked(p) ==
    /\ at[p] = "emit"
    /\ at' = [at EXCEPT ![p] = "commit"]
    /\ emit' = [emit EXCEPT ![p].seen = latest]
    /\ UNCHANGED <<row, work, late>>

\* append_event: lock and read the row.
EmitRead(p) ==
    /\ at[p] = "emit"
    /\ holder = NoOne
    /\ holder' = p
    /\ at' = [at EXCEPT ![p] = "commit"]
    /\ emit' = [emit EXCEPT ![p].seen = latest]
    /\ UNCHANGED <<status, cancelRequested, latest, events, report, work, late>>

\* Slip: the transaction stays open.
EmitCommitOpen(p) ==
    /\ at[p] = "commit"
    /\ events' = Append(events, [seq |-> emit[p].seen + 1, type |-> emit[p].type])
    /\ latest' = emit[p].seen + 1
    /\ Goto(p, emit[p].then)
    /\ UNCHANGED <<status, cancelRequested, report, holder, work, late>>

\* append_event: insert the event, set latest_event_seq, commit.
EmitCommit(p) ==
    /\ at[p] = "commit"
    /\ events' = Append(events, [seq |-> emit[p].seen + 1, type |-> emit[p].type])
    /\ latest' = emit[p].seen + 1
    /\ holder' = NoOne
    /\ Goto(p, emit[p].then)
    /\ UNCHANGED <<status, cancelRequested, report, work, late>>

-----------------------------------------------------------------------------
(* DiagnosticService.start and SSHProbeAdapter.collect. *)

Create ==
    /\ at[Runner] = "start"
    /\ status' = "queued"
    /\ Goto(Runner, "queued")
    /\ UNCHANGED <<cancelRequested, latest, events, report, holder, work, late>>

\* The status is set whatever it is by now.
Begin ==
    /\ at[Runner] = "queued"
    /\ Update("running", cancelRequested)
    /\ CallEmit(Runner, "started", "check")
    /\ UNCHANGED <<work, late>>

\* Leave the probe loop with what was collected.
Leave ==
    /\ Goto(Runner, "store")
    /\ left' = done * Cardinality(Target)

\* Slip: the loop does not ask should_cancel.
CheckNothing ==
    /\ at[Runner] = "check"
    /\ \/ (done = Probes \/ spent) /\ Leave
       \/ done < Probes /\ ~spent /\ Goto(Runner, "probe") /\ UNCHANGED left
    /\ UNCHANGED <<row, todo, done, bad, failing, spent, revoked, verdict, late>>

\* Slip: one probe more than the profile has.
CheckOnceMore ==
    /\ at[Runner] = "check"
    /\ \/ (done > Probes \/ spent \/ cancelRequested) /\ Leave
       \/ /\ done <= Probes /\ ~spent /\ ~cancelRequested
          /\ Goto(Runner, "probe") /\ UNCHANGED left
    /\ UNCHANGED <<row, todo, done, bad, failing, spent, revoked, verdict, late>>

\* The head of the probe loop.  should_cancel reads the row, and, when no
\* cancellation is requested, asks whether the permissions still hold.
Check ==
    /\ at[Runner] = "check"
    /\ \/ (done = Probes \/ spent \/ cancelRequested) /\ Leave /\ UNCHANGED revoked
       \/ /\ done < Probes /\ ~spent /\ ~cancelRequested
          /\ \/ Goto(Runner, "probe") /\ UNCHANGED <<revoked, left>>
             \/ Leave /\ revoked' = TRUE
    /\ UNCHANGED <<row, todo, done, bad, failing, spent, verdict, late>>

\* The batch executor has validated the targets and turns to the first one.
Probe ==
    /\ at[Runner] = "probe"
    /\ todo' = Target
    /\ failing' = {}
    /\ late' = IF cancelRequested THEN late + 1 ELSE late
    /\ Goto(Runner, "host")
    /\ UNCHANGED <<row, done, bad, spent, revoked, left, verdict>>

\* One target answers or fails; on_progress updates the row and emits an event.
\* The asset_progress column is not modelled, but its update waits for the row.
Host(t) ==
    /\ at[Runner] = "host"
    /\ t \in todo
    /\ holder = NoOne
    /\ todo' = todo \ {t}
    /\ \/ failing' = failing \cup {t}
       \/ UNCHANGED failing
    /\ CallEmit(Runner, "progress", IF todo' = {} THEN "collect" ELSE "host")
    /\ UNCHANGED <<row, done, bad, spent, revoked, left, verdict, late>>

\* The audits are written and the results collected; the budget may be used up.
Collect ==
    /\ at[Runner] = "collect"
    /\ done' = done + 1
    /\ bad' = bad \cup failing
    /\ failing' = {}
    /\ spent' \in BOOLEAN
    /\ Goto(Runner, "check")
    /\ UNCHANGED <<row, todo, revoked, left, verdict, late>>

\* The adapter raises: a target no longer exists, an audit or a progress update
\* cannot be written, the row cannot be read.
CollectFails ==
    /\ at[Runner] \in {"check", "probe", "host", "collect"}
    /\ Goto(Runner, "saveFailed")
    /\ UNCHANGED <<row, work, late>>

\* The handler stores a report that says failed, and goes on to l.
ReportFailure(l) ==
    /\ at[Runner] = "saveFailed"
    /\ report' = "failed"
    /\ verdict' = "failed"
    /\ Goto(Runner, l)
    /\ UNCHANGED <<status, cancelRequested, latest, events, holder, todo, done, bad,
                   failing, spent, revoked, left, late>>

\* Slip: the handler reports the failure and forgets the row.
SaveFailedOnly == ReportFailure("done")

SaveFailed == ReportFailure("settle")

\* Evidence is stored and announced item by item.
Store ==
    /\ at[Runner] = "store"
    /\ \/ left > 0 /\ left' = left - 1 /\ CallEmit(Runner, "evidence", "store")
       \/ left = 0 /\ Goto(Runner, "final") /\ UNCHANGED left
    /\ UNCHANGED <<row, todo, done, bad, failing, spent, revoked, verdict, late>>

\* What the results say: a target succeeded if it has results, none of them failed.
FromResults ==
    LET good == IF done = 0 THEN {} ELSE Target \ bad IN
    IF good = Target THEN "completed" ELSE IF good = {} THEN "failed" ELSE "partial"

\* Slip: the second should_cancel is not asked.
FinalFromResults ==
    /\ at[Runner] = "final"
    /\ verdict' = FromResults
    /\ Goto(Runner, "save")
    /\ UNCHANGED <<row, todo, done, bad, failing, spent, revoked, left, late>>

\* should_cancel once more, the verdict, and on to l.
Conclude(l) ==
    /\ at[Runner] = "final"
    /\ \/ cancelRequested /\ UNCHANGED revoked
       \/ ~cancelRequested /\ revoked' \in {revoked, TRUE}
    /\ verdict' = IF revoked' THEN "interrupted"
                  ELSE IF cancelRequested THEN "cancelled" ELSE FromResults
    /\ Goto(Runner, l)
    /\ UNCHANGED <<row, todo, done, bad, failing, spent, left, late>>

\* Slip: the run is settled without its report being saved.
FinalUnsaved == Conclude("settle")

Final == Conclude("save")

Save ==
    /\ at[Runner] = "save"
    /\ report' = verdict
    /\ Goto(Runner, "settle")
    /\ UNCHANGED <<status, cancelRequested, latest, events, holder, work, late>>

\* The last update and the last event, on both paths.
Settle ==
    /\ at[Runner] = "settle"
    /\ Update(verdict, cancelRequested)
    /\ CallEmit(Runner, IF verdict \in {"completed", "partial"} THEN "completed" ELSE "failed",
                "done")
    /\ UNCHANGED <<work, late>>

-----------------------------------------------------------------------------
(* DiagnosticService.cancel. *)

\* get_run: a run that has ended is returned as it is.
CancelRead(c) ==
    /\ at[c] = "idle"
    /\ status \in {"queued", "running"}
    /\ Goto(c, "cancel")
    /\ UNCHANGED <<row, work, late>>

\* The row is written without looking at the status again.
CancelWrite(c) ==
    /\ at[c] = "cancel"
    /\ Update("cancelled", TRUE)
    /\ CallEmit(c, "failed", "idle")
    /\ UNCHANGED <<work, late>>

-----------------------------------------------------------------------------
\* A party dies: an exception no handler expects (storing evidence, analysing,
\* saving the report), a lost connection or a restart of the worker.  MySQL rolls
\* its open transaction back.
Die(p) ==
    /\ at[p] \notin {"start", "idle", "done", "dead"}
    /\ at' = [at EXCEPT ![p] = "dead"]
    /\ holder' = IF holder = p THEN NoOne ELSE holder
    /\ UNCHANGED <<status, cancelRequested, latest, events, report, emit, work, late>>

Emitting(p) == EmitRead(p) \/ EmitCommit(p)
Cancelling(c) == CancelRead(c) \/ CancelWrite(c)
Probing == Check \/ Probe \/ (\E t \in Target : Host(t)) \/ Collect \/ CollectFails
Running == Create \/ Begin \/ Probing \/ Store \/ Final \/ SaveFailed \/ Save \/ Settle

Next ==
    \/ Running
    \/ \E c \in Canceller : Cancelling(c)
    \/ \E p \in Party : Emitting(p) \/ Die(p)

Spec == Init /\ [][Next]_vars

\* Every call of the runner, and of a cancellation that has been accepted,
\* returns; the row is locked for one call at a time.
Fairness ==
    /\ WF_vars(Running)
    /\ \A p \in Party : WF_vars(Emitting(p))
    /\ \A c \in Canceller : WF_vars(CancelWrite(c))

FairSpec == Spec /\ Fairness

-----------------------------------------------------------------------------
(* What a run promises. *)

\* The events of a run are numbered 1, 2, 3, ... in the order in which they are
\* committed, and latest_event_seq is the number of the last one, although the
\* runner and several cancellations append to it (append_event).
EventsNumbered ==
    /\ latest = Len(events)
    /\ \A i \in 1..Len(events) : events[i].seq = i

\* After a cancellation is accepted at most one more probe is sent to the assets,
\* the one whose should_cancel had already been answered (collect, should_cancel).
StopsSoon == late <= 1

\* A report that says completed or partial rests on every probe of the profile,
\* or on those the evidence budget left room for: probes skipped for a cancelled
\* request or a lost permission always show in its status (start, collect).
ReportWhole ==
    report \in {"completed", "partial"} => done = Probes \/ spent

\* Whoever reads a status that the runner settled finds the report behind it, and
\* the two agree (save_report comes before the last update_run).
ReportReady ==
    status \in Terminal \ {"cancelled"} => report = status

\* Unless the runner dies, the run comes to a terminal status and stays there,
\* whatever cancellations were accepted at whatever moment.
RunSettles == <>(at[Runner] = "dead") \/ <>[](status \in Terminal)

\* A cancellation that was accepted is always answered, or its request dies.
CancelAnswered == \A c \in Canceller : at[c] = "cancel" ~> at[c] \in {"idle", "dead"}

\* What the documentation says and the code does not keep: cancelled is an end of
\* the run, not a way to completed.
CancelHonoured ==
    [][status = "cancelled" => status' \notin {"completed", "partial"}]_vars
=============================================================================
