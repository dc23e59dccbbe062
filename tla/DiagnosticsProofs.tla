--------------------------- MODULE DiagnosticsProofs ---------------------------
(***************************************************************************)
(* Proofs about Diagnostics, for any number of cancellations, targets and    *)
(* probes.  Each invariant of the runs becomes inductive by saying where the *)
(* runner is while it holds: Pos is that place, an append_event counted as   *)
(* the place it returns to.                                                  *)
(***************************************************************************)
EXTENDS Diagnostics, FiniteSetTheorems, TLAPS

Pos == IF at[Runner] \in {"emit", "commit"} THEN emit[Runner].then ELSE at[Runner]

\* A probe is under way only while the profile has one left.
TypeInv ==
    /\ TypeOK
    /\ Pos \in {"probe", "host", "collect"} => done < Probes

\* A probe that is about to begin is the first since the cancellation.
Stopping ==
    /\ late > 0 => cancelRequested
    /\ Pos = "probe" => late = 0
    /\ StopsSoon

\* The loop is left early for a reason that the verdict will know; a report is
\* the verdict, and it is stored before the row is settled.
Reporting ==
    /\ Pos \in {"store", "final"} => done = Probes \/ spent \/ revoked \/ cancelRequested
    /\ verdict \in {"completed", "partial"} => done = Probes \/ spent
    /\ verdict # "none" => Pos \in {"save", "settle", "done", "dead"}
    /\ Pos \in {"save", "settle"} => verdict # "none"
    /\ report # "none" => report = verdict /\ Pos \in {"settle", "done", "dead"}
    /\ Pos = "settle" => report # "none"
    /\ status \in Terminal \ {"cancelled"} => report = status /\ Pos \in {"done", "dead"}

Inv == TypeInv /\ Stopping /\ Reporting

\* Whoever is between the read and the commit of an append_event holds the row,
\* and what it read is still the number of the last event.
Numbering ==
    /\ EventsNumbered
    /\ \A p \in Party : at[p] = "commit" => holder = p /\ emit[p].seen = latest

LEMMA CountTargets == Cardinality(Target) \in Nat
BY FS_CardinalityType, DiagnosticsAssumption

LEMMA TypeInit == Init => TypeInv
<1> SUFFICES ASSUME Init PROVE TypeInv
    OBVIOUS
<1>1. at \in [Party -> Label]
    BY DEF Init, Label, RunnerLabel
<1>2. emit \in [Party -> Emit]
    BY DEF Init, Emit, Quiet, Type, Label, RunnerLabel
<1>3. events \in Seq([seq : Nat, type : Type])
    BY DEF Init
<1>4. Pos = "start"
    BY DEF Init, Pos, Party
<1>5. Probes \in Nat /\ 0 \in 0..Probes
    BY DiagnosticsAssumption
<1>6. TypeOK
    BY <1>1, <1>2, <1>3, <1>5 DEF Init, TypeOK, Status, Terminal
<1> QED
    BY <1>4, <1>6 DEF TypeInv

\* A greenlet goes on to another place, or calls append_event.
LEMMA Moves ==
    ASSUME TypeOK, NEW p \in Party, NEW l \in Label \ {"emit", "commit"},
           NEW type \in Type, Goto(p, l) \/ CallEmit(p, type, l)
    PROVE  /\ at' \in [Party -> Label]
           /\ emit' \in [Party -> Emit]
           /\ \A q \in Party \ {p} : at'[q] = at[q] /\ emit'[q] = emit[q]
           /\ at'[p] # "commit"
           /\ p = Runner => Pos' = l
           /\ p # Runner => Pos' = Pos
<1>1. CASE Goto(p, l)
    BY <1>1 DEF TypeOK, Goto, Pos, Party
<1>2. CASE CallEmit(p, type, l)
    <2>1. [type |-> type, then |-> l, seen |-> 0] \in Emit
        BY DEF Emit
    <2>2. emit' \in [Party -> Emit] /\ emit'[p].then = l
        BY <1>2, <2>1 DEF TypeOK, CallEmit
    <2>3. at' \in [Party -> Label]
        BY <1>2 DEF TypeOK, CallEmit, Label
    <2> QED
        BY <1>2, <2>2, <2>3 DEF TypeOK, CallEmit, Pos, Party
<1> QED
    BY <1>1, <1>2

\* An append_event, whoever makes it, leaves the runner where it is.
LEMMA Emits ==
    ASSUME TypeOK, NEW p \in Party, Emitting(p)
    PROVE  /\ at' \in [Party -> Label]
           /\ emit' \in [Party -> Emit]
           /\ latest' \in Nat
           /\ events' \in Seq([seq : Nat, type : Type])
           /\ holder' \in Party \cup {NoOne}
           /\ Pos' = Pos
           /\ UNCHANGED <<status, cancelRequested, report, work, late>>
<1>1. CASE EmitRead(p)
    <2>1. emit' \in [Party -> Emit] /\ \A q \in Party : emit'[q].then = emit[q].then
        BY <1>1 DEF TypeOK, EmitRead, Emit
    <2>2. at' \in [Party -> Label]
        BY <1>1 DEF TypeOK, EmitRead, Label
    <2>3. Pos' = Pos
        BY <1>1, <2>1 DEF TypeOK, EmitRead, Pos, Party
    <2> QED
        BY <1>1, <2>1, <2>2, <2>3 DEF TypeOK, EmitRead
<1>2. CASE EmitCommit(p)
    <2>1. emit[p] \in Emit
        BY DEF TypeOK
    <2>2. [seq |-> emit[p].seen + 1, type |-> emit[p].type] \in [seq : Nat, type : Type]
        BY <2>1 DEF Emit
    <2>3. events' \in Seq([seq : Nat, type : Type])
        BY <1>2, <2>2 DEF TypeOK, EmitCommit
    <2>4. at' \in [Party -> Label] /\ emit' = emit
        BY <1>2, <2>1 DEF TypeOK, EmitCommit, Goto, Emit
    <2>5. Pos' = Pos
        BY <1>2, <2>1 DEF TypeOK, EmitCommit, Goto, Emit, Pos, Party
    <2> QED
        BY <1>2, <2>1, <2>3, <2>4, <2>5 DEF TypeOK, EmitCommit, Emit
<1> QED
    BY <1>1, <1>2 DEF Emitting

\* A party that dies stays dead; nothing else happens but that its lock is freed.
LEMMA Dies ==
    ASSUME TypeOK, NEW p \in Party, Die(p)
    PROVE  /\ at' \in [Party -> Label]
           /\ at'[p] = "dead"
           /\ \A q \in Party \ {p} : at'[q] = at[q]
           /\ holder' = IF holder = p THEN NoOne ELSE holder
           /\ Pos' \in {Pos, "dead"}
           /\ UNCHANGED <<status, cancelRequested, latest, events, report, emit, work, late>>
BY DEF TypeOK, Die, Label, Pos, Party

-----------------------------------------------------------------------------
(* Inv is inductive: one lemma for each action. *)

LEMMA InvInit == Init => Inv
<1> SUFFICES ASSUME Init PROVE Inv
    OBVIOUS
<1>1. TypeInv
    BY TypeInit
<1>2. Pos = "start"
    BY DEF Init, Pos, Party
<1> QED
    BY <1>1, <1>2 DEF Init, Inv, Stopping, StopsSoon, Reporting, Terminal

\* What an action of the runner that ends in l leaves to be shown.
LEMMA RunnerMoves ==
    ASSUME TypeOK, NEW l \in Label \ {"emit", "commit"}, NEW type \in Type,
           Goto(Runner, l) \/ CallEmit(Runner, type, l)
    PROVE  at' \in [Party -> Label] /\ emit' \in [Party -> Emit] /\ Pos' = l
BY Moves DEF Party

LEMMA CreateInv == Inv /\ Create => Inv'
<1> SUFFICES ASSUME Inv, Create PROVE Inv'
    OBVIOUS
<1>1. at' \in [Party -> Label] /\ emit' \in [Party -> Emit] /\ Pos' = "queued" /\ Pos = "start"
    BY RunnerMoves, "started" \in Type DEF Inv, TypeInv, Create, Label, RunnerLabel, Type, Pos
<1>2. TypeOK'
    BY <1>1 DEF Inv, TypeInv, TypeOK, Create, Status, work
<1> QED
    BY <1>1, <1>2 DEF Inv, TypeInv, Stopping, StopsSoon, Reporting, Create, work, Terminal

LEMMA BeginInv == Inv /\ Begin => Inv'
<1> SUFFICES ASSUME Inv, Begin PROVE Inv'
    OBVIOUS
<1>1. at' \in [Party -> Label] /\ emit' \in [Party -> Emit] /\ Pos' = "check" /\ Pos = "queued"
    BY RunnerMoves DEF Inv, TypeInv, Begin, Label, RunnerLabel, Type, Pos
<1>2. TypeOK'
    BY <1>1 DEF Inv, TypeInv, TypeOK, Begin, Update, Status, work
<1> QED
    BY <1>1, <1>2 DEF Inv, TypeInv, Stopping, StopsSoon, Reporting, Begin, Update, work, Terminal

LEMMA CheckInv == Inv /\ Check => Inv'
<1> SUFFICES ASSUME Inv, Check PROVE Inv'
    OBVIOUS
<1>1. Pos = "check"
    BY DEF Check, Pos
<1>2. done \in Nat /\ done * Cardinality(Target) \in Nat
    BY CountTargets, DiagnosticsAssumption DEF Inv, TypeInv, TypeOK
<1>3. CASE Leave
    <2>1. at' \in [Party -> Label] /\ emit' \in [Party -> Emit] /\ Pos' = "store"
        BY <1>3, RunnerMoves, "started" \in Type
        DEF Inv, TypeInv, Leave, Label, RunnerLabel, Type
    <2>2. left' \in Nat
        BY <1>2, <1>3 DEF Leave
    <2>3. revoked' \in BOOLEAN /\ (done = Probes \/ spent \/ revoked' \/ cancelRequested)
        <3>1. ~Goto(Runner, "probe")
            BY <1>3 DEF Leave, Goto, Inv, TypeInv, TypeOK, Party
        <3>2. revoked \in BOOLEAN
            BY DEF Inv, TypeInv, TypeOK
        <3> QED
            BY <3>1, <3>2 DEF Check
    <2>4. TypeOK'
        BY <2>1, <2>2, <2>3 DEF Check, row, Inv, TypeInv, TypeOK
    <2> QED
        BY <1>1, <2>1, <2>3, <2>4
        DEF Inv, TypeInv, Stopping, StopsSoon, Reporting, Check, row, Terminal
<1>4. CASE ~Leave
    <2>1. Goto(Runner, "probe") /\ done < Probes /\ ~cancelRequested /\ UNCHANGED <<revoked, left>>
        BY <1>4 DEF Check
    <2>2. at' \in [Party -> Label] /\ emit' \in [Party -> Emit] /\ Pos' = "probe"
        BY <2>1, RunnerMoves, "started" \in Type DEF Inv, TypeInv, Label, RunnerLabel, Type
    <2>3. TypeOK'
        BY <2>1, <2>2 DEF Check, row, Inv, TypeInv, TypeOK
    <2> QED
        BY <1>1, <2>1, <2>2, <2>3
        DEF Inv, TypeInv, TypeOK, Stopping, StopsSoon, Reporting, Check, row, Terminal
<1> QED
    BY <1>3, <1>4

LEMMA ProbeInv == Inv /\ Probe => Inv'
<1> SUFFICES ASSUME Inv, Probe PROVE Inv'
    OBVIOUS
<1>1. at' \in [Party -> Label] /\ emit' \in [Party -> Emit] /\ Pos' = "host" /\ Pos = "probe"
    BY RunnerMoves, "started" \in Type DEF Inv, TypeInv, Probe, Label, RunnerLabel, Type, Pos
<1>2. late = 0 /\ late' \in {0, 1} /\ (late' > 0 => cancelRequested)
    BY <1>1 DEF Inv, Stopping, Probe
<1>3. TypeOK'
    BY <1>1, <1>2 DEF Inv, TypeInv, TypeOK, Probe, row
<1> QED
    BY <1>1, <1>2, <1>3
    DEF Inv, TypeInv, Stopping, StopsSoon, Reporting, Probe, row, Terminal

LEMMA HostInv == ASSUME NEW t \in Target PROVE Inv /\ Host(t) => Inv'
<1> SUFFICES ASSUME Inv, Host(t) PROVE Inv'
    OBVIOUS
<1> DEFINE l == IF todo' = {} THEN "collect" ELSE "host"
<1>1. l \in Label \ {"emit", "commit"} /\ CallEmit(Runner, "progress", l) /\ Pos = "host"
    BY DEF Host, Label, RunnerLabel, Pos
<1>2. at' \in [Party -> Label] /\ emit' \in [Party -> Emit] /\ Pos' = l
    <2> HIDE DEF l
    <2> QED
        BY <1>1, RunnerMoves DEF Inv, TypeInv, Type
<1>3. TypeOK'
    BY <1>2 DEF Inv, TypeInv, TypeOK, Host, row
<1> QED
    BY <1>1, <1>2, <1>3
    DEF Inv, TypeInv, Stopping, StopsSoon, Reporting, Host, row, Terminal

LEMMA CollectInv == Inv /\ Collect => Inv'
<1> SUFFICES ASSUME Inv, Collect PROVE Inv'
    OBVIOUS
<1>1. at' \in [Party -> Label] /\ emit' \in [Party -> Emit] /\ Pos' = "check" /\ Pos = "collect"
    BY RunnerMoves, "started" \in Type DEF Inv, TypeInv, Collect, Label, RunnerLabel, Type, Pos
<1>2. done' \in 0..Probes
    BY <1>1, DiagnosticsAssumption DEF Inv, TypeInv, TypeOK, Collect
<1>3. TypeOK'
    BY <1>1, <1>2 DEF Inv, TypeInv, TypeOK, Collect, row
<1> QED
    BY <1>1, <1>3
    DEF Inv, TypeInv, Stopping, StopsSoon, Reporting, Collect, row, Terminal

LEMMA CollectFailsInv == Inv /\ CollectFails => Inv'
<1> SUFFICES ASSUME Inv, CollectFails PROVE Inv'
    OBVIOUS
<1>1. /\ at' \in [Party -> Label] /\ emit' \in [Party -> Emit]
      /\ Pos' = "saveFailed" /\ Pos \in {"check", "probe", "host", "collect"}
    BY RunnerMoves, "started" \in Type
    DEF Inv, TypeInv, CollectFails, Label, RunnerLabel, Type, Pos
<1>2. TypeOK'
    BY <1>1 DEF Inv, TypeInv, TypeOK, CollectFails, row, work
<1> QED
    BY <1>1, <1>2
    DEF Inv, TypeInv, Stopping, StopsSoon, Reporting, CollectFails, row, work, Terminal

LEMMA SaveFailedInv == Inv /\ SaveFailed => Inv'
<1> SUFFICES ASSUME Inv, SaveFailed PROVE Inv'
    OBVIOUS
<1>1. at' \in [Party -> Label] /\ emit' \in [Party -> Emit] /\ Pos' = "settle" /\ Pos = "saveFailed"
    BY RunnerMoves, "started" \in Type
    DEF Inv, TypeInv, SaveFailed, ReportFailure, Label, RunnerLabel, Type, Pos
<1>2. TypeOK'
    BY <1>1 DEF Inv, TypeInv, TypeOK, SaveFailed, ReportFailure, Terminal
<1> QED
    BY <1>1, <1>2 DEF Inv, TypeInv, Stopping, StopsSoon, Reporting, SaveFailed, ReportFailure, Terminal

LEMMA StoreInv == Inv /\ Store => Inv'
<1> SUFFICES ASSUME Inv, Store PROVE Inv'
    OBVIOUS
<1> DEFINE l == IF left > 0 THEN "store" ELSE "final"
<1>1. /\ l \in Label \ {"emit", "commit"} /\ Pos = "store"
      /\ Goto(Runner, l) \/ CallEmit(Runner, "evidence", l)
      /\ left' \in Nat
    BY DEF Store, Label, RunnerLabel, Pos, Inv, TypeInv, TypeOK
<1>2. at' \in [Party -> Label] /\ emit' \in [Party -> Emit] /\ Pos' = l
    <2> HIDE DEF l
    <2> QED
        BY <1>1, RunnerMoves DEF Inv, TypeInv, Type
<1>3. TypeOK'
    BY <1>1, <1>2 DEF Inv, TypeInv, TypeOK, Store, row
<1> QED
    BY <1>1, <1>2, <1>3
    DEF Inv, TypeInv, Stopping, StopsSoon, Reporting, Store, row, Terminal

LEMMA FinalInv == Inv /\ Final => Inv'
<1> SUFFICES ASSUME Inv, Final PROVE Inv'
    OBVIOUS
<1>1. at' \in [Party -> Label] /\ emit' \in [Party -> Emit] /\ Pos' = "save" /\ Pos = "final"
    BY RunnerMoves, "started" \in Type
    DEF Inv, TypeInv, Final, Conclude, Label, RunnerLabel, Type, Pos
<1>2. /\ verdict' \in Terminal
      /\ verdict' \in {"completed", "partial"} => ~revoked' /\ ~cancelRequested
      /\ revoked' \in BOOLEAN /\ (revoked => revoked')
    <2>1. revoked \in BOOLEAN /\ revoked' \in BOOLEAN /\ (revoked => revoked')
        <3>1. revoked \in BOOLEAN /\ (revoked' = revoked \/ revoked' = TRUE)
            BY DEF Final, Conclude, Inv, TypeInv, TypeOK
        <3> QED
            BY <3>1
    <2>2. CASE revoked'
        BY <2>1, <2>2 DEF Final, Conclude, Terminal
    <2>3. CASE ~revoked'
        BY <2>1, <2>3 DEF Final, Conclude, FromResults, Terminal
    <2> QED
        BY <2>1, <2>2, <2>3
<1>3. TypeOK'
    BY <1>1, <1>2 DEF Inv, TypeInv, TypeOK, Final, Conclude, row
<1>4. verdict' # "none"
    BY <1>2 DEF Terminal
<1> QED
    BY <1>1, <1>2, <1>3, <1>4
    DEF Inv, TypeInv, Stopping, StopsSoon, Reporting, Final, Conclude, row

LEMMA SaveInv == Inv /\ Save => Inv'
<1> SUFFICES ASSUME Inv, Save PROVE Inv'
    OBVIOUS
<1>1. at' \in [Party -> Label] /\ emit' \in [Party -> Emit] /\ Pos' = "settle" /\ Pos = "save"
    BY RunnerMoves, "started" \in Type DEF Inv, TypeInv, Save, Label, RunnerLabel, Type, Pos
<1>2. TypeOK'
    BY <1>1 DEF Inv, TypeInv, TypeOK, Save, work
<1> QED
    BY <1>1, <1>2 DEF Inv, TypeInv, Stopping, StopsSoon, Reporting, Save, work

LEMMA SettleInv == Inv /\ Settle => Inv'
<1> SUFFICES ASSUME Inv, Settle PROVE Inv'
    OBVIOUS
<1> DEFINE type == IF verdict \in {"completed", "partial"} THEN "completed" ELSE "failed"
<1>1. type \in Type /\ CallEmit(Runner, type, "done") /\ Pos = "settle"
    BY DEF Settle, Type, Pos
<1>2. at' \in [Party -> Label] /\ emit' \in [Party -> Emit] /\ Pos' = "done"
    <2> HIDE DEF type
    <2> QED
        BY <1>1, RunnerMoves DEF Inv, TypeInv, Label, RunnerLabel
<1>3. status' = verdict /\ verdict # "none" /\ report = verdict
    BY <1>1 DEF Settle, Update, Inv, Reporting
<1>4. TypeOK'
    BY <1>2, <1>3 DEF Inv, TypeInv, TypeOK, Settle, Update, work, Status
<1> QED
    BY <1>1, <1>2, <1>3, <1>4
    DEF Inv, TypeInv, Stopping, StopsSoon, Reporting, Settle, Update, work

\* A cancellation does not move the runner, and can only make it stop.
LEMMA CancelInv == ASSUME NEW c \in Canceller PROVE Inv /\ Cancelling(c) => Inv'
<1> SUFFICES ASSUME Inv, Cancelling(c) PROVE Inv'
    OBVIOUS
<1>0. c \in Party /\ c # Runner
    BY DiagnosticsAssumption DEF Party
<1>1. CASE CancelRead(c)
    <2>1. at' \in [Party -> Label] /\ emit' \in [Party -> Emit] /\ Pos' = Pos
        BY <1>0, <1>1, Moves, "started" \in Type DEF CancelRead, Inv, TypeInv, Label, Type
    <2>2. TypeOK'
        BY <1>1, <2>1 DEF Inv, TypeInv, TypeOK, CancelRead, row, work
    <2> QED
        BY <1>1, <2>1, <2>2
        DEF Inv, TypeInv, Stopping, StopsSoon, Reporting, CancelRead, row, work
<1>2. CASE CancelWrite(c)
    <2>1. at' \in [Party -> Label] /\ emit' \in [Party -> Emit] /\ Pos' = Pos
        BY <1>0, <1>2, Moves DEF CancelWrite, Inv, TypeInv, Label, Type
    <2>2. TypeOK'
        BY <1>2, <2>1 DEF Inv, TypeInv, TypeOK, CancelWrite, Update, work, Status, Terminal
    <2> QED
        BY <1>2, <2>1, <2>2
        DEF Inv, TypeInv, Stopping, StopsSoon, Reporting, CancelWrite, Update, work
<1> QED
    BY <1>1, <1>2 DEF Cancelling

LEMMA EmitInv == ASSUME NEW p \in Party PROVE Inv /\ Emitting(p) => Inv'
<1> SUFFICES ASSUME Inv, Emitting(p) PROVE Inv'
    OBVIOUS
<1>1. TypeOK' /\ Pos' = Pos /\ UNCHANGED <<status, cancelRequested, report, work, late>>
    BY Emits DEF Inv, TypeInv, TypeOK, work
<1> QED
    BY <1>1 DEF Inv, TypeInv, Stopping, StopsSoon, Reporting, work

LEMMA DieInv == ASSUME NEW p \in Party PROVE Inv /\ Die(p) => Inv'
<1> SUFFICES ASSUME Inv, Die(p) PROVE Inv'
    OBVIOUS
<1>1. TypeOK'
    BY Dies DEF Inv, TypeInv, TypeOK, work
<1>2. Pos' \in {Pos, "dead"} /\ UNCHANGED <<status, cancelRequested, report, work, late>>
    BY Dies DEF Inv, TypeInv
<1> QED
    BY <1>1, <1>2 DEF Inv, TypeInv, Stopping, StopsSoon, Reporting, work

LEMMA InvNext == Inv /\ [Next]_vars => Inv'
<1> SUFFICES ASSUME Inv, [Next]_vars PROVE Inv'
    OBVIOUS
<1>1. CASE Running
    BY <1>1, CreateInv, BeginInv, CheckInv, ProbeInv, HostInv, CollectInv, CollectFailsInv,
       SaveFailedInv, StoreInv, FinalInv, SaveInv, SettleInv DEF Running, Probing
<1>2. CASE \E c \in Canceller : Cancelling(c)
    BY <1>2, CancelInv
<1>3. CASE \E p \in Party : Emitting(p) \/ Die(p)
    BY <1>3, EmitInv, DieInv
<1>4. CASE UNCHANGED vars
    BY <1>4 DEF vars, row, work, Inv, TypeInv, TypeOK, Pos, Stopping, StopsSoon, Reporting
<1> QED
    BY <1>1, <1>2, <1>3, <1>4 DEF Next

LEMMA InvAlways == Spec => []Inv
BY InvInit, InvNext, PTL DEF Spec

-----------------------------------------------------------------------------
(* The numbers of the events. *)

\* What a party does outside append_event.
Moved(p) ==
    /\ \E l \in Label \ {"emit", "commit"}, type \in Type : Goto(p, l) \/ CallEmit(p, type, l)
    /\ UNCHANGED <<latest, events, holder>>

LEMMA RunnerMoved == Running => Moved(Runner)
<1> USE DEF Moved, Label, RunnerLabel, Type, row, work
<1>1. Create => Moved(Runner)
    BY DEF Create
<1>2. Begin => Moved(Runner)
    BY DEF Begin, Update
<1>3. Check => Moved(Runner)
    BY DEF Check, Leave
<1>4. Probe => Moved(Runner)
    BY DEF Probe
<1>5. ASSUME NEW t \in Target PROVE Host(t) => Moved(Runner)
    <2>1. {"collect", "host"} \subseteq Label \ {"emit", "commit"} /\ "progress" \in Type
        OBVIOUS
    <2> QED
        BY <2>1 DEF Host
<1>6. Collect => Moved(Runner)
    BY DEF Collect
<1>7. CollectFails => Moved(Runner)
    BY DEF CollectFails
<1>8. Store => Moved(Runner)
    BY DEF Store
<1>9. Final => Moved(Runner)
    BY DEF Final, Conclude
<1>10. SaveFailed => Moved(Runner)
    BY DEF SaveFailed, ReportFailure
<1>11. Save => Moved(Runner)
    BY DEF Save
<1>12. Settle => Moved(Runner)
    <2>1. {"completed", "failed"} \subseteq Type /\ "done" \in Label \ {"emit", "commit"}
        OBVIOUS
    <2> QED
        BY <2>1 DEF Settle, Update
<1> QED
    BY <1>1, <1>2, <1>3, <1>4, <1>5, <1>6, <1>7, <1>8, <1>9, <1>10, <1>11, <1>12
    DEF Running, Probing

LEMMA CancelMoved == ASSUME NEW c \in Canceller PROVE Cancelling(c) => Moved(c)
<1>1. CancelRead(c) => Moved(c)
    BY DEF CancelRead, Moved, Label, Type, row
<1>2. CancelWrite(c) => Moved(c)
    BY DEF CancelWrite, Update, Moved, Label, Type
<1> QED
    BY <1>1, <1>2 DEF Cancelling

LEMMA MovedNumbering ==
    ASSUME TypeOK, Numbering, NEW p \in Party, Moved(p)
    PROVE  Numbering'
<1>1. at'[p] # "commit" /\ \A q \in Party \ {p} : at'[q] = at[q] /\ emit'[q] = emit[q]
    <2>1. PICK l \in Label \ {"emit", "commit"}, type \in Type :
              Goto(p, l) \/ CallEmit(p, type, l)
        BY DEF Moved
    <2> QED
        BY <2>1, Moves
<1> QED
    BY <1>1 DEF Moved, Numbering, EventsNumbered

LEMMA EmitNumbering ==
    ASSUME TypeOK, Numbering, NEW p \in Party, Emitting(p)
    PROVE  Numbering'
<1>1. CASE EmitRead(p)
    <2>1. \A q \in Party : at[q] # "commit"
        BY <1>1, DiagnosticsAssumption DEF EmitRead, Numbering, Party
    <2>2. \A q \in Party : at'[q] = "commit" => q = p
        BY <1>1, <2>1 DEF EmitRead, TypeOK
    <2>3. holder' = p /\ emit'[p].seen = latest
        BY <1>1 DEF EmitRead, TypeOK, Emit
    <2> QED
        BY <1>1, <2>2, <2>3 DEF EmitRead, Numbering, EventsNumbered
<1>2. CASE EmitCommit(p)
    <2>1. emit[p].seen = latest /\ emit[p] \in Emit /\ latest = Len(events) /\ holder = p
        BY <1>2 DEF EmitCommit, Numbering, EventsNumbered, TypeOK
    <2> DEFINE e == [seq |-> latest + 1, type |-> emit[p].type]
    <2>2. e \in [seq : Nat, type : Type] /\ e.seq = Len(events) + 1
        BY <2>1 DEF Emit, TypeOK
    <2>3. events' = Append(events, e) /\ latest' = Len(events) + 1
        BY <1>2, <2>1 DEF EmitCommit
    <2>4. EventsNumbered'
        <3> HIDE DEF e
        <3>1. events \in Seq([seq : Nat, type : Type])
            BY DEF TypeOK
        <3>2. Len(events') = Len(events) + 1 /\ Len(events) \in Nat
            BY <2>2, <2>3, <3>1
        <3>3. ASSUME NEW i \in 1..Len(events') PROVE events'[i].seq = i
            <4>1. CASE i = Len(events) + 1
                BY <2>2, <2>3, <3>1, <4>1
            <4>2. CASE i # Len(events) + 1
                <5>1. i \in 1..Len(events)
                    BY <3>2, <4>2
                <5>2. events'[i] = events[i]
                    BY <2>2, <2>3, <3>1, <5>1
                <5> QED
                    BY <5>1, <5>2 DEF Numbering, EventsNumbered
            <4> QED
                BY <4>1, <4>2
        <3> QED
            BY <2>3, <3>2, <3>3 DEF EventsNumbered
    <2>5. \A q \in Party : at'[q] # "commit"
        BY <1>2, <2>1 DEF EmitCommit, Goto, Emit, TypeOK, Numbering
    <2> QED
        BY <2>4, <2>5 DEF Numbering
<1> QED
    BY <1>1, <1>2 DEF Emitting

LEMMA DieNumbering ==
    ASSUME TypeOK, Numbering, NEW p \in Party, Die(p)
    PROVE  Numbering'
<1>1. /\ at'[p] = "dead" /\ \A q \in Party \ {p} : at'[q] = at[q]
      /\ holder' = IF holder = p THEN NoOne ELSE holder
      /\ UNCHANGED <<latest, events, emit>>
    BY Dies
<1> QED
    BY <1>1 DEF Numbering, EventsNumbered

LEMMA NumberingInit == Init => Numbering
BY DEF Init, Numbering, EventsNumbered

LEMMA NumberingNext == TypeOK /\ Numbering /\ [Next]_vars => Numbering'
<1> SUFFICES ASSUME TypeOK, Numbering, [Next]_vars PROVE Numbering'
    OBVIOUS
<1>1. CASE Running
    BY <1>1, RunnerMoved, MovedNumbering DEF Party
<1>2. CASE \E c \in Canceller : Cancelling(c)
    BY <1>2, CancelMoved, MovedNumbering DEF Party
<1>3. CASE \E p \in Party : Emitting(p) \/ Die(p)
    BY <1>3, EmitNumbering, DieNumbering
<1>4. CASE UNCHANGED vars
    BY <1>4 DEF vars, row, Numbering, EventsNumbered
<1> QED
    BY <1>1, <1>2, <1>3, <1>4 DEF Next

-----------------------------------------------------------------------------
(* The theorems. *)

\* The variables of a diagnostic run keep their types, whoever interferes
\* (start, cancel, update_run, append_event).
THEOREM DiagnosticTypes == Spec => []TypeOK
<1>1. Inv => TypeOK
    BY DEF Inv, TypeInv
<1> QED
    BY <1>1, InvAlways, PTL

\* At most one probe is sent after a cancellation was accepted (collect,
\* should_cancel, cancel).
THEOREM ProbingStops == Spec => []StopsSoon
<1>1. Inv => StopsSoon
    BY DEF Inv, Stopping
<1> QED
    BY <1>1, InvAlways, PTL

\* A report that says completed or partial skipped no probe for a cancellation or
\* a lost permission (start).
THEOREM WholeReports == Spec => []ReportWhole
<1>1. Inv => ReportWhole
    BY DEF Inv, Reporting, ReportWhole
<1> QED
    BY <1>1, InvAlways, PTL

\* A status that the runner settled has its report, and the report agrees with it
\* (save_report, update_run).
THEOREM ReadyReports == Spec => []ReportReady
<1>1. Inv => ReportReady
    BY DEF Inv, Reporting, ReportReady
<1> QED
    BY <1>1, InvAlways, PTL

\* Event numbers are dense and in commit order, for any number of parties that
\* append concurrently (append_event).
THEOREM NumberedEvents == Spec => []EventsNumbered
<1>1. Numbering => EventsNumbered
    BY DEF Numbering
<1>2. Spec => []Numbering
    BY NumberingInit, NumberingNext, DiagnosticTypes, PTL DEF Spec
<1> QED
    BY <1>1, <1>2, PTL
=============================================================================
