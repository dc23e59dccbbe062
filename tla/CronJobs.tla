------------------------------- MODULE CronJobs -------------------------------
(***************************************************************************)
(* The scheduled jobs of one name (cron/cron.py).  A job lives in two      *)
(* places that no transaction joins: the row of t_cron with its targets,   *)
(* and the job of the in-memory scheduler, which keeps its own copy of the *)
(* command and of the hosts.  Requests of several users and the scheduler  *)
(* itself act on them; a restart rebuilds the second from the first.       *)
(*                                                                         *)
(* A step is one call of Redis or MySQL and the local work up to the next  *)
(* one; the scheduler is local.  A name has one row for good: the column   *)
(* is unique and a deleted row is revived.                                 *)
(***************************************************************************)
EXTENDS FiniteSets

CONSTANTS
    Request,    \* the greenlets that serve requests
    Scheduler,  \* the scheduler's thread that runs the job
    NoOne,      \* nobody holds the lock
    Lost,       \* the lock's holder has died
    User,       \* names of users
    Admin,      \* those of role admin
    Command,    \* what a job may be told to do, its schedule included
    Host,       \* ids of hosts
    Target,     \* aliases and groups a job can name
    Members,    \* the hosts each of them stands for
    Alone,      \* kinds of requests an instance admits only one at a time
    Faults      \* what may go wrong: "redis", "lapse", "commit", "crash"

Kind == {"add", "pause", "resume", "remove", "run", "close"}

CronAssumption ==
    /\ Scheduler \notin Request
    /\ {NoOne, Lost} \cap Request = {} /\ NoOne # Lost
    /\ Admin \subseteq User /\ User # {} /\ Command # {}
    /\ Members \in [Target -> SUBSET Host]
    /\ Alone \subseteq Kind

VARIABLES
    row,        \* the row of t_cron with its targets
    job,        \* the scheduler's job
    lock,       \* whose SET NX on lock:job_name succeeded
    hosts,      \* hosts that are not deleted
    result,     \* cron_last_result: the hosts it shows as failed
    pc,         \* the call a greenlet makes next
    mem         \* its local variables

vars == <<row, job, lock, hosts, result, pc, mem>>

Worker == Request \cup {Scheduler}
Label  == {"idle", "lock", "read", "commit", "resolve", "schedule", "unlock",
           "look", "act", "save", "run"}

Row    == [there : BOOLEAN, live : BOOLEAN, on : BOOLEAN, owner : User,
           command : Command, targets : SUBSET Target]
Job    == [there : BOOLEAN, paused : BOOLEAN, command : Command, hosts : SUBSET Host]
Local  == [kind : Kind, user : User, command : Command, targets : SUBSET Target,
           seen : Row, ids : SUBSET Host, bad : SUBSET Host, redis : BOOLEAN]

Nobody  == CHOOSE u \in User : TRUE
Nothing == CHOOSE c \in Command : TRUE
NoRow   == [there |-> FALSE, live |-> FALSE, on |-> FALSE, owner |-> Nobody,
            command |-> Nothing, targets |-> {}]
NoJob   == [there |-> FALSE, paused |-> FALSE, command |-> Nothing, hosts |-> {}]
Blank   == [kind |-> "run", user |-> Nobody, command |-> Nothing, targets |-> {},
            seen |-> NoRow, ids |-> {}, bad |-> {}, redis |-> FALSE]

Init ==
    /\ row = NoRow /\ job = NoJob /\ lock = NoOne
    /\ hosts = Host /\ result = {}
    /\ pc = [w \in Worker |-> "idle"]
    /\ mem = [w \in Worker |-> Blank]

-----------------------------------------------------------------------------
(* Parts of the handlers. *)

Goto(w, label) == pc' = [pc EXCEPT ![w] = label]

\* A handler answers and forgets its locals.
Answer(w) == Goto(w, "idle") /\ mem' = [mem EXCEPT ![w] = Blank]

\* What a handler still needs of its locals once the row it loaded is of no use.
Forget(w) ==
    mem' = [mem EXCEPT ![w] = [Blank EXCEPT !.kind = mem[w].kind, !.user = mem[w].user,
                                            !.redis = mem[w].redis]]

\* Administrators operate on every job, others on their own.
MayOperate(user, r) == user \in Admin \/ r.owner = user

\* The hosts that a set of aliases and groups stands for at this moment.
Resolve(targets) == hosts \cap UNION {Members[t] : t \in targets}

\* The row after an UPDATE: only columns that differ from the ones loaded are set.
Written(loaded, new) ==
    [f \in DOMAIN row |-> IF new[f] # loaded[f] THEN new[f] ELSE row[f]]

Scheduled(command, ids) ==
    [there |-> TRUE, paused |-> FALSE, command |-> command, hosts |-> ids]

-----------------------------------------------------------------------------
(* Arrival.  A batch (com_list_job) handles its names one after the other *)
(* as these requests do.                                                  *)

Busy(k) == \E v \in Request : pc[v] # "idle" /\ mem[v].kind = k

\* What a request brings, and where it begins: with the lock, the scheduler or its row.
Asked(k, u, c, ts) == [Blank EXCEPT !.kind = k, !.user = u, !.command = c, !.targets = ts]
Entry(k) == CASE k = "add" -> "lock" [] k = "close" -> "act" [] OTHER -> "look"

Submit(w) ==
    /\ pc[w] = "idle"
    /\ \A k \in Alone : ~Busy(k)
    /\ \E k \in Kind, u \in User, c \in Command, ts \in SUBSET Target :
          /\ k \in Alone => \A v \in Request : pc[v] = "idle"
          /\ k # "add" => c = Nothing /\ ts = {}
          /\ k = "close" => u \in Admin
          /\ Goto(w, Entry(k))
          /\ mem' = [mem EXCEPT ![w] = Asked(k, u, c, ts)]
    /\ UNCHANGED <<row, job, lock, hosts, result>>

-----------------------------------------------------------------------------
(* add_job: lock, read, write and commit, resolve, schedule, unlock.  Every *)
(* exit but the refusal of the lock passes the finally clause.              *)

SlipAddLock(w) ==
    /\ pc[w] = "lock"
    /\ lock' = w
    /\ Goto(w, "read") /\ mem' = [mem EXCEPT ![w].redis = TRUE]
    /\ UNCHANGED <<row, job, hosts, result>>

AddLock(w) ==
    /\ pc[w] = "lock"
    /\ \/ /\ lock = NoOne
          /\ lock' = w
          /\ Goto(w, "read") /\ mem' = [mem EXCEPT ![w].redis = TRUE]
       \/ /\ lock # NoOne
          /\ Answer(w) /\ UNCHANGED lock
       \/ /\ "redis" \in Faults    \* without Redis the job is added without a lock
          /\ \E r \in BOOLEAN : mem' = [mem EXCEPT ![w].redis = r]
          /\ Goto(w, "read") /\ UNCHANGED lock
    /\ UNCHANGED <<row, job, hosts, result>>

AddRead(w) ==
    /\ pc[w] = "read"
    /\ IF row.there /\ row.live
       THEN Goto(w, "unlock") /\ Forget(w)
       ELSE Goto(w, "commit") /\ mem' = [mem EXCEPT ![w].seen = row]
    /\ UNCHANGED <<row, job, lock, hosts, result>>

\* A new row, which fails on the unique name if another one came first, or the
\* deleted row revived.
NewRow(w) ==
    [there |-> TRUE, live |-> TRUE, on |-> TRUE, owner |-> mem[w].user,
     command |-> mem[w].command, targets |-> mem[w].targets]

AddCommit(w) ==
    /\ pc[w] = "commit"
    /\ \/ /\ mem[w].seen.there \/ ~row.there
          /\ row' = [Written(mem[w].seen, NewRow(w)) EXCEPT !.targets = mem[w].targets]
          /\ Goto(w, "resolve") /\ mem' = [mem EXCEPT ![w].seen = NoRow]
       \/ /\ "commit" \in Faults \/ (row.there /\ ~mem[w].seen.there)
          /\ Goto(w, "unlock") /\ Forget(w)
          /\ UNCHANGED row
    /\ UNCHANGED <<job, lock, hosts, result>>

AddResolve(w) ==
    /\ pc[w] = "resolve" /\ mem[w].kind = "add"
    /\ mem' = [mem EXCEPT ![w].ids = Resolve(row.targets)]
    /\ Goto(w, IF Resolve(row.targets) = {} THEN "unlock" ELSE "schedule")
    /\ UNCHANGED <<row, job, lock, hosts, result>>

\* The scheduler refuses a second job of one id.
AddSchedule(w) ==
    /\ pc[w] = "schedule" /\ mem[w].kind = "add"
    /\ job' = IF job.there THEN job ELSE Scheduled(mem[w].command, mem[w].ids)
    /\ Goto(w, "unlock")
    /\ Forget(w)
    /\ UNCHANGED <<row, lock, hosts, result>>

\* The finally clause deletes the key, whoever set it.
AddUnlock(w) ==
    /\ pc[w] = "unlock"
    /\ \/ mem[w].redis /\ lock' = NoOne
       \/ (~mem[w].redis \/ "redis" \in Faults) /\ UNCHANGED lock
    /\ Answer(w)
    /\ UNCHANGED <<row, job, hosts, result>>

-----------------------------------------------------------------------------
(* The operations on an existing job: look it up, ask Redis who is asking,  *)
(* tell the scheduler, write the row.                                       *)

Look(w) ==
    /\ pc[w] = "look"
    /\ IF row.there /\ row.live
       THEN Goto(w, "act") /\ mem' = [mem EXCEPT ![w].seen = row]
       ELSE Answer(w)
    /\ UNCHANGED <<row, job, lock, hosts, result>>

Denied(w) ==
    /\ pc[w] = "act" /\ mem[w].kind # "close"
    /\ ~MayOperate(mem[w].user, mem[w].seen)
    /\ Answer(w)
    /\ UNCHANGED <<row, job, lock, hosts, result>>

Acts(w, kinds) ==
    /\ pc[w] = "act" /\ mem[w].kind \in kinds
    /\ mem[w].kind # "close" => MayOperate(mem[w].user, mem[w].seen)

PauseAct(w) ==
    /\ Acts(w, {"pause", "close"})
    /\ job' = IF job.there THEN [job EXCEPT !.paused = TRUE] ELSE job
    /\ Goto(w, "save")
    /\ Forget(w)
    /\ UNCHANGED <<row, lock, hosts, result>>

RemoveAct(w) ==
    /\ Acts(w, {"remove"})
    /\ job' = NoJob
    /\ Goto(w, "save")
    /\ Forget(w)
    /\ UNCHANGED <<row, lock, hosts, result>>

ResumeAct(w) ==
    /\ Acts(w, {"resume"})
    /\ IF job.there
       THEN job' = [job EXCEPT !.paused = FALSE] /\ Goto(w, "save") /\ Forget(w)
       ELSE Goto(w, "resolve") /\ UNCHANGED <<job, mem>>
    /\ UNCHANGED <<row, lock, hosts, result>>

RunAct(w) ==
    /\ Acts(w, {"run"})
    /\ Goto(w, "resolve")
    /\ Forget(w)
    /\ UNCHANGED <<row, job, lock, hosts, result>>

ResolveAgain(w) ==
    /\ pc[w] = "resolve" /\ mem[w].kind \in {"resume", "run"}
    /\ LET ids == Resolve(row.targets) IN
         IF ids # {}
         THEN /\ mem' = [mem EXCEPT ![w].ids = ids]
              /\ Goto(w, IF mem[w].kind = "run" THEN "run" ELSE "schedule")
         ELSE IF mem[w].kind = "run" THEN Answer(w)
         ELSE Goto(w, "save") /\ Forget(w)
    /\ UNCHANGED <<row, job, lock, hosts, result>>

\* Registered from the columns loaded by Look; a job that has come meanwhile makes
\* the scheduler raise, and the request fails.
Reschedule(w) ==
    /\ pc[w] = "schedule" /\ mem[w].kind = "resume"
    /\ IF job.there
       THEN Answer(w) /\ UNCHANGED job
       ELSE /\ job' = Scheduled(mem[w].seen.command, mem[w].ids)
            /\ Goto(w, "save") /\ Forget(w)
    /\ UNCHANGED <<row, lock, hosts, result>>

\* The UPDATE of a pause or a resumption looks for a live row of the name again;
\* a deletion marks the row it loaded; close_job writes every row.
Saved(w) ==
    LET k == mem[w].kind IN
    CASE k = "close"  -> IF row.there THEN [row EXCEPT !.on = FALSE] ELSE row
      [] k = "remove" -> [row EXCEPT !.live = FALSE]
      [] row.live     -> [row EXCEPT !.on = (k = "resume")]
      [] OTHER        -> row

Save(w) ==
    /\ pc[w] = "save"
    /\ \/ row' = Saved(w)
       \/ "commit" \in Faults /\ UNCHANGED row
    /\ Answer(w)
    /\ UNCHANGED <<job, lock, hosts, result>>

-----------------------------------------------------------------------------
(* Executions: run_job in a request, cron_list_cmd in the scheduler, which *)
(* runs one instance of a job at a time.                                   *)

Fire ==
    /\ pc[Scheduler] = "idle"
    /\ job.there /\ ~job.paused
    /\ mem' = [mem EXCEPT ![Scheduler] = [Blank EXCEPT !.ids = job.hosts]]
    /\ Goto(Scheduler, "run")
    /\ UNCHANGED <<row, job, lock, hosts, result>>

\* A deleted host is noted as failed, as is a connection that raises; a command
\* that was refused or exits with an error counts as good.
RunHost(w) ==
    /\ pc[w] = "run"
    /\ \E h \in mem[w].ids, ok \in BOOLEAN :
          /\ ok => h \in hosts
          /\ mem' = [mem EXCEPT ![w].ids = mem[w].ids \ {h},
                                ![w].bad = IF ok THEN mem[w].bad ELSE mem[w].bad \cup {h}]
    /\ UNCHANGED <<row, job, lock, hosts, result, pc>>

RunSave(w) ==
    /\ pc[w] = "run" /\ mem[w].ids = {}
    /\ \/ result' = mem[w].bad
       \/ "redis" \in Faults /\ UNCHANGED result
    /\ Answer(w)
    /\ UNCHANGED <<row, job, lock, hosts>>

-----------------------------------------------------------------------------
(* The world. *)

Lapse ==
    /\ lock # NoOne
    /\ lock = Lost \/ "lapse" \in Faults
    /\ lock' = NoOne
    /\ UNCHANGED <<row, job, hosts, result, pc, mem>>

DeleteHost ==
    /\ \E h \in hosts : hosts' = hosts \ {h}
    /\ UNCHANGED <<row, job, lock, result, pc, mem>>

\* load_cron_from_db: the jobs to schedule when the worker starts.
Loaded ==
    IF row.there /\ row.live /\ row.on /\ Resolve(row.targets) # {}
    THEN Scheduled(row.command, Resolve(row.targets)) ELSE NoJob

Restart ==
    /\ "crash" \in Faults
    /\ job' = Loaded
    /\ lock' = IF lock = NoOne THEN NoOne ELSE Lost
    /\ pc' = [w \in Worker |-> "idle"]
    /\ mem' = [w \in Worker |-> Blank]
    /\ UNCHANGED <<row, hosts, result>>

Handle(w) ==
    \/ Submit(w)
    \/ AddLock(w) \/ AddRead(w) \/ AddCommit(w) \/ AddResolve(w) \/ AddSchedule(w)
    \/ AddUnlock(w)
    \/ Look(w) \/ Denied(w)
    \/ PauseAct(w) \/ RemoveAct(w) \/ ResumeAct(w) \/ RunAct(w)
    \/ ResolveAgain(w) \/ Reschedule(w) \/ Save(w)

Execute(w) == RunHost(w) \/ RunSave(w)

Next ==
    \/ \E w \in Request : Handle(w)
    \/ \E w \in Worker : Execute(w)
    \/ Fire \/ Lapse \/ DeleteHost \/ Restart

Spec == Init /\ [][Next]_vars

-----------------------------------------------------------------------------
(* Properties. *)

\* Every variable stays in its type.
TypeOK ==
    /\ row \in Row /\ job \in Job
    /\ lock \in Request \cup {NoOne, Lost}
    /\ hosts \subseteq Host /\ result \subseteq Host
    /\ pc \in [Worker -> Label] /\ mem \in [Worker -> Local]

\* Whatever the scheduler holds is a job of the table: its row is live and says the same
\* command.  Between the two stands no transaction, only the order of the calls, the
\* name lock of add_job and what a restart rebuilds.
ScheduledIsStored ==
    job.there => row.there /\ row.live /\ row.command = job.command
=============================================================================
