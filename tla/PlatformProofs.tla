---------------------------- MODULE PlatformProofs ----------------------------
(***************************************************************************)
(* Theorems about the parts of Platform, for any values of its constants:  *)
(* CronJobs, ProviderStream and ChatContext here, HostAccess and Accounts  *)
(* in AccessProofs, MailCodes in MailProofs.                               *)
(*                                                                         *)
(* CronJobs: who holds the job lock sees the table as it is.               *)
(* ProviderStream: what was shown, what is kept and what was answered are  *)
(* prefixes of each other, and the fragments of a call's arguments that    *)
(* were merged are what was sent so far.  ChatContext: the conversation in *)
(* Redis has every message or its summary, in order, with every call next  *)
(* to its results but for the one being carried out.                       *)
(***************************************************************************)
EXTENDS MailProofs, AccessProofs, FunctionTheorems, SequenceTheorems, WellFoundedInduction

-----------------------------------------------------------------------------

(* CronJobs: types. *)

LEMMA JobConstants ==
  /\ Scheduler \notin JobRequest /\ {NoOne, Lost} \cap JobRequest = {} /\ NoOne # Lost
  /\ JobMembers \in [Target -> SUBSET JobHost] /\ Alone \subseteq Cr!Kind
  /\ Cr!Nobody \in User /\ Cr!Nothing \in Command
  BY PlatformAssumption DEF Cr!CronAssumption, Cr!Nobody, Cr!Nothing

LEMMA JobBlank ==
  Cr!NoRow \in Cr!Row /\ Cr!NoJob \in Cr!Job /\ Cr!Blank \in Cr!Local
  BY JobConstants DEF Cr!NoRow, Cr!Row, Cr!NoJob, Cr!Job, Cr!Blank, Cr!Local, Cr!Kind

LEMMA JobResolve == ASSUME NEW targets PROVE Cr!Resolve(targets) \subseteq crHosts
  BY DEF Cr!Resolve

\* A step of w that goes to a label and changes no more than its own memory.
LEMMA JobStep ==
  ASSUME Cr!TypeOK, NEW w \in Cr!Worker, NEW label \in Cr!Label, NEW m \in Cr!Local,
         crPc' = [crPc EXCEPT ![w] = label] \/ UNCHANGED crPc,
         crMem' = [crMem EXCEPT ![w] = m] \/ UNCHANGED crMem
  PROVE  crPc' \in [Cr!Worker -> Cr!Label] /\ crMem' \in [Cr!Worker -> Cr!Local]
  BY DEF Cr!TypeOK

\* What an action may store in a worker's memory.
LEMMA JobMemories ==
  ASSUME Cr!TypeOK, NEW w \in Cr!Worker
  PROVE  /\ crMem[w] \in Cr!Local /\ Cr!Blank \in Cr!Local
         /\ \A k \in Cr!Kind, u \in User, c \in Command, ts \in SUBSET Target :
               [Cr!Blank EXCEPT !.kind = k, !.user = u, !.command = c, !.targets = ts] \in Cr!Local
         /\ [Cr!Blank EXCEPT !.kind = crMem[w].kind, !.user = crMem[w].user,
                             !.redis = crMem[w].redis] \in Cr!Local
         /\ \A r \in BOOLEAN : [crMem[w] EXCEPT !.redis = r] \in Cr!Local
         /\ \A r \in Cr!Row : [crMem[w] EXCEPT !.seen = r] \in Cr!Local
         /\ \A ids \in SUBSET JobHost : [crMem[w] EXCEPT !.ids = ids] \in Cr!Local
         /\ \A ids \in SUBSET JobHost : [Cr!Blank EXCEPT !.ids = ids] \in Cr!Local
         /\ \A ids \in SUBSET JobHost, bad \in SUBSET JobHost :
               [crMem[w] EXCEPT !.ids = ids, !.bad = bad] \in Cr!Local
<1>1. crMem[w] \in Cr!Local /\ Cr!Blank \in Cr!Local
  BY JobBlank DEF Cr!TypeOK
<1> QED BY <1>1 DEF Cr!Local

\* The label and the memory of a worker after one of its steps.
Moves(w, label, m) ==
  /\ crPc' = [crPc EXCEPT ![w] = label]
  /\ crMem' = [crMem EXCEPT ![w] = m]

LEMMA JobMoves ==
  ASSUME Cr!TypeOK, NEW w \in Cr!Worker, NEW label \in Cr!Label, NEW m \in Cr!Local,
         Moves(w, label, m),
         crRow' \in Cr!Row, crJob' \in Cr!Job, crLock' \in JobRequest \cup {NoOne, Lost},
         crResult' \subseteq JobHost, UNCHANGED crHosts
  PROVE  Cr!TypeOK'
  BY JobStep DEF Cr!TypeOK, Moves

\* A step that stays at its label or keeps its memory moves all the same.
LEMMA JobStays ==
  ASSUME Cr!TypeOK, NEW w \in Cr!Worker, NEW label, NEW m
  PROVE  /\ crPc' = [crPc EXCEPT ![w] = label] /\ UNCHANGED crMem => Moves(w, label, crMem[w])
         /\ UNCHANGED crPc /\ crMem' = [crMem EXCEPT ![w] = m] => Moves(w, crPc[w], m)
         /\ crMem[w] \in Cr!Local /\ crPc[w] \in Cr!Label
  BY DEF Cr!TypeOK, Moves

-----------------------------------------------------------------------------
(* CronJobs: the job of the scheduler and the row. *)

\* Where add_job holds the lock of the name, from its SET NX to the finally clause.
Adding(w) ==
    \/ crPc[w] \in {"read", "commit", "unlock"}
    \/ crPc[w] \in {"resolve", "schedule"} /\ crMem[w].kind = "add"

Removing(w) == crPc[w] # "idle" /\ crMem[w].kind = "remove"

JobLock(w) ==
    /\ crPc[w] \in {"lock", "read", "commit", "unlock"} => crMem[w].kind = "add"
    /\ Adding(w) => crLock = w /\ crMem[w].redis

\* Nothing else is under way while a job is removed, and it is gone from the scheduler
\* before its row is marked.
JobRemoval(w) ==
    Removing(w) =>
        /\ \A v \in JobRequest \ {w} : crPc[v] = "idle"
        /\ crPc[w] = "save" => ~crJob.there

\* What a request still needs of the row it read is true of the row as it is.
JobReadings(w) ==
    /\ crPc[w] = "commit" =>
          /\ ~crRow.live /\ crMem[w].seen.there = crRow.there
          /\ ~crMem[w].seen.live /\ crMem[w].seen.command = crRow.command
    /\ crPc[w] \in {"resolve", "schedule"} /\ crMem[w].kind = "add" =>
          crRow.live /\ crRow.command = crMem[w].command
    /\ crPc[w] \in {"act", "resolve", "schedule"} /\ crMem[w].kind = "resume" =>
          crRow.live /\ crRow.command = crMem[w].seen.command

JobOf(w) == JobLock(w) /\ JobRemoval(w) /\ JobReadings(w)

JobInv ==
    /\ Cr!TypeOK
    /\ crRow.live => crRow.there
    /\ Cr!ScheduledIsStored
    /\ \A w \in JobRequest : JobOf(w)

\* The instances that are spoken about: Redis answers and keeps the lock while its holder
\* lives, and nothing else is under way while a job is removed.
JobSetting ==
    /\ "redis" \notin Faults /\ "lapse" \notin Faults
    /\ "remove" \in Alone

\* A step of w that leaves row and lock alone disturbs none of the others, unless it takes a
\* request from idle while another one removes.
LEMMA JobLocal ==
  ASSUME JobInv, NEW w \in JobRequest, NEW label \in Cr!Label, NEW m \in Cr!Local,
         Moves(w, label, m), UNCHANGED <<crRow, crLock>>,
         crJob'.there => crJob.there \/ crPc[w] # "idle",
         crPc[w] = "idle" => label = "idle" \/ \A v \in JobRequest : ~Removing(v),
         JobOf(w)'
  PROVE  \A v \in JobRequest : JobOf(v)'
<1> SUFFICES ASSUME NEW v \in JobRequest, v # w PROVE JobOf(v)'
  OBVIOUS
<1>1. crPc'[v] = crPc[v] /\ crMem'[v] = crMem[v] /\ crPc'[w] = label
  BY DEF Moves, JobInv, Cr!TypeOK, Cr!Worker
<1>2. JobOf(v)
  BY DEF JobInv
<1>3. JobLock(v)' /\ JobReadings(v)'
  BY <1>1, <1>2 DEF JobOf, JobLock, JobReadings, Adding
<1>4. JobRemoval(v)'
  <2> SUFFICES ASSUME Removing(v)
               PROVE  /\ \A u \in JobRequest \ {v} : crPc'[u] = "idle"
                      /\ crPc[v] = "save" => ~crJob'.there
    BY <1>1 DEF JobRemoval, Removing
  <2>1. \A u \in JobRequest \ {v} : crPc[u] = "idle"
    BY <1>2 DEF JobOf, JobRemoval
  <2>2. \A u \in JobRequest \ {w} : crPc'[u] = crPc[u]
    BY DEF Moves, JobInv, Cr!TypeOK, Cr!Worker
  <2>3. label = "idle"
    BY <2>1
  <2> QED BY <1>1, <1>2, <2>1, <2>2, <2>3 DEF JobOf, JobRemoval
<1> QED BY <1>3, <1>4 DEF JobOf

LEMMA JobLocalInv ==
  ASSUME JobInv, NEW w \in JobRequest, NEW label \in Cr!Label, NEW m \in Cr!Local,
         Moves(w, label, m), UNCHANGED <<crRow, crLock, crHosts>>,
         crJob' \in Cr!Job, crResult' \subseteq JobHost,
         crJob' = crJob \/ crPc[w] # "idle",
         crJob'.there => crRow.live /\ crRow.command = crJob'.command,
         crPc[w] = "idle" => label = "idle" \/ \A v \in JobRequest : ~Removing(v),
         JobOf(w)'
  PROVE  JobInv'
<1>1. Cr!TypeOK'
  BY JobMoves DEF JobInv, Cr!TypeOK, Cr!Worker
<1>2. \A v \in JobRequest : JobOf(v)'
  BY JobLocal
<1> QED BY <1>1, <1>2 DEF JobInv, Cr!ScheduledIsStored

\* What w finds when it takes a step, and the names its properties have after it.
LEMMA JobNow ==
  ASSUME JobInv, NEW w \in JobRequest
  PROVE  /\ Cr!TypeOK /\ w \in Cr!Worker /\ crMem[w] \in Cr!Local /\ crPc[w] \in Cr!Label
         /\ crRow \in Cr!Row /\ crJob \in Cr!Job /\ crResult \subseteq JobHost
         /\ crHosts \subseteq JobHost /\ crLock \in JobRequest \cup {NoOne, Lost}
         /\ JobLock(w) /\ JobRemoval(w) /\ JobReadings(w)
         /\ crRow.live => crRow.there
         /\ crJob.there => crRow.live /\ crRow.command = crJob.command
  BY DEF JobInv, JobOf, Cr!TypeOK, Cr!Worker, Cr!ScheduledIsStored

LEMMA JobAfter ==
  ASSUME JobInv, NEW w \in JobRequest, NEW label, NEW m, Moves(w, label, m)
  PROVE  /\ crPc'[w] = label /\ crMem'[w] = m
         /\ \A v \in JobRequest \ {w} : crPc'[v] = crPc[v] /\ crMem'[v] = crMem[v]
  BY DEF Moves, JobInv, Cr!TypeOK, Cr!Worker

\* What has to hold of the label and the memory that a step leaves to w.
LEMMA JobOfAfter ==
  ASSUME JobInv, NEW w \in JobRequest, NEW label, NEW m, Moves(w, label, m),
         label \in {"lock", "read", "commit", "unlock"} => m.kind = "add",
         label \in {"read", "commit", "unlock"} \/ (label \in {"resolve", "schedule"} /\ m.kind = "add")
            => crLock' = w /\ m.redis,
         label # "idle" /\ m.kind = "remove" =>
            Removing(w) /\ (label = "save" => ~crJob'.there),
         label = "commit" =>
            /\ ~crRow'.live /\ m.seen.there = crRow'.there
            /\ ~m.seen.live /\ m.seen.command = crRow'.command,
         label \in {"resolve", "schedule"} /\ m.kind = "add" =>
            crRow'.live /\ crRow'.command = m.command,
         label \in {"act", "resolve", "schedule"} /\ m.kind = "resume" =>
            crRow'.live /\ crRow'.command = m.seen.command
  PROVE  JobOf(w)'
<1>1. /\ crPc'[w] = label /\ crMem'[w] = m
      /\ \A v \in JobRequest \ {w} : crPc'[v] = crPc[v]
  BY JobAfter
<1>2. JobLock(w)'
  BY <1>1 DEF JobLock, Adding
<1>3. JobRemoval(w)'
  BY <1>1, JobNow DEF JobRemoval, Removing
<1>4. JobReadings(w)'
  BY <1>1 DEF JobReadings
<1> QED BY <1>2, <1>3, <1>4 DEF JobOf

\* The request is answered: nothing is left to say of it.
LEMMA JobAnswers ==
  ASSUME JobInv, NEW w \in JobRequest, Cr!Answer(w)
  PROVE  Moves(w, "idle", Cr!Blank) /\ JobOf(w)'
<1>1. Moves(w, "idle", Cr!Blank)
  BY DEF Cr!Answer, Cr!Goto, Moves
<1>2. crPc'[w] = "idle"
  BY <1>1, JobAfter
<1> QED BY <1>1, <1>2 DEF JobOf, JobLock, Adding, JobRemoval, Removing, JobReadings

\* What is left after Forget.
LEMMA JobForgets ==
  ASSUME JobInv, NEW w \in JobRequest, NEW label \in Cr!Label, Cr!Goto(w, label), Cr!Forget(w)
  PROVE  \E m \in Cr!Local : /\ Moves(w, label, m)
                             /\ m.kind = crMem[w].kind /\ m.redis = crMem[w].redis
<1> DEFINE m == [Cr!Blank EXCEPT !.kind = crMem[w].kind, !.user = crMem[w].user,
                                 !.redis = crMem[w].redis]
<1>1. m \in Cr!Local
  BY JobNow, JobMemories
<1>2. m.kind = crMem[w].kind /\ m.redis = crMem[w].redis
  BY JobBlank DEF Cr!Local
<1>3. Moves(w, label, m)
  BY DEF Cr!Goto, Cr!Forget, Moves
<1> QED BY <1>1, <1>2, <1>3

LEMMA JobSubmit ==
  ASSUME JobSetting, JobInv, NEW w \in JobRequest, Cr!Submit(w)
  PROVE  JobInv'
<1>1. PICK k \in Cr!Kind, u \in User, c \in Command, ts \in SUBSET Target :
         /\ k \in Alone => \A v \in JobRequest : crPc[v] = "idle"
         /\ Moves(w, Cr!Entry(k), Cr!Asked(k, u, c, ts))
  BY DEF Cr!Submit, Cr!Goto, Moves
<1> DEFINE label == Cr!Entry(k)
           m == Cr!Asked(k, u, c, ts)
<1>2. label \in Cr!Label /\ label \in {"lock", "act", "look"} /\ (label = "act" => k = "close")
  BY DEF Cr!Label, Cr!Entry
<1>3. m \in Cr!Local /\ m.kind = k
  BY JobNow, JobMemories, JobBlank DEF Cr!Local, Cr!Asked
<1>4. Moves(w, label, m)
  BY <1>1
<1>5. \A v \in JobRequest : ~Removing(v)
  BY DEF Cr!Submit, Cr!Busy, Removing, JobSetting
<1> HIDE DEF label, m
<1>6. JobOf(w)'
  <2>1. crPc'[w] = label /\ crMem'[w].kind = k
    BY <1>3, <1>4, JobAfter
  <2>2. k = "remove" => \A v \in JobRequest \ {w} : crPc'[v] = "idle"
    BY <1>1, <1>4, JobAfter DEF JobSetting
  <2>3. label = "lock" => k = "add"
    BY DEF label, Cr!Entry
  <2> QED BY <1>2, <2>1, <2>2, <2>3
          DEF JobOf, JobLock, Adding, JobRemoval, Removing, JobReadings
<1> QED BY <1>2, <1>3, <1>4, <1>5, <1>6, JobLocalInv, JobNow DEF Cr!Submit

LEMMA JobAddRead ==
  ASSUME JobInv, NEW w \in JobRequest, Cr!AddRead(w)
  PROVE  JobInv'
<1>1. /\ Cr!TypeOK /\ crMem[w] \in Cr!Local /\ crLock = w /\ crMem[w].redis
      /\ crMem[w].kind = "add" /\ UNCHANGED <<crRow, crJob, crLock, crHosts, crResult>> /\ crPc[w] = "read"
      /\ JobRemoval(w)
  BY JobNow DEF Cr!AddRead, JobLock, Adding
<1>2. CASE crRow.there /\ crRow.live
  <2>1. Cr!Goto(w, "unlock") /\ Cr!Forget(w)
    BY <1>2 DEF Cr!AddRead
  <2>2. "unlock" \in Cr!Label
    BY DEF Cr!Label
  <2>3. PICK m \in Cr!Local : Moves(w, "unlock", m) /\ m.kind = crMem[w].kind
                              /\ m.redis = crMem[w].redis
    BY <2>1, <2>2, JobForgets
  <2>4. JobOf(w)'
    BY <1>1, <2>3, JobOfAfter DEF JobLock, Adding, Removing, JobReadings
  <2> QED BY <1>1, <2>2, <2>3, <2>4, JobLocalInv, JobNow
<1>3. CASE ~(crRow.there /\ crRow.live)
  <2> DEFINE m == [crMem[w] EXCEPT !.seen = crRow]
  <2>1. m \in Cr!Local /\ m.kind = crMem[w].kind /\ m.redis = crMem[w].redis /\ m.seen = crRow
    BY <1>1, JobNow, JobMemories DEF Cr!Local
  <2>2. Moves(w, "commit", m)
    BY <1>3 DEF Cr!AddRead, Cr!Goto, Moves
  <2>3. ~crRow.live
    BY <1>3, JobNow
  <2> HIDE DEF m
  <2>4. "commit" \in Cr!Label
    BY DEF Cr!Label
  <2>5. JobOf(w)'
    BY <1>1, <2>1, <2>2, <2>3, JobOfAfter DEF JobLock, Adding, Removing, JobReadings
  <2> QED BY <1>1, <2>1, <2>2, <2>4, <2>5, JobLocalInv, JobNow
<1> QED BY <1>2, <1>3

LEMMA JobAddResolve ==
  ASSUME JobInv, NEW w \in JobRequest, Cr!AddResolve(w)
  PROVE  JobInv'
<1> DEFINE label == IF Cr!Resolve(crRow.targets) = {} THEN "unlock" ELSE "schedule"
           m == [crMem[w] EXCEPT !.ids = Cr!Resolve(crRow.targets)]
<1>1. m \in Cr!Local /\ m.kind = crMem[w].kind /\ m.redis = crMem[w].redis
      /\ m.command = crMem[w].command
  <2>1. Cr!Resolve(crRow.targets) \in SUBSET JobHost /\ crMem[w] \in Cr!Local
    BY JobNow, JobResolve
  <2> QED BY <2>1 DEF Cr!Local
<1>2. Moves(w, label, m)
  BY DEF Cr!AddResolve, Cr!Goto, Moves
<1>3. label \in Cr!Label /\ label \in {"unlock", "schedule"}
  BY DEF Cr!Label
<1>4. /\ UNCHANGED <<crRow, crJob, crLock, crHosts, crResult>>
      /\ crPc[w] = "resolve" /\ crMem[w].kind = "add"
  BY DEF Cr!AddResolve
<1> HIDE DEF label, m
<1>5. JobOf(w)'
  BY <1>1, <1>2, <1>3, <1>4, JobNow, JobOfAfter DEF JobLock, Adding, Removing, JobReadings
<1> QED BY <1>1, <1>2, <1>3, <1>4, <1>5, JobLocalInv, JobNow

LEMMA JobAddSchedule ==
  ASSUME JobInv, NEW w \in JobRequest, Cr!AddSchedule(w)
  PROVE  JobInv'
<1>1. /\ UNCHANGED <<crRow, crLock, crHosts, crResult>>
      /\ crPc[w] = "schedule" /\ crMem[w].kind = "add"
      /\ crJob' = IF crJob.there THEN crJob ELSE Cr!Scheduled(crMem[w].command, crMem[w].ids)
  BY DEF Cr!AddSchedule
<1>2. "unlock" \in Cr!Label
  BY DEF Cr!Label
<1>3. PICK m \in Cr!Local : Moves(w, "unlock", m) /\ m.kind = crMem[w].kind
                            /\ m.redis = crMem[w].redis
  BY <1>2, JobForgets DEF Cr!AddSchedule
<1>4. crJob' \in Cr!Job
  BY <1>1, JobNow DEF Cr!Scheduled, Cr!Job, Cr!Local
<1>5. crJob'.there => crRow.live /\ crRow.command = crJob'.command
  BY <1>1, JobNow DEF Cr!Scheduled, JobReadings
<1>6. JobOf(w)'
  BY <1>1, <1>3, JobNow, JobOfAfter DEF JobLock, Adding, Removing, JobReadings
<1> QED BY <1>1, <1>2, <1>3, <1>4, <1>5, <1>6, JobLocalInv, JobNow

\* Only the lock changes hands: nobody else was between its SET NX and the finally clause.
LEMMA JobAddLock ==
  ASSUME JobSetting, JobInv, NEW w \in JobRequest, Cr!AddLock(w)
  PROVE  JobInv'
<1>1. UNCHANGED <<crRow, crJob, crHosts, crResult>> /\ crPc[w] = "lock" /\ crMem[w].kind = "add"
  BY JobNow DEF Cr!AddLock, JobLock
<1>2. CASE crLock = NoOne /\ crLock' = w /\ Cr!Goto(w, "read")
           /\ crMem' = [crMem EXCEPT ![w].redis = TRUE]
  <2> DEFINE m == [crMem[w] EXCEPT !.redis = TRUE]
  <2>1. m \in Cr!Local /\ m.kind = crMem[w].kind /\ m.redis
    BY JobNow DEF Cr!Local
  <2>2. Moves(w, "read", m) /\ "read" \in Cr!Label
    BY <1>2 DEF Cr!Goto, Moves, Cr!Label
  <2> HIDE DEF m
  <2>3. Cr!TypeOK'
    BY <1>1, <1>2, <2>1, <2>2, JobMoves, JobNow
  <2>4. JobOf(w)'
    BY <1>1, <1>2, <2>1, <2>2, JobOfAfter DEF Removing
  <2>5. ASSUME NEW v \in JobRequest, v # w
        PROVE  JobOf(v)'
    <3>1. /\ crPc'[v] = crPc[v] /\ crMem'[v] = crMem[v]
          /\ JobLock(v) /\ JobRemoval(v) /\ JobReadings(v)
      BY <2>2, <2>5, JobAfter, JobNow
    <3>2. ~Adding(v)
      BY <1>2, <3>1, JobConstants DEF JobLock
    <3>3. ~Removing(v)
      BY <1>1, <2>5, <3>1 DEF JobRemoval
    <3> QED BY <1>1, <3>1, <3>2, <3>3
            DEF JobOf, JobLock, Adding, JobRemoval, Removing, JobReadings
  <2> QED BY <1>1, <2>3, <2>4, <2>5 DEF JobInv, Cr!ScheduledIsStored
<1>3. CASE Cr!Answer(w) /\ UNCHANGED crLock
  BY <1>1, <1>3, JobAnswers, JobLocalInv, JobNow, JobBlank DEF Cr!Label
<1> QED BY <1>2, <1>3 DEF Cr!AddLock, JobSetting

LEMMA JobAddCommit ==
  ASSUME JobSetting, JobInv, NEW w \in JobRequest, Cr!AddCommit(w)
  PROVE  JobInv'
<1>1. /\ UNCHANGED <<crJob, crLock, crHosts, crResult>> /\ crPc[w] = "commit"
      /\ Cr!TypeOK /\ crMem[w] \in Cr!Local /\ crRow \in Cr!Row /\ crLock = w /\ crMem[w].redis
      /\ crMem[w].kind = "add" /\ ~crRow.live /\ crMem[w].seen.there = crRow.there
      /\ ~crMem[w].seen.live /\ crMem[w].seen.command = crRow.command
  BY JobNow DEF Cr!AddCommit, JobLock, Adding, JobReadings
<1>2. CASE /\ crRow' = [Cr!Written(crMem[w].seen, Cr!NewRow(w)) EXCEPT !.targets = crMem[w].targets]
           /\ Cr!Goto(w, "resolve") /\ crMem' = [crMem EXCEPT ![w].seen = Cr!NoRow]
  <2> DEFINE m == [crMem[w] EXCEPT !.seen = Cr!NoRow]
  <2>1. m \in Cr!Local /\ m.kind = crMem[w].kind /\ m.redis = crMem[w].redis
        /\ m.command = crMem[w].command
    BY <1>1, JobBlank DEF Cr!Local
  <2>2. Moves(w, "resolve", m) /\ "resolve" \in Cr!Label
    BY <1>2 DEF Cr!Goto, Moves, Cr!Label
  <2> HIDE DEF m
  <2>3. Cr!NewRow(w) \in Cr!Row /\ Cr!NewRow(w).there /\ Cr!NewRow(w).live
        /\ Cr!NewRow(w).command = crMem[w].command
    BY <1>1 DEF Cr!NewRow, Cr!Row, Cr!Local
  <2>4. DOMAIN crRow = {"there", "live", "on", "owner", "command", "targets"}
    BY <1>1 DEF Cr!Row
  <2>5. crRow' \in Cr!Row
    BY <1>1, <1>2, <2>3, <2>4 DEF Cr!Written, Cr!Row, Cr!Local
  <2>6. crRow'.there /\ crRow'.live /\ crRow'.command = crMem[w].command
    BY <1>1, <1>2, <2>3, <2>4 DEF Cr!Written, Cr!Row
  <2>7. Cr!TypeOK'
    BY <1>1, <2>1, <2>2, <2>5, JobMoves, JobNow
  <2>8. JobOf(w)'
    BY <1>1, <2>1, <2>2, <2>6, JobOfAfter, JobNow DEF Removing
  <2>9. ASSUME NEW v \in JobRequest, v # w
        PROVE  JobOf(v)'
    <3>1. /\ crPc'[v] = crPc[v] /\ crMem'[v] = crMem[v]
          /\ JobLock(v) /\ JobRemoval(v) /\ JobReadings(v)
      BY <2>2, <2>9, JobAfter, JobNow
    <3>2. ~Adding(v)
      BY <1>1, <2>9, <3>1 DEF JobLock
    <3>3. ~Removing(v)
      BY <1>1, <2>9, <3>1 DEF JobRemoval
    <3> QED BY <1>1, <3>1, <3>2, <3>3
            DEF JobOf, JobLock, Adding, JobRemoval, Removing, JobReadings
  <2> QED BY <1>1, <2>6, <2>7, <2>8, <2>9, JobNow DEF JobInv, Cr!ScheduledIsStored
<1>3. CASE Cr!Goto(w, "unlock") /\ Cr!Forget(w) /\ UNCHANGED crRow
  <2>1. "unlock" \in Cr!Label
    BY DEF Cr!Label
  <2>2. PICK m \in Cr!Local : Moves(w, "unlock", m) /\ m.kind = crMem[w].kind
                              /\ m.redis = crMem[w].redis
    BY <1>3, <2>1, JobForgets
  <2>3. JobOf(w)'
    BY <1>1, <2>2, JobNow, JobOfAfter DEF Removing
  <2> QED BY <1>1, <1>3, <2>1, <2>2, <2>3, JobLocalInv, JobNow
<1> QED BY <1>2, <1>3 DEF Cr!AddCommit

\* The lock of a request that is over goes; nobody else relied on it.
LEMMA JobAddUnlock ==
  ASSUME JobSetting, JobInv, NEW w \in JobRequest, Cr!AddUnlock(w)
  PROVE  JobInv'
<1>1. /\ UNCHANGED <<crRow, crJob, crHosts, crResult>> /\ Cr!Answer(w)
      /\ crPc[w] = "unlock" /\ crLock = w /\ crLock' = NoOne
  BY JobNow DEF Cr!AddUnlock, JobLock, Adding, JobSetting
<1>2. Moves(w, "idle", Cr!Blank) /\ JobOf(w)' /\ "idle" \in Cr!Label
  BY <1>1, JobAnswers DEF Cr!Label
<1>3. Cr!TypeOK'
  BY <1>1, <1>2, JobMoves, JobNow, JobBlank
<1>4. ASSUME NEW v \in JobRequest, v # w
      PROVE  JobOf(v)'
  <2>1. /\ crPc'[v] = crPc[v] /\ crMem'[v] = crMem[v]
        /\ JobLock(v) /\ JobRemoval(v) /\ JobReadings(v)
    BY <1>2, <1>4, JobAfter, JobNow
  <2>2. ~Adding(v)
    BY <1>1, <1>4, <2>1 DEF JobLock
  <2>3. ~Removing(v)
    BY <1>1, <1>4, <2>1 DEF JobRemoval
  <2> QED BY <1>1, <2>1, <2>2, <2>3
          DEF JobOf, JobLock, Adding, JobRemoval, Removing, JobReadings
<1> QED BY <1>1, <1>2, <1>3, <1>4 DEF JobInv, Cr!ScheduledIsStored

LEMMA JobLook ==
  ASSUME JobInv, NEW w \in JobRequest, Cr!Look(w)
  PROVE  JobInv'
<1>1. /\ UNCHANGED <<crRow, crJob, crLock, crHosts, crResult>> /\ crPc[w] = "look"
  BY DEF Cr!Look
<1>2. CASE crRow.there /\ crRow.live
  <2> DEFINE m == [crMem[w] EXCEPT !.seen = crRow]
  <2>1. m \in Cr!Local /\ m.kind = crMem[w].kind /\ m.redis = crMem[w].redis /\ m.seen = crRow
    BY JobNow DEF Cr!Local
  <2>2. Moves(w, "act", m) /\ "act" \in Cr!Label
    BY <1>2 DEF Cr!Look, Cr!Goto, Moves, Cr!Label
  <2> HIDE DEF m
  <2>3. JobOf(w)'
    BY <1>1, <1>2, <2>1, <2>2, JobNow, JobOfAfter DEF Removing
  <2> QED BY <1>1, <2>1, <2>2, <2>3, JobLocalInv, JobNow
<1>3. CASE Cr!Answer(w)
  BY <1>1, <1>3, JobAnswers, JobLocalInv, JobNow, JobBlank DEF Cr!Label
<1> QED BY <1>2, <1>3 DEF Cr!Look

LEMMA JobDenied ==
  ASSUME JobInv, NEW w \in JobRequest, Cr!Denied(w)
  PROVE  JobInv'
  BY JobAnswers, JobLocalInv, JobNow, JobBlank DEF Cr!Denied, Cr!Label

\* A step that goes to a label with what Forget leaves, and may have touched the job.
LEMMA JobForgetful ==
  ASSUME JobInv, NEW w \in JobRequest, NEW label \in Cr!Label, Cr!Goto(w, label), Cr!Forget(w),
         UNCHANGED <<crRow, crLock, crHosts, crResult>>, crPc[w] # "idle", crJob' \in Cr!Job,
         crJob'.there => crRow.live /\ crRow.command = crJob'.command,
         label \in {"save", "resolve"},
         label = "save" /\ crMem[w].kind = "remove" => ~crJob'.there,
         label = "resolve" => crMem[w].kind = "run"
  PROVE  JobInv'
<1>1. PICK m \in Cr!Local : Moves(w, label, m) /\ m.kind = crMem[w].kind
                            /\ m.redis = crMem[w].redis
  BY JobForgets
<1>2. JobOf(w)'
  BY <1>1, JobOfAfter, JobNow DEF Removing
<1> QED BY <1>1, <1>2, JobLocalInv, JobNow

LEMMA JobActs ==
  ASSUME JobInv, NEW w \in JobRequest,
         Cr!PauseAct(w) \/ Cr!RemoveAct(w) \/ Cr!ResumeAct(w) \/ Cr!RunAct(w)
  PROVE  JobInv'
<1>1. /\ UNCHANGED <<crRow, crLock, crHosts, crResult>> /\ crPc[w] = "act"
      /\ "save" \in Cr!Label /\ "resolve" \in Cr!Label
  BY DEF Cr!PauseAct, Cr!RemoveAct, Cr!ResumeAct, Cr!RunAct, Cr!Acts, Cr!Label
<1>2. CASE Cr!PauseAct(w)
  <2>1. crJob' \in Cr!Job /\ crJob'.there = crJob.there /\ crJob'.command = crJob.command
    BY <1>2, JobNow DEF Cr!PauseAct, Cr!Job
  <2>2. Cr!Goto(w, "save") /\ Cr!Forget(w) /\ crMem[w].kind \in {"pause", "close"}
    BY <1>2 DEF Cr!PauseAct, Cr!Acts
  <2> QED BY <1>1, <2>1, <2>2, JobForgetful, JobNow
<1>3. CASE Cr!RemoveAct(w)
  <2>1. crJob' \in Cr!Job /\ ~crJob'.there
    BY <1>3, JobBlank DEF Cr!RemoveAct, Cr!NoJob
  <2>2. Cr!Goto(w, "save") /\ Cr!Forget(w)
    BY <1>3 DEF Cr!RemoveAct
  <2> QED BY <1>1, <2>1, <2>2, JobForgetful, JobNow
<1>4. CASE Cr!ResumeAct(w)
  <2>1. crMem[w].kind = "resume"
    BY <1>4 DEF Cr!ResumeAct, Cr!Acts
  <2>2. CASE crJob.there
    <3>1. crJob' \in Cr!Job /\ crJob'.there = crJob.there /\ crJob'.command = crJob.command
      BY <1>4, <2>2, JobNow DEF Cr!ResumeAct, Cr!Job
    <3>2. Cr!Goto(w, "save") /\ Cr!Forget(w)
      BY <1>4, <2>2 DEF Cr!ResumeAct
    <3> QED BY <1>1, <2>1, <3>1, <3>2, JobForgetful, JobNow
  <2>3. CASE ~crJob.there
    <3>1. Moves(w, "resolve", crMem[w]) /\ UNCHANGED crJob
      BY <1>4, <2>3, JobNow, JobStays DEF Cr!ResumeAct, Cr!Goto
    <3>2. JobOf(w)'
      BY <1>1, <2>1, <3>1, JobNow, JobOfAfter DEF JobReadings
    <3> QED BY <1>1, <3>1, <3>2, JobLocalInv, JobNow
  <2> QED BY <2>2, <2>3
<1>5. CASE Cr!RunAct(w)
  <2>1. Cr!Goto(w, "resolve") /\ Cr!Forget(w) /\ crMem[w].kind = "run" /\ UNCHANGED crJob
    BY <1>5 DEF Cr!RunAct, Cr!Acts
  <2> QED BY <1>1, <2>1, JobForgetful, JobNow
<1> QED BY <1>2, <1>3, <1>4, <1>5

LEMMA JobResolveAgain ==
  ASSUME JobInv, NEW w \in JobRequest, Cr!ResolveAgain(w)
  PROVE  JobInv'
<1> DEFINE ids == Cr!Resolve(crRow.targets)
           m == [crMem[w] EXCEPT !.ids = ids]
<1>1. /\ UNCHANGED <<crRow, crJob, crLock, crHosts, crResult>>
      /\ crPc[w] = "resolve" /\ crMem[w].kind \in {"resume", "run"}
  BY DEF Cr!ResolveAgain
<1>2. CASE ids # {}
  <2>1. m \in Cr!Local /\ m.kind = crMem[w].kind /\ m.redis = crMem[w].redis
        /\ m.seen = crMem[w].seen
    <3>1. ids \in SUBSET JobHost /\ crMem[w] \in Cr!Local
      BY JobNow, JobResolve
    <3> HIDE DEF ids
    <3> QED BY <3>1 DEF Cr!Local
  <2>2. /\ Cr!Goto(w, IF crMem[w].kind = "run" THEN "run" ELSE "schedule")
        /\ crMem' = [crMem EXCEPT ![w] = m]
    BY <1>2 DEF Cr!ResolveAgain
  <2> HIDE DEF m, ids
  <2>3. CASE crMem[w].kind = "run"
    <3>1. Moves(w, "run", m) /\ "run" \in Cr!Label
      BY <2>2, <2>3 DEF Cr!Goto, Moves, Cr!Label
    <3>2. JobOf(w)'
      BY <2>1, <2>3, <3>1, JobOfAfter
    <3> QED BY <1>1, <2>1, <3>1, <3>2, JobLocalInv, JobNow
  <2>4. CASE crMem[w].kind = "resume"
    <3>1. Moves(w, "schedule", m) /\ "schedule" \in Cr!Label
      BY <2>2, <2>4 DEF Cr!Goto, Moves, Cr!Label
    <3>2. JobOf(w)'
      BY <1>1, <2>1, <2>4, <3>1, JobNow, JobOfAfter DEF JobReadings
    <3> QED BY <1>1, <2>1, <3>1, <3>2, JobLocalInv, JobNow
  <2> QED BY <1>1, <2>3, <2>4
<1>3. CASE ids = {} /\ crMem[w].kind = "run"
  <2>1. Cr!Answer(w)
    BY <1>3 DEF Cr!ResolveAgain
  <2> QED BY <1>1, <2>1, JobAnswers, JobLocalInv, JobNow, JobBlank DEF Cr!Label
<1>4. CASE ids = {} /\ crMem[w].kind # "run"
  <2>1. Cr!Goto(w, "save") /\ Cr!Forget(w) /\ "save" \in Cr!Label
    BY <1>4 DEF Cr!ResolveAgain, Cr!Label
  <2> QED BY <1>1, <2>1, JobForgetful, JobNow
<1> QED BY <1>2, <1>3, <1>4

LEMMA JobReschedule ==
  ASSUME JobInv, NEW w \in JobRequest, Cr!Reschedule(w)
  PROVE  JobInv'
<1>1. /\ UNCHANGED <<crRow, crLock, crHosts, crResult>>
      /\ crPc[w] = "schedule" /\ crMem[w].kind = "resume" /\ "save" \in Cr!Label
  BY DEF Cr!Reschedule, Cr!Label
<1>2. CASE crJob.there
  <2>1. Cr!Answer(w) /\ UNCHANGED crJob
    BY <1>2 DEF Cr!Reschedule
  <2> QED BY <1>1, <2>1, JobAnswers, JobLocalInv, JobNow, JobBlank DEF Cr!Label
<1>3. CASE ~crJob.there
  <2>1. /\ crJob' = Cr!Scheduled(crMem[w].seen.command, crMem[w].ids)
        /\ Cr!Goto(w, "save") /\ Cr!Forget(w)
    BY <1>3 DEF Cr!Reschedule
  <2>2. crJob' \in Cr!Job
    BY <2>1, JobNow DEF Cr!Scheduled, Cr!Job, Cr!Local, Cr!Row
  <2>3. crRow.live /\ crRow.command = crJob'.command
    BY <1>1, <2>1, JobNow DEF Cr!Scheduled, JobReadings
  <2> QED BY <1>1, <2>1, <2>2, <2>3, JobForgetful
<1> QED BY <1>2, <1>3

\* Only the mark of a deletion bears on the others, and it comes when they are idle.
LEMMA JobSave ==
  ASSUME JobInv, NEW w \in JobRequest, Cr!Save(w)
  PROVE  JobInv'
<1>1. /\ UNCHANGED <<crJob, crLock, crHosts, crResult>>
      /\ crPc[w] = "save" /\ Cr!Answer(w) /\ "idle" \in Cr!Label
  BY DEF Cr!Save, Cr!Label
<1>2. Moves(w, "idle", Cr!Blank) /\ JobOf(w)'
  BY <1>1, JobAnswers
<1>3. CASE crMem[w].kind = "remove" /\ crRow' = [crRow EXCEPT !.live = FALSE]
  <2>1. Removing(w) /\ ~crJob.there
    BY <1>1, <1>3, JobNow DEF Removing, JobRemoval
  <2>2. crRow' \in Cr!Row /\ ~crRow'.live
    BY <1>3, JobNow DEF Cr!Row
  <2>3. Cr!TypeOK'
    BY <1>1, <1>2, <2>2, JobMoves, JobNow, JobBlank
  <2>4. ASSUME NEW v \in JobRequest, v # w
        PROVE  JobOf(v)'
    <3>1. crPc'[v] = "idle"
      BY <1>2, <2>1, <2>4, JobAfter, JobNow DEF JobRemoval
    <3> QED BY <3>1 DEF JobOf, JobLock, Adding, JobRemoval, Removing, JobReadings
  <2> QED BY <1>1, <1>2, <2>1, <2>2, <2>3, <2>4 DEF JobInv, Cr!ScheduledIsStored
<1>4. CASE crRow' = crRow \/ \E on \in BOOLEAN : crRow' = [crRow EXCEPT !.on = on]
  <2>1. /\ crRow' \in Cr!Row /\ crRow'.there = crRow.there /\ crRow'.live = crRow.live
        /\ crRow'.command = crRow.command
    BY <1>4, JobNow DEF Cr!Row
  <2>2. Cr!TypeOK'
    BY <1>1, <1>2, <2>1, JobMoves, JobNow, JobBlank
  <2>3. ASSUME NEW v \in JobRequest, v # w
        PROVE  JobOf(v)'
    <3>1. /\ crPc'[v] = crPc[v] /\ crMem'[v] = crMem[v]
          /\ JobLock(v) /\ JobRemoval(v) /\ JobReadings(v)
      BY <1>2, <2>3, JobAfter, JobNow
    <3>2. ~Removing(v)
      BY <1>1, <2>3, <3>1 DEF JobRemoval
    <3> QED BY <1>1, <2>1, <3>1, <3>2
            DEF JobOf, JobLock, Adding, JobRemoval, Removing, JobReadings
  <2> QED BY <1>1, <1>2, <2>1, <2>2, <2>3 DEF JobInv, Cr!ScheduledIsStored
<1>5. \/ crRow' = crRow
      \/ crMem[w].kind = "remove" /\ crRow' = [crRow EXCEPT !.live = FALSE]
      \/ \E on \in BOOLEAN : crRow' = [crRow EXCEPT !.on = on]
  <2>1. CASE crMem[w].kind = "close"
    BY <2>1 DEF Cr!Save, Cr!Saved
  <2>2. CASE crMem[w].kind = "remove"
    BY <2>2 DEF Cr!Save, Cr!Saved
  <2>3. CASE crMem[w].kind \notin {"close", "remove"} /\ crRow.live
    BY <2>3 DEF Cr!Save, Cr!Saved
  <2>4. CASE crMem[w].kind \notin {"close", "remove"} /\ ~crRow.live
    BY <2>4 DEF Cr!Save, Cr!Saved
  <2> QED BY <2>1, <2>2, <2>3, <2>4
<1> QED BY <1>3, <1>4, <1>5

\* The scheduler's thread has nothing that the requests' properties speak of.
LEMMA JobScheduler ==
  ASSUME JobInv, NEW label \in Cr!Label, NEW m \in Cr!Local, Moves(Scheduler, label, m),
         UNCHANGED <<crRow, crJob, crLock, crHosts>>, crResult' \subseteq JobHost
  PROVE  JobInv'
<1>1. Scheduler \in Cr!Worker /\ Cr!TypeOK
  BY DEF Cr!Worker, JobInv
<1>2. Cr!TypeOK'
  BY <1>1, JobMoves DEF JobInv, Cr!TypeOK
<1>3. ASSUME NEW v \in JobRequest
      PROVE  JobOf(v)'
  <2>1. \A u \in JobRequest : crPc'[u] = crPc[u] /\ crMem'[u] = crMem[u]
    BY <1>1, JobConstants DEF Moves, Cr!TypeOK, Cr!Worker
  <2>2. JobOf(v)
    BY DEF JobInv
  <2> QED BY <1>1, <2>1, <2>2 DEF JobOf, JobLock, Adding, JobRemoval, Removing, JobReadings
<1> QED BY <1>2, <1>3 DEF JobInv, Cr!ScheduledIsStored

LEMMA JobExecute ==
  ASSUME JobInv, NEW w \in Cr!Worker, Cr!Execute(w)
  PROVE  JobInv'
<1>1. /\ UNCHANGED <<crRow, crJob, crLock, crHosts>> /\ crPc[w] = "run"
      /\ Cr!TypeOK /\ crMem[w] \in Cr!Local /\ crResult \subseteq JobHost
  BY DEF Cr!Execute, Cr!RunHost, Cr!RunSave, JobInv, Cr!TypeOK
<1>2. CASE Cr!RunHost(w)
  <2>1. PICK h \in crMem[w].ids, ok \in BOOLEAN :
           crMem' = [crMem EXCEPT ![w].ids = crMem[w].ids \ {h},
                        ![w].bad = IF ok THEN crMem[w].bad ELSE crMem[w].bad \cup {h}]
    BY <1>2 DEF Cr!RunHost
  <2> DEFINE m == [crMem[w] EXCEPT !.ids = crMem[w].ids \ {h},
                                   !.bad = IF ok THEN crMem[w].bad ELSE crMem[w].bad \cup {h}]
  <2>2. m \in Cr!Local /\ m.kind = crMem[w].kind
    BY <1>1 DEF Cr!Local
  <2>3. crMem' = [crMem EXCEPT ![w] = m] /\ UNCHANGED <<crPc, crResult>>
    BY <1>1, <1>2, <2>1 DEF Cr!RunHost, Cr!TypeOK
  <2> HIDE DEF m
  <2>4. Moves(w, "run", m) /\ "run" \in Cr!Label
    BY <1>1, <2>3 DEF Moves, Cr!Label, Cr!TypeOK
  <2>5. CASE w = Scheduler
    BY <1>1, <2>2, <2>3, <2>4, <2>5, JobScheduler
  <2>6. CASE w \in JobRequest
    <3>1. JobOf(w)'
      BY <1>1, <2>2, <2>4, <2>6, JobOfAfter DEF Removing
    <3> QED BY <1>1, <2>2, <2>3, <2>4, <2>6, <3>1, JobLocalInv, JobNow
  <2> QED BY <2>5, <2>6 DEF Cr!Worker
<1>3. CASE Cr!RunSave(w)
  <2>1. Cr!Answer(w) /\ crResult' \subseteq JobHost
    BY <1>1, <1>3 DEF Cr!RunSave, Cr!Local
  <2>2. Moves(w, "idle", Cr!Blank) /\ "idle" \in Cr!Label /\ Cr!Blank \in Cr!Local
    BY <2>1, JobBlank DEF Cr!Answer, Cr!Goto, Moves, Cr!Label
  <2>3. CASE w = Scheduler
    BY <1>1, <2>1, <2>2, <2>3, JobScheduler
  <2>4. CASE w \in JobRequest
    BY <1>1, <2>1, <2>2, <2>4, JobAnswers, JobLocalInv, JobNow
  <2> QED BY <2>3, <2>4 DEF Cr!Worker
<1> QED BY <1>2, <1>3 DEF Cr!Execute

LEMMA JobFire ==
  ASSUME JobInv, Cr!Fire
  PROVE  JobInv'
<1> DEFINE m == [Cr!Blank EXCEPT !.ids = crJob.hosts]
<1>1. m \in Cr!Local
  <2>1. crJob.hosts \in SUBSET JobHost
    BY DEF JobInv, Cr!TypeOK, Cr!Job
  <2> QED BY <2>1, JobBlank DEF Cr!Local
<1>2. Moves(Scheduler, "run", m) /\ "run" \in Cr!Label
  BY DEF Cr!Fire, Cr!Goto, Moves, Cr!Label
<1>3. UNCHANGED <<crRow, crJob, crLock, crHosts>> /\ crResult' \subseteq JobHost
  BY DEF Cr!Fire, JobInv, Cr!TypeOK
<1> HIDE DEF m
<1> QED BY <1>1, <1>2, <1>3, JobScheduler

\* A lock that lapses is one whose holder is gone, so that no request relies on it.
LEMMA JobLapse ==
  ASSUME JobSetting, JobInv, Cr!Lapse
  PROVE  JobInv'
<1>1. /\ crLock = Lost /\ crLock' = NoOne
      /\ UNCHANGED <<crRow, crJob, crHosts, crResult, crPc, crMem>>
  BY DEF Cr!Lapse, JobSetting
<1>2. Cr!TypeOK'
  BY <1>1 DEF JobInv, Cr!TypeOK
<1>3. ASSUME NEW v \in JobRequest
      PROVE  JobOf(v)'
  <2>1. JobLock(v) /\ JobRemoval(v) /\ JobReadings(v)
    BY JobNow
  <2>2. ~Adding(v)
    BY <1>1, <2>1, JobConstants DEF JobLock
  <2> QED BY <1>1, <2>1, <2>2 DEF JobOf, JobLock, Adding, JobRemoval, Removing, JobReadings
<1> QED BY <1>1, <1>2, <1>3 DEF JobInv, Cr!ScheduledIsStored

LEMMA JobDeleteHost ==
  ASSUME JobInv, Cr!DeleteHost
  PROVE  JobInv'
<1>1. /\ UNCHANGED <<crRow, crJob, crLock, crResult, crPc, crMem>>
      /\ crHosts' \subseteq crHosts
  BY DEF Cr!DeleteHost
<1>2. Cr!TypeOK'
  BY <1>1 DEF JobInv, Cr!TypeOK
<1>3. ASSUME NEW v \in JobRequest
      PROVE  JobOf(v)'
  <2>1. JobLock(v) /\ JobRemoval(v) /\ JobReadings(v)
    BY JobNow
  <2> QED BY <1>1, <2>1 DEF JobOf, JobLock, Adding, JobRemoval, Removing, JobReadings
<1> QED BY <1>1, <1>2, <1>3 DEF JobInv, Cr!ScheduledIsStored

\* What the scheduler holds after a restart is made from the row.
LEMMA JobRestart ==
  ASSUME JobInv, Cr!Restart
  PROVE  JobInv'
<1>1. /\ UNCHANGED <<crRow, crHosts, crResult>> /\ crJob' = Cr!Loaded
      /\ crLock' \in {NoOne, Lost}
      /\ crPc' = [w \in Cr!Worker |-> "idle"] /\ crMem' = [w \in Cr!Worker |-> Cr!Blank]
  BY DEF Cr!Restart
<1>2. /\ Cr!Loaded \in Cr!Job
      /\ Cr!Loaded.there => crRow.live /\ crRow.command = Cr!Loaded.command
  <2>1. crRow \in Cr!Row /\ Cr!Resolve(crRow.targets) \in SUBSET JobHost
    BY JobResolve DEF JobInv, Cr!TypeOK
  <2>2. CASE Cr!Loaded = Cr!NoJob
    BY <2>2, JobBlank DEF Cr!NoJob
  <2>3. CASE crRow.live /\ Cr!Loaded = Cr!Scheduled(crRow.command, Cr!Resolve(crRow.targets))
    <3> DEFINE ids == Cr!Resolve(crRow.targets)
    <3> HIDE DEF ids
    <3>1. ids \in SUBSET JobHost /\ Cr!Loaded = Cr!Scheduled(crRow.command, ids)
      BY <2>1, <2>3 DEF ids
    <3> QED BY <2>1, <2>3, <3>1 DEF Cr!Scheduled, Cr!Job, Cr!Row
  <2> QED BY <2>2, <2>3 DEF Cr!Loaded
<1>3. Cr!TypeOK'
  BY <1>1, <1>2, JobBlank DEF JobInv, Cr!TypeOK, Cr!Label
<1>4. ASSUME NEW v \in JobRequest
      PROVE  JobOf(v)'
  <2>1. crPc'[v] = "idle"
    BY <1>1 DEF Cr!Worker
  <2> QED BY <2>1 DEF JobOf, JobLock, Adding, JobRemoval, Removing, JobReadings
<1> QED BY <1>1, <1>2, <1>3, <1>4 DEF JobInv, Cr!ScheduledIsStored

LEMMA JobStutter ==
  ASSUME JobInv, UNCHANGED cr
  PROVE  JobInv'
<1>1. /\ crRow' = crRow /\ crJob' = crJob /\ crLock' = crLock /\ crHosts' = crHosts
      /\ crResult' = crResult /\ crPc' = crPc /\ crMem' = crMem
  BY DEF cr
<1>2. Cr!TypeOK'
  BY <1>1 DEF JobInv, Cr!TypeOK
<1>3. ASSUME NEW v \in JobRequest
      PROVE  JobOf(v)'
  <2>1. JobLock(v) /\ JobRemoval(v) /\ JobReadings(v)
    BY JobNow
  <2> QED BY <1>1, <2>1 DEF JobOf, JobLock, Adding, JobRemoval, Removing, JobReadings
<1> QED BY <1>1, <1>2, <1>3 DEF JobInv, Cr!ScheduledIsStored

LEMMA JobNext ==
  ASSUME JobSetting, JobInv, Cr!Next
  PROVE  JobInv'
<1>1. ASSUME NEW w \in JobRequest, Cr!Handle(w)
      PROVE  JobInv'
  BY <1>1, JobSubmit, JobAddLock, JobAddRead, JobAddCommit, JobAddResolve, JobAddSchedule,
     JobAddUnlock, JobLook, JobDenied, JobActs, JobResolveAgain, JobReschedule, JobSave
     DEF Cr!Handle
<1>2. ASSUME NEW w \in Cr!Worker, Cr!Execute(w)
      PROVE  JobInv'
  BY <1>2, JobExecute
<1>3. ASSUME Cr!Fire \/ Cr!Lapse \/ Cr!DeleteHost \/ Cr!Restart
      PROVE  JobInv'
  BY <1>3, JobFire, JobLapse, JobDeleteHost, JobRestart
<1> QED BY <1>1, <1>2, <1>3 DEF Cr!Next

LEMMA JobInit ==
  ASSUME Cr!Init
  PROVE  JobInv
<1>1. Cr!TypeOK
  BY JobBlank DEF Cr!Init, Cr!TypeOK, Cr!Label
<1>2. \A w \in JobRequest : crPc[w] = "idle"
  BY DEF Cr!Init, Cr!Worker
<1>3. ~crRow.live /\ ~crJob.there
  BY DEF Cr!Init, Cr!NoRow, Cr!NoJob
<1> QED BY <1>1, <1>2, <1>3
        DEF JobInv, Cr!ScheduledIsStored, JobOf, JobLock, Adding, JobRemoval, Removing,
            JobReadings

\* What the scheduler of the jobs holds is a live job of the table that says the same
\* command, whatever the requests, the users, the commands and the hosts are and whenever
\* the worker is restarted - while Redis answers and nothing else is under way when a job
\* is removed (add_job, cron_base and load_cron_from_db in cron/cron.py).
THEOREM JobsStored ==
  ASSUME JobSetting
  PROVE  AllSpec => []ScheduledIsStored
<1> DEFINE Inv == part = "jobs" => JobInv
<1>1. AllInit => Inv
  BY JobInit DEF AllInit
<1>2. Inv /\ [AllNext]_everything => Inv'
  <2> SUFFICES ASSUME Inv, [AllNext]_everything, part' = "jobs" PROVE JobInv'
    OBVIOUS
  <2>1. part = "jobs" /\ (Cr!Next \/ UNCHANGED cr)
    BY DEF AllNext, everything
  <2> QED BY <2>1, JobNext, JobStutter
<1>3. Inv => ScheduledIsStored
  BY DEF ScheduledIsStored, JobInv
<1> HIDE DEF Inv
<1> QED BY <1>1, <1>2, <1>3, PTL DEF AllSpec

-----------------------------------------------------------------------------
(* ProviderStream. *)

AnswerKind == [text : Seq(Text), calls : Seq(Seq(Char)), named : BOOLEAN]

\* While an answer streams, the browser has what text_parts has, and the flag says whether
\* that is anything; the second way is taken only when it has nothing.
Answering ==
    /\ prAnswer \in AnswerKind /\ prText \in Seq(Text) /\ prShown \in Seq(Text)
    /\ prPc = "stream" => /\ prShown = prText /\ Pr!IsPrefix(prText, prAnswer.text)
                        /\ (prEmitted <=> prShown # <<>>)
    /\ prPc = "whole"  => prShown = <<>> /\ ~prEmitted
    /\ prPc = "done"   => prShown = prResult.text /\ Pr!IsPrefix(prShown, prAnswer.text)
    /\ prPc = "failed" => IF prEmitted THEN prShown # <<>> ELSE prText = <<>> /\ prParts = <<>>

-----------------------------------------------------------------------------

\* Nothing is a prefix of everything.
LEMMA EmptyPrefix == ASSUME NEW t \in Seq(Text) PROVE Pr!IsPrefix(<<>>, t)
  BY DEF Pr!IsPrefix

\* A sequence is a prefix of itself.
LEMMA WholePrefix == ASSUME NEW t \in Seq(Text) PROVE Pr!IsPrefix(t, t)
  BY DEF Pr!IsPrefix

\* The next delta makes a longer prefix.
LEMMA NextPrefix ==
  ASSUME NEW s \in Seq(Text), NEW t \in Seq(Text), Pr!IsPrefix(s, t), Len(s) < Len(t)
  PROVE  Pr!IsPrefix(Append(s, t[Len(s) + 1]), t)
<1> DEFINE u == Append(s, t[Len(s) + 1])
<1>1. u \in Seq(Text) /\ Len(u) = Len(s) + 1
  OBVIOUS
<1>2. SubSeq(t, 1, Len(u)) \in Seq(Text) /\ Len(SubSeq(t, 1, Len(u))) = Len(u)
  BY <1>1
<1>3. SubSeq(u, 1, Len(u)) = u
  BY <1>1
<1>4. ASSUME NEW i \in 1..Len(u) PROVE u[i] = SubSeq(t, 1, Len(u))[i]
  <2>1. CASE i = Len(s) + 1
    BY <1>1, <2>1
  <2>2. CASE i \in 1..Len(s)
    <3>1. s[i] = SubSeq(s, 1, Len(s))[i]
      BY <2>2
    <3>2. SubSeq(s, 1, Len(s))[i] = SubSeq(t, 1, Len(s))[i]
      BY DEF Pr!IsPrefix
    <3>3. SubSeq(t, 1, Len(s))[i] = t[i]
      BY <2>2
    <3>4. u[i] = s[i] /\ SubSeq(t, 1, Len(u))[i] = t[i]
      BY <1>1, <2>2
    <3> QED BY <3>1, <3>2, <3>3, <3>4
  <2> QED BY <1>1, <2>1, <2>2
<1>5. u = SubSeq(t, 1, Len(u))
  BY <1>1, <1>2, <1>4
<1> QED BY <1>1, <1>3, <1>5 DEF Pr!IsPrefix

\* A fresh attempt starts with nothing and a possible answer.
LEMMA FreshAttempt ==
  ASSUME NEW a \in Answers, Pr!Attempt(a)
  PROVE  /\ prAnswer' = a /\ a \in AnswerKind /\ prText' = <<>> /\ prParts' = <<>>
         /\ Pr!IsPrefix(<<>>, a.text)
<1>1. a \in AnswerKind
  BY PlatformAssumption DEF Pr!ProviderAssumption, AnswerKind
<1>2. a.text \in Seq(Text)
  BY <1>1 DEF AnswerKind
<1> QED BY <1>1, <1>2, EmptyPrefix DEF Pr!Attempt

-----------------------------------------------------------------------------

\* It holds before the first request.
LEMMA AnsweringInit == Pr!Init => Answering
<1> SUFFICES ASSUME Pr!Init PROVE Answering
  OBVIOUS
<1>1. Pr!Nothing \in AnswerKind
  BY DEF Pr!Nothing, AnswerKind
<1> QED BY <1>1 DEF Pr!Init, Answering

\* Every step keeps it.
LEMMA AnsweringStep == ASSUME Answering, Pr!Next \/ UNCHANGED pr PROVE Answering'
<1>1. CASE Pr!Complete
  <2>1. PICK a \in Answers : Pr!Attempt(a)
    BY <1>1 DEF Pr!Complete
  <2>2. prPc' = "stream" /\ prShown' = <<>> /\ prEmitted' = FALSE
    BY <1>1 DEF Pr!Complete
  <2>3. prAnswer' \in AnswerKind /\ prText' = <<>> /\ Pr!IsPrefix(prText', prAnswer'.text)
    BY <2>1, FreshAttempt
  <2> QED BY <2>2, <2>3 DEF Answering
<1>2. CASE Pr!Content
  <2>1. /\ prPc = "stream" /\ prPc' = "stream" /\ prAnswer' = prAnswer /\ prEmitted' = TRUE
        /\ Len(prText) < Len(prAnswer.text)
        /\ prText' = Append(prText, prAnswer.text[Len(prText) + 1])
        /\ prShown' = Append(prShown, prAnswer.text[Len(prText) + 1])
    BY <1>2 DEF Pr!Content
  <2>2. prAnswer.text \in Seq(Text)
    BY DEF Answering, AnswerKind
  <2>3. prAnswer.text[Len(prText) + 1] \in Text
    BY <2>1, <2>2 DEF Answering
  <2>4. Pr!IsPrefix(prText', prAnswer.text)
    BY <2>1, <2>2, NextPrefix DEF Answering
  <2>5. prText' \in Seq(Text) /\ prShown' = prText' /\ prShown' # <<>>
    BY <2>1, <2>3 DEF Answering
  <2> QED BY <2>1, <2>4, <2>5 DEF Answering
<1>3. CASE Pr!Fragment
  <2>1. prPc = "stream" /\ UNCHANGED <<prPc, prAnswer, prText, prEmitted, prShown, prResult>>
    BY <1>3 DEF Pr!Fragment
  <2> QED BY <2>1 DEF Answering
<1>4. CASE Pr!Break
  BY <1>4 DEF Pr!Break, Pr!Failed, Pr!attempt, Answering
<1>5. CASE Pr!End
  <2>1. prPc = "stream" /\ UNCHANGED <<prAnswer, prText, prParts, prEmitted, prShown>>
    BY <1>5 DEF Pr!End, Pr!attempt
  <2>2. CASE Pr!Failed
    BY <2>1, <2>2 DEF Pr!Failed, Answering
  <2>3. CASE prPc' = "done" /\ prResult' = [prAnswer EXCEPT !.text = prText, !.calls = prParts]
    <3>1. prResult'.text = prText
      BY <2>3 DEF Answering, AnswerKind
    <3> QED BY <2>1, <2>3, <3>1 DEF Answering
  <2> QED BY <1>5, <2>2, <2>3 DEF Pr!End
<1>6. CASE Pr!Whole
  <2>1. PICK a \in Answers :
            /\ Pr!Attempt(a)
            /\ \/ prPc' = "done" /\ prResult' = a /\ prShown' = prShown \o a.text
               \/ prPc' = "failed" /\ prShown' = prShown
    BY <1>6 DEF Pr!Whole
  <2>2. prPc = "whole" /\ prEmitted' = prEmitted /\ prShown = <<>> /\ ~prEmitted
    BY <1>6 DEF Pr!Whole, Answering
  <2>3. a.text \in Seq(Text)
    BY <2>1, FreshAttempt DEF AnswerKind
  <2>4. prShown \o a.text = a.text
    BY <2>2, <2>3
  <2> QED BY <2>1, <2>2, <2>3, <2>4, FreshAttempt, WholePrefix DEF Answering
<1>7. CASE UNCHANGED pr
  BY <1>7 DEF pr, Answering
<1> QED BY <1>1, <1>2, <1>3, <1>4, <1>5, <1>6, <1>7 DEF Pr!Next

-----------------------------------------------------------------------------
(* ProviderStream: the arguments of a call. *)

\* Sequences that agree as far as the first one goes.
LEMMA PrefixByElements ==
  ASSUME NEW S, NEW s \in Seq(S), NEW t \in Seq(S), Len(s) <= Len(t),
         \A i \in 1..Len(s) : s[i] = t[i]
  PROVE  Pr!IsPrefix(s, t)
<1>1. SubSeq(s, 1, Len(s)) = s
  BY SubSeqFull
<1>2. /\ SubSeq(t, 1, Len(s)) \in Seq(S) /\ Len(SubSeq(t, 1, Len(s))) = Len(s)
      /\ \A i \in 1..Len(s) : SubSeq(t, 1, Len(s))[i] = t[i]
  OBVIOUS
<1>3. s = SubSeq(t, 1, Len(s))
  BY <1>2, SeqEqual
<1> QED BY <1>1, <1>3 DEF Pr!IsPrefix

\* A piece of the arguments.
LEMMA Piece ==
  ASSUME NEW c \in Seq(Char), NEW u \in 0..Len(c), NEW k \in u..Len(c)
  PROVE  /\ SubSeq(c, u + 1, k) \in Seq(Char) /\ Len(SubSeq(c, u + 1, k)) = k - u
         /\ \A i \in 1..(k - u) : SubSeq(c, u + 1, k)[i] = c[u + i]
<1>1. \A i \in (u + 1)..k : c[i] \in Char
  OBVIOUS
<1>2. /\ SubSeq(c, u + 1, k) \in Seq(Char)
      /\ Len(SubSeq(c, u + 1, k)) = IF u + 1 <= k THEN k - (u + 1) + 1 ELSE 0
      /\ \A i \in 1..(k - (u + 1) + 1) : SubSeq(c, u + 1, k)[i] = c[(u + 1) + i - 1]
  BY ONLY <1>1, SubSeqProperties, u \in Int, k \in Int, u + 1 \in Int
<1> QED BY <1>2

\* What arrived earlier is the beginning of what arrived later.
LEMMA EarlierPiece ==
  ASSUME NEW c \in Seq(Char), NEW u \in 0..Len(c), NEW k \in u..Len(c)
  PROVE  Pr!IsPrefix(SubSeq(c, 1, u), SubSeq(c, 1, k))
<1>1. /\ SubSeq(c, 1, u) \in Seq(Char) /\ Len(SubSeq(c, 1, u)) = u
      /\ \A i \in 1..u : SubSeq(c, 1, u)[i] = c[i]
  BY 0 \in 0..Len(c), u \in 0..Len(c), Piece
<1>2. /\ SubSeq(c, 1, k) \in Seq(Char) /\ Len(SubSeq(c, 1, k)) = k
      /\ \A i \in 1..k : SubSeq(c, 1, k)[i] = c[i]
  BY 0 \in 0..Len(c), k \in 0..Len(c), Piece
<1>3. \A i \in 1..u : SubSeq(c, 1, u)[i] = SubSeq(c, 1, k)[i]
  BY <1>1, <1>2
<1>4. Len(SubSeq(c, 1, u)) <= Len(SubSeq(c, 1, k))
  BY <1>1, <1>2
<1>5. \A i \in 1..Len(SubSeq(c, 1, u)) : SubSeq(c, 1, u)[i] = SubSeq(c, 1, k)[i]
  BY <1>1, <1>3
<1>6. SubSeq(c, 1, u) \in Seq(Char) /\ SubSeq(c, 1, k) \in Seq(Char)
  BY <1>1, <1>2
<1> QED BY ONLY <1>4, <1>5, <1>6, PrefixByElements

\* And the last piece is its end.
LEMMA LastPiece ==
  ASSUME NEW c \in Seq(Char), NEW u \in 0..Len(c), NEW k \in u..Len(c)
  PROVE  Pr!IsSuffix(SubSeq(c, u + 1, k), SubSeq(c, 1, k))
<1> DEFINE f == SubSeq(c, u + 1, k)
           h == SubSeq(c, 1, k)
<1>1. /\ f \in Seq(Char) /\ Len(f) = k - u /\ \A i \in 1..(k - u) : f[i] = c[u + i]
  BY Piece
<1>2. /\ h \in Seq(Char) /\ Len(h) = k /\ \A i \in 1..k : h[i] = c[i]
  BY 0 \in 0..Len(c), k \in 0..Len(c), Piece
<1> HIDE DEF f, h
<1>3. /\ Pr!Reverse(f) = [i \in 1..(k - u) |-> f[(k - u - i) + 1]]
      /\ Pr!Reverse(h) = [i \in 1..k |-> h[(k - i) + 1]]
  BY <1>1, <1>2 DEF Pr!Reverse
<1>4. \A i \in 1..(k - u) : f[(k - u - i) + 1] = c[(k - i) + 1]
  <2> TAKE i \in 1..(k - u)
  <2>1. (k - u - i) + 1 \in 1..(k - u) /\ u + ((k - u - i) + 1) = (k - i) + 1
    OBVIOUS
  <2> QED BY <2>1, <1>1
<1>5. \A i \in 1..k : h[(k - i) + 1] = c[(k - i) + 1]
  <2> TAKE i \in 1..k
  <2>1. (k - i) + 1 \in 1..k
    OBVIOUS
  <2> QED BY <2>1, <1>2
<1>6. /\ \A i \in 1..(k - u) : f[(k - u - i) + 1] \in Char
      /\ \A i \in 1..k : h[(k - i) + 1] \in Char
  <2>1. \A i \in 1..k : (k - i) + 1 \in 1..Len(c)
    OBVIOUS
  <2>2. \A i \in 1..k : c[(k - i) + 1] \in Char
    BY <2>1
  <2>3. \A i \in 1..(k - u) : i \in 1..k
    OBVIOUS
  <2> QED BY <1>4, <1>5, <2>2, <2>3
<1>7. Pr!Reverse(f) \in Seq(Char) /\ Pr!Reverse(h) \in Seq(Char)
  BY <1>3, <1>6
<1>8. Len(Pr!Reverse(f)) = k - u /\ Len(Pr!Reverse(h)) = k
  BY <1>3, <1>7
<1>9. \A i \in 1..(k - u) : Pr!Reverse(f)[i] = Pr!Reverse(h)[i]
  BY <1>3, <1>4, <1>5
<1>10. Pr!IsPrefix(Pr!Reverse(f), Pr!Reverse(h))
  BY <1>7, <1>8, <1>9, PrefixByElements
<1> QED BY <1>10 DEF Pr!IsSuffix, f, h

\* A piece that does not look repeated is added to what is held.
LEMMA MergeOnce ==
  ASSUME NEW c \in Seq(Char), NEW u \in 0..Len(c), NEW k \in u..Len(c),
         ~Pr!LooksRepeated(SubSeq(c, 1, u), SubSeq(c, u + 1, k))
  PROVE  Pr!Merge(SubSeq(c, 1, u), SubSeq(c, u + 1, k)) = SubSeq(c, 1, k)
<1> DEFINE f == SubSeq(c, u + 1, k)
           h == SubSeq(c, 1, u)
<1>1. f \in Seq(Char) /\ Len(f) = k - u
  BY Piece
<1>2. h \in Seq(Char) /\ Len(h) = u
  BY 0 \in 0..Len(c), u \in 0..Len(c), Piece
<1>3. Len(c) \in Nat /\ u \in Nat /\ k \in Nat
  OBVIOUS
<1>4. CASE h = <<>>
  <2>1. u = 0
    BY <1>2, <1>4
  <2>2. Pr!IsPrefix(h, f)
    BY <2>1, EarlierPiece, <1>3
  <2> QED BY <2>1, <2>2 DEF Pr!Merge
<1>5. CASE f = <<>> /\ h # <<>>
  <2>1. k = u /\ u # 0
    BY <1>1, <1>2, <1>3, <1>5
  <2>2. ~Pr!IsPrefix(h, f)
    BY <1>1, <1>2, <2>1, <1>3 DEF Pr!IsPrefix
  <2>3. Pr!IsSuffix(f, h)
    BY <2>1, LastPiece
  <2> QED BY <2>1, <2>2, <2>3 DEF Pr!Merge
<1>6. CASE f # <<>> /\ h # <<>>
  <2>1. ~Pr!IsPrefix(h, f) /\ ~Pr!IsSuffix(f, h)
    BY <1>6 DEF Pr!LooksRepeated
  <2>2. 1 \in 1..(Len(c) + 1) /\ u \in (1 - 1)..Len(c) /\ k \in u..Len(c)
    BY <1>3
  <2>3. h \o f = SubSeq(c, 1, k)
    BY <2>2, ConcatAdjacentSubSeq
  <2> QED BY <2>1, <2>3 DEF Pr!Merge
<1> QED BY <1>4, <1>5, <1>6

\* The same piece again changes nothing.
LEMMA MergeAgain ==
  ASSUME NEW c \in Seq(Char), NEW u \in 0..Len(c), NEW k \in u..Len(c)
  PROVE  Pr!Merge(SubSeq(c, 1, k), SubSeq(c, u + 1, k)) = SubSeq(c, 1, k)
<1> DEFINE f == SubSeq(c, u + 1, k)
           h == SubSeq(c, 1, k)
<1>1. f \in Seq(Char) /\ Len(f) = k - u
  BY Piece
<1>2. h \in Seq(Char) /\ Len(h) = k
  BY 0 \in 0..Len(c), k \in 0..Len(c), Piece
<1>3. Len(c) \in Nat /\ u \in Nat /\ k \in Nat /\ u <= k
  OBVIOUS
<1>4. CASE Pr!IsPrefix(h, f)
  <2>1. k <= k - u
    BY <1>1, <1>2, <1>4 DEF Pr!IsPrefix
  <2>2. u = 0
    BY <2>1, <1>3
  <2> QED BY <2>2, <1>4 DEF Pr!Merge
<1>5. CASE ~Pr!IsPrefix(h, f)
  BY <1>5, LastPiece DEF Pr!Merge
<1> QED BY <1>4, <1>5

\* A piece with everything before it replaces what is held.
LEMMA MergeSoFar ==
  ASSUME NEW c \in Seq(Char), NEW u \in 0..Len(c), NEW k \in u..Len(c)
  PROVE  Pr!Merge(SubSeq(c, 1, u), SubSeq(c, 1, k)) = SubSeq(c, 1, k)
  BY EarlierPiece DEF Pr!Merge

-----------------------------------------------------------------------------

\* While an answer streams, what is held of a call is what was sent of it, unless an
\* increment looked like a repetition.
Streamed ==
    /\ prUpto \in [DOMAIN prAnswer.calls -> Nat]
    /\ DOMAIN prParts \subseteq DOMAIN prAnswer.calls
    /\ \A i \in DOMAIN prAnswer.calls :
          /\ prUpto[i] <= Len(prAnswer.calls[i])
          /\ Pr!Held(i) = SubSeq(prAnswer.calls[i], 1, prUpto[i])

Arguing ==
    /\ prAnswer \in AnswerKind
    /\ prPc = "stream" /\ ~prEchoed => Streamed
    /\ Pr!ArgumentsWhole

\* The fragment that Fragment adds.
Sent(i, k) ==
    SubSeq(prAnswer.calls[i], IF prManner = "so far" THEN 1 ELSE prUpto[i] + 1, k)

\* What is held of a call once its next fragment was merged.
LEMMA FragmentMerged ==
  ASSUME prAnswer \in AnswerKind, Streamed,
         NEW i \in DOMAIN prAnswer.calls, NEW k \in prUpto[i]..Len(prAnswer.calls[i]),
         ~(prManner # "so far" /\ Pr!LooksRepeated(Pr!Held(i), Sent(i, k)))
  PROVE  /\ Pr!Merge(Pr!Held(i), Sent(i, k)) = SubSeq(prAnswer.calls[i], 1, k)
         /\ prManner = "twice" =>
               Pr!Merge(Pr!Merge(Pr!Held(i), Sent(i, k)), Sent(i, k))
                  = SubSeq(prAnswer.calls[i], 1, k)
<1> DEFINE c == prAnswer.calls[i]
           u == prUpto[i]
<1>1. c \in Seq(Char)
  <2>1. prAnswer.calls \in Seq(Seq(Char))
    BY DEF AnswerKind
  <2>2. i \in DOMAIN prAnswer.calls
    OBVIOUS
  <2>3. prAnswer.calls[i] \in Seq(Char)
    BY ONLY <2>1, <2>2
  <2> QED BY ONLY <2>3 DEF c
<1>2. u \in 0..Len(c) /\ k \in u..Len(c) /\ Pr!Held(i) = SubSeq(c, 1, u)
  <2>1. u \in Nat /\ u <= Len(c) /\ Pr!Held(i) = SubSeq(c, 1, u)
    BY DEF Streamed, c, u
  <2>2. Len(c) \in Nat
    BY ONLY <1>1
  <2>3. k \in u..Len(c)
    BY DEF c, u
  <2> QED BY ONLY <2>1, <2>2, <2>3
<1> HIDE DEF c, u
<1>3. CASE prManner = "so far"
  <2>1. Sent(i, k) = SubSeq(c, 1, k)
    BY <1>3 DEF Sent, c
  <2> QED BY <1>1, <1>2, <1>3, <2>1, MergeSoFar DEF c
<1>4. CASE prManner # "so far"
  <2>1. Sent(i, k) = SubSeq(c, u + 1, k)
    BY <1>4 DEF Sent, c, u
  <2>2. ~Pr!LooksRepeated(SubSeq(c, 1, u), SubSeq(c, u + 1, k))
    BY <1>2, <1>4, <2>1
  <2> QED BY <1>1, <1>2, <2>1, <2>2, MergeOnce, MergeAgain DEF c
<1> QED BY <1>3, <1>4

\* A fresh attempt holds nothing of anything.
LEMMA AttemptStreamed ==
  ASSUME NEW a \in Answers, Pr!Attempt(a) PROVE Streamed'
<1>1. a \in AnswerKind
  BY FreshAttempt
<1>2. a.calls \in Seq(Seq(Char))
  BY <1>1 DEF AnswerKind
<1>3. /\ prAnswer' = a /\ prParts' = <<>> /\ prUpto' = [i \in DOMAIN a.calls |-> 0]
  BY DEF Pr!Attempt
<1>4. ASSUME NEW i \in DOMAIN a.calls
      PROVE  /\ prUpto'[i] <= Len(a.calls[i]) /\ SubSeq(a.calls[i], 1, prUpto'[i]) = <<>>
  <2>1. prUpto'[i] = 0 /\ a.calls[i] \in Seq(Char)
    BY <1>2, <1>3
  <2>2. SubSeq(a.calls[i], 1, 0) = <<>>
    BY SubSeqEmpty
  <2> QED BY <2>1, <2>2
<1>5. \A i : Pr!Held(i)' = <<>>
  BY <1>3 DEF Pr!Held
<1>6. prUpto' \in [DOMAIN a.calls -> Nat] /\ DOMAIN prParts' = {}
  BY <1>3
<1> QED BY <1>3, <1>4, <1>5, <1>6 DEF Streamed

\* It holds before the first request.
LEMMA ArguingInit == Pr!Init => Arguing
<1> SUFFICES ASSUME Pr!Init PROVE Arguing
  OBVIOUS
<1>1. Pr!Nothing \in AnswerKind
  BY DEF Pr!Nothing, AnswerKind
<1> QED BY <1>1 DEF Pr!Init, Arguing, Pr!ArgumentsWhole

\* Every step keeps it.
LEMMA ArguingStep == ASSUME Arguing, Pr!Next \/ UNCHANGED pr PROVE Arguing'
<1>1. CASE Pr!Complete
  <2>1. PICK a \in Answers : Pr!Attempt(a)
    BY <1>1 DEF Pr!Complete
  <2>2. prPc' = "stream"
    BY <1>1 DEF Pr!Complete
  <2> QED BY <2>1, <2>2, FreshAttempt, AttemptStreamed DEF Arguing, Pr!ArgumentsWhole
<1>2. CASE Pr!Content
  BY <1>2 DEF Pr!Content, Arguing, Streamed, Pr!ArgumentsWhole, Pr!Held
<1>3. CASE Pr!Fragment
  <2>0. PICK i \in DOMAIN prAnswer.calls : \E k \in prUpto[i]..Len(prAnswer.calls[i]) :
           /\ prParts' = [j \in DOMAIN prParts \cup {i} |->
                 IF j # i THEN prParts[j]
                 ELSE IF prManner = "twice"
                 THEN Pr!Merge(Pr!Merge(Pr!Held(i), Sent(i, k)), Sent(i, k))
                 ELSE Pr!Merge(Pr!Held(i), Sent(i, k))]
           /\ prUpto' = [prUpto EXCEPT ![i] = k]
           /\ prEchoed' = (prEchoed \/ (prManner # "so far"
                                        /\ Pr!LooksRepeated(Pr!Held(i), Sent(i, k))))
    BY <1>3 DEF Pr!Fragment, Sent
  <2>1. PICK k \in prUpto[i]..Len(prAnswer.calls[i]) :
           /\ prParts' = [j \in DOMAIN prParts \cup {i} |->
                 IF j # i THEN prParts[j]
                 ELSE IF prManner = "twice"
                 THEN Pr!Merge(Pr!Merge(Pr!Held(i), Sent(i, k)), Sent(i, k))
                 ELSE Pr!Merge(Pr!Held(i), Sent(i, k))]
           /\ prUpto' = [prUpto EXCEPT ![i] = k]
           /\ prEchoed' = (prEchoed \/ (prManner # "so far"
                                        /\ Pr!LooksRepeated(Pr!Held(i), Sent(i, k))))
    BY <2>0
  <2>2. prPc = "stream" /\ prPc' = "stream" /\ prAnswer' = prAnswer
    BY <1>3 DEF Pr!Fragment
  <2> SUFFICES ASSUME ~prEchoed' PROVE Streamed'
    BY <2>2 DEF Arguing, Pr!ArgumentsWhole
  <2>3. Streamed /\ prAnswer \in AnswerKind
    BY <2>1, <2>2 DEF Arguing
  <2>4. ~(prManner # "so far" /\ Pr!LooksRepeated(Pr!Held(i), Sent(i, k)))
    BY <2>1
  <2>5. prParts' = [j \in DOMAIN prParts \cup {i} |->
                      IF j # i THEN prParts[j] ELSE SubSeq(prAnswer.calls[i], 1, k)]
    BY <2>1, <2>3, <2>4, FragmentMerged
  <2>6. prUpto' \in [DOMAIN prAnswer.calls -> Nat] /\ k \in Nat
    <3>1. prAnswer.calls \in Seq(Seq(Char)) /\ prUpto[i] \in Nat
      BY <2>3 DEF AnswerKind, Streamed
    <3>2. Len(prAnswer.calls[i]) \in Nat
      BY <3>1
    <3>3. k \in Nat
      BY <3>1, <3>2
    <3> QED BY <2>1, <2>3, <3>3 DEF Streamed
  <2>7. ASSUME NEW j \in DOMAIN prAnswer.calls
        PROVE  /\ prUpto'[j] <= Len(prAnswer.calls[j])
               /\ Pr!Held(j)' = SubSeq(prAnswer.calls[j], 1, prUpto'[j])
    <3>1. CASE j = i
      <4>1. prUpto'[j] = k /\ Pr!Held(j)' = SubSeq(prAnswer.calls[i], 1, k)
        BY <2>1, <2>3, <2>5, <3>1 DEF Pr!Held, Streamed
      <4> QED BY <3>1, <4>1, <2>6
    <3>2. CASE j # i
      <4>1. prUpto'[j] = prUpto[j] /\ Pr!Held(j)' = Pr!Held(j)
        BY <2>1, <2>3, <2>5, <3>2 DEF Pr!Held, Streamed
      <4> QED BY <4>1, <2>3 DEF Streamed
    <3> QED BY <3>1, <3>2
  <2>8. DOMAIN prParts' \subseteq DOMAIN prAnswer.calls
    BY <2>3, <2>5 DEF Streamed
  <2> QED BY <2>2, <2>6, <2>7, <2>8 DEF Streamed
<1>4. CASE Pr!Break
  BY <1>4 DEF Pr!Break, Pr!Failed, Pr!attempt, Arguing, Pr!ArgumentsWhole
<1>5. CASE Pr!End
  <2>1. prPc = "stream" /\ UNCHANGED <<prAnswer, prParts, prEchoed>>
    BY <1>5 DEF Pr!End, Pr!attempt
  <2>2. CASE Pr!Failed
    BY <2>1, <2>2 DEF Pr!Failed, Arguing, Pr!ArgumentsWhole
  <2>3. CASE /\ prPc' = "done" /\ \A i \in DOMAIN prParts : TRUE \in Pr!Decodes(i)
             /\ prResult' = [prAnswer EXCEPT !.text = prText, !.calls = prParts]
    <3> SUFFICES ASSUME ~prEchoed, NEW i \in DOMAIN prParts
                 PROVE  prParts[i] \in {<<>>, prAnswer.calls[i]}
      <4>1. prResult'.calls = prParts
        BY <2>3 DEF Arguing, AnswerKind
      <4> QED BY <2>1, <2>3, <4>1 DEF Arguing, Pr!ArgumentsWhole
    <3>1. Streamed /\ i \in DOMAIN prAnswer.calls /\ prAnswer.calls[i] \in Seq(Char)
      BY <2>1 DEF Arguing, Streamed, AnswerKind
    <3>2. prUpto[i] \in 0..Len(prAnswer.calls[i])
      BY <3>1 DEF Streamed
    <3>3. prParts[i] = SubSeq(prAnswer.calls[i], 1, prUpto[i])
      BY <3>1 DEF Streamed, Pr!Held
    <3>4. Len(prAnswer.calls[i]) \in prUpto[i]..Len(prAnswer.calls[i])
      BY <3>1, <3>2
    <3>5. SubSeq(prAnswer.calls[i], 1, Len(prAnswer.calls[i])) = prAnswer.calls[i]
      BY <3>1, SubSeqFull
    <3>6. Pr!IsPrefix(prParts[i], prAnswer.calls[i])
      BY <3>1, <3>2, <3>3, <3>4, <3>5, EarlierPiece
    <3> QED BY <2>3, <3>6 DEF Pr!Decodes
  <2> QED BY <1>5, <2>2, <2>3 DEF Pr!End
<1>6. CASE Pr!Whole
  <2>1. PICK a \in Answers :
            /\ Pr!Attempt(a)
            /\ \/ prPc' = "done" /\ prResult' = a
               \/ prPc' = "failed"
    BY <1>6 DEF Pr!Whole
  <2> QED BY <2>1, FreshAttempt DEF Arguing, Pr!ArgumentsWhole
<1>7. CASE UNCHANGED pr
  BY <1>7 DEF pr, Arguing, Streamed, Pr!ArgumentsWhole, Pr!Held
<1> QED BY <1>1, <1>2, <1>3, <1>4, <1>5, <1>6, <1>7 DEF Pr!Next

-----------------------------------------------------------------------------

\* What the browser was shown during a request is the beginning of one answer and in the
\* end the text of the result; a request fails only after something was shown or both ways
\* were tried (complete and _consume_stream of ai/provider.py).
THEOREM OneAnswer == AllSpec => []ShownOnce
<1> DEFINE Inv == part = "model" => Answering
<1>1. AllInit => Inv
  BY AnsweringInit DEF AllInit
<1>2. Inv /\ [AllNext]_everything => Inv'
  <2> SUFFICES ASSUME Inv, [AllNext]_everything, part' = "model" PROVE Answering'
    OBVIOUS
  <2>1. part = "model" /\ (Pr!Next \/ UNCHANGED pr)
    BY DEF AllNext, everything
  <2> QED BY <2>1, AnsweringStep
<1>3. Inv => ShownOnce
  BY DEF ShownOnce, Pr!ShownOnce, Answering
<1> HIDE DEF Inv
<1> QED BY <1>1, <1>2, <1>3, PTL DEF AllSpec

\* A call is carried out with the arguments that the provider sent for it, or with none
\* when none had arrived, in whatever pieces they come and whether the provider repeats
\* each of them or everything so far; unless an increment looked like a repetition of what
\* came before it (_merge_fragment and _consume_stream of ai/provider.py).
THEOREM ArgumentsAsSent == AllSpec => []ArgumentsWhole
<1> DEFINE Inv == part = "model" => Arguing
<1>1. AllInit => Inv
  BY ArguingInit DEF AllInit
<1>2. Inv /\ [AllNext]_everything => Inv'
  <2> SUFFICES ASSUME Inv, [AllNext]_everything, part' = "model" PROVE Arguing'
    OBVIOUS
  <2>1. part = "model" /\ (Pr!Next \/ UNCHANGED pr)
    BY DEF AllNext, everything
  <2> QED BY <2>1, ArguingStep
<1>3. Inv => ArgumentsWhole
  BY DEF ArgumentsWhole, Arguing
<1> HIDE DEF Inv
<1> QED BY <1>1, <1>2, <1>3, PTL DEF AllSpec

-----------------------------------------------------------------------------

(* ChatContext: rounds. *)

\* Every set of numbers has a least one.
LEMMA Least ==
  ASSUME NEW S, S \subseteq Nat, S # {} PROVE \E n \in S : \A m \in S : n <= m
<1>1. PICK n \in S : \A m \in S : <<m, n>> \notin OpToRel(<, Nat)
  BY NatLessThanWellFounded, WFMin
<1>2. ASSUME NEW m \in Nat, NEW k \in Nat, m < k PROVE <<m, k>> \in OpToRel(<, Nat)
  <2>1. /\ <<m, k>> \in Nat \X Nat /\ <<m, k>>[1] = m /\ <<m, k>>[2] = k
    OBVIOUS
  <2> QED BY <1>2, <2>1 DEF OpToRel
<1>3. \A m \in S : m \in Nat /\ n \in Nat
  OBVIOUS
<1>4. \A m \in S : ~(m < n)
  BY <1>1, <1>2, <1>3
<1>5. \A m \in S : n <= m
  BY <1>3, <1>4
<1> QED BY <1>5

\* And a bounded one has a greatest one.
LEMMA Greatest ==
  ASSUME NEW N \in Nat, NEW S, S \subseteq 1..N, S # {} PROVE \E n \in S : \A m \in S : m <= n
<1> DEFINE T == {k \in Nat : N - k \in S}
<1>1. T \subseteq Nat /\ \A m \in S : N - m \in T
  <2>1. \A m \in S : N - m \in Nat /\ N - (N - m) = m
    OBVIOUS
  <2> QED BY <2>1
<1>2. T # {}
  BY <1>1
<1>3. PICK k \in T : \A j \in T : k <= j
  <2> HIDE DEF T
  <2> QED BY <1>1, <1>2, Least
<1>4. N - k \in S /\ k \in Nat
  OBVIOUS
<1>5. ASSUME NEW m \in S PROVE m <= N - k
  <2>1. k <= N - m
    BY <1>1, <1>3
  <2>2. m \in 1..N
    OBVIOUS
  <2> QED BY ONLY <1>4, <2>1, <2>2, N \in Nat
<1> QED BY <1>4, <1>5

\* The names of the instance.
LEMMA ChatCount == ASSUME NEW S PROVE Ch!Cardinality(S) = Cardinality(S)
  BY DEF Ch!Cardinality, Cardinality

FromOn(R, i) == {j \in R : j >= i}

\* Of more than k numbers there is one from which on there are exactly k.
LEMMA LastOnes ==
  ASSUME NEW N \in Nat, NEW R, R \subseteq 1..N, NEW k \in Nat \ {0}, Cardinality(R) > k
  PROVE  \E i \in R : Cardinality(FromOn(R, i)) = k
<1> DEFINE Seg(i) == {j \in R : j >= i}
           S == {i \in R : Cardinality(Seg(i)) >= k}
<1>0. R \subseteq Nat /\ \A j \in R : j \in Nat
  OBVIOUS
<1>1. IsFiniteSet(R) /\ Cardinality(R) \in Nat
  <2>1. IsFiniteSet(1..N)
    BY FS_Interval
  <2> QED BY <2>1, FS_Subset, FS_CardinalityType
<1>2. ASSUME NEW i PROVE IsFiniteSet(Seg(i)) /\ Cardinality(Seg(i)) \in Nat
  <2>1. Seg(i) \subseteq R
    OBVIOUS
  <2> QED BY <1>1, <2>1, FS_Subset, FS_CardinalityType
<1>3. S # {}
  <2>1. R # {}
    BY <1>1, FS_EmptySet
  <2>2. PICK i \in R : \A j \in R : i <= j
    BY ONLY <1>0, <2>1, Least
  <2>3. Seg(i) = R
    BY <2>2
  <2>4. Cardinality(Seg(i)) >= k
    BY <1>1, <2>3
  <2> QED BY <2>4
<1>4. PICK i \in S : \A j \in S : j <= i
  <2>1. S \subseteq 1..N
    OBVIOUS
  <2> HIDE DEF S
  <2> QED BY <1>3, <2>1, Greatest
<1>5. i \in R /\ Cardinality(Seg(i)) >= k
  OBVIOUS
<1>6. ASSUME Cardinality(Seg(i)) > k PROVE FALSE
  <2> DEFINE rest == Seg(i) \ {i}
  <2>1. i \in Seg(i)
    BY <1>5
  <2>2. IsFiniteSet(rest) /\ Cardinality(rest) = Cardinality(Seg(i)) - 1
    BY <1>2, <2>1, FS_RemoveElement
  <2>3. Cardinality(rest) >= k
    BY <1>2, <1>6, <2>2
  <2>4. rest # {}
    <3> SUFFICES ASSUME rest = {} PROVE FALSE
      OBVIOUS
    <3>1. Cardinality(rest) = 0
      BY FS_EmptySet
    <3> QED BY ONLY <2>3, <3>1, k \in Nat \ {0}
  <2>5. rest \subseteq Nat
    BY <1>0
  <2>6. PICK m \in rest : \A j \in rest : m <= j
    <3> HIDE DEF rest
    <3> QED BY <2>4, <2>5, Least
  <2>7. m \in R /\ m > i
    <3>1. m \in R /\ m >= i /\ m # i
      OBVIOUS
    <3>2. m \in Nat /\ i \in Nat
      BY <1>5, <3>1
    <3> QED BY <3>1, <3>2
  <2>8. Seg(m) = rest
    <3>1. \A j \in Seg(m) : j \in rest
      <4> SUFFICES ASSUME NEW j \in R, j >= m PROVE j >= i /\ j # i
        OBVIOUS
      <4>1. j \in Nat /\ m \in Nat /\ i \in Nat
        BY <1>5, <2>7
      <4> QED BY <2>7, <4>1
    <3>2. \A j \in rest : j \in Seg(m)
      BY <2>6
    <3> QED BY <3>1, <3>2
  <2>9. m \in S
    BY <2>3, <2>7, <2>8
  <2>10. m <= i
    BY <1>4, <2>9
  <2>11. m \in Nat /\ i \in Nat
    BY <1>5, <2>7
  <2> QED BY ONLY <2>7, <2>10, <2>11
<1>7. Cardinality(Seg(i)) = k
  BY <1>2, <1>5, <1>6
<1> QED BY <1>5, <1>7 DEF FromOn

\* Compression keeps the conversation from a message of the user on.
LEMMA KeptRounds ==
  ASSUME NEW ms \in Seq(Ch!Messages), Ch!Cardinality(Ch!Rounds(ms)) > Keep
  PROVE  Ch!KeepFrom(ms) \in DOMAIN ms /\ ms[Ch!KeepFrom(ms)].role = "user"
<1>1. Ch!Rounds(ms) \subseteq 1..Len(ms) /\ Len(ms) \in Nat
  BY DEF Ch!Rounds
<1>2. Keep \in Nat \ {0}
  BY PlatformAssumption DEF Ch!ChatAssumption
<1>3. Cardinality(Ch!Rounds(ms)) > Keep
  BY ChatCount
<1>4. \E i \in Ch!Rounds(ms) : Cardinality({j \in Ch!Rounds(ms) : j >= i}) = Keep
  <2>1. PICK R : R = Ch!Rounds(ms)
    OBVIOUS
  <2>2. PICK N \in Nat : R \subseteq 1..N
    BY <1>1, <2>1
  <2>3. Cardinality(R) > Keep
    BY <1>3, <2>1
  <2>4. \E i \in R : Cardinality(FromOn(R, i)) = Keep
    BY ONLY <1>2, <2>2, <2>3, N \in Nat, LastOnes
  <2> QED BY <2>1, <2>4 DEF FromOn
<1>5. \E j \in Ch!Rounds(ms) :
         Ch!Cardinality({l \in Ch!Rounds(ms) : l >= j}) = Keep
  BY <1>4, ChatCount
<1>6. Ch!KeepFrom(ms) \in Ch!Rounds(ms)
  BY <1>5 DEF Ch!KeepFrom
<1> QED BY <1>6 DEF Ch!Rounds

-----------------------------------------------------------------------------
(* ChatContext: conversations. *)

\* The result messages of a call.
Results(ms, c) == {j \in DOMAIN ms : ms[j].call = c}

\* Messages come in the order of their numbers; a result comes after its call, with no
\* message of the user between them, and nothing but a result names a call.
Placed(ms) ==
    /\ \A i, j \in DOMAIN ms : i < j => ms[i].id < ms[j].id
    /\ \A k \in DOMAIN ms : ms[k].role = "tool" =>
          \E j \in DOMAIN ms :
             /\ j < k /\ ms[j].role = "calls" /\ ms[j].id = ms[k].call
             /\ \A l \in DOMAIN ms : j <= l /\ l <= k => ms[l].role # "user"
    /\ \A k \in DOMAIN ms : ms[k].role # "tool" => ms[k].call = 0

\* Every call has its results, but for the open one and those of runs broken off.
Answered(ms, broken, open) ==
    \A i \in DOMAIN ms : ms[i].role = "calls" /\ ms[i].id \notin broken /\ ms[i].id # open =>
        Cardinality(Results(ms, ms[i].id)) = ms[i].calls

\* A conversation that has everything of the n messages said.
Sound(ms, sum, n, broken, open) ==
    /\ ms \in Seq(Ch!Messages) /\ sum \subseteq 1..n /\ n \in Nat
    /\ Ch!Ids(ms) \cup sum = 1..n
    /\ Placed(ms) /\ Answered(ms, broken, open)

\* The numbers of messages.
LEMMA MessageIds ==
  ASSUME NEW ms, NEW sum, NEW n, NEW broken, NEW open, Sound(ms, sum, n, broken, open),
         NEW i \in DOMAIN ms
  PROVE  /\ ms[i] \in Ch!Messages /\ ms[i].id \in 1..n /\ i \in 1..Len(ms) /\ Len(ms) \in Nat
         /\ i \in Nat /\ ms[i].id \in Nat
<1>1. ms \in Seq(Ch!Messages) /\ n \in Nat
  BY DEF Sound
<1>2. ms[i].id \in 1..n
  BY DEF Sound, Ch!Ids
<1> QED BY <1>1, <1>2

\* The results of a call are finitely many.
LEMMA ResultsFinite ==
  ASSUME NEW ms \in Seq(Ch!Messages), NEW c
  PROVE  IsFiniteSet(Results(ms, c)) /\ Cardinality(Results(ms, c)) \in Nat
<1>1. Results(ms, c) \subseteq 1..Len(ms) /\ Len(ms) \in Nat
  BY DEF Results
<1>2. IsFiniteSet(1..Len(ms))
  BY <1>1, FS_Interval
<1> QED BY <1>1, <1>2, FS_Subset, FS_CardinalityType

\* The sequence with one message more.
LEMMA Appended ==
  ASSUME NEW ms \in Seq(Ch!Messages), NEW m \in Ch!Messages
  PROVE  /\ Append(ms, m) \in Seq(Ch!Messages) /\ Len(Append(ms, m)) = Len(ms) + 1
         /\ DOMAIN Append(ms, m) = DOMAIN ms \cup {Len(ms) + 1} /\ Len(ms) + 1 \notin DOMAIN ms
         /\ \A i \in DOMAIN ms : Append(ms, m)[i] = ms[i] /\ i < Len(ms) + 1 /\ i \in Nat
         /\ Append(ms, m)[Len(ms) + 1] = m
         /\ Ch!Ids(Append(ms, m)) = Ch!Ids(ms) \cup {m.id}
<1>1. /\ Append(ms, m) \in Seq(Ch!Messages) /\ Len(Append(ms, m)) = Len(ms) + 1
      /\ DOMAIN Append(ms, m) = DOMAIN ms \cup {Len(ms) + 1} /\ Len(ms) + 1 \notin DOMAIN ms
  OBVIOUS
<1>2. \A i \in DOMAIN ms : Append(ms, m)[i] = ms[i] /\ i < Len(ms) + 1 /\ i \in Nat
  OBVIOUS
<1>3. Append(ms, m)[Len(ms) + 1] = m
  OBVIOUS
<1>4. PICK t : t = Append(ms, m)
  OBVIOUS
<1>5. Ch!Ids(t) = Ch!Ids(ms) \cup {m.id}
  <2>1. /\ DOMAIN t = DOMAIN ms \cup {Len(ms) + 1} /\ \A i \in DOMAIN ms : t[i] = ms[i]
        /\ t[Len(ms) + 1] = m
    BY <1>1, <1>2, <1>3, <1>4
  <2> QED BY ONLY <2>1 DEF Ch!Ids
<1> QED BY <1>1, <1>2, <1>3, <1>4, <1>5

\* The order is kept by a message that is no result, and by one of the last call.
LEMMA PlacedAppended ==
  ASSUME NEW ms, NEW sum, NEW n, NEW broken, NEW open, Sound(ms, sum, n, broken, open),
         NEW m \in Ch!Messages, m.id = n + 1,
         \/ m.role # "tool" /\ m.call = 0
         \/ /\ m.role = "tool"
            /\ \E p \in DOMAIN ms :
                  /\ ms[p].role = "calls" /\ ms[p].id = m.call
                  /\ \A l \in DOMAIN ms : p < l => ms[l].role = "tool"
  PROVE  Placed(Append(ms, m))
<1>1. ms \in Seq(Ch!Messages) /\ n \in Nat /\ Placed(ms)
  BY DEF Sound
<1>2. PICK t, e : t = Append(ms, m) /\ e = Len(ms) + 1
  OBVIOUS
<1>3. /\ DOMAIN t = DOMAIN ms \cup {e} /\ e \notin DOMAIN ms
      /\ \A i \in DOMAIN ms : t[i] = ms[i] /\ i < e /\ i \in Nat
      /\ t[e] = m /\ e \in Nat
  <2>1. Len(ms) \in Nat
    BY <1>1
  <2> QED BY <1>1, <1>2, <2>1, Appended
<1>4. \A i \in DOMAIN ms : ms[i].id \in 1..n
  BY MessageIds
<1>5. ASSUME NEW i \in DOMAIN t, NEW j \in DOMAIN t, i < j PROVE t[i].id < t[j].id
  <2>1. CASE j \in DOMAIN ms
    <3>1. i \in DOMAIN ms
      BY <1>3, <1>5, <2>1
    <3> QED BY <1>1, <1>3, <1>5, <2>1, <3>1 DEF Placed
  <2>2. CASE j = e
    <3>1. i \in DOMAIN ms
      BY <1>3, <1>5, <2>2
    <3>2. t[i].id \in 1..n /\ t[j].id = n + 1
      BY <1>3, <1>4, <2>2, <3>1
    <3> QED BY ONLY <1>1, <3>2
  <2> QED BY <1>3, <2>1, <2>2
<1>6. ASSUME NEW k \in DOMAIN t, t[k].role = "tool"
      PROVE  \E j \in DOMAIN t :
                /\ j < k /\ t[j].role = "calls" /\ t[j].id = t[k].call
                /\ \A l \in DOMAIN t : j <= l /\ l <= k => t[l].role # "user"
  <2>1. CASE k \in DOMAIN ms
    <3>1. PICK j \in DOMAIN ms :
             /\ j < k /\ ms[j].role = "calls" /\ ms[j].id = ms[k].call
             /\ \A l \in DOMAIN ms : j <= l /\ l <= k => ms[l].role # "user"
      BY <1>1, <1>3, <1>6, <2>1 DEF Placed
    <3>2. \A l \in DOMAIN t : l <= k => l \in DOMAIN ms
      BY <1>3, <2>1
    <3> QED BY <1>3, <2>1, <3>1, <3>2
  <2>2. CASE k = e
    <3>1. PICK p \in DOMAIN ms :
             /\ ms[p].role = "calls" /\ ms[p].id = m.call
             /\ \A l \in DOMAIN ms : p < l => ms[l].role = "tool"
      BY <1>3, <1>6, <2>2
    <3>2. ASSUME NEW l \in DOMAIN t, p <= l, l <= k PROVE t[l].role # "user"
      <4>1. CASE l = e
        BY <1>3, <1>6, <2>2, <4>1
      <4>2. CASE l = p
        BY <1>3, <3>1, <4>2
      <4>3. CASE l # p /\ l \in DOMAIN ms
        <5>1. p < l
          BY <1>3, <3>2, <4>3
        <5> QED BY <1>3, <3>1, <4>3, <5>1
      <4> QED BY <1>3, <4>1, <4>2, <4>3
    <3>3. p < k /\ t[p].role = "calls" /\ t[p].id = t[k].call
      BY <1>3, <2>2, <3>1
    <3> QED BY <1>3, <3>2, <3>3
  <2> QED BY <1>3, <2>1, <2>2
<1>7. \A k \in DOMAIN t : t[k].role # "tool" => t[k].call = 0
  BY <1>1, <1>3 DEF Placed
<1>8. Placed(t)
  BY <1>5, <1>6, <1>7 DEF Placed
<1> QED BY <1>2, <1>8

\* A message that is no result finds every call answered.
LEMMA AppendOther ==
  ASSUME NEW ms, NEW sum, NEW n, NEW broken, Sound(ms, sum, n, broken, 0),
         NEW m \in Ch!Messages, m.id = n + 1, m.role # "tool", m.call = 0
  PROVE  /\ Sound(Append(ms, m), sum, n + 1, broken, n + 1)
         /\ m.role # "calls" => Sound(Append(ms, m), sum, n + 1, broken, 0)
         /\ Results(Append(ms, m), n + 1) = {}
<1>1. ms \in Seq(Ch!Messages) /\ n \in Nat /\ Placed(ms) /\ sum \subseteq 1..n
      /\ Ch!Ids(ms) \cup sum = 1..n /\ Answered(ms, broken, 0)
  BY DEF Sound
<1>2. PICK t, e : t = Append(ms, m) /\ e = Len(ms) + 1
  OBVIOUS
<1>3. /\ DOMAIN t = DOMAIN ms \cup {e} /\ e \notin DOMAIN ms
      /\ \A i \in DOMAIN ms : t[i] = ms[i] /\ i < e /\ i \in Nat
      /\ t[e] = m /\ t \in Seq(Ch!Messages) /\ Ch!Ids(t) = Ch!Ids(ms) \cup {m.id}
  BY <1>1, <1>2, Appended
<1>4. \A i \in DOMAIN ms : ms[i].id \in 1..n
  BY MessageIds
<1>5. Placed(t)
  BY <1>2, PlacedAppended
<1>6. sum \subseteq 1..(n + 1) /\ n + 1 \in Nat /\ Ch!Ids(t) \cup sum = 1..(n + 1)
  <2>1. 1..(n + 1) = (1..n) \cup {n + 1}
    BY <1>1
  <2> QED BY <1>1, <1>3, <2>1
<1>7. ASSUME NEW c \in Nat \ {0} PROVE Results(t, c) = Results(ms, c)
  <2>1. m.call # c
    OBVIOUS
  <2> QED BY <1>3, <2>1 DEF Results
<1>8. ASSUME NEW i \in DOMAIN ms PROVE ms[i].id \in Nat \ {0} /\ ms[i].id # n + 1
  <2>1. ms[i].id \in 1..n
    BY <1>4
  <2> QED BY ONLY <1>1, <2>1
<1>9. ASSUME NEW i \in DOMAIN ms, ms[i].role = "calls", ms[i].id \notin broken
      PROVE  Cardinality(Results(t, ms[i].id)) = ms[i].calls
  <2>1. Cardinality(Results(ms, ms[i].id)) = ms[i].calls
    BY <1>1, <1>8, <1>9 DEF Answered
  <2> QED BY <1>7, <1>8, <2>1
<1>10. Answered(t, broken, n + 1)
  BY <1>3, <1>9 DEF Answered
<1>11. m.role # "calls" => Answered(t, broken, 0)
  BY <1>3, <1>9 DEF Answered
<1>12. Results(t, n + 1) = {}
  <2>1. ASSUME NEW j \in DOMAIN ms PROVE ms[j].call # n + 1
    <3>1. CASE ms[j].role = "tool"
      <4>1. PICK k \in DOMAIN ms : ms[k].id = ms[j].call
        BY <1>1, <3>1 DEF Placed
      <4> QED BY <1>8, <4>1
    <3>2. CASE ms[j].role # "tool"
      <4>1. ms[j].call = 0
        BY <1>1, <3>2 DEF Placed
      <4> QED BY ONLY <1>1, <4>1
    <3> QED BY <3>1, <3>2
  <2>2. m.call # n + 1
    BY ONLY <1>1, m.call = 0
  <2> QED BY <1>3, <2>1, <2>2 DEF Results
<1>13. Sound(t, sum, n + 1, broken, n + 1)
  BY <1>3, <1>5, <1>6, <1>10 DEF Sound
<1>14. m.role # "calls" => Sound(t, sum, n + 1, broken, 0)
  BY <1>3, <1>5, <1>6, <1>11 DEF Sound
<1> QED BY <1>2, <1>12, <1>13, <1>14

\* A result of the open call, which nothing but results follow.
LEMMA AppendResult ==
  ASSUME NEW ms, NEW sum, NEW n, NEW broken, NEW p \in DOMAIN ms,
         Sound(ms, sum, n, broken, ms[p].id), ms[p].role = "calls",
         \A l \in DOMAIN ms : p < l => ms[l].role = "tool",
         NEW m \in Ch!Messages, m.id = n + 1, m.role = "tool", m.call = ms[p].id
  PROVE  /\ Sound(Append(ms, m), sum, n + 1, broken, ms[p].id)
         /\ Cardinality(Results(Append(ms, m), ms[p].id)) = Cardinality(Results(ms, ms[p].id)) + 1
<1> DEFINE c == ms[p].id
<1>1. ms \in Seq(Ch!Messages) /\ n \in Nat /\ Placed(ms) /\ sum \subseteq 1..n
      /\ Ch!Ids(ms) \cup sum = 1..n /\ Answered(ms, broken, c)
  BY DEF Sound
<1>2. PICK t, e : t = Append(ms, m) /\ e = Len(ms) + 1
  OBVIOUS
<1>3. /\ DOMAIN t = DOMAIN ms \cup {e} /\ e \notin DOMAIN ms
      /\ \A i \in DOMAIN ms : t[i] = ms[i] /\ i < e /\ i \in Nat
      /\ t[e] = m /\ t \in Seq(Ch!Messages) /\ Ch!Ids(t) = Ch!Ids(ms) \cup {m.id}
  BY <1>1, <1>2, Appended
<1>5. Placed(t)
  BY <1>2, PlacedAppended
<1>6. sum \subseteq 1..(n + 1) /\ n + 1 \in Nat /\ Ch!Ids(t) \cup sum = 1..(n + 1)
  <2>1. 1..(n + 1) = (1..n) \cup {n + 1}
    BY <1>1
  <2> QED BY <1>1, <1>3, <2>1
<1>7. ASSUME NEW d, d # c PROVE Results(t, d) = Results(ms, d)
  BY <1>3, <1>7 DEF Results
<1>8. Answered(t, broken, c)
  <2>1. ASSUME NEW i \in DOMAIN ms, ms[i].role = "calls", ms[i].id \notin broken, ms[i].id # c
        PROVE  Cardinality(Results(t, ms[i].id)) = ms[i].calls
    BY <1>1, <1>7, <2>1 DEF Answered
  <2> QED BY <1>3, <2>1 DEF Answered
<1>9. Cardinality(Results(t, c)) = Cardinality(Results(ms, c)) + 1
  <2>1. Results(t, c) = Results(ms, c) \cup {e} /\ e \notin Results(ms, c)
    BY <1>3 DEF Results
  <2> QED BY <1>1, <2>1, ResultsFinite, FS_AddElement
<1>10. Sound(t, sum, n + 1, broken, c)
  BY <1>3, <1>5, <1>6, <1>8 DEF Sound
<1> QED BY <1>2, <1>9, <1>10

\* The open call has all its results, or its run is broken off.
LEMMA Closed ==
  ASSUME NEW ms, NEW sum, NEW n, NEW broken, NEW p \in DOMAIN ms,
         Sound(ms, sum, n, broken, ms[p].id)
  PROVE  /\ Cardinality(Results(ms, ms[p].id)) = ms[p].calls => Sound(ms, sum, n, broken, 0)
         /\ Sound(ms, sum, n, broken \cup {ms[p].id}, 0)
<1>1. Answered(ms, broken \cup {ms[p].id}, 0)
  BY DEF Sound, Answered
<1>2. Placed(ms) /\ ms \in Seq(Ch!Messages) /\ n \in Nat
  BY DEF Sound
<1>3. ASSUME NEW i \in DOMAIN ms, ms[i].id = ms[p].id PROVE i = p
  <2>1. i \in Nat /\ p \in Nat /\ ms[i].id \in Nat /\ ms[p].id \in Nat
    BY MessageIds
  <2>2. ~(i < p) /\ ~(p < i)
    BY <1>2, <1>3, <2>1 DEF Placed
  <2> QED BY <2>1, <2>2
<1>4. ASSUME Cardinality(Results(ms, ms[p].id)) = ms[p].calls PROVE Answered(ms, broken, 0)
  <2> SUFFICES ASSUME NEW i \in DOMAIN ms, ms[i].role = "calls", ms[i].id \notin broken
               PROVE  Cardinality(Results(ms, ms[i].id)) = ms[i].calls
    BY DEF Answered
  <2>1. CASE ms[i].id = ms[p].id
    BY <1>3, <1>4, <2>1
  <2>2. CASE ms[i].id # ms[p].id
    BY <2>2 DEF Sound, Answered
  <2> QED BY <2>1, <2>2
<1> QED BY <1>1, <1>4 DEF Sound

\* As many numbers, d lower.
LEMMA Lowered ==
  ASSUME NEW S, NEW T, NEW d \in Nat, S \subseteq Nat, T \subseteq Nat, IsFiniteSet(T),
         \A j \in T : j + d \in S, \A k \in S : \E j \in T : j + d = k
  PROVE  Cardinality(S) = Cardinality(T)
<1> DEFINE F == [j \in T |-> j + d]
<1>1. F \in [T -> S]
  OBVIOUS
<1>2. \A a, b \in T : F[a] = F[b] => a = b
  <2> SUFFICES ASSUME NEW a \in T, NEW b \in T, a + d = b + d PROVE a = b
    OBVIOUS
  <2>1. a \in Nat /\ b \in Nat
    OBVIOUS
  <2> QED BY <2>1
<1>3. \A k \in S : \E j \in T : F[j] = k
  OBVIOUS
<1>4. F \in Bijection(T, S)
  <2> HIDE DEF F
  <2> QED BY <1>1, <1>2, <1>3, Fun_IsBij
<1>5. ExistsBijection(T, S)
  BY <1>4 DEF ExistsBijection
<1> QED BY <1>5, FS_Bijection

\* The rest of a sequence, and what is cut off it.
LEMMA CutOff ==
  ASSUME NEW ms \in Seq(Ch!Messages), NEW i \in DOMAIN ms
  PROVE  /\ Ch!From(ms, i) \in Seq(Ch!Messages)
         /\ \A k \in DOMAIN Ch!From(ms, i) :
               k \in Nat /\ k + (i - 1) \in DOMAIN ms /\ Ch!From(ms, i)[k] = ms[k + (i - 1)]
         /\ \A k \in DOMAIN ms : k >= i =>
               \E j \in DOMAIN Ch!From(ms, i) : j + (i - 1) = k
         /\ Ch!Ids(Ch!From(ms, i)) \cup Ch!Ids(SubSeq(ms, 1, i - 1)) = Ch!Ids(ms)
<1>1. PICK t, h : t = Ch!From(ms, i) /\ h = SubSeq(ms, 1, i - 1)
  OBVIOUS
<1>2. Len(ms) \in Nat /\ i \in 1..Len(ms) /\ i \in Int /\ DOMAIN ms = 1..Len(ms)
  OBVIOUS
<1>3. \A k \in i..Len(ms) : ms[k] \in Ch!Messages
  BY <1>2
<1>4. /\ t \in Seq(Ch!Messages) /\ Len(t) = Len(ms) - i + 1
      /\ \A k \in 1..(Len(ms) - i + 1) : t[k] = ms[i + k - 1]
  <2>1. t = SubSeq(ms, i, Len(ms)) /\ i <= Len(ms)
    BY <1>1, <1>2 DEF Ch!From
  <2>2. Len(ms) \in Int
    BY <1>2
  <2> QED BY <1>2, <1>3, <2>1, <2>2, SubSeqProperties
<1>5. DOMAIN t = 1..(Len(ms) - i + 1)
  BY <1>4
<1>6. ASSUME NEW k \in DOMAIN t
      PROVE  k \in Nat /\ k + (i - 1) \in DOMAIN ms /\ t[k] = ms[k + (i - 1)]
  <2>1. k \in Nat /\ k + (i - 1) \in 1..Len(ms) /\ i + k - 1 = k + (i - 1)
    BY ONLY <1>2, <1>5, k \in DOMAIN t
  <2> QED BY <1>2, <1>4, <1>5, <2>1
<1>7. ASSUME NEW k \in DOMAIN ms, k >= i PROVE \E j \in DOMAIN t : j + (i - 1) = k
  <2>1. k - i + 1 \in 1..(Len(ms) - i + 1) /\ (k - i + 1) + (i - 1) = k
    BY ONLY <1>2, <1>7, k \in DOMAIN ms
  <2> QED BY <1>5, <2>1
<1>8. /\ h \in Seq(Ch!Messages) /\ DOMAIN h = 1..(i - 1) /\ \A k \in 1..(i - 1) : h[k] = ms[k]
  <2>1. i - 1 \in Int /\ 1 \in Int
    BY <1>2
  <2>2. \A k \in 1..(i - 1) : ms[k] \in Ch!Messages
    <3>1. \A k \in 1..(i - 1) : k \in 1..Len(ms)
      BY <1>2
    <3> QED BY <1>2, <3>1
  <2>3. /\ h \in Seq(Ch!Messages) /\ Len(h) = IF 1 <= i - 1 THEN (i - 1) - 1 + 1 ELSE 0
        /\ \A k \in 1..((i - 1) - 1 + 1) : h[k] = ms[1 + k - 1]
    BY <1>1, <2>1, <2>2, SubSeqProperties
  <2>4. Len(h) = i - 1
    BY <1>2, <2>3
  <2>5. (i - 1) - 1 + 1 = i - 1 /\ \A k \in 1..(i - 1) : 1 + k - 1 = k
    BY <1>2
  <2> QED BY <2>3, <2>4, <2>5
<1>9. Ch!Ids(t) \cup Ch!Ids(h) = Ch!Ids(ms)
  <2>1. Ch!Ids(t) \subseteq Ch!Ids(ms)
    BY <1>6 DEF Ch!Ids
  <2>2. Ch!Ids(h) \subseteq Ch!Ids(ms)
    <3>1. \A k \in 1..(i - 1) : k \in DOMAIN ms
      BY <1>2
    <3> QED BY <1>8, <3>1 DEF Ch!Ids
  <2>3. ASSUME NEW k \in DOMAIN ms PROVE ms[k].id \in Ch!Ids(t) \cup Ch!Ids(h)
    <3>1. CASE k >= i
      <4>1. PICK j \in DOMAIN t : j + (i - 1) = k
        BY <1>7, <3>1
      <4> QED BY <1>6, <4>1 DEF Ch!Ids
    <3>2. CASE ~(k >= i)
      <4>1. k \in 1..(i - 1)
        BY <1>2, <3>2
      <4> QED BY <1>8, <4>1 DEF Ch!Ids
    <3> QED BY <3>1, <3>2
  <2>4. Ch!Ids(ms) \subseteq Ch!Ids(t) \cup Ch!Ids(h)
    BY <2>3 DEF Ch!Ids
  <2> QED BY <2>1, <2>2, <2>4
<1> QED BY <1>1, <1>4, <1>6, <1>7, <1>9

\* Compression at a message of the user leaves every call with its results.
LEMMA Cut ==
  ASSUME NEW ms, NEW sum, NEW n, NEW broken, Sound(ms, sum, n, broken, 0),
         NEW i \in DOMAIN ms, ms[i].role = "user"
  PROVE  Sound(Ch!From(ms, i), sum \cup Ch!Ids(SubSeq(ms, 1, i - 1)), n, broken, 0)
<1>1. /\ ms \in Seq(Ch!Messages) /\ n \in Nat /\ Placed(ms) /\ sum \subseteq 1..n
      /\ Ch!Ids(ms) \cup sum = 1..n /\ Answered(ms, broken, 0)
  BY DEF Sound
<1>2. PICK t, h, d : t = Ch!From(ms, i) /\ h = SubSeq(ms, 1, i - 1) /\ d = i - 1
  OBVIOUS
<1>3. /\ t \in Seq(Ch!Messages)
      /\ \A k \in DOMAIN t : k \in Nat /\ k + d \in DOMAIN ms /\ t[k] = ms[k + d]
      /\ \A k \in DOMAIN ms : k >= i => \E j \in DOMAIN t : j + d = k
      /\ Ch!Ids(t) \cup Ch!Ids(h) = Ch!Ids(ms)
  BY <1>1, <1>2, CutOff
<1>4. d \in Nat /\ i \in Nat /\ i = d + 1
  <2>1. i \in 1..Len(ms) /\ Len(ms) \in Nat
    BY <1>1
  <2> QED BY <1>2, <2>1
<1>5. \A k \in DOMAIN ms : ms[k].id \in Nat /\ k \in Nat
  BY MessageIds
<1>6. ASSUME NEW a \in DOMAIN t, NEW b \in DOMAIN t, a < b PROVE t[a].id < t[b].id
  <2>1. a + d < b + d
    <3>1. a \in Nat /\ b \in Nat
      BY <1>3
    <3> QED BY ONLY <1>4, <1>6, <3>1
  <2> QED BY <1>1, <1>3, <2>1 DEF Placed
\* A result that was kept has its call kept, and the same one.
<1>7. ASSUME NEW k \in DOMAIN ms, ms[k].role = "tool", k >= i
      PROVE  \E j \in DOMAIN ms :
                /\ j < k /\ ms[j].role = "calls" /\ ms[j].id = ms[k].call
                /\ \A l \in DOMAIN ms : j <= l /\ l <= k => ms[l].role # "user"
                /\ j >= i
  <2>1. PICK j \in DOMAIN ms :
           /\ j < k /\ ms[j].role = "calls" /\ ms[j].id = ms[k].call
           /\ \A l \in DOMAIN ms : j <= l /\ l <= k => ms[l].role # "user"
    BY <1>1, <1>7 DEF Placed
  <2>2. ~(j <= i)
    <3>1. i <= k
      BY ONLY <1>4, <1>5, <1>7, k \in DOMAIN ms
    <3> QED BY <2>1, <3>1
  <2>3. j >= i
    <3>1. j \in Nat
      BY <1>5
    <3> QED BY ONLY <1>4, <2>2, <3>1
  <2> QED BY <2>1, <2>3
<1>8. ASSUME NEW k \in DOMAIN t, t[k].role = "tool"
      PROVE  \E j \in DOMAIN t :
                /\ j < k /\ t[j].role = "calls" /\ t[j].id = t[k].call
                /\ \A l \in DOMAIN t : j <= l /\ l <= k => t[l].role # "user"
  <2>1. k + d \in DOMAIN ms /\ t[k] = ms[k + d] /\ k \in Nat /\ k + d \in Nat
    BY <1>3, <1>5
  <2>2. k + d >= i
    <3>1. k >= 1
      <4>1. DOMAIN t = 1..Len(t) /\ Len(t) \in Nat
        BY <1>3
      <4>2. k \in 1..Len(t)
        BY <4>1
      <4> QED BY ONLY <4>1, <4>2
    <3> QED BY ONLY <1>4, <2>1, <3>1
  <2>3. ms[k + d].role = "tool"
    BY <1>8, <2>1
  <2>4. PICK q \in DOMAIN ms :
           /\ q < k + d /\ ms[q].role = "calls" /\ ms[q].id = ms[k + d].call
           /\ \A l \in DOMAIN ms : q <= l /\ l <= k + d => ms[l].role # "user"
           /\ q >= i
    BY <1>7, <2>1, <2>2, <2>3
  <2>5. PICK j \in DOMAIN t : j + d = q
    BY <1>3, <2>4
  <2>6. j \in Nat /\ t[j] = ms[q]
    BY <1>3, <2>5
  <2>7. j < k
    BY ONLY <1>4, <2>1, <2>4, <2>5, <2>6
  <2>8. ASSUME NEW l \in DOMAIN t, j <= l, l <= k PROVE t[l].role # "user"
    <3>1. l \in Nat /\ l + d \in DOMAIN ms /\ t[l] = ms[l + d]
      BY <1>3
    <3>2. q <= l + d /\ l + d <= k + d
      BY ONLY <1>4, <2>1, <2>5, <2>6, <2>8, <3>1
    <3> QED BY <2>4, <3>1, <3>2
  <2> QED BY <2>1, <2>4, <2>6, <2>7, <2>8
<1>9. \A k \in DOMAIN t : t[k].role # "tool" => t[k].call = 0
  BY <1>1, <1>3 DEF Placed
<1>10. Placed(t)
  BY <1>6, <1>8, <1>9 DEF Placed
<1>11. ASSUME NEW a \in DOMAIN ms, NEW b \in DOMAIN ms, ms[a].id = ms[b].id PROVE a = b
  <2>1. a \in Nat /\ b \in Nat /\ ms[a].id \in Nat /\ ms[b].id \in Nat
    BY <1>5
  <2>2. ~(a < b) /\ ~(b < a)
    BY <1>1, <1>11, <2>1 DEF Placed
  <2> QED BY ONLY <2>1, <2>2
<1>12. ASSUME NEW k \in DOMAIN t, t[k].role = "calls"
       PROVE  Cardinality(Results(ms, t[k].id)) = Cardinality(Results(t, t[k].id))
  <2>1. PICK c : c = t[k].id
    OBVIOUS
  <2>2. k + d \in DOMAIN ms /\ ms[k + d].id = c /\ k \in Nat /\ c # 0
    <3>1. k + d \in DOMAIN ms /\ t[k] = ms[k + d] /\ k \in Nat
      BY <1>3
    <3>2. ms[k + d].id \in 1..n
      BY <3>1, MessageIds
    <3>3. ms[k + d].id # 0
      BY ONLY <1>1, <3>2
    <3> QED BY <2>1, <3>1, <3>3
  <2>3. k + d >= i
    <3>1. DOMAIN t = 1..Len(t) /\ Len(t) \in Nat
      BY <1>3
    <3>2. k \in 1..Len(t)
      BY <3>1
    <3> QED BY ONLY <1>4, <3>1, <3>2
  <2>4. ASSUME NEW r \in Results(ms, c) PROVE r \in DOMAIN ms /\ r >= i /\ r \in Nat
    <3>1. r \in DOMAIN ms /\ ms[r].call = c /\ r \in Nat
      BY <1>5 DEF Results
    <3>2. ms[r].role = "tool"
      BY <1>1, <2>2, <3>1 DEF Placed
    <3>3. PICK j \in DOMAIN ms : j < r /\ ms[j].id = ms[r].call
      BY <1>1, <3>1, <3>2 DEF Placed
    <3>4. j = k + d
      BY <1>11, <2>2, <3>1, <3>3
    <3>5. r >= i
      BY ONLY <1>4, <2>2, <2>3, <3>1, <3>3, <3>4
    <3> QED BY <3>1, <3>5
  <2>5. Results(ms, c) \subseteq Nat /\ Results(t, c) \subseteq Nat
    BY <1>3, <2>4 DEF Results
  <2>6. \A j \in Results(t, c) : j + d \in Results(ms, c)
    BY <1>3 DEF Results
  <2>7. \A r \in Results(ms, c) : \E j \in Results(t, c) : j + d = r
    <3> SUFFICES ASSUME NEW r \in Results(ms, c) PROVE \E j \in Results(t, c) : j + d = r
      OBVIOUS
    <3>1. PICK j \in DOMAIN t : j + d = r
      BY <1>3, <2>4
    <3>2. t[j].call = c
      BY <1>3, <3>1 DEF Results
    <3> QED BY <3>1, <3>2 DEF Results
  <2>8. IsFiniteSet(Results(t, c))
    BY <1>3, ResultsFinite
  <2>9. Cardinality(Results(ms, c)) = Cardinality(Results(t, c))
    BY ONLY <1>4, <2>5, <2>6, <2>7, <2>8, Lowered
  <2> QED BY <2>1, <2>9
<1>13. Answered(t, broken, 0)
  <2> SUFFICES ASSUME NEW k \in DOMAIN t, t[k].role = "calls", t[k].id \notin broken,
                      t[k].id # 0
               PROVE  Cardinality(Results(t, t[k].id)) = t[k].calls
    BY DEF Answered
  <2>1. k + d \in DOMAIN ms /\ t[k] = ms[k + d]
    BY <1>3
  <2>2. Cardinality(Results(ms, t[k].id)) = t[k].calls
    BY <1>1, <2>1 DEF Answered
  <2> QED BY <1>12, <2>2
<1>14. sum \cup Ch!Ids(h) \subseteq 1..n /\ Ch!Ids(t) \cup (sum \cup Ch!Ids(h)) = 1..n
  BY <1>1, <1>3
<1>15. Sound(t, sum \cup Ch!Ids(h), n, broken, 0)
  BY <1>1, <1>3, <1>10, <1>13, <1>14 DEF Sound
<1> QED BY <1>2, <1>15

-----------------------------------------------------------------------------
(* ChatContext: the conversation of a run. *)

\* The conversations of n messages.
Told(n) == [messages : Seq(Ch!Messages), summary : SUBSET (1..n), pending : BOOLEAN]

\* The run's copy is the conversation, but for a command that was decided meanwhile.
Copied == chConv.messages = chStored.messages /\ chConv.summary = chStored.summary

\* The call being carried out is the last message of the copy; only its results follow it
\* in the conversation, and those that miss are still to be had.
Open(ms, p, c) ==
    /\ p \in DOMAIN ms /\ ms[p].id = c /\ ms[p].role = "calls"
    /\ \A l \in DOMAIN ms : p < l => ms[l].role = "tool"
    /\ chTodo >= 1 /\ Cardinality(Results(ms, c)) + chTodo = ms[p].calls
Calling ==
    /\ Open(chStored.messages, Len(chConv.messages), Ch!LastCall)
    /\ Sound(chStored.messages, chStored.summary, chSaid, chBroken, Ch!LastCall)

Settled == chPc # "tool" => Sound(chStored.messages, chStored.summary, chSaid, chBroken, 0)

ChatInv ==
    /\ Ch!TypeOK /\ Settled
    /\ chPc \in {"first", "again", "budget", "ask"} => Copied
    /\ chPc = "tool" => Calling

LEMMA ChatTyped ==
  ASSUME ChatInv
  PROVE  /\ chSaid \in Nat /\ chStored \in Told(chSaid) /\ chConv \in Told(chSaid)
         /\ chAction \in {"none", "pending", "done"}
         /\ chPc \in {"idle", "first", "again", "budget", "ask", "tool"}
         /\ chReserve \in 0..Window /\ chStep \in 1..Steps /\ chTodo \in 0..Calls
         /\ chWaiting \in BOOLEAN /\ chBroken \subseteq 1..chSaid
  BY DEF ChatInv, Ch!TypeOK, Ch!Conversations, Told

LEMMA ChatTypedNext ==
  ASSUME chSaid' \in Nat, chStored' \in Told(chSaid'), chConv' \in Told(chSaid'),
         chAction' \in {"none", "pending", "done"},
         chPc' \in {"idle", "first", "again", "budget", "ask", "tool"},
         chReserve' \in 0..Window, chStep' \in 1..Steps, chTodo' \in 0..Calls,
         chWaiting' \in BOOLEAN, chBroken' \subseteq 1..chSaid'
  PROVE  Ch!TypeOK'
  BY DEF Ch!TypeOK, Ch!Conversations, Told, Ch!Messages

LEMMA ChatSettings ==
  /\ Keep \in Nat \ {0} /\ Window \in Nat \ {0} /\ Steps \in Nat \ {0} /\ Calls \in Nat \ {0}
  /\ Reserves \subseteq 0..Window
  BY PlatformAssumption DEF Ch!ChatAssumption

LEMMA ToldParts ==
  ASSUME NEW n \in Nat, NEW c \in Told(n)
  PROVE  /\ c.messages \in Seq(Ch!Messages) /\ c.summary \subseteq 1..n /\ c.pending \in BOOLEAN
         /\ c = [messages |-> c.messages, summary |-> c.summary, pending |-> c.pending]
         /\ c \in Told(n + 1)
<1>1. c.messages \in Seq(Ch!Messages) /\ c.summary \subseteq 1..n /\ c.pending \in BOOLEAN
  BY DEF Told
<1>2. c = [messages |-> c.messages, summary |-> c.summary, pending |-> c.pending]
  BY DEF Told
<1>3. 1..n \subseteq 1..(n + 1)
  OBVIOUS
<1>4. c \in Told(n + 1)
  BY <1>3 DEF Told
<1> QED BY <1>1, <1>2, <1>4

LEMMA EmptyTold == ASSUME NEW n \in Nat PROVE Ch!Empty \in Told(n)
<1>1. <<>> \in Seq(Ch!Messages)
  OBVIOUS
<1> QED BY <1>1 DEF Ch!Empty, Told

\* A message more.
LEMMA PutMessage ==
  ASSUME NEW n \in Nat, NEW c \in Told(n), NEW m \in Ch!Messages
  PROVE  /\ Ch!Put(c, m).messages = Append(c.messages, m)
         /\ Ch!Put(c, m).summary = c.summary
         /\ Ch!Put(c, m) \in Told(n + 1)
         /\ \A w \in BOOLEAN :
              LET p == [Ch!Put(c, m) EXCEPT !.pending = @ \/ w]
              IN  p.messages = Append(c.messages, m) /\ p.summary = c.summary /\ p \in Told(n + 1)
<1>1. c.messages \in Seq(Ch!Messages) /\ c.summary \subseteq 1..n /\ c.pending \in BOOLEAN
  BY ToldParts
<1>2. PICK b \in BOOLEAN : b = (c.pending /\ chAction = "pending")
  BY <1>1
<1>3. PICK a \in Seq(Ch!Messages) : a = Append(c.messages, m)
  BY <1>1, Appended
<1>4. 1..n \subseteq 1..(n + 1)
  OBVIOUS
<1>5. Ch!Put(c, m) = [messages |-> a, summary |-> c.summary, pending |-> b]
  <2>1. c = [messages |-> c.messages, summary |-> c.summary, pending |-> c.pending]
    BY ToldParts
  <2>2. [c EXCEPT !.pending = b]
          = [messages |-> c.messages, summary |-> c.summary, pending |-> b]
    BY <2>1
  <2>3. Ch!Loaded(c) = [messages |-> c.messages, summary |-> c.summary, pending |-> b]
    BY <1>2, <2>2 DEF Ch!Loaded
  <2>4. PICK l : l = [messages |-> c.messages, summary |-> c.summary, pending |-> b]
    OBVIOUS
  <2>5. Ch!Put(c, m) = [l EXCEPT !.messages = Append(l.messages, m)]
    BY <2>3, <2>4 DEF Ch!Put
  <2>6. [l EXCEPT !.messages = a] = [messages |-> a, summary |-> c.summary, pending |-> b]
    BY <2>4
  <2>7. l.messages = c.messages
    BY <2>4
  <2> QED BY <1>3, <2>5, <2>6, <2>7
<1>6. [messages |-> a, summary |-> c.summary, pending |-> b] \in Told(n + 1)
  BY <1>1, <1>4 DEF Told
<1>7. ASSUME NEW w \in BOOLEAN
      PROVE  LET p == [Ch!Put(c, m) EXCEPT !.pending = @ \/ w]
             IN  p.messages = Append(c.messages, m) /\ p.summary = c.summary /\ p \in Told(n + 1)
  <2>1. PICK e \in BOOLEAN : e = (b \/ w)
    OBVIOUS
  <2>2. [Ch!Put(c, m) EXCEPT !.pending = @ \/ w]
          = [messages |-> a, summary |-> c.summary, pending |-> e]
    BY <1>5, <2>1
  <2>3. [messages |-> a, summary |-> c.summary, pending |-> e] \in Told(n + 1)
    BY <1>1, <1>4 DEF Told
  <2> QED BY <1>3, <2>2, <2>3
<1> QED BY <1>3, <1>5, <1>6, <1>7

\* The messages that are said.
LEMMA PlainMessage ==
  ASSUME chSaid \in Nat, NEW role \in {"user", "assistant", "calls", "tool"}
  PROVE  /\ Ch!Message(role) \in Ch!Messages /\ Ch!Message(role).role = role
         /\ Ch!Message(role).id = chSaid + 1 /\ Ch!Message(role).call = 0
<1>1. 0 \in 0..Calls /\ chSaid + 1 \in Nat
  BY ChatSettings
<1> QED BY <1>1 DEF Ch!Message, Ch!Messages

CallsOf(k)     == [Ch!Message("calls") EXCEPT !.calls = k]
ResultOf(c, w) == [Ch!Message("tool") EXCEPT !.call = c, !.long = w]

LEMMA CallsMessage ==
  ASSUME chSaid \in Nat, NEW k \in 0..Calls
  PROVE  /\ CallsOf(k) \in Ch!Messages /\ CallsOf(k).id = chSaid + 1
         /\ CallsOf(k).role = "calls" /\ CallsOf(k).call = 0 /\ CallsOf(k).calls = k
<1>1. chSaid + 1 \in Nat
  OBVIOUS
<1> QED BY <1>1 DEF CallsOf, Ch!Message, Ch!Messages

LEMMA ResultMessage ==
  ASSUME chSaid \in Nat, NEW c \in Nat, NEW w \in BOOLEAN
  PROVE  /\ ResultOf(c, w) \in Ch!Messages /\ ResultOf(c, w).id = chSaid + 1
         /\ ResultOf(c, w).role = "tool" /\ ResultOf(c, w).call = c
<1>1. 0 \in 0..Calls /\ chSaid + 1 \in Nat
  BY ChatSettings
<1> QED BY <1>1 DEF ResultOf, Ch!Message, Ch!Messages

LEMMA ChatStart == ASSUME Ch!Init PROVE ChatInv
<1>1. Ch!TypeOK
  <2>1. Ch!Empty \in Told(0)
    BY EmptyTold
  <2>2. Ch!Empty \in Ch!Conversations /\ chSaid \in Nat
    BY <2>1 DEF Ch!Init, Ch!Conversations, Told
  <2>3. 0 \in 0..Window /\ 1 \in 1..Steps /\ 0 \in 0..Calls
    BY ChatSettings
  <2> QED BY <2>2, <2>3 DEF Ch!Init, Ch!TypeOK
<1>2. Sound(<<>>, {}, 0, chBroken, 0)
  <2>1. <<>> \in Seq(Ch!Messages) /\ DOMAIN <<>> = {} /\ 1..0 = {}
    OBVIOUS
  <2>2. PICK e : e = <<>> /\ DOMAIN e = {} /\ e \in Seq(Ch!Messages)
    BY <2>1
  <2>3. Placed(e) /\ Answered(e, chBroken, 0) /\ Ch!Ids(e) = {}
    BY <2>2 DEF Placed, Answered, Ch!Ids
  <2> QED BY <2>1, <2>2, <2>3 DEF Sound
<1>3. Settled
  BY <1>2 DEF Ch!Init, Ch!Empty, Settled
<1> QED BY <1>1, <1>3 DEF ChatInv, Ch!Init

\* What a run that ends leaves.
LEMMA ChatEnd ==
  ASSUME ChatInv, Ch!End, chSaid' \in Nat, chStored' \in Told(chSaid'),
         chAction' \in {"none", "pending", "done"}, chBroken' \subseteq 1..chSaid',
         Sound(chStored.messages, chStored.summary, chSaid, chBroken, 0)'
  PROVE  ChatInv'
<1>1. Ch!TypeOK'
  <2>1. Ch!Empty \in Told(chSaid')
    BY EmptyTold
  <2>2. 0 \in 0..Window /\ 1 \in 1..Steps /\ 0 \in 0..Calls
    BY ChatSettings
  <2> QED BY <2>1, <2>2, ChatTypedNext DEF Ch!End
<1> QED BY <1>1 DEF ChatInv, Settled, Ch!End

LEMMA ChatAsk == ASSUME ChatInv, Ch!Ask PROVE ChatInv'
<1>1. PICK m : m = Ch!Message("user") /\ m \in Ch!Messages /\ m.id = chSaid + 1
                 /\ m.role = "user" /\ m.call = 0
  <2>1. chSaid \in Nat /\ "user" \in {"user", "assistant", "calls", "tool"}
    BY ChatTyped
  <2> QED BY ONLY <2>1, PlainMessage
<1>2. /\ chStored'.messages = Append(chStored.messages, m)
      /\ chStored'.summary = chStored.summary /\ chStored' \in Told(chSaid + 1)
  <2>1. chStored' = Ch!Put(chStored, m)
    BY <1>1 DEF Ch!Ask
  <2> QED BY <1>1, <2>1, ChatTyped, PutMessage
<1>3. Sound(chStored.messages, chStored.summary, chSaid, chBroken, 0)
  BY DEF ChatInv, Settled, Ch!Ask
<1>4. Sound(Append(chStored.messages, m), chStored.summary, chSaid + 1, chBroken, 0)
  BY <1>1, <1>3, AppendOther
<1>5. Sound(chStored'.messages, chStored'.summary, chSaid', chBroken', 0)
  BY <1>2, <1>4 DEF Ch!Ask
<1>6. Ch!TypeOK'
  <2>1. chSaid' \in Nat /\ chSaid' = chSaid + 1 /\ 1..chSaid \subseteq 1..chSaid'
    BY ChatTyped DEF Ch!Ask
  <2>2. 1 \in 1..Steps
    BY ChatSettings
  <2> QED BY <1>2, <2>1, <2>2, ChatTyped, ChatTypedNext DEF Ch!Ask
<1> QED BY <1>5, <1>6 DEF ChatInv, Settled, Copied, Ch!Ask

LEMMA ChatCompress == ASSUME ChatInv, Ch!Compress PROVE ChatInv'
<1>1. Sound(chStored.messages, chStored.summary, chSaid, chBroken, 0) /\ Copied
  BY DEF ChatInv, Settled, Ch!Compress
<1>2. /\ Sound(chStored'.messages, chStored'.summary, chSaid, chBroken, 0)
      /\ chConv'.messages = chStored'.messages /\ chConv'.summary = chStored'.summary
      /\ chConv' \in Told(chSaid) /\ chStored' \in Told(chSaid)
  <2>1. CASE UNCHANGED <<chConv, chStored>>
    BY <1>1, <2>1, ChatTyped DEF Copied
  <2>2. CASE chConv' = chConv /\ chStored' = chConv'
    BY <1>1, <2>2, ChatTyped DEF Copied
  <2>3. CASE /\ Ch!Cardinality(Ch!Rounds(chConv.messages)) > Keep
             /\ chConv' = Ch!Compressed(chConv) /\ chStored' = chConv'
    <3>1. PICK ms, sum : ms = chConv.messages /\ sum = chConv.summary
      OBVIOUS
    <3>2. ms \in Seq(Ch!Messages) /\ Sound(ms, sum, chSaid, chBroken, 0)
      BY <1>1, <3>1 DEF Copied, Sound
    <3>3. PICK i \in DOMAIN ms : i = Ch!KeepFrom(ms) /\ ms[i].role = "user"
      BY <2>3, <3>1, <3>2, KeptRounds
    <3>4. Sound(Ch!From(ms, i), sum \cup Ch!Ids(SubSeq(ms, 1, i - 1)), chSaid, chBroken, 0)
      BY <3>2, <3>3, Cut
    <3>5. PICK t, s : t = Ch!From(ms, i) /\ s = sum \cup Ch!Ids(SubSeq(ms, 1, i - 1))
      OBVIOUS
    <3>6. t \in Seq(Ch!Messages) /\ s \subseteq 1..chSaid
      BY <3>4, <3>5 DEF Sound
    <3>7. chConv' = [chConv EXCEPT !.messages = t, !.summary = s]
      BY <2>3, <3>1, <3>3, <3>5 DEF Ch!Compressed
    <3>8. PICK b \in BOOLEAN :
             chConv = [messages |-> ms, summary |-> sum, pending |-> b]
      BY <3>1, ChatTyped, ToldParts
    <3>9. chConv' = [messages |-> t, summary |-> s, pending |-> b]
      BY <3>7, <3>8
    <3>10. chConv' \in Told(chSaid) /\ chConv'.messages = t /\ chConv'.summary = s
      BY <3>6, <3>9 DEF Told
    <3> QED BY <2>3, <3>4, <3>5, <3>10
  <2> QED BY <2>1, <2>2, <2>3 DEF Ch!Compress
<1>3. chReserve' \in 0..Window
  BY ChatSettings DEF Ch!Compress
<1>4. Ch!TypeOK'
  BY <1>2, <1>3, ChatTyped, ChatTypedNext DEF Ch!Compress
<1> QED BY <1>2, <1>4 DEF ChatInv, Settled, Copied, Ch!Compress

LEMMA ChatSend == ASSUME ChatInv, Ch!Send PROVE ChatInv'
<1>1. Sound(chStored.messages, chStored.summary, chSaid, chBroken, 0) /\ Copied
  BY DEF ChatInv, Settled, Ch!Send
<1>2. CASE Ch!End /\ chStored' = chConv
  <2>1. Sound(chStored'.messages, chStored'.summary, chSaid', chBroken', 0)
    BY <1>1, <1>2 DEF Copied, Ch!Send
  <2>2. chStored' \in Told(chSaid') /\ chSaid' \in Nat /\ chBroken' \subseteq 1..chSaid'
        /\ chAction' \in {"none", "pending", "done"}
    BY <1>2, ChatTyped DEF Ch!Send
  <2> QED BY <1>2, <2>1, <2>2, ChatEnd
<1>3. CASE chPc' = "ask" /\ UNCHANGED <<chStored, Ch!run>>
  <2>1. Ch!TypeOK'
    BY <1>3, ChatTyped, ChatTypedNext DEF Ch!Send, Ch!run
  <2> QED BY <1>1, <1>3, <2>1 DEF ChatInv, Settled, Copied, Ch!Send, Ch!run
<1> QED BY <1>2, <1>3 DEF Ch!Send

LEMMA ChatAnswer == ASSUME ChatInv, Ch!Answer PROVE ChatInv'
<1>1. PICK m : m = Ch!Message("assistant") /\ m \in Ch!Messages /\ m.id = chSaid + 1
                 /\ m.role = "assistant" /\ m.call = 0
  <2>1. chSaid \in Nat /\ "assistant" \in {"user", "assistant", "calls", "tool"}
    BY ChatTyped
  <2> QED BY ONLY <2>1, PlainMessage
<1>2. /\ chStored'.messages = Append(chConv.messages, m)
      /\ chStored'.summary = chConv.summary /\ chStored' \in Told(chSaid + 1)
  <2>1. chStored' = Ch!Put(chConv, m)
    BY <1>1 DEF Ch!Answer, Ch!Observed
  <2> QED BY <1>1, <2>1, ChatTyped, PutMessage
<1>3. Sound(chConv.messages, chConv.summary, chSaid, chBroken, 0)
  BY DEF ChatInv, Settled, Copied, Ch!Answer
<1>4. Sound(Append(chConv.messages, m), chConv.summary, chSaid + 1, chBroken, 0)
  BY <1>1, <1>3, AppendOther
<1>5. Sound(chStored'.messages, chStored'.summary, chSaid', chBroken', 0)
  BY <1>2, <1>4 DEF Ch!Answer
<1>6. chSaid' \in Nat /\ chSaid' = chSaid + 1 /\ 1..chSaid \subseteq 1..chSaid'
  BY ChatTyped DEF Ch!Answer
<1> QED BY <1>2, <1>5, <1>6, ChatTyped, ChatEnd DEF Ch!Answer

LEMMA ChatDecide == ASSUME ChatInv, Ch!Decide PROVE ChatInv'
<1>1. /\ chStored'.messages = chStored.messages /\ chStored'.summary = chStored.summary
      /\ chStored' \in Told(chSaid)
  <2>1. chStored' = [messages |-> chStored.messages, summary |-> chStored.summary,
                     pending |-> FALSE]
    <3>1. PICK a, s, b :
             /\ chStored = [messages |-> a, summary |-> s, pending |-> b]
             /\ a = chStored.messages /\ s = chStored.summary
      BY ChatTyped, ToldParts
    <3> QED BY <3>1 DEF Ch!Decide
  <2> QED BY <2>1, ChatTyped, ToldParts DEF Told
<1>2. Ch!TypeOK'
  BY <1>1, ChatTyped, ChatTypedNext DEF Ch!Decide, Ch!run
<1>3. Settled' /\ (chPc' \in {"first", "again", "budget", "ask"} => Copied')
  BY <1>1 DEF ChatInv, Settled, Copied, Ch!Decide, Ch!run
<1>4. chPc' = "tool" => Calling'
  BY <1>1 DEF ChatInv, Calling, Open, Ch!LastCall, Ch!Decide, Ch!run
<1> QED BY <1>2, <1>3, <1>4 DEF ChatInv

LEMMA ChatLeave == ASSUME ChatInv, Ch!Leave PROVE ChatInv'
<1>1. chStored' = chStored /\ chSaid' = chSaid /\ chAction' = chAction
  BY DEF Ch!Leave
<1>2. /\ Sound(chStored.messages, chStored.summary, chSaid, chBroken', 0)
      /\ chBroken' \subseteq 1..chSaid
  <2>1. CASE chPc # "tool"
    BY <2>1, ChatTyped DEF ChatInv, Settled, Ch!Leave
  <2>2. CASE chPc = "tool"
    <3>1. PICK p \in DOMAIN chStored.messages :
             /\ chStored.messages[p].id = Ch!LastCall
             /\ Sound(chStored.messages, chStored.summary, chSaid, chBroken,
                      chStored.messages[p].id)
      BY <2>2 DEF ChatInv, Calling, Open
    <3>2. Sound(chStored.messages, chStored.summary, chSaid,
                chBroken \cup {chStored.messages[p].id}, 0)
      BY <3>1, Closed
    <3>3. Ch!LastCall \in 1..chSaid
      BY <3>1, MessageIds
    <3>4. chBroken' = chBroken \cup {Ch!LastCall}
      BY <2>2 DEF Ch!Leave
    <3> QED BY <3>1, <3>2, <3>3, <3>4, ChatTyped
  <2> QED BY <2>1, <2>2
<1>3. Sound(chStored'.messages, chStored'.summary, chSaid', chBroken', 0)
  BY <1>1, <1>2
<1>4. /\ chStored' \in Told(chSaid') /\ chSaid' \in Nat /\ chBroken' \subseteq 1..chSaid'
      /\ chAction' \in {"none", "pending", "done"} /\ Ch!End
  BY <1>1, <1>2, ChatTyped DEF Ch!Leave
<1> QED BY <1>3, <1>4, ChatEnd

LEMMA ChatCallTools == ASSUME ChatInv, Ch!CallTools PROVE ChatInv'
<1>1. PICK k \in 1..Calls :
         /\ chStored' = Ch!Put(chConv, [Ch!Message("calls") EXCEPT !.calls = k])
         /\ chTodo' = k
  BY DEF Ch!CallTools, Ch!Observed
<1>2. PICK m : /\ m = [Ch!Message("calls") EXCEPT !.calls = k] /\ m \in Ch!Messages
               /\ m.id = chSaid + 1 /\ m.role = "calls" /\ m.call = 0 /\ m.calls = k
  <2>1. chSaid \in Nat
    BY ChatTyped
  <2>2. k \in 0..Calls
    BY ChatSettings
  <2>3. /\ CallsOf(k) \in Ch!Messages /\ CallsOf(k).id = chSaid + 1
        /\ CallsOf(k).role = "calls" /\ CallsOf(k).call = 0 /\ CallsOf(k).calls = k
    BY ONLY <2>1, <2>2, CallsMessage
  <2> QED BY <2>3 DEF CallsOf
<1>3. /\ chStored'.messages = Append(chConv.messages, m)
      /\ chStored'.summary = chConv.summary /\ chStored' \in Told(chSaid + 1)
  BY <1>1, <1>2, ChatTyped, PutMessage
<1>4. Sound(chConv.messages, chConv.summary, chSaid, chBroken, 0)
  BY DEF ChatInv, Settled, Copied, Ch!CallTools
<1>5. PICK t, n : t = Append(chConv.messages, m) /\ n = chSaid + 1
  OBVIOUS
<1>6. Sound(t, chConv.summary, n, chBroken, n) /\ Results(t, n) = {}
  <2>1. m.role # "tool"
    BY <1>2
  <2>2. /\ Sound(Append(chConv.messages, m), chConv.summary, chSaid + 1, chBroken, chSaid + 1)
        /\ Results(Append(chConv.messages, m), chSaid + 1) = {}
    BY ONLY <1>2, <1>4, <2>1, AppendOther
  <2> QED BY <1>5, <2>2
<1>7. /\ chConv' = chStored' /\ chSaid' = n /\ chBroken' = chBroken /\ chPc' = "tool"
      /\ chTodo' = k /\ chStored'.messages = t /\ chStored'.summary = chConv.summary
  BY <1>1, <1>3, <1>5 DEF Ch!CallTools
<1>8. chConv.messages \in Seq(Ch!Messages) /\ Len(t) = Len(chConv.messages) + 1
      /\ Len(t) \in DOMAIN t /\ t[Len(t)] = m
  <2>1. chConv.messages \in Seq(Ch!Messages)
    BY <1>4 DEF Sound
  <2> QED BY <1>2, <1>5, <2>1, Appended
<1>9. \A l \in DOMAIN t : ~(Len(t) < l)
  <2>1. DOMAIN t = 1..Len(t) /\ Len(t) \in Nat
    BY <1>6 DEF Sound
  <2> QED BY <2>1
<1>10. Cardinality(Results(t, n)) = 0
  BY <1>6, FS_EmptySet
<1>11. k \in Nat /\ k >= 1 /\ k \in 0..Calls /\ Cardinality(Results(t, n)) + k = k
  <2>1. k \in Nat /\ k >= 1 /\ k \in 0..Calls
    BY ChatSettings
  <2> QED BY <1>10, <2>1
<1>12. Ch!LastCall' = n
  BY <1>2, <1>5, <1>7, <1>8 DEF Ch!LastCall
<1>13. /\ Len(t) \in DOMAIN t /\ t[Len(t)].id = n /\ t[Len(t)].role = "calls"
       /\ \A l \in DOMAIN t : Len(t) < l => t[l].role = "tool"
       /\ chTodo' >= 1 /\ Cardinality(Results(t, n)) + chTodo' = t[Len(t)].calls
  BY <1>2, <1>5, <1>7, <1>8, <1>9, <1>11
<1>14. Open(chStored.messages, Len(chConv.messages), Ch!LastCall)'
  BY <1>7, <1>12, <1>13 DEF Open
<1>15. Sound(chStored.messages, chStored.summary, chSaid, chBroken, Ch!LastCall)'
  BY <1>6, <1>7, <1>12
<1>16. Calling'
  BY <1>14, <1>15 DEF Calling
<1>17. Ch!TypeOK'
  <2>1. n \in Nat /\ 1..chSaid \subseteq 1..n
    BY <1>5, ChatTyped
  <2>2. chStored' \in Told(chSaid') /\ chConv' \in Told(chSaid')
    BY <1>3, <1>5, <1>7
  <2>3. chTodo' \in 0..Calls /\ chPc' = "tool" /\ chSaid' = n /\ chBroken' \subseteq 1..chSaid'
    BY <1>7, <1>11, <2>1, ChatTyped
  <2>4. /\ chAction' \in {"none", "pending", "done"} /\ chReserve' \in 0..Window
        /\ chStep' \in 1..Steps /\ chWaiting' \in BOOLEAN
    BY ChatTyped DEF Ch!CallTools
  <2> QED BY <2>1, <2>2, <2>3, <2>4, ChatTypedNext
<1> QED BY <1>7, <1>16, <1>17 DEF ChatInv, Settled

\* A result more of the open call.
LEMMA ToolMessage ==
  ASSUME ChatInv, chPc = "tool", NEW m \in Ch!Messages, m.id = chSaid + 1, m.role = "tool",
         m.call = Ch!LastCall,
         chStored'.messages = Append(chStored.messages, m), chStored'.summary = chStored.summary,
         chSaid' = chSaid + 1, UNCHANGED chBroken
  PROVE  /\ Sound(chStored'.messages, chStored'.summary, chSaid', chBroken', Ch!LastCall)
         /\ chTodo > 1 /\ chTodo' = chTodo - 1 /\ UNCHANGED chConv => Calling'
         /\ chTodo = 1 => Sound(chStored'.messages, chStored'.summary, chSaid', chBroken', 0)
<1>1. PICK ms, sum, p, c :
         /\ ms = chStored.messages /\ sum = chStored.summary
         /\ p = Len(chConv.messages) /\ c = Ch!LastCall
  OBVIOUS
<1>2. /\ p \in DOMAIN ms /\ ms[p].id = c /\ ms[p].role = "calls"
      /\ \A l \in DOMAIN ms : p < l => ms[l].role = "tool"
      /\ Cardinality(Results(ms, c)) + chTodo = ms[p].calls
      /\ Sound(ms, sum, chSaid, chBroken, c)
  BY <1>1 DEF ChatInv, Calling, Open
<1>3. PICK t : t = Append(ms, m)
  OBVIOUS
<1>4. /\ Sound(t, sum, chSaid + 1, chBroken, c)
      /\ Cardinality(Results(t, c)) = Cardinality(Results(ms, c)) + 1
  <2>1. Sound(ms, sum, chSaid, chBroken, ms[p].id) /\ m.call = ms[p].id
    BY <1>1, <1>2
  <2>2. /\ Sound(Append(ms, m), sum, chSaid + 1, chBroken, ms[p].id)
        /\ Cardinality(Results(Append(ms, m), ms[p].id)) = Cardinality(Results(ms, ms[p].id)) + 1
    BY ONLY <1>2, <2>1, m \in Ch!Messages, m.id = chSaid + 1, m.role = "tool", AppendResult
  <2> QED BY <1>2, <1>3, <2>2
<1>5. ms \in Seq(Ch!Messages)
  BY <1>2 DEF Sound
<1>6. /\ DOMAIN t = DOMAIN ms \cup {Len(ms) + 1} /\ \A i \in DOMAIN ms : t[i] = ms[i]
      /\ t[Len(ms) + 1] = m
  BY <1>3, <1>5, Appended
<1>7. /\ p \in DOMAIN t /\ t[p] = ms[p] /\ t[p].id = c /\ t[p].role = "calls"
      /\ \A l \in DOMAIN t : p < l => t[l].role = "tool"
  BY <1>2, <1>6
<1>8. Cardinality(Results(ms, c)) \in Nat /\ chTodo \in Nat
  BY <1>5, ResultsFinite, ChatTyped
<1>9. chStored'.messages = t /\ chStored'.summary = sum /\ chSaid' = chSaid + 1
      /\ chBroken' = chBroken
  BY <1>1, <1>3
<1>10. Sound(chStored'.messages, chStored'.summary, chSaid', chBroken', c)
  BY <1>4, <1>9
<1>11. ASSUME chTodo > 1, chTodo' = chTodo - 1, UNCHANGED chConv PROVE Calling'
  <2>1. Ch!LastCall' = c /\ Len(chConv.messages)' = p
    BY <1>1, <1>11 DEF Ch!LastCall
  <2>2. chTodo' >= 1 /\ Cardinality(Results(t, c)) + chTodo' = t[p].calls
    <3>1. chTodo' >= 1 /\ Cardinality(Results(t, c)) + chTodo'
                            = Cardinality(Results(ms, c)) + chTodo
      BY ONLY <1>4, <1>8, <1>11
    <3> QED BY <1>2, <1>7, <3>1
  <2>3. Open(chStored.messages, Len(chConv.messages), Ch!LastCall)'
    BY <1>7, <1>9, <2>1, <2>2 DEF Open
  <2>4. Sound(chStored.messages, chStored.summary, chSaid, chBroken, Ch!LastCall)'
    BY <1>10, <2>1
  <2> QED BY <2>3, <2>4 DEF Calling
<1>12. ASSUME chTodo = 1
       PROVE  Sound(chStored'.messages, chStored'.summary, chSaid', chBroken', 0)
  <2>1. Cardinality(Results(t, t[p].id)) = t[p].calls
    BY <1>2, <1>4, <1>7, <1>8, <1>12
  <2>2. Sound(t, sum, chSaid + 1, chBroken, t[p].id)
    BY <1>4, <1>7
  <2>3. Sound(t, sum, chSaid + 1, chBroken, 0)
    BY ONLY <1>7, <2>1, <2>2, Closed
  <2> QED BY <1>9, <2>3
<1> QED BY <1>1, <1>10, <1>11, <1>12

LEMMA ChatTool == ASSUME ChatInv, Ch!Tool PROVE ChatInv'
<1>1. PICK long \in BOOLEAN, propose \in BOOLEAN :
         /\ chStored' = [Ch!Put(chStored, [Ch!Message("tool") EXCEPT
                            !.call = Ch!LastCall, !.long = long]) EXCEPT !.pending = @ \/ propose]
         /\ chAction' = IF propose THEN "pending" ELSE chAction
         /\ CASE chTodo > 1 -> /\ chTodo' = chTodo - 1 /\ chWaiting' = (chWaiting \/ propose)
                               /\ UNCHANGED <<chPc, chConv, chReserve, chStep>>
              [] chTodo = 1 /\ (chWaiting \/ propose \/ chStep = Steps) -> Ch!End
              [] OTHER -> /\ chPc' = "again" /\ chStep' = chStep + 1 /\ chConv' = chStored'
                          /\ chTodo' = 0 /\ UNCHANGED <<chReserve, chWaiting>>
  BY DEF Ch!Tool
<1>2. chPc = "tool" /\ chSaid' = chSaid + 1 /\ chBroken' = chBroken
  BY DEF Ch!Tool
<1>3. Ch!LastCall \in Nat
  <2>1. PICK p \in DOMAIN chStored.messages :
           /\ chStored.messages[p].id = Ch!LastCall
           /\ Sound(chStored.messages, chStored.summary, chSaid, chBroken, Ch!LastCall)
    BY <1>2 DEF ChatInv, Calling, Open
  <2> QED BY <2>1, MessageIds
<1>4. PICK m : /\ m = [Ch!Message("tool") EXCEPT !.call = Ch!LastCall, !.long = long]
               /\ m \in Ch!Messages /\ m.id = chSaid + 1 /\ m.role = "tool"
               /\ m.call = Ch!LastCall
  <2>1. chSaid \in Nat
    BY ChatTyped
  <2>2. PICK c \in Nat : c = Ch!LastCall
    BY <1>3
  <2>3. /\ ResultOf(c, long) \in Ch!Messages /\ ResultOf(c, long).id = chSaid + 1
        /\ ResultOf(c, long).role = "tool" /\ ResultOf(c, long).call = c
    BY ONLY <2>1, c \in Nat, long \in BOOLEAN, ResultMessage
  <2> QED BY <2>2, <2>3 DEF ResultOf
<1>5. /\ chStored'.messages = Append(chStored.messages, m)
      /\ chStored'.summary = chStored.summary /\ chStored' \in Told(chSaid + 1)
  <2>1. chStored' = [Ch!Put(chStored, m) EXCEPT !.pending = @ \/ propose]
    BY <1>1, <1>4
  <2>2. chSaid \in Nat /\ chStored \in Told(chSaid)
    BY ChatTyped
  <2>3. LET p == [Ch!Put(chStored, m) EXCEPT !.pending = @ \/ propose]
        IN  /\ p.messages = Append(chStored.messages, m) /\ p.summary = chStored.summary
            /\ p \in Told(chSaid + 1)
    BY ONLY <1>4, <2>2, propose \in BOOLEAN, PutMessage
  <2> QED BY <2>1, <2>3
<1>6. /\ chTodo > 1 /\ chTodo' = chTodo - 1 /\ UNCHANGED chConv => Calling'
      /\ chTodo = 1 => Sound(chStored'.messages, chStored'.summary, chSaid', chBroken', 0)
  BY <1>2, <1>4, <1>5, ToolMessage
<1>7. /\ chStored' \in Told(chSaid') /\ chSaid' \in Nat /\ chBroken' \subseteq 1..chSaid'
      /\ chAction' \in {"none", "pending", "done"}
  <2>1. chSaid \in Nat /\ chBroken \subseteq 1..chSaid /\ chAction \in {"none", "pending", "done"}
    BY ChatTyped
  <2>2. chSaid' \in Nat /\ 1..chSaid \subseteq 1..chSaid'
    BY <1>2, <2>1
  <2> QED BY <1>1, <1>2, <1>5, <2>1, <2>2
<1>8. chTodo \in 0..Calls /\ chTodo >= 1 /\ Calls \in Nat
  <2>1. chTodo >= 1
    BY <1>2 DEF ChatInv, Calling, Open
  <2> QED BY <2>1, ChatTyped, ChatSettings
<1>9. CASE chTodo > 1
  <2>1. chTodo' = chTodo - 1 /\ chWaiting' = (chWaiting \/ propose)
        /\ UNCHANGED <<chPc, chConv, chReserve, chStep>>
    BY <1>1, <1>9
  <2>2. chTodo' \in 0..Calls
    BY ONLY <1>8, <1>9, <2>1
  <2>3. chConv' \in Told(chSaid')
    BY <1>2, <2>1, ChatTyped, ToldParts
  <2>4. chWaiting' \in BOOLEAN
    BY <2>1
  <2>5. Ch!TypeOK'
    BY <1>7, <2>1, <2>2, <2>3, <2>4, ChatTyped, ChatTypedNext
  <2> QED BY <1>2, <1>6, <1>9, <2>1, <2>5 DEF ChatInv, Settled
<1>10. CASE chTodo = 1
  <2>1. ~(chTodo > 1)
    BY <1>10
  <2>2. CASE chWaiting \/ propose \/ chStep = Steps
    <3>1. Ch!End
      BY <1>1, <1>10, <2>1, <2>2
    <3> QED BY <1>6, <1>7, <1>10, <3>1, ChatEnd
  <2>3. CASE ~(chWaiting \/ propose \/ chStep = Steps)
    <3>1. /\ chPc' = "again" /\ chStep' = chStep + 1 /\ chConv' = chStored'
          /\ chTodo' = 0 /\ UNCHANGED <<chReserve, chWaiting>>
      BY <1>1, <2>1, <2>3
    <3>2. chStep' \in 1..Steps /\ chTodo' \in 0..Calls
      <4>1. chStep \in 1..Steps /\ Steps \in Nat /\ chStep # Steps
        BY <2>3, ChatTyped, ChatSettings
      <4> QED BY ONLY <1>8, <3>1, <4>1
    <3>3. Ch!TypeOK'
      BY <1>7, <3>1, <3>2, ChatTyped, ChatTypedNext
    <3> QED BY <1>6, <1>10, <3>1, <3>3 DEF ChatInv, Settled, Copied
  <2> QED BY <2>2, <2>3
<1> QED BY <1>8, <1>9, <1>10

LEMMA ChatNext == ASSUME ChatInv, Ch!Next PROVE ChatInv'
  BY ChatAsk, ChatCompress, ChatSend, ChatAnswer, ChatCallTools, ChatTool, ChatLeave, ChatDecide
     DEF Ch!Next

LEMMA ChatSame == ASSUME ChatInv, UNCHANGED ch PROVE ChatInv'
  BY DEF ChatInv, Ch!TypeOK, Ch!Conversations, Settled, Copied, Calling, Open, Ch!LastCall, ch

\* All of a conversation that goes to the model is what is stored, and well formed.
LEMMA ChatSent == ASSUME ChatInv PROVE Ch!SentWhole
<1> SUFFICES ASSUME chPc = "ask"
             PROVE  LET ms == Ch!Wire(chConv).messages
                    IN /\ Ch!Ids(ms) \cup Ch!Wire(chConv).summary = 1..chSaid
                       /\ \A i \in DOMAIN ms :
                             /\ ms[i].role = "tool" =>
                                   \E j \in DOMAIN ms :
                                      j < i /\ ms[j].role = "calls" /\ ms[j].id = ms[i].call
                             /\ ms[i].role = "calls" /\ ms[i].id \notin chBroken =>
                                   Ch!Cardinality({j \in DOMAIN ms : ms[j].call = ms[i].id})
                                      = ms[i].calls
  BY DEF Ch!SentWhole
<1>1. PICK ms, sum : ms = chConv.messages /\ sum = chConv.summary
  OBVIOUS
<1>2. Sound(ms, sum, chSaid, chBroken, 0)
  BY <1>1 DEF ChatInv, Settled, Copied
<1>3. /\ ms \in Seq(Ch!Messages) /\ Placed(ms) /\ Answered(ms, chBroken, 0)
      /\ Ch!Ids(ms) \cup sum = 1..chSaid /\ chSaid \in Nat
  BY <1>2 DEF Sound
<1>4. ASSUME NEW i \in DOMAIN ms PROVE ms[i].id # 0
  <2>1. ms[i].id \in 1..chSaid
    BY <1>2, MessageIds
  <2> QED BY ONLY <1>3, <2>1
<1>5. \A i \in DOMAIN ms : ms[i].role = "tool" =>
         \E j \in DOMAIN ms : j < i /\ ms[j].role = "calls" /\ ms[j].id = ms[i].call
  BY <1>3 DEF Placed
<1>6. \A i \in DOMAIN ms : ms[i].role # "tool" \/ ms[i].call # 0
  BY <1>4, <1>5
<1>7. Ch!Wire(chConv).messages = ms /\ Ch!Wire(chConv).summary = sum
  <2>1. {i \in DOMAIN ms : ms[i].role # "tool" \/ ms[i].call # 0} = DOMAIN ms
    BY <1>6
  <2>2. [i \in DOMAIN ms |-> ms[i]] = ms
    BY <1>3
  <2> QED BY <1>1, <2>1, <2>2 DEF Ch!Wire
<1>8. \A i \in DOMAIN ms : ms[i].role = "calls" /\ ms[i].id \notin chBroken =>
         Ch!Cardinality({j \in DOMAIN ms : ms[j].call = ms[i].id}) = ms[i].calls
  BY <1>3, <1>4, ChatCount DEF Answered, Results
<1> QED BY <1>3, <1>5, <1>7, <1>8

\* What a chat run sends to the model is the whole conversation: every message ever said is
\* there or read by the summary, no tool result is without its call and no call without its
\* results, however runs are broken off and the conversation compressed (_provider_messages
\* and _compress of ai/runner.py, rounds and keep_rounds of ai/context.py).
THEOREM ConversationsSentWhole == AllSpec => []SentWhole
<1>1. AllInit => ChatInv
  BY ChatStart DEF AllInit
<1>2. ChatInv /\ [AllNext]_everything => ChatInv'
  <2> SUFFICES ASSUME ChatInv, [AllNext]_everything PROVE ChatInv'
    OBVIOUS
  <2>1. CASE Ch!Next
    BY <2>1, ChatNext
  <2>2. CASE UNCHANGED ch
    BY <2>2, ChatSame
  <2> QED BY <2>1, <2>2 DEF AllNext, everything
<1>3. ChatInv => SentWhole
  BY ChatSent DEF SentWhole
<1> QED BY <1>1, <1>2, <1>3, PTL DEF AllSpec

-----------------------------------------------------------------------------
(* The types of every part. *)

\* A step of CronJobs that concerns one worker.
LEMMA JobHandleTypes ==
  ASSUME Cr!TypeOK, NEW w \in JobRequest, Cr!Handle(w) PROVE Cr!TypeOK'
<1>0. /\ w \in Cr!Worker /\ crMem[w] \in Cr!Local /\ crPc[w] \in Cr!Label
      /\ crRow \in Cr!Row /\ crJob \in Cr!Job /\ crLock \in JobRequest \cup {NoOne, Lost}
      /\ crHosts \subseteq JobHost /\ crResult \subseteq JobHost
      /\ Cr!Blank \in Cr!Local /\ Cr!NoRow \in Cr!Row /\ Cr!NoJob \in Cr!Job
  BY JobBlank DEF Cr!TypeOK, Cr!Worker
<1>1. {"idle", "lock", "read", "commit", "resolve", "schedule", "unlock", "look", "act", "save",
       "run"} = Cr!Label
  BY DEF Cr!Label
\* The memories that a handler may leave.
<1>2. PICK f : /\ f = [Cr!Blank EXCEPT !.kind = crMem[w].kind, !.user = crMem[w].user,
                                       !.redis = crMem[w].redis] /\ f \in Cr!Local
  BY <1>0, JobMemories
<1>3. /\ \A r \in BOOLEAN : [crMem[w] EXCEPT !.redis = r] \in Cr!Local
      /\ \A r \in Cr!Row : [crMem[w] EXCEPT !.seen = r] \in Cr!Local
      /\ \A ts : [crMem[w] EXCEPT !.ids = Cr!Resolve(ts)] \in Cr!Local
  BY <1>0, JobMemories, JobResolve
<1>4. ASSUME NEW label \in Cr!Label, NEW m \in Cr!Local, Moves(w, label, m),
             crRow' \in Cr!Row, crJob' \in Cr!Job, crLock' \in JobRequest \cup {NoOne, Lost},
             UNCHANGED <<crHosts, crResult>>
      PROVE  Cr!TypeOK'
  BY <1>0, <1>4, JobMoves
<1>5. ASSUME NEW label \in Cr!Label, crPc' = [crPc EXCEPT ![w] = label],
             \/ UNCHANGED crMem \/ crMem' = [crMem EXCEPT ![w] = f]
             \/ crMem' = [crMem EXCEPT ![w] = Cr!Blank]
             \/ \E r \in BOOLEAN : crMem' = [crMem EXCEPT ![w] = [crMem[w] EXCEPT !.redis = r]]
             \/ \E r \in Cr!Row : crMem' = [crMem EXCEPT ![w] = [crMem[w] EXCEPT !.seen = r]]
             \/ \E ts : crMem' = [crMem EXCEPT ![w] = [crMem[w] EXCEPT !.ids = Cr!Resolve(ts)]],
             crRow' \in Cr!Row, crJob' \in Cr!Job, crLock' \in JobRequest \cup {NoOne, Lost},
             UNCHANGED <<crHosts, crResult>>
      PROVE  Cr!TypeOK'
  <2>1. \E m \in Cr!Local : Moves(w, label, m)
    BY <1>0, <1>2, <1>3, <1>5, JobStays DEF Moves
  <2> QED BY <1>4, <1>5, <2>1
<1>6. CASE Cr!Submit(w)
  <2>1. PICK k \in Cr!Kind, u \in User, c \in Command, ts \in SUBSET Target :
           /\ crPc' = [crPc EXCEPT ![w] = Cr!Entry(k)]
           /\ crMem' = [crMem EXCEPT ![w] = Cr!Asked(k, u, c, ts)]
    BY <1>6 DEF Cr!Submit, Cr!Goto
  <2>2. Cr!Asked(k, u, c, ts) \in Cr!Local
    BY <1>0, JobMemories DEF Cr!Asked
  <2>3. Cr!Entry(k) \in Cr!Label
    BY <1>1 DEF Cr!Entry
  <2>4. Moves(w, Cr!Entry(k), Cr!Asked(k, u, c, ts))
    BY <2>1 DEF Moves
  <2>5. UNCHANGED <<crRow, crJob, crLock, crHosts, crResult>>
    BY <1>6 DEF Cr!Submit
  <2> QED BY <1>0, <1>4, <2>2, <2>3, <2>4, <2>5
<1>7. CASE Cr!AddLock(w)
  BY <1>0, <1>1, <1>5, <1>7 DEF Cr!AddLock, Cr!Goto, Cr!Answer
<1>8. CASE Cr!AddRead(w)
  BY <1>0, <1>1, <1>2, <1>5, <1>8 DEF Cr!AddRead, Cr!Goto, Cr!Forget
<1>9. CASE Cr!AddCommit(w)
  <2>1. /\ crMem' = [crMem EXCEPT ![w] = [crMem[w] EXCEPT !.seen = Cr!NoRow]]
           \/ crMem' = [crMem EXCEPT ![w] = f]
        /\ crPc' = [crPc EXCEPT ![w] = "resolve"] \/ crPc' = [crPc EXCEPT ![w] = "unlock"]
    BY <1>2, <1>9 DEF Cr!AddCommit, Cr!Goto, Cr!Forget
  <2>2. crRow' \in Cr!Row
    <3>1. crMem[w].seen \in Cr!Row /\ Cr!NewRow(w) \in Cr!Row
      BY <1>0 DEF Cr!NewRow, Cr!Local, Cr!Row
    <3>2. Cr!Written(crMem[w].seen, Cr!NewRow(w)) \in Cr!Row
      BY <1>0, <3>1 DEF Cr!Written, Cr!Row
    <3>3. [Cr!Written(crMem[w].seen, Cr!NewRow(w)) EXCEPT !.targets = crMem[w].targets] \in Cr!Row
      BY <1>0, <3>2 DEF Cr!Row, Cr!Local
    <3> QED BY <1>0, <1>9, <3>3 DEF Cr!AddCommit
  <2>3. UNCHANGED <<crJob, crLock, crHosts, crResult>>
    BY <1>9 DEF Cr!AddCommit
  <2> QED BY <1>0, <1>1, <1>5, <2>1, <2>2, <2>3
<1>10. CASE Cr!AddResolve(w)
  BY <1>0, <1>1, <1>5, <1>10 DEF Cr!AddResolve, Cr!Goto
<1>11. CASE Cr!AddSchedule(w)
  <2>1. crJob' \in Cr!Job
    BY <1>0, <1>11 DEF Cr!AddSchedule, Cr!Scheduled, Cr!Job, Cr!Local
  <2> QED BY <1>0, <1>1, <1>2, <1>5, <1>11, <2>1 DEF Cr!AddSchedule, Cr!Goto, Cr!Forget
<1>12. CASE Cr!AddUnlock(w)
  BY <1>0, <1>1, <1>5, <1>12 DEF Cr!AddUnlock, Cr!Goto, Cr!Answer
<1>13. CASE Cr!Look(w)
  BY <1>0, <1>1, <1>5, <1>13 DEF Cr!Look, Cr!Goto, Cr!Answer
<1>14. CASE Cr!Denied(w)
  BY <1>0, <1>1, <1>5, <1>14 DEF Cr!Denied, Cr!Goto, Cr!Answer
<1>15. CASE Cr!PauseAct(w)
  <2>1. crJob' \in Cr!Job
    BY <1>0, <1>15 DEF Cr!PauseAct, Cr!Job
  <2> QED BY <1>0, <1>1, <1>2, <1>5, <1>15, <2>1 DEF Cr!PauseAct, Cr!Goto, Cr!Forget
<1>16. CASE Cr!RemoveAct(w)
  BY <1>0, <1>1, <1>2, <1>5, <1>16 DEF Cr!RemoveAct, Cr!Goto, Cr!Forget
<1>17. CASE Cr!ResumeAct(w)
  <2>1. crJob' \in Cr!Job
    BY <1>0, <1>17 DEF Cr!ResumeAct, Cr!Job
  <2> QED BY <1>0, <1>1, <1>2, <1>5, <1>17, <2>1 DEF Cr!ResumeAct, Cr!Goto, Cr!Forget
<1>18. CASE Cr!RunAct(w)
  BY <1>0, <1>1, <1>2, <1>5, <1>18 DEF Cr!RunAct, Cr!Goto, Cr!Forget
<1>19. CASE Cr!ResolveAgain(w)
  BY <1>0, <1>1, <1>2, <1>5, <1>19 DEF Cr!ResolveAgain, Cr!Goto, Cr!Forget, Cr!Answer
<1>20. CASE Cr!Reschedule(w)
  <2>1. crJob' \in Cr!Job
    <3>1. crMem[w].seen.command \in Command /\ crMem[w].ids \subseteq JobHost
      BY <1>0 DEF Cr!Local, Cr!Row
    <3>2. Cr!Scheduled(crMem[w].seen.command, crMem[w].ids) \in Cr!Job
      BY <3>1 DEF Cr!Scheduled, Cr!Job
    <3> QED BY <1>0, <1>20, <3>2 DEF Cr!Reschedule
  <2> QED BY <1>0, <1>1, <1>2, <1>5, <1>20, <2>1
          DEF Cr!Reschedule, Cr!Goto, Cr!Forget, Cr!Answer
<1>21. CASE Cr!Save(w)
  <2>1. crRow' \in Cr!Row
    BY <1>0, <1>21 DEF Cr!Save, Cr!Saved, Cr!Row
  <2> QED BY <1>0, <1>1, <1>5, <1>21, <2>1 DEF Cr!Save, Cr!Goto, Cr!Answer
<1> QED BY <1>6, <1>7, <1>8, <1>9, <1>10, <1>11, <1>12, <1>13, <1>14, <1>15, <1>16, <1>17, <1>18,
           <1>19, <1>20, <1>21 DEF Cr!Handle

LEMMA JobTypeNext ==
  ASSUME Cr!TypeOK, Cr!Next \/ UNCHANGED cr PROVE Cr!TypeOK'
<1>0. /\ crRow \in Cr!Row /\ crJob \in Cr!Job /\ crLock \in JobRequest \cup {NoOne, Lost}
      /\ crHosts \subseteq JobHost /\ crResult \subseteq JobHost
      /\ crPc \in [Cr!Worker -> Cr!Label] /\ crMem \in [Cr!Worker -> Cr!Local]
      /\ Cr!Blank \in Cr!Local
  BY JobBlank DEF Cr!TypeOK
<1>1. CASE \E w \in JobRequest : Cr!Handle(w)
  BY <1>1, JobHandleTypes
<1>2. ASSUME NEW w \in Cr!Worker, Cr!RunHost(w) PROVE Cr!TypeOK'
  <2>1. PICK h \in crMem[w].ids, ok \in BOOLEAN :
           crMem' = [crMem EXCEPT ![w].ids = crMem[w].ids \ {h},
                                  ![w].bad = IF ok THEN crMem[w].bad ELSE crMem[w].bad \cup {h}]
    BY <1>2 DEF Cr!RunHost
  <2>2. PICK ids, bad :
           /\ ids = crMem[w].ids \ {h}
           /\ bad = IF ok THEN crMem[w].bad ELSE crMem[w].bad \cup {h}
    OBVIOUS
  <2>3. ids \in SUBSET JobHost /\ bad \in SUBSET JobHost
    BY <1>0, <2>2 DEF Cr!Local
  <2>4. [crMem[w] EXCEPT !.ids = ids, !.bad = bad] \in Cr!Local
    BY <2>3, JobMemories
  <2>5. crMem' = [crMem EXCEPT ![w] = [crMem[w] EXCEPT !.ids = ids, !.bad = bad]]
    BY <1>0, <2>1, <2>2 DEF Cr!Local
  <2>6. crMem' \in [Cr!Worker -> Cr!Local]
    BY <1>0, <2>4, <2>5
  <2> QED BY <1>0, <1>2, <2>6 DEF Cr!RunHost, Cr!TypeOK
<1>3. ASSUME NEW w \in Cr!Worker, Cr!RunSave(w) PROVE Cr!TypeOK'
  <2>1. crPc' \in [Cr!Worker -> Cr!Label] /\ crMem' \in [Cr!Worker -> Cr!Local]
    BY <1>0, <1>3 DEF Cr!RunSave, Cr!Answer, Cr!Goto, Cr!Label
  <2>2. crResult' \subseteq JobHost
    BY <1>0, <1>3 DEF Cr!RunSave, Cr!Local
  <2> QED BY <1>0, <1>3, <2>1, <2>2 DEF Cr!RunSave, Cr!TypeOK
<1>4. CASE Cr!Fire
  <2>1. [Cr!Blank EXCEPT !.ids = crJob.hosts] \in Cr!Local
    BY <1>0 DEF Cr!Job, Cr!Local
  <2>2. crMem' \in [Cr!Worker -> Cr!Local] /\ crPc' \in [Cr!Worker -> Cr!Label]
    BY <1>0, <1>4, <2>1 DEF Cr!Fire, Cr!Goto, Cr!Label
  <2> QED BY <1>0, <1>4, <2>2 DEF Cr!Fire, Cr!TypeOK
<1>5. CASE Cr!Lapse
  BY <1>0, <1>5 DEF Cr!Lapse, Cr!TypeOK
<1>6. CASE Cr!DeleteHost
  <2>1. crHosts' \subseteq crHosts /\ UNCHANGED <<crRow, crJob, crLock, crResult, crPc, crMem>>
    BY <1>6 DEF Cr!DeleteHost
  <2>2. crHosts' \subseteq JobHost
    BY <1>0, <2>1
  <2> QED BY <1>0, <2>1, <2>2 DEF Cr!TypeOK
<1>7. CASE Cr!Restart
  <2>1. crJob' \in Cr!Job
    BY <1>0, <1>7, JobBlank, JobResolve
       DEF Cr!Restart, Cr!Loaded, Cr!Scheduled, Cr!Job, Cr!Row
  <2> QED BY <1>0, <1>7, <2>1 DEF Cr!Restart, Cr!TypeOK, Cr!Label
<1>8. CASE UNCHANGED cr
  BY <1>8 DEF cr, Cr!TypeOK
<1> QED BY <1>1, <1>2, <1>3, <1>4, <1>5, <1>6, <1>7, <1>8 DEF Cr!Next, Cr!Execute

\* What is put together of fragments is a sequence of characters.
LEMMA MergeTypes ==
  ASSUME NEW a \in Seq(Char), NEW b \in Seq(Char) PROVE Pr!Merge(a, b) \in Seq(Char)
<1>1. a \o b \in Seq(Char)
  OBVIOUS
<1> QED BY <1>1 DEF Pr!Merge

LEMMA ModelTypeInit == ASSUME Pr!Init PROVE Pr!TypeOK
<1>0. <<>> \in Seq(Text) /\ <<>> \in Seq(Nat) /\ DOMAIN <<>> = {} /\ Len(<<>>) = 0 /\ 1..0 = {}
  OBVIOUS
<1>1. PICK e : e = <<>> /\ DOMAIN e = {} /\ e \in Seq(Text) /\ e \in [{} -> Nat]
  <2>1. <<>> \in [1..Len(<<>>) -> Nat]
    BY <1>0, LenProperties
  <2> QED BY <1>0, <2>1
<1>2. prAnswer.calls = e /\ prUpto = e /\ prText = e /\ prParts = e /\ prShown = e
  BY <1>1 DEF Pr!Init, Pr!Nothing
<1>3. 0 \in 0..Turns
  BY PlatformAssumption DEF Pr!ProviderAssumption
<1> QED BY <1>1, <1>2, <1>3 DEF Pr!Init, Pr!TypeOK, Pr!Manners

\* The variables of an attempt.
LEMMA AttemptTypes ==
  ASSUME NEW a \in Answers, Pr!Attempt(a)
  PROVE  /\ prAnswer' \in Answers \cup {Pr!Nothing} /\ prUpto' \in [DOMAIN prAnswer'.calls -> Nat]
         /\ DOMAIN prParts' \subseteq DOMAIN prAnswer'.calls
         /\ \A i \in DOMAIN prParts' : prParts'[i] \in Seq(Char)
         /\ prText' \in Seq(Text) /\ prEchoed' \in BOOLEAN
<1>1. prAnswer' = a /\ prText' = <<>> /\ prParts' = <<>>
  BY FreshAttempt
<1>2. <<>> \in Seq(Text) /\ DOMAIN <<>> = {}
  OBVIOUS
<1>3. prUpto' \in [DOMAIN a.calls -> Nat] /\ prEchoed' = FALSE
  BY DEF Pr!Attempt
<1> QED BY <1>1, <1>2, <1>3

LEMMA ModelTypeNext == ASSUME Pr!TypeOK, Pr!Next \/ UNCHANGED pr PROVE Pr!TypeOK'
<1>0. prAnswer \in AnswerKind /\ Turns \in Nat
  <2>1. Pr!Nothing \in AnswerKind
    BY DEF Pr!Nothing, AnswerKind
  <2> QED BY <2>1, PlatformAssumption DEF Pr!ProviderAssumption, AnswerKind, Pr!TypeOK
<1>1. CASE Pr!Complete
  <2>1. PICK a \in Answers : Pr!Attempt(a)
    BY <1>1 DEF Pr!Complete
  <2>2. prTurn' \in 0..Turns
    <3>1. prTurn \in 0..Turns /\ prTurn < Turns /\ prTurn' = prTurn + 1
      BY <1>1 DEF Pr!Complete, Pr!TypeOK
    <3> QED BY ONLY <1>0, <3>1
  <2>3. prPc' = "stream" /\ prManner' \in Pr!Manners /\ prEmitted' = FALSE /\ prShown' = <<>>
    BY <1>1 DEF Pr!Complete
  <2>4. prShown' \in Seq(Text)
    BY <2>3
  <2> QED BY <2>1, <2>2, <2>3, <2>4, AttemptTypes DEF Pr!TypeOK
<1>2. CASE Pr!Content
  <2>1. prAnswer.text \in Seq(Text) /\ prText \in Seq(Text) /\ prShown \in Seq(Text)
    BY <1>0 DEF AnswerKind, Pr!TypeOK
  <2>2. prAnswer.text[Len(prText) + 1] \in Text
    BY <1>2, <2>1 DEF Pr!Content
  <2>3. prText' \in Seq(Text) /\ prShown' \in Seq(Text)
    BY <1>2, <2>1, <2>2 DEF Pr!Content
  <2> QED BY <1>2, <2>3 DEF Pr!Content, Pr!TypeOK
<1>3. CASE Pr!Fragment
  <2>1. PICK i \in DOMAIN prAnswer.calls : \E k \in prUpto[i]..Len(prAnswer.calls[i]) :
           /\ prParts' = [j \in DOMAIN prParts \cup {i} |->
                 IF j # i THEN prParts[j]
                 ELSE IF prManner = "twice"
                 THEN Pr!Merge(Pr!Merge(Pr!Held(i), Sent(i, k)), Sent(i, k))
                 ELSE Pr!Merge(Pr!Held(i), Sent(i, k))]
           /\ prUpto' = [prUpto EXCEPT ![i] = k]
           /\ prEchoed' = (prEchoed \/ (prManner # "so far"
                                        /\ Pr!LooksRepeated(Pr!Held(i), Sent(i, k))))
    BY <1>3 DEF Pr!Fragment, Sent
  <2>2. PICK k \in prUpto[i]..Len(prAnswer.calls[i]) :
           /\ prParts' = [j \in DOMAIN prParts \cup {i} |->
                 IF j # i THEN prParts[j]
                 ELSE IF prManner = "twice"
                 THEN Pr!Merge(Pr!Merge(Pr!Held(i), Sent(i, k)), Sent(i, k))
                 ELSE Pr!Merge(Pr!Held(i), Sent(i, k))]
           /\ prUpto' = [prUpto EXCEPT ![i] = k]
           /\ prEchoed' = (prEchoed \/ (prManner # "so far"
                                        /\ Pr!LooksRepeated(Pr!Held(i), Sent(i, k))))
    BY <2>1
  <2>3. prAnswer.calls[i] \in Seq(Char) /\ prUpto[i] \in Nat /\ Len(prAnswer.calls[i]) \in Nat
    <3>1. prAnswer.calls[i] \in Seq(Char) /\ prUpto[i] \in Nat
      BY <1>0 DEF AnswerKind, Pr!TypeOK
    <3> QED BY <3>1
  <2>4. k \in Nat /\ k <= Len(prAnswer.calls[i])
    BY ONLY <2>3, k \in prUpto[i]..Len(prAnswer.calls[i])
  <2>5. Sent(i, k) \in Seq(Char)
    <3>1. PICK c, u : c = prAnswer.calls[i] /\ u = IF prManner = "so far" THEN 1 ELSE prUpto[i] + 1
      OBVIOUS
    <3>a. c = prAnswer.calls[i]
      BY <3>1
    <3>b. k \in Int /\ k <= Len(c) /\ c \in Seq(Char) /\ Len(c) \in Nat
      BY ONLY <2>3, <2>4, <3>a
    <3>c. u \in Int /\ u >= 1
      <4>1. CASE prManner = "so far"
        <5>1. u = 1
          BY <3>1, <4>1
        <5> QED BY ONLY <5>1
      <4>2. CASE prManner # "so far"
        <5>1. u = prUpto[i] + 1
          BY <3>1, <4>2
        <5> QED BY ONLY <2>3, <5>1
      <4> QED BY <4>1, <4>2
    <3>2. u \in Int /\ u >= 1 /\ k \in Int /\ k <= Len(c) /\ c \in Seq(Char) /\ Len(c) \in Nat
      BY <3>b, <3>c
    <3>3. \A j \in u..k : c[j] \in Char
      <4>1. \A j \in u..k : j \in 1..Len(c)
        BY ONLY <3>2
      <4>2. \A j \in 1..Len(c) : c[j] \in Char
        BY ONLY <3>2
      <4> QED BY <4>1, <4>2
    <3>4. SubSeq(c, u, k) \in Seq(Char)
      BY ONLY <3>2, <3>3, SubSeqProperties
    <3> QED BY <3>1, <3>4 DEF Sent
  <2>6. Pr!Held(i) \in Seq(Char)
    BY DEF Pr!Held, Pr!TypeOK
  <2>7. Pr!Merge(Pr!Held(i), Sent(i, k)) \in Seq(Char)
    BY <2>5, <2>6, MergeTypes
  <2>8. Pr!Merge(Pr!Merge(Pr!Held(i), Sent(i, k)), Sent(i, k)) \in Seq(Char)
    BY <2>5, <2>7, MergeTypes
  <2>9. DOMAIN prParts' \subseteq DOMAIN prAnswer.calls
        /\ \A j \in DOMAIN prParts' : prParts'[j] \in Seq(Char)
    BY <2>2, <2>7, <2>8 DEF Pr!TypeOK
  <2>10. prUpto' \in [DOMAIN prAnswer.calls -> Nat] /\ prEchoed' \in BOOLEAN
    BY <2>2, <2>4 DEF Pr!TypeOK
  <2> QED BY <1>3, <2>9, <2>10 DEF Pr!Fragment, Pr!TypeOK
<1>4. CASE Pr!Break
  BY <1>4 DEF Pr!Break, Pr!Failed, Pr!attempt, Pr!TypeOK
<1>5. CASE Pr!End
  <2>1. prPc' \in {"idle", "stream", "whole", "done", "failed"}
    BY <1>5 DEF Pr!End, Pr!Failed
  <2> QED BY <1>5, <2>1 DEF Pr!End, Pr!attempt, Pr!TypeOK
<1>6. CASE Pr!Whole
  <2>1. PICK a \in Answers :
           /\ Pr!Attempt(a)
           /\ \/ prPc' = "done" /\ prShown' = prShown \o a.text
              \/ prPc' = "failed" /\ UNCHANGED prShown
    BY <1>6 DEF Pr!Whole
  <2>2. prShown \o a.text \in Seq(Text)
    <3>1. a.text \in Seq(Text) /\ prShown \in Seq(Text)
      BY <2>1, FreshAttempt DEF AnswerKind, Pr!TypeOK
    <3> QED BY <3>1
  <2>3. prShown' \in Seq(Text) /\ prPc' \in {"done", "failed"}
    BY <2>1, <2>2 DEF Pr!TypeOK
  <2>4. UNCHANGED <<prTurn, prManner, prEmitted>>
    BY <1>6 DEF Pr!Whole
  <2> QED BY <2>1, <2>3, <2>4, AttemptTypes DEF Pr!TypeOK
<1>7. CASE UNCHANGED pr
  BY <1>7 DEF pr, Pr!TypeOK
<1> QED BY <1>1, <1>2, <1>3, <1>4, <1>5, <1>6, <1>7 DEF Pr!Next

\* HostAccess goes on as it does alone.
LEMMA AccessAlone == AllSpec => Spec
<1>1. AllInit => Init
  BY DEF AllInit
<1>2. [AllNext]_everything => [Next]_vars
  BY DEF AllNext, everything
<1> QED BY <1>1, <1>2, PTL DEF AllSpec, Spec

\* Every variable of every part stays in its type: rows, keys, labels and locals of the
\* handlers, counters, conversations and answers, whatever the requests do and in any order.
THEOREM PlatformTypes == AllSpec => []Types
<1> DEFINE Inv ==
      /\ part \in {"access", "jobs", "mail", "accounts", "chat", "model"}
      /\ part = "jobs" => Cr!TypeOK
      /\ part = "mail" => MailInv
      /\ part = "accounts" => Ac!TypeOK
      /\ part = "chat" => ChatInv
      /\ part = "model" => Pr!TypeOK
<1>1. AllInit => Inv
  BY JobInit, MailTypeInit, AccountTypeInit, ChatStart, ModelTypeInit DEF AllInit, JobInv
<1>2. Inv /\ [AllNext]_everything => Inv'
  <2> SUFFICES ASSUME Inv, [AllNext]_everything PROVE Inv'
    OBVIOUS
  <2>1. /\ part' = part
        /\ part = "jobs" => Cr!Next \/ UNCHANGED cr
        /\ part = "mail" => Ma!Next \/ UNCHANGED ma
        /\ part = "accounts" => Ac!Next \/ UNCHANGED ac
        /\ part = "chat" => Ch!Next \/ UNCHANGED ch
        /\ part = "model" => Pr!Next \/ UNCHANGED pr
    BY DEF AllNext, everything
  <2>2. part = "jobs" => Cr!TypeOK'
    BY <2>1, JobTypeNext
  <2>3. part = "mail" => MailInv'
    BY <2>1, MailTypeNext
  <2>4. part = "accounts" => Ac!TypeOK'
    BY <2>1, AccountTypeNext
  <2>5. part = "chat" => ChatInv'
    BY <2>1, ChatNext, ChatSame
  <2>6. part = "model" => Pr!TypeOK'
    BY <2>1, ModelTypeNext
  <2> QED BY <2>1, <2>2, <2>3, <2>4, <2>5, <2>6
<1>3. TypeOK /\ Inv => Types
  BY MailTyped DEF Types, ChatInv
<1>4. AllSpec => []TypeOK
  BY AccessAlone, AccessTypes, PTL
<1> HIDE DEF Inv
<1> QED BY <1>1, <1>2, <1>3, <1>4, PTL DEF AllSpec
====
