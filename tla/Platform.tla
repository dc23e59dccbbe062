-------------------------------- MODULE Platform --------------------------------
(***************************************************************************)
(* HostAccess, CronJobs, MailCodes, Accounts, ChatContext and              *)
(* ProviderStream, composed for safety.  The parts share no state: part    *)
(* says whose behaviour this is, and the variables of the others stay as   *)
(* they are.  HostAccess is extended, the others are instances with        *)
(* variables of their own; their constants are those of the components,    *)
(* renamed where two components use one name.                              *)
(***************************************************************************)
EXTENDS HostAccess, FiniteSets

CONSTANTS
    \* CronJobs
    JobRequest, Scheduler, NoOne, Lost, User, JobAdmin, Command, JobHost, Target, JobMembers, Alone,
    Faults,
    \* MailCodes
    MailRequest, Mail, Code, DayLimit, IpLimit, Tries,
    \* Accounts
    Op, Id, Name, Group,
    \* ChatContext
    Keep, Window, Floor, Reserves, Steps, Calls, Longest,
    \* ProviderStream
    Text, Char, Answers, Turns

VARIABLES
    part,
    crRow, crJob, crLock, crHosts, crResult, crPc, crMem,
    maKnown, maCall, maLast, maDay, maCode, maFails, maLock, maSent, maTried, maUsed,
    acRow, acKey, acGrp, acAll, acMoved, acOp,
    chStored, chSaid, chAction, chPc, chConv, chReserve, chStep, chTodo, chWaiting, chBroken,
    prPc, prTurn, prManner, prAnswer, prUpto, prText, prParts, prEmitted, prShown, prEchoed,
    prResult

cr == <<crRow, crJob, crLock, crHosts, crResult, crPc, crMem>>
ma == <<maKnown, maCall, maLast, maDay, maCode, maFails, maLock, maSent, maTried, maUsed>>
ac == <<acRow, acKey, acGrp, acAll, acMoved, acOp>>
ch == <<chStored, chSaid, chAction, chPc, chConv, chReserve, chStep, chTodo, chWaiting, chBroken>>
pr == <<prPc, prTurn, prManner, prAnswer, prUpto, prText, prParts, prEmitted, prShown, prEchoed,
        prResult>>
everything == <<part, vars, cr, ma, ac, ch, pr>>

Cr == INSTANCE CronJobs WITH
    Request <- JobRequest, Host <- JobHost, Admin <- JobAdmin, Members <- JobMembers,
    row <- crRow, job <- crJob, lock <- crLock, hosts <- crHosts, result <- crResult,
    pc <- crPc, mem <- crMem

Ma == INSTANCE MailCodes WITH
    Request <- MailRequest,
    known <- maKnown, call <- maCall, last <- maLast, day <- maDay, code <- maCode,
    fails <- maFails, lock <- maLock, sent <- maSent, tried <- maTried, used <- maUsed

\* Requests under way at once concern different names and groups, and no update comes from a
\* page that shows a deleted account.
Ac == INSTANCE Accounts WITH
    Apart <- TRUE, Stale <- FALSE,
    row <- acRow, key <- acKey, grp <- acGrp, all <- acAll, moved <- acMoved, op <- acOp

Ch == INSTANCE ChatContext WITH
    Most <- Longest,
    stored <- chStored, said <- chSaid, action <- chAction, pc <- chPc, conv <- chConv,
    reserve <- chReserve, step <- chStep, todo <- chTodo, waiting <- chWaiting,
    broken <- chBroken

Pr == INSTANCE ProviderStream WITH
    pc <- prPc, turn <- prTurn, manner <- prManner, answer <- prAnswer, upto <- prUpto,
    text <- prText, parts <- prParts, emitted <- prEmitted, shown <- prShown,
    echoed <- prEchoed, result <- prResult

ASSUME PlatformAssumption ==
    /\ Cr!CronAssumption /\ Ma!MailCodesAssumption /\ Ac!AccountsAssumption
    /\ Ch!ChatAssumption /\ Pr!ProviderAssumption

AllInit ==
    /\ part \in {"access", "jobs", "mail", "accounts", "chat", "model"}
    /\ Init /\ (part # "access" => \A h \in Host : host[h].group = CHOOSE g \in HostGroup : TRUE)
    /\ Cr!Init /\ Ac!Init /\ Ch!Init /\ Pr!Init
    /\ Ma!Init /\ (part # "mail" => maKnown = {})

AllNext ==
    /\ UNCHANGED part
    /\ \/ part = "access" /\ Next /\ UNCHANGED <<cr, ma, ac, ch, pr>>
       \/ part = "jobs" /\ Cr!Next /\ UNCHANGED <<vars, ma, ac, ch, pr>>
       \/ part = "mail" /\ Ma!Next /\ UNCHANGED <<vars, cr, ac, ch, pr>>
       \/ part = "accounts" /\ Ac!Next /\ UNCHANGED <<vars, cr, ma, ch, pr>>
       \/ part = "chat" /\ Ch!Next /\ UNCHANGED <<vars, cr, ma, ac, pr>>
       \/ part = "model" /\ Pr!Next /\ UNCHANGED <<vars, cr, ma, ac, ch>>

AllSpec == AllInit /\ [][AllNext]_everything

-----------------------------------------------------------------------------
(* The properties of the instances under names of their own. *)

\* Every variable of every part stays in its type.
Types ==
    CASE part = "access"   -> TypeOK
      [] part = "jobs"     -> Cr!TypeOK
      [] part = "mail"     -> Ma!TypeOK
      [] part = "accounts" -> Ac!TypeOK
      [] part = "chat"     -> Ch!TypeOK
      [] part = "model"    -> Pr!TypeOK

\* What the scheduler holds is a live job of the table.
ScheduledIsStored == part = "jobs" => Cr!ScheduledIsStored

\* No address gets more mails in a day than the limit, and none more wrong codes than the
\* limit and the resets under way.
MailLimits == part = "mail" => Ma!DayLimitKept /\ Ma!GuessesBounded

\* A reset code is not found again once a reset was carried out with it.
CodeSpent == Ma!CodeSpent

\* The role that requests are judged by is the role of the row.
RoleFromRow == part = "accounts" => Ac!RoleFromRow

\* The count of a group is the number of its accounts, and "all permissions" grants no
\* deleted group.
GroupsTrue == part = "accounts" => Ac!CountsTrue /\ Ac!AllGrantsLive

\* The model is sent the whole conversation, and a well-formed one.
SentWhole == part = "chat" => Ch!SentWhole

\* The browser is shown one answer, once, and failures are tried again only before that.
ShownOnce == part = "model" => Pr!ShownOnce

\* Calls have the arguments that were sent, unless an increment looked like a repetition.
ArgumentsWhole == part = "model" => Pr!ArgumentsWhole
=============================================================================
