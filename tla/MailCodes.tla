------------------------------ MODULE MailCodes ------------------------------
(***************************************************************************)
(* The codes that are sent by mail (users/user.py): CheckMail.send for the *)
(* registration, ForgotPwdSend and ForgotPwdReset for a lost password,     *)
(* and _check_captcha_rate_limit, which both kinds of mail go through.     *)
(* Requests run at once, each as a chain of single Redis commands, all     *)
(* from one address.  A mail address belongs to an account or to none, so  *)
(* only one kind of code can be sent to it.                                *)
(***************************************************************************)
EXTENDS Naturals, FiniteSets

CONSTANTS
    Request,    \* requests under way at once
    Mail,       \* addresses
    Code,       \* codes that can be drawn
    DayLimit,   \* mails to one address in a day (10)
    IpLimit,    \* mails asked from one network address in a day (30)
    Tries       \* failures at which a reset is locked (5)

MailCodesAssumption ==
    /\ "ip" \notin Mail
    /\ {DayLimit, IpLimit, Tries} \subseteq Nat \ {0}
    /\ IsFiniteSet(Request)

VARIABLES
    known,      \* addresses that belong to an account
    call,       \* per request: where it is, its mail and the code it read
    last,       \* cap_last:<mail>
    day,        \* cap_day:<mail> and cap_ip:<ip>
    code,       \* the code kept for a mail
    fails,      \* forgot_fail:<mail> and forgot_fail_ip:<ip>
    lock,       \* forgot_lock:<mail> and forgot_lock_ip:<ip>
    sent,       \* mails sent since cap_day was last gone (history)
    tried,      \* wrong codes since the counter was last gone (history)
    used        \* codes a reset was carried out with, successfully or not (history)

vars == <<known, call, last, day, code, fails, lock, sent, tried, used>>

None == "none"
Key  == Mail \cup {"ip"}
Idle == [pc |-> "idle", mail |-> None, seen |-> None]

Init ==
    /\ known \in SUBSET Mail
    /\ call = [r \in Request |-> Idle]
    /\ last = [m \in Mail |-> FALSE] /\ code = [m \in Mail |-> None]
    /\ day = [k \in Key |-> 0] /\ fails = [k \in Key |-> 0]
    /\ lock = [k \in Key |-> FALSE]
    /\ sent = [m \in Mail |-> 0]
    /\ tried = [k \in Key |-> 0] /\ used = {}

Goto(r, pc) == call' = [call EXCEPT ![r].pc = pc]
Leave(r)    == call' = [call EXCEPT ![r] = Idle]
NoSending   == UNCHANGED <<known, last, day, sent>>
NoReset     == UNCHANGED <<fails, lock, tried, used>>

-----------------------------------------------------------------------------
(* Sending.  An address with no account gets no reset code, and the answer does not say *)
(* so; one with an account gets no registration code.                                   *)

SendBegin(r, m) ==
    /\ call[r].pc = "idle"
    /\ call' = [call EXCEPT ![r] = [Idle EXCEPT !.pc = "last", !.mail = m]]
    /\ UNCHANGED code /\ NoSending /\ NoReset

LookAtLast(r) ==
    /\ call[r].pc = "last"
    /\ IF last[call[r].mail] THEN Leave(r) ELSE Goto(r, "day")
    /\ UNCHANGED code /\ NoSending /\ NoReset

\* INCR counts a request that is then refused, too (beyond the limit the counter stands
\* still here: it is the same to everyone).
CountDay(r, k, most, here, next) ==
    /\ call[r].pc = here
    /\ day' = [day EXCEPT ![k] = IF @ > most THEN @ ELSE @ + 1]
    /\ IF day[k] + 1 > most THEN Leave(r) ELSE Goto(r, next)
    /\ UNCHANGED <<known, code, last, sent>> /\ NoReset

CountMail(r) == CountDay(r, call[r].mail, DayLimit, "day", "ip")
CountIp(r)   == CountDay(r, "ip", IpLimit, "ip", "mark")

Mark(r) ==
    /\ call[r].pc = "mark"
    /\ last' = [last EXCEPT ![call[r].mail] = TRUE]
    /\ Goto(r, "draw")
    /\ UNCHANGED <<known, code, day, sent>> /\ NoReset

\* A code that nobody holds; a registration code that is still valid is left alone and
\* not sent again.
Draw(r) ==
    /\ call[r].pc = "draw"
    /\ LET m == call[r].mail
       IN IF m \notin known /\ code[m] # None
          THEN Leave(r) /\ UNCHANGED <<code, used>>
          ELSE \E c \in Code :
                 /\ \A n \in Mail : code[n] # c
                 /\ \A q \in Request : call[q].seen # c
                 /\ code' = [code EXCEPT ![m] = c] /\ used' = used \ {c}
                 /\ Goto(r, "send")
    /\ UNCHANGED <<fails, lock, tried>> /\ NoSending

Send(r) ==
    /\ call[r].pc = "send"
    /\ sent' = [sent EXCEPT ![call[r].mail] = @ + 1]
    /\ Leave(r)
    /\ UNCHANGED <<known, code, last, day>> /\ NoReset

-----------------------------------------------------------------------------
(* Resetting a password.  (A registration reads its code and no more: the row it then  *)
(* inserts has neither alias nor group, and both columns refuse that.)                 *)

ResetBegin(r, m) ==
    /\ call[r].pc = "idle"
    /\ call' = [call EXCEPT ![r] = [Idle EXCEPT !.pc = "mail lock", !.mail = m]]
    /\ UNCHANGED code /\ NoSending /\ NoReset

LookAtLock(r, k, here, next) ==
    /\ call[r].pc = here
    /\ IF lock[k] THEN Leave(r) ELSE Goto(r, next)
    /\ UNCHANGED code /\ NoSending /\ NoReset

MailLock(r) == LookAtLock(r, call[r].mail, "mail lock", "ip lock")
IpLock(r)   == LookAtLock(r, "ip", "ip lock", "read")

\* No code counts as a failure, a wrong one too.  The key of a registration code is
\* another one: here it is as if there were none.
Read(r) ==
    /\ call[r].pc = "read"
    /\ LET m == call[r].mail
           c == IF m \in known THEN code[m] ELSE None
           guess == [k \in Key |-> tried[k] + IF k \in {m, "ip"} THEN 1 ELSE 0]
       IN \/ c = None /\ Goto(r, "count mail") /\ UNCHANGED tried
          \/ c # None /\ Goto(r, "count mail") /\ tried' = guess
          \/ c # None /\ call' = [call EXCEPT ![r].pc = "delete", ![r].seen = c]
                      /\ UNCHANGED tried
    /\ UNCHANGED <<code, fails, lock, used>> /\ NoSending

\* _bump_forgot_fail, the mail first and then the address.
SlipCount(r, k, here, locking, next) ==
    /\ call[r].pc = here
    /\ fails' = [fails EXCEPT ![k] = @ + 1]
    /\ Goto(r, IF fails[k] + 1 > Tries THEN locking ELSE next)
    /\ UNCHANGED <<code, lock, tried, used>> /\ NoSending
Count(r, k, here, locking, next) ==
    /\ call[r].pc = here
    /\ fails' = [fails EXCEPT ![k] = @ + 1]
    /\ Goto(r, IF fails[k] + 1 >= Tries THEN locking ELSE next)
    /\ UNCHANGED <<code, lock, tried, used>> /\ NoSending

Lock(r, k, here, next) ==
    /\ call[r].pc = here
    /\ lock' = [lock EXCEPT ![k] = TRUE]
    /\ Goto(r, next)
    /\ UNCHANGED <<code, fails, tried, used>> /\ NoSending

CountFail(r) == Count(r, call[r].mail, "count mail", "lock mail", "count ip")
LockMail(r)  == Lock(r, call[r].mail, "lock mail", "count ip")
CountFailIp(r) == Count(r, "ip", "count ip", "lock ip", "done")
LockIp(r)    == Lock(r, "ip", "lock ip", "done")

Answer(r) ==
    /\ call[r].pc = "done"
    /\ Leave(r)
    /\ UNCHANGED code /\ NoSending /\ NoReset

\* The right code: it goes first, so that a commit that fails leaves nothing to use again.
SlipDelete(r) ==
    /\ call[r].pc = "delete"
    /\ Goto(r, "clear")
    /\ UNCHANGED code /\ NoSending /\ NoReset
Delete(r) ==
    /\ call[r].pc = "delete"
    /\ code' = [code EXCEPT ![call[r].mail] = None]
    /\ Goto(r, "clear")
    /\ NoSending /\ NoReset

ClearFails(r) ==
    /\ call[r].pc = "clear"
    /\ LET kept(f) == [k \in Key |-> IF k \in {call[r].mail, "ip"} THEN 0 ELSE f[k]]
       IN fails' = kept(fails) /\ tried' = kept(tried)
    /\ Goto(r, "commit")
    /\ UNCHANGED <<code, lock, used>> /\ NoSending

\* The commit of the new password, or its failure.
Commit(r) ==
    /\ call[r].pc = "commit"
    /\ used' = used \cup {call[r].seen}
    /\ Leave(r)
    /\ UNCHANGED <<code, fails, lock, tried>> /\ NoSending

-----------------------------------------------------------------------------
(* Keys lapse: cap_last after a minute, a code after three, counters and locks after   *)
(* half an hour (the counter at its limit before its lock), cap_day after a day, which *)
(* no request outlasts.                                                                *)

LastLapses(m) ==
    /\ last[m]
    /\ last' = [last EXCEPT ![m] = FALSE]
    /\ UNCHANGED <<known, call, code, day, sent>> /\ NoReset

Sending == {"day", "ip", "mark", "draw", "send"}

DayLapses(k) ==
    /\ day[k] > 0 /\ \A r \in Request : call[r].pc \notin Sending
    /\ day' = [day EXCEPT ![k] = 0]
    /\ sent' = [m \in Mail |-> IF m = k THEN 0 ELSE sent[m]]
    /\ UNCHANGED <<known, call, code, last>> /\ NoReset

CodeLapses(m) ==
    /\ code[m] # None
    /\ code' = [code EXCEPT ![m] = None]
    /\ UNCHANGED call /\ NoSending /\ NoReset

FailsLapse(k) ==
    /\ fails[k] > 0
    /\ fails' = [fails EXCEPT ![k] = 0] /\ tried' = [tried EXCEPT ![k] = 0]
    /\ UNCHANGED <<call, code, lock, used>> /\ NoSending

LockLapses(k) ==
    /\ lock[k] /\ fails[k] < Tries
    /\ lock' = [lock EXCEPT ![k] = FALSE]
    /\ UNCHANGED <<call, code, fails, tried, used>> /\ NoSending

-----------------------------------------------------------------------------
Step(r) ==
    \/ LookAtLast(r) \/ CountMail(r) \/ CountIp(r) \/ Mark(r) \/ Draw(r) \/ Send(r)
    \/ MailLock(r) \/ IpLock(r) \/ Read(r) \/ CountFail(r) \/ LockMail(r)
    \/ CountFailIp(r) \/ LockIp(r) \/ Answer(r)
    \/ Delete(r) \/ ClearFails(r) \/ Commit(r)

Next ==
    \/ \E r \in Request, m \in Mail : SendBegin(r, m) \/ ResetBegin(r, m)
    \/ \E r \in Request : Step(r)
    \/ \E m \in Mail : LastLapses(m) \/ CodeLapses(m)
    \/ \E k \in Key : DayLapses(k) \/ FailsLapse(k) \/ LockLapses(k)

Spec == Init /\ [][Next]_vars

-----------------------------------------------------------------------------
\* The type invariant.
TypeOK ==
    /\ known \subseteq Mail
    /\ call \in [Request ->
          [pc : {"idle", "mail lock", "ip lock", "read", "count mail", "lock mail", "count ip",
                 "lock ip", "done", "delete", "clear", "commit", "last"}
                \cup Sending,
           mail : Mail \cup {None}, seen : Code \cup {None}]]
    /\ last \in [Mail -> BOOLEAN] /\ code \in [Mail -> Code \cup {None}]
    /\ day \in [Key -> Nat] /\ fails \in [Key -> Nat] /\ tried \in [Key -> Nat]
    /\ lock \in [Key -> BOOLEAN]
    /\ sent \in [Mail -> Nat] /\ used \subseteq Code

\* The daily limit is kept exactly, whatever runs at once: INCR counts before it decides.
DayLimitKept == \A m \in Mail : sent[m] <= DayLimit

\* A reset code can be guessed at most as often as the lock and the requests under way
\* allow, and asking for a new code gives no new guesses.
GuessesBounded == \A k \in Key : tried[k] <= Tries + Cardinality(Request) - 1

\* A reset that comes after another one was carried out, or failed to be, never finds the
\* code of that one.
CodeSpent ==
    [][\A r \in Request :
          call[r].seen = None /\ call'[r].seen # None => call'[r].seen \notin used]_vars
==============================================================================
