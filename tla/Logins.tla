------------------------------- MODULE Logins -------------------------------
(***************************************************************************)
(* Signing in and the session it opens (users/user.py, local/Captcha.py,   *)
(* tools/at.py, tools/csrf.py).  Several logins run at once; each is a     *)
(* chain of single Redis commands.  The failure counters and the locks are *)
(* kept per account and per address; all requests come from one address.   *)
(* A session is a token key and a CSRF nonce key, each with a TTL of its   *)
(* own, counted here in ticks.  The role and alias keys that a login also  *)
(* writes are in Accounts.  The server does not stop during a login here.  *)
(***************************************************************************)
EXTENDS Integers, FiniteSets

CONSTANTS
    Login,      \* login requests under way at once
    User,       \* accounts that exist and are not deleted
    Stranger,   \* names no account has
    Captcha,    \* captchas that can be issued
    Token,      \* tokens: each successful login takes a new one
    Limit,      \* fail_limit_user
    LimitIp,    \* fail_limit_ip
    Chosen,     \* login_time of the settings, in ticks
    Session     \* SESSION_DEFAULT_EXP_SECONDS, in ticks: also CSRF_NONCE_TTL

LoginsAssumption ==
    /\ User \cap Stranger = {} /\ "ip" \notin User
    /\ {Limit, LimitIp, Chosen, Session} \subseteq Nat \ {0}
    /\ IsFiniteSet(Login)

VARIABLES
    login,      \* per request: where it is, its name, its captcha and its token
    captcha,    \* captchas in Redis
    spent,      \* captchas whose check has been made (history)
    fails,      \* login_fail:<user> and login_fail_ip:<ip>
    lock,       \* login_lock:<user> and login_lock_ip:<ip>
    tried,      \* wrong passwords since the counter was last gone (history)
    token,      \* ticks a token still has: Gone, Ever (no TTL) or a number
    nonce,      \* the same for its CSRF nonce
    issued,     \* tokens written to Redis so far
    given       \* tokens the browser has: their login was answered

vars == <<login, captcha, spent, fails, lock, tried, token, nonce, issued, given>>

Gone == -2
Ever == -1
Counter  == User \cup {"ip"}
Top(k) == IF k = "ip" THEN LimitIp ELSE Limit
Most == IF Chosen > Session THEN Chosen ELSE Session

None == "none"
Idle == [pc |-> "idle", name |-> None, cap |-> None, tok |-> None]

Init ==
    /\ login = [r \in Login |-> Idle]
    /\ captcha = {} /\ spent = {}
    /\ fails = [k \in Counter |-> 0] /\ tried = [k \in Counter |-> 0]
    /\ lock = [k \in Counter |-> FALSE]
    /\ token = [t \in Token |-> Gone] /\ nonce = [t \in Token |-> Gone]
    /\ issued = {} /\ given = {}

Goto(r, pc) == login' = [login EXCEPT ![r].pc = pc]
Leave(r)    == login' = [login EXCEPT ![r] = Idle]
NoSession   == UNCHANGED <<token, nonce, issued, given>>
NoCount     == UNCHANGED <<fails, lock, tried>>

-----------------------------------------------------------------------------
(* The captcha. *)

\* Identifiers are random: a new one may stand for one that nobody holds any more.
Issue(c) ==
    /\ c \notin captcha /\ \A r \in Login : login[r].cap # c
    /\ captcha' = captcha \cup {c} /\ spent' = spent \ {c}
    /\ UNCHANGED login /\ NoCount /\ NoSession

CaptchaLapses(c) ==
    /\ c \in captcha
    /\ captcha' = captcha \ {c}
    /\ UNCHANGED <<login, spent>> /\ NoCount /\ NoSession

\* The stored answer is read; an unknown captcha refuses the request at once.
Begin(r, name, c) ==
    /\ login[r].pc = "idle" /\ c \in captcha
    /\ login' = [login EXCEPT ![r] = [Idle EXCEPT !.pc = "stored", !.name = name, !.cap = c]]
    /\ UNCHANGED <<captcha, spent>> /\ NoCount /\ NoSession

\* It is deleted before it is compared, right or wrong.
SlipSpend(r) ==
    /\ login[r].pc = "stored"
    /\ \/ /\ login' = [login EXCEPT ![r].pc = "account lock", ![r].cap = None]
          /\ captcha' = captcha \ {login[r].cap}
       \/ Leave(r) /\ UNCHANGED captcha
    /\ spent' = spent \cup {login[r].cap}
    /\ NoCount /\ NoSession
Spend(r) ==
    /\ login[r].pc = "stored"
    /\ captcha' = captcha \ {login[r].cap}
    /\ spent' = spent \cup {login[r].cap}
    /\ \/ login' = [login EXCEPT ![r].pc = "account lock", ![r].cap = None]
       \/ Leave(r)
    /\ NoCount /\ NoSession

-----------------------------------------------------------------------------
(* The locks and the password. *)

LookAtLock(r, k, here, next) ==
    /\ login[r].pc = here
    /\ IF k \in Counter /\ lock[k] THEN Leave(r) ELSE Goto(r, next)
    /\ UNCHANGED <<captcha, spent>> /\ NoCount /\ NoSession

AccountLock(r) == LookAtLock(r, login[r].name, "account lock", "address lock")
AddressLock(r) == LookAtLock(r, "ip", "address lock", "password")

Password(r) ==
    /\ login[r].pc = "password"
    /\ \/ login[r].name \in User /\ Goto(r, "token") /\ UNCHANGED tried
       \/ /\ Goto(r, "count address")
          /\ tried' = [k \in Counter |-> tried[k] + IF k \in {login[r].name, "ip"} THEN 1 ELSE 0]
    /\ UNCHANGED <<captcha, spent, fails, lock>> /\ NoSession

\* _bump_login_fail: the counter with its TTL, then, by the value incr gave, the lock.
\* A failure at the limit writes the lock in a command of its own.
Count(r, k, here, locking, next) ==
    /\ login[r].pc = here
    /\ fails' = [fails EXCEPT ![k] = @ + 1]
    /\ Goto(r, IF fails[k] + 1 >= Top(k) THEN locking ELSE next)
    /\ UNCHANGED <<captcha, spent, lock, tried>> /\ NoSession

Lock(r, k, here, next) ==
    /\ login[r].pc = here
    /\ lock' = [lock EXCEPT ![k] = TRUE]
    /\ IF next = "idle" THEN Leave(r) ELSE Goto(r, next)
    /\ UNCHANGED <<captcha, spent, fails, tried>> /\ NoSession

AfterAddress(r) == IF login[r].name \in User THEN "count account" ELSE "done"
SlipCountAddress(r) == Count(r, "ip", "count address", "lock address", "done")
CountAddress(r) == Count(r, "ip", "count address", "lock address", AfterAddress(r))
LockAddress(r)  == Lock(r, "ip", "lock address", AfterAddress(r))
CountAccount(r) == Count(r, login[r].name, "count account", "lock account", "done")
LockAccount(r)  == Lock(r, login[r].name, "lock account", "done")

\* The answer of a failed login.
Answer(r) ==
    /\ login[r].pc = "done"
    /\ Leave(r)
    /\ UNCHANGED <<captcha, spent>> /\ NoCount /\ NoSession

\* A counter and its lock lapse after lock_duration.  The lock is written after the
\* counter's TTL, so at the limit the counter is the first to go.
CountLapses(k) ==
    /\ fails[k] > 0
    /\ fails' = [fails EXCEPT ![k] = 0] /\ tried' = [tried EXCEPT ![k] = 0]
    /\ UNCHANGED <<login, captcha, spent, lock>> /\ NoSession

LockLapses(k) ==
    /\ lock[k] /\ fails[k] < Top(k)
    /\ lock' = [lock EXCEPT ![k] = FALSE]
    /\ UNCHANGED <<login, captcha, spent, fails, tried>> /\ NoSession

-----------------------------------------------------------------------------
(* The session a right password opens: the token, then its TTL, the counters, the nonce. *)

SetToken(r) ==
    /\ login[r].pc = "token"
    /\ \E t \in Token \ issued :
          /\ token' = [token EXCEPT ![t] = Ever]
          /\ issued' = issued \cup {t}
          /\ login' = [login EXCEPT ![r].pc = "expire", ![r].tok = t]
    /\ UNCHANGED <<captcha, spent, nonce, given>> /\ NoCount

SlipExpireToken(r) ==
    /\ login[r].pc = "expire"
    /\ Goto(r, "clear account")
    /\ UNCHANGED <<captcha, spent>> /\ NoCount /\ NoSession
ExpireToken(r) ==
    /\ login[r].pc = "expire"
    /\ token' = [token EXCEPT ![login[r].tok] = Chosen]
    /\ Goto(r, "clear account")
    /\ UNCHANGED <<captcha, spent, nonce, issued, given>> /\ NoCount

Clear(r, k, here, next) ==
    /\ login[r].pc = here
    /\ fails' = [fails EXCEPT ![k] = 0] /\ tried' = [tried EXCEPT ![k] = 0]
    /\ Goto(r, next)
    /\ UNCHANGED <<captcha, spent, lock>> /\ NoSession

ClearAccount(r) == Clear(r, login[r].name, "clear account", "clear address")
ClearAddress(r) == Clear(r, "ip", "clear address", "nonce")

SetNonce(r) ==
    /\ login[r].pc = "nonce"
    /\ nonce' = [nonce EXCEPT ![login[r].tok] = Session]
    /\ given' = given \cup {login[r].tok}
    /\ Leave(r)
    /\ UNCHANGED <<captcha, spent, token, issued>> /\ NoCount

-----------------------------------------------------------------------------
(* Requests of the session. *)

\* ogs_auth_token and _ws_session_check_and_renew: below half the TTL, or without one.
Renewed(ttl) == IF ttl = Ever \/ 2 * ttl < Session THEN Session ELSE ttl

\* csrf_protect comes first: a read and a WebSocket handshake need no nonce.
CsrfPassed(t, changing) == changing => nonce[t] # Gone

Request(t, changing) ==
    /\ t \in given /\ token[t] # Gone
    /\ CsrfPassed(t, changing)
    /\ token' = [token EXCEPT ![t] = Renewed(@)]
    /\ UNCHANGED <<login, captcha, spent, nonce, issued, given>> /\ NoCount

\* Exempt from CSRF.  Clearing the nonce is a second command.
Logout(t) ==
    /\ t \in given /\ token[t] # Gone
    /\ token' = [token EXCEPT ![t] = Gone]
    /\ UNCHANGED <<login, captcha, spent, nonce, issued, given>> /\ NoCount

ClearNonce(t) ==
    /\ t \in given /\ token[t] = Gone /\ nonce[t] # Gone
    /\ nonce' = [nonce EXCEPT ![t] = Gone]
    /\ UNCHANGED <<login, captcha, spent, token, issued, given>> /\ NoCount

Aged(ttl) == IF ttl \in {Gone, Ever} THEN ttl ELSE IF ttl <= 1 THEN Gone ELSE ttl - 1

\* Time passes.  A login takes far less than a tick.
Tick ==
    /\ \A r \in Login : login[r].tok = None
    /\ \E t \in Token : token[t] # Gone \/ nonce[t] # Gone
    /\ token' = [t \in Token |-> Aged(token[t])]
    /\ nonce' = [t \in Token |-> Aged(nonce[t])]
    /\ UNCHANGED <<login, captcha, spent, issued, given>> /\ NoCount

-----------------------------------------------------------------------------
Step(r) ==
    \/ Spend(r) \/ AccountLock(r) \/ AddressLock(r) \/ Password(r)
    \/ CountAddress(r) \/ LockAddress(r) \/ CountAccount(r) \/ LockAccount(r) \/ Answer(r)
    \/ SetToken(r) \/ ExpireToken(r) \/ ClearAccount(r) \/ ClearAddress(r) \/ SetNonce(r)

Next ==
    \/ \E c \in Captcha : Issue(c) \/ CaptchaLapses(c)
    \/ \E r \in Login, name \in User \cup Stranger, c \in Captcha : Begin(r, name, c)
    \/ \E r \in Login : Step(r)
    \/ \E k \in Counter : CountLapses(k) \/ LockLapses(k)
    \/ \E t \in Token : Request(t, TRUE) \/ Request(t, FALSE) \/ Logout(t) \/ ClearNonce(t)
    \/ Tick

Spec == Init /\ [][Next]_vars

\* Time goes on, and the server takes the next step of a request it has begun.
Fairness == WF_vars(Tick) /\ \A r \in Login : WF_vars(Step(r))

FairSpec == Spec /\ Fairness

-----------------------------------------------------------------------------
\* The type invariant.
TypeOK ==
    /\ login \in [Login ->
          [pc : {"idle", "stored", "account lock", "address lock", "password",
                 "count address", "lock address", "count account", "lock account", "done",
                 "token", "expire", "clear account", "clear address", "nonce"},
           name : User \cup Stranger \cup {None}, cap : Captcha \cup {None},
           tok : Token \cup {None}]]
    /\ captcha \subseteq Captcha /\ spent \subseteq Captcha
    /\ fails \in [Counter -> Nat] /\ tried \in [Counter -> Nat] /\ lock \in [Counter -> BOOLEAN]
    /\ token \in [Token -> {Gone, Ever} \cup 1..Most] /\ nonce \in [Token -> {Gone} \cup 1..Session]
    /\ issued \subseteq Token /\ given \subseteq issued

\* The lock is looked up before the password is checked and written after: requests that
\* are under way together get past it together, and no more than that.
GuessesBounded ==
    \A k \in Counter : tried[k] <= Top(k) + Cardinality(Login) - 1

\* What a step that reads a captcha may not do.
FreshGuess ==
    \A r \in Login :
        login[r].pc = "idle" /\ login'[r].pc = "stored" => login'[r].cap \notin spent

\* A captcha gives one guess: a request that comes after it was compared, with whatever
\* outcome, does not find it.  (Requests that read it together all go on.)
OneGuess == [][FreshGuess]_vars

\* A session ends unless requests keep coming that renew it, also one whose login chose a
\* shorter life: no token stays in Redis without a TTL.
UnusedSessionEnds ==
    \A t \in Token :
        \/ token[t] # Gone ~> token[t] = Gone
        \/ []<><<Request(t, FALSE)>>_vars
=============================================================================
