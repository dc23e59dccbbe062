------------------------------ MODULE FirstSetup ------------------------------
(***************************************************************************)
(* The three start modes and the deployment wizard (wsgi.py, setup/).  The *)
(* one worker of gunicorn decides at its start, from two files, whether it *)
(* serves the wizard, the program or an error page; an apply of the wizard *)
(* tests, generates keys, seeds the database in a subprocess, writes the   *)
(* files one after the other and kills its own worker.                     *)
(*                                                                         *)
(* The configuration is told by its encryption key alone: "legacy" stands  *)
(* for one that a deployment brought along.  gunicorn is external: it      *)
(* starts a new worker when one dies.                                      *)
(***************************************************************************)
EXTENDS Naturals, FiniteSets

CONSTANTS
    Caller,     \* greenlets that serve wizard requests
    User,       \* administrators a caller may ask for
    Key,        \* keys that generate_fernet_key may yield
    Limit,      \* FAIL_LIMIT
    Flag,       \* OGS_SETUP_MODE: "", "off" or "force"
    Faults      \* "crash": a worker dies at any time; "damage": an operator loses
                \* the configuration; "readonly": the sentinel cannot be written

ASSUME SetupAssumption ==
    /\ {"none", "legacy"} \cap Key = {} /\ User # {} /\ Limit \in Nat \ {0}
    /\ Flag \in {"", "off", "force"}
    /\ Faults \subseteq {"crash", "damage", "readonly"}

VARIABLES
    mode,       \* what the worker serves, or "boot"
    file,       \* the key in runtime.env, "none" without a usable one
    sentinel,   \* .setup_completed
    token,      \* setup_token.txt
    fails,      \* wrong tokens since the last good one
    locked,     \* the sixty seconds after too many of them
    dying,      \* the timer of _suicide runs
    admins,     \* administrators in the database
    mail,       \* the key that the stored SMTP password is encrypted with
    made,       \* keys generated so far
    served,     \* the program has been served
    pc, mem     \* of each caller

vars == <<mode, file, sentinel, token, fails, locked, dying, admins, mail, made, served,
          pc, mem>>

Stage == {"idle", "test", "seed", "admin", "settings", "write", "mark", "drop"}
Local == [user : User, key : Key \cup {"none"}, mail : BOOLEAN]
Blank == [user |-> CHOOSE u \in User : TRUE, key |-> "none", mail |-> FALSE]

Init ==
    /\ mode = "boot" /\ file \in {"none", "legacy"} /\ sentinel = FALSE
    /\ token = FALSE /\ fails = 0 /\ locked = FALSE /\ dying = FALSE
    /\ admins = {} /\ mail = "none" /\ made = {} /\ served = FALSE
    /\ pc = [c \in Caller |-> "idle"] /\ mem = [c \in Caller |-> Blank]

files  == <<file, sentinel, token>>
locks  == <<fails, locked>>
tables == <<admins, mail>>
worker == <<mode, dying, served>>
calls  == <<pc, mem>>

-----------------------------------------------------------------------------
(* Starting (state.resolve_mode, wsgi). *)

Complete == file # "none"

ShouldEnterSetup ==
    Flag # "off" /\ (Flag = "force" \/ (~Complete /\ ~sentinel))

\* Importing and starting the program may raise anything, which ends in maintenance too.
SlipBoot ==
    /\ mode = "boot"
    /\ CASE ShouldEnterSetup -> mode' = "setup" /\ token' = TRUE /\ UNCHANGED served
         [] ~ShouldEnterSetup /\ Complete ->
                /\ UNCHANGED token
                /\ \/ mode' = "normal" /\ served' = TRUE
                   \/ mode' = "maintenance" /\ UNCHANGED served
         [] OTHER -> mode' = "maintenance" /\ UNCHANGED <<token, served>>
    /\ UNCHANGED <<file, sentinel, locks, dying, tables, made, calls>>
Boot ==
    /\ mode = "boot"
    /\ CASE ShouldEnterSetup ->
                mode' = "setup" /\ token' = TRUE /\ UNCHANGED <<sentinel, served>>
         [] ~ShouldEnterSetup /\ Complete ->
                /\ UNCHANGED token
                /\ \/ /\ mode' = "normal" /\ served' = TRUE
                      /\ sentinel' \in {TRUE} \cup
                            (IF "readonly" \in Faults THEN {sentinel} ELSE {})
                   \/ mode' = "maintenance" /\ UNCHANGED <<sentinel, served>>
         [] OTHER -> mode' = "maintenance" /\ UNCHANGED <<token, sentinel, served>>
    /\ UNCHANGED <<file, locks, dying, tables, made, calls>>

-----------------------------------------------------------------------------
(* The gate of every write endpoint: it makes a token where there is none. *)

WrongToken ==
    /\ mode = "setup" /\ ~locked
    /\ token' = TRUE
    /\ IF fails + 1 >= Limit
       THEN fails' = 0 /\ locked' = TRUE
       ELSE fails' = fails + 1 /\ UNCHANGED locked
    /\ UNCHANGED <<file, sentinel, worker, tables, made, calls>>

Unlock ==
    /\ locked /\ locked' = FALSE
    /\ UNCHANGED <<files, fails, worker, tables, made, calls>>

\* verify_token, prefill and the connection tests change nothing else.
RightToken ==
    /\ mode = "setup" /\ ~locked
    /\ token' = TRUE /\ fails' = 0
    /\ UNCHANGED <<file, sentinel, locked, worker, tables, made, calls>>

-----------------------------------------------------------------------------
(* apply.  Nothing is written to a file before the subprocess is over. *)

Goto(c, stage) == pc' = [pc EXCEPT ![c] = stage] /\ UNCHANGED mem
Answer(c) ==
    pc' = [pc EXCEPT ![c] = "idle"] /\ mem' = [mem EXCEPT ![c] = Blank]

Apply(c) ==
    /\ mode = "setup" /\ ~locked /\ pc[c] = "idle"
    /\ token' = TRUE /\ fails' = 0
    /\ ShouldEnterSetup
    /\ \E u \in User, k \in Key \ made, m \in BOOLEAN :
          /\ mem' = [mem EXCEPT ![c] = [user |-> u, key |-> k, mail |-> m]]
          /\ made' = made \cup {k}
    /\ pc' = [pc EXCEPT ![c] = "test"]
    /\ UNCHANGED <<file, sentinel, locked, worker, tables>>

\* A connection test says no: nothing has been done yet.
Refused(c) ==
    /\ pc[c] = "test"
    /\ Answer(c)
    /\ UNCHANGED <<files, locks, worker, tables, made>>

\* The subprocess or the write of the file fails: what is committed stays.
Fail(c) ==
    /\ pc[c] \in {"seed", "admin", "settings", "write"}
    /\ Answer(c)
    /\ UNCHANGED <<files, locks, worker, tables, made>>

SlipTested(c) ==
    /\ pc[c] = "test"
    /\ file' = mem[c].key
    /\ Goto(c, "seed")
    /\ UNCHANGED <<sentinel, token, locks, worker, tables, made>>
Tested(c) ==
    /\ pc[c] = "test"
    /\ Goto(c, "seed")
    /\ UNCHANGED <<files, locks, worker, tables, made>>

\* bootstrap_db: tables and seed rows, the administrator, settings and mail, each with a
\* commit of its own.
Seed(c) ==
    /\ pc[c] = "seed"
    /\ Goto(c, "admin")
    /\ UNCHANGED <<files, locks, worker, tables, made>>

\* An existing account becomes an administrator; the row named admin is renamed; else a
\* new one is added.
SetAdmin(c) ==
    /\ pc[c] = "admin"
    /\ LET u == mem[c].user IN
         admins' = IF u \notin admins /\ "admin" \in admins
                   THEN (admins \ {"admin"}) \cup {u} ELSE admins \cup {u}
    /\ Goto(c, "settings")
    /\ UNCHANGED <<files, locks, worker, mail, made>>

SetSettings(c) ==
    /\ pc[c] = "settings"
    /\ mail' = IF mem[c].mail THEN mem[c].key ELSE mail
    /\ Goto(c, "write")
    /\ UNCHANGED <<files, locks, worker, admins, made>>

WriteEnv(c) ==
    /\ pc[c] = "write"
    /\ file' = mem[c].key
    /\ Goto(c, "mark")
    /\ UNCHANGED <<sentinel, token, locks, worker, tables, made>>

Mark(c) ==
    /\ pc[c] = "mark"
    /\ sentinel' \in {TRUE} \cup (IF "readonly" \in Faults THEN {sentinel} ELSE {})
    /\ Goto(c, "drop")
    /\ UNCHANGED <<file, token, locks, worker, tables, made>>

SlipDrop(c) ==
    /\ pc[c] = "drop"
    /\ token' = FALSE
    /\ Answer(c)
    /\ UNCHANGED <<file, sentinel, locks, worker, tables, made>>
Drop(c) ==
    /\ pc[c] = "drop"
    /\ token' = FALSE /\ dying' = TRUE
    /\ Answer(c)
    /\ UNCHANGED <<file, sentinel, locks, mode, served, tables, made>>

-----------------------------------------------------------------------------
(* The worker's end. *)

Die ==
    /\ mode # "boot"
    /\ dying \/ "crash" \in Faults
    /\ mode' = "boot" /\ dying' = FALSE /\ fails' = 0 /\ locked' = FALSE
    /\ pc' = [c \in Caller |-> "idle"] /\ mem' = [c \in Caller |-> Blank]
    /\ UNCHANGED <<files, tables, made, served>>

Damage ==
    /\ "damage" \in Faults /\ file # "none"
    /\ file' = "none"
    /\ UNCHANGED <<sentinel, token, locks, worker, tables, made, calls>>

Bootstrap(c) == Seed(c) \/ SetAdmin(c) \/ SetSettings(c)
Finalise(c)  == WriteEnv(c) \/ Mark(c) \/ Drop(c)

Next ==
    \/ Boot \/ Die \/ Damage
    \/ WrongToken \/ RightToken \/ Unlock
    \/ \E c \in Caller : Apply(c) \/ Refused(c) \/ Fail(c) \/ Tested(c) \/ Bootstrap(c) \/ Finalise(c)

Spec == Init /\ [][Next]_vars

\* gunicorn starts workers, a request that has written the file goes on, the timer fires.
Liveness ==
    /\ WF_vars(Boot)
    /\ WF_vars(dying /\ Die)
    /\ \A c \in Caller : WF_vars(Mark(c) \/ Drop(c))

FairSpec == Spec /\ Liveness

-----------------------------------------------------------------------------
(* Properties. *)

\* Every variable stays in its type.
TypeOK ==
    /\ mode \in {"boot", "setup", "normal", "maintenance"}
    /\ file \in Key \cup {"none", "legacy"} /\ sentinel \in BOOLEAN /\ token \in BOOLEAN
    /\ fails \in 0..Limit - 1 /\ locked \in BOOLEAN /\ dying \in BOOLEAN
    /\ admins \subseteq User /\ mail \in Key \cup {"none"} /\ made \subseteq Key
    /\ served \in BOOLEAN
    /\ pc \in [Caller -> Stage] /\ mem \in [Caller -> Local]

\* A system that has once served the program never opens the wizard again, whether the
\* wizard or the deployment configured it and whatever is lost of its configuration.
NeverReopened == Flag # "force" /\ served => mode # "setup"

\* A configuration that the wizard wrote belongs to a database with an administrator,
\* whichever step failed or crashed before.
WrittenMeansSeeded == file \in Key => admins # {}

\* Once the wizard has written a configuration, the worker that still serves the wizard is
\* replaced.
ConfiguredStarts == (file \in Key /\ mode = "setup") ~> mode # "setup"
=============================================================================
