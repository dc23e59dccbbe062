------------------------------ MODULE HostAccess ------------------------------
(***************************************************************************)
(* Who may reach which host, and what a request does there: the            *)
(* authorisation rules (auth/AuthHost.py), the gates that read them        *)
(* (assets/batch_service.py for batches, webssh.py and sftp.py for         *)
(* sessions, tools/at.py and ai/tools.py for lists), and the commands on   *)
(* several hosts with the rows they leave in t_command_log                 *)
(* (batch_service.py, ServerManagement.py, audlog.py).                     *)
(*                                                                         *)
(* One caller, of role "user" or "admin", against every change an          *)
(* administrator makes.  A change is one commit.  A request sees the       *)
(* database as it was when its transaction began; a commit or a rollback   *)
(* of its own (an audit row, a password stored anew) ends the transaction  *)
(* and the next host is read as it is by then.                             *)
(***************************************************************************)
EXTENDS Naturals, Sequences

CONSTANTS
    Rule,       \* ids of t_auth_host, in the order they are given out
    RuleName,   \* names of rules, "all permissions" apart
    Links,      \* what a rule may link: [who, groups, creds]
    Host,       \* ids of t_host
    HostGroup,  \* names of host groups
    Cred,       \* aliases of system users
    Kinds,      \* kinds of requests: see Batch and Direct
    Most        \* bound: changes the administrator makes

ASSUME HostAccessAssumption ==
    /\ Rule \subseteq Nat /\ Most \in Nat
    /\ Links \subseteq [who : SUBSET {"name", "group"}, groups : SUBSET HostGroup,
                         creds : SUBSET Cred]

VARIABLES
    rule,       \* t_auth_host and its four link tables
    host,       \* t_host: group, alias, alive
    cred,       \* aliases of the system users that are alive
    caller,     \* the caller's account is alive
    said,       \* the last answered edit of a rule, as asked for (history)
    changes,    \* commits of the administrator so far (bound)
    job,        \* the caller's request
    rows,       \* rows of t_command_log the request left, per host
    logged,     \* hosts whose alias some row of t_command_log has
    sshRows     \* rows the audit callback of ssh_cmd left, per host

vars == <<rule, host, cred, caller, said, changes, job, rows, logged, sshRows>>
db   == <<rule, host, cred, caller, said, changes>>
left == <<job, rows, logged, sshRows>>

None   == "none"
NoLinks == [who |-> {}, groups |-> {}, creds |-> {}]
NoRule == [name |-> None, alive |-> FALSE, links |-> NoLinks]
Batch  == {"command", "agent", "script", "upload"}
Direct == {"single", "group"}
Result == {"success", "failed"}

Named(n)     == {i \in Rule : rule[i].name = n}
LiveNamed(n) == {i \in Named(n) : rule[i].alive}
First(S)     == CHOOSE i \in S : \A j \in S : i <= j

-----------------------------------------------------------------------------
(* The gates. *)

\* The rules that name the caller or the caller's user group, deleted rules included;
\* a deleted account has lost its group here (at.py, ai/tools.py).
RulesOf == {i \in Rule : \/ "name" \in rule[i].links.who
                         \/ caller /\ "group" \in rule[i].links.who}

\* The same in webssh.py and sftp.py, where a deleted account keeps its group.
SlipRulesOfRow == {i \in Rule : "name" \in rule[i].links.who}
RulesOfRow == {i \in Rule : rule[i].links.who # {}}

\* The same in batch_service.py: live rules of a live account.
ActiveRules == IF caller THEN {i \in RulesOf : rule[i].alive} ELSE {}

Groups(rs)     == UNION {rule[i].links.groups : i \in rs}
With(rs, c)    == {i \in rs : c \in rule[i].links.creds}
ListedGroups   == Groups(RulesOf)
ListedCreds    == UNION {rule[i].links.creds : i \in RulesOf}
TerminalGate(h) == host[h].alive /\ host[h].group \in Groups(RulesOfRow)

\* validate_authorized_hosts, then the credential.
AuthorizedHosts(role, hs) ==
    /\ hs # {} /\ \A h \in hs : host[h].alive
    /\ role = "admin" \/ \A h \in hs : host[h].group \in Groups(ActiveRules)

\* As if two rules could share the work: one grants the hosts, another the credential.
SlipBatchGate(role, hs, c) ==
    /\ AuthorizedHosts(role, hs) /\ c \in cred
    /\ role = "admin" \/ With(ActiveRules, c) # {}
BatchGate(role, hs, c) ==
    /\ AuthorizedHosts(role, hs) /\ c \in cred
    /\ role = "admin" \/ \A h \in hs : host[h].group \in Groups(With(ActiveRules, c))

-----------------------------------------------------------------------------
(* The administrator. *)

Change == changes < Most /\ changes' = changes + 1

AddRule(i, n, l) ==
    /\ Change
    /\ rule[i] = NoRule /\ \A j \in Rule : j < i => rule[j] # NoRule
    /\ LiveNamed(n) = {}
    /\ rule' = [rule EXCEPT ![i] = [name |-> n, alive |-> TRUE, links |-> l]]
    /\ said' = NoRule
    /\ UNCHANGED <<host, cred, caller, left>>

\* The row to edit is the first of the old name, deleted rows included; every row of
\* the old name takes the new one.
UpdateRule(old, n, l) ==
    /\ Change
    /\ Named(old) # {} /\ (n = old \/ LiveNamed(n) = {})
    /\ LET i == First(Named(old))
       IN rule' = [j \in Rule |->
              [name |-> IF rule[j].name = old THEN n ELSE rule[j].name,
               alive |-> rule[j].alive,
               links |-> IF j = i THEN l ELSE rule[j].links]]
    /\ said' = IF LiveNamed(old) = {} THEN NoRule
               ELSE [name |-> n, alive |-> TRUE, links |-> l]
    /\ UNCHANGED <<host, cred, caller, left>>

\* The links of a deleted rule stay.
DelRule(n) ==
    /\ Change
    /\ LiveNamed(n) # {}
    /\ rule' = [rule EXCEPT ![First(LiveNamed(n))].alive = FALSE]
    /\ said' = NoRule
    /\ UNCHANGED <<host, cred, caller, left>>

\* ServerUpdate: another group, or another alias, which the rows of t_command_log refuse.
MoveHost(h, g) ==
    /\ Change
    /\ host[h].group # g
    /\ host' = [host EXCEPT ![h].group = g]
    /\ UNCHANGED <<rule, cred, caller, said, left>>

RenameHost(h) ==
    /\ Change
    /\ h \notin logged /\ host[h].alias = 0
    /\ host' = [host EXCEPT ![h].alias = 1]
    /\ UNCHANGED <<rule, cred, caller, said, left>>

\* ServerDel; ServerAdd takes a deleted row of the same alias back, in the group asked for.
DelHost(h) ==
    /\ Change
    /\ host[h].alive
    /\ host' = [host EXCEPT ![h].alive = FALSE]
    /\ UNCHANGED <<rule, cred, caller, said, left>>

ReviveHost(h, g) ==
    /\ Change
    /\ ~host[h].alive
    /\ host' = [host EXCEPT ![h].alive = TRUE, ![h].group = g]
    /\ UNCHANGED <<rule, cred, caller, said, left>>

\* SysUserDel and SysUserAdd: an alias can be taken again.
DelCred(c) ==
    /\ Change
    /\ c \in cred
    /\ cred' = cred \ {c}
    /\ UNCHANGED <<rule, host, caller, said, left>>

AddCred(c) ==
    /\ Change
    /\ c \notin cred
    /\ cred' = cred \cup {c}
    /\ UNCHANGED <<rule, host, caller, said, left>>

\* AccUserDel.
DelCaller ==
    /\ Change
    /\ caller /\ caller' = FALSE
    /\ UNCHANGED <<rule, host, cred, said, left>>

-----------------------------------------------------------------------------
(* The caller's request. *)

Idle == [pc |-> "idle", kind |-> None, cred |-> None, todo |-> {}, granted |-> {},
         seen |-> [alias |-> [h \in Host |-> 0], cred |-> FALSE],
         item |-> [h \in Host |-> [result |-> None, alias |-> 0, ran |-> FALSE]],
         sum |-> None]

\* What the transaction sees of the hosts still to do and of the credential.
Seen(todo, c) == [alias |-> [h \in Host |-> IF h \in todo THEN host[h].alias ELSE 0],
                  cred |-> c \in cred]

\* What one live rule grants together with the credential: the reference the gate is
\* held against.
Granted(role, c) ==
    {h \in Host : host[h].alive /\
        (role = "admin" \/
         \E i \in Rule : /\ caller /\ rule[i].alive /\ rule[i].links.who # {}
                         /\ host[h].group \in rule[i].links.groups
                         /\ c \in rule[i].links.creds)}

Accept(kind, hs, c, granted) ==
    /\ job' = [Idle EXCEPT !.pc = "loop", !.kind = kind, !.cred = c, !.todo = hs,
                           !.granted = granted, !.seen = Seen(hs, c)]
    /\ rows' = [h \in Host |-> <<>>] /\ sshRows' = [h \in Host |-> 0]
    /\ UNCHANGED <<db, logged>>

\* A batch goes through the gate.  A refused one does nothing.
StartBatch(kind, role, hs, c) ==
    /\ job.pc = "idle" /\ kind \in Kinds
    /\ BatchGate(role, hs, c)
    /\ Accept(kind, hs, c, Granted(role, c))

\* The page's batch and the approval of an agent's command: one loop runs both, but the
\* approval asks the gates itself, twice, and gives the loop no role to ask them by.  A
\* script takes an administrator, a file takes no more than the gate.
Revalidated(role, hs, c) == AuthorizedHosts(role, hs) /\ BatchGate(role, hs, c)
StartCommand(role, hs, c) == StartBatch("command", role, hs, c)
StartAgent(role, hs, c) ==
    /\ job.pc = "idle" /\ "agent" \in Kinds
    /\ Revalidated(role, hs, c)
    /\ Accept("agent", hs, c, Granted(role, c))
StartScript(hs, c) == StartBatch("script", "admin", hs, c)
StartUpload(role, hs, c) == StartBatch("upload", role, hs, c)

\* ServerCmd and GroupCmd look their hosts up by id or group, with no gate and no filter.
StartDirect(kind, hs, c) ==
    /\ job.pc = "idle" /\ kind \in Kinds /\ hs # {}
    /\ Accept(kind, hs, c, hs)

StartSingle(h, c) == StartDirect("single", {h}, c)
StartGroup(g, c)  == StartDirect("group", {h \in Host : host[h].group = g}, c)

\* _write and safe_db_write: a row whose user or host the foreign keys do not find is
\* rolled back and dropped without a word.  log_ssh_audit gives no user and the address
\* of the host, where the alias belongs.
Fits(name, alias, h) == name = "caller" /\ alias = host[h].alias
Dropped == UNCHANGED <<rows, logged>>

Audited(kind) == kind \in {"script", "single", "group"}

Attempted == {h \in Host : job.item[h].result # None}
Outcome(S) == IF \A h \in S : job.item[h].result = "success" THEN "success"
              ELSE IF \A h \in S : job.item[h].result = "failed" THEN "failed" ELSE "partial"

\* After the last host a batch writes its rows; the other requests are answered.
Onward(j) ==
    IF j.todo # {} THEN j
    ELSE IF j.kind \in Direct THEN [j EXCEPT !.pc = "done"]
    ELSE [j EXCEPT !.pc = "record", !.todo = {h \in Host : j.item[h].result # None}]

\* The credential is looked up again for every host; a deleted one opens no connection.
Connects == job.seen.cred

\* The request once h has its item.  The item has the alias as it was read before.
After(h, r, ran, renewed) ==
    [job EXCEPT !.item[h] = [result |-> r, alias |-> job.seen.alias[h], ran |-> ran],
                !.todo = job.todo \ {h},
                !.seen = IF renewed THEN Seen(job.todo \ {h}, job.cred)
                         ELSE [job.seen EXCEPT !.alias[h] = 0]]

\* One host: connect with the credential, run, close.  The callback of a command that ran
\* writes its row; that write, or a password stored anew, ends the transaction.
Attempt(h) ==
    /\ job.pc = "loop" /\ h \in job.todo
    /\ \E r \in Result, ran, renewed \in BOOLEAN :
        /\ ran => Connects
        /\ r = "success" => ran
        /\ ran /\ Audited(job.kind) => renewed
        /\ sshRows' = [sshRows EXCEPT ![h] =
               IF ran /\ Audited(job.kind) /\ Fits("", "address", h) THEN @ + 1 ELSE @]
        /\ job' = Onward(After(h, r, ran, renewed))
    /\ UNCHANGED <<db, rows, logged>>

\* The five loops: batch_service.py has three of them, ServerManagement.py two.
CommandOn(h) == job.kind \in {"command", "agent"} /\ Attempt(h)
ScriptOn(h)  == job.kind = "script" /\ Attempt(h)
UploadOn(h)  == job.kind = "upload" /\ Attempt(h)
SingleOn(h)  == job.kind = "single" /\ Attempt(h)
GroupOn(h)   == job.kind = "group" /\ Attempt(h)

\* The progress callback of an approval may raise, and the rows of the hosts so far are
\* lost; so may a host of ServerCmd and GroupCmd, which catch two exceptions only.
Raise ==
    /\ job.pc \in {"loop", "record"}
    /\ job.kind \in Direct \/ (job.kind = "agent" /\ Attempted # {})
    /\ \A h \in Host : rows[h] = <<>>
    /\ job' = Idle
    /\ UNCHANGED <<db, rows, logged, sshRows>>

\* One row per host, with its own result, written one after the other.
SlipRecord(h) ==
    /\ job.pc = "record" /\ job.kind # "upload" /\ h \in job.todo
    /\ IF Fits("caller", job.item[h].alias, h)
       THEN /\ rows' = [rows EXCEPT ![h] = Append(@, Outcome(Attempted))]
            /\ logged' = logged \cup {h}
       ELSE Dropped
    /\ job' = [job EXCEPT !.todo = @ \ {h}, !.pc = IF job.todo = {h} THEN "done" ELSE @]
    /\ UNCHANGED <<db, sshRows>>
Record(h) ==
    /\ job.pc = "record" /\ job.kind # "upload" /\ h \in job.todo
    /\ IF Fits("caller", job.item[h].alias, h)
       THEN /\ rows' = [rows EXCEPT ![h] = Append(@, job.item[h].result)]
            /\ logged' = logged \cup {h}
       ELSE Dropped
    /\ job' = [job EXCEPT !.todo = @ \ {h}, !.pc = IF job.todo = {h} THEN "done" ELSE @]
    /\ UNCHANGED <<db, sshRows>>

\* An upload has one row for all its hosts; it names the host if there is one only.
RecordUpload ==
    /\ job.pc = "record" /\ job.kind = "upload"
    /\ LET fits == \A h \in Attempted : Attempted = {h} => Fits("caller", job.item[h].alias, h)
       IN /\ job' = [job EXCEPT !.pc = "done", !.todo = {},
                                !.sum = IF fits THEN Outcome(Attempted) ELSE @]
          /\ logged' = IF fits /\ \E h \in Host : Attempted = {h}
                       THEN logged \cup Attempted ELSE logged
    /\ UNCHANGED <<db, rows, sshRows>>

Answer ==
    /\ job.pc = "done"
    /\ job' = Idle
    /\ UNCHANGED <<db, rows, logged, sshRows>>

-----------------------------------------------------------------------------
\* Two hosts of the first group or of two, their aliases not in the log, no rules.
Init ==
    /\ rule = [i \in Rule |-> NoRule]
    /\ host \in [Host -> [group : HostGroup, alias : {0}, alive : {TRUE}]]
    /\ cred = Cred /\ caller = TRUE /\ said = NoRule /\ changes = 0
    /\ job = Idle
    /\ rows = [h \in Host |-> <<>>] /\ logged = {} /\ sshRows = [h \in Host |-> 0]

Next ==
    \/ \E n \in RuleName, l \in Links :
          (\E i \in Rule : AddRule(i, n, l)) \/ (\E old \in RuleName : UpdateRule(old, n, l))
    \/ \E n \in RuleName : DelRule(n)
    \/ \E h \in Host, g \in HostGroup : MoveHost(h, g) \/ ReviveHost(h, g)
    \/ \E h \in Host : RenameHost(h) \/ DelHost(h)
    \/ \E c \in Cred : DelCred(c) \/ AddCred(c)
    \/ DelCaller
    \/ \E hs \in SUBSET Host, c \in Cred :
          \/ StartScript(hs, c)
          \/ \E role \in {"user", "admin"} :
                StartUpload(role, hs, c) \/ StartCommand(role, hs, c) \/ StartAgent(role, hs, c)
    \/ \E c \in Cred : (\E h \in Host : StartSingle(h, c)) \/ \E g \in HostGroup : StartGroup(g, c)
    \/ \E h \in Host : \/ CommandOn(h) \/ ScriptOn(h) \/ UploadOn(h) \/ SingleOn(h) \/ GroupOn(h)
                       \/ Record(h)
    \/ Raise \/ RecordUpload \/ Answer

Spec == Init /\ [][Next]_vars

-----------------------------------------------------------------------------
LinkSet == [who : SUBSET {"name", "group"}, groups : SUBSET HostGroup, creds : SUBSET Cred]
Rules   == [name : RuleName \cup {None}, alive : BOOLEAN, links : LinkSet]
Hosts   == [group : HostGroup, alias : 0..1, alive : BOOLEAN]
Jobs    == [pc : {"idle", "loop", "record", "done"}, kind : Batch \cup Direct \cup {None},
            cred : Cred \cup {None}, todo : SUBSET Host, granted : SUBSET Host,
            seen : [alias : [Host -> 0..1], cred : BOOLEAN],
            item : [Host -> [result : Result \cup {None}, alias : 0..1, ran : BOOLEAN]],
            sum : Result \cup {"partial", None}]

\* The type invariant.
TypeOK ==
    /\ rule \in [Rule -> Rules] /\ host \in [Host -> Hosts] /\ cred \subseteq Cred
    /\ caller \in BOOLEAN /\ said \in Rules /\ changes \in 0..Most /\ job \in Jobs
    /\ rows \in [Host -> Seq(Result)] /\ logged \subseteq Host /\ sshRows \in [Host -> Nat]

\* A batch reaches only hosts that some single live rule granted together with its
\* credential when the request began, whatever is revoked or moved meanwhile.
GrantedTogether == Attempted \subseteq job.granted

\* Once a batch is over each of its hosts has exactly one row, of its own result; only a
\* host renamed since the request read it has none.  An upload's one row sums it up.
RowsTrue ==
    job.pc = "done" /\ job.kind \in Batch =>
        IF job.kind = "upload"
        THEN job.sum = Outcome(Attempted) \/ \E h \in Attempted : job.item[h].alias # host[h].alias
        ELSE \A h \in Host :
                rows[h] = IF h \in Attempted /\ h \in logged THEN <<job.item[h].result>> ELSE <<>>

\* What a batch would accept, the lists and the terminal of the same caller offer: the
\* gates are four pieces of code, and the batch is the narrowest.
GatesNested ==
    \A hs \in SUBSET Host, c \in Cred :
        BatchGate("user", hs, c) =>
            /\ c \in ListedCreds
            /\ \A h \in hs : TerminalGate(h) /\ host[h].group \in ListedGroups

\* An answered edit of a rule is what the live rule of that name says.
EditStored ==
    said # NoRule => \E i \in LiveNamed(said.name) : rule[i].links = said.links

\* A command run with the audit callback leaves its row in t_command_log.
SshAudited ==
    job.pc = "done" /\ Audited(job.kind) =>
        \A h \in Host : job.item[h].ran => sshRows[h] = 1
=============================================================================
