# OrangeServer: formal models

TLA+ models of the stateful parts of OrangeServer's backend (`src/backend`),
checked with TLC and, where stated, proved with TLAPS. Every definition is
translated from the code; `PROJECT.json` maps each one to its lines.

## The system

OrangeServer manages a fleet of Linux hosts: a Vue front end, a Flask backend
served by **one** gunicorn worker of class gevent (`--workers 1`), MySQL, Redis,
and a scheduler (APScheduler) inside the worker. Every request is a greenlet, and
a greenlet switches only at I/O, so between two Redis, MySQL or SSH calls local
code runs undisturbed. What is hard is what happens *at* those calls: several
requests of one user, background greenlets and expiring keys interleave there,
and the worker may be restarted between any two of them.

| Component | State it keeps | Operations | What makes it correct | Model |
|---|---|---|---|---|
| Agent store `ai/storage.py` | Redis: conversation (whole JSON document), pending ids, index of actions, result sets, action records with TTL, action lock, run lock | create, load + reconcile, append, save, lock, create/claim/update/cancel action, delete | a proposed command is taken once; verdicts stay; locks exclude and return | `AgentActions`; retention is not modelled |
| Action service `ai/actions.py` | none | approve, cancel | a claim leads to one execution and one recorded outcome | `AgentActions` |
| Agent runner `ai/runner.py` | locals of the run | chat run of at most `max_steps` rounds | one run per conversation; it ends; it writes no stale state that matters; the model is sent a whole conversation | `AgentActions` (locks, conversation and actions), `ChatContext` (messages) |
| Context `ai/context.py` | the summary in the conversation | budget, compression | nothing is dropped but what a summary has read; calls and results stay together | `ChatContext` |
| Providers `ai/provider.py`, `provider_config.py` | the flag of a stream; provider rows | complete, configure | one answer reaches the browser; calls keep their arguments | `ProviderStream`; configuration is not modelled |
| Agent tools `ai/tools.py` | none | queries, `prepare_batch_command` | only permitted targets | the gates in `HostAccess`; a tool is a choice in `AgentActions` |
| Diagnostics `ai/diagnostics.py`, `diagnostic_adapters.py` | MySQL: run, events, evidence, report | start, cancel, read, purge | cancellation stops probing; status, report and events agree; events in order | `Diagnostics` (without retention and analyser rules) |
| Scheduled jobs `cron/cron.py` | table `t_cron`, APScheduler jobs, Redis name lock | add, change, delete, pause, resume, run, close, reload | what runs is what the table says | `CronJobs` |
| Permissions, assets, system users `auth/`, `assets/` | MySQL rows and links | CRUD of rules; moves, renames, deletions of hosts and system users | operations reach permitted hosts only | `HostAccess`; the rows of host groups are not modelled |
| Batch execution `assets/batch_service.py`, `ServerManagement.py` | audit rows | execute, upload, script on several hosts; commands on one host or group | every host that ran has its own audit row; the summary is the sum | `HostAccess` |
| SSH connection `tools/shellcmd.py` | channel, buffers, deadline | connect, run a command, close | a command ends for its caller; output is bounded | `SshCommand` |
| Sign-in and sessions `users/user.py`, `tools/at.py`, `tools/csrf.py`, `local/Captcha.py` | Redis: captchas, failure counters, locks, tokens with sliding TTL, nonces | log in, use, log out | guesses are bounded; a captcha serves once; unused sessions end | `Logins` |
| Mail codes `users/user.py` | Redis: codes, intervals, day counters, failure counters, locks | send, reset a password | limits hold; a code serves once | `MailCodes` |
| Accounts and user groups `users/` | MySQL rows, role keys in Redis, member counts, the list of "all permissions" | CRUD, login | roles and counts follow the rows | `Accounts` |
| Terminal `ssh/webssh.py`, `tools/ws_helper.py` | channel, websocket, idle time, token | three greenlets | both ends are closed; the session outlives no logout | `Terminal` |
| File transfer `ssh/sftp.py`, `files/` | open remote file, counters | upload, download, file operations | an audit row tells the truth | `Sftp`; uploads to the server's own disk are not modelled |
| Setup `setup/`, `wsgi.py` | `.env`, sentinel, settings file, tables | choose the start mode; wizard | the wizard does not open again; a configured system starts | `FirstSetup` |
| Audit queries, settings forms, self update, front end, deployment | - | - | - | not modelled: I/O without a protocol |

**Interaction.** A chat request starts a run: it takes the conversation's run
lock, appends the message, asks the provider, executes the tools it asks for and
may store one *action*: a command with its targets, waiting for approval. The
approval request takes the same run lock, claims the action under the action's own
lock, revalidates, executes the command over SSH on every target, records the
outcome and drops the id from the conversation. A cancellation takes the
action lock only; a deletion and every plain read take no lock at all, and yet a
read writes: it expires overdue actions and rewrites the conversation when its
pending ids have changed. The conversation is always written back whole.

The diagnostic service shares no state with the actions. A chat tool starts a
diagnostic inside its chat run; a cancellation is a request of its own, and the two
meet in the run's row in MySQL.

A chat run asks the provider through an adapter that lives as long as the run; what it
sends is what `ChatContext` says, and what comes back is put together as `ProviderStream` says. The execution of an
approved command, a batch from the web page and a command on one host read the same
tables of rules, hosts and system users that administrators change (`HostAccess`), and
run over the same SSH code (`SshCommand`). A scheduled job runs with the hosts copied
into it when it was scheduled, and asks no permission again. A login writes a token and a role
key in Redis; every later request and every terminal is judged by these keys, which changes of
accounts rewrite (`Logins`, `Accounts`, `Terminal`). The wizard of the setup runs instead of
the program, in the same worker, and restarts it by ending it (`FirstSetup`).

## Modules

| Module | What it is |
|---|---|
| `ActionOffer` | abstract: what approving a proposed command promises, without Redis, locks or conversations |
| `AgentActions` | the protocol of `storage.py`, `actions.py` and `runner.py` on one conversation; implements `ActionOffer` |
| `MCAgentActions` | its TLC instance: symmetry, and the start state "one command has been proposed" |
| `AgentClaimProofs` | its types; at most one execution, and none after a cancellation or rejection, proved |
| `AgentOutcomeProofs` | one run at a time, outcomes kept, verdicts stable, and the refinement of `ActionOffer`, proved |
| `Diagnostics` | one diagnostic run of `diagnostics.py` and `diagnostic_adapters.py`, with the requests that cancel it |
| `MCDiagnostics` | its TLC instance |
| `DiagnosticsProofs` | all five safety invariants of `Diagnostics`, proved |
| `FirstSetup` | start modes and the setup wizard |
| `Logins` | captcha, lockout, sessions |
| `SshCommand` | one SSH connection and its commands |
| `Terminal` | one browser terminal and the session behind it |
| `Sftp` | one SFTP session of the browser |
| `CronJobs` | the scheduled jobs of one name |
| `MailCodes` | mail codes, their limits, password reset |
| `Accounts` | accounts, user groups, role keys, counts |
| `HostAccess` | rules, the gates that read them, and the commands on several hosts with their audit rows |
| `ChatContext` | the messages of a conversation as the model is sent them |
| `ProviderStream` | a streamed answer and its retry |
| `Sessions` | `FirstSetup`, `Logins`, `SshCommand`, `Terminal` and `Sftp` composed, fair |
| `SessionsProofs` | its types and all its safety properties, proved |
| `GuessProofs` | lemmas about a counter that closes a lock, for `Logins` and `MailCodes` |
| `Platform` | `HostAccess`, `CronJobs`, `MailCodes`, `Accounts`, `ChatContext` and `ProviderStream` composed |
| `AccessProofs` | `HostAccess` and `Accounts`: types, gates, reach and rows of a batch, role keys, counts, proved |
| `MailProofs` | `MailCodes`: limits and codes, proved |
| `PlatformProofs` | `CronJobs`, `ProviderStream`, `ChatContext`, and the types of the composition, proved |
| `MCHostAccess` | TLC's rules for `HostAccess` |
| `MCSessions`, `MCPlatform` | the TLC instances of `Sessions` and `Platform` |

The components that `Sessions` and `Platform` compose share no variable in the models;
a variable `part` says whose behaviour a behaviour is, so a run is the sum of the components'
state spaces and not their product. `Logins` comes twice: part "guess" has logins at once within a moment, part
"session" logins one by one with time passing. Where two components meet in the code, the module that needs the other's
state has it: `Terminal` the token, `HostAccess` the caller's account, `Accounts` the login.

Operators marked "Slip" are plausible bugs in the definition that follows them.
No specification uses them; `PROJECT.json` names, for every property, the slip that
TLC finds to break it.

### AgentActions

A greenlet yields at Redis, provider and SSH calls, and `storage.py` uses no `MULTI`, so **a step is
one such call and the local computation up to the next one**. `pc[p]` is the call a
greenlet will make next, `mem[p]` its local variables, `act[p]` the action of the
request.

| In the module | In the code |
|---|---|
| `exists`, `pending` | `ai:conversation:*`: presence and `pending_action_ids`; messages are dropped |
| `index`, `results` | `ai:conversation-actions:*`; the result set in `ai:result:*` that actions refer to |
| `status`, `due` | `ai:action:*`: its `status`, and `expires_at <= now()` |
| `actionLock`, `runLock` | the `SET NX EX` keys; the value is the holder, `Lost` for a dead holder's token |
| `mem.copy` | the conversation in memory, between `get_conversation` and `_save_conversation` |
| `mem.todo`, `dirty`, `cur` | the loop of `_reconcile_pending_actions` |
| `mem.claimed`, `outcome` | progress of `approve` |
| `mem.prepared`, `round`, `calls` | progress of `AgentRunner.run`: an action was prepared in this answer; the step of the loop; the tool calls of this answer |
| `starts`, `gone` | history: executor starts; actions a deletion or a death left behind |

`Request` admits the requests of the views; `GetConv` … `Reply` are
`get_conversation` with the writes a read makes; `ApGet` … `UpSave` are `approve`,
`claim_action` and `update_action`, `RelDel` and `EvSave` the event the approval's
generator appends later; `CaLock` … `CaSave` are `cancel_action`; `DeCheck` and
`DeDelete` are `delete_conversation`; `RuAppend` … `RuNext` are the chat run,
`CrSet`, `CrIndex` and `CrSave` being `create_action`. `Deadline` and the `Lapse`
actions are time and Redis TTLs, `Abandon` the death of a greenlet.
`NotFound` is `AgentStoreNotFound`, by the place it is raised at.

Calls are merged in four places, each argued in a comment: the compare and the delete of the
*action* lock (it lives for 30 s and protects a few calls; those of the *run* lock
are separate steps); the index reads of a deletion (the gap that matters is the one before
its `DEL`); the progress callback of the executor (it only refreshes a TTL, which is why
`KeyLapse` spares a record that a live approval owns); and consecutive appends
of a run. A revalidation, a provider call, a tool call and the batch executor are each a
choice between all their outcomes.

`ActionOffer` sees an action as `none`, `open`, `taken` or `closed`. `OfferOf` maps
the protocol to it: an offer is *taken* from the moment a claim has decided to
write `running` until its greenlet ends, whatever the record says meanwhile; otherwise it is open
exactly while the record says `pending`. `KeepsOffer` is `Offer!Spec` under this mapping.

### Diagnostics

**A step is one committed transaction, or one read.** `update_run` locks the row
(`SELECT … FOR UPDATE`) and writes only the columns it names: one step.
`append_event` computes the next number from what it read, so its read and its
commit are two steps (`EmitRead`, `EmitCommit`) with `holder` between them. A locking read in MySQL
returns the latest committed row whatever the snapshot of the transaction, and so does the model.

| In the module | In the code |
|---|---|
| `status`, `cancelRequested`, `latest` | the columns of the run's row |
| `events`, `report` | the event table of the run, in commit order; the status inside the stored report |
| `holder` | who has the row locked |
| `at`, `emit` | where each party is; the event it appends and where it continues |
| `todo`, `failing`, `done`, `bad`, `spent` | `SSHProbeAdapter.collect`: targets left, targets that failed this probe, probes collected, targets with a failed result, evidence budget used up |
| `revoked`, `verdict`, `left` | locals of `start`: `permission_changed`, the final status, evidence still to store |
| `late` | history: probes begun after a cancellation was accepted |

`Create` … `Settle` are `DiagnosticService.start` in its order, with the probe loop of the
adapter inside; `CollectFails` and `SaveFailed` are its handler; `CancelRead` and
`CancelWrite` are `cancel`, whose check and write are separate transactions; `Die` is an
exception nobody handles, a lost connection or a restart.

### FirstSetup

A step is one commit, one file or one process. `mode` is what the worker serves; `file` the
`.env`, by its encryption key; `sentinel` the marker that a system was configured; `admins`,
`mail` what is in the database; `token`, `fails`, `locked`, `Unlock` the gate of the
wizard. `Boot` is `resolve_mode` and the chosen application; `Apply` … `Drop` are
`_orchestrate_apply` in its order: test, keys, seed (`Bootstrap`, three commits), files, end of
the worker (`Die`). `Faults` names what may go wrong: "crash" at any step, "damage" of the file,
"readonly" for a sentinel that cannot be written.

### Logins, MailCodes, Accounts

A step is one Redis command or one commit. `Logins` follows a login from the captcha
through the two locks, the password, the two counters (`CountAddress`, `CountAccount`), to the token, its TTL and the nonce; TTLs of
sessions are counted in ticks, those of locks and counters lapse at any time. `MailCodes`
follows the sending of a code through interval, day limits and storage, and a reset through
the locks, the code, the counters and the row. In `Accounts` an operation commits its row
and *carries* a role key, a count or a list of groups behind it in later steps. `Apart` keeps
two operations off one account or group at a time, logins included, because the code has no protection
there: counts drift, and a login that read its row before a change may write the old role after it. What remains is that several
accounts and groups are under way, the order of an operation's own steps, and names that are used again.

### CronJobs

`row` is the row of `t_cron` and its targets, `job` the scheduler's job with its own copies of
command and hosts, `lock` the name lock, `pc` and `mem` the requests and the executions. A
request is taken apart at every Redis and MySQL call; `Fire` starts an execution, `Lapse` is the
lock's 5 s TTL, `DeleteHost` and `Restart` are the world. `Alone` names operations that come while nothing else is
under way.

### HostAccess

A step is one commit or one host of a request. `rule`, `host`, `cred` and `caller` are the
tables; `job` is the request: the hosts left and done, what a live rule granted when it began,
and what its open transaction has read; `rows` and `sshRows` are the rows of `t_command_log`. Who
may reach a host is decided in four places of the code, translated one by one (`RulesOf` for
lists and the agent, `RulesOfRow` for terminal and files, `ActiveRules` and `BatchGate` for batches); `GatesNested` compares
them. `CommandOn`, `ScriptOn` and `UploadOn` are the loops of `batch_service.py`, `SingleOn` and `GroupOn` those of
`ServerManagement.py`; `Record` and `RecordUpload` write the rows. A row that the foreign keys
refuse is dropped, as `safe_db_write` does.

### SshCommand, Terminal, Sftp

`SshCommand` is the polling loop of `ssh_cmd`: two reads of the same channel with a deadline and an output
limit, then the exit status. `Traits` names what a remote command may do besides exiting. `Terminal` has
three greenlets, "in", "out" and "renew", each a sequence of blocking calls; `Close` is
the clean-up that two of them share. `Sftp` has one greenlet and one message at a time; what it keeps between
messages (`file`, `name`, `sent`) is the state. `Polite` is a browser that does not start an upload
while another is open (see *Also noticed*).

### ChatContext, ProviderStream

`ChatContext` keeps the conversation in Redis, the run's own copy `conv`, and every message
ever appended (`said`). `Compress`, `Send`, `Answer`, `CallTools` and `Tool` are the loop of
`AgentRunner.run`. A message weighs one token, a long tool result two.

`ProviderStream` keeps the locals of `_consume_stream` (`text`, `parts`), the flag
`_stream_emitted` and what `on_delta` was given (`shown`). The provider chooses an answer, and for
each attempt anew; it sends text and fragments in any order, once, twice or each with everything before it, numbers its calls, and
may break off. `Merge` is `_merge_fragment`.

## Runs

| Run | Instance | What it shows |
|---|---|---|
| `agent_all` | 2 requests at a time, of every kind, 1 action, `MaxSteps` 2, `MaxCalls` 2, from the empty conversation | types; a started command's record keeps its outcome (`OutcomeKept`); one run at a time (`OneRun`); verdicts are stable (`VerdictStable`); the protocol implements `ActionOffer` (`KeepsOffer`) |
| `agent_offer` | 3 requests at a time over one proposed action; the run lock of an approval may lapse under it | `AtMostOnce`, `WithdrawnNeverRan`: the action lock alone suffices |
| `agent_live` | 2 approvals or chat runs at a time, `MaxSteps` 2, `MaxCalls` 1, from the proposed action, fair | `RequestsEnd`, `LockReturns`, `ActionsSettle` |
| `diagnostics` | 2 targets, 2 probes, 2 cancellations at a time, deaths, fair | types; dense event numbers; at most one late probe; reports tell what was skipped; report before status; `RunSettles`, `CancelAnswered` |
| `sessions` | 2 callers of the wizard; 2 logins at once, and one session; a command that may fail or never exit; a terminal; an SFTP session over 2 files; fair | setup: `NeverReopened`, `WrittenMeansSeeded`, `ConfiguredStarts`; logins: `GuessesBounded`, `OneGuess`, `UnusedSessionEnds`; `CommandBounded`; terminal: `NothingLeftOpen`, `LogoutEnds`; `RowIsTrue` |
| `platform` | 2 rules, 2 hosts, 2 system users, at most 2 changes; 2 requests for a job, for mail codes, for accounts; a conversation of 7 messages; 2 requests to a provider | `GrantedTogether`, `RowsTrue`, `GatesNested`; `ScheduledIsStored`; `MailLimits`, `CodeSpent`; `RoleFromRow`, `GroupsTrue`; `SentWhole`; `ShownOnce`, `ArgumentsWhole` |
| `agent_delete`, `agent_two_runs`, `agent_expired`, `diagnostics_cancel`, `rule_update`, `ssh_audit` | the smallest that shows it | the six disagreements below |

**Bounds.** `Proc` bounds the requests *in flight*, not their number: a greenlet
that has answered serves the next request, so the runs are unbounded sequences
of requests. Two in flight reach every race between a writer and one other; three let a
claim, a cancellation and a reader (or the heir of a lapsed lock) overlap. One action
suffices for properties of an action by itself, since records of different actions
share nothing but the list of ids; what two proposals do to that list is named under
hazards as not covered. `MaxSteps` 2 has a provider
call after which the run may go on and one after which it must end. `MaxCalls` is a bound of
the model: an answer of the provider names finitely many tool calls, and two
let a query precede or follow the proposal of an action. Two probes are the
smallest loop in which a probe can be skipped after one was collected; two targets
tell `completed`, `partial` and `failed` apart; the safety properties are proved for any number. `Overrun` names the kinds of
requests that may outlive their run lock: an approval's lock is sized from
`SSH_CMD_TIMEOUT`, so `agent_offer` allows it as a precaution; a chat run's is a fixed 600 s.

In `sessions` and `platform` the requests of `Logins`, `CronJobs`, `MailCodes` and `Accounts` are
in flight two at a time and unbounded in number, for the same reason. The limits of failures are 1 and 2
(5 and 20 in the code by default): what matters is being below, at and beyond one, with another request under way, and the bound
in the property is stated relative to the limit. A second account, captcha or address would be independent of the
first, since every key names its owner. `Most` 2 in `HostAccess` bounds the changes of an
administrator while one request lives: one to take a host away and one to give it back under
another name or rule; the theorems have no such bound. `Keep` 2, `Window` 7 and `Most` 7 in `ChatContext` let a conversation be
compressed twice, the second time over a summary. `Limit` 3 and chunks of 1 and 2 in
`Sftp` reach the limit exactly and overshoot it. The answers in `MCPlatform` have text only, a call whose arguments repeat a
character, two calls at once, and a call without a name. `Turns` 2 lets a request follow one that left its flag set.
`CHECK_DEADLOCK FALSE` appears where a behaviour really ends: a diagnostic, a closed terminal or
SFTP session, a deleted caller, a failed request to a provider.

### Disagreements found

| Run, property | The code | What it contradicts |
|---|---|---|
| `agent_delete`, `DeletionRefused` | `delete_conversation` refuses for a running action only; a pending one is deleted with the conversation | `docs/ai/API.md:196` promises a conflict |
| `agent_two_runs`, `OneRun` | the run lock of a chat run expires after 600 s and nothing renews it; a longer run is joined by a second | `docs/ai/API.md:163`: one run lock per conversation |
| `agent_expired`, `ExpiredNeverRan` | the reconciliation in every read writes `expired` over a copy it read earlier, without the action lock, and so over the `running` of a claim made just in time | `docs/ai/USER_GUIDE.md:97`: expired means not executed |
| `rule_update`, `EditStored` | an edit of a rule finds its row by name without leaving out deleted rows (`auth/AuthHost.py:269`); after the name was used again it changes the deleted row and answers success | the comment `auth/AuthHost.py:219`: queries leave deleted rows out, so that names can be used again |
| `ssh_audit`, `SshAudited` | the audit row of `ssh_cmd` names no user and an address for the host, which the foreign keys of `t_command_log` refuse; `safe_db_write` swallows the refusal | the comment `tools/audlog.py:145`: commands were not recorded, now they are |
| `diagnostics_cancel`, `CancelHonoured` | the last `update_run` writes a verdict decided before the cancellation | `docs/ai/DIAGNOSTICS.md:102`: `cancelled` and `completed` are alternative ends |

`OneRun` is violated only when `Overrun` contains the chat run; `agent_all` checks that it
holds otherwise.

### Also noticed

Behaviours of the code met while modelling that contradict no document, or that an assumption keeps out
of a run:

- `_merge_fragment` (`ai/provider.py:98`) takes an increment for a repetition when it equals the end of
  what came before it, or begins with all of it: arguments `{"id":11}` that arrive as `{"id":1`, `1`, `}` become
  `{"id":1}`. `ArgumentsWhole` excepts exactly these (`echoed`); a provider that sends everything so far, or
  each increment twice, is put together rightly.
- A registration always fails: `users/user.py:419` leaves columns empty that may not be. The forms answer an error
  and nothing changes, so `Accounts` has no registration.
- `add_job`'s `finally` deletes the name lock whether or not it still holds it (`cron/cron.py:290`). In `CronJobs` this does no
  harm, because the row is what decides; a removal or a closing that overlaps with another operation can leave a job
  without a row, which is why `Alone` names them.
- `recv` and `recv_exit_status` have no timeout (`tools/shellcmd.py:151`). `CommandBounded` excepts a
  command whose child keeps its output open, or that never ends its output.
- A browser that leaves in the middle of an upload leaves the remote file changed without a row, and a second
  `upload_start` makes the row of the first name the wrong file (`ssh/sftp.py:387`); `Polite` excludes the second.
- The setup wizard accepts two applies at once. `WrittenMeansSeeded` holds all the same.
- A use of a session renews the token's TTL and not the nonce's, so a session in use loses its nonce first.
- A chat run whose browser leaves between a call and its result leaves a call without a result in the conversation
  (`broken` in `ChatContext`); `SentWhole` excepts these calls.
- A plain read may write back a conversation it loaded before a message was appended (`ai/storage.py:183`);
  `ChatContext` assumes that none does.
- MySQL refuses to rename a user with audit rows; in `Accounts` a rename succeeds.
- When the shell of a terminal does not open, its SSH connection is left to the garbage collector.

## Fairness

Weak fairness on the steps of each greenlet: gevent runs a greenlet whose I/O
has completed, and every Redis, provider, SSH and MySQL call has a timeout. Weak
fairness on deadlines and TTLs: time passes (for the run lock only when
its holder is dead). None on arriving requests, on deaths, or on a cancellation that has
merely been thought of. `Diagnostics` assumes the same of the runner, of each
append and of an accepted cancellation; `RunSettles` excepts a runner that dies, because the code has
no recovery for it.

`Sessions` assumes, by weak fairness: gunicorn starts a worker when one has ended, the timer that ends the
worker fires, and an apply that has written the configuration goes on; a request of `Logins` takes
its next step and time passes; the reader of a command goes on while it is not blocked, its deadline passes, and
the output of a process that has exited closes; the greenlets of a terminal run and its half hour of
silence passes unless somebody types. Nothing is assumed of browsers, users, remote commands or faults. `platform` is a run for safety.

## Proofs

Every invariant of the passing runs, and every action property, is stated by a theorem. The theorems hold for every
number of requests, actions, steps, targets, probes, hosts, rules, accounts and messages, and
assume only what the modules assume of their constants: special values differ from the
processes and names, bounds are positive, the sets of targets, logins, mail requests and accounts are
finite, names and groups exist, answers are made of texts and calls. Three have a hypothesis of their own:

- `StaysClosed`: the sentinel can be written.
- `OneAtATime`: no run lock lapses under a live holder (`agent_two_runs` shows that it must).
- `JobsStored` (`JobSetting`): Redis answers, the name lock outlives its request, a removal comes alone. Its
  instances are those of the run `platform`; failed commits and crashes are among them.

| Theorem | States |
|---|---|
| `AgentClaimProofs!TypeCorrect` | `Spec => []TypeOK` |
| `AgentClaimProofs!ApprovedOnce` | `Spec => []AtMostOnce` |
| `AgentClaimProofs!WithdrawnForGood` | `Spec => []WithdrawnNeverRan` |
| `AgentOutcomeProofs!OneAtATime` | `Spec => []OneRun`, when `Overrun = {}` |
| `AgentOutcomeProofs!OutcomesKept` | `Spec => []OutcomeKept` |
| `AgentOutcomeProofs!VerdictsStand` | `Spec => VerdictStable` |
| `AgentOutcomeProofs!OfferKept` | `Spec => KeepsOffer`, the refinement of `ActionOffer` |
| `DiagnosticsProofs!DiagnosticTypes` | `Spec => []TypeOK` |
| `DiagnosticsProofs!ProbingStops` | `Spec => []StopsSoon` |
| `DiagnosticsProofs!WholeReports` | `Spec => []ReportWhole` |
| `DiagnosticsProofs!ReadyReports` | `Spec => []ReportReady` |
| `DiagnosticsProofs!NumberedEvents` | `Spec => []EventsNumbered` |
| `SessionsProofs!SetupTypes`, `SessionTypes` | `Spec => []TypeOK` of `FirstSetup`, `AllSpec => []Types` |
| `SessionsProofs!StaysClosed` | `Spec => []NeverReopened`, when "readonly" is not among the faults |
| `SessionsProofs!SeededFirst` | `Spec => []WrittenMeansSeeded` |
| `SessionsProofs!GuessesAreBounded` | `AllSpec => []GuessesBounded` |
| `SessionsProofs!OneGuessEach` | `AllSpec => OneGuess` |
| `SessionsProofs!TerminalCloses` | `AllSpec => []NothingLeftOpen` |
| `SessionsProofs!UploadsTold` | `AllSpec => RowIsTrue` |
| `AccessProofs!AccessTypes` | `Spec => []TypeOK` |
| `AccessProofs!NestedGates` | `Spec => []GatesNested` |
| `AccessProofs!ReachGranted` | `Spec => []GrantedTogether` |
| `AccessProofs!RowsOfBatches` | `Spec => []RowsTrue` |
| `AccessProofs!RolesFromRows` | `AllSpec => []RoleFromRow` |
| `AccessProofs!GroupsAreTrue` | `AllSpec => []GroupsTrue` |
| `MailProofs!MailLimitsKept` | `AllSpec => []MailLimits` |
| `MailProofs!CodesAreSpent` | `AllSpec => CodeSpent` |
| `PlatformProofs!JobsStored` | `AllSpec => []ScheduledIsStored`, under `JobSetting` |
| `PlatformProofs!OneAnswer` | `AllSpec => []ShownOnce` |
| `PlatformProofs!ArgumentsAsSent` | `AllSpec => []ArgumentsWhole` |
| `PlatformProofs!ConversationsSentWhole` | `AllSpec => []SentWhole` |
| `PlatformProofs!PlatformTypes` | `AllSpec => []Types` |

**Claims.** `AtMostOnce` is not inductive: a second greenlet might stand at
`exec` already. `ClaimInv` adds what excludes it. Whoever is between taking and freeing the
action lock holds it (`LockHeld`; a dead holder's token is `Lost`, so it cannot be confused with another's, and
only such a lock lapses); a claimed action is not `pending` any more
(`ClaimHeld`), and no step makes a record pending again; one that may still start
something has started nothing (`Undecided`); and an action has one owner (`Exclusive`).
Every call of `get_conversation` continues at `mem[p].ret`, so the invariant speaks of
where a greenlet *will* be. The lemmas `Frame`, `Leaves`, `Carries` and
`Unclaimed` say once what a step that leaves an action alone preserves; then there is one lemma per
group of steps. The run lock does not occur in the argument: `ApprovedOnce` holds for every `Overrun`.

**Runs.** `RunInv` says two things of the place a greenlet is at, or will return to: inside a run
it holds the lock, and only requests that take the lock get to the places that lead to freeing it. The second is what keeps
the compare and the later delete of `release_run_lock` from hitting another's lock, because no lock lapses in between.

**Outcomes.** `OutcomeInv` joins what a greenlet may rely on of what it has read (`Sees`) with what is true
of a started command (`Told`): it is recorded, or running with an owner still on its way to record it.
`Rewrite` classifies once everything a step may do to a record; from that classification follow the invariant,
`VerdictStable`, and most of the refinement.

**Refinement.** Each step closes offers or changes nothing (`OffersClose`, a `Withdraw` of some set), or
it is the one step of `create_action`, of a claim, of its start or of its end that `ActionOffer` names. `Tenure`
says what a step does to a claim; `DrawnInv` adds that only drawn actions have a deadline or an index entry.

**Diagnostics.** `Inv` ties each fact to the place `Pos` of the runner, an
append counting as the place it returns to: a probe that is about to begin is the first
since the cancellation; the loop is left early only for a reason the verdict will see; the
report is the verdict and is stored before the row is settled. `Numbering` says that a
party between read and commit holds the row and has read the latest number.

**Setup.** `NeverReopened` speaks of the mode; `Closed` adds the sentinel that keeps it, which outlasts
the `.env` that a fault may take away. `Seeded` says of every caller past the administrator's
stage, and not only of the written file, that an administrator exists.

**Guesses.** That a limit holds is a fact about requests between their steps. `Limited` relates, for one counter,
the wrong guesses made to those counted (`uncounted` requests have guessed and not counted), the counter to its lock
(`locking` requests have reached the limit and not locked yet), and both to the requests that are `ahead` of their guess: the guesses
made and those still to come are fewer than the limit and all requests together, because a request that finds the lock
open finds the counter below the limit, or one of the requests about to lock. `GuessProofs` has a
lemma for each step that moves a request from one of these sets to another; `Logins` uses them for every account and
the address, `MailCodes` for every mail and the address. A counter that lapses takes its guesses with it, as the properties say.

**Captchas, terminals, transfers.** A captcha leaves Redis before it is compared (`CaptchaInv`). `TerminalInv`: a
greenlet that has passed the clean-up has set the flag, the flag means that the connection is not open, and before the
connection only the reader exists. `TransferInv`: a polite browser's name is the open file's, and `sent` never passes
the file's length.

**Access.** `Reach` says that what a batch has touched *and what it still may* was granted when it
began, and that a batch writing its rows has touched all it will name; `GateGrants` proves the gate right. `NestedGates` is a fact about
the four gates for any tables, and so an invariant. For `RowsTrue`, `AliasesKept` compares the three aliases of a host, the one read, the one
noted and the one in the table: a host that has a row cannot be renamed (the foreign key), so a row that is accepted later
names the host that was tried. `RowsKept` says exactly which rows exist in each state of a batch.

**Accounts.** `OpsApart` is the shape that `Apart` gives to the requests under way. Given it, `KeyRight` holds of every name nobody is about to write,
and `KeyReady` of what the others will write; `CountsInv` is the same argument for counts, `ListInv` for the list
of groups. In between, when a request has changed its row and not yet the key, the two disagree; so `KeyRight` must leave out the
names under way, and each operation must be shown to restore it with its last step.

**Mail.** `DayInv` counts the requests that have passed the limit and not sent yet with the mails sent. `CodeInv`: no code
in Redis was used, no two mails have one code, and from its deletion on a reset's code is nobody's.

**Jobs.** What a request needs of the row it read stays true until its last step (`JobReadings`): only an adding request gives a row
a command, only while the row is not live, and it holds the name lock from its reading to its commit (`JobLock`); a removal, whose mark comes after the scheduler was told, is alone (`JobRemoval`).

**Provider.** `Answering` says that while an answer streams the browser has just what `text_parts` has and the
flag says whether that is anything, so that a retry begins with nothing shown. `Streamed`: what is held of each call is the part of its
arguments up to what was sent, for the three manners of sending and unless an increment looked like a repetition.

**Conversation.** `Sound` is what makes a conversation whole: the numbers of its messages and those under its summary are all ever said;
messages are in order, with a result behind its call and no message of the user between them (`Placed`); every call
has its results but for the open one and those of runs broken off (`Answered`). A compression cuts at a message
of the user, so by `Placed` a call and its results fall on the same side. While a call is carried out the run's copy lags behind the stored
conversation, and `Calling` says by what.

**Types.** The types of a composition are those of its parts, and each part's invariant includes its own.
`AccessAlone` shows that a behaviour of `Platform` is one of `HostAccess`, so the theorems about `Spec` hold of it too.

**Model-checked only.** Liveness under fairness is beyond the prover: `RequestsEnd`, `LockReturns`, `ActionsSettle`,
`RunSettles`, `CancelAnswered`, `ConfiguredStarts`, `UnusedSessionEnds`, `CommandBounded` and `LogoutEnds` are
checked by TLC on the instances above.

## Not modelled

- Retention: `_cleanup_old_conversations`, `purge_expired`, the 7-day TTLs; creation of conversations; the diagnostic stream inside a chat run.
- The analyser's rules, the `asset_progress` column, evidence sizes (the budget may be spent after any probe).
- Provider rows, model lists, usage numbers.
- Host groups' own rows and counts, and commands on several groups at once (`GroupListCmd`).
- Path checks (`pathsec.py`) and uploads to the server's own disk (`files/file.py`).
- Hashing and encryption of passwords and tokens; the forms of a user's own settings.
- Login logs, audit queries, SMTP, settings forms, connection pools: I/O without a protocol.
- Front end, website, packaging, self update and the Ansible wrapper: no state of their own.

## Hazards

`PROJECT.json` lists, at its line, what is hard to test in this code. Most are of four
shapes: read, yield, write back (the whole conversation, an action's record, the row of a
run, a role key); a lock, key or session that may lapse under its holder; several calls that should be one, with an
exception or a restart between them; and messages of a browser or a provider in an order nobody meant. Three have no
property: two proposals in one behaviour, the retention of conversations, and a diagnostic left
`running` by a restart, for which the code has no recovery and the documents promise none.

## Plan

1. `AgentActions`: a smaller composition with two proposals and a reader, for the list of pending ids;
   a module for the retention of conversations over the index, with its invariants proved.
2. `Accounts` without `Apart` and `CronJobs` without `JobSetting`: state and prove what still holds of counts and jobs when operations race.
3. Host groups: rows, counts and `GroupListCmd`, on top of `HostAccess`.
4. Proofs: an abstract specification of a guess limit, of which both `Logins` and `MailCodes` are refinements;
   the safety parts of the liveness properties, such as a measure that falls with every step of a chat run.
