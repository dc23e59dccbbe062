----------------------------- MODULE AccessProofs -----------------------------
(***************************************************************************)
(* Theorems about who may do what, for any rules, hosts, accounts, groups  *)
(* and requests: HostAccess, and Accounts within Platform.                 *)
(*                                                                         *)
(* HostAccess: GatesNested needs no induction: whatever the tables hold, a *)
(* rule that the batch counts is counted by the other gates.               *)
(* GrantedTogether does: the hosts still to do have to be granted as well, *)
(* and the rows that are written after the last host are of hosts that     *)
(* have been tried.  RowsTrue needs to know more: an alias is changed once *)
(* at most, and never when a row has it, so what a request read of a host  *)
(* that is in the log is still true when its row is written.               *)
(*                                                                         *)
(* Accounts: requests under way concern different accounts and groups, and *)
(* a request that has yet to write the key of its account, or the count of *)
(* its group, holds what it will write.                                    *)
(***************************************************************************)
EXTENDS Platform, FiniteSetTheorems, TLAPS

-----------------------------------------------------------------------------
(* HostAccess. *)

\* What the request may still reach or has reached was granted when it began.
Reach ==
    /\ job.todo \cup Attempted \subseteq job.granted
    /\ job.pc = "record" => job.todo \subseteq Attempted

IInv == TypeOK /\ Reach

-----------------------------------------------------------------------------
(* The gates. *)

LEMMA ActiveIsListed == ActiveRules \subseteq RulesOf /\ ActiveRules \subseteq RulesOfRow
  BY DEF ActiveRules, RulesOf, RulesOfRow

LEMMA GatesNest == GatesNested
<1> SUFFICES ASSUME NEW hs \in SUBSET Host, NEW c \in Cred, BatchGate("user", hs, c)
             PROVE  /\ c \in ListedCreds
                    /\ \A h \in hs : TerminalGate(h) /\ host[h].group \in ListedGroups
  BY DEF GatesNested
<1>1. hs # {} /\ \A h \in hs : host[h].alive
  BY DEF BatchGate, AuthorizedHosts
<1>2. ASSUME NEW h \in hs
      PROVE  \E i \in ActiveRules : c \in rule[i].links.creds /\ host[h].group \in rule[i].links.groups
  BY <1>2 DEF BatchGate, Groups, With
<1>3. c \in ListedCreds
  BY <1>1, <1>2, ActiveIsListed DEF ListedCreds
<1>4. ASSUME NEW h \in hs
      PROVE  TerminalGate(h) /\ host[h].group \in ListedGroups
  BY <1>1, <1>2, ActiveIsListed DEF TerminalGate, ListedGroups, Groups
<1> QED
  BY <1>3, <1>4

\* A batch is offered nothing that the lists or the terminal would refuse the same caller
\* (validate_batch_targets, _authorized_auth_ids, _check_host_permitted).
THEOREM NestedGates == Spec => []GatesNested
  BY GatesNest, PTL

\* The gate is right: it passes only hosts that one live rule grants with the credential.
LEMMA GateGrants ==
  ASSUME NEW role \in {"user", "admin"}, NEW hs \in SUBSET Host, NEW c \in Cred,
         BatchGate(role, hs, c)
  PROVE  hs \subseteq Granted(role, c)
<1>1. \A h \in hs : host[h].alive
  BY DEF BatchGate, AuthorizedHosts
<1>2. CASE role = "admin"
  BY <1>1, <1>2 DEF Granted
<1>3. CASE role # "admin"
  <2>1. ASSUME NEW h \in hs
        PROVE  \E i \in ActiveRules : c \in rule[i].links.creds /\ host[h].group \in rule[i].links.groups
    BY <1>3, <2>1 DEF BatchGate, Groups, With
  <2>2. \A i \in ActiveRules : i \in Rule /\ caller /\ rule[i].alive /\ rule[i].links.who # {}
    BY DEF ActiveRules, RulesOf
  <2> QED BY <1>1, <2>1, <2>2 DEF Granted
<1> QED BY <1>2, <1>3

-----------------------------------------------------------------------------
(* Types. *)

LEMMA MostIsNat == Most \in Nat
  BY HostAccessAssumption

LEMMA IdleIsJob == Idle \in Jobs
  BY DEF Idle, Jobs, None, Result

LEMMA SeenIsSeen ==
  ASSUME host \in [Host -> Hosts], NEW todo, NEW c
  PROVE  Seen(todo, c) \in [alias : [Host -> 0..1], cred : BOOLEAN]
  BY DEF Seen, Hosts

LEMMA TypeInit == Init => TypeOK
<1> SUFFICES ASSUME Init PROVE TypeOK
  OBVIOUS
<1>1. NoLinks \in LinkSet /\ NoRule \in Rules
  BY DEF NoLinks, LinkSet, NoRule, Rules
<1>2. 0 \in 0..Most
  BY MostIsNat
<1>3. host \in [Host -> Hosts]
  <2>1. 0 \in 0..1
    OBVIOUS
  <2> QED BY <2>1 DEF Init, Hosts
<1>4. rows \in [Host -> Seq(Result)] /\ sshRows \in [Host -> Nat]
  BY DEF Init
<1> QED BY <1>1, <1>2, <1>3, <1>4, IdleIsJob DEF Init, TypeOK

\* The administrator's step, which leaves the request alone.
Administers ==
    \/ \E n \in RuleName, l \in Links :
          (\E i \in Rule : AddRule(i, n, l)) \/ (\E old \in RuleName : UpdateRule(old, n, l))
    \/ \E n \in RuleName : DelRule(n)
    \/ \E h \in Host, g \in HostGroup : MoveHost(h, g) \/ ReviveHost(h, g)
    \/ \E h \in Host : RenameHost(h) \/ DelHost(h)
    \/ \E c \in Cred : DelCred(c) \/ AddCred(c)
    \/ DelCaller

LEMMA AdministersLeaves == Administers => UNCHANGED left
  BY DEF Administers, AddRule, UpdateRule, DelRule, MoveHost, ReviveHost, RenameHost, DelHost,
         DelCred, AddCred, DelCaller

LEMMA TypeAdministers ==
  ASSUME TypeOK, Administers
  PROVE  TypeOK'
<1> USE DEF TypeOK
<1>1. UNCHANGED left
  BY AdministersLeaves
<1>2. ASSUME Change PROVE changes' \in 0..Most
  <2>1. changes \in 0..Most /\ changes < Most /\ changes' = changes + 1
    BY <1>2 DEF Change
  <2> HIDE DEF TypeOK
  <2> QED BY <2>1, MostIsNat
<1>3. Links \subseteq LinkSet
  BY HostAccessAssumption DEF LinkSet
<1>4. NoRule \in Rules
  BY DEF NoLinks, LinkSet, NoRule, Rules
<1>5. ASSUME NEW i \in Rule, NEW n \in RuleName, NEW l \in Links, AddRule(i, n, l)
      PROVE  TypeOK'
  <2>1. [name |-> n, alive |-> TRUE, links |-> l] \in Rules
    BY <1>3 DEF Rules
  <2> QED BY <1>1, <1>2, <1>4, <1>5, <2>1 DEF AddRule, left
<1>6. ASSUME NEW old \in RuleName, NEW n \in RuleName, NEW l \in Links, UpdateRule(old, n, l)
      PROVE  TypeOK'
  <2>1. [name |-> n, alive |-> TRUE, links |-> l] \in Rules
    BY <1>3 DEF Rules
  <2>2. rule' \in [Rule -> Rules]
    BY <1>3, <1>6 DEF UpdateRule, Rules
  <2> QED BY <1>1, <1>2, <1>4, <1>6, <2>1, <2>2 DEF UpdateRule, left
<1>7. ASSUME NEW n \in RuleName, DelRule(n)
      PROVE  TypeOK'
  <2>1. rule' \in [Rule -> Rules]
    BY <1>7 DEF DelRule, Rules
  <2> QED BY <1>1, <1>2, <1>4, <1>7, <2>1 DEF DelRule, left
<1>8. ASSUME NEW h \in Host, NEW g \in HostGroup, MoveHost(h, g) \/ ReviveHost(h, g)
      PROVE  TypeOK'
  <2>1. host' \in [Host -> Hosts]
    BY <1>8 DEF MoveHost, ReviveHost, Hosts
  <2> QED BY <1>1, <1>2, <1>8, <2>1 DEF MoveHost, ReviveHost, left
<1>9. ASSUME NEW h \in Host, RenameHost(h) \/ DelHost(h)
      PROVE  TypeOK'
  <2>1. host' \in [Host -> Hosts]
    <3>1. 1 \in 0..1
      OBVIOUS
    <3>2. CASE RenameHost(h)
      BY <3>1, <3>2 DEF RenameHost, Hosts
    <3>3. CASE DelHost(h)
      BY <3>3 DEF DelHost, Hosts
    <3> QED BY <1>9, <3>2, <3>3
  <2> QED BY <1>1, <1>2, <1>9, <2>1 DEF RenameHost, DelHost, left
<1>10. ASSUME NEW c \in Cred, DelCred(c) \/ AddCred(c)
       PROVE  TypeOK'
  BY <1>1, <1>2, <1>10 DEF DelCred, AddCred, left
<1>11. CASE DelCaller
  BY <1>1, <1>2, <1>11 DEF DelCaller, left
<1> QED BY <1>5, <1>6, <1>7, <1>8, <1>9, <1>10, <1>11 DEF Administers

\* The request, as its steps leave it.
LEMMA AttemptedType ==
  ASSUME TypeOK
  PROVE  Attempted \subseteq Host /\ \A h \in Attempted : job.item[h].result \in Result
  BY DEF Attempted, TypeOK, Jobs

LEMMA AfterType ==
  ASSUME TypeOK, NEW h \in Host, NEW r \in Result, NEW ran \in BOOLEAN, NEW renewed \in BOOLEAN
  PROVE  /\ After(h, r, ran, renewed) \in Jobs
         /\ After(h, r, ran, renewed).todo = job.todo \ {h}
         /\ After(h, r, ran, renewed).granted = job.granted
         /\ After(h, r, ran, renewed).pc = job.pc
         /\ \A g \in Host : g # h => After(h, r, ran, renewed).item[g] = job.item[g]
<1> DEFINE item == [result |-> r, alias |-> job.seen.alias[h], ran |-> ran]
           seen == IF renewed THEN Seen(job.todo \ {h}, job.cred)
                   ELSE [job.seen EXCEPT !.alias[h] = 0]
<1>1. job \in Jobs /\ host \in [Host -> Hosts]
  BY DEF TypeOK
<1>2. item \in [result : Result \cup {None}, alias : 0..1, ran : BOOLEAN]
  BY <1>1 DEF Jobs
<1>3. seen \in [alias : [Host -> 0..1], cred : BOOLEAN]
  <2>1. Seen(job.todo \ {h}, job.cred) \in [alias : [Host -> 0..1], cred : BOOLEAN]
    BY <1>1, SeenIsSeen
  <2>2. job.seen \in [alias : [Host -> 0..1], cred : BOOLEAN] /\ 0 \in 0..1
    BY <1>1 DEF Jobs
  <2>3. [job.seen EXCEPT !.alias[h] = 0] \in [alias : [Host -> 0..1], cred : BOOLEAN]
    BY <2>2
  <2> QED BY <2>1, <2>3
<1>4. After(h, r, ran, renewed) = [job EXCEPT !.item[h] = item, !.todo = job.todo \ {h}, !.seen = seen]
  BY DEF After
<1> HIDE DEF item, seen
<1>5. [job.item EXCEPT ![h] = item]
          \in [Host -> [result : Result \cup {None}, alias : 0..1, ran : BOOLEAN]]
  BY <1>1, <1>2 DEF Jobs
<1>6. job.todo \ {h} \in SUBSET Host
  BY <1>1 DEF Jobs
<1>7. After(h, r, ran, renewed) \in Jobs
  BY <1>1, <1>3, <1>4, <1>5, <1>6 DEF Jobs
<1> QED BY <1>1, <1>4, <1>7 DEF Jobs

LEMMA OnwardType ==
  ASSUME NEW j \in Jobs, j.pc = "loop"
  PROVE  /\ Onward(j) \in Jobs
         /\ Onward(j).granted = j.granted /\ Onward(j).item = j.item
         /\ Onward(j).pc = "record" =>
               Onward(j).todo = {h \in Host : j.item[h].result # None}
         /\ Onward(j).todo \subseteq j.todo \cup {h \in Host : j.item[h].result # None}
  BY DEF Onward, Jobs

\* What the request does.
Requests ==
    \/ \E hs \in SUBSET Host, c \in Cred :
          \/ StartScript(hs, c)
          \/ \E role \in {"user", "admin"} :
                StartUpload(role, hs, c) \/ StartCommand(role, hs, c) \/ StartAgent(role, hs, c)
    \/ \E c \in Cred : (\E h \in Host : StartSingle(h, c)) \/ \E g \in HostGroup : StartGroup(g, c)
    \/ \E h \in Host : Attempt(h) \/ Record(h)
    \/ Raise \/ RecordUpload \/ Answer

LEMMA NextIs == Next => Administers \/ Requests
<1> HIDE DEF Attempt
<1> QED BY DEF Next, Administers, Requests, CommandOn, ScriptOn, UploadOn, SingleOn, GroupOn

-----------------------------------------------------------------------------
(* Every start is an acceptance of hosts that were granted. *)

LEMMA AcceptInv ==
  ASSUME TypeOK, NEW kind \in Batch \cup Direct, NEW hs \in SUBSET Host, NEW c \in Cred,
         NEW granted \in SUBSET Host, hs \subseteq granted, Accept(kind, hs, c, granted)
  PROVE  IInv'
<1>1. Seen(hs, c) \in [alias : [Host -> 0..1], cred : BOOLEAN]
  BY SeenIsSeen DEF TypeOK
<1>2. job' \in Jobs
  BY <1>1, IdleIsJob DEF Accept, Jobs, Idle
<1>3. job'.pc = "loop" /\ job'.todo = hs /\ job'.granted = granted
      /\ \A h \in Host : job'.item[h].result = None
  BY DEF Accept, Idle
<1>4. TypeOK'
  <2>1. rows' \in [Host -> Seq(Result)] /\ sshRows' \in [Host -> Nat]
    BY DEF Accept
  <2> QED BY <1>2, <2>1 DEF Accept, TypeOK, db
<1>5. Reach'
  BY <1>3 DEF Reach, Attempted
<1> QED BY <1>4, <1>5 DEF IInv

LEMMA StartInv ==
  ASSUME TypeOK,
         \/ \E hs \in SUBSET Host, c \in Cred :
               \/ StartScript(hs, c)
               \/ \E role \in {"user", "admin"} :
                     StartUpload(role, hs, c) \/ StartCommand(role, hs, c) \/ StartAgent(role, hs, c)
         \/ \E c \in Cred : (\E h \in Host : StartSingle(h, c)) \/ \E g \in HostGroup : StartGroup(g, c)
  PROVE  IInv'
<1>1. ASSUME NEW hs \in SUBSET Host, NEW c \in Cred, NEW role \in {"user", "admin"},
             NEW kind \in Batch, BatchGate(role, hs, c), Accept(kind, hs, c, Granted(role, c))
      PROVE  IInv'
  <2>1. hs \subseteq Granted(role, c)
    BY <1>1, GateGrants
  <2>2. Granted(role, c) \in SUBSET Host
    BY DEF Granted
  <2> QED BY <1>1, <2>1, <2>2, AcceptInv
<1>2. ASSUME NEW hs \in SUBSET Host, NEW c \in Cred, NEW kind \in Direct,
             Accept(kind, hs, c, hs)
      PROVE  IInv'
  BY <1>2, AcceptInv
<1>3. ASSUME NEW hs \in SUBSET Host, NEW c \in Cred,
             \/ StartScript(hs, c)
             \/ \E role \in {"user", "admin"} :
                   StartUpload(role, hs, c) \/ StartCommand(role, hs, c) \/ StartAgent(role, hs, c)
      PROVE  IInv'
  BY <1>1, <1>3 DEF StartScript, StartUpload, StartCommand, StartAgent, StartBatch, Revalidated,
                    Batch
<1>4. ASSUME NEW c \in Cred,
             (\E h \in Host : StartSingle(h, c)) \/ \E g \in HostGroup : StartGroup(g, c)
      PROVE  IInv'
  <2>1. PICK hs \in SUBSET Host, kind \in Direct : Accept(kind, hs, c, hs)
    BY <1>4 DEF StartSingle, StartGroup, StartDirect, Direct
  <2> QED BY <1>2, <2>1
<1> QED BY <1>3, <1>4

-----------------------------------------------------------------------------
(* The loop and the rows. *)

LEMMA AttemptInv ==
  ASSUME IInv, NEW h \in Host, Attempt(h)
  PROVE  IInv'
<1>1. TypeOK /\ Reach /\ job.pc = "loop" /\ h \in job.todo
  BY DEF IInv, Attempt
<1>2. PICK r \in Result, ran \in BOOLEAN, renewed \in BOOLEAN :
          /\ sshRows' = [sshRows EXCEPT ![h] =
                 IF ran /\ Audited(job.kind) /\ Fits("", "address", h) THEN @ + 1 ELSE @]
          /\ job' = Onward(After(h, r, ran, renewed))
  BY DEF Attempt
<1> DEFINE j == After(h, r, ran, renewed)
<1>3. /\ j \in Jobs /\ j.pc = "loop" /\ j.todo \subseteq job.todo /\ j.granted = job.granted
      /\ \A g \in Host : g # h => j.item[g] = job.item[g]
  BY <1>1, AfterType
<1> HIDE DEF j
<1>4. job' \in Jobs /\ job'.granted = job.granted /\ job'.item = j.item
      /\ (job'.pc = "record" => job'.todo = {g \in Host : j.item[g].result # None})
      /\ job'.todo \subseteq job.todo \cup {g \in Host : j.item[g].result # None}
  BY <1>2, <1>3, OnwardType DEF j
<1>5. {g \in Host : j.item[g].result # None} \subseteq Attempted \cup {h}
  BY <1>3 DEF Attempted
<1>6. Attempted' = {g \in Host : j.item[g].result # None}
  BY <1>4 DEF Attempted
<1>7. Reach'
  BY <1>1, <1>4, <1>5, <1>6 DEF Reach
<1>8. sshRows' \in [Host -> Nat]
  <2>1. sshRows \in [Host -> Nat] /\ sshRows[h] \in Nat /\ sshRows[h] + 1 \in Nat
    BY <1>1 DEF TypeOK
  <2>2. PICK n \in Nat : sshRows' = [sshRows EXCEPT ![h] = n]
    BY <1>2, <2>1
  <2> QED BY <2>1, <2>2
<1>9. TypeOK'
  BY <1>1, <1>4, <1>8 DEF Attempt, TypeOK, db
<1> QED BY <1>7, <1>9 DEF IInv

LEMMA RecordInv ==
  ASSUME IInv, NEW h \in Host, Record(h)
  PROVE  IInv'
<1>1. TypeOK /\ Reach /\ job.pc = "record" /\ h \in job.todo /\ job \in Jobs
  BY DEF IInv, Record, TypeOK
<1>2. job.item[h].result \in Result
  BY <1>1, AttemptedType DEF Reach
<1>3. rows' \in [Host -> Seq(Result)] /\ logged' \subseteq Host
  <2>1. Append(rows[h], job.item[h].result) \in Seq(Result)
    BY <1>1, <1>2 DEF TypeOK
  <2> QED BY <1>1, <2>1 DEF Record, Dropped, TypeOK
<1>4. job' \in Jobs /\ job'.todo = job.todo \ {h} /\ job'.granted = job.granted
      /\ job'.item = job.item
  BY <1>1 DEF Record, Jobs
<1>5. TypeOK'
  BY <1>1, <1>3, <1>4 DEF Record, TypeOK, db
<1>6. Attempted' = Attempted
  BY <1>4 DEF Attempted
<1>7. Reach'
  BY <1>1, <1>4, <1>6 DEF Reach
<1> QED BY <1>5, <1>7 DEF IInv

LEMMA EndInv ==
  ASSUME IInv, Raise \/ RecordUpload \/ Answer
  PROVE  IInv'
<1>1. TypeOK /\ Reach /\ job \in Jobs
  BY DEF IInv, TypeOK
<1>2. CASE Raise \/ Answer
  <2>1. job' = Idle /\ UNCHANGED <<db, rows, logged, sshRows>>
    BY <1>2 DEF Raise, Answer
  <2>2. TypeOK'
    BY <1>1, <2>1, IdleIsJob DEF TypeOK, db
  <2>3. Reach'
    BY <2>1 DEF Reach, Attempted, Idle
  <2> QED BY <2>2, <2>3 DEF IInv
<1>3. CASE RecordUpload
  <2>1. PICK fits \in BOOLEAN :
            /\ job' = [job EXCEPT !.pc = "done", !.todo = {},
                                  !.sum = IF fits THEN Outcome(Attempted) ELSE job.sum]
            /\ logged' \in {logged, logged \cup Attempted}
    BY <1>3 DEF RecordUpload
  <2>2. Outcome(Attempted) \in Result \cup {"partial", None}
    BY DEF Outcome, Result
  <2>3. job' \in Jobs /\ job'.todo = {} /\ job'.granted = job.granted /\ job'.item = job.item
        /\ job'.pc = "done"
    BY <1>1, <2>1, <2>2 DEF Jobs
  <2>4. logged' \subseteq Host
    BY <1>1, <2>1, AttemptedType DEF TypeOK
  <2>5. TypeOK'
    BY <1>1, <1>3, <2>3, <2>4 DEF RecordUpload, TypeOK, db
  <2>6. Reach'
    BY <1>1, <2>3 DEF Reach, Attempted
  <2> QED BY <2>5, <2>6 DEF IInv
<1> QED BY <1>2, <1>3

-----------------------------------------------------------------------------
LEMMA InvNext == IInv /\ [Next]_vars => IInv'
<1> SUFFICES ASSUME IInv, [Next]_vars PROVE IInv'
  OBVIOUS
<1>1. CASE UNCHANGED vars
  <2>1. TypeOK'
    BY <1>1 DEF IInv, TypeOK, vars
  <2>2. Reach'
    BY <1>1 DEF IInv, Reach, Attempted, vars
  <2> QED BY <2>1, <2>2 DEF IInv
<1>2. CASE Administers
  <2>1. TypeOK'
    BY <1>2, TypeAdministers DEF IInv
  <2>2. Reach'
    BY <1>2, AdministersLeaves DEF IInv, Reach, Attempted, left
  <2> QED BY <2>1, <2>2 DEF IInv
<1>3. CASE Requests
  BY <1>3, StartInv, AttemptInv, RecordInv, EndInv DEF Requests, IInv
<1> QED BY <1>1, <1>2, <1>3, NextIs

LEMMA InvAlways == Spec => []IInv
<1>1. Init => Reach
  BY DEF Init, Reach, Attempted, Idle
<1>2. Init => IInv
  BY <1>1, TypeInit DEF IInv
<1> QED BY <1>2, InvNext, PTL DEF Spec

\* Every variable stays in its type.
THEOREM AccessTypes == Spec => []TypeOK
<1>1. IInv => TypeOK
  BY DEF IInv
<1> QED BY <1>1, InvAlways, PTL

\* A batch touches only hosts that one live rule granted together with its credential when
\* the request began, whatever an administrator changes meanwhile (validate_batch_targets
\* and the three loops of batch_service.py).
THEOREM ReachGranted == Spec => []GrantedTogether
<1>1. IInv => GrantedTogether
  BY DEF IInv, Reach, GrantedTogether
<1> QED BY <1>1, InvAlways, PTL

-----------------------------------------------------------------------------
(* The rows of a request. *)

\* An alias only goes from 0 to 1; of a host in the log it stays as the request read it.
AliasesKept ==
    /\ \A h \in Host : job.seen.alias[h] <= host[h].alias /\ job.item[h].alias <= host[h].alias
    /\ \A h \in logged :
          /\ job.pc = "loop" /\ h \in job.todo => job.seen.alias[h] = host[h].alias
          /\ h \in Attempted => job.item[h].alias = host[h].alias

\* No row before the last host; then one for each host that is done and not renamed.
RowsKept ==
    /\ job.pc = "loop" => job.kind \in Batch \cup Direct
    /\ job.pc = "record" => job.kind \in Batch
    /\ job.pc = "done" => job.todo = {}
    /\ job.pc = "loop" => \A h \in Host : rows[h] = <<>>
    /\ job.pc \in {"record", "done"} /\ job.kind \in Batch \ {"upload"} =>
          \A h \in Host : rows[h] = IF h \in (Attempted \ job.todo) \cap logged
                                    THEN <<job.item[h].result>> ELSE <<>>
    /\ job.pc = "done" /\ job.kind = "upload" =>
          job.sum = Outcome(Attempted) \/ \E h \in Attempted : job.item[h].alias # host[h].alias

RInv == IInv /\ AliasesKept /\ RowsKept

\* What a change of the administrator does to the aliases.
LEMMA AliasGrows ==
  ASSUME TypeOK, Administers, NEW h \in Host
  PROVE  /\ host[h].alias \in 0..1 /\ host[h].alias' \in 0..1
         /\ host[h].alias <= host[h].alias'
         /\ h \in logged => host[h].alias' = host[h].alias
<1>1. host \in [Host -> Hosts]
  BY DEF TypeOK
<1>2. host[h].alias \in 0..1 /\ 0 <= 1 /\ 0 <= 0 /\ 1 <= 1
  BY <1>1 DEF Hosts
<1>3. ASSUME NEW g \in Host, NEW k \in HostGroup, MoveHost(g, k) \/ ReviveHost(g, k)
      PROVE  host[h].alias' = host[h].alias
  BY <1>1, <1>3 DEF MoveHost, ReviveHost, Hosts
<1>4. ASSUME NEW g \in Host, DelHost(g)
      PROVE  host[h].alias' = host[h].alias
  BY <1>1, <1>4 DEF DelHost, Hosts
<1>5. ASSUME NEW g \in Host, RenameHost(g)
      PROVE  /\ host[h].alias' \in {host[h].alias, 1}
             /\ h \in logged => host[h].alias' = host[h].alias
  BY <1>1, <1>5 DEF RenameHost, Hosts
<1>6. ASSUME UNCHANGED host
      PROVE  host[h].alias' = host[h].alias
  BY <1>6
<1>7. \/ UNCHANGED host
      \/ \E g \in Host, k \in HostGroup : MoveHost(g, k) \/ ReviveHost(g, k)
      \/ \E g \in Host : RenameHost(g) \/ DelHost(g)
  BY DEF Administers, AddRule, UpdateRule, DelRule, DelCred, AddCred, DelCaller
<1>8. host[h].alias' \in {host[h].alias, 1} /\ (h \in logged => host[h].alias' = host[h].alias)
  BY <1>3, <1>4, <1>5, <1>6, <1>7
<1> QED BY <1>2, <1>8

LEMMA RowsAdministers ==
  ASSUME RInv, Administers
  PROVE  AliasesKept' /\ RowsKept'
<1>1. TypeOK /\ AliasesKept /\ RowsKept /\ UNCHANGED <<job, rows, logged>>
  BY AdministersLeaves DEF RInv, IInv, left
<1>2. Attempted' = Attempted /\ Outcome(Attempted)' = Outcome(Attempted)
  BY <1>1 DEF Attempted, Outcome
<1>3. job \in Jobs /\ Attempted \subseteq Host /\ logged \subseteq Host
  BY <1>1 DEF TypeOK, Attempted
<1>4. \A h \in Host : job.seen.alias[h] \in 0..1 /\ job.item[h].alias \in 0..1
  BY <1>3 DEF Jobs
<1>5. AliasesKept'
  <2>1. ASSUME NEW h \in Host
        PROVE  job.seen.alias[h] <= host[h].alias' /\ job.item[h].alias <= host[h].alias'
    BY <1>1, <1>4, AliasGrows DEF AliasesKept
  <2>2. ASSUME NEW h \in logged
        PROVE  /\ job.pc = "loop" /\ h \in job.todo => job.seen.alias[h] = host[h].alias'
               /\ h \in Attempted => job.item[h].alias = host[h].alias'
    BY <1>1, <1>3, AliasGrows DEF AliasesKept
  <2> QED BY <1>1, <1>2, <2>1, <2>2 DEF AliasesKept
<1>6. ASSUME NEW h \in Attempted, job.item[h].alias # host[h].alias
      PROVE  job.item[h].alias # host[h].alias'
  <2>1. h \in Host /\ job.item[h].alias <= host[h].alias
    BY <1>1, <1>3 DEF AliasesKept
  <2> QED BY <1>1, <1>4, <1>6, <2>1, AliasGrows
<1>7. RowsKept'
  <2>1. job.pc = "done" /\ job.kind = "upload" =>
           job.sum = Outcome(Attempted) \/ \E h \in Attempted : job.item[h].alias # host[h].alias'
    BY <1>1, <1>6 DEF RowsKept
  <2> QED BY <1>1, <1>2, <2>1 DEF RowsKept
<1> QED BY <1>5, <1>7

\* What a transaction reads of a host that is still to do is its alias.
LEMMA SeenAlias ==
  ASSUME TypeOK, NEW todo, NEW c, NEW h \in Host
  PROVE  /\ Seen(todo, c).alias[h] <= host[h].alias
         /\ h \in todo => Seen(todo, c).alias[h] = host[h].alias
<1>1. host[h].alias \in 0..1
  BY DEF TypeOK, Hosts
<1> QED BY <1>1 DEF Seen

LEMMA RowsStart ==
  ASSUME TypeOK, NEW kind \in Batch \cup Direct, NEW hs, NEW c \in Cred, NEW granted,
         Accept(kind, hs, c, granted)
  PROVE  AliasesKept' /\ RowsKept'
<1>1. /\ job'.pc = "loop" /\ job'.kind = kind /\ job'.todo = hs /\ job'.seen = Seen(hs, c)
      /\ \A h \in Host : job'.item[h] = [result |-> None, alias |-> 0, ran |-> FALSE]
      /\ UNCHANGED <<host, logged>> /\ \A h \in Host : rows'[h] = <<>>
  BY DEF Accept, Idle, db
<1>2. \A h \in Host : host[h].alias \in 0..1
  BY DEF TypeOK, Hosts
<1>3. Attempted' = {}
  BY <1>1 DEF Attempted
<1>4. logged \subseteq Host
  BY DEF TypeOK
<1>5. AliasesKept'
  BY <1>1, <1>2, <1>3, <1>4, SeenAlias DEF AliasesKept
<1>6. RowsKept'
  BY <1>1 DEF RowsKept
<1> QED BY <1>5, <1>6

\* Every start is an acceptance.
LEMMA StartAccepts ==
  ASSUME \/ \E hs \in SUBSET Host, c \in Cred :
               \/ StartScript(hs, c)
               \/ \E role \in {"user", "admin"} :
                     StartUpload(role, hs, c) \/ StartCommand(role, hs, c) \/ StartAgent(role, hs, c)
         \/ \E c \in Cred : (\E h \in Host : StartSingle(h, c)) \/ \E g \in HostGroup : StartGroup(g, c)
  PROVE  \E kind \in Batch \cup Direct, hs \in SUBSET Host, c \in Cred, granted \in SUBSET Host :
            Accept(kind, hs, c, granted)
<1>1. \A role \in {"user", "admin"}, c \in Cred : Granted(role, c) \in SUBSET Host
  BY DEF Granted
<1>2. ASSUME NEW hs \in SUBSET Host, NEW c \in Cred,
             \/ StartScript(hs, c)
             \/ \E role \in {"user", "admin"} :
                   StartUpload(role, hs, c) \/ StartCommand(role, hs, c) \/ StartAgent(role, hs, c)
      PROVE  \E kind \in Batch, role \in {"user", "admin"} : Accept(kind, hs, c, Granted(role, c))
  BY <1>2 DEF StartScript, StartUpload, StartCommand, StartAgent, StartBatch, Batch
<1>3. ASSUME NEW c \in Cred,
             (\E h \in Host : StartSingle(h, c)) \/ \E g \in HostGroup : StartGroup(g, c)
      PROVE  \E hs \in SUBSET Host, kind \in Direct : Accept(kind, hs, c, hs)
  BY <1>3 DEF StartSingle, StartGroup, StartDirect, Direct
<1> QED BY <1>1, <1>2, <1>3

LEMMA RowsAttempt ==
  ASSUME RInv, NEW h \in Host, Attempt(h)
  PROVE  AliasesKept' /\ RowsKept'
<1>1. TypeOK /\ AliasesKept /\ RowsKept /\ job.pc = "loop" /\ h \in job.todo
  BY DEF RInv, IInv, Attempt
<1>2. PICK r \in Result, ran \in BOOLEAN, renewed \in BOOLEAN :
          job' = Onward(After(h, r, ran, renewed))
  BY DEF Attempt
<1> DEFINE j == After(h, r, ran, renewed)
<1>3. job \in Jobs /\ logged \subseteq Host /\ UNCHANGED <<host, rows, logged>>
      /\ \A g \in Host : host[g].alias \in 0..1
  BY <1>1 DEF TypeOK, Hosts, Attempt, db
<1>4. /\ j \in Jobs /\ j.pc = "loop" /\ j.todo = job.todo \ {h}
      /\ \A g \in Host : g # h => j.item[g] = job.item[g]
  BY <1>1, AfterType
<1>5. /\ j.kind = job.kind /\ j.item[h].alias = job.seen.alias[h]
      /\ j.seen = IF renewed THEN Seen(job.todo \ {h}, job.cred)
                  ELSE [job.seen EXCEPT !.alias[h] = 0]
  BY <1>3 DEF After, Jobs
<1> HIDE DEF j
<1>6. job' \in Jobs /\ job'.kind = job.kind /\ job'.item = j.item /\ job'.seen = j.seen
      /\ job'.pc \in {"loop", "record", "done"} /\ (job'.pc = "loop" => job' = j)
      /\ (job'.pc # "loop" => j.todo = {})
      /\ (job'.pc = "done" => job'.kind \in Direct /\ job'.todo = {})
      /\ (job'.pc = "record" => job'.kind \notin Direct
                                /\ job'.todo = {g \in Host : j.item[g].result # None})
  BY <1>2, <1>4, <1>5 DEF j, Onward, Jobs
<1>7. Attempted' = {g \in Host : j.item[g].result # None}
  BY <1>6 DEF Attempted
<1>8. \A g \in Host : job.seen.alias[g] \in 0..1
  BY <1>3 DEF Jobs
<1>9. ASSUME NEW g \in Host
      PROVE  /\ j.seen.alias[g] <= host[g].alias
             /\ g \in logged /\ g \in j.todo => j.seen.alias[g] = host[g].alias
  <2>1. CASE renewed
    BY <1>1, <1>4, <1>5, <2>1, SeenAlias
  <2>2. CASE ~renewed
    <3>1. j.seen.alias[g] = IF g = h THEN 0 ELSE job.seen.alias[g]
      BY <1>3, <1>5, <2>2 DEF Jobs
    <3> QED BY <1>1, <1>3, <1>4, <3>1 DEF AliasesKept
  <2> QED BY <2>1, <2>2
<1>10. ASSUME NEW g \in Host
       PROVE  /\ j.item[g].alias <= host[g].alias
              /\ g \in logged /\ g \in Attempted' => j.item[g].alias = host[g].alias
  <2>1. CASE g = h
    BY <1>1, <1>5, <2>1 DEF AliasesKept
  <2>2. CASE g # h
    BY <1>1, <1>4, <1>7, <2>2 DEF AliasesKept, Attempted
  <2> QED BY <2>1, <2>2
<1>11. AliasesKept'
  BY <1>3, <1>6, <1>9, <1>10 DEF AliasesKept
<1>12. RowsKept'
  <2>1. \A g \in Host : rows'[g] = <<>>
    BY <1>1, <1>3 DEF RowsKept
  <2>2. job'.pc = "record" => job'.kind \in Batch /\ job'.todo = Attempted'
    BY <1>1, <1>6, <1>7 DEF RowsKept
  <2>3. job'.pc = "done" => job'.kind \notin Batch /\ job'.kind # "upload" /\ job'.todo = {}
    BY <1>6 DEF Batch, Direct
  <2>4. job'.kind \in Batch \cup Direct
    BY <1>1, <1>6 DEF RowsKept
  <2> QED BY <1>6, <2>1, <2>2, <2>3, <2>4 DEF RowsKept
<1> QED BY <1>11, <1>12

LEMMA RowsRecord ==
  ASSUME RInv, NEW h \in Host, Record(h)
  PROVE  AliasesKept' /\ RowsKept'
<1>1. /\ TypeOK /\ AliasesKept /\ RowsKept /\ Reach
      /\ job.pc = "record" /\ job.kind # "upload" /\ job.kind \in Batch /\ h \in job.todo
  BY DEF RInv, IInv, Record, RowsKept
<1>2. job \in Jobs /\ logged \subseteq Host /\ rows \in [Host -> Seq(Result)] /\ UNCHANGED host
  BY <1>1 DEF TypeOK, Record, db
<1>3. /\ job'.item = job.item /\ job'.seen = job.seen /\ job'.kind = job.kind
      /\ job'.todo = job.todo \ {h} /\ job'.pc \in {"record", "done"}
      /\ (job'.pc = "done" => job'.todo = {})
  BY <1>1, <1>2 DEF Record, Jobs
<1>4. Attempted' = Attempted /\ h \in Attempted /\ Attempted \subseteq Host
  BY <1>1, <1>3 DEF Attempted, Reach
<1>5. \/ /\ job.item[h].alias = host[h].alias /\ logged' = logged \cup {h}
         /\ rows' = [rows EXCEPT ![h] = Append(rows[h], job.item[h].result)]
      \/ job.item[h].alias # host[h].alias /\ UNCHANGED <<rows, logged>>
  BY DEF Record, Fits, Dropped
<1>6. AliasesKept'
  BY <1>1, <1>2, <1>3, <1>4, <1>5 DEF AliasesKept
<1>7. h \in logged => job.item[h].alias = host[h].alias
  BY <1>1, <1>4 DEF AliasesKept
<1>8. Append(<<>>, job.item[h].result) = <<job.item[h].result>>
  OBVIOUS
<1>9. ASSUME NEW g \in Host
      PROVE  rows'[g] = IF g \in (Attempted \ job'.todo) \cap logged'
                        THEN <<job.item[g].result>> ELSE <<>>
  <2>1. rows[g] = IF g \in (Attempted \ job.todo) \cap logged
                  THEN <<job.item[g].result>> ELSE <<>>
    BY <1>1 DEF RowsKept
  <2>2. CASE g = h
    BY <1>1, <1>2, <1>3, <1>4, <1>5, <1>7, <1>8, <2>1, <2>2
  <2>3. CASE g # h
    BY <1>2, <1>3, <1>5, <2>1, <2>3
  <2> QED BY <2>2, <2>3
<1>10. RowsKept'
  BY <1>1, <1>3, <1>4, <1>9 DEF RowsKept
<1> QED BY <1>6, <1>10

LEMMA RowsEnd ==
  ASSUME RInv, Raise \/ RecordUpload \/ Answer
  PROVE  AliasesKept' /\ RowsKept'
<1>1. /\ TypeOK /\ AliasesKept /\ RowsKept /\ job \in Jobs /\ logged \subseteq Host
      /\ \A h \in Host : host[h].alias \in 0..1
  BY DEF RInv, IInv, TypeOK, Hosts
<1>2. CASE Raise \/ Answer
  <2>1. job' = Idle /\ UNCHANGED <<host, logged>>
    BY <1>2 DEF Raise, Answer, db
  <2>2. AliasesKept'
    BY <1>1, <2>1 DEF AliasesKept, Attempted, Idle
  <2>3. RowsKept'
    BY <2>1 DEF RowsKept, Idle
  <2> QED BY <2>2, <2>3
<1>3. CASE RecordUpload
  <2> DEFINE fits == \A h \in Attempted : Attempted = {h} => Fits("caller", job.item[h].alias, h)
  <2>1. /\ job.pc = "record" /\ job.kind = "upload"
        /\ job' = [job EXCEPT !.pc = "done", !.todo = {},
                              !.sum = IF fits THEN Outcome(Attempted) ELSE @]
        /\ logged' = IF fits /\ \E h \in Host : Attempted = {h}
                     THEN logged \cup Attempted ELSE logged
        /\ UNCHANGED host
    BY <1>3 DEF RecordUpload, db
  <2>2. /\ job'.pc = "done" /\ job'.todo = {} /\ job'.kind = "upload"
        /\ job'.item = job.item /\ job'.seen = job.seen
        /\ (fits => job'.sum = Outcome(Attempted))
    BY <1>1, <2>1 DEF Jobs
  <2>3. Attempted' = Attempted /\ Attempted \subseteq Host
    BY <2>2 DEF Attempted
  <2>4. Outcome(Attempted)' = Outcome(Attempted)
    BY <2>2, <2>3 DEF Outcome
  <2>5. AliasesKept'
    BY <1>1, <2>1, <2>2, <2>3 DEF AliasesKept, Fits
  <2>6. ~fits => \E h \in Attempted : job.item[h].alias # host[h].alias
    BY DEF Fits
  <2> HIDE DEF fits
  <2>7. RowsKept'
    BY <2>1, <2>2, <2>3, <2>4, <2>6 DEF RowsKept
  <2> QED BY <2>5, <2>7
<1> QED BY <1>2, <1>3

LEMMA RInvNext == RInv /\ [Next]_vars => RInv'
<1> SUFFICES ASSUME RInv, [Next]_vars PROVE RInv'
  OBVIOUS
<1>1. IInv'
  BY InvNext DEF RInv
<1>2. CASE UNCHANGED vars
  <2>1. AliasesKept'
    BY <1>2 DEF RInv, AliasesKept, Attempted, vars
  <2>2. RowsKept'
    <3>1. Attempted' = Attempted /\ Outcome(Attempted)' = Outcome(Attempted)
      BY <1>2 DEF Attempted, Outcome, vars
    <3> QED BY <1>2, <3>1 DEF RInv, RowsKept, vars
  <2> QED BY <1>1, <2>1, <2>2 DEF RInv
<1>3. CASE Administers
  BY <1>1, <1>3, RowsAdministers DEF RInv
<1>4. CASE Requests
  <2>1. CASE \E h \in Host : Attempt(h) \/ Record(h)
    BY <1>1, <2>1, RowsAttempt, RowsRecord DEF RInv
  <2>2. CASE Raise \/ RecordUpload \/ Answer
    BY <1>1, <2>2, RowsEnd DEF RInv
  <2>3. CASE ~(\E h \in Host : Attempt(h) \/ Record(h)) /\ ~(Raise \/ RecordUpload \/ Answer)
    <3>1. PICK kind \in Batch \cup Direct, hs \in SUBSET Host, c \in Cred,
               granted \in SUBSET Host : Accept(kind, hs, c, granted)
      BY <1>4, <2>3, StartAccepts DEF Requests
    <3> QED BY <1>1, <3>1, RowsStart DEF RInv, IInv
  <2> QED BY <2>1, <2>2, <2>3
<1> QED BY <1>2, <1>3, <1>4, NextIs

\* Once a batch is over each of its hosts has exactly one row, of its own result; only a
\* host renamed since the request read it has none, and an upload's one row sums it up
\* (the end of the loops of batch_service.py, and write_command_log of audlog.py).
THEOREM RowsOfBatches == Spec => []RowsTrue
<1>1. Init => RInv
  <2>1. Init => IInv
    <3>1. Init => Reach
      BY DEF Init, Reach, Attempted, Idle
    <3> QED BY <3>1, TypeInit DEF IInv
  <2>2. ASSUME Init PROVE AliasesKept
    <3>1. \A h \in Host : host[h].alias = 0 /\ job.seen.alias[h] = 0 /\ job.item[h].alias = 0
      BY <2>2 DEF Init, Idle
    <3> QED BY <2>2, <3>1 DEF Init, AliasesKept
  <2>3. Init => RowsKept
    BY DEF Init, RowsKept, Idle
  <2> QED BY <2>1, <2>2, <2>3 DEF RInv
<1>2. RInv => RowsTrue
  <2> SUFFICES ASSUME RowsKept PROVE RowsTrue
    BY DEF RInv
  <2>1. CASE job.kind = "upload"
    BY <2>1 DEF RowsKept, RowsTrue
  <2>2. CASE job.kind # "upload"
    BY <2>2 DEF RowsKept, RowsTrue
  <2> QED BY <2>1, <2>2
<1> QED BY <1>1, <1>2, RInvNext, PTL DEF Spec

-----------------------------------------------------------------------------
(* Accounts: types. *)

(* Accounts: types. *)

Carried ==
    [pc : {"idle", "role", "key", "drop", "count", "store", "names", "clear", "fill"},
     name : Name \cup {Ac!None}, role : Ac!Role \cup {Ac!None},
     group : Group \cup {Ac!None}, n : 0..Cardinality(Id), list : SUBSET Group]

LEMMA AccountConstants ==
  /\ IsFiniteSet(Id) /\ Cardinality(Id) \in Nat
  /\ Ac!None \notin Name /\ Ac!None \notin Group
  /\ (CHOOSE n \in Name : TRUE) \in Name /\ (CHOOSE g \in Group : TRUE) \in Group
<1>1. Ac!IsFiniteSet(Id) /\ Name # {} /\ Group # {} /\ Ac!None \notin Name \cup Group
  BY PlatformAssumption DEF Ac!AccountsAssumption
<1>2. IsFiniteSet(Id)
  BY <1>1 DEF Ac!IsFiniteSet, IsFiniteSet
<1>3. Cardinality(Id) \in Nat
  BY <1>2, FS_CardinalityType
<1>4. (CHOOSE n \in Name : TRUE) \in Name /\ (CHOOSE g \in Group : TRUE) \in Group
  BY <1>1
<1> QED BY <1>1, <1>2, <1>3, <1>4

\* The two names of one operator.
LEMMA AccountCount == ASSUME NEW S PROVE Ac!Cardinality(S) = Cardinality(S)
  BY DEF Ac!Cardinality, Cardinality

\* A group has no more members than there are rows.
LEMMA MemberCount ==
  ASSUME NEW g PROVE Ac!Cardinality(Ac!Members(g)) \in 0..Cardinality(Id)
<1>1. Ac!Members(g) \subseteq Id
  BY DEF Ac!Members
<1>2. Cardinality(Ac!Members(g)) <= Cardinality(Id) /\ Cardinality(Ac!Members(g)) \in Nat
  BY <1>1, AccountConstants, FS_Subset, FS_CardinalityType
<1> QED BY <1>2, AccountConstants, AccountCount

\* What a request carries, and how it may change.
LEMMA Carries ==
  ASSUME Ac!TypeOK, NEW o \in Op
  PROVE  /\ acOp[o] \in Carried /\ Ac!Idle \in Carried
         /\ \A pc \in {"role", "key", "drop", "names"}, n \in Name \cup {Ac!None},
               r \in Ac!Role \cup {Ac!None}, g \in Group \cup {Ac!None} :
               [Ac!Idle EXCEPT !.pc = pc, !.name = n, !.role = r, !.group = g] \in Carried
         /\ \A pc \in {"count", "fill"} : [acOp[o] EXCEPT !.pc = pc] \in Carried
         /\ \A n \in 0..Cardinality(Id) : [acOp[o] EXCEPT !.pc = "store", !.n = n] \in Carried
         /\ \A l \in SUBSET Group : [acOp[o] EXCEPT !.pc = "clear", !.list = l] \in Carried
<1>1. acOp \in [Op -> Carried]
  BY AccountCount DEF Ac!TypeOK, Carried
<1>2. 0 \in 0..Cardinality(Id)
  BY AccountConstants
<1>3. Ac!Idle \in Carried
  BY <1>2 DEF Ac!Idle, Carried
<1> QED BY <1>1, <1>3 DEF Carried

Row0 == Ac!Row \cup {Ac!NoRow}
Grp0 == [state : {"none", "live", "deleted"}, nums : 0..Cardinality(Id)]

AccountTyped ==
    /\ acRow \in [Id -> Row0] /\ acKey \in [Name -> Ac!Role \cup {Ac!None}]
    /\ acGrp \in [Group -> Grp0] /\ acAll \subseteq Group /\ acMoved \subseteq Group
    /\ acOp \in [Op -> Carried]

LEMMA AccountTypes == Ac!TypeOK <=> AccountTyped
  BY AccountCount DEF Ac!TypeOK, Carried, Row0, Grp0, AccountTyped

LEMMA AccountTypeInit == Ac!Init => Ac!TypeOK
<1> SUFFICES ASSUME Ac!Init PROVE Ac!TypeOK
  OBVIOUS
<1>1. 0 \in 0..Cardinality(Id)
  BY AccountConstants
<1>2. Ac!Idle \in Carried
  BY <1>1 DEF Ac!Idle, Carried
<1>3. acRow \in [Id -> Row0]
  BY AccountConstants DEF Ac!Init, Row0, Ac!Row, Ac!Role
<1>4. acGrp \in [Group -> Grp0]
  BY <1>1 DEF Ac!Init, Grp0
<1>5. acAll \subseteq Group /\ acMoved \subseteq Group /\ acOp \in [Op -> Carried]
  BY <1>2 DEF Ac!Init
<1>6. acKey \in [Name -> Ac!Role \cup {Ac!None}]
  BY DEF Ac!Init
<1> QED BY <1>3, <1>4, <1>5, <1>6, AccountTypes DEF AccountTyped

\* A request that carries something else.
LEMMA OpTyped ==
  ASSUME Ac!TypeOK, NEW o \in Op, NEW x \in Carried, acOp' = [acOp EXCEPT ![o] = x]
  PROVE  acOp' \in [Op -> Carried]
<1>1. acOp \in [Op -> Carried]
  BY AccountTypes DEF AccountTyped
<1> QED BY <1>1


\* An account or nothing.
LEMMA RowTyped ==
  ASSUME Ac!TypeOK, NEW i \in Id
  PROVE  /\ acRow[i] \in Row0
         /\ acRow[i].alive => acRow[i] \in Ac!Row
         /\ acRow[i].name \in Name \cup {Ac!None} /\ acRow[i].group \in Group \cup {Ac!None}
         /\ acRow[i].role \in Ac!Role \cup {Ac!None} /\ acRow[i].alive \in BOOLEAN
         /\ acRow[i] # Ac!NoRow <=> acRow[i].name \in Name
<1>1. acRow[i] \in Row0
  BY AccountTypes DEF AccountTyped
<1>2. CASE acRow[i] \in Ac!Row
  BY <1>1, <1>2, AccountConstants DEF Ac!Row, Ac!NoRow
<1>3. CASE acRow[i] = Ac!NoRow
  BY <1>1, <1>3, AccountConstants DEF Ac!NoRow
<1> QED BY <1>1, <1>2, <1>3 DEF Row0

\* A request that begins: the rows and what it carries.
LEMMA BeginTypes ==
  ASSUME Ac!TypeOK, NEW o \in Op
  PROVE  /\ \A n \in Name : Ac!Login(o, n) => acOp' \in [Op -> Carried]
         /\ \A n \in Name : Ac!DelUser(o, n) =>
               acRow' \in [Id -> Row0] /\ acOp' \in [Op -> Carried]
         /\ \A i \in Id, n \in Name, r \in Ac!Role, g \in Group :
               Ac!AddUser(o, i, n, r, g) \/ Ac!UpdateUser(o, i, n, r, g) =>
               /\ acRow' \in [Id -> Row0] /\ acMoved' \subseteq Group
               /\ acOp' \in [Op -> Carried]
<1>1. ASSUME NEW n \in Name, Ac!Login(o, n) PROVE acOp' \in [Op -> Carried]
  <2>1. PICK i \in Ac!Live(n) : Ac!Carry(o, "role", n, acRow[i].role, Ac!None)
    BY <1>1 DEF Ac!Login
  <2>2. acRow[i].role \in Ac!Role \cup {Ac!None}
    BY RowTyped DEF Ac!Live
  <2>3. [Ac!Idle EXCEPT !.pc = "role", !.name = n, !.role = acRow[i].role,
                        !.group = Ac!None] \in Carried
    BY <2>2, Carries
  <2> QED BY <2>1, <2>3, OpTyped DEF Ac!Carry
<1>2. ASSUME NEW n \in Name, Ac!DelUser(o, n)
      PROVE  acRow' \in [Id -> Row0] /\ acOp' \in [Op -> Carried]
  <2>1. PICK i \in Ac!Live(n) :
           /\ acRow' = [acRow EXCEPT ![i].alive = FALSE]
           /\ Ac!Carry(o, "drop", n, Ac!None, acRow[i].group)
    BY <1>2 DEF Ac!DelUser
  <2>2. i \in Id /\ acRow[i].alive
    BY DEF Ac!Live
  <2>3. acRow[i] \in Ac!Row /\ acRow[i].group \in Group
    BY <2>2, RowTyped DEF Ac!Row
  <2>4. [acRow[i] EXCEPT !.alive = FALSE] \in Row0
    BY <2>3 DEF Ac!Row, Row0
  <2>5. acRow' \in [Id -> Row0]
    BY <2>1, <2>2, <2>4, AccountTypes DEF AccountTyped
  <2>6. [Ac!Idle EXCEPT !.pc = "drop", !.name = n, !.role = Ac!None,
                        !.group = acRow[i].group] \in Carried
    BY <2>3, Carries
  <2> QED BY <2>1, <2>5, <2>6, OpTyped DEF Ac!Carry
<1>3. ASSUME NEW i \in Id, NEW n \in Name, NEW r \in Ac!Role, NEW g \in Group,
             Ac!AddUser(o, i, n, r, g) \/ Ac!UpdateUser(o, i, n, r, g)
      PROVE  /\ acRow' \in [Id -> Row0] /\ acMoved' \subseteq Group
             /\ acOp' \in [Op -> Carried]
  <2>1. [Ac!Idle EXCEPT !.pc = "key", !.name = n, !.role = r, !.group = g] \in Carried
    BY Carries
  <2>2. Ac!Carry(o, "key", n, r, g)
    BY <1>3 DEF Ac!AddUser, Ac!UpdateUser
  <2>3. acOp' \in [Op -> Carried]
    BY <2>1, <2>2, OpTyped DEF Ac!Carry
  <2>4. \A b \in BOOLEAN : [name |-> n, role |-> r, group |-> g, alive |-> b] \in Row0
    BY DEF Row0, Ac!Row
  <2>5. acRow[i].alive \in BOOLEAN
    BY RowTyped
  <2>6. acRow' \in [Id -> Row0]
    BY <1>3, <2>4, <2>5, AccountTypes DEF AccountTyped, Ac!AddUser, Ac!UpdateUser
  <2>7. acMoved' \subseteq Group
    <3>1. CASE Ac!AddUser(o, i, n, r, g)
      BY <3>1, AccountTypes DEF AccountTyped, Ac!AddUser
    <3>2. CASE Ac!UpdateUser(o, i, n, r, g)
      <4>1. acRow[i].group \in Group
        BY <3>2, RowTyped DEF Ac!UpdateUser, Row0, Ac!Row
      <4> QED BY <3>2, <4>1, AccountTypes DEF AccountTyped, Ac!UpdateUser
    <3> QED BY <1>3, <3>1, <3>2
  <2> QED BY <2>3, <2>6, <2>7
<1> QED BY <1>1, <1>2, <1>3

LEMMA GroupTypes ==
  ASSUME Ac!TypeOK, NEW o \in Op, NEW g \in Group
  PROVE  /\ Ac!AddGroup(o, g) => acGrp' \in [Group -> Grp0] /\ acMoved' \subseteq Group
         /\ Ac!DelGroup(o, g) => acGrp' \in [Group -> Grp0] /\ acOp' \in [Op -> Carried]
         /\ \A h \in Group : Ac!RenameGroup(o, g, h) =>
               /\ acRow' \in [Id -> Row0] /\ acGrp' \in [Group -> Grp0]
               /\ acAll' \subseteq Group /\ acMoved' \subseteq Group
               /\ acOp' \in [Op -> Carried]
<1>1. 0 \in 0..Cardinality(Id)
  BY AccountConstants
<1>2. /\ \A x \in Grp0, st \in {"none", "live", "deleted"} : [x EXCEPT !.state = st] \in Grp0
      /\ \A st \in {"none", "live", "deleted"} : [state |-> st, nums |-> 0] \in Grp0
  BY <1>1 DEF Grp0
<1>3. ASSUME NEW h \in Group, Ac!Carry(o, "names", Ac!None, Ac!None, h)
      PROVE  acOp' \in [Op -> Carried]
  <2>1. [Ac!Idle EXCEPT !.pc = "names", !.name = Ac!None, !.role = Ac!None, !.group = h]
           \in Carried
    BY Carries
  <2> QED BY <1>3, <2>1, OpTyped DEF Ac!Carry
<1>4. Ac!AddGroup(o, g) => acGrp' \in [Group -> Grp0] /\ acMoved' \subseteq Group
  BY <1>2, AccountTypes DEF AccountTyped, Ac!AddGroup
<1>5. Ac!DelGroup(o, g) => acGrp' \in [Group -> Grp0] /\ acOp' \in [Op -> Carried]
  BY <1>2, <1>3, AccountTypes DEF AccountTyped, Ac!DelGroup
<1>6. ASSUME NEW h \in Group, Ac!RenameGroup(o, g, h)
      PROVE  /\ acRow' \in [Id -> Row0] /\ acGrp' \in [Group -> Grp0]
             /\ acAll' \subseteq Group /\ acMoved' \subseteq Group
             /\ acOp' \in [Op -> Carried]
  <2>1. acOp' \in [Op -> Carried]
    BY <1>3, <1>6 DEF Ac!RenameGroup
  <2>2. acGrp' \in [Group -> Grp0]
    BY <1>2, <1>6, AccountTypes DEF AccountTyped, Ac!RenameGroup
  <2>3. acAll' \subseteq Group /\ acMoved' \subseteq Group
    BY <1>6, AccountTypes DEF AccountTyped, Ac!RenameGroup
  <2>4. ASSUME NEW i \in Id
        PROVE  (IF acRow[i].group = g /\ acRow[i].alive
                THEN [acRow[i] EXCEPT !.group = h] ELSE acRow[i]) \in Row0
    BY RowTyped DEF Row0, Ac!Row
  <2>5. acRow' = [i \in Id |-> IF acRow[i].group = g /\ acRow[i].alive
                               THEN [acRow[i] EXCEPT !.group = h] ELSE acRow[i]]
    BY <1>6 DEF Ac!RenameGroup
  <2>6. acRow' \in [Id -> Row0]
    BY <2>4, <2>5
  <2> QED BY <2>1, <2>2, <2>3, <2>6
<1> QED BY <1>4, <1>5, <1>6

\* What follows the commit.
Follows(o) ==
    \/ Ac!StoreRole(o) \/ Ac!SetKey(o) \/ Ac!DropKey(o) \/ Ac!Count(o) \/ Ac!Store(o)
    \/ Ac!ReadNames(o) \/ Ac!ClearAll(o) \/ Ac!FillAll(o)

LEMMA FollowTypes ==
  ASSUME Ac!TypeOK, NEW o \in Op, Follows(o)
  PROVE  /\ acKey' \in [Name -> Ac!Role \cup {Ac!None}] /\ acGrp' \in [Group -> Grp0]
         /\ acAll' \subseteq Group /\ acMoved' \subseteq Group /\ acOp' \in [Op -> Carried]
         /\ acRow' = acRow
<1>0. acRow' = acRow
  BY DEF Follows, Ac!StoreRole, Ac!SetKey, Ac!DropKey, Ac!Count, Ac!Store, Ac!ReadNames,
         Ac!ClearAll, Ac!FillAll
<1>1. /\ acOp[o].role \in Ac!Role \cup {Ac!None} /\ acOp[o].n \in 0..Cardinality(Id)
      /\ acOp[o].list \subseteq Group
  BY AccountTypes DEF AccountTyped, Carried
<1>2. CASE Ac!StoreRole(o) \/ Ac!SetKey(o) \/ Ac!DropKey(o)
  <2>1. acKey' \in [Name -> Ac!Role \cup {Ac!None}]
    BY <1>1, <1>2, AccountTypes DEF AccountTyped, Ac!StoreRole, Ac!SetKey, Ac!DropKey
  <2>2. UNCHANGED <<acGrp, acAll, acMoved>>
    BY <1>2 DEF Ac!StoreRole, Ac!SetKey, Ac!DropKey
  <2>3. \/ acOp' = [acOp EXCEPT ![o] = Ac!Idle]
        \/ acOp' = [acOp EXCEPT ![o] = [acOp[o] EXCEPT !.pc = "count"]]
    BY <1>2, AccountTypes DEF AccountTyped, Ac!StoreRole, Ac!SetKey, Ac!DropKey, Ac!Leave, Ac!Goto
  <2>4. acOp' \in [Op -> Carried]
    BY <2>3, Carries, OpTyped
  <2> QED BY <1>0, <2>1, <2>2, <2>4, AccountTypes DEF AccountTyped
<1>3. CASE Ac!Count(o)
  <2>1. Ac!Cardinality(Ac!Members(acOp[o].group)) \in 0..Cardinality(Id)
    BY MemberCount
  <2>2. acOp' = [acOp EXCEPT ![o] = [acOp[o] EXCEPT !.pc = "store",
                                 !.n = Ac!Cardinality(Ac!Members(acOp[o].group))]]
    BY <1>3, AccountTypes DEF AccountTyped, Ac!Count
  <2>3. acOp' \in [Op -> Carried]
    BY <2>1, <2>2, Carries, OpTyped
  <2> QED BY <1>0, <1>3, <2>3, AccountTypes DEF AccountTyped, Ac!Count
<1>4. CASE Ac!Store(o)
  <2>1. acOp' \in [Op -> Carried]
    BY <1>4, Carries, OpTyped DEF Ac!Store, Ac!Leave
  <2>2. acGrp' = [acGrp EXCEPT ![acOp[o].group].nums =
                    IF acGrp[acOp[o].group].state = "none" THEN @ ELSE acOp[o].n]
    BY <1>4 DEF Ac!Store
  <2>3. acGrp' \in [Group -> Grp0]
    BY <1>1, <2>2, AccountTypes DEF AccountTyped, Grp0
  <2> QED BY <1>0, <1>4, <2>1, <2>3, AccountTypes DEF AccountTyped, Ac!Store
<1>5. CASE Ac!ReadNames(o)
  <2>1. acOp' = [acOp EXCEPT ![o] = [acOp[o] EXCEPT !.pc = "clear", !.list = Ac!LiveGroups]]
    BY <1>5, AccountTypes DEF AccountTyped, Ac!ReadNames
  <2>2. acOp' \in [Op -> Carried]
    BY <2>1, Carries, OpTyped DEF Ac!LiveGroups
  <2> QED BY <1>0, <1>5, <2>2, AccountTypes DEF AccountTyped, Ac!ReadNames
<1>6. CASE Ac!ClearAll(o)
  <2>1. acOp' = [acOp EXCEPT ![o] = [acOp[o] EXCEPT !.pc = "fill"]]
    BY <1>6, AccountTypes DEF AccountTyped, Ac!ClearAll, Ac!Goto
  <2>2. acOp' \in [Op -> Carried]
    BY <2>1, Carries, OpTyped
  <2> QED BY <1>0, <1>6, <2>2, AccountTypes DEF AccountTyped, Ac!ClearAll
<1>7. CASE Ac!FillAll(o)
  <2>1. acOp' \in [Op -> Carried]
    BY <1>7, Carries, OpTyped DEF Ac!FillAll, Ac!Leave
  <2> QED BY <1>0, <1>1, <1>7, <2>1, AccountTypes DEF AccountTyped, Ac!FillAll
<1> QED BY <1>2, <1>3, <1>4, <1>5, <1>6, <1>7 DEF Follows

LEMMA AccountTypeNext == ASSUME Ac!TypeOK, Ac!Next \/ UNCHANGED ac PROVE Ac!TypeOK'
<1>1. AccountTyped'
  <2>1. CASE UNCHANGED ac
    BY <2>1, AccountTypes DEF ac, AccountTyped
  <2>2. ASSUME NEW o \in Op, NEW n \in Name, Ac!Login(o, n) PROVE AccountTyped'
    BY <2>2, AccountTypes, BeginTypes DEF Ac!Login, AccountTyped
  <2>3. ASSUME NEW o \in Op, NEW n \in Name, Ac!DelUser(o, n) PROVE AccountTyped'
    BY <2>3, AccountTypes, BeginTypes DEF Ac!DelUser, AccountTyped
  <2>4. ASSUME NEW o \in Op, NEW i \in Id, NEW n \in Name, NEW r \in Ac!Role, NEW g \in Group,
               Ac!AddUser(o, i, n, r, g) \/ Ac!UpdateUser(o, i, n, r, g)
        PROVE  AccountTyped'
    <3>1. UNCHANGED <<acKey, acGrp, acAll>>
      BY <2>4 DEF Ac!AddUser, Ac!UpdateUser
    <3> QED BY <2>4, <3>1, AccountTypes, BeginTypes DEF AccountTyped
  <2>5. ASSUME NEW o \in Op, NEW g \in Group, Ac!AddGroup(o, g) PROVE AccountTyped'
    BY <2>5, AccountTypes, GroupTypes DEF Ac!AddGroup, AccountTyped
  <2>6. ASSUME NEW o \in Op, NEW g \in Group, Ac!DelGroup(o, g) PROVE AccountTyped'
    BY <2>6, AccountTypes, GroupTypes DEF Ac!DelGroup, AccountTyped
  <2>7. ASSUME NEW o \in Op, NEW g \in Group, NEW h \in Group, Ac!RenameGroup(o, g, h)
        PROVE  AccountTyped'
    BY <2>7, AccountTypes, GroupTypes DEF Ac!RenameGroup, AccountTyped
  <2>8. ASSUME NEW o \in Op, Follows(o) PROVE AccountTyped'
    BY <2>8, AccountTypes, FollowTypes DEF AccountTyped
  <2> QED BY <2>1, <2>2, <2>3, <2>4, <2>5, <2>6, <2>7, <2>8 DEF Ac!Next, Follows
<1> QED BY <1>1, AccountCount DEF AccountTyped, Ac!TypeOK, Carried, Row0, Grp0

-----------------------------------------------------------------------------
(* Accounts: roles. *)

\* Two rows of one name are one row.
NamesUnique ==
    \A i, j \in Id : acRow[i].name \in Name /\ acRow[i].name = acRow[j].name => i = j

\* Requests under way at once concern different names and groups.
OpsApart ==
    /\ \A o \in Op : acOp[o].pc = "idle" => acOp[o] = Ac!Idle
    /\ \A o, q \in Op : o # q /\ acOp[o].name \in Name => acOp[q].name # acOp[o].name
    /\ \A o, q \in Op : o # q /\ acOp[o].group \in Group => acOp[q].group # acOp[o].group

\* What a request is about to do with the role key agrees with the row.
KeyReady(o) ==
    /\ acOp[o].pc \in {"role", "key"} =>
          \A i \in Id : acRow[i].name = acOp[o].name =>
             acRow[i].alive /\ acRow[i].role = acOp[o].role
    /\ acOp[o].pc = "drop" =>
          \A i \in Id : acRow[i].name = acOp[o].name => ~acRow[i].alive
    /\ acOp[o].pc \in {"role", "key", "drop"} => acOp[o].name \in Name

\* The role key of a name agrees with the row.
KeyRight(n) ==
    \A i \in Id : acRow[i].name = n =>
        IF acRow[i].alive THEN acKey[n] \in {Ac!None, acRow[i].role} ELSE acKey[n] = Ac!None

\* Nobody is about to write the role key of a name, logins aside.
KeyFree(n) == \A o \in Op : acOp[o].name = n => acOp[o].pc \notin {"key", "drop"}

RolesInv ==
    /\ Ac!TypeOK /\ NamesUnique /\ OpsApart
    /\ \A o \in Op : KeyReady(o)
    /\ \A n \in Name : KeyFree(n) => KeyRight(n)

\* What Carry stores.
Load(pc, n, r, g) == [Ac!Idle EXCEPT !.pc = pc, !.name = n, !.role = r, !.group = g]

LEMMA Loaded ==
  ASSUME NEW pc, NEW n, NEW r, NEW g
  PROVE  /\ Load(pc, n, r, g).pc = pc /\ Load(pc, n, r, g).name = n
         /\ Load(pc, n, r, g).group = g /\ Load(pc, n, r, g).role = r
  BY DEF Load, Ac!Idle

\* A request that begins carries what it said it would.
LEMMA ApartBegun ==
  ASSUME Ac!TypeOK, OpsApart, NEW o \in Op, NEW x \in Carried,
         NEW names, NEW groups, Ac!Begins(o, names, groups),
         acOp' = [acOp EXCEPT ![o] = x], x.pc # "idle",
         x.name \in names \cup {Ac!None}, x.group \in groups \cup {Ac!None}
  PROVE  OpsApart'
<1>1. \A q \in Op \ {o} : acOp[q].name \notin names /\ acOp[q].group \notin groups
  BY DEF Ac!Begins
<1>2. acOp \in [Op -> Carried]
  BY AccountTypes DEF AccountTyped
<1>3. acOp'[o] = x /\ \A q \in Op \ {o} : acOp'[q] = acOp[q]
  BY <1>2
<1>4. Ac!None \notin Name /\ Ac!None \notin Group
  BY AccountConstants
<1>5. \A q \in Op : acOp'[q].pc = "idle" => acOp'[q] = Ac!Idle
  BY <1>3 DEF OpsApart
<1>6. ASSUME NEW q \in Op, NEW u \in Op, q # u, acOp'[q].name \in Name
      PROVE  acOp'[u].name # acOp'[q].name
  BY <1>1, <1>3, <1>4, <1>6 DEF OpsApart
<1>7. ASSUME NEW q \in Op, NEW u \in Op, q # u, acOp'[q].group \in Group
      PROVE  acOp'[u].group # acOp'[q].group
  BY <1>1, <1>3, <1>4, <1>7 DEF OpsApart
<1> QED BY <1>5, <1>6, <1>7 DEF OpsApart

LEMMA LoadBegun ==
  ASSUME Ac!TypeOK, OpsApart, NEW o \in Op, NEW names, NEW groups, Ac!Begins(o, names, groups),
         NEW pc, NEW n, NEW r, NEW g, pc # "idle", Load(pc, n, r, g) \in Carried,
         n \in names \/ n = Ac!None, g \in groups \/ g = Ac!None,
         Ac!Carry(o, pc, n, r, g)
  PROVE  OpsApart'
<1>1. PICK x \in Carried : x = Load(pc, n, r, g)
  OBVIOUS
<1>2. x.pc # "idle" /\ x.name = n /\ x.group = g
  BY <1>1, Loaded
<1>3. acOp' = [acOp EXCEPT ![o] = x]
  BY <1>1 DEF Ac!Carry, Load
<1>4. x.name \in names \cup {Ac!None} /\ x.group \in groups \cup {Ac!None}
  BY <1>2
<1> QED BY ONLY <1>2, <1>3, <1>4, ApartBegun, Ac!TypeOK, OpsApart, x \in Carried, o \in Op,
                Ac!Begins(o, names, groups)

\* A request goes on or ends.
LEMMA ApartKept ==
  ASSUME Ac!TypeOK, OpsApart, NEW o \in Op, NEW x,
         acOp' = [acOp EXCEPT ![o] = x],
         \/ x = Ac!Idle
         \/ x.pc # "idle" /\ x.name = acOp[o].name /\ x.group = acOp[o].group
  PROVE  OpsApart'
<1>2. acOp \in [Op -> Carried]
  BY AccountTypes DEF AccountTyped
<1>3. acOp'[o] = x /\ \A q \in Op \ {o} : acOp'[q] = acOp[q]
  BY <1>2
<1>4. Ac!None \notin Name /\ Ac!None \notin Group
  BY AccountConstants
<1>5. x.name \in {acOp[o].name, Ac!None} /\ x.group \in {acOp[o].group, Ac!None}
  BY DEF Ac!Idle
<1>6. \A q \in Op : acOp'[q].pc = "idle" => acOp'[q] = Ac!Idle
  BY <1>3 DEF OpsApart
<1>7. ASSUME NEW q \in Op, NEW u \in Op, q # u, acOp'[q].name \in Name
      PROVE  acOp'[u].name # acOp'[q].name
  BY <1>3, <1>4, <1>5, <1>7 DEF OpsApart
<1>8. ASSUME NEW q \in Op, NEW u \in Op, q # u, acOp'[q].group \in Group
      PROVE  acOp'[u].group # acOp'[q].group
  BY <1>3, <1>4, <1>5, <1>8 DEF OpsApart
<1> QED BY <1>6, <1>7, <1>8 DEF OpsApart

\* What the requests that begin carry.
LEMMA BeginCarries ==
  ASSUME Ac!TypeOK, OpsApart, NEW o \in Op
  PROVE  /\ \A n \in Name : Ac!Login(o, n) \/ Ac!DelUser(o, n) => OpsApart'
         /\ \A i \in Id, n \in Name, r \in Ac!Role, g \in Group :
               Ac!AddUser(o, i, n, r, g) \/ Ac!UpdateUser(o, i, n, r, g) => OpsApart'
         /\ \A g \in Group : Ac!AddGroup(o, g) \/ Ac!DelGroup(o, g) => OpsApart'
         /\ \A g, h \in Group : Ac!RenameGroup(o, g, h) => OpsApart'
<1>2. ASSUME NEW n \in Name, Ac!Login(o, n) PROVE OpsApart'
  <2>1. PICK i \in Ac!Live(n) : Ac!Carry(o, "role", n, acRow[i].role, Ac!None)
    BY <1>2 DEF Ac!Login
  <2>2. Ac!Begins(o, {n}, {})
    BY <1>2 DEF Ac!Login
  <2>3. Load("role", n, acRow[i].role, Ac!None) \in Carried
    BY RowTyped, Carries DEF Ac!Live, Load
  <2> QED BY <2>1, <2>2, <2>3, LoadBegun
<1>3. ASSUME NEW n \in Name, Ac!DelUser(o, n) PROVE OpsApart'
  <2>1. PICK i \in Ac!Live(n) : Ac!Carry(o, "drop", n, Ac!None, acRow[i].group)
    BY <1>3 DEF Ac!DelUser
  <2>2. PICK groups : Ac!Begins(o, {n}, groups) /\ acRow[i].group \in groups
    BY <1>3 DEF Ac!DelUser
  <2>3. Load("drop", n, Ac!None, acRow[i].group) \in Carried
    BY RowTyped, Carries DEF Ac!Live, Load
  <2> QED BY <2>1, <2>2, <2>3, LoadBegun
<1>4. ASSUME NEW i \in Id, NEW n \in Name, NEW r \in Ac!Role, NEW g \in Group,
             Ac!AddUser(o, i, n, r, g) \/ Ac!UpdateUser(o, i, n, r, g)
      PROVE  OpsApart'
  <2>1. Ac!Carry(o, "key", n, r, g)
    BY <1>4 DEF Ac!AddUser, Ac!UpdateUser
  <2>2. \/ Ac!Begins(o, {n}, {g})
        \/ Ac!Begins(o, {n, acRow[i].name}, {g, acRow[i].group})
    BY <1>4 DEF Ac!AddUser, Ac!UpdateUser
  <2>3. Load("key", n, r, g) \in Carried
    BY Carries DEF Load
  <2> QED BY <2>1, <2>2, <2>3, LoadBegun
<1>5. ASSUME NEW g \in Group, Ac!AddGroup(o, g) PROVE OpsApart'
  BY <1>5 DEF Ac!AddGroup, OpsApart
<1>6. ASSUME NEW g \in Group, NEW h \in Group,
             Ac!DelGroup(o, h) \/ Ac!RenameGroup(o, g, h)
      PROVE  OpsApart'
  <2>1. Ac!Carry(o, "names", Ac!None, Ac!None, h)
    BY <1>6 DEF Ac!DelGroup, Ac!RenameGroup
  <2>2. Ac!Begins(o, {}, {h}) \/ Ac!Begins(o, {}, {g, h})
    BY <1>6 DEF Ac!DelGroup, Ac!RenameGroup
  <2>3. Load("names", Ac!None, Ac!None, h) \in Carried
    BY Carries DEF Load
  <2> QED BY <2>1, <2>2, <2>3, LoadBegun
<1> QED BY <1>2, <1>3, <1>4, <1>5, <1>6

\* What the rest of a request carries.
LEMMA FollowCarries ==
  ASSUME Ac!TypeOK, OpsApart, NEW o \in Op, Follows(o)
  PROVE  OpsApart'
<1>1. acOp[o] \in Carried
  BY AccountTypes DEF AccountTyped
<1>2. ASSUME NEW x, acOp' = [acOp EXCEPT ![o] = x], x.pc # "idle",
             x.name = acOp[o].name, x.group = acOp[o].group
      PROVE  OpsApart'
  BY <1>2, ApartKept
<1>3. CASE Ac!StoreRole(o) \/ Ac!Store(o) \/ Ac!FillAll(o)
  BY <1>3, ApartKept DEF Ac!StoreRole, Ac!Store, Ac!FillAll, Ac!Leave
<1>4. CASE Ac!SetKey(o) \/ Ac!DropKey(o) \/ Ac!ClearAll(o)
  <2>1. PICK pc \in {"count", "fill"} : acOp' = [acOp EXCEPT ![o] = [acOp[o] EXCEPT !.pc = pc]]
    BY <1>4, AccountTypes DEF AccountTyped, Ac!SetKey, Ac!DropKey, Ac!ClearAll, Ac!Goto
  <2>2. PICK x : x = [acOp[o] EXCEPT !.pc = pc]
    OBVIOUS
  <2>3. x.pc = pc /\ x.name = acOp[o].name /\ x.group = acOp[o].group
    BY <1>1, <2>2 DEF Carried
  <2> QED BY ONLY <1>2, <2>1, <2>2, <2>3, pc \in {"count", "fill"}
<1>5. CASE Ac!Count(o)
  <2>1. PICK x : /\ acOp' = [acOp EXCEPT ![o] = x]
                 /\ x = [acOp[o] EXCEPT !.pc = "store",
                                 !.n = Ac!Cardinality(Ac!Members(acOp[o].group))]
    BY <1>5, AccountTypes DEF AccountTyped, Ac!Count
  <2>2. x.pc = "store" /\ x.name = acOp[o].name /\ x.group = acOp[o].group
    BY <1>1, <2>1 DEF Carried
  <2> QED BY ONLY <1>2, <2>1, <2>2
<1>6. CASE Ac!ReadNames(o)
  <2>1. PICK x : /\ acOp' = [acOp EXCEPT ![o] = x]
                 /\ x = [acOp[o] EXCEPT !.pc = "clear", !.list = Ac!LiveGroups]
    BY <1>6, AccountTypes DEF AccountTyped, Ac!ReadNames
  <2>2. x.pc = "clear" /\ x.name = acOp[o].name /\ x.group = acOp[o].group
    BY <1>1, <2>1 DEF Carried
  <2> QED BY ONLY <1>2, <2>1, <2>2
<1> QED BY <1>3, <1>4, <1>5, <1>6 DEF Follows

\* What a request sees of a row.
SameRow(i) ==
    /\ acRow'[i].name = acRow[i].name /\ acRow'[i].role = acRow[i].role
    /\ acRow'[i].alive = acRow[i].alive

\* Nothing but the rows of these names changes.
Touches(names) ==
    \A i \in Id : SameRow(i) \/ (acRow[i].name \in names \cup {Ac!None} /\ acRow'[i].name \in names)

\* A request of another name stays ready, and the role key of another name right.
LEMMA ReadyElsewhere ==
  ASSUME NEW names, Touches(names), NEW q \in Op, KeyReady(q), acOp'[q] = acOp[q],
         acOp[q].name \notin names
  PROVE  KeyReady(q)'
  BY DEF KeyReady, Touches, SameRow

LEMMA RightElsewhere ==
  ASSUME NEW names, Touches(names), NEW n, n \notin names, KeyRight(n), acKey'[n] = acKey[n]
  PROVE  KeyRight(n)'
  BY DEF KeyRight, Touches, SameRow

\* A request that begins: the other requests and names.
LEMMA BeginElsewhere ==
  ASSUME RolesInv, NEW o \in Op, NEW names, NEW groups, Ac!Begins(o, names, groups),
         Touches(names), acKey' = acKey, NEW x, acOp' = [acOp EXCEPT ![o] = x]
  PROVE  /\ \A q \in Op \ {o} : KeyReady(q)'
         /\ \A n \in Name \ names : KeyFree(n)' => KeyRight(n)'
<1>1. acOp \in [Op -> Carried]
  BY AccountTypes DEF RolesInv, AccountTyped
<1>2. \A q \in Op \ {o} : acOp'[q] = acOp[q] /\ acOp[q].name \notin names
  BY <1>1 DEF Ac!Begins
<1>3. \A q \in Op \ {o} : KeyReady(q)'
  BY <1>2, ReadyElsewhere DEF RolesInv
<1>4. ASSUME NEW n \in Name \ names, KeyFree(n)' PROVE KeyRight(n)'
  <2>1. acOp[o].pc = "idle"
    BY DEF Ac!Begins
  <2>2. KeyFree(n)
    BY <1>2, <1>4, <2>1 DEF KeyFree
  <2>3. KeyRight(n)
    BY <2>2 DEF RolesInv
  <2> QED BY <2>3, RightElsewhere
<1> QED BY <1>3, <1>4

\* The requests that begin, and what they make of their own name.
LEMMA LoginRoles ==
  ASSUME RolesInv, NEW o \in Op, NEW n \in Name, Ac!Login(o, n)
  PROVE  NamesUnique' /\ (\A q \in Op : KeyReady(q)') /\ \A m \in Name : KeyFree(m)' => KeyRight(m)'
<1>1. acOp \in [Op -> Carried] /\ acRow' = acRow /\ acKey' = acKey
  BY AccountTypes DEF RolesInv, AccountTyped, Ac!Login
<1>2. PICK i \in Ac!Live(n) : Ac!Carry(o, "role", n, acRow[i].role, Ac!None)
  BY DEF Ac!Login
<1>3. acOp' = [acOp EXCEPT ![o] = Load("role", n, acRow[i].role, Ac!None)]
  BY <1>2 DEF Ac!Carry, Load
<1>4. Touches({}) /\ Touches({n})
  BY <1>1 DEF Touches, SameRow
<1>5. Ac!Begins(o, {n}, {}) /\ Ac!Begins(o, {}, {})
  BY DEF Ac!Login, Ac!Begins
<1>6. \A q \in Op \ {o} : KeyReady(q)'
  BY <1>1, <1>3, <1>4, <1>5, BeginElsewhere
<1>7. \A m \in Name : KeyFree(m)' => KeyRight(m)'
  <2>1. \A m \in Name \ {} : KeyFree(m)' => KeyRight(m)'
    BY <1>1, <1>3, <1>4, <1>5, BeginElsewhere
  <2> QED BY <2>1
<1>8. KeyReady(o)'
  <2>1. acOp'[o].pc = "role" /\ acOp'[o].name = n /\ acOp'[o].role = acRow[i].role
    BY <1>1, <1>3, Loaded
  <2>2. i \in Id /\ acRow[i].name = n /\ acRow[i].alive
    BY DEF Ac!Live
  <2>3. \A j \in Id : acRow[j].name = n => j = i
    BY <2>2 DEF RolesInv, NamesUnique
  <2> QED BY <1>1, <2>1, <2>2, <2>3 DEF KeyReady
<1> QED BY <1>1, <1>6, <1>7, <1>8 DEF NamesUnique, RolesInv

LEMMA DelUserRoles ==
  ASSUME RolesInv, NEW o \in Op, NEW n \in Name, Ac!DelUser(o, n)
  PROVE  NamesUnique' /\ (\A q \in Op : KeyReady(q)') /\ \A m \in Name : KeyFree(m)' => KeyRight(m)'
<1>1. acOp \in [Op -> Carried] /\ acRow \in [Id -> Row0] /\ acKey' = acKey
  BY AccountTypes DEF RolesInv, AccountTyped, Ac!DelUser
<1>2. PICK i \in Ac!Live(n) :
         /\ acRow' = [acRow EXCEPT ![i].alive = FALSE]
         /\ Ac!Carry(o, "drop", n, Ac!None, acRow[i].group)
  BY DEF Ac!DelUser
<1>3. acOp' = [acOp EXCEPT ![o] = Load("drop", n, Ac!None, acRow[i].group)]
  BY <1>2 DEF Ac!Carry, Load
<1>4. i \in Id /\ acRow[i].name = n /\ acRow[i].alive
  BY DEF Ac!Live
<1>5. acRow[i] \in Ac!Row
  BY <1>4, RowTyped DEF RolesInv
<1>6. acRow'[i].name = n /\ acRow'[i].alive = FALSE
  BY <1>1, <1>2, <1>4, <1>5 DEF Ac!Row
<1>7. \A j \in Id \ {i} : acRow'[j] = acRow[j]
  BY <1>1, <1>2
<1>8. Touches({n})
  BY <1>4, <1>6, <1>7 DEF Touches, SameRow
<1>9. PICK groups : Ac!Begins(o, {n}, groups)
  BY DEF Ac!DelUser
<1>10. /\ \A q \in Op \ {o} : KeyReady(q)'
       /\ \A m \in Name \ {n} : KeyFree(m)' => KeyRight(m)'
  BY <1>1, <1>3, <1>8, <1>9, BeginElsewhere
<1>11. acOp'[o].pc = "drop" /\ acOp'[o].name = n
  BY <1>1, <1>3, Loaded
<1>12. NamesUnique'
  BY <1>4, <1>6, <1>7 DEF NamesUnique, RolesInv
<1>13. KeyReady(o)'
  <2>1. \A j \in Id : acRow'[j].name = n => j = i
    BY <1>4, <1>6, <1>12 DEF NamesUnique
  <2> QED BY <1>6, <1>11, <2>1 DEF KeyReady
<1>14. ~KeyFree(n)'
  BY <1>11 DEF KeyFree
<1> QED BY <1>10, <1>12, <1>13, <1>14

LEMMA SaveRoles ==
  ASSUME RolesInv, NEW o \in Op, NEW i \in Id, NEW n \in Name, NEW r \in Ac!Role, NEW g \in Group,
         Ac!AddUser(o, i, n, r, g) \/ Ac!UpdateUser(o, i, n, r, g)
  PROVE  NamesUnique' /\ (\A q \in Op : KeyReady(q)') /\ \A m \in Name : KeyFree(m)' => KeyRight(m)'
<1>1. acOp \in [Op -> Carried] /\ acRow \in [Id -> Row0] /\ acKey' = acKey
  BY AccountTypes DEF RolesInv, AccountTyped, Ac!AddUser, Ac!UpdateUser
<1>2. Ac!Carry(o, "key", n, r, g)
  BY DEF Ac!AddUser, Ac!UpdateUser
<1>3. acOp' = [acOp EXCEPT ![o] = Load("key", n, r, g)]
  BY <1>2 DEF Ac!Carry, Load
<1>4. /\ acRow'[i].name = n /\ acRow'[i].role = r /\ acRow'[i].alive = TRUE
      /\ \A j \in Id \ {i} : acRow'[j] = acRow[j] /\ acRow[j].name # n
  <2>1. CASE Ac!AddUser(o, i, n, r, g)
    BY <1>1, <2>1 DEF Ac!AddUser, Ac!Used
  <2>2. CASE Ac!UpdateUser(o, i, n, r, g)
    <3>1. acRow[i].alive = TRUE
      BY <2>2, RowTyped DEF Ac!UpdateUser, RolesInv
    <3> QED BY <1>1, <2>2, <3>1 DEF Ac!UpdateUser
  <2> QED BY <2>1, <2>2
<1>5. PICK names, groups : /\ Ac!Begins(o, names, groups) /\ n \in names
                           /\ acRow[i].name \in names \cup {Ac!None}
                           /\ names \subseteq {n, acRow[i].name}
  <2>1. CASE Ac!AddUser(o, i, n, r, g)
    <3>1. Ac!Begins(o, {n}, {g}) /\ acRow[i].name = Ac!None
      BY <2>1 DEF Ac!AddUser, Ac!NoRow
    <3> QED BY <3>1
  <2>2. CASE Ac!UpdateUser(o, i, n, r, g)
    <3>1. Ac!Begins(o, {n, acRow[i].name}, {g, acRow[i].group})
      BY <2>2 DEF Ac!UpdateUser
    <3> QED BY <3>1
  <2> QED BY <2>1, <2>2
<1>6. Touches(names)
  BY <1>4, <1>5 DEF Touches, SameRow
<1>7. /\ \A q \in Op \ {o} : KeyReady(q)'
      /\ \A m \in Name \ names : KeyFree(m)' => KeyRight(m)'
  BY <1>1, <1>3, <1>5, <1>6, BeginElsewhere
<1>8. acOp'[o].pc = "key" /\ acOp'[o].name = n /\ acOp'[o].role = r
  BY <1>1, <1>3, Loaded
<1>9. NamesUnique'
  BY <1>4 DEF NamesUnique, RolesInv
<1>10. KeyReady(o)'
  BY <1>4, <1>8 DEF KeyReady
<1>11. ~KeyFree(n)'
  BY <1>8 DEF KeyFree
<1>12. ASSUME NEW m \in Name, m \in names, m # n PROVE KeyRight(m)'
  <2>1. acRow[i].name = m
    BY <1>5, <1>12
  <2>2. \A j \in Id : acRow'[j].name # m
    BY <1>4, <1>12, <2>1 DEF NamesUnique, RolesInv
  <2> QED BY <2>2 DEF KeyRight
<1> QED BY <1>7, <1>9, <1>10, <1>11, <1>12

LEMMA GroupRoles ==
  ASSUME RolesInv, NEW o \in Op, NEW g \in Group, NEW h \in Group,
         Ac!AddGroup(o, h) \/ Ac!DelGroup(o, h) \/ Ac!RenameGroup(o, g, h)
  PROVE  NamesUnique' /\ (\A q \in Op : KeyReady(q)') /\ \A m \in Name : KeyFree(m)' => KeyRight(m)'
<1>1. acOp \in [Op -> Carried] /\ acRow \in [Id -> Row0] /\ acKey' = acKey
  BY AccountTypes DEF RolesInv, AccountTyped, Ac!AddGroup, Ac!DelGroup, Ac!RenameGroup
<1>2. \A i \in Id : SameRow(i)
  <2>1. CASE Ac!AddGroup(o, h) \/ Ac!DelGroup(o, h)
    BY <2>1 DEF Ac!AddGroup, Ac!DelGroup, SameRow
  <2>2. CASE Ac!RenameGroup(o, g, h)
    <3> SUFFICES ASSUME NEW i \in Id PROVE SameRow(i)
      OBVIOUS
    <3>1. acRow'[i] = IF acRow[i].group = g /\ acRow[i].alive
                      THEN [acRow[i] EXCEPT !.group = h] ELSE acRow[i]
      BY <2>2 DEF Ac!RenameGroup
    <3>2. CASE acRow[i].alive
      <4>1. acRow[i] \in Ac!Row
        BY <3>2, RowTyped DEF RolesInv
      <4> QED BY <3>1, <4>1 DEF Ac!Row, SameRow
    <3>3. CASE ~acRow[i].alive
      BY <3>1, <3>3 DEF SameRow
    <3> QED BY <3>2, <3>3
  <2> QED BY <2>1, <2>2
<1>3. Touches({})
  BY <1>2 DEF Touches
<1>4. Ac!Begins(o, {}, {})
  BY DEF Ac!AddGroup, Ac!DelGroup, Ac!RenameGroup, Ac!Begins
<1>5. PICK x : acOp' = [acOp EXCEPT ![o] = x] /\ x.pc \notin {"role", "key", "drop"}
  <2>1. CASE Ac!AddGroup(o, h)
    <3>1. acOp' = [acOp EXCEPT ![o] = acOp[o]]
      BY <1>1, <2>1 DEF Ac!AddGroup
    <3>2. acOp[o].pc = "idle"
      BY <1>4 DEF Ac!Begins
    <3> QED BY <3>1, <3>2
  <2>2. CASE Ac!DelGroup(o, h) \/ Ac!RenameGroup(o, g, h)
    <3>1. acOp' = [acOp EXCEPT ![o] = Load("names", Ac!None, Ac!None, h)]
      BY <2>2 DEF Ac!DelGroup, Ac!RenameGroup, Ac!Carry, Load
    <3>2. Load("names", Ac!None, Ac!None, h).pc = "names"
      BY Loaded
    <3> QED BY <3>1, <3>2
  <2> QED BY <2>1, <2>2
<1>6. /\ \A q \in Op \ {o} : KeyReady(q)'
      /\ \A m \in Name \ {} : KeyFree(m)' => KeyRight(m)'
  BY <1>1, <1>3, <1>4, <1>5, BeginElsewhere
<1>7. acOp'[o] = x
  BY <1>1, <1>5
<1>8. KeyReady(o)'
  BY <1>5, <1>7 DEF KeyReady
<1>9. NamesUnique'
  BY <1>2 DEF NamesUnique, RolesInv, SameRow
<1> QED BY <1>6, <1>8, <1>9

LEMMA FollowRoles ==
  ASSUME RolesInv, NEW o \in Op, Follows(o)
  PROVE  NamesUnique' /\ (\A q \in Op : KeyReady(q)') /\ \A m \in Name : KeyFree(m)' => KeyRight(m)'
<1>1. /\ acOp \in [Op -> Carried] /\ acRow \in [Id -> Row0]
      /\ acKey \in [Name -> Ac!Role \cup {Ac!None}]
  BY AccountTypes DEF RolesInv, AccountTyped
<1>2. acRow' = acRow
  BY FollowTypes DEF RolesInv
<1>3. Touches({})
  BY <1>2 DEF Touches, SameRow
<1>4. \A q \in Op \ {o} : acOp'[q] = acOp[q]
  BY <1>1 DEF Follows, Ac!StoreRole, Ac!SetKey, Ac!DropKey, Ac!Count, Ac!Store, Ac!ReadNames,
              Ac!ClearAll, Ac!FillAll, Ac!Goto, Ac!Leave
<1>5. acOp'[o].pc \notin {"role", "key", "drop"}
  BY <1>1 DEF Follows, Ac!StoreRole, Ac!SetKey, Ac!DropKey, Ac!Count, Ac!Store, Ac!ReadNames,
              Ac!ClearAll, Ac!FillAll, Ac!Goto, Ac!Leave, Ac!Idle, Carried
<1>6. \A q \in Op : KeyReady(q)'
  <2>1. KeyReady(o)'
    BY <1>5 DEF KeyReady
  <2>2. \A q \in Op \ {o} : KeyReady(q)'
    BY <1>3, <1>4, ReadyElsewhere DEF RolesInv
  <2> QED BY <2>1, <2>2
<1>7. ASSUME NEW m \in Name, KeyFree(m)' PROVE KeyRight(m)'
  <2>1. CASE acOp[o].pc \notin {"role", "key", "drop"}
    <3>1. acKey' = acKey
      BY <2>1 DEF Follows, Ac!StoreRole, Ac!SetKey, Ac!DropKey, Ac!Count, Ac!Store,
                  Ac!ReadNames, Ac!ClearAll, Ac!FillAll
    <3>2. KeyFree(m)
      BY <1>4, <1>7, <2>1 DEF KeyFree
    <3> QED BY <1>3, <3>1, <3>2, RightElsewhere DEF RolesInv
  <2>2. CASE acOp[o].pc \in {"role", "key", "drop"}
    <3>1. acKey' = [acKey EXCEPT ![acOp[o].name] =
                       IF acOp[o].pc = "drop" THEN Ac!None ELSE acOp[o].role]
      BY <2>2 DEF Follows, Ac!StoreRole, Ac!SetKey, Ac!DropKey, Ac!Count, Ac!Store,
                  Ac!ReadNames, Ac!ClearAll, Ac!FillAll
    <3>2. CASE acOp[o].name = m
      <4>1. KeyReady(o)
        BY DEF RolesInv
      <4>2. acKey'[m] = IF acOp[o].pc = "drop" THEN Ac!None ELSE acOp[o].role
        BY <1>1, <3>1, <3>2
      <4> QED BY <1>2, <2>2, <3>2, <4>1, <4>2 DEF KeyReady, KeyRight
    <3>3. CASE acOp[o].name # m
      <4>1. KeyFree(m)
        BY <1>4, <1>7, <3>3 DEF KeyFree
      <4>2. acKey'[m] = acKey[m]
        BY <1>1, <3>1, <3>3
      <4> QED BY <1>3, <4>1, <4>2, RightElsewhere DEF RolesInv
    <3> QED BY <3>2, <3>3
  <2> QED BY <2>1, <2>2
<1> QED BY <1>2, <1>6, <1>7 DEF NamesUnique, RolesInv

LEMMA RolesInit == Ac!Init => RolesInv
<1> SUFFICES ASSUME Ac!Init PROVE RolesInv
  OBVIOUS
<1>1. Ac!TypeOK
  BY AccountTypeInit
<1>2. \A o \in Op : acOp[o] = Ac!Idle
  BY DEF Ac!Init
<1>3. Ac!Idle.pc = "idle" /\ Ac!Idle.name = Ac!None /\ Ac!Idle.group = Ac!None
  BY DEF Ac!Idle
<1>4. OpsApart /\ \A o \in Op : KeyReady(o)
  BY <1>2, <1>3, AccountConstants DEF OpsApart, KeyReady
<1>5. NamesUnique
  BY AccountConstants DEF Ac!Init, NamesUnique, Ac!NoRow
<1>6. \A n \in Name : KeyRight(n)
  BY DEF Ac!Init, KeyRight, Ac!NoRow
<1> QED BY <1>1, <1>4, <1>5, <1>6 DEF RolesInv

LEMMA RolesNext == ASSUME RolesInv, Ac!Next \/ UNCHANGED ac PROVE RolesInv'
<1> DEFINE Right == /\ NamesUnique /\ OpsApart /\ \A q \in Op : KeyReady(q)
                    /\ \A m \in Name : KeyFree(m) => KeyRight(m)
<1>0. Ac!TypeOK /\ OpsApart
  BY DEF RolesInv
<1>1. Ac!TypeOK'
  BY <1>0, AccountTypeNext
<1>2. CASE UNCHANGED ac
  BY <1>2, <1>1 DEF ac, RolesInv, NamesUnique, OpsApart, KeyReady, KeyFree, KeyRight
<1>3. ASSUME NEW o \in Op, NEW n \in Name, Ac!Login(o, n) \/ Ac!DelUser(o, n) PROVE Right'
  BY <1>0, <1>3, LoginRoles, DelUserRoles, BeginCarries
<1>4. ASSUME NEW o \in Op, NEW i \in Id, NEW n \in Name, NEW r \in Ac!Role, NEW g \in Group,
             Ac!AddUser(o, i, n, r, g) \/ Ac!UpdateUser(o, i, n, r, g)
      PROVE  Right'
  BY <1>0, <1>4, SaveRoles, BeginCarries
<1>5. ASSUME NEW o \in Op, NEW g \in Group, NEW h \in Group,
             Ac!AddGroup(o, h) \/ Ac!DelGroup(o, h) \/ Ac!RenameGroup(o, g, h)
      PROVE  Right'
  BY <1>0, <1>5, GroupRoles, BeginCarries
<1>6. ASSUME NEW o \in Op, Follows(o) PROVE Right'
  BY <1>0, <1>6, FollowRoles, FollowCarries
<1>7. Right' \/ UNCHANGED ac
  BY <1>3, <1>4, <1>5, <1>6 DEF Ac!Next, Follows
<1> QED BY <1>1, <1>2, <1>7 DEF RolesInv

\* When nothing about an account is under way its role key says what its row says, and of
\* a deleted account it says nothing - for any accounts, names and groups, while requests
\* under way at once concern different names (login_dl, host_add, host_del and
\* update of users/user.py, each of which commits the row and writes the key later).
THEOREM RolesFromRows == AllSpec => []RoleFromRow
<1> DEFINE Inv == part = "accounts" => RolesInv
<1>1. AllInit => Inv
  BY RolesInit DEF AllInit
<1>2. Inv /\ [AllNext]_everything => Inv'
  <2> SUFFICES ASSUME Inv, [AllNext]_everything, part' = "accounts" PROVE RolesInv'
    OBVIOUS
  <2>1. part = "accounts" /\ (Ac!Next \/ UNCHANGED ac)
    BY DEF AllNext, everything
  <2> QED BY <2>1, RolesNext
<1>3. Inv => RoleFromRow
  <2> SUFFICES ASSUME RolesInv, NEW i \in Id, acRow[i] # Ac!NoRow, Ac!Quiet(acRow[i].name)
               PROVE  IF acRow[i].alive THEN acKey[acRow[i].name] \in {Ac!None, acRow[i].role}
                                        ELSE acKey[acRow[i].name] = Ac!None
    BY DEF RoleFromRow, Ac!RoleFromRow
  <2>1. acRow[i].name \in Name
    BY RowTyped DEF RolesInv
  <2>2. KeyFree(acRow[i].name)
    BY DEF Ac!Quiet, KeyFree
  <2> QED BY <2>1, <2>2 DEF RolesInv, KeyRight
<1> HIDE DEF Inv
<1> QED BY <1>1, <1>2, <1>3, PTL DEF AllSpec

-----------------------------------------------------------------------------
(* Accounts: groups. *)

Refreshing == {"names", "clear", "fill"}

\* What a request is about to store is the number of the accounts.
StoreReady(o) ==
    /\ acOp[o].pc = "store" => acOp[o].n = Ac!Cardinality(Ac!Members(acOp[o].group))
    /\ acOp[o].pc = "role" => acOp[o].group = Ac!None
    /\ acOp[o].pc \in {"key", "drop", "count", "store"} => acOp[o].group \in Group

\* Nobody is about to count a group.
GroupFree(g) == \A o \in Op : acOp[o].group = g => acOp[o].pc \in Refreshing

GroupCounted(g) ==
    acGrp[g].state = "live" /\ g \notin acMoved =>
        acGrp[g].nums = Ac!Cardinality(Ac!Members(g))

CountsInv ==
    /\ \A o \in Op : StoreReady(o)
    /\ \A g \in Group : GroupFree(g) => GroupCounted(g)

\* One request at most refreshes "all permissions", with names of live groups.
ListInv ==
    /\ \A o, q \in Op : acOp[o].pc \in Refreshing /\ acOp[q].pc \in Refreshing => o = q
    /\ \A o \in Op : acOp[o].pc \in {"clear", "fill"} => acOp[o].list \subseteq Ac!LiveGroups
    /\ \A o \in Op : acOp[o].pc = "fill" => acAll \subseteq Ac!LiveGroups
    /\ (\A o \in Op : acOp[o].pc \notin Refreshing) => acAll \subseteq Ac!LiveGroups

GroupsInv == Ac!TypeOK /\ OpsApart /\ CountsInv /\ ListInv

\* Nothing of another group changes.
TouchesGroups(groups) ==
    \A g \in Group \ groups :
        /\ Ac!Members(g)' = Ac!Members(g) /\ acGrp'[g] = acGrp[g]
        /\ g \in acMoved' => g \in acMoved
        /\ g \in acMoved => g \in acMoved'

\* A request that begins: the other requests and groups.
LEMMA CountElsewhere ==
  ASSUME GroupsInv, NEW o \in Op, NEW names, NEW groups, Ac!Begins(o, names, groups),
         TouchesGroups(groups), NEW x, acOp' = [acOp EXCEPT ![o] = x]
  PROVE  /\ \A q \in Op \ {o} : StoreReady(q)'
         /\ \A g \in Group \ groups : GroupFree(g)' => GroupCounted(g)'
         /\ \A g \in groups \cap Group : GroupFree(g)
<1>1. acOp \in [Op -> Carried]
  BY AccountTypes DEF GroupsInv, AccountTyped
<1>2. \A q \in Op \ {o} : acOp'[q] = acOp[q] /\ acOp[q].group \notin groups
  BY <1>1 DEF Ac!Begins
<1>3. acOp[o].pc = "idle" /\ acOp[o].group = Ac!None
  BY DEF Ac!Begins, GroupsInv, OpsApart, Ac!Idle
<1>4. ASSUME NEW q \in Op \ {o} PROVE StoreReady(q)'
  <2>1. StoreReady(q) /\ acOp[q].group \in Group \cup {Ac!None}
    BY <1>1 DEF GroupsInv, CountsInv, Carried
  <2>2. CASE acOp[q].group \in Group
    <3>1. Ac!Members(acOp[q].group)' = Ac!Members(acOp[q].group)
      <4>1. \A g \in Group \ groups : Ac!Members(g)' = Ac!Members(g)
        BY DEF TouchesGroups
      <4>2. acOp'[q].group = acOp[q].group
        BY <1>2
      <4> QED BY <1>2, <2>2, <4>1, <4>2 DEF Ac!Members
    <3> QED BY <1>2, <2>1, <3>1 DEF StoreReady
  <2>3. CASE acOp[q].group = Ac!None
    <3>1. acOp'[q] = acOp[q]
      BY <1>2
    <3> QED BY <2>1, <2>3, <3>1, AccountConstants DEF StoreReady
  <2> QED BY <2>1, <2>2, <2>3
<1>5. ASSUME NEW g \in Group \ groups, GroupFree(g)' PROVE GroupCounted(g)'
  <2>1. GroupFree(g)
    BY <1>2, <1>3, <1>5, AccountConstants DEF GroupFree
  <2>2. GroupCounted(g)
    BY <2>1 DEF GroupsInv, CountsInv
  <2> QED BY <2>2 DEF GroupCounted, TouchesGroups
<1>6. \A g \in groups \cap Group : GroupFree(g)
  BY <1>2, <1>3, AccountConstants DEF GroupFree
<1> QED BY <1>4, <1>5, <1>6

\* The members of a group when one row changes.
LEMMA MembersElsewhere ==
  ASSUME NEW i \in Id, \A j \in Id \ {i} : acRow'[j] = acRow[j], NEW g,
         acRow[i].group # g \/ ~acRow[i].alive, acRow'[i].group # g \/ ~acRow'[i].alive
  PROVE  Ac!Members(g)' = Ac!Members(g)
  BY DEF Ac!Members

LEMMA LoginCounts ==
  ASSUME GroupsInv, NEW o \in Op, NEW n \in Name, Ac!Login(o, n) PROVE CountsInv'
<1>1. UNCHANGED <<acRow, acGrp, acMoved>> /\ acOp \in [Op -> Carried]
  BY AccountTypes DEF GroupsInv, AccountTyped, Ac!Login
<1>2. PICK r : acOp' = [acOp EXCEPT ![o] = Load("role", n, r, Ac!None)]
  BY DEF Ac!Login, Ac!Carry, Load
<1>3. Ac!Begins(o, {n}, {})
  BY DEF Ac!Login
<1>4. TouchesGroups({})
  BY <1>1 DEF TouchesGroups, Ac!Members
<1>5. /\ \A q \in Op \ {o} : StoreReady(q)'
      /\ \A g \in Group \ {} : GroupFree(g)' => GroupCounted(g)'
  BY <1>2, <1>3, <1>4, CountElsewhere
<1>6. acOp'[o].pc = "role" /\ acOp'[o].group = Ac!None
  BY <1>1, <1>2, Loaded
<1>7. StoreReady(o)'
  BY <1>6 DEF StoreReady
<1> QED BY <1>5, <1>7 DEF CountsInv

LEMMA DelUserCounts ==
  ASSUME GroupsInv, NEW o \in Op, NEW n \in Name, Ac!DelUser(o, n) PROVE CountsInv'
<1>1. /\ UNCHANGED <<acGrp, acMoved>> /\ acOp \in [Op -> Carried]
      /\ acRow \in [Id -> Row0]
  BY AccountTypes DEF GroupsInv, AccountTyped, Ac!DelUser
<1>2. PICK i \in Ac!Live(n) :
         /\ acRow' = [acRow EXCEPT ![i].alive = FALSE]
         /\ Ac!Carry(o, "drop", n, Ac!None, acRow[i].group)
  BY DEF Ac!DelUser
<1>3. acOp' = [acOp EXCEPT ![o] = Load("drop", n, Ac!None, acRow[i].group)]
  BY <1>2 DEF Ac!Carry, Load
<1>4. i \in Id /\ acRow[i].alive
  BY DEF Ac!Live
<1>5. acRow[i] \in Ac!Row
  BY <1>4, RowTyped DEF GroupsInv
<1>0. PICK g : g = acRow[i].group
  OBVIOUS
<1>6. acRow'[i].alive = FALSE /\ g \in Group
  BY <1>0, <1>1, <1>2, <1>4, <1>5 DEF Ac!Row
<1>7. \A j \in Id \ {i} : acRow'[j] = acRow[j]
  BY <1>1, <1>2
<1>8. Ac!Begins(o, {n}, {g})
  BY <1>0 DEF Ac!DelUser, Ac!Begins
<1>9. TouchesGroups({g})
  <2>1. \A h \in Group \ {g} : Ac!Members(h)' = Ac!Members(h)
    BY <1>0, <1>4, <1>6, <1>7, MembersElsewhere
  <2> QED BY <1>1, <2>1 DEF TouchesGroups
<1>10. /\ \A q \in Op \ {o} : StoreReady(q)'
       /\ \A h \in Group \ {g} : GroupFree(h)' => GroupCounted(h)'
  BY <1>0, <1>3, <1>8, <1>9, CountElsewhere
<1>11. acOp'[o].pc = "drop" /\ acOp'[o].group = g
  BY <1>0, <1>1, <1>3, Loaded
<1>12. StoreReady(o)'
  BY <1>6, <1>11 DEF StoreReady
<1>13. ~GroupFree(g)'
  BY <1>11 DEF GroupFree, Refreshing
<1> QED BY <1>10, <1>12, <1>13 DEF CountsInv

LEMMA SaveCounts ==
  ASSUME GroupsInv, NEW o \in Op, NEW i \in Id, NEW n \in Name, NEW r \in Ac!Role, NEW g \in Group,
         Ac!AddUser(o, i, n, r, g) \/ Ac!UpdateUser(o, i, n, r, g)
  PROVE  CountsInv'
<1>1. acGrp' = acGrp /\ acOp \in [Op -> Carried] /\ acRow \in [Id -> Row0]
  BY AccountTypes DEF GroupsInv, AccountTyped, Ac!AddUser, Ac!UpdateUser
<1>2. acOp' = [acOp EXCEPT ![o] = Load("key", n, r, g)]
  BY DEF Ac!AddUser, Ac!UpdateUser, Ac!Carry, Load
<1>3. acRow'[i].group = g /\ \A j \in Id \ {i} : acRow'[j] = acRow[j]
  BY <1>1 DEF Ac!AddUser, Ac!UpdateUser
<1>4. PICK names, groups :
         /\ Ac!Begins(o, names, groups) /\ g \in groups /\ groups \subseteq {g, acRow[i].group}
         /\ acRow[i].group \in groups \/ ~acRow[i].alive
         /\ \/ acMoved' = acMoved /\ \A k \in groups \cap Group : k = g
            \/ acMoved' = acMoved \cup {acRow[i].group} /\ acRow[i].group \in groups
  <2>1. CASE Ac!AddUser(o, i, n, r, g)
    <3>1. Ac!Begins(o, {n}, {g}) /\ acRow[i].alive = FALSE /\ acMoved' = acMoved
      BY <2>1 DEF Ac!AddUser, Ac!NoRow
    <3> QED BY <3>1
  <2>2. CASE Ac!UpdateUser(o, i, n, r, g)
    <3>1. /\ Ac!Begins(o, {n, acRow[i].name}, {g, acRow[i].group})
          /\ acMoved' = IF g = acRow[i].group THEN acMoved ELSE acMoved \cup {acRow[i].group}
      BY <2>2 DEF Ac!UpdateUser
    <3> QED BY <3>1
  <2> QED BY <2>1, <2>2
<1>5. TouchesGroups(groups)
  <2>1. \A k \in Group \ groups : Ac!Members(k)' = Ac!Members(k)
    BY <1>3, <1>4, MembersElsewhere
  <2>2. \A k \in Group \ groups : acGrp'[k] = acGrp[k]
    BY <1>1
  <2> QED BY <1>4, <2>1, <2>2 DEF TouchesGroups
<1>6. /\ \A q \in Op \ {o} : StoreReady(q)'
      /\ \A k \in Group \ groups : GroupFree(k)' => GroupCounted(k)'
  BY <1>2, <1>4, <1>5, CountElsewhere
<1>7. acOp'[o].pc = "key" /\ acOp'[o].group = g
  BY <1>1, <1>2, Loaded
<1>8. StoreReady(o)'
  BY <1>7 DEF StoreReady
<1>9. ~GroupFree(g)'
  BY <1>7 DEF GroupFree, Refreshing
<1>10. ASSUME NEW k \in Group, k \in groups, k # g PROVE GroupCounted(k)'
  <2>1. k \in acMoved'
    BY <1>4, <1>10
  <2> QED BY <2>1 DEF GroupCounted
<1> QED BY <1>6, <1>8, <1>9, <1>10 DEF CountsInv

LEMMA AddGroupCounts ==
  ASSUME GroupsInv, NEW o \in Op, NEW g \in Group, Ac!AddGroup(o, g) PROVE CountsInv'
<1>1. /\ UNCHANGED <<acRow, acOp>> /\ acOp \in [Op -> Carried] /\ acGrp \in [Group -> Grp0]
  BY AccountTypes DEF GroupsInv, AccountTyped, Ac!AddGroup
<1>2. /\ acGrp' = [acGrp EXCEPT ![g] = [state |-> "live", nums |-> 0]]
      /\ acMoved' = IF Ac!Members(g) = {} THEN acMoved ELSE acMoved \cup {g}
      /\ Ac!Begins(o, {}, {g})
  BY DEF Ac!AddGroup
<1>3. acOp' = [acOp EXCEPT ![o] = acOp[o]]
  BY <1>1
<1>4. \A k : Ac!Members(k)' = Ac!Members(k)
  BY <1>1 DEF Ac!Members
<1>5. TouchesGroups({g})
  BY <1>1, <1>2, <1>4 DEF TouchesGroups
<1>6. /\ \A q \in Op \ {o} : StoreReady(q)'
      /\ \A k \in Group \ {g} : GroupFree(k)' => GroupCounted(k)'
  BY <1>2, <1>3, <1>5, CountElsewhere
<1>7. StoreReady(o)'
  <2>1. acOp'[o].pc = "idle"
    BY <1>1, <1>2 DEF Ac!Begins
  <2> QED BY <2>1 DEF StoreReady
<1>8. GroupCounted(g)'
  <2>1. CASE Ac!Members(g) = {}
    <3>1. Ac!Cardinality(Ac!Members(g)') = 0
      BY <1>4, <2>1, FS_EmptySet, AccountCount
    <3> QED BY <1>1, <1>2, <3>1, AccountCount DEF GroupCounted
  <2>2. CASE Ac!Members(g) # {}
    BY <1>2, <2>2 DEF GroupCounted
  <2> QED BY <2>1, <2>2
<1> QED BY <1>6, <1>7, <1>8 DEF CountsInv

\* A request that goes on to refresh "all permissions".
LEMMA NamesCarried ==
  ASSUME Ac!TypeOK, NEW o \in Op, NEW h, Ac!Carry(o, "names", Ac!None, Ac!None, h)
  PROVE  /\ acOp' = [acOp EXCEPT ![o] = Load("names", Ac!None, Ac!None, h)]
         /\ acOp'[o].pc = "names" /\ \A q \in Op \ {o} : acOp'[q] = acOp[q]
         /\ StoreReady(o)'
<1>1. acOp' = [acOp EXCEPT ![o] = Load("names", Ac!None, Ac!None, h)]
  BY DEF Ac!Carry, Load
<1>2. acOp'[o].pc = "names" /\ \A q \in Op \ {o} : acOp'[q] = acOp[q]
  BY <1>1, Loaded, AccountTypes DEF AccountTyped
<1> QED BY <1>1, <1>2 DEF StoreReady

LEMMA DelGroupCounts ==
  ASSUME GroupsInv, NEW o \in Op, NEW g \in Group, Ac!DelGroup(o, g) PROVE CountsInv'
<1>1. /\ UNCHANGED <<acRow, acMoved>> /\ acOp \in [Op -> Carried] /\ acGrp \in [Group -> Grp0]
      /\ Ac!TypeOK
  BY AccountTypes DEF GroupsInv, AccountTyped, Ac!DelGroup
<1>2. /\ acGrp' = [acGrp EXCEPT ![g].state = "deleted"]
      /\ Ac!Begins(o, {}, {g}) /\ Ac!Carry(o, "names", Ac!None, Ac!None, g)
  BY DEF Ac!DelGroup
<1>3. \A k : Ac!Members(k)' = Ac!Members(k)
  BY <1>1 DEF Ac!Members
<1>4. acGrp'[g].state = "deleted"
  BY <1>1, <1>2 DEF Grp0
<1>5. TouchesGroups({g})
  BY <1>1, <1>2, <1>3 DEF TouchesGroups
<1>6. acOp' = [acOp EXCEPT ![o] = Load("names", Ac!None, Ac!None, g)] /\ StoreReady(o)'
  BY <1>1, <1>2, NamesCarried
<1>7. /\ \A q \in Op \ {o} : StoreReady(q)'
      /\ \A k \in Group \ {g} : GroupFree(k)' => GroupCounted(k)'
  BY <1>2, <1>5, <1>6, CountElsewhere
<1>8. GroupCounted(g)'
  BY <1>4 DEF GroupCounted
<1> QED BY <1>6, <1>7, <1>8 DEF CountsInv

LEMMA RenameCounts ==
  ASSUME GroupsInv, NEW o \in Op, NEW g \in Group, NEW h \in Group, Ac!RenameGroup(o, g, h)
  PROVE  CountsInv'
<1> DEFINE Moved(s) == IF g \in s THEN (s \ {g}) \cup {h} ELSE s
<1>1. acOp \in [Op -> Carried] /\ acGrp \in [Group -> Grp0] /\ Ac!TypeOK
  BY AccountTypes DEF GroupsInv, AccountTyped
<1>2. /\ acGrp' = [k \in Group |-> IF k = h THEN acGrp[g] ELSE
                     IF k = g THEN [state |-> "none", nums |-> 0] ELSE acGrp[k]]
      /\ acMoved' = IF h # g /\ Ac!Members(h) # {} THEN Moved(acMoved) \cup {h}
                    ELSE Moved(acMoved)
      /\ Ac!Begins(o, {}, {g, h}) /\ Ac!Carry(o, "names", Ac!None, Ac!None, h)
      /\ acRow' = [i \in Id |-> IF acRow[i].group = g /\ acRow[i].alive
                                THEN [acRow[i] EXCEPT !.group = h] ELSE acRow[i]]
  BY DEF Ac!RenameGroup
<1>3. ASSUME NEW i \in Id
      PROVE  /\ acRow'[i].alive = acRow[i].alive
             /\ acRow[i].alive => acRow'[i].group = IF acRow[i].group = g THEN h
                                                    ELSE acRow[i].group
  <2>1. CASE acRow[i].alive
    <3>1. acRow[i] \in Ac!Row
      BY <1>1, <2>1, RowTyped
    <3> QED BY <1>2, <2>1, <3>1 DEF Ac!Row
  <2>2. CASE ~acRow[i].alive
    BY <1>2, <2>2
  <2> QED BY <2>1, <2>2
<1>4. /\ \A k \in Group \ {g, h} : Ac!Members(k)' = Ac!Members(k)
      /\ Ac!Members(h)' = Ac!Members(g) \cup Ac!Members(h)
  BY <1>3 DEF Ac!Members
<1>5. TouchesGroups({g, h})
  <2>1. \A k \in Group \ {g, h} : acGrp'[k] = acGrp[k]
    BY <1>2
  <2>2. \A k \in Group \ {g, h} : (k \in acMoved' => k \in acMoved)
                                  /\ (k \in acMoved => k \in acMoved')
    BY <1>2
  <2> QED BY <1>4, <2>1, <2>2 DEF TouchesGroups
<1>6. acOp' = [acOp EXCEPT ![o] = Load("names", Ac!None, Ac!None, h)] /\ StoreReady(o)'
  BY <1>1, <1>2, NamesCarried
<1>7. /\ \A q \in Op \ {o} : StoreReady(q)'
      /\ \A k \in Group \ {g, h} : GroupFree(k)' => GroupCounted(k)'
      /\ \A k \in {g, h} \cap Group : GroupFree(k)
  BY <1>2, <1>5, <1>6, CountElsewhere
<1>8. GroupCounted(g)
  BY <1>7 DEF GroupsInv, CountsInv
<1>9. GroupCounted(h)'
  <2> SUFFICES ASSUME acGrp'[h].state = "live", h \notin acMoved'
               PROVE  acGrp'[h].nums = Ac!Cardinality(Ac!Members(h)')
    BY AccountCount DEF GroupCounted
  <2>1. acGrp'[h] = acGrp[g] /\ g \notin acMoved
    BY <1>2
  <2>2. Ac!Members(h)' = Ac!Members(g)
    BY <1>2, <1>4
  <2> QED BY <1>8, <2>1, <2>2 DEF GroupCounted
<1>10. g # h => GroupCounted(g)'
  BY <1>2 DEF GroupCounted
<1> QED BY <1>6, <1>7, <1>9, <1>10 DEF CountsInv

LEMMA FollowCounts ==
  ASSUME GroupsInv, NEW o \in Op, Follows(o) PROVE CountsInv'
<1>1. acOp \in [Op -> Carried] /\ acGrp \in [Group -> Grp0] /\ Ac!TypeOK
  BY AccountTypes DEF GroupsInv, AccountTyped
<1>2. acRow' = acRow
  BY <1>1, FollowTypes
<1>3. \A k : Ac!Members(k)' = Ac!Members(k)
  BY <1>2 DEF Ac!Members
<1>4. \A q \in Op \ {o} : acOp'[q] = acOp[q]
  BY <1>1 DEF Follows, Ac!StoreRole, Ac!SetKey, Ac!DropKey, Ac!Count, Ac!Store, Ac!ReadNames,
              Ac!ClearAll, Ac!FillAll, Ac!Goto, Ac!Leave
<1>5. \A q \in Op \ {o} : StoreReady(q)'
  <2> SUFFICES ASSUME NEW q \in Op \ {o} PROVE StoreReady(q)'
    OBVIOUS
  <2>1. StoreReady(q) /\ acOp'[q] = acOp[q]
    BY <1>4 DEF GroupsInv, CountsInv
  <2>3. Ac!Members(acOp[q].group)' = Ac!Members(acOp[q].group)
    BY <1>2, <2>1 DEF Ac!Members
  <2> QED BY <2>1, <2>3 DEF StoreReady
<1>6. StoreReady(o)
  BY DEF GroupsInv, CountsInv
<1>7. CASE Ac!StoreRole(o) \/ Ac!SetKey(o) \/ Ac!DropKey(o) \/ Ac!ReadNames(o) \/ Ac!ClearAll(o)
           \/ Ac!FillAll(o)
  <2>1. UNCHANGED <<acGrp, acMoved>>
    BY <1>7 DEF Ac!StoreRole, Ac!SetKey, Ac!DropKey, Ac!ReadNames, Ac!ClearAll, Ac!FillAll
  <2>2. /\ acOp'[o].pc \notin {"role", "store", "drop", "key"}
        /\ acOp'[o].pc = "count" => acOp[o].pc \in {"key", "drop"}
        /\ acOp'[o].pc # "idle" => acOp'[o].group = acOp[o].group
    BY <1>1, <1>7 DEF Ac!StoreRole, Ac!SetKey, Ac!DropKey, Ac!ReadNames, Ac!ClearAll,
                      Ac!FillAll, Ac!Goto, Ac!Leave, Ac!Idle, Carried
  <2>3. StoreReady(o)'
    BY <1>6, <2>2 DEF StoreReady
  <2>4. \/ acOp[o].pc = "role"
        \/ acOp[o].pc \in {"key", "drop"} /\ acOp'[o].pc = "count"
        \/ acOp[o].pc \in Refreshing
    BY <1>1, <1>7 DEF Ac!StoreRole, Ac!SetKey, Ac!DropKey, Ac!ReadNames, Ac!ClearAll,
                      Ac!FillAll, Ac!Goto, Ac!Leave, Carried, Refreshing
  <2>5. ASSUME NEW k \in Group, GroupFree(k)' PROVE GroupFree(k)
    BY <1>4, <1>6, <2>2, <2>4, <2>5, AccountConstants DEF GroupFree, StoreReady, Refreshing
  <2> QED BY <1>3, <1>5, <2>1, <2>3, <2>5 DEF CountsInv, GroupsInv, GroupCounted
<1>8. CASE Ac!Count(o)
  <2>1. /\ UNCHANGED <<acGrp, acMoved>>
        /\ acOp[o].pc = "count" /\ acOp'[o].pc = "store" /\ acOp'[o].group = acOp[o].group
        /\ acOp'[o].n = Ac!Cardinality(Ac!Members(acOp[o].group))
    BY <1>1, <1>8 DEF Ac!Count, Carried
  <2>2. Ac!Members(acOp[o].group)' = Ac!Members(acOp[o].group)
    BY <1>2, <2>1 DEF Ac!Members
  <2>3. StoreReady(o)'
    BY <1>6, <2>1, <2>2 DEF StoreReady
  <2>4. ASSUME NEW k \in Group, GroupFree(k)' PROVE GroupFree(k)
    BY <1>4, <2>1, <2>4 DEF GroupFree, Refreshing
  <2> QED BY <1>3, <1>5, <2>1, <2>3, <2>4 DEF CountsInv, GroupsInv, GroupCounted
<1>9. CASE Ac!Store(o)
  <2>1. PICK g : g = acOp[o].group
    OBVIOUS
  <2>2. /\ acOp[o].pc = "store" /\ g \in Group
        /\ acOp[o].n = Ac!Cardinality(Ac!Members(g))
    BY <1>6, <1>9, <2>1 DEF Ac!Store, StoreReady
  <2>3. /\ acOp'[o] = Ac!Idle
        /\ acGrp' = [acGrp EXCEPT ![g].nums = IF acGrp[g].state = "none" THEN @ ELSE acOp[o].n]
        /\ acMoved' = IF acGrp[g].state = "none" THEN acMoved ELSE acMoved \ {g}
    BY <1>1, <1>9, <2>1 DEF Ac!Store, Ac!Leave
  <2>4. StoreReady(o)'
    BY <2>3 DEF StoreReady, Ac!Idle
  <2>5. GroupCounted(g)'
    <3>1. CASE acGrp[g].state = "none"
      <4>1. acGrp'[g].state = "none"
        BY <1>1, <2>2, <2>3, <3>1 DEF Grp0
      <4> QED BY <4>1 DEF GroupCounted
    <3>2. CASE acGrp[g].state # "none"
      <4>1. acGrp'[g].nums = Ac!Cardinality(Ac!Members(g))
        BY <1>1, <2>2, <2>3, <3>2 DEF Grp0
      <4> QED BY <1>3, <4>1 DEF GroupCounted
    <3> QED BY <3>1, <3>2
  <2>6. ASSUME NEW k \in Group, k # g, GroupFree(k)' PROVE GroupCounted(k)'
    <3>1. GroupFree(k)
      BY <1>4, <2>1, <2>6 DEF GroupFree
    <3>2. GroupCounted(k)
      BY <3>1 DEF GroupsInv, CountsInv
    <3>3. acGrp'[k] = acGrp[k] /\ (k \notin acMoved' => k \notin acMoved)
      BY <1>1, <2>3, <2>6
    <3> QED BY <1>3, <3>2, <3>3 DEF GroupCounted
  <2> QED BY <1>5, <2>4, <2>5, <2>6 DEF CountsInv
<1> QED BY <1>7, <1>8, <1>9 DEF Follows

\* A step of a request that does not refresh "all permissions".
LEMMA ListKept ==
  ASSUME GroupsInv, NEW o \in Op, acOp[o].pc \notin Refreshing, acOp'[o].pc \notin Refreshing,
         \A q \in Op \ {o} : acOp'[q] = acOp[q], acAll' = acAll,
         Ac!LiveGroups \subseteq Ac!LiveGroups'
  PROVE  ListInv'
<1>1. \A q \in Op : acOp'[q].pc \in Refreshing => acOp'[q] = acOp[q] /\ q # o
  OBVIOUS
<1>2. {"clear", "fill"} \subseteq Refreshing /\ "fill" \in {"clear", "fill"}
  BY DEF Refreshing
<1>3. \A q, u \in Op : acOp'[q].pc \in Refreshing /\ acOp'[u].pc \in Refreshing => q = u
  BY <1>1 DEF GroupsInv, ListInv
<1>4. \A q \in Op : acOp'[q].pc \in {"clear", "fill"} => acOp'[q].list \subseteq Ac!LiveGroups'
  BY <1>1, <1>2 DEF GroupsInv, ListInv
<1>5. \A q \in Op : acOp'[q].pc = "fill" => acAll' \subseteq Ac!LiveGroups'
  BY <1>1, <1>2 DEF GroupsInv, ListInv
<1>6. ASSUME \A q \in Op : acOp'[q].pc \notin Refreshing PROVE acAll' \subseteq Ac!LiveGroups'
  <2>1. \A q \in Op : acOp[q].pc \notin Refreshing
    BY <1>6
  <2> QED BY <2>1 DEF GroupsInv, ListInv
<1> QED BY <1>3, <1>4, <1>5, <1>6 DEF ListInv

\* A deletion or renaming begins when nobody else refreshes the list.
LEMMA ListBegun ==
  ASSUME GroupsInv, NEW o \in Op, NEW h, Ac!Refreshes,
         Ac!Carry(o, "names", Ac!None, Ac!None, h)
  PROVE  ListInv'
<1>1. acOp'[o].pc = "names" /\ \A q \in Op \ {o} : acOp'[q] = acOp[q]
  BY NamesCarried DEF GroupsInv
<1>2. \A q \in Op : acOp[q].pc \notin Refreshing
  BY DEF Ac!Refreshes, Refreshing
<1>3. \A q \in Op : acOp'[q].pc \in Refreshing => q = o
  BY <1>1, <1>2
<1>4. \A q \in Op : acOp'[q].pc \notin {"clear", "fill"} /\ acOp'[q].pc # "fill"
  BY <1>1, <1>3 DEF Refreshing
<1>5. acOp'[o].pc \in Refreshing
  BY <1>1 DEF Refreshing
<1> QED BY <1>3, <1>4, <1>5 DEF ListInv

LEMMA FollowLists ==
  ASSUME GroupsInv, NEW o \in Op, Follows(o) PROVE ListInv'
<1>1. /\ acOp \in [Op -> Carried] /\ acGrp \in [Group -> Grp0] /\ Ac!TypeOK
      /\ acAll \subseteq Group
  BY AccountTypes DEF GroupsInv, AccountTyped
<1>2. \A q \in Op \ {o} : acOp'[q] = acOp[q]
  BY <1>1 DEF Follows, Ac!StoreRole, Ac!SetKey, Ac!DropKey, Ac!Count, Ac!Store, Ac!ReadNames,
              Ac!ClearAll, Ac!FillAll, Ac!Goto, Ac!Leave
<1>3. CASE Ac!StoreRole(o) \/ Ac!SetKey(o) \/ Ac!DropKey(o) \/ Ac!Count(o) \/ Ac!Store(o)
  <2>1. /\ acOp[o].pc \notin Refreshing /\ acOp'[o].pc \notin Refreshing /\ acAll' = acAll
    BY <1>1, <1>3 DEF Ac!StoreRole, Ac!SetKey, Ac!DropKey, Ac!Count, Ac!Store, Ac!Goto,
                      Ac!Leave, Ac!Idle, Carried, Refreshing
  <2>2. \A g \in Group : acGrp'[g].state = acGrp[g].state
    <3>1. CASE Ac!Store(o)
      BY <1>1, <3>1 DEF Ac!Store, Grp0
    <3>2. CASE acGrp' = acGrp
      BY <3>2
    <3> QED BY <1>3, <3>1, <3>2 DEF Ac!StoreRole, Ac!SetKey, Ac!DropKey, Ac!Count
  <2>3. Ac!LiveGroups \subseteq Ac!LiveGroups'
    BY <2>2 DEF Ac!LiveGroups
  <2> QED BY <1>2, <2>1, <2>3, ListKept
<1>4. CASE Ac!ReadNames(o) \/ Ac!ClearAll(o) \/ Ac!FillAll(o)
  <2>1. Ac!LiveGroups' = Ac!LiveGroups
    BY <1>4 DEF Ac!ReadNames, Ac!ClearAll, Ac!FillAll, Ac!LiveGroups
  <2>2. acOp[o].pc \in Refreshing
    BY <1>4 DEF Ac!ReadNames, Ac!ClearAll, Ac!FillAll, Refreshing
  <2>3. \A q \in Op \ {o} : acOp'[q].pc \notin Refreshing
    BY <1>2, <2>2 DEF GroupsInv, ListInv
  <2>4. \A q \in Op \ {o} : acOp'[q].pc \notin {"clear", "fill"} /\ acOp'[q].pc # "fill"
    BY <2>3 DEF Refreshing
  <2>5. /\ acOp'[o].pc \in {"clear", "fill"} => acOp'[o].list \subseteq Ac!LiveGroups
        /\ acOp'[o].pc = "fill" => acAll' \subseteq Ac!LiveGroups
        /\ acOp'[o].pc \notin Refreshing => acAll' \subseteq Ac!LiveGroups
    <3>1. CASE Ac!ReadNames(o)
      BY <1>1, <3>1 DEF Ac!ReadNames, Carried, Refreshing
    <3>2. CASE Ac!ClearAll(o)
      <4>1. /\ acOp[o].pc = "clear" /\ acAll' = {} /\ acOp'[o].list = acOp[o].list
        BY <1>1, <3>2 DEF Ac!ClearAll, Ac!Goto, Carried
      <4>2. acOp[o].list \subseteq Ac!LiveGroups
        BY <4>1 DEF GroupsInv, ListInv
      <4> QED BY <4>1, <4>2
    <3>3. CASE Ac!FillAll(o)
      <4>1. /\ acOp[o].pc = "fill" /\ acOp'[o].pc = "idle"
            /\ acAll' = acAll \/ acAll' = acAll \cup acOp[o].list
        BY <1>1, <3>3 DEF Ac!FillAll, Ac!Leave, Ac!Idle
      <4>2. acOp[o].list \subseteq Ac!LiveGroups /\ acAll \subseteq Ac!LiveGroups
        BY <4>1 DEF GroupsInv, ListInv
      <4> QED BY <4>1, <4>2
    <3> QED BY <1>4, <3>1, <3>2, <3>3
  <2>6. \A q, u \in Op : acOp'[q].pc \in Refreshing /\ acOp'[u].pc \in Refreshing => q = u
    BY <2>3
  <2> QED BY <2>1, <2>4, <2>5, <2>6 DEF ListInv
<1> QED BY <1>3, <1>4 DEF Follows

LEMMA BeginLists ==
  ASSUME GroupsInv, NEW o \in Op
  PROVE  /\ \A n \in Name : Ac!Login(o, n) \/ Ac!DelUser(o, n) => ListInv'
         /\ \A i \in Id, n \in Name, r \in Ac!Role, g \in Group :
               Ac!AddUser(o, i, n, r, g) \/ Ac!UpdateUser(o, i, n, r, g) => ListInv'
         /\ \A g \in Group : Ac!AddGroup(o, g) \/ Ac!DelGroup(o, g) => ListInv'
         /\ \A g, h \in Group : Ac!RenameGroup(o, g, h) => ListInv'
<1>1. acOp \in [Op -> Carried] /\ acGrp \in [Group -> Grp0]
  BY AccountTypes DEF GroupsInv, AccountTyped
<1>2. ASSUME NEW pc \in {"role", "key", "drop"}, NEW n, NEW r, NEW g,
             acOp[o].pc = "idle", Ac!Carry(o, pc, n, r, g), UNCHANGED <<acGrp, acAll>>
      PROVE  ListInv'
  <2>1. acOp' = [acOp EXCEPT ![o] = Load(pc, n, r, g)]
    BY <1>2 DEF Ac!Carry, Load
  <2>2. acOp'[o].pc = pc /\ \A q \in Op \ {o} : acOp'[q] = acOp[q]
    BY <1>1, <2>1, Loaded
  <2>3. acOp[o].pc \notin Refreshing /\ acOp'[o].pc \notin Refreshing
    BY <1>2, <2>2 DEF Refreshing
  <2>4. Ac!LiveGroups \subseteq Ac!LiveGroups'
    BY <1>2 DEF Ac!LiveGroups
  <2> QED BY <1>2, <2>2, <2>3, <2>4, ListKept
<1>3. ASSUME NEW n \in Name, Ac!Login(o, n) \/ Ac!DelUser(o, n) PROVE ListInv'
  <2>1. PICK pc, r, g : pc \in {"role", "key", "drop"} /\ Ac!Carry(o, pc, n, r, g)
    BY <1>3 DEF Ac!Login, Ac!DelUser
  <2>2. acOp[o].pc = "idle" /\ UNCHANGED <<acGrp, acAll>>
    BY <1>3 DEF Ac!Login, Ac!DelUser, Ac!Begins
  <2> QED BY <1>2, <2>1, <2>2
<1>4. ASSUME NEW i \in Id, NEW n \in Name, NEW r \in Ac!Role, NEW g \in Group,
             Ac!AddUser(o, i, n, r, g) \/ Ac!UpdateUser(o, i, n, r, g)
      PROVE  ListInv'
  <2>1. /\ Ac!Carry(o, "key", n, r, g)
        /\ acOp[o].pc = "idle" /\ UNCHANGED <<acGrp, acAll>>
    BY <1>4 DEF Ac!AddUser, Ac!UpdateUser, Ac!Begins
  <2> QED BY <1>2, <2>1
<1>5. ASSUME NEW g \in Group, Ac!AddGroup(o, g) PROVE ListInv'
  <2>1. /\ acOp[o].pc = "idle" /\ UNCHANGED <<acOp, acAll>>
        /\ acGrp' = [acGrp EXCEPT ![g] = [state |-> "live", nums |-> 0]]
    BY <1>5 DEF Ac!AddGroup, Ac!Begins
  <2>2. Ac!LiveGroups \subseteq Ac!LiveGroups'
    BY <1>1, <2>1 DEF Ac!LiveGroups
  <2>3. acOp[o].pc \notin Refreshing
    BY <2>1 DEF Refreshing
  <2> QED BY <2>1, <2>2, <2>3, ListKept
<1>6. ASSUME NEW g \in Group, NEW h \in Group, Ac!DelGroup(o, g) \/ Ac!RenameGroup(o, g, h)
      PROVE  ListInv'
  BY <1>6, ListBegun DEF Ac!DelGroup, Ac!RenameGroup
<1> QED BY <1>3, <1>4, <1>5, <1>6

LEMMA GroupsInit == Ac!Init => GroupsInv
<1> SUFFICES ASSUME Ac!Init PROVE GroupsInv
  OBVIOUS
<1>1. Ac!TypeOK /\ OpsApart
  BY AccountTypeInit, RolesInit DEF RolesInv
<1>2. \A o \in Op : acOp[o].pc = "idle"
  BY DEF Ac!Init, Ac!Idle
<1>3. \A o \in Op : StoreReady(o)
  BY <1>2 DEF StoreReady
<1>4. \A g \in Group : GroupCounted(g)
  BY DEF Ac!Init, GroupCounted
<1>5. ListInv
  BY <1>2 DEF Ac!Init, ListInv, Refreshing
<1> QED BY <1>1, <1>3, <1>4, <1>5 DEF GroupsInv, CountsInv

LEMMA GroupsNext == ASSUME GroupsInv, Ac!Next \/ UNCHANGED ac PROVE GroupsInv'
<1>0. Ac!TypeOK /\ OpsApart
  BY DEF GroupsInv
<1>1. Ac!TypeOK'
  BY <1>0, AccountTypeNext
<1>2. CASE UNCHANGED ac
  <2>1. \A k : Ac!Members(k)' = Ac!Members(k)
    BY <1>2 DEF ac, Ac!Members
  <2>2. \A o \in Op : StoreReady(o)'
    <3> SUFFICES ASSUME NEW o \in Op PROVE StoreReady(o)'
      OBVIOUS
    <3>1. StoreReady(o) /\ acOp' = acOp
      BY <1>2 DEF GroupsInv, CountsInv, ac
    <3>2. Ac!Members(acOp[o].group)' = Ac!Members(acOp[o].group)
      BY <1>2 DEF ac, Ac!Members
    <3> QED BY <3>1, <3>2 DEF StoreReady
  <2>3. CountsInv'
    BY <1>2, <2>1, <2>2 DEF ac, GroupsInv, CountsInv, GroupFree, GroupCounted
  <2>4. ListInv' /\ OpsApart'
    BY <1>2 DEF ac, GroupsInv, ListInv, OpsApart, Ac!LiveGroups
  <2> QED BY <1>1, <2>3, <2>4 DEF GroupsInv
<1>3. ASSUME NEW o \in Op, NEW n \in Name, Ac!Login(o, n) \/ Ac!DelUser(o, n)
      PROVE  OpsApart' /\ CountsInv' /\ ListInv'
  BY <1>0, <1>3, BeginCarries, LoginCounts, DelUserCounts, BeginLists
<1>4. ASSUME NEW o \in Op, NEW i \in Id, NEW n \in Name, NEW r \in Ac!Role, NEW g \in Group,
             Ac!AddUser(o, i, n, r, g) \/ Ac!UpdateUser(o, i, n, r, g)
      PROVE  OpsApart' /\ CountsInv' /\ ListInv'
  BY <1>0, <1>4, BeginCarries, SaveCounts, BeginLists
<1>5. ASSUME NEW o \in Op, NEW g \in Group, NEW h \in Group,
             Ac!AddGroup(o, h) \/ Ac!DelGroup(o, h) \/ Ac!RenameGroup(o, g, h)
      PROVE  OpsApart' /\ CountsInv' /\ ListInv'
  BY <1>0, <1>5, BeginCarries, AddGroupCounts, DelGroupCounts, RenameCounts, BeginLists
<1>6. ASSUME NEW o \in Op, Follows(o) PROVE OpsApart' /\ CountsInv' /\ ListInv'
  BY <1>0, <1>6, FollowCarries, FollowCounts, FollowLists
<1>7. (OpsApart' /\ CountsInv' /\ ListInv') \/ UNCHANGED ac
  BY <1>3, <1>4, <1>5, <1>6 DEF Ac!Next, Follows
<1> QED BY <1>1, <1>2, <1>7 DEF GroupsInv

\* The count of a live group is the number of its accounts, unless somebody was moved away
\* from it or a request is about to store it, and the rule "all permissions" grants no
\* deleted group once the deletion is answered - for any accounts and groups, while requests
\* under way at once concern different groups (user_grp_count and acc_group_auth of
\* tools/auto_update.py, called after the commits of users/user.py and users/group.py).
THEOREM GroupsAreTrue == AllSpec => []GroupsTrue
<1> DEFINE Inv == part = "accounts" => GroupsInv
<1>1. AllInit => Inv
  BY GroupsInit DEF AllInit
<1>2. Inv /\ [AllNext]_everything => Inv'
  <2> SUFFICES ASSUME Inv, [AllNext]_everything, part' = "accounts" PROVE GroupsInv'
    OBVIOUS
  <2>1. part = "accounts" /\ (Ac!Next \/ UNCHANGED ac)
    BY DEF AllNext, everything
  <2> QED BY <2>1, GroupsNext
<1>3. Inv => GroupsTrue
  <2> SUFFICES ASSUME GroupsInv PROVE Ac!CountsTrue /\ Ac!AllGrantsLive
    BY DEF GroupsTrue
  <2>1. Ac!CountsTrue
    BY DEF Ac!CountsTrue, GroupsInv, CountsInv, GroupFree, GroupCounted, Ac!LiveGroups
  <2>2. Ac!AllGrantsLive
    BY DEF Ac!AllGrantsLive, GroupsInv, ListInv, Refreshing
  <2> QED BY <2>1, <2>2
<1> HIDE DEF Inv
<1> QED BY <1>1, <1>2, <1>3, PTL DEF AllSpec
====
