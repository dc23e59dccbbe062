------------------------------ MODULE Accounts ------------------------------
(***************************************************************************)
(* Accounts and user groups (users/user.py, users/group.py, and from       *)
(* tools/auto_update.py the count of a group and the list of user groups   *)
(* that the rule "all permissions" grants).  An operation of the           *)
(* administrator commits its row first; the role key in Redis, the count   *)
(* and the list follow as commands and commits of their own, between which *)
(* other requests run.  A login reads the row and writes the role key      *)
(* later.  The sessions a login opens are in Logins; passwords, mails and  *)
(* the alias key, which goes with the role key, are left out.              *)
(***************************************************************************)
EXTENDS Naturals, FiniteSets

CONSTANTS
    Op,         \* requests under way at once
    Id,         \* rows of t_acc_user there can be
    Name,       \* user names
    Group,      \* names of user groups
    Apart,      \* TRUE: requests under way at once concern different names and groups,
                \* and only one refreshes "all permissions"
    Stale       \* TRUE: an update may come from a page that shows a deleted account

None == "none"

AccountsAssumption ==
    /\ Apart \in BOOLEAN /\ Stale \in BOOLEAN
    /\ IsFiniteSet(Id) /\ Name # {} /\ Group # {} /\ None \notin Name \cup Group

VARIABLES
    row,        \* t_acc_user
    key,        \* <name>_role in Redis
    grp,        \* t_acc_group, by name
    all,        \* the user groups of the rule "all permissions"
    moved,      \* groups an account was moved away from since they were counted (history)
    op          \* per request: where it is and what it carries

vars == <<row, key, grp, all, moved, op>>

Role == {"admin", "user"}
NoRow == [name |-> None, role |-> None, group |-> None, alive |-> FALSE]
Row   == [name : Name, role : Role, group : Group, alive : BOOLEAN]
Idle  == [pc |-> "idle", name |-> None, role |-> None, group |-> None, n |-> 0, list |-> {}]

Used(n)    == \E i \in Id : row[i].name = n
Live(n)    == {i \in Id : row[i].name = n /\ row[i].alive}
Members(g) == {i \in Id : row[i].group = g /\ row[i].alive}
LiveGroups == {g \in Group : grp[g].state = "live"}

First == CHOOSE i \in Id : TRUE

\* The account of the setup, in no group that exists.
Init ==
    /\ row = [i \in Id |-> IF i = First THEN [name |-> CHOOSE n \in Name : TRUE, role |-> "admin",
                                             group |-> CHOOSE g \in Group : TRUE,
                                             alive |-> TRUE]
                                       ELSE NoRow]
    /\ key = [n \in Name |-> None]
    /\ grp = [g \in Group |-> [state |-> "none", nums |-> 0]]
    /\ all = {} /\ moved = {}
    /\ op = [o \in Op |-> Idle]

\* Whether a request about these names and groups may begin now.
Begins(o, names, groups) ==
    /\ op[o].pc = "idle"
    /\ Apart => \A q \in Op \ {o} :
                   op[q].name \notin names /\ op[q].group \notin groups

\* require_role and _require_admin_or_raise.
Admin == \E n \in Name : key[n] = "admin"

Goto(o, pc)   == op' = [op EXCEPT ![o].pc = pc]
Carry(o, pc, n, r, g) ==
    op' = [op EXCEPT ![o] = [Idle EXCEPT !.pc = pc, !.name = n, !.role = r, !.group = g]]
Leave(o)      == op' = [op EXCEPT ![o] = Idle]

-----------------------------------------------------------------------------
(* Accounts. *)

\* The row is read, and the role of that reading is written once the token is there.
Login(o, n) ==
    /\ Begins(o, {n}, {})
    /\ \E i \in Live(n) : Carry(o, "role", n, row[i].role, None)
    /\ UNCHANGED <<row, key, grp, all, moved>>

\* A name is free if no row has it, deleted ones included: the index is unique.
AddUser(o, i, n, r, g) ==
    /\ Begins(o, {n}, {g}) /\ Admin
    /\ row[i] = NoRow /\ ~Used(n)
    /\ row' = [row EXCEPT ![i] = [name |-> n, role |-> r, group |-> g, alive |-> TRUE]]
    /\ Carry(o, "key", n, r, g)
    /\ UNCHANGED <<key, grp, all, moved>>

SlipDelUser(o, n) ==
    /\ Begins(o, {n}, {row[i].group : i \in Live(n)}) /\ Admin
    /\ \E i \in Live(n) : row' = [row EXCEPT ![i].alive = FALSE]
                          /\ Carry(o, "count", n, None, row[i].group)
    /\ UNCHANGED <<key, grp, all, moved>>
DelUser(o, n) ==
    /\ Begins(o, {n}, {row[i].group : i \in Live(n)}) /\ Admin
    /\ \E i \in Live(n) : row' = [row EXCEPT ![i].alive = FALSE]
                          /\ Carry(o, "drop", n, None, row[i].group)
    /\ UNCHANGED <<key, grp, all, moved>>

\* The row is found by its id; another row of the new name refuses.  What is counted
\* afterwards is the group the row has by then: the one it left is not.
UpdateUser(o, i, n, r, g) ==
    /\ Begins(o, {n, row[i].name}, {g, row[i].group}) /\ Admin
    /\ row[i] # NoRow /\ (Stale \/ row[i].alive)
    /\ \A j \in Id \ {i} : row[j].name # n
    /\ row' = [row EXCEPT ![i] = [name |-> n, role |-> r, group |-> g, alive |-> @.alive]]
    /\ moved' = IF g = row[i].group THEN moved ELSE moved \cup {row[i].group}
    /\ Carry(o, "key", n, r, g)
    /\ UNCHANGED <<key, grp, all>>

-----------------------------------------------------------------------------
(* Groups. *)

\* A deleted group keeps its name for ever, against the check, which does not see it.
AddGroup(o, g) ==
    /\ Begins(o, {}, {g}) /\ Admin
    /\ grp[g].state = "none"
    /\ grp' = [grp EXCEPT ![g] = [state |-> "live", nums |-> 0]]
    /\ moved' = IF Members(g) = {} THEN moved ELSE moved \cup {g}
    /\ UNCHANGED <<row, key, all, op>>

Refreshes == Apart => \A q \in Op : op[q].pc \notin {"names", "clear", "fill"}

\* The accounts of the group are to be left without one, which their column refuses: a
\* group with members is not deleted.
DelGroup(o, g) ==
    /\ Begins(o, {}, {g}) /\ Admin /\ Refreshes
    /\ grp[g].state = "live" /\ Members(g) = {}
    /\ grp' = [grp EXCEPT ![g].state = "deleted"]
    /\ Carry(o, "names", None, None, g)
    /\ UNCHANGED <<row, key, all, moved>>

\* One transaction: the accounts follow, the granted list follows by its foreign key.
SlipRenameGroup(o, g, h) ==
    /\ Begins(o, {}, {g, h}) /\ Admin /\ Refreshes
    /\ grp[g].state = "live" /\ (h = g \/ grp[h].state = "none")
    /\ LET Moved(s) == IF g \in s THEN (s \ {g}) \cup {h} ELSE s
       IN /\ grp' = [k \in Group |-> IF k = h THEN grp[g] ELSE
                     IF k = g THEN [state |-> "none", nums |-> 0] ELSE grp[k]]
          /\ all' = Moved(all) /\ moved' = Moved(moved)
    /\ Carry(o, "names", None, None, h)
    /\ UNCHANGED <<row, key>>
RenameGroup(o, g, h) ==
    /\ Begins(o, {}, {g, h}) /\ Admin /\ Refreshes
    /\ grp[g].state = "live" /\ (h = g \/ grp[h].state = "none")
    /\ LET Moved(s) == IF g \in s THEN (s \ {g}) \cup {h} ELSE s
       IN /\ grp' = [k \in Group |-> IF k = h THEN grp[g] ELSE
                     IF k = g THEN [state |-> "none", nums |-> 0] ELSE grp[k]]
          /\ all' = Moved(all)
          /\ moved' = IF h # g /\ Members(h) # {} THEN Moved(moved) \cup {h} ELSE Moved(moved)
    /\ row' = [i \in Id |-> IF row[i].group = g /\ row[i].alive
                            THEN [row[i] EXCEPT !.group = h] ELSE row[i]]
    /\ Carry(o, "names", None, None, h)
    /\ UNCHANGED key

-----------------------------------------------------------------------------
(* What follows the commit. *)

\* The role key of a login, of a new or changed account, and of a deleted one.
StoreRole(o) ==
    /\ op[o].pc = "role"
    /\ key' = [key EXCEPT ![op[o].name] = op[o].role]
    /\ Leave(o)
    /\ UNCHANGED <<row, grp, all, moved>>

SetKey(o) ==
    /\ op[o].pc = "key"
    /\ key' = [key EXCEPT ![op[o].name] = op[o].role]
    /\ Goto(o, "count")
    /\ UNCHANGED <<row, grp, all, moved>>

DropKey(o) ==
    /\ op[o].pc = "drop"
    /\ key' = [key EXCEPT ![op[o].name] = None]
    /\ Goto(o, "count")
    /\ UNCHANGED <<row, grp, all, moved>>

\* user_grp_count: one statement counts, another one stores.
Count(o) ==
    /\ op[o].pc = "count"
    /\ op' = [op EXCEPT ![o].pc = "store", ![o].n = Cardinality(Members(op[o].group))]
    /\ UNCHANGED <<row, key, grp, all, moved>>

Store(o) ==
    /\ op[o].pc = "store"
    /\ LET g == op[o].group
       IN /\ grp' = [grp EXCEPT ![g].nums = IF grp[g].state = "none" THEN @ ELSE op[o].n]
          /\ moved' = IF grp[g].state = "none" THEN moved ELSE moved \ {g}
    /\ Leave(o)
    /\ UNCHANGED <<row, key, all>>

\* acc_group_auth: the names are read, the old list is deleted and committed, the new
\* one is inserted.  A name that is gone by then breaks its foreign key: nothing is.
ReadNames(o) ==
    /\ op[o].pc = "names"
    /\ op' = [op EXCEPT ![o].pc = "clear", ![o].list = LiveGroups]
    /\ UNCHANGED <<row, key, grp, all, moved>>

ClearAll(o) ==
    /\ op[o].pc = "clear"
    /\ all' = {}
    /\ Goto(o, "fill")
    /\ UNCHANGED <<row, key, grp, moved>>

FillAll(o) ==
    /\ op[o].pc = "fill"
    /\ all' = IF \A g \in op[o].list : grp[g].state # "none"
              THEN all \cup op[o].list ELSE all
    /\ Leave(o)
    /\ UNCHANGED <<row, key, grp, moved>>

-----------------------------------------------------------------------------
Next ==
    \E o \in Op :
        \/ \E n \in Name : Login(o, n) \/ DelUser(o, n)
        \/ \E i \in Id, n \in Name, r \in Role, g \in Group :
              AddUser(o, i, n, r, g) \/ UpdateUser(o, i, n, r, g)
        \/ \E g \in Group : AddGroup(o, g) \/ DelGroup(o, g)
        \/ \E g, h \in Group : RenameGroup(o, g, h)
        \/ StoreRole(o) \/ SetKey(o) \/ DropKey(o) \/ Count(o) \/ Store(o)
        \/ ReadNames(o) \/ ClearAll(o) \/ FillAll(o)

Spec == Init /\ [][Next]_vars

-----------------------------------------------------------------------------
\* The type invariant.
TypeOK ==
    /\ row \in [Id -> Row \cup {NoRow}] /\ key \in [Name -> Role \cup {None}]
    /\ grp \in [Group -> [state : {"none", "live", "deleted"}, nums : 0..Cardinality(Id)]]
    /\ all \subseteq Group /\ moved \subseteq Group
    /\ op \in [Op -> [pc : {"idle", "role", "key", "drop", "count", "store", "names",
                            "clear", "fill"},
                      name : Name \cup {None}, role : Role \cup {None},
                      group : Group \cup {None}, n : 0..Cardinality(Id),
                      list : SUBSET Group]]

Quiet(n) == \A o \in Op : op[o].name # n

\* Every request asks the role key, never the row: when nothing about an account is under
\* way the key says what the row says, and of a deleted account it says nothing.
RoleFromRow ==
    \A i \in Id : row[i] # NoRow /\ Quiet(row[i].name) =>
        IF row[i].alive THEN key[row[i].name] \in {None, row[i].role}
                        ELSE key[row[i].name] = None

\* The count of a group is the number of its accounts, unless somebody was moved away
\* from it (the one case the code does not count) or a request is about to store it.
CountsTrue ==
    \A g \in LiveGroups \ moved :
        (\A o \in Op : op[o].group # g) => grp[g].nums = Cardinality(Members(g))

\* The rule "all permissions" grants no deleted group once the deletion is answered.
AllGrantsLive ==
    (\A o \in Op : op[o].pc \notin {"names", "clear", "fill"}) => all \subseteq LiveGroups
=============================================================================
