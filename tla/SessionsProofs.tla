----------------------------- MODULE SessionsProofs -----------------------------
(***************************************************************************)
(* Theorems about the parts of Sessions, for any values of its constants.  *)
(*                                                                         *)
(* FirstSetup: TypeOK is inductive as it stands.  That the wizard does not *)
(* open again needs that whoever served the program left the sentinel and  *)
(* that no step takes it away.  That a written configuration has an        *)
(* administrator needs that every caller past the administrator's stage,   *)
(* wherever the others are, has one in the database.                       *)
(***************************************************************************)
EXTENDS Sessions, GuessProofs

-----------------------------------------------------------------------------
(* FirstSetup. *)

\* The stages that come after the administrator's commit.
Past == {"settings", "write", "mark", "drop"}

\* The sentinel outlasts the program that wrote it, and keeps the wizard shut.
Closed == Flag # "force" /\ served => sentinel /\ mode # "setup"

\* Nobody has passed the administrator's stage, and no configuration is written, without
\* an administrator.
Seeded ==
    /\ file \in Key => admins # {}
    /\ \A c \in Caller : pc[c] \in Past => admins # {}

LEMMA NoFails == Limit \in Nat /\ 0 \in 0..Limit - 1
<1>1. Limit \in Nat /\ Limit # 0
  BY SetupAssumption
<1> QED BY <1>1

LEMMA BlankIsLocal == Blank \in Local
  BY SetupAssumption DEF Blank, Local

-----------------------------------------------------------------------------
(* FirstSetup: types. *)

LEMMA TypeInit == Init => TypeOK
  BY NoFails, BlankIsLocal DEF Init, TypeOK, Stage

\* The steps of one caller.
LEMMA TypeCall ==
  ASSUME TypeOK, NEW c \in Caller,
         Apply(c) \/ Refused(c) \/ Fail(c) \/ Tested(c) \/ Bootstrap(c) \/ Finalise(c)
  PROVE  TypeOK'
<1> USE NoFails DEF TypeOK, files, locks, tables, worker, calls
<1>1. CASE Apply(c)
  <2>1. PICK u \in User, k \in Key \ made, m \in BOOLEAN :
            /\ mem' = [mem EXCEPT ![c] = [user |-> u, key |-> k, mail |-> m]]
            /\ made' = made \cup {k}
    BY <1>1 DEF Apply
  <2>2. [user |-> u, key |-> k, mail |-> m] \in Local
    BY DEF Local
  <2> QED BY <1>1, <2>1, <2>2 DEF Apply, Stage
<1>2. CASE Refused(c) \/ Fail(c)
  BY <1>2, BlankIsLocal DEF Refused, Fail, Answer, Stage
<1>3. CASE Tested(c)
  BY <1>3 DEF Tested, Goto, Stage
<1>4. CASE Seed(c)
  BY <1>4 DEF Seed, Goto, Stage
<1>5. CASE SetAdmin(c)
  <2>1. mem[c].user \in User
    BY DEF Local
  <2> QED BY <1>5, <2>1 DEF SetAdmin, Goto, Stage
<1>6. CASE SetSettings(c)
  <2>1. mem[c].key \in Key \cup {"none"}
    BY DEF Local
  <2> QED BY <1>6, <2>1 DEF SetSettings, Goto, Stage
<1>7. CASE WriteEnv(c)
  <2>1. mem[c].key \in Key \cup {"none"}
    BY DEF Local
  <2> QED BY <1>7, <2>1 DEF WriteEnv, Goto, Stage
<1>8. CASE Mark(c)
  BY <1>8 DEF Mark, Goto, Stage
<1>9. CASE Drop(c)
  BY <1>9, BlankIsLocal DEF Drop, Answer, Stage
<1> QED
  BY <1>1, <1>2, <1>3, <1>4, <1>5, <1>6, <1>7, <1>8, <1>9 DEF Bootstrap, Finalise

LEMMA TypeNext == TypeOK /\ [Next]_vars => TypeOK'
<1> SUFFICES ASSUME TypeOK, [Next]_vars PROVE TypeOK'
  OBVIOUS
<1>1. CASE UNCHANGED vars
  BY <1>1 DEF TypeOK, vars
<1>2. CASE Boot
  BY <1>2 DEF Boot, TypeOK, locks, tables, calls
<1>3. CASE Die
  BY <1>3, NoFails, BlankIsLocal DEF Die, TypeOK, files, tables, Stage
<1>4. CASE Damage
  BY <1>4 DEF Damage, TypeOK, locks, worker, tables, calls
<1>5. CASE WrongToken
  <2>1. fails' \in 0..Limit - 1 /\ locked' \in BOOLEAN
    <3>1. fails \in Nat /\ Limit \in Nat /\ 0 \in 0..Limit - 1 /\ locked \in BOOLEAN
      BY NoFails DEF TypeOK
    <3>2. CASE fails + 1 >= Limit
      BY <1>5, <3>1, <3>2 DEF WrongToken
    <3>3. CASE ~(fails + 1 >= Limit)
      BY <1>5, <3>1, <3>3 DEF WrongToken
    <3> QED BY <3>2, <3>3
  <2> QED BY <1>5, <2>1 DEF WrongToken, TypeOK, worker, tables, calls
<1>6. CASE RightToken
  BY <1>6, NoFails DEF RightToken, TypeOK, worker, tables, calls
<1>7. CASE Unlock
  BY <1>7 DEF Unlock, TypeOK, files, worker, tables, calls
<1>8. CASE \E c \in Caller : Apply(c) \/ Refused(c) \/ Fail(c) \/ Tested(c)
                             \/ Bootstrap(c) \/ Finalise(c)
  BY <1>8, TypeCall
<1> QED
  BY <1>1, <1>2, <1>3, <1>4, <1>5, <1>6, <1>7, <1>8 DEF Next

\* Every variable stays in its type (wsgi.py, setup/).
THEOREM SetupTypes == Spec => []TypeOK
  BY TypeInit, TypeNext, PTL DEF Spec

-----------------------------------------------------------------------------
(* FirstSetup: the wizard does not open again. *)

LEMMA ClosedNext ==
  ASSUME "readonly" \notin Faults, TypeOK, Closed, [Next]_vars
  PROVE  Closed'
<1> SUFFICES ASSUME Flag # "force" PROVE Closed'
  BY DEF Closed
<1> USE DEF Closed, TypeOK
<1>1. CASE UNCHANGED vars
  BY <1>1 DEF vars
<1>2. CASE Boot
  <2>1. CASE ShouldEnterSetup
    <3>1. ~sentinel
      BY <2>1 DEF ShouldEnterSetup
    <3>2. ~served
      BY <3>1
    <3> QED BY <1>2, <2>1, <3>2 DEF Boot
  <2>2. CASE ~ShouldEnterSetup
    BY <1>2, <2>2 DEF Boot
  <2> QED BY <2>1, <2>2
<1>3. CASE Die
  BY <1>3 DEF Die, files
<1>4. CASE Damage \/ WrongToken \/ RightToken \/ Unlock
  BY <1>4 DEF Damage, WrongToken, RightToken, Unlock, files, worker
<1>5. ASSUME NEW c \in Caller,
             Apply(c) \/ Refused(c) \/ Fail(c) \/ Tested(c) \/ Bootstrap(c) \/ Finalise(c)
      PROVE  Closed'
  BY <1>5 DEF Apply, Refused, Fail, Tested, Bootstrap, Finalise, Seed, SetAdmin,
              SetSettings, WriteEnv, Mark, Drop, files, worker
<1> QED
  BY <1>1, <1>2, <1>3, <1>4, <1>5 DEF Next

\* Where the sentinel can be written, a system that has once served the program never
\* serves the wizard again (resolve_mode, mark_configured).
THEOREM StaysClosed ==
  ASSUME "readonly" \notin Faults
  PROVE  Spec => []NeverReopened
<1>1. Init => Closed
  BY DEF Init, Closed
<1>2. Closed => NeverReopened
  BY DEF Closed, NeverReopened
<1> QED
  BY <1>1, <1>2, ClosedNext, SetupTypes, PTL DEF Spec

-----------------------------------------------------------------------------
(* FirstSetup: a configuration comes after its administrator. *)

\* No step empties the administrators.
LEMMA AdminsStay ==
  ASSUME [Next]_vars, admins # {}
  PROVE  admins' # {}
<1>1. CASE UNCHANGED vars
  BY <1>1 DEF vars
<1>2. CASE Boot \/ Die \/ Damage \/ WrongToken \/ RightToken \/ Unlock
  BY <1>2 DEF Boot, Die, Damage, WrongToken, RightToken, Unlock, tables
<1>3. ASSUME NEW c \in Caller,
             Apply(c) \/ Refused(c) \/ Fail(c) \/ Tested(c) \/ Bootstrap(c) \/ Finalise(c)
      PROVE  admins' # {}
  BY <1>3 DEF Apply, Refused, Fail, Tested, Bootstrap, Finalise, Seed, SetAdmin,
              SetSettings, WriteEnv, Mark, Drop, tables
<1> QED
  BY <1>1, <1>2, <1>3 DEF Next

LEMMA SeededNext ==
  ASSUME TypeOK, Seeded, [Next]_vars
  PROVE  Seeded'
<1> SUFFICES ASSUME admins = {} , admins' = {} PROVE Seeded'
  BY AdminsStay DEF Seeded
<1>0. file \notin Key /\ \A c \in Caller : pc[c] \notin Past
  BY DEF Seeded
<1>1. CASE UNCHANGED vars
  BY <1>0, <1>1 DEF vars, Seeded
<1>2. CASE Boot \/ WrongToken \/ RightToken \/ Unlock
  BY <1>0, <1>2 DEF Boot, WrongToken, RightToken, Unlock, Seeded, calls, files
<1>3. CASE Die
  BY <1>0, <1>3 DEF Die, Seeded, files, Past
<1>4. CASE Damage
  BY <1>0, <1>4, SetupAssumption DEF Damage, Seeded, calls
<1>5. ASSUME NEW c \in Caller,
             Apply(c) \/ Refused(c) \/ Fail(c) \/ Tested(c) \/ Bootstrap(c) \/ Finalise(c)
      PROVE  Seeded'
  <2>1. CASE Apply(c) \/ Refused(c) \/ Fail(c) \/ Tested(c) \/ Seed(c)
    <3>1. file' = file
      BY <2>1 DEF Apply, Refused, Fail, Tested, Seed, files
    <3>2. PICK stage \in {"idle", "test", "seed", "admin"} : pc' = [pc EXCEPT ![c] = stage]
      BY <2>1 DEF Apply, Refused, Fail, Tested, Seed, Goto, Answer
    <3> QED BY <1>0, <3>1, <3>2 DEF Seeded, Past, TypeOK
  <2>2. CASE SetAdmin(c)
    BY <2>2 DEF SetAdmin
  <2>3. CASE SetSettings(c) \/ Finalise(c)
    BY <1>0, <2>3 DEF SetSettings, Finalise, WriteEnv, Mark, Drop, Past
  <2> QED BY <1>5, <2>1, <2>2, <2>3 DEF Bootstrap
<1> QED
  BY <1>1, <1>2, <1>3, <1>4, <1>5 DEF Next

\* A configuration that the wizard wrote belongs to a database with an administrator,
\* however many callers apply at once and wherever they fail or crash
\* (_orchestrate_apply, bootstrap_db).
THEOREM SeededFirst == Spec => []WrittenMeansSeeded
<1>1. Init => Seeded
  BY SetupAssumption DEF Init, Seeded, Past
<1>2. Seeded => WrittenMeansSeeded
  BY DEF Seeded, WrittenMeansSeeded
<1> QED
  BY <1>1, <1>2, SeededNext, SetupTypes, PTL DEF Spec

-----------------------------------------------------------------------------
(* SshCommand, Terminal and Sftp: types. *)

LEMMA CommandConstants ==
  MostOutput \in Nat \ {0} /\ MostWritten \in Nat /\ Times \in Nat
  BY SessionsAssumption DEF Sh!SshAssumption

LEMMA CommandUnread == Sh!Unread \in [Sh!Read -> 0..MostOutput]
  BY CommandConstants DEF Sh!Unread

LEMMA CommandTypeInit == Sh!Init => Sh!TypeOK
<1> SUFFICES ASSUME Sh!Init PROVE Sh!TypeOK
  OBVIOUS
<1>1. shRemote \in Sh!Remote /\ shAnswer \in Sh!Answer
  BY CommandConstants DEF Sh!Init, Sh!Remote, Sh!Running, Sh!Answer, Sh!Nothing
<1>2. shGot \in [Sh!Read -> 0..MostOutput]
  BY CommandUnread DEF Sh!Init
<1>3. shUsed \in 0..Times /\ shBuffer \in 0..MostWritten
  BY CommandConstants DEF Sh!Init
<1> QED BY <1>1, <1>2, <1>3 DEF Sh!Init, Sh!TypeOK

\* What a command may be answered, and what it may have done.
LEMMA CommandValues ==
  /\ Sh!Nothing \in Sh!Answer /\ Sh!Running \in Sh!Remote
  /\ [Sh!Nothing EXCEPT !.kind = "blocked"] \in Sh!Answer
  /\ [Sh!Nothing EXCEPT !.kind = "timeout"] \in Sh!Answer
  /\ [Sh!Nothing EXCEPT !.kind = "None"] \in Sh!Answer
  /\ \A cut \in BOOLEAN, bytes \in 0..MostOutput :
        [kind |-> "text", cut |-> cut, bytes |-> bytes] \in Sh!Answer
<1>1. 0 \in 0..MostOutput /\ 0 \in 0..MostWritten
  BY CommandConstants
<1> QED BY <1>1 DEF Sh!Nothing, Sh!Answer, Sh!Running, Sh!Remote

LEMMA CommandTypeNext ==
  ASSUME Sh!TypeOK, Sh!Next \/ UNCHANGED sh
  PROVE  Sh!TypeOK'
<1>1. CASE UNCHANGED sh
  BY <1>1 DEF sh, Sh!TypeOK
<1>2. CASE Sh!Connect \/ Sh!Close
  <2>1. shUsed' \in 0..Times
    <3>1. shUsed \in 0..Times /\ (shUsed' = shUsed \/ shUsed' = 0)
      BY <1>2 DEF Sh!TypeOK, Sh!Connect, Sh!Close
    <3> QED BY <3>1, CommandConstants
  <2> QED BY <1>2, <2>1, CommandValues DEF Sh!TypeOK, Sh!Connect, Sh!Close
<1>3. CASE Sh!Blocked
  <2>1. shUsed' \in 0..Times
    BY <1>3, CommandConstants DEF Sh!TypeOK, Sh!Blocked
  <2> QED BY <1>3, <2>1, CommandValues DEF Sh!TypeOK, Sh!Blocked
<1>4. CASE Sh!Begin
  <2>1. shUsed' \in 0..Times /\ shBuffer' \in 0..MostWritten
    BY <1>4, CommandConstants DEF Sh!TypeOK, Sh!Begin
  <2> QED BY <1>4, <2>1, CommandValues, CommandUnread DEF Sh!TypeOK, Sh!Begin
<1>5. CASE Sh!Poll
  <2>1. shAnswer' \in Sh!Answer
    BY <1>5, CommandValues DEF Sh!TypeOK, Sh!Poll
  <2> QED BY <1>5, <2>1 DEF Sh!TypeOK, Sh!Poll, Sh!Over
<1>6. CASE Sh!Recv
  <2> DEFINE t == Sh!Turn
             n == Sh!Least(shBuffer, MostOutput - shGot[t])
  <2>1. t \in Sh!Read /\ shGot \in [Sh!Read -> 0..MostOutput] /\ shBuffer \in 0..MostWritten
    BY DEF Sh!TypeOK, Sh!Turn, Sh!Read
  <2>2. n \in 0..shBuffer /\ shGot[t] + n \in 0..MostOutput /\ shBuffer - n \in 0..MostWritten
    <3> HIDE DEF t
    <3>1. shGot[t] \in 0..MostOutput
      BY <2>1
    <3> QED BY <2>1, <3>1, CommandConstants DEF Sh!Least
  <2>3. /\ shBuffer' = shBuffer - n /\ shGot' = [shGot EXCEPT ![t] = shGot[t] + n]
        /\ UNCHANGED <<shUsed, shRemote, shAnswer, shError>>
        /\ shPc' \in {"first", "second", "status"}
    BY <1>6 DEF Sh!TypeOK, Sh!Recv, Sh!Over, Sh!Turn
  <2> HIDE DEF t, n
  <2>4. shBuffer' \in 0..MostWritten /\ shGot' \in [Sh!Read -> 0..MostOutput]
    BY <2>1, <2>2, <2>3
  <2>5. shLate' \in BOOLEAN
    BY <1>6 DEF Sh!TypeOK, Sh!Recv, Sh!Over
  <2> QED BY <2>3, <2>4, <2>5 DEF Sh!TypeOK
<1>7. CASE Sh!Finish
  <2> DEFINE bytes == IF shGot["first"] > 0 THEN shGot["first"] ELSE shGot["second"]
  <2>1. bytes \in 0..MostOutput
    <3>1. "first" \in Sh!Read /\ "second" \in Sh!Read /\ shGot \in [Sh!Read -> 0..MostOutput]
      BY DEF Sh!TypeOK, Sh!Read
    <3>2. shGot["first"] \in 0..MostOutput /\ shGot["second"] \in 0..MostOutput
      BY <3>1
    <3> QED BY <3>2
  <2>2. PICK cut \in BOOLEAN :
           shAnswer' = IF shRemote.code = "zero"
                       THEN [kind |-> "text", cut |-> cut, bytes |-> bytes]
                       ELSE [Sh!Nothing EXCEPT !.kind = "None"]
    BY <1>7 DEF Sh!Finish
  <2> HIDE DEF bytes
  <2>3. shAnswer' \in Sh!Answer
    BY <2>1, <2>2, CommandValues
  <2>4. shError' \in BOOLEAN
    BY <1>7 DEF Sh!Finish
  <2> QED BY <1>7, <2>3, <2>4 DEF Sh!TypeOK, Sh!Finish
<1>8. CASE Sh!Fails
  BY <1>8, CommandValues DEF Sh!TypeOK, Sh!Fails
<1>9. CASE Sh!Write
  <2>1. shBuffer' \in 0..MostWritten
    <3>1. shBuffer \in 0..MostWritten
      BY DEF Sh!TypeOK
    <3>2. shBuffer' = IF shBuffer < MostWritten THEN shBuffer + 1 ELSE shBuffer
      BY <1>9 DEF Sh!Write
    <3> QED BY <3>1, <3>2, CommandConstants
  <2>2. shRemote' \in Sh!Remote
    <3>1. shRemote.wrote \in 0..MostWritten /\ shRemote \in Sh!Remote
      BY DEF Sh!TypeOK, Sh!Remote
    <3>2. CASE shRemote.wrote < MostWritten /\ shRemote' = [shRemote EXCEPT !.wrote = @ + 1]
      <4>1. shRemote.wrote + 1 \in 0..MostWritten
        BY <3>1, <3>2, CommandConstants
      <4> QED BY <3>1, <3>2, <4>1 DEF Sh!Remote
    <3> QED BY <1>9, <3>1, <3>2 DEF Sh!Write
  <2> QED BY <1>9, <2>1, <2>2 DEF Sh!TypeOK, Sh!Write
<1>10. CASE Sh!Complain \/ Sh!Exit \/ Sh!CloseOutput \/ Sh!Deadline
  BY <1>10 DEF Sh!TypeOK, Sh!Complain, Sh!Exit, Sh!CloseOutput, Sh!Deadline, Sh!Remote
<1> QED BY <1>1, <1>2, <1>3, <1>4, <1>5, <1>6, <1>7, <1>8, <1>9, <1>10 DEF Sh!Next, Sh!Reader

LEMMA TerminalConstants ==
  /\ Narrowest \in Nat /\ Default \in Nat /\ Widest \in Nat /\ Widths \subseteq Nat
  /\ Narrowest <= Default /\ Default <= Widest
  BY SessionsAssumption DEF Tm!TerminalAssumption

LEMMA TerminalTypeInit == Tm!Init => Tm!TypeOK
<1> SUFFICES ASSUME Tm!Init PROVE Tm!TypeOK
  OBVIOUS
<1>1. tmWidth \in Narrowest..Widest
  BY TerminalConstants DEF Tm!Init
<1>2. tmPc \in [Tm!Greenlet -> {"none", "handshake"}]
  BY DEF Tm!Init
<1> QED BY <1>1, <1>2 DEF Tm!Init, Tm!TypeOK, Tm!Typed

\* Whatever a browser asks for, the width keeps between the two bounds.
LEMMA Clamped == ASSUME NEW cols \in Widths PROVE Tm!Clamp(cols) \in Narrowest..Widest
  BY TerminalConstants DEF Tm!Clamp, Tm!Most, Tm!Least

TerminalLabel == {"none", "handshake", "first", "permit", "connect", "loop", "close",
                  "close ws", "closed", "sleep", "done"}

LEMMA TerminalGoes ==
  ASSUME Tm!TypeOK
  PROVE  /\ \A g \in Tm!Greenlet, l \in TerminalLabel :
               Tm!Goto(g, l) => tmPc' \in [Tm!Greenlet -> TerminalLabel]
         /\ tmPc' = [tmPc EXCEPT !["in"] = "first", !["renew"] = "sleep"]
               => tmPc' \in [Tm!Greenlet -> TerminalLabel]
         /\ tmPc' = [tmPc EXCEPT !["in"] = "loop", !["out"] = "loop"]
               => tmPc' \in [Tm!Greenlet -> TerminalLabel]
         /\ UNCHANGED tmPc => tmPc' \in [Tm!Greenlet -> TerminalLabel]
         /\ Tm!Greenlet = {"in", "out", "renew"}
  BY DEF Tm!TypeOK, Tm!Goto, Tm!Greenlet, TerminalLabel

\* What Tm!TypeOK says of everything but the labels.
TerminalValues ==
    /\ tmToken \in {"full", "low", "gone"} /\ tmAllowed \in BOOLEAN
    /\ tmWs \in {"open", "closed"} /\ tmPeer \in {"here", "left", "vanished"}
    /\ tmTyped \in Tm!Typed /\ tmPrinted \in BOOLEAN
    /\ tmConn \in {"none", "open", "closed", "left over"}
    /\ tmWidth \in Narrowest..Widest
    /\ tmQuiet \in BOOLEAN /\ tmClosing \in BOOLEAN

LEMMA TerminalTypeNext ==
  ASSUME Tm!TypeOK, Tm!Next \/ UNCHANGED tm
  PROVE  Tm!TypeOK'
<1> DEFINE Labels == tmPc' \in [Tm!Greenlet -> TerminalLabel]
<1>0. TerminalValues /\ Tm!Greenlet = {"in", "out", "renew"}
  BY DEF Tm!TypeOK, TerminalValues, Tm!Greenlet
<1>1. CASE UNCHANGED tm
  BY <1>1 DEF tm, Tm!TypeOK
<1>2. CASE Tm!Handshake
  <2>1. Labels
    BY <1>0, <1>2, TerminalGoes DEF Tm!Handshake, TerminalLabel
  <2>2. TerminalValues'
    BY <1>0, <1>2 DEF TerminalValues, Tm!Handshake, Tm!Renewed
  <2> QED BY <2>1, <2>2 DEF Tm!TypeOK, TerminalValues, TerminalLabel
<1>3. CASE Tm!First
  <2>1. Labels
    BY <1>0, <1>3, TerminalGoes DEF Tm!First, Tm!Refuse, TerminalLabel
  <2>2. TerminalValues'
    BY <1>0, <1>3 DEF TerminalValues, Tm!First, Tm!Refuse, Tm!Typed
  <2> QED BY <2>1, <2>2 DEF Tm!TypeOK, TerminalValues, TerminalLabel
<1>4. CASE Tm!Permit \/ Tm!Return
  <2>1. Labels
    BY <1>0, <1>4, TerminalGoes DEF Tm!Permit, Tm!Return, Tm!Refuse, TerminalLabel
  <2>2. TerminalValues'
    BY <1>0, <1>4 DEF TerminalValues, Tm!Permit, Tm!Return, Tm!Refuse
  <2> QED BY <2>1, <2>2 DEF Tm!TypeOK, TerminalValues, TerminalLabel
<1>5. CASE Tm!Connect
  <2>1. Labels
    BY <1>0, <1>5, TerminalGoes DEF Tm!Connect, Tm!Refuse, TerminalLabel
  <2>2. TerminalValues'
    BY <1>0, <1>5 DEF TerminalValues, Tm!Connect, Tm!Refuse
  <2> QED BY <2>1, <2>2 DEF Tm!TypeOK, TerminalValues, TerminalLabel
<1>6. CASE Tm!Input
  <2>1. Labels
    BY <1>0, <1>6, TerminalGoes DEF Tm!Input, TerminalLabel
  <2>2. tmWidth' \in Narrowest..Widest
    BY <1>0, <1>6, Clamped DEF TerminalValues, Tm!Input
  <2>3. TerminalValues'
    BY <1>0, <1>6, <2>2 DEF TerminalValues, Tm!Input, Tm!Typed
  <2> QED BY <2>1, <2>3 DEF Tm!TypeOK, TerminalValues, TerminalLabel
<1>7. CASE Tm!Output
  <2>1. Labels
    BY <1>0, <1>7, TerminalGoes DEF Tm!Output, TerminalLabel
  <2>2. TerminalValues'
    BY <1>0, <1>7 DEF TerminalValues, Tm!Output
  <2> QED BY <2>1, <2>2 DEF Tm!TypeOK, TerminalValues, TerminalLabel
<1>8. CASE Tm!Renew
  <2>1. Labels
    BY <1>0, <1>8, TerminalGoes DEF Tm!Renew, TerminalLabel, TerminalValues
  <2>2. TerminalValues'
    BY <1>0, <1>8 DEF TerminalValues, Tm!Renew, Tm!Renewed
  <2> QED BY <2>1, <2>2 DEF Tm!TypeOK, TerminalValues, TerminalLabel
<1>9. ASSUME NEW g \in {"in", "out"}, Tm!Close(g)
      PROVE  Tm!TypeOK'
  <2>1. Labels
    BY <1>0, <1>9, TerminalGoes DEF Tm!Close, Tm!CloseSsh, Tm!CloseWs, TerminalLabel
  <2>2. TerminalValues'
    BY <1>0, <1>9 DEF TerminalValues, Tm!Close, Tm!CloseSsh, Tm!CloseWs
  <2> QED BY <2>1, <2>2 DEF Tm!TypeOK, TerminalValues, TerminalLabel
<1>10. CASE Tm!World
  BY <1>10 DEF Tm!TypeOK, Tm!World, Tm!TokenAges, Tm!Revoke, Tm!Type, Tm!Show,
               Tm!RemoteCloses, Tm!PeerGoes, Tm!GoQuiet, Tm!Typed
<1> QED BY <1>1, <1>2, <1>3, <1>4, <1>5, <1>6, <1>7, <1>8, <1>9, <1>10 DEF Tm!Next, Tm!Bridge

LEMMA TransferConstants ==
  NoPath \notin Path /\ UploadLimit \in Nat /\ Chunk \subseteq Nat /\ Polite \in BOOLEAN
  BY SessionsAssumption DEF Ft!SftpAssumption

LEMMA TransferTypeInit == Ft!Init => Ft!TypeOK
  BY TransferConstants DEF Ft!Init, Ft!TypeOK, Ft!Row, Ft!NoRow, Ft!Absent

LEMMA TransferSizes ==
  /\ Ft!Absent \in Ft!Absent..UploadLimit /\ 0..UploadLimit \subseteq Ft!Absent..UploadLimit
  /\ \A n \in Ft!Absent..UploadLimit : n # Ft!Absent => n \in Nat
  BY TransferConstants DEF Ft!Absent

LEMMA TransferTypeNext ==
  ASSUME Ft!TypeOK, Ft!Next \/ UNCHANGED ft
  PROVE  Ft!TypeOK'
<1> USE TransferConstants, TransferSizes
<1>0. Ft!NoRow \in Ft!Row
  BY DEF Ft!NoRow, Ft!Row
<1>00. ASSUME NEW p \in Path \cup {NoPath}, NEW bytes \in Nat, NEW good \in BOOLEAN,
              Ft!Audit(p, bytes, good)
       PROVE  ftRow' \in Ft!Row
  BY <1>00 DEF Ft!Row, Ft!Audit
<1>1. CASE UNCHANGED ft
  BY <1>1 DEF ft, Ft!TypeOK
<1>2. CASE Ft!Open \/ Ft!Look \/ Ft!Leave
  BY <1>0, <1>2 DEF Ft!TypeOK, Ft!Open, Ft!Look, Ft!Leave, Ft!Quiet
<1>3. ASSUME NEW p \in Path, Ft!Download(p) PROVE Ft!TypeOK'
  <2>1. \/ ftRemote[p] # Ft!Absent /\ Ft!Audit(p, ftRemote[p], TRUE)
        \/ Ft!Audit(p, 0, FALSE)
    BY <1>3 DEF Ft!Download
  <2>2. ftRow' \in Ft!Row
    BY <1>00, <2>1 DEF Ft!TypeOK
  <2> QED BY <1>3, <2>2 DEF Ft!TypeOK, Ft!Download
<1>4. ASSUME NEW p \in Path, Ft!MkDir(p) \/ Ft!Rm(p) PROVE Ft!TypeOK'
  <2>1. ftRow' \in Ft!Row
    BY <1>00, <1>4 DEF Ft!MkDir, Ft!Rm, Ft!Refused
  <2>2. ftRemote' \in [Path -> Ft!Absent..UploadLimit]
    BY <1>4 DEF Ft!TypeOK, Ft!MkDir, Ft!Rm, Ft!Refused
  <2> QED BY <1>4, <2>1, <2>2 DEF Ft!TypeOK, Ft!MkDir, Ft!Rm
<1>5. ASSUME NEW p \in Path, NEW q \in Path, Ft!Rename(p, q) PROVE Ft!TypeOK'
  <2>1. ftRow' \in Ft!Row
    <3>1. Ft!Audit(q, 0, TRUE) \/ Ft!Audit(p, 0, FALSE)
      BY <1>5 DEF Ft!Rename, Ft!Refused, Ft!Audit
    <3> QED BY <1>00, <3>1
  <2>2. ftRemote' \in [Path -> Ft!Absent..UploadLimit]
    BY <1>5 DEF Ft!TypeOK, Ft!Rename, Ft!Refused
  <2> QED BY <1>5, <2>1, <2>2 DEF Ft!TypeOK, Ft!Rename
<1>6. ASSUME NEW p \in Path, Ft!UploadStart(p) PROVE Ft!TypeOK'
  BY <1>0, <1>6 DEF Ft!TypeOK, Ft!UploadStart
<1>7. ASSUME Ft!Finish PROVE ftRow' \in Ft!Row
  <2>1. ftSent \in Nat /\ ftName \in Path \cup {NoPath}
    BY DEF Ft!TypeOK
  <2> QED BY <1>00, <1>7, <2>1 DEF Ft!Finish
<1>8. ASSUME NEW n \in Chunk, Ft!UploadChunk(n) PROVE Ft!TypeOK'
  <2>1. n \in Nat /\ ftSent \in 0..UploadLimit
    BY DEF Ft!TypeOK
  <2>2. ASSUME NEW k \in 0..UploadLimit, Ft!Written(k)
        PROVE  ftRemote' \in [Path -> Ft!Absent..UploadLimit]
    BY <2>2 DEF Ft!TypeOK, Ft!Written
  <2>3. CASE ftSent + n > UploadLimit /\ Ft!Finish /\ UNCHANGED ftRemote
    BY <1>7, <2>3 DEF Ft!TypeOK, Ft!Finish
  <2>4. CASE /\ ftSent + n <= UploadLimit /\ Ft!Written(ftSent + n)
             /\ ftSent' = ftSent + n /\ ftRow' = Ft!NoRow
             /\ UNCHANGED <<ftSession, ftFile, ftName>>
    <3>1. ftSent + n \in 0..UploadLimit
      BY <2>1, <2>4
    <3> QED BY <1>0, <2>2, <2>4, <3>1 DEF Ft!TypeOK
  <2>5. CASE /\ ftSent + n <= UploadLimit
             /\ \E k \in ftSent..ftSent + n : Ft!Written(k)
             /\ Ft!Finish
    <3>1. PICK k \in ftSent..ftSent + n : Ft!Written(k)
      BY <2>5
    <3>2. k \in 0..UploadLimit
      BY <2>1, <2>5
    <3> QED BY <1>7, <2>2, <2>5, <3>1, <3>2 DEF Ft!TypeOK, Ft!Finish
  <2> QED BY <1>8, <2>3, <2>4, <2>5 DEF Ft!UploadChunk
<1>9. CASE Ft!UploadEnd
  <2>1. CASE Ft!Finish /\ UNCHANGED ftRemote
    BY <1>7, <2>1 DEF Ft!TypeOK, Ft!Finish
  <2>2. CASE Ft!Quiet /\ UNCHANGED <<ftSession, ftFile, ftName, ftSent, ftRemote>>
    BY <1>0, <2>2 DEF Ft!TypeOK, Ft!Quiet
  <2> QED BY <1>9, <2>1, <2>2 DEF Ft!UploadEnd
<1> QED BY <1>1, <1>2, <1>3, <1>4, <1>5, <1>6, <1>8, <1>9 DEF Ft!Next, Ft!Operate, Ft!Upload

-----------------------------------------------------------------------------
(* Terminal: the handler returns with its connection closed. *)

\* Before the connection there is nothing to close and nobody else to close it; the flag is
\* set by who closes, and nothing opens a connection after that.
TerminalInv ==
    /\ Tm!TypeOK
    /\ tmPc["in"] \in {"handshake", "first", "permit", "connect"} =>
          tmConn = "none" /\ tmPc["out"] = "none" /\ ~tmClosing
    /\ tmClosing => tmConn # "open"
    /\ \A g \in {"in", "out"} : tmPc[g] \in {"close ws", "closed"} => tmClosing
    /\ Tm!NothingLeftOpen

LEMMA TerminalPasses ==
  ASSUME TerminalInv, NEW l
  PROVE  /\ Tm!Goto("in", l) => tmPc'["in"] = l /\ tmPc'["out"] = tmPc["out"]
         /\ Tm!Goto("out", l) => tmPc'["out"] = l /\ tmPc'["in"] = tmPc["in"]
         /\ Tm!Goto("renew", l) => tmPc'["in"] = tmPc["in"] /\ tmPc'["out"] = tmPc["out"]
  BY DEF TerminalInv, Tm!TypeOK, Tm!Goto, Tm!Greenlet

LEMMA TerminalNext ==
  ASSUME TerminalInv, Tm!Next \/ UNCHANGED tm
  PROVE  TerminalInv'
<1>0. Tm!TypeOK /\ Tm!TypeOK'
  BY TerminalTypeNext DEF TerminalInv
<1> USE DEF TerminalInv, Tm!NothingLeftOpen
<1>1. CASE UNCHANGED tm
  BY <1>0, <1>1 DEF tm
<1>2. CASE Tm!Handshake
  <2>1. CASE tmToken = "gone"
    BY <1>0, <1>2, <2>1, TerminalPasses DEF Tm!Handshake
  <2>2. CASE tmToken # "gone"
    <3>1. tmPc'["in"] = "first" /\ tmPc'["out"] = tmPc["out"]
      BY <1>0, <1>2, <2>2 DEF Tm!Handshake, Tm!TypeOK, Tm!Greenlet
    <3> QED BY <1>0, <1>2, <2>2, <3>1 DEF Tm!Handshake
  <2> QED BY <2>1, <2>2
<1>3. CASE Tm!First \/ Tm!Permit
  BY <1>0, <1>3, TerminalPasses DEF Tm!First, Tm!Permit, Tm!Refuse
<1>4. CASE Tm!Connect
  <2>1. CASE /\ tmConn' = "open" /\ tmPc' = [tmPc EXCEPT !["in"] = "loop", !["out"] = "loop"]
             /\ UNCHANGED <<tmWs, tmClosing>>
    <3>1. tmPc'["in"] = "loop" /\ tmPc'["out"] = "loop"
      BY <1>0, <2>1 DEF Tm!TypeOK, Tm!Greenlet
    <3> QED BY <1>0, <1>4, <2>1, <3>1 DEF Tm!Connect
  <2>2. CASE Tm!Refuse
    BY <1>0, <1>4, <2>2, TerminalPasses DEF Tm!Connect, Tm!Refuse
  <2>3. CASE /\ tmConn' = "left over" /\ tmWs' = "closed" /\ Tm!Goto("in", "done")
             /\ UNCHANGED tmClosing
    BY <1>0, <1>4, <2>3, TerminalPasses DEF Tm!Connect
  <2> QED BY <1>4, <2>1, <2>2, <2>3 DEF Tm!Connect
<1>5. CASE Tm!Input
  <2>1. UNCHANGED <<tmConn, tmClosing, tmWs>> /\ tmPc["in"] = "loop"
        /\ (UNCHANGED tmPc \/ Tm!Goto("in", "close"))
    BY <1>5 DEF Tm!Input
  <2> QED BY <1>0, <2>1, TerminalPasses
<1>6. CASE Tm!Output
  <2>1. UNCHANGED <<tmConn, tmClosing, tmWs>> /\ tmPc["out"] = "loop"
        /\ (UNCHANGED tmPc \/ Tm!Goto("out", "close"))
    BY <1>6 DEF Tm!Output
  <2> QED BY <1>0, <2>1, TerminalPasses
<1>7. CASE Tm!Return
  BY <1>0, <1>7, TerminalPasses DEF Tm!Return
<1>8. CASE Tm!Renew
  <2>1. UNCHANGED <<tmConn, tmClosing>> /\ tmWs' \in {tmWs, "closed"}
        /\ (UNCHANGED tmPc \/ Tm!Goto("renew", "done"))
    BY <1>0, <1>8 DEF Tm!Renew, Tm!TypeOK
  <2> QED BY <1>0, <2>1, TerminalPasses
<1>9. ASSUME NEW g \in {"in", "out"}, Tm!Close(g)
      PROVE  TerminalInv'
  <2>1. CASE tmPc[g] = "close" /\ Tm!Goto(g, "closed") /\ tmClosing
             /\ UNCHANGED <<tmClosing, tmConn, tmWs>>
    BY <1>0, <2>1, TerminalPasses
  <2>2. CASE tmPc[g] = "close" /\ Tm!Goto(g, "close ws") /\ tmClosing' = TRUE
             /\ tmConn' = "closed" /\ UNCHANGED tmWs
    BY <1>0, <2>2, TerminalPasses
  <2>3. CASE tmPc[g] = "close ws" /\ Tm!Goto(g, "closed") /\ tmWs' = "closed"
             /\ UNCHANGED <<tmClosing, tmConn>>
    BY <1>0, <2>3, TerminalPasses
  <2> QED BY <1>9, <2>1, <2>2, <2>3 DEF Tm!Close, Tm!CloseSsh, Tm!CloseWs
<1>10. CASE Tm!World
  <2>1. /\ UNCHANGED <<tmClosing, tmWs, tmPc>>
        /\ tmConn' = tmConn \/ (tmConn = "open" /\ tmConn' = "closed")
    BY <1>10 DEF Tm!World, Tm!TokenAges, Tm!Revoke, Tm!Type, Tm!Show, Tm!RemoteCloses,
                 Tm!PeerGoes, Tm!GoQuiet
  <2> QED BY <1>0, <2>1
<1> QED BY <1>1, <1>2, <1>3, <1>4, <1>5, <1>6, <1>7, <1>8, <1>9, <1>10 DEF Tm!Next, Tm!Bridge

LEMMA TerminalInit == Tm!Init => TerminalInv
  BY TerminalTypeInit DEF Tm!Init, TerminalInv, Tm!Greenlet, Tm!NothingLeftOpen

\* A terminal's handler returns with its connection and its websocket closed, whichever of
\* its greenlets found the other one closing and whatever the browser, the shell and the
\* session did meanwhile (_close and start of ssh/webssh.py).
THEOREM TerminalCloses == AllSpec => []NothingLeftOpen
<1>1. AllInit => TerminalInv
  BY TerminalInit DEF AllInit
<1>2. TerminalInv /\ [AllNext]_everything => TerminalInv'
  <2> SUFFICES ASSUME [AllNext]_everything PROVE Tm!Next \/ UNCHANGED tm
    BY TerminalNext
  <2> QED BY DEF AllNext, everything
<1>3. TerminalInv => NothingLeftOpen
  BY DEF TerminalInv, NothingLeftOpen
<1> QED BY <1>1, <1>2, <1>3, PTL DEF AllSpec

-----------------------------------------------------------------------------
(* Sftp: the row of an upload. *)

\* During an upload the bridge names the file it writes to, which has what was counted.
TransferInv ==
    /\ Ft!TypeOK
    /\ Polite /\ ftFile # NoPath => ftName = ftFile /\ ftSent <= ftRemote[ftFile]

LEMMA TransferNext ==
  ASSUME TransferInv, Ft!Next \/ UNCHANGED ft
  PROVE  TransferInv'
<1>0. Ft!TypeOK /\ Ft!TypeOK'
  BY TransferTypeNext DEF TransferInv
<1> SUFFICES ASSUME Polite, ftFile' # NoPath
             PROVE  ftName' = ftFile' /\ ftSent' <= ftRemote'[ftFile']
  BY <1>0 DEF TransferInv
<1>1. CASE UNCHANGED ft \/ Ft!Open \/ Ft!Look \/ Ft!Leave
  BY <1>1 DEF TransferInv, ft, Ft!Open, Ft!Look, Ft!Leave
<1>2. CASE Ft!Operate
  BY <1>2 DEF Ft!Operate, Ft!Look, Ft!Download, Ft!MkDir, Ft!Rm, Ft!Rename, Ft!Free, TransferInv
<1>3. ASSUME NEW p \in Path, Ft!UploadStart(p)
      PROVE  ftName' = ftFile' /\ ftSent' <= ftRemote'[ftFile']
  <2>1. ftName' = p /\ ftFile' = p /\ ftSent' = 0 /\ ftRemote' = [ftRemote EXCEPT ![p] = 0]
    BY <1>3 DEF Ft!UploadStart, Ft!Free
  <2> QED BY <1>0, <2>1 DEF Ft!TypeOK
<1>4. ASSUME NEW n \in Chunk, Ft!UploadChunk(n)
      PROVE  ftName' = ftFile' /\ ftSent' <= ftRemote'[ftFile']
  <2>1. /\ Ft!Written(ftSent + n) /\ ftSent' = ftSent + n /\ UNCHANGED <<ftFile, ftName>>
    BY <1>4 DEF Ft!UploadChunk, Ft!Finish
  <2>2. /\ ftFile \in Path /\ ftName = ftFile /\ ftSent \in Nat /\ n \in Nat
        /\ ftRemote \in [Path -> Ft!Absent..UploadLimit] /\ ftSent <= ftRemote[ftFile]
    BY <1>0, <2>1, TransferConstants DEF TransferInv, Ft!TypeOK
  <2>3. ftRemote[ftFile] # Ft!Absent
    BY <2>2 DEF Ft!Absent
  <2>4. ftRemote' = [ftRemote EXCEPT ![ftFile] = ftSent + n]
    BY <2>1, <2>3 DEF Ft!Written
  <2> QED BY <2>1, <2>2, <2>4
<1>5. CASE Ft!UploadEnd
  BY <1>5 DEF Ft!UploadEnd, Ft!Finish
<1> QED BY <1>1, <1>2, <1>3, <1>4, <1>5 DEF Ft!Next, Ft!Upload

\* What RowIsTrue says of a step.
TransferStep ==
    Polite /\ ftRow'.good /\ ftFile # NoPath /\ ftFile' = NoPath =>
        ftRow'.path = ftFile /\ ftRow'.bytes <= ftRemote'[ftFile]

LEMMA TransferTold ==
  ASSUME TransferInv, Ft!Next \/ UNCHANGED ft
  PROVE  TransferStep
<1> SUFFICES ASSUME Polite, ftRow'.good, ftFile # NoPath, ftFile' = NoPath
             PROVE  ftRow'.path = ftFile /\ ftRow'.bytes <= ftRemote'[ftFile]
  BY DEF TransferStep
<1>0. /\ Ft!TypeOK /\ ftFile \in Path /\ ftName = ftFile /\ ftSent \in Nat
      /\ ftSent <= ftRemote[ftFile] /\ ftRemote \in [Path -> Ft!Absent..UploadLimit]
  BY DEF TransferInv, Ft!TypeOK
<1>1. Ft!Finish /\ (\/ UNCHANGED ftRemote
                   \/ \E n \in Chunk : \E k \in ftSent..ftSent + n : Ft!Written(k))
  <2>1. CASE UNCHANGED ft \/ Ft!Open \/ Ft!Operate
    BY <1>0, <2>1, TransferConstants
       DEF ft, Ft!Open, Ft!Operate, Ft!Look, Ft!Download, Ft!MkDir, Ft!Rm, Ft!Rename
  <2>2. CASE Ft!Leave
    BY <2>2 DEF Ft!Leave, Ft!Quiet, Ft!NoRow
  <2>3. CASE Ft!Upload
    <3>1. ~\E p \in Path : Ft!UploadStart(p)
      BY <1>0, TransferConstants DEF Ft!UploadStart, Ft!Free
    <3> QED BY <1>0, <2>3, <3>1 DEF Ft!Upload, Ft!UploadChunk, Ft!UploadEnd
  <2> QED BY <2>1, <2>2, <2>3 DEF Ft!Next
<1>2. ftRow' = [path |-> ftName, bytes |-> ftSent, good |-> TRUE]
  BY <1>1 DEF Ft!Finish, Ft!Audit
<1>3. ftSent <= ftRemote'[ftFile]
  <2>1. CASE UNCHANGED ftRemote
    BY <1>0, <2>1
  <2>2. ASSUME NEW n \in Chunk, NEW k \in ftSent..ftSent + n, Ft!Written(k)
        PROVE  ftSent <= ftRemote'[ftFile]
    <3>1. k \in Int /\ ftSent <= k
      BY <1>0, TransferConstants
    <3> QED BY <1>0, <2>2, <3>1 DEF Ft!Written
  <2> QED BY <1>1, <2>1, <2>2
<1> QED BY <1>0, <1>2, <1>3

\* For a browser that sends one upload at a time, a row of success names the file that was
\* written and no more bytes than it has, whatever the sizes of the chunks and whichever
\* operation on the remote file system raised (upload_start, upload_chunk, _finish_upload).
THEOREM UploadsTold == AllSpec => RowIsTrue
<1>1. AllInit => TransferInv
  BY TransferTypeInit DEF AllInit, Ft!Init, TransferInv
<1>2. [AllNext]_everything => Ft!Next \/ UNCHANGED ft
  BY DEF AllNext, everything
<1>3. TransferInv /\ [AllNext]_everything => TransferInv'
  BY <1>2, TransferNext
<1>4. TransferInv /\ [AllNext]_everything => [TransferStep]_ft
  BY <1>2, TransferTold
<1>5. [][TransferStep]_ft => RowIsTrue
  BY PTL DEF RowIsTrue, Ft!RowIsTrue, TransferStep, ft, Ft!vars
<1> QED BY <1>1, <1>3, <1>4, <1>5, PTL DEF AllSpec

-----------------------------------------------------------------------------
(* Logins: types. *)

LEMMA LoginConstants ==
  /\ Account \cap Stranger = {} /\ "ip" \notin Account /\ IsFiniteSet(Login)
  /\ AccountLimit \in Nat \ {0} /\ AddressLimit \in Nat \ {0}
  /\ Chosen \in Nat \ {0} /\ Session \in Nat \ {0}
<1>1. Lg!LoginsAssumption
  BY SessionsAssumption
<1>2. {AccountLimit, AddressLimit, Chosen, Session} \subseteq Nat \ {0}
  BY <1>1 DEF Lg!LoginsAssumption
<1>3. Account \cap Stranger = {} /\ "ip" \notin Account /\ IsFiniteSet(Login)
  BY <1>1 DEF Lg!LoginsAssumption, Lg!IsFiniteSet, IsFiniteSet
<1>4. \A n \in {AccountLimit, AddressLimit, Chosen, Session} : n \in Nat \ {0}
  BY <1>2
<1> QED BY <1>3, <1>4

LoginLabel == {"idle", "stored", "account lock", "address lock", "password", "count address",
               "lock address", "count account", "lock account", "done", "token", "expire",
               "clear account", "clear address", "nonce"}

LoginRow == [pc : LoginLabel, name : Account \cup Stranger \cup {Lg!None},
             cap : Captcha \cup {Lg!None}, tok : Token \cup {Lg!None}]

\* What Lg!TypeOK says of everything but the requests.
LoginValues ==
    /\ lgCaptcha \subseteq Captcha /\ lgSpent \subseteq Captcha
    /\ lgFails \in [Lg!Counter -> Nat] /\ lgTried \in [Lg!Counter -> Nat]
    /\ lgLock \in [Lg!Counter -> BOOLEAN]
    /\ lgToken \in [Token -> {Lg!Gone, Lg!Ever} \cup 1..Lg!Most]
    /\ lgNonce \in [Token -> {Lg!Gone} \cup 1..Session]
    /\ lgIssued \subseteq Token /\ lgGiven \subseteq lgIssued

\* A login past its token has one that was issued, only an account is counted as one or
\* gets a token, and a captcha that is about to be spent was found.
LoginOf(x, issued) ==
    /\ x.pc \in {"expire", "clear account", "clear address", "nonce"} => x.tok \in issued
    /\ x.pc \in {"count account", "lock account", "token", "expire", "clear account"} =>
          x.name \in Account
    /\ x.pc = "stored" => x.cap \in Captcha

LoginInv ==
    /\ lgLogin \in [Login -> LoginRow]
    /\ LoginValues
    /\ \A r \in Login : LoginOf(lgLogin[r], lgIssued)

LEMMA LoginTyped == LoginInv => Lg!TypeOK
  BY DEF LoginInv, LoginValues, Lg!TypeOK, LoginRow, LoginLabel

\* A step of one request.
After(r, x) == lgLogin' = [lgLogin EXCEPT ![r] = x]

LEMMA LoginFrame ==
  ASSUME LoginInv, NEW r \in Login, NEW x \in LoginRow, After(r, x)
  PROVE  /\ lgLogin' \in [Login -> LoginRow] /\ lgLogin'[r] = x
         /\ \A q \in Login : q # r => lgLogin'[q] = lgLogin[q]
  BY DEF LoginInv, After

LEMMA LoginGoes ==
  ASSUME LoginInv, NEW r \in Login, NEW l \in LoginLabel, Lg!Goto(r, l)
  PROVE  \E x \in LoginRow : /\ After(r, x) /\ x.pc = l /\ x.name = lgLogin[r].name
                             /\ x.cap = lgLogin[r].cap /\ x.tok = lgLogin[r].tok
<1> DEFINE x == [lgLogin[r] EXCEPT !.pc = l]
<1>1. lgLogin[r] \in LoginRow /\ lgLogin \in [Login -> LoginRow]
  BY DEF LoginInv
<1>2. x \in LoginRow /\ x.pc = l /\ x.name = lgLogin[r].name
      /\ x.cap = lgLogin[r].cap /\ x.tok = lgLogin[r].tok
  BY <1>1 DEF LoginRow
<1>3. After(r, x)
  BY <1>1 DEF After, Lg!Goto, LoginRow
<1> QED BY <1>2, <1>3

LEMMA LoginIdle ==
  /\ Lg!Idle \in LoginRow /\ Lg!Idle.pc = "idle" /\ Lg!Idle.name = Lg!None
  /\ Lg!Idle.cap = Lg!None /\ Lg!Idle.tok = Lg!None
  BY DEF Lg!Idle, LoginRow, LoginLabel

LEMMA LoginLeaves ==
  ASSUME NEW r, Lg!Leave(r)
  PROVE  After(r, Lg!Idle)
  BY DEF Lg!Leave, After

LEMMA LoginStep ==
  ASSUME LoginInv, NEW r \in Login, NEW x \in LoginRow, After(r, x), LoginValues',
         lgIssued \subseteq lgIssued', LoginOf(x, lgIssued')
  PROVE  LoginInv'
<1>1. \A q \in Login : LoginOf(lgLogin'[q], lgIssued')
  <2> SUFFICES ASSUME NEW q \in Login, q # r PROVE LoginOf(lgLogin'[q], lgIssued')
    BY LoginFrame
  <2>1. lgLogin'[q] = lgLogin[q] /\ LoginOf(lgLogin[q], lgIssued)
    BY LoginFrame DEF LoginInv
  <2> QED BY <2>1 DEF LoginOf
<1> QED BY <1>1, LoginFrame DEF LoginInv

LEMMA LoginStays ==
  ASSUME LoginInv, UNCHANGED lgLogin, LoginValues', lgIssued' = lgIssued
  PROVE  LoginInv'
  BY DEF LoginInv

\* What a request finds of itself.
LEMMA LoginNow ==
  ASSUME LoginInv, NEW r \in Login
  PROVE  /\ lgLogin[r] \in LoginRow /\ LoginOf(lgLogin[r], lgIssued) /\ LoginValues
         /\ lgLogin[r].name \in Account \cup Stranger \cup {Lg!None}
         /\ lgLogin[r].cap \in Captcha \cup {Lg!None} /\ lgLogin[r].tok \in Token \cup {Lg!None}
  BY DEF LoginInv, LoginRow

LEMMA LoginValuesStay ==
  ASSUME LoginValues,
         UNCHANGED <<lgCaptcha, lgSpent, lgFails, lgLock, lgTried, lgToken, lgNonce, lgIssued,
                     lgGiven>>
  PROVE  LoginValues'
  BY DEF LoginValues

\* The captcha's values and the others.
LEMMA LoginCaptchas ==
  ASSUME LoginValues, lgCaptcha' \subseteq Captcha, lgSpent' \subseteq Captcha,
         UNCHANGED <<lgFails, lgLock, lgTried, lgToken, lgNonce, lgIssued, lgGiven>>
  PROVE  LoginValues'
  BY DEF LoginValues

LEMMA LoginCounts ==
  ASSUME LoginValues, lgFails' \in [Lg!Counter -> Nat], lgTried' \in [Lg!Counter -> Nat],
         lgLock' \in [Lg!Counter -> BOOLEAN],
         UNCHANGED <<lgCaptcha, lgSpent, lgToken, lgNonce, lgIssued, lgGiven>>
  PROVE  LoginValues'
  BY DEF LoginValues

LEMMA LoginSessions ==
  ASSUME LoginValues, lgToken' \in [Token -> {Lg!Gone, Lg!Ever} \cup 1..Lg!Most],
         lgNonce' \in [Token -> {Lg!Gone} \cup 1..Session],
         lgIssued' \subseteq Token, lgGiven' \subseteq lgIssued',
         UNCHANGED <<lgCaptcha, lgSpent, lgFails, lgLock, lgTried>>
  PROVE  LoginValues'
  BY DEF LoginValues

LEMMA LoginTimes ==
  /\ Lg!Gone \in {Lg!Gone, Lg!Ever} \cup 1..Lg!Most
  /\ Lg!Ever \in {Lg!Gone, Lg!Ever} \cup 1..Lg!Most
  /\ Chosen \in {Lg!Gone, Lg!Ever} \cup 1..Lg!Most /\ Session \in {Lg!Gone, Lg!Ever} \cup 1..Lg!Most
  /\ Lg!Gone \in {Lg!Gone} \cup 1..Session /\ Session \in {Lg!Gone} \cup 1..Session
  BY LoginConstants DEF Lg!Most

LEMMA LoginTypeInit == Lg!Init => LoginInv
<1> SUFFICES ASSUME Lg!Init PROVE LoginInv
  OBVIOUS
<1>1. LoginValues
  BY LoginTimes DEF Lg!Init, LoginValues
<1>2. lgLogin \in [Login -> LoginRow] /\ \A r \in Login : lgLogin[r] = Lg!Idle
  BY LoginIdle DEF Lg!Init
<1>3. \A r \in Login : LoginOf(lgLogin[r], lgIssued)
  BY <1>2, LoginIdle DEF LoginOf
<1> QED BY <1>1, <1>2, <1>3 DEF LoginInv
LEMMA LoginSizes == Lg!Cardinality(Login) = Cardinality(Login)
  BY DEF Lg!Cardinality, Cardinality
\* A request that goes on or leaves, when neither needs anything new.
LEMMA LoginMoves ==
  ASSUME LoginInv, NEW r \in Login, NEW l \in LoginLabel, Lg!Goto(r, l) \/ Lg!Leave(r),
         LoginValues', lgIssued' = lgIssued,
         l \in {"expire", "clear account", "clear address", "nonce"} =>
             lgLogin[r].pc \in {"expire", "clear account", "clear address", "nonce"},
         l \in {"count account", "lock account", "token", "expire", "clear account"} =>
             lgLogin[r].name \in Account,
         l # "stored"
  PROVE  LoginInv'
<1>1. CASE Lg!Leave(r)
  <2>1. LoginOf(Lg!Idle, lgIssued')
    BY LoginIdle DEF LoginOf
  <2> QED BY <1>1, <2>1, LoginLeaves, LoginIdle, LoginStep
<1>2. CASE Lg!Goto(r, l)
  <2>1. PICK x \in LoginRow : /\ After(r, x) /\ x.pc = l /\ x.name = lgLogin[r].name
                              /\ x.tok = lgLogin[r].tok
    BY <1>2, LoginGoes
  <2>2. LoginOf(x, lgIssued')
    BY <2>1, LoginNow DEF LoginOf
  <2> QED BY <2>1, <2>2, LoginStep
<1> QED BY <1>1, <1>2

\* Requests that have a name have one of a counter where that matters.
LEMMA LoginNames ==
  ASSUME LoginInv, NEW r \in Login, lgLogin[r].name \in Account
  PROVE  lgLogin[r].name \in Lg!Counter
  BY DEF Lg!Counter

LEMMA LoginCounter == "ip" \in Lg!Counter /\ Account \subseteq Lg!Counter
  BY DEF Lg!Counter

\* The looks at a lock.
LEMMA LoginLooks ==
  ASSUME LoginInv, NEW r \in Login, NEW k, NEW here, NEW l \in {"address lock", "password"},
         Lg!LookAtLock(r, k, here, l)
  PROVE  LoginInv'
<1>1. LoginValues'
  BY LoginNow, LoginValuesStay DEF Lg!LookAtLock, Lg!NoCount, Lg!NoSession
<1>2. l \in LoginLabel /\ (Lg!Goto(r, l) \/ Lg!Leave(r)) /\ lgIssued' = lgIssued
  BY DEF Lg!LookAtLock, Lg!NoSession, LoginLabel
<1> QED BY <1>1, <1>2, LoginMoves

LEMMA OneMore ==
  ASSUME NEW K, NEW f \in [K -> Nat], NEW k \in K
  PROVE  [f EXCEPT ![k] = f[k] + 1] \in [K -> Nat]
  OBVIOUS

LEMMA LoginCountTyped ==
  ASSUME LoginInv, NEW r \in Login, NEW k \in Lg!Counter, NEW here,
         NEW locking \in LoginLabel, NEW next \in LoginLabel,
         locking = "lock account" => lgLogin[r].name \in Account,
         next = "count account" => lgLogin[r].name \in Account,
         locking \in {"lock account", "lock address"}, next \in {"count account", "done"},
         Lg!Count(r, k, here, locking, next)
  PROVE  LoginInv'
<1>1. lgFails' \in [Lg!Counter -> Nat]
  <2>1. lgFails \in [Lg!Counter -> Nat]
    BY LoginNow DEF LoginValues
  <2>2. lgFails' = [lgFails EXCEPT ![k] = lgFails[k] + 1]
    BY DEF Lg!Count
  <2> QED BY <2>1, <2>2, OneMore
<1>2. LoginValues'
  BY <1>1, LoginNow, LoginCounts DEF Lg!Count, Lg!NoSession, LoginValues
<1>3. lgIssued' = lgIssued
  BY DEF Lg!Count, Lg!NoSession
<1>4. Lg!Goto(r, locking) \/ Lg!Goto(r, next)
  BY DEF Lg!Count
<1>5. CASE Lg!Goto(r, locking)
  BY <1>2, <1>3, <1>5, LoginMoves
<1>6. CASE Lg!Goto(r, next)
  BY <1>2, <1>3, <1>6, LoginMoves
<1> QED BY <1>4, <1>5, <1>6

LEMMA LoginLockTyped ==
  ASSUME LoginInv, NEW r \in Login, NEW k \in Lg!Counter, NEW here,
         NEW next \in {"count account", "done"},
         next = "count account" => lgLogin[r].name \in Account,
         Lg!Lock(r, k, here, next)
  PROVE  LoginInv'
<1>1. lgLock' \in [Lg!Counter -> BOOLEAN]
  BY LoginNow DEF Lg!Lock, LoginValues
<1>2. LoginValues'
  BY <1>1, LoginNow, LoginCounts DEF Lg!Lock, Lg!NoSession, LoginValues
<1>3. lgIssued' = lgIssued /\ Lg!Goto(r, next) /\ next \in LoginLabel
  BY DEF Lg!Lock, Lg!NoSession, LoginLabel
<1> QED BY <1>2, <1>3, LoginMoves

LEMMA LoginClearTyped ==
  ASSUME LoginInv, NEW r \in Login, NEW k \in Lg!Counter,
         NEW here \in {"expire", "clear account", "clear address"},
         NEW next \in {"clear address", "nonce"},
         Lg!Clear(r, k, here, next)
  PROVE  LoginInv'
<1>1. lgFails' \in [Lg!Counter -> Nat] /\ lgTried' \in [Lg!Counter -> Nat]
  BY LoginNow DEF Lg!Clear, LoginValues
<1>2. LoginValues'
  BY <1>1, LoginNow, LoginCounts DEF Lg!Clear, Lg!NoSession, LoginValues
<1>3. lgIssued' = lgIssued /\ Lg!Goto(r, next) /\ next \in LoginLabel /\ lgLogin[r].pc = here
  BY DEF Lg!Clear, Lg!NoSession, LoginLabel
<1> QED BY <1>2, <1>3, LoginMoves
LEMMA LoginPasswordTyped ==
  ASSUME LoginInv, NEW r \in Login, Lg!Password(r)
  PROVE  LoginInv'
<1>1. lgTried \in [Lg!Counter -> Nat]
  BY LoginNow DEF LoginValues
<1>2. lgTried' \in [Lg!Counter -> Nat]
  <2>1. CASE UNCHANGED lgTried
    BY <1>1, <2>1
  <2>2. CASE lgTried' = [k \in Lg!Counter |->
                            lgTried[k] + IF k \in {lgLogin[r].name, "ip"} THEN 1 ELSE 0]
    <3>1. \A k \in Lg!Counter :
             lgTried[k] + (IF k \in {lgLogin[r].name, "ip"} THEN 1 ELSE 0) \in Nat
      BY <1>1
    <3> QED BY <2>2, <3>1
  <2> QED BY <2>1, <2>2 DEF Lg!Password
<1>3. LoginValues'
  BY <1>2, LoginNow, LoginCounts DEF Lg!Password, Lg!NoSession, LoginValues
<1>4. lgIssued' = lgIssued
  BY DEF Lg!Password, Lg!NoSession
<1>5. CASE lgLogin[r].name \in Account /\ Lg!Goto(r, "token")
  BY <1>3, <1>4, <1>5, LoginMoves DEF LoginLabel
<1>6. CASE Lg!Goto(r, "count address")
  BY <1>3, <1>4, <1>6, LoginMoves DEF LoginLabel
<1> QED BY <1>5, <1>6 DEF Lg!Password

LEMMA LoginSpendTyped ==
  ASSUME LoginInv, NEW r \in Login, Lg!Spend(r)
  PROVE  /\ LoginInv'
         /\ \/ Lg!Leave(r)
            \/ \E x \in LoginRow : /\ After(r, x) /\ x.pc = "account lock"
                                   /\ x.name = lgLogin[r].name
<1>0. lgLogin[r] \in LoginRow /\ lgLogin[r].cap \in Captcha /\ LoginValues
  BY LoginNow DEF Lg!Spend, LoginOf
<1>1. LoginValues'
  <2>1. lgCaptcha' \subseteq Captcha
    BY <1>0 DEF Lg!Spend, LoginValues
  <2>2. lgSpent' \subseteq Captcha
    BY <1>0 DEF Lg!Spend, LoginValues
  <2> QED BY <1>0, <2>1, <2>2, LoginCaptchas DEF Lg!Spend, Lg!NoCount, Lg!NoSession
<1>2. lgIssued' = lgIssued
  BY DEF Lg!Spend, Lg!NoSession
<1>3. CASE Lg!Leave(r)
  BY <1>1, <1>2, <1>3, LoginMoves DEF LoginLabel
<1>4. CASE lgLogin' = [lgLogin EXCEPT ![r].pc = "account lock", ![r].cap = Lg!None]
  <2> DEFINE x == [lgLogin[r] EXCEPT !.pc = "account lock", !.cap = Lg!None]
  <2>1. x \in LoginRow /\ x.pc = "account lock" /\ x.name = lgLogin[r].name
    BY <1>0 DEF LoginRow, LoginLabel
  <2>2. After(r, x)
    BY <1>0, <1>4 DEF After, LoginInv, LoginRow
  <2>3. LoginOf(x, lgIssued')
    BY <2>1 DEF LoginOf
  <2> QED BY <1>1, <1>2, <2>1, <2>2, <2>3, LoginStep
<1> QED BY <1>3, <1>4 DEF Lg!Spend

LEMMA LoginBeginTyped ==
  ASSUME LoginInv, NEW r \in Login, NEW name \in Account \cup Stranger, NEW c \in Captcha,
         Lg!Begin(r, name, c)
  PROVE  LoginInv' /\ \E x \in LoginRow : After(r, x) /\ x.pc = "stored" /\ x.cap = c
<1> DEFINE x == [Lg!Idle EXCEPT !.pc = "stored", !.name = name, !.cap = c]
<1>1. x \in LoginRow /\ x.pc = "stored" /\ x.cap = c
  BY LoginIdle DEF Lg!Idle, LoginRow, LoginLabel
<1>2. After(r, x)
  BY DEF After, Lg!Begin
<1>3. LoginOf(x, lgIssued')
  BY <1>1 DEF LoginOf
<1>4. LoginValues' /\ lgIssued' = lgIssued
  BY LoginNow, LoginValuesStay DEF Lg!Begin, Lg!NoCount, Lg!NoSession
<1> QED BY <1>1, <1>2, <1>3, <1>4, LoginStep

LEMMA LoginTokenTyped ==
  ASSUME LoginInv, NEW r \in Login, Lg!SetToken(r)
  PROVE  LoginInv' /\ \E x \in LoginRow : After(r, x) /\ x.pc = "expire"
<1>0. lgLogin[r] \in LoginRow /\ LoginValues /\ lgLogin[r].pc = "token"
  BY LoginNow DEF Lg!SetToken
<1>1. PICK t \in Token \ lgIssued :
          /\ lgToken' = [lgToken EXCEPT ![t] = Lg!Ever]
          /\ lgIssued' = lgIssued \cup {t}
          /\ lgLogin' = [lgLogin EXCEPT ![r].pc = "expire", ![r].tok = t]
  BY DEF Lg!SetToken
<1> DEFINE x == [lgLogin[r] EXCEPT !.pc = "expire", !.tok = t]
<1>2. x \in LoginRow /\ x.pc = "expire" /\ x.tok = t /\ x.name \in Account
  BY <1>0, LoginNow DEF LoginRow, LoginLabel, LoginOf
<1>3. After(r, x)
  BY <1>0, <1>1 DEF After, LoginInv, LoginRow
<1>4. LoginOf(x, lgIssued')
  BY <1>1, <1>2 DEF LoginOf
<1>5. LoginValues'
  <2>1. lgToken' \in [Token -> {Lg!Gone, Lg!Ever} \cup 1..Lg!Most]
    BY <1>0, <1>1, LoginTimes DEF LoginValues
  <2>2. lgNonce' \in [Token -> {Lg!Gone} \cup 1..Session]
    BY <1>0 DEF LoginValues, Lg!SetToken
  <2>3. lgIssued' \subseteq Token /\ lgGiven' \subseteq lgIssued'
    BY <1>0, <1>1 DEF LoginValues, Lg!SetToken
  <2> QED BY <1>0, <2>1, <2>2, <2>3, LoginSessions DEF Lg!SetToken, Lg!NoCount
<1> QED BY <1>1, <1>2, <1>3, <1>4, <1>5, LoginStep

LEMMA LoginExpireTyped ==
  ASSUME LoginInv, NEW r \in Login, Lg!ExpireToken(r)
  PROVE  LoginInv'
<1>0. /\ LoginValues /\ lgLogin[r].pc = "expire"
      /\ lgLogin[r].tok \in lgIssued /\ lgIssued \subseteq Token
  BY LoginNow DEF Lg!ExpireToken, LoginOf, LoginValues
<1>1. lgToken' \in [Token -> {Lg!Gone, Lg!Ever} \cup 1..Lg!Most]
  BY <1>0, LoginTimes DEF LoginValues, Lg!ExpireToken
<1>2. lgNonce' \in [Token -> {Lg!Gone} \cup 1..Session]
  BY <1>0 DEF LoginValues, Lg!ExpireToken
<1>3. lgIssued' \subseteq Token /\ lgGiven' \subseteq lgIssued'
  BY <1>0 DEF LoginValues, Lg!ExpireToken
<1>4. LoginValues'
  BY <1>0, <1>1, <1>2, <1>3, LoginSessions DEF Lg!ExpireToken, Lg!NoCount
<1>5. lgLogin[r].name \in Account
  BY <1>0, LoginNow DEF LoginOf
<1> QED BY <1>0, <1>4, <1>5, LoginMoves DEF Lg!ExpireToken, LoginLabel

LEMMA LoginNonceTyped ==
  ASSUME LoginInv, NEW r \in Login, Lg!SetNonce(r)
  PROVE  LoginInv'
<1>0. /\ LoginValues /\ lgLogin[r].pc = "nonce"
      /\ lgLogin[r].tok \in lgIssued /\ lgIssued \subseteq Token
  BY LoginNow DEF Lg!SetNonce, LoginOf, LoginValues
<1>1. lgToken' \in [Token -> {Lg!Gone, Lg!Ever} \cup 1..Lg!Most]
  BY <1>0 DEF LoginValues, Lg!SetNonce
<1>2. lgNonce' \in [Token -> {Lg!Gone} \cup 1..Session]
  BY <1>0, LoginTimes DEF LoginValues, Lg!SetNonce
<1>3. lgIssued' \subseteq Token /\ lgGiven' \subseteq lgIssued'
  BY <1>0 DEF LoginValues, Lg!SetNonce
<1>4. LoginValues'
  BY <1>0, <1>1, <1>2, <1>3, LoginSessions DEF Lg!SetNonce, Lg!NoCount
<1> QED BY <1>0, <1>4, LoginMoves DEF Lg!SetNonce, LoginLabel
LEMMA LoginStepTyped ==
  ASSUME LoginInv, NEW r \in Login, Lg!Step(r)
  PROVE  LoginInv'
<1>1. CASE Lg!Spend(r)
  BY <1>1, LoginSpendTyped
<1>2. CASE Lg!AccountLock(r) \/ Lg!AddressLock(r)
  BY <1>2, LoginLooks DEF Lg!AccountLock, Lg!AddressLock
<1>3. CASE Lg!Password(r)
  BY <1>3, LoginPasswordTyped
<1>4. /\ Lg!AfterAddress(r) \in {"count account", "done"}
      /\ Lg!AfterAddress(r) = "count account" => lgLogin[r].name \in Account
  BY DEF Lg!AfterAddress
<1>5. CASE Lg!CountAddress(r)
  BY <1>4, <1>5, LoginCountTyped, LoginCounter DEF Lg!CountAddress, LoginLabel
<1>6. CASE Lg!LockAddress(r)
  BY <1>4, <1>6, LoginLockTyped, LoginCounter DEF Lg!LockAddress
<1>7. CASE Lg!CountAccount(r)
  <2>1. lgLogin[r].name \in Account
    BY <1>7, LoginNow DEF Lg!CountAccount, Lg!Count, LoginOf
  <2> QED BY <1>7, <2>1, LoginCountTyped, LoginNames DEF Lg!CountAccount, LoginLabel
<1>8. CASE Lg!LockAccount(r)
  <2>1. lgLogin[r].name \in Account
    BY <1>8, LoginNow DEF Lg!LockAccount, Lg!Lock, LoginOf
  <2> QED BY <1>8, <2>1, LoginLockTyped, LoginNames DEF Lg!LockAccount
<1>9. CASE Lg!Answer(r)
  <2>1. LoginValues' /\ lgIssued' = lgIssued
    BY <1>9, LoginNow, LoginValuesStay DEF Lg!Answer, Lg!NoCount, Lg!NoSession
  <2> QED BY <1>9, <2>1, LoginMoves DEF Lg!Answer, LoginLabel
<1>10. CASE Lg!SetToken(r)
  BY <1>10, LoginTokenTyped
<1>11. CASE Lg!ExpireToken(r)
  BY <1>11, LoginExpireTyped
<1>12. CASE Lg!SetNonce(r)
  BY <1>12, LoginNonceTyped
<1>13. CASE Lg!ClearAccount(r)
  <2>1. lgLogin[r].name \in Account
    BY <1>13, LoginNow DEF Lg!ClearAccount, Lg!Clear, LoginOf
  <2> QED BY <1>13, <2>1, LoginClearTyped, LoginNames DEF Lg!ClearAccount
<1>14. CASE Lg!ClearAddress(r)
  BY <1>14, LoginClearTyped, LoginCounter DEF Lg!ClearAddress
<1> QED
  BY <1>1, <1>2, <1>3, <1>5, <1>6, <1>7, <1>8, <1>9, <1>10, <1>11, <1>12, <1>13, <1>14
     DEF Lg!Step

\* The requests of a session and the passing of time touch the token and the nonce.
LEMMA LoginAged ==
  /\ \A n \in {Lg!Gone, Lg!Ever} \cup 1..Lg!Most :
        /\ Lg!Aged(n) \in {Lg!Gone, Lg!Ever} \cup 1..Lg!Most
        /\ Lg!Renewed(n) \in {Lg!Gone, Lg!Ever} \cup 1..Lg!Most
  /\ \A n \in {Lg!Gone} \cup 1..Session : Lg!Aged(n) \in {Lg!Gone} \cup 1..Session
<1>1. Lg!Most \in Nat /\ Session \in Nat /\ Session <= Lg!Most
  BY LoginConstants DEF Lg!Most
<1>2. \A n \in 1..Lg!Most : Lg!Aged(n) \in {Lg!Gone, Lg!Ever} \cup 1..Lg!Most
  BY <1>1 DEF Lg!Aged, Lg!Gone, Lg!Ever
<1>3. \A n \in 1..Session : Lg!Aged(n) \in {Lg!Gone} \cup 1..Session
  BY <1>1 DEF Lg!Aged, Lg!Gone, Lg!Ever
<1>4. Lg!Aged(Lg!Gone) = Lg!Gone /\ Lg!Aged(Lg!Ever) = Lg!Ever
  BY DEF Lg!Aged
<1>5. \A n : Lg!Renewed(n) \in {Session, n}
  BY DEF Lg!Renewed
<1> QED BY <1>2, <1>3, <1>4, <1>5, LoginTimes

LEMMA LoginSessionTyped ==
  ASSUME LoginInv,
         \/ \E t \in Token : Lg!Request(t, TRUE) \/ Lg!Request(t, FALSE)
                             \/ Lg!Logout(t) \/ Lg!ClearNonce(t)
         \/ Lg!Tick
  PROVE  LoginInv'
<1>0. LoginValues
  BY DEF LoginInv
<1>1. /\ UNCHANGED <<lgLogin, lgCaptcha, lgSpent, lgFails, lgLock, lgTried, lgIssued, lgGiven>>
  BY DEF Lg!Request, Lg!Logout, Lg!ClearNonce, Lg!Tick, Lg!NoCount
<1>2. lgToken' \in [Token -> {Lg!Gone, Lg!Ever} \cup 1..Lg!Most]
  <2>0. lgToken \in [Token -> {Lg!Gone, Lg!Ever} \cup 1..Lg!Most]
    BY <1>0 DEF LoginValues
  <2>1. ASSUME NEW t \in Token, NEW b \in BOOLEAN, Lg!Request(t, b)
        PROVE  lgToken' \in [Token -> {Lg!Gone, Lg!Ever} \cup 1..Lg!Most]
    <3>1. lgToken' = [lgToken EXCEPT ![t] = Lg!Renewed(lgToken[t])]
      BY <2>1 DEF Lg!Request
    <3>2. Lg!Renewed(lgToken[t]) \in {Lg!Gone, Lg!Ever} \cup 1..Lg!Most
      BY <2>0, LoginAged
    <3> HIDE <2>1
    <3> QED BY <2>0, <3>1, <3>2
  <2>2. ASSUME NEW t \in Token, Lg!Logout(t) \/ Lg!ClearNonce(t)
        PROVE  lgToken' \in [Token -> {Lg!Gone, Lg!Ever} \cup 1..Lg!Most]
    BY <2>0, <2>2, LoginTimes DEF Lg!Logout, Lg!ClearNonce
  <2>3. CASE Lg!Tick
    BY <2>0, <2>3, LoginAged DEF Lg!Tick
  <2> QED BY <2>1, <2>2, <2>3
<1>3. lgNonce' \in [Token -> {Lg!Gone} \cup 1..Session]
  <2>0. lgNonce \in [Token -> {Lg!Gone} \cup 1..Session]
    BY <1>0 DEF LoginValues
  <2>1. CASE UNCHANGED lgNonce
    BY <2>0, <2>1
  <2>2. ASSUME NEW t \in Token, Lg!ClearNonce(t)
        PROVE  lgNonce' \in [Token -> {Lg!Gone} \cup 1..Session]
    BY <2>0, <2>2, LoginTimes DEF Lg!ClearNonce
  <2>3. CASE Lg!Tick
    BY <2>0, <2>3, LoginAged DEF Lg!Tick
  <2> QED BY <2>1, <2>2, <2>3 DEF Lg!Request, Lg!Logout
<1>4. LoginValues'
  BY <1>0, <1>1, <1>2, <1>3, LoginSessions DEF LoginValues
<1> QED BY <1>1, <1>4, LoginStays

LEMMA LoginCaptchaTyped ==
  ASSUME LoginInv, NEW c \in Captcha, Lg!Issue(c) \/ Lg!CaptchaLapses(c)
  PROVE  LoginInv'
<1>1. lgCaptcha' \subseteq Captcha /\ lgSpent' \subseteq Captcha
  BY DEF LoginInv, LoginValues, Lg!Issue, Lg!CaptchaLapses
<1>2. LoginValues' /\ UNCHANGED lgLogin /\ lgIssued' = lgIssued
  BY <1>1, LoginCaptchas DEF LoginInv, Lg!Issue, Lg!CaptchaLapses, Lg!NoCount, Lg!NoSession
<1> QED BY <1>2, LoginStays

LEMMA LoginLapseTyped ==
  ASSUME LoginInv, NEW k \in Lg!Counter, Lg!CountLapses(k) \/ Lg!LockLapses(k)
  PROVE  LoginInv'
<1>1. /\ lgFails' \in [Lg!Counter -> Nat] /\ lgTried' \in [Lg!Counter -> Nat]
  BY DEF LoginInv, LoginValues, Lg!CountLapses, Lg!LockLapses
<1>2. lgLock' \in [Lg!Counter -> BOOLEAN]
  BY DEF LoginInv, LoginValues, Lg!CountLapses, Lg!LockLapses
<1>3. LoginValues' /\ UNCHANGED lgLogin /\ lgIssued' = lgIssued
  BY <1>1, <1>2, LoginCounts DEF LoginInv, Lg!CountLapses, Lg!LockLapses, Lg!NoSession
<1> QED BY <1>3, LoginStays

LEMMA LoginTypeNext ==
  ASSUME LoginInv, Lg!Next \/ UNCHANGED lg
  PROVE  LoginInv'
<1>1. CASE UNCHANGED lg
  <2>1. LoginValues'
    BY <1>1, LoginValuesStay DEF lg, LoginInv
  <2> QED BY <1>1, <2>1, LoginStays DEF lg
<1> QED BY <1>1, LoginStepTyped, LoginBeginTyped, LoginSessionTyped, LoginCaptchaTyped,
           LoginLapseTyped DEF Lg!Next
-----------------------------------------------------------------------------
(* Logins: a captcha gives one guess. *)

CaptchaInv == LoginInv /\ lgCaptcha \cap lgSpent = {}

LEMMA CaptchaNext ==
  ASSUME CaptchaInv, Lg!Next \/ UNCHANGED lg
  PROVE  CaptchaInv'
<1>0. LoginInv /\ LoginInv' /\ lgCaptcha \cap lgSpent = {}
  BY LoginTypeNext DEF CaptchaInv
<1>1. ASSUME NEW c, Lg!Issue(c) \/ Lg!CaptchaLapses(c)
      PROVE  lgCaptcha' \cap lgSpent' = {}
  BY <1>0, <1>1 DEF Lg!Issue, Lg!CaptchaLapses
<1>2. ASSUME NEW r \in Login, Lg!Spend(r)
      PROVE  lgCaptcha' \cap lgSpent' = {}
  BY <1>0, <1>2 DEF Lg!Spend
<1>3. ASSUME UNCHANGED <<lgCaptcha, lgSpent>>
      PROVE  lgCaptcha' \cap lgSpent' = {}
  BY <1>0, <1>3
<1>4. \/ \E c \in Captcha : Lg!Issue(c) \/ Lg!CaptchaLapses(c)
      \/ \E r \in Login : Lg!Spend(r)
      \/ UNCHANGED <<lgCaptcha, lgSpent>>
  <2>1. ASSUME NEW r \in Login, Lg!Step(r)
        PROVE  Lg!Spend(r) \/ UNCHANGED <<lgCaptcha, lgSpent>>
    BY <2>1 DEF Lg!Step, Lg!AccountLock, Lg!AddressLock, Lg!LookAtLock, Lg!Password,
                Lg!CountAddress, Lg!LockAddress, Lg!CountAccount, Lg!LockAccount, Lg!Count,
                Lg!Lock, Lg!Answer, Lg!SetToken, Lg!ExpireToken, Lg!ClearAccount,
                Lg!ClearAddress, Lg!Clear, Lg!SetNonce
  <2>2. ASSUME NEW r \in Login, NEW name, NEW c, Lg!Begin(r, name, c)
        PROVE  UNCHANGED <<lgCaptcha, lgSpent>>
    BY <2>2 DEF Lg!Begin
  <2>3. ASSUME NEW k, Lg!CountLapses(k) \/ Lg!LockLapses(k)
        PROVE  UNCHANGED <<lgCaptcha, lgSpent>>
    BY <2>3 DEF Lg!CountLapses, Lg!LockLapses
  <2>4. ASSUME NEW t, \/ Lg!Request(t, TRUE) \/ Lg!Request(t, FALSE)
                      \/ Lg!Logout(t) \/ Lg!ClearNonce(t) \/ Lg!Tick
        PROVE  UNCHANGED <<lgCaptcha, lgSpent>>
    BY <2>4 DEF Lg!Request, Lg!Logout, Lg!ClearNonce, Lg!Tick
  <2> QED BY <2>1, <2>2, <2>3, <2>4 DEF Lg!Next, lg
<1> QED BY <1>0, <1>1, <1>2, <1>3, <1>4 DEF CaptchaInv

\* Only the read of the captcha makes a request of an idle one.
LEMMA CaptchaFresh ==
  ASSUME CaptchaInv, Lg!Next \/ UNCHANGED lg
  PROVE  Lg!FreshGuess
<1> SUFFICES ASSUME NEW r \in Login, lgLogin[r].pc = "idle", lgLogin'[r].pc = "stored"
             PROVE  lgLogin'[r].cap \notin lgSpent
  BY DEF Lg!FreshGuess
<1>0. LoginInv
  BY DEF CaptchaInv
<1>1. ~UNCHANGED lgLogin
  OBVIOUS
<1>2. ASSUME NEW q \in Login, Lg!Step(q)
      PROVE  FALSE
  <2>1. q # r
    BY <1>2 DEF Lg!Step, Lg!Spend, Lg!AccountLock, Lg!AddressLock, Lg!LookAtLock,
                Lg!Password, Lg!CountAddress, Lg!LockAddress, Lg!CountAccount,
                Lg!LockAccount, Lg!Count, Lg!Lock, Lg!Answer, Lg!SetToken,
                Lg!ExpireToken, Lg!ClearAccount, Lg!ClearAddress, Lg!Clear, Lg!SetNonce
  <2>2. lgLogin'[r] = lgLogin[r]
    <3>1. \E x : lgLogin' = [lgLogin EXCEPT ![q] = x]
      BY <1>2 DEF Lg!Step, Lg!Spend, Lg!AccountLock, Lg!AddressLock, Lg!LookAtLock,
                  Lg!Password, Lg!CountAddress, Lg!LockAddress, Lg!CountAccount,
                  Lg!LockAccount, Lg!Count, Lg!Lock, Lg!Answer, Lg!SetToken,
                  Lg!ExpireToken, Lg!ClearAccount, Lg!ClearAddress, Lg!Clear, Lg!SetNonce,
                  Lg!Goto, Lg!Leave
    <3> QED BY <1>0, <2>1, <3>1 DEF LoginInv
  <2> QED BY <2>2
<1>3. ASSUME NEW q \in Login, NEW name \in Account \cup Stranger, NEW c \in Captcha,
             Lg!Begin(q, name, c)
      PROVE  lgLogin'[r].cap \notin lgSpent
  <2>1. PICK x \in LoginRow : After(q, x) /\ x.pc = "stored" /\ x.cap = c
    BY <1>0, <1>3, LoginBeginTyped
  <2>2. c \in lgCaptcha
    BY <1>3 DEF Lg!Begin
  <2>3. q # r => lgLogin'[r] = lgLogin[r]
    BY <1>0, <2>1, LoginFrame
  <2>4. lgLogin'[r] = x
    BY <1>0, <2>1, <2>3, LoginFrame
  <2> QED BY <2>1, <2>2, <2>4 DEF CaptchaInv
<1> QED
  BY <1>1, <1>2, <1>3
     DEF Lg!Next, lg, Lg!Issue, Lg!CaptchaLapses, Lg!CountLapses, Lg!LockLapses,
         Lg!Request, Lg!Logout, Lg!ClearNonce, Lg!Tick

\* A captcha that was compared, with whatever outcome, is not found by a login that comes
\* later: its answer is deleted before it is compared (Captcha.check_captcha).
THEOREM OneGuessEach == AllSpec => OneGuess
<1>1. AllInit => CaptchaInv
  BY LoginTypeInit DEF AllInit, Lg!Init, CaptchaInv
<1>2. [AllNext]_everything => Lg!Next \/ UNCHANGED lg
  BY DEF AllNext, everything
<1>3. CaptchaInv /\ [AllNext]_everything => CaptchaInv'
  BY <1>2, CaptchaNext
<1>4. CaptchaInv /\ [AllNext]_everything => [Lg!FreshGuess]_lg
  BY <1>2, CaptchaFresh
<1>5. [][Lg!FreshGuess]_lg => OneGuess
  BY PTL DEF OneGuess, Lg!OneGuess, lg, Lg!vars
<1> QED BY <1>1, <1>3, <1>4, <1>5, PTL DEF AllSpec
-----------------------------------------------------------------------------
(* Logins: the wrong passwords. *)

\* For the counter k, a request that is past the look at its lock, one whose wrong password
\* the counter does not show yet, and one that is about to write the lock.
AheadAt(x, k) ==
    IF k = "ip" THEN x.pc = "password"
                ELSE x.name = k /\ x.pc \in {"address lock", "password"}
UncountedAt(x, k) ==
    IF k = "ip" THEN x.pc = "count address"
                ELSE x.name = k /\ x.pc \in {"count address", "lock address", "count account"}
LockingAt(x, k) ==
    IF k = "ip" THEN x.pc = "lock address" ELSE x.name = k /\ x.pc = "lock account"

Ahead(k)     == {r \in Login : AheadAt(lgLogin[r], k)}
Uncounted(k) == {r \in Login : UncountedAt(lgLogin[r], k)}
Locking(k)   == {r \in Login : LockingAt(lgLogin[r], k)}

GuessAt(k) ==
    Limited(Login, Lg!Top(k), lgTried[k], lgFails[k], lgLock[k],
            Ahead(k), Uncounted(k), Locking(k))

GuessInv == LoginInv /\ \A k \in Lg!Counter : GuessAt(k)

LEMMA GuessValues ==
  ASSUME LoginInv, NEW k \in Lg!Counter
  PROVE  /\ IsFiniteSet(Login) /\ Lg!Top(k) \in Nat \ {0}
         /\ lgTried[k] \in Nat /\ lgFails[k] \in Nat /\ lgLock[k] \in BOOLEAN
<1>1. Lg!Top(k) \in {AccountLimit, AddressLimit}
  BY DEF Lg!Top
<1>2. Lg!Top(k) \in Nat \ {0} /\ IsFiniteSet(Login)
  BY <1>1, LoginConstants
<1>3. lgTried[k] \in Nat /\ lgFails[k] \in Nat
  BY DEF LoginInv, LoginValues
<1>4. lgLock[k] \in BOOLEAN
  BY DEF LoginInv, LoginValues
<1> QED BY <1>2, <1>3, <1>4

LEMMA GuessSets ==
  ASSUME NEW k
  PROVE  /\ Ahead(k) \subseteq Login /\ Uncounted(k) \subseteq Login
         /\ Locking(k) \subseteq Login
         /\ Ahead(k) \cap Uncounted(k) = {} /\ Ahead(k) \cap Locking(k) = {}
         /\ Uncounted(k) \cap Locking(k) = {}
  BY DEF Ahead, Uncounted, Locking, AheadAt, UncountedAt, LockingAt

\* What becomes of the sets when a request becomes x.
LEMMA GuessShift ==
  ASSUME LoginInv, NEW r \in Login, NEW x \in LoginRow, After(r, x), NEW k
  PROVE  /\ Ahead(k)' = IF AheadAt(x, k) THEN Ahead(k) \cup {r} ELSE Ahead(k) \ {r}
         /\ Uncounted(k)' = IF UncountedAt(x, k) THEN Uncounted(k) \cup {r}
                                                 ELSE Uncounted(k) \ {r}
         /\ Locking(k)' = IF LockingAt(x, k) THEN Locking(k) \cup {r} ELSE Locking(k) \ {r}
         /\ AheadAt(lgLogin[r], k) <=> r \in Ahead(k)
         /\ UncountedAt(lgLogin[r], k) <=> r \in Uncounted(k)
         /\ LockingAt(lgLogin[r], k) <=> r \in Locking(k)
<1>1. lgLogin'[r] = x /\ \A q \in Login : q # r => lgLogin'[q] = lgLogin[q]
  BY LoginFrame
<1>2. Ahead(k)' = IF AheadAt(x, k) THEN Ahead(k) \cup {r} ELSE Ahead(k) \ {r}
  <2>1. \A q \in Login : AheadAt(lgLogin[q], k)' <=>
                             IF q = r THEN AheadAt(x, k) ELSE AheadAt(lgLogin[q], k)
    BY <1>1 DEF AheadAt
  <2> QED BY <2>1 DEF Ahead
<1>3. Uncounted(k)' = IF UncountedAt(x, k) THEN Uncounted(k) \cup {r}
                                           ELSE Uncounted(k) \ {r}
  <2>1. \A q \in Login : UncountedAt(lgLogin[q], k)' <=>
                             IF q = r THEN UncountedAt(x, k) ELSE UncountedAt(lgLogin[q], k)
    BY <1>1 DEF UncountedAt
  <2> QED BY <2>1 DEF Uncounted
<1>4. Locking(k)' = IF LockingAt(x, k) THEN Locking(k) \cup {r} ELSE Locking(k) \ {r}
  <2>1. \A q \in Login : LockingAt(lgLogin[q], k)' <=>
                             IF q = r THEN LockingAt(x, k) ELSE LockingAt(lgLogin[q], k)
    BY <1>1 DEF LockingAt
  <2> QED BY <2>1 DEF Locking
<1>5. /\ AheadAt(lgLogin[r], k) <=> r \in Ahead(k)
      /\ UncountedAt(lgLogin[r], k) <=> r \in Uncounted(k)
      /\ LockingAt(lgLogin[r], k) <=> r \in Locking(k)
  BY DEF Ahead, Uncounted, Locking
<1> QED BY <1>2, <1>3, <1>4, <1>5

SameCount(k) == lgTried'[k] = lgTried[k] /\ lgFails'[k] = lgFails[k] /\ lgLock'[k] = lgLock[k]

LEMMA GuessKeeps ==
  ASSUME LoginInv, NEW k \in Lg!Counter, GuessAt(k), NEW r \in Login, NEW x \in LoginRow,
         After(r, x), SameCount(k),
         AheadAt(x, k) => AheadAt(lgLogin[r], k),
         UncountedAt(lgLogin[r], k) => UncountedAt(x, k),
         LockingAt(lgLogin[r], k) => LockingAt(x, k)
  PROVE  GuessAt(k)'
<1>1. /\ Ahead(k)' \subseteq Ahead(k) /\ Uncounted(k) \subseteq Uncounted(k)'
      /\ Locking(k) \subseteq Locking(k)'
      /\ Uncounted(k)' \subseteq Login /\ Locking(k)' \subseteq Login
  BY GuessShift, GuessSets
<1>2. Limited(Login, Lg!Top(k), lgTried[k], lgFails[k], lgLock[k],
              Ahead(k)', Uncounted(k)', Locking(k)')
  BY <1>1, GuessValues, GuessSets, LimitedKeeps DEF GuessAt
<1> QED BY <1>2 DEF GuessAt, SameCount, Lg!Top

LEMMA GuessStays ==
  ASSUME LoginInv, NEW k \in Lg!Counter, GuessAt(k), UNCHANGED lgLogin, SameCount(k)
  PROVE  GuessAt(k)'
  BY DEF GuessAt, SameCount, Lg!Top, Ahead, Uncounted, Locking

\* A request that finds no lock.
LEMMA GuessEnters ==
  ASSUME LoginInv, NEW k \in Lg!Counter, GuessAt(k), NEW r \in Login, NEW x \in LoginRow,
         After(r, x), SameCount(k), ~lgLock[k],
         AheadAt(x, k), ~UncountedAt(x, k), ~LockingAt(x, k),
         ~AheadAt(lgLogin[r], k), ~UncountedAt(lgLogin[r], k), ~LockingAt(lgLogin[r], k)
  PROVE  GuessAt(k)'
<1>1. /\ Ahead(k)' = Ahead(k) \cup {r} /\ Uncounted(k)' = Uncounted(k)
      /\ Locking(k)' = Locking(k) /\ r \notin Ahead(k) \cup Uncounted(k) \cup Locking(k)
  BY GuessShift
<1>2. lgLock[k] = FALSE
  BY GuessValues
<1>3. Limited(Login, Lg!Top(k), lgTried[k], lgFails[k], FALSE,
              Ahead(k) \cup {r}, Uncounted(k), Locking(k))
  BY <1>1, <1>2, GuessValues, GuessSets, LimitedEnters DEF GuessAt
<1> QED BY <1>1, <1>2, <1>3 DEF GuessAt, SameCount, Lg!Top

LEMMA GuessWrong ==
  ASSUME LoginInv, NEW k \in Lg!Counter, GuessAt(k), NEW r \in Login, NEW x \in LoginRow,
         After(r, x), lgTried'[k] = lgTried[k] + 1,
         lgFails'[k] = lgFails[k], lgLock'[k] = lgLock[k],
         ~AheadAt(x, k), UncountedAt(x, k), ~LockingAt(x, k),
         AheadAt(lgLogin[r], k), ~UncountedAt(lgLogin[r], k), ~LockingAt(lgLogin[r], k)
  PROVE  GuessAt(k)'
<1>1. /\ Ahead(k)' = Ahead(k) \ {r} /\ Uncounted(k)' = Uncounted(k) \cup {r}
      /\ Locking(k)' = Locking(k) /\ r \in Ahead(k) /\ r \notin Uncounted(k)
  BY GuessShift
<1>2. Limited(Login, Lg!Top(k), lgTried[k] + 1, lgFails[k], lgLock[k],
              Ahead(k) \ {r}, Uncounted(k) \cup {r}, Locking(k))
  BY <1>1, GuessValues, GuessSets, LimitedGuesses DEF GuessAt
<1> QED BY <1>1, <1>2 DEF GuessAt, Lg!Top

\* It is counted: below the limit it is done with this counter, at the limit it locks.
LEMMA GuessCounted ==
  ASSUME LoginInv, NEW k \in Lg!Counter, GuessAt(k), NEW r \in Login, NEW x \in LoginRow,
         After(r, x), lgFails'[k] = lgFails[k] + 1,
         lgTried'[k] = lgTried[k], lgLock'[k] = lgLock[k],
         ~AheadAt(x, k), ~UncountedAt(x, k),
         LockingAt(x, k) <=> lgFails[k] + 1 >= Lg!Top(k),
         ~AheadAt(lgLogin[r], k), UncountedAt(lgLogin[r], k), ~LockingAt(lgLogin[r], k)
  PROVE  GuessAt(k)'
<1>0. /\ IsFiniteSet(Login) /\ Lg!Top(k) \in Nat /\ lgTried[k] \in Nat /\ lgFails[k] \in Nat
      /\ lgLock[k] \in BOOLEAN
  BY GuessValues
<1>1. /\ Ahead(k)' = Ahead(k) /\ Uncounted(k)' = Uncounted(k) \ {r}
      /\ r \in Uncounted(k) /\ r \notin Locking(k)
      /\ Locking(k)' = IF LockingAt(x, k) THEN Locking(k) \cup {r} ELSE Locking(k)
  BY GuessShift
<1>2. CASE LockingAt(x, k)
  <2>1. Limited(Login, Lg!Top(k), lgTried[k], lgFails[k] + 1, lgLock[k],
                Ahead(k), Uncounted(k) \ {r}, Locking(k) \cup {r})
    BY ONLY <1>0, <1>1, GuessSets, LimitedReaches, GuessAt(k) DEF GuessAt
  <2> QED BY <1>1, <1>2, <2>1 DEF GuessAt, Lg!Top
<1>3. CASE ~LockingAt(x, k)
  <2>1. lgFails[k] + 1 < Lg!Top(k)
    BY <1>3, GuessValues
  <2>2. Limited(Login, Lg!Top(k), lgTried[k], lgFails[k] + 1, lgLock[k],
                Ahead(k), Uncounted(k) \ {r}, Locking(k))
    BY ONLY <1>0, <1>1, <2>1, GuessSets, LimitedCounts, GuessAt(k) DEF GuessAt
  <2> QED BY <1>1, <1>3, <2>2 DEF GuessAt, Lg!Top
<1> QED BY <1>2, <1>3

LEMMA GuessLocked ==
  ASSUME LoginInv, NEW k \in Lg!Counter, GuessAt(k), NEW r \in Login, NEW x \in LoginRow,
         After(r, x), lgLock'[k] = TRUE,
         lgTried'[k] = lgTried[k], lgFails'[k] = lgFails[k],
         ~AheadAt(x, k), ~UncountedAt(x, k),
         ~AheadAt(lgLogin[r], k), ~UncountedAt(lgLogin[r], k)
  PROVE  GuessAt(k)'
<1>1. Ahead(k)' = Ahead(k) /\ Uncounted(k)' = Uncounted(k)
  BY GuessShift
<1>2. Limited(Login, Lg!Top(k), lgTried[k], lgFails[k], TRUE,
              Ahead(k), Uncounted(k), Locking(k)')
  BY GuessValues, LimitedLocks DEF GuessAt
<1> QED BY <1>1, <1>2 DEF GuessAt, Lg!Top

LEMMA GuessCleared ==
  ASSUME LoginInv, NEW k \in Lg!Counter, lgTried'[k] = 0, lgFails'[k] = 0,
         lgLock'[k] = lgLock[k]
  PROVE  GuessAt(k)'
<1>1. /\ Ahead(k)' \subseteq Login /\ Uncounted(k)' \subseteq Login
      /\ Locking(k)' \subseteq Login
  BY DEF Ahead, Uncounted, Locking
<1>2. Limited(Login, Lg!Top(k), 0, 0, lgLock[k], Ahead(k)', Uncounted(k)', Locking(k)')
  BY <1>1, GuessValues, LimitedClears
<1> QED BY <1>2 DEF GuessAt, Lg!Top
\* A step that touches no counter and takes the request where no counter waits for it.
LEMMA GuessQuiet ==
  ASSUME LoginInv, NEW k \in Lg!Counter, GuessAt(k), NEW r \in Login, NEW l \in LoginLabel,
         Lg!Goto(r, l) \/ Lg!Leave(r), SameCount(k),
         lgLogin[r].pc \notin {"count address", "lock address", "count account", "lock account"},
         l \notin {"address lock", "password"}
  PROVE  GuessAt(k)'
<1>1. CASE Lg!Leave(r)
  BY <1>1, LoginLeaves, LoginIdle, GuessKeeps DEF AheadAt, UncountedAt, LockingAt
<1>2. CASE Lg!Goto(r, l)
  <2>1. PICK x \in LoginRow : After(r, x) /\ x.pc = l /\ x.name = lgLogin[r].name
    BY <1>2, LoginGoes
  <2> QED BY <2>1, GuessKeeps DEF AheadAt, UncountedAt, LockingAt
<1> QED BY <1>1, <1>2

LEMMA LoginLabels ==
  /\ "address lock" \in LoginLabel /\ "password" \in LoginLabel
  /\ "count address" \in LoginLabel /\ "lock address" \in LoginLabel
  /\ "count account" \in LoginLabel /\ "lock account" \in LoginLabel /\ "done" \in LoginLabel
  BY DEF LoginLabel

LEMMA LoginGoesTo ==
  \A r \in Login : \A l \in LoginLabel : LoginInv /\ Lg!Goto(r, l) =>
      \E x \in LoginRow : After(r, x) /\ x.name = lgLogin[r].name /\ x.pc = l
  BY LoginGoes

LEMMA GuessLooks ==
  ASSUME LoginInv, NEW k \in Lg!Counter, GuessAt(k), NEW r \in Login,
         Lg!AccountLock(r) \/ Lg!AddressLock(r)
  PROVE  GuessAt(k)'
<1>1. SameCount(k)
  BY DEF Lg!AccountLock, Lg!AddressLock, Lg!LookAtLock, Lg!NoCount, SameCount
<1>2. CASE Lg!Leave(r)
  <2>1. lgLogin[r].pc \in {"account lock", "address lock"}
    BY DEF Lg!AccountLock, Lg!AddressLock, Lg!LookAtLock
  <2> QED BY <1>1, <1>2, <2>1, GuessQuiet DEF LoginLabel
<1>3. CASE Lg!AccountLock(r) /\ ~Lg!Leave(r)
  <2>1. /\ lgLogin[r].pc = "account lock" /\ Lg!Goto(r, "address lock")
        /\ lgLogin[r].name = k => ~lgLock[k]
    BY <1>3 DEF Lg!AccountLock, Lg!LookAtLock
  <2>2. PICK x \in LoginRow :
            After(r, x) /\ x.pc = "address lock" /\ x.name = lgLogin[r].name
    BY <2>1, LoginGoesTo, LoginLabels
  <2>3. CASE k # "ip" /\ lgLogin[r].name = k
    BY <1>1, <2>1, <2>2, <2>3, GuessEnters DEF AheadAt, UncountedAt, LockingAt
  <2>4. CASE k = "ip" \/ lgLogin[r].name # k
    BY <1>1, <2>1, <2>2, <2>4, GuessKeeps DEF AheadAt, UncountedAt, LockingAt
  <2> QED BY <2>3, <2>4
<1>4. CASE Lg!AddressLock(r) /\ ~Lg!Leave(r)
  <2>1. /\ lgLogin[r].pc = "address lock" /\ Lg!Goto(r, "password")
        /\ k = "ip" => ~lgLock[k]
    BY <1>4, LoginCounter DEF Lg!AddressLock, Lg!LookAtLock
  <2>2. PICK x \in LoginRow : After(r, x) /\ x.pc = "password" /\ x.name = lgLogin[r].name
    BY <2>1, LoginGoesTo, LoginLabels
  <2>3. CASE k = "ip"
    BY <1>1, <2>1, <2>2, <2>3, GuessEnters DEF AheadAt, UncountedAt, LockingAt
  <2>4. CASE k # "ip"
    BY <1>1, <2>1, <2>2, <2>4, GuessKeeps DEF AheadAt, UncountedAt, LockingAt
  <2> QED BY <2>3, <2>4
<1> QED BY <1>2, <1>3, <1>4

LEMMA GuessPassword ==
  ASSUME LoginInv, NEW k \in Lg!Counter, GuessAt(k), NEW r \in Login, Lg!Password(r)
  PROVE  GuessAt(k)'
<1>1. lgLogin[r].pc = "password" /\ lgFails'[k] = lgFails[k] /\ lgLock'[k] = lgLock[k]
  BY DEF Lg!Password
<1>2. CASE Lg!Goto(r, "token") /\ UNCHANGED lgTried
  BY <1>1, <1>2, GuessQuiet DEF LoginLabel, SameCount
<1>3. CASE /\ Lg!Goto(r, "count address")
           /\ lgTried' = [j \in Lg!Counter |->
                             lgTried[j] + IF j \in {lgLogin[r].name, "ip"} THEN 1 ELSE 0]
  <2>1. PICK x \in LoginRow :
            After(r, x) /\ x.pc = "count address" /\ x.name = lgLogin[r].name
    <3>1. PICK l \in LoginLabel : Lg!Goto(r, l) /\ l = "count address"
      BY <1>3, LoginLabels
    <3>2. PICK x \in LoginRow : After(r, x) /\ x.name = lgLogin[r].name /\ x.pc = l
      BY <3>1, LoginGoesTo
    <3> QED BY <3>1, <3>2
  <2>2. CASE k \in {lgLogin[r].name, "ip"}
    <3>1. lgTried'[k] = lgTried[k] + 1
      BY <1>3, <2>2
    <3> QED BY <1>1, <2>1, <2>2, <3>1, GuessWrong DEF AheadAt, UncountedAt, LockingAt
  <2>3. CASE k \notin {lgLogin[r].name, "ip"}
    <3>1. lgTried'[k] = lgTried[k] + 0 /\ lgTried[k] \in Nat
      BY <1>3, <2>3, GuessValues
    <3>2. SameCount(k)
      BY <1>1, <3>1 DEF SameCount
    <3> QED BY <1>1, <2>1, <2>3, <3>2, GuessKeeps DEF AheadAt, UncountedAt, LockingAt
  <2> QED BY <2>2, <2>3
<1> QED BY <1>2, <1>3 DEF Lg!Password

LEMMA GuessCount ==
  ASSUME LoginInv, NEW k \in Lg!Counter, GuessAt(k), NEW r \in Login,
         Lg!CountAddress(r) \/ Lg!CountAccount(r)
  PROVE  GuessAt(k)'
<1>0. lgFails \in [Lg!Counter -> Nat] /\ lgTried'[k] = lgTried[k] /\ lgLock'[k] = lgLock[k]
  BY LoginNow DEF LoginValues, Lg!CountAddress, Lg!CountAccount, Lg!Count
<1>1. CASE Lg!CountAddress(r)
  <2>0. Lg!AfterAddress(r) \in LoginLabel
    BY LoginLabels DEF Lg!AfterAddress
  <2>1. /\ lgLogin[r].pc = "count address" /\ lgFails' = [lgFails EXCEPT !["ip"] = @ + 1]
        /\ Lg!Goto(r, IF lgFails["ip"] + 1 >= Lg!Top("ip") THEN "lock address"
                                                          ELSE Lg!AfterAddress(r))
    BY <1>1 DEF Lg!CountAddress, Lg!Count
  <2>2. PICK x \in LoginRow :
            /\ After(r, x) /\ x.name = lgLogin[r].name
            /\ x.pc = IF lgFails["ip"] + 1 >= Lg!Top("ip") THEN "lock address"
                                                          ELSE Lg!AfterAddress(r)
    <3>1. PICK l \in LoginLabel : Lg!Goto(r, l) /\
              l = IF lgFails["ip"] + 1 >= Lg!Top("ip") THEN "lock address"
                                                      ELSE Lg!AfterAddress(r)
      BY <2>1, LoginLabels, <2>0
    <3>2. PICK x \in LoginRow : After(r, x) /\ x.name = lgLogin[r].name /\ x.pc = l
      BY <3>1, LoginGoesTo
    <3> QED BY <3>1, <3>2
  <2>3. CASE k = "ip"
    <3>1. lgFails'[k] = lgFails[k] + 1
      BY <1>0, <2>1, <2>3
    <3>2. /\ x.pc = "lock address" <=> lgFails[k] + 1 >= Lg!Top(k)
          /\ x.pc \in {"lock address", "count account", "done"}
      BY <2>2, <2>3 DEF Lg!AfterAddress
    <3> QED BY <1>0, <2>1, <2>2, <2>3, <3>1, <3>2, GuessCounted
            DEF AheadAt, UncountedAt, LockingAt
  <2>4. CASE k # "ip"
    <3>1. SameCount(k)
      BY <1>0, <2>1, <2>4 DEF SameCount
    <3>2. k \in Account
      BY <2>4 DEF Lg!Counter
    <3>3. /\ x.pc \in {"lock address", "count account", "done"}
          /\ lgLogin[r].name = k => x.pc \in {"lock address", "count account"}
      BY <2>2, <3>2 DEF Lg!AfterAddress
    <3> QED BY <2>1, <2>2, <2>4, <3>1, <3>3, GuessKeeps DEF AheadAt, UncountedAt, LockingAt
  <2> QED BY <2>3, <2>4
<1>2. CASE Lg!CountAccount(r)
  <2> DEFINE n == lgLogin[r].name
  <2>1. /\ lgLogin[r].pc = "count account" /\ lgFails' = [lgFails EXCEPT ![n] = @ + 1]
        /\ Lg!Goto(r, IF lgFails[n] + 1 >= Lg!Top(n) THEN "lock account" ELSE "done")
    BY <1>2 DEF Lg!CountAccount, Lg!Count
  <2>2. PICK x \in LoginRow :
            /\ After(r, x) /\ x.name = lgLogin[r].name
            /\ x.pc = IF lgFails[n] + 1 >= Lg!Top(n) THEN "lock account" ELSE "done"
    <3>1. PICK l \in LoginLabel : Lg!Goto(r, l) /\
              l = IF lgFails[n] + 1 >= Lg!Top(n) THEN "lock account" ELSE "done"
      BY <2>1, LoginLabels
    <3>2. PICK x \in LoginRow : After(r, x) /\ x.name = lgLogin[r].name /\ x.pc = l
      BY <3>1, LoginGoesTo
    <3> QED BY <3>1, <3>2
  <2>3. n \in Account /\ "ip" \notin Account
    BY <2>1, LoginNow, LoginConstants DEF LoginOf
  <2>4. CASE k = n
    <3>1. lgFails'[k] = lgFails[k] + 1 /\ k # "ip"
      BY <1>0, <2>1, <2>3, <2>4
    <3>2. x.pc = "lock account" <=> lgFails[k] + 1 >= Lg!Top(k)
      BY <2>2, <2>4
    <3>3. x.pc \in {"lock account", "done"} /\ x.name = k /\ lgLogin[r].name = k
      BY <2>2, <2>4
    <3> QED BY <1>0, <2>1, <2>2, <3>1, <3>2, <3>3, GuessCounted
            DEF AheadAt, UncountedAt, LockingAt
  <2>5. CASE k # n
    <3>1. SameCount(k)
      BY <1>0, <2>1, <2>5 DEF SameCount
    <3>2. x.pc \in {"lock account", "done"}
      BY <2>2
    <3> QED BY <2>1, <2>2, <2>5, <3>1, <3>2, GuessKeeps DEF AheadAt, UncountedAt, LockingAt
  <2> QED BY <2>4, <2>5
<1> QED BY <1>1, <1>2

LEMMA GuessLock ==
  ASSUME LoginInv, NEW k \in Lg!Counter, GuessAt(k), NEW r \in Login,
         Lg!LockAddress(r) \/ Lg!LockAccount(r)
  PROVE  GuessAt(k)'
<1>0. /\ lgLock \in [Lg!Counter -> BOOLEAN]
      /\ lgTried'[k] = lgTried[k] /\ lgFails'[k] = lgFails[k]
  BY LoginNow DEF LoginValues, Lg!LockAddress, Lg!LockAccount, Lg!Lock
<1>1. CASE Lg!LockAddress(r)
  <2>0. Lg!AfterAddress(r) \in LoginLabel
    BY LoginLabels DEF Lg!AfterAddress
  <2>1. /\ lgLogin[r].pc = "lock address" /\ lgLock' = [lgLock EXCEPT !["ip"] = TRUE]
        /\ Lg!Goto(r, Lg!AfterAddress(r))
    BY <1>1 DEF Lg!LockAddress, Lg!Lock, Lg!AfterAddress
  <2>2. PICK x \in LoginRow :
            After(r, x) /\ x.name = lgLogin[r].name /\ x.pc = Lg!AfterAddress(r)
    BY <2>1, LoginGoesTo, LoginLabels, <2>0
  <2>3. CASE k = "ip"
    <3>1. lgLock'[k] = TRUE /\ x.pc \in {"count account", "done"}
      BY <1>0, <2>1, <2>2, <2>3 DEF Lg!AfterAddress
    <3> QED BY <1>0, <2>1, <2>2, <2>3, <3>1, GuessLocked DEF AheadAt, UncountedAt
  <2>4. CASE k # "ip"
    <3>1. SameCount(k)
      BY <1>0, <2>1, <2>4 DEF SameCount
    <3>2. k \in Account
      BY <2>4 DEF Lg!Counter
    <3>3. /\ x.pc \in {"count account", "done"}
          /\ lgLogin[r].name = k => x.pc = "count account"
      BY <2>2, <3>2 DEF Lg!AfterAddress
    <3> QED BY <2>1, <2>2, <2>4, <3>1, <3>3, GuessKeeps DEF AheadAt, UncountedAt, LockingAt
  <2> QED BY <2>3, <2>4
<1>2. CASE Lg!LockAccount(r)
  <2> DEFINE n == lgLogin[r].name
  <2>1. /\ lgLogin[r].pc = "lock account" /\ lgLock' = [lgLock EXCEPT ![n] = TRUE]
        /\ Lg!Goto(r, "done")
    BY <1>2 DEF Lg!LockAccount, Lg!Lock
  <2>2. PICK x \in LoginRow : After(r, x) /\ x.name = lgLogin[r].name /\ x.pc = "done"
    BY <2>1, LoginGoesTo, LoginLabels
  <2>3. n \in Account /\ "ip" \notin Account
    BY <2>1, LoginNow, LoginConstants DEF LoginOf
  <2>4. CASE k = n
    <3>1. lgLock'[k] = TRUE /\ k # "ip"
      BY <1>0, <2>1, <2>3, <2>4
    <3> QED BY <1>0, <2>1, <2>2, <3>1, GuessLocked DEF AheadAt, UncountedAt
  <2>5. CASE k # n
    <3>1. SameCount(k)
      BY <1>0, <2>1, <2>5 DEF SameCount
    <3> QED BY <2>1, <2>2, <2>5, <3>1, GuessKeeps DEF AheadAt, UncountedAt, LockingAt
  <2> QED BY <2>4, <2>5
<1> QED BY <1>1, <1>2

LEMMA GuessClear ==
  ASSUME LoginInv, NEW k \in Lg!Counter, GuessAt(k), NEW r \in Login, NEW j,
         NEW here \in {"clear account", "clear address"},
         NEW next \in {"clear address", "nonce"}, Lg!Clear(r, j, here, next)
  PROVE  GuessAt(k)'
<1>0. /\ lgFails \in [Lg!Counter -> Nat] /\ lgTried \in [Lg!Counter -> Nat]
      /\ lgLock'[k] = lgLock[k] /\ lgLogin[r].pc = here /\ Lg!Goto(r, next)
      /\ lgFails' = [lgFails EXCEPT ![j] = 0] /\ lgTried' = [lgTried EXCEPT ![j] = 0]
  BY LoginNow DEF LoginValues, Lg!Clear
<1>1. CASE k = j
  BY <1>0, <1>1, GuessCleared
<1>2. CASE k # j
  <2>1. SameCount(k)
    BY <1>0, <1>2 DEF SameCount
  <2> QED BY <1>0, <2>1, GuessQuiet DEF LoginLabel
<1> QED BY <1>1, <1>2

LEMMA GuessStep ==
  ASSUME LoginInv, NEW k \in Lg!Counter, GuessAt(k), NEW r \in Login, Lg!Step(r)
  PROVE  GuessAt(k)'
<1>1. CASE Lg!Spend(r)
  <2>1. SameCount(k) /\ lgLogin[r].pc = "stored"
    BY <1>1 DEF Lg!Spend, Lg!NoCount, SameCount
  <2>2. CASE Lg!Leave(r)
    BY <2>1, <2>2, GuessQuiet DEF LoginLabel
  <2>3. ASSUME NEW x \in LoginRow, After(r, x), x.pc = "account lock", x.name = lgLogin[r].name
        PROVE  GuessAt(k)'
    BY <2>1, <2>3, GuessKeeps DEF AheadAt, UncountedAt, LockingAt
  <2> QED BY <1>1, <2>2, <2>3, LoginSpendTyped
<1>2. CASE Lg!AccountLock(r) \/ Lg!AddressLock(r)
  BY <1>2, GuessLooks
<1>3. CASE Lg!Password(r)
  BY <1>3, GuessPassword
<1>4. CASE Lg!CountAddress(r) \/ Lg!CountAccount(r)
  BY <1>4, GuessCount
<1>5. CASE Lg!LockAddress(r) \/ Lg!LockAccount(r)
  BY <1>5, GuessLock
<1>6. CASE Lg!Answer(r)
  <2>1. SameCount(k) /\ lgLogin[r].pc = "done" /\ Lg!Leave(r)
    BY <1>6 DEF Lg!Answer, Lg!NoCount, SameCount
  <2> QED BY <2>1, GuessQuiet DEF LoginLabel
<1>7. CASE Lg!SetToken(r)
  <2>1. SameCount(k) /\ lgLogin[r].pc = "token"
    BY <1>7 DEF Lg!SetToken, Lg!NoCount, SameCount
  <2>2. PICK x \in LoginRow : After(r, x) /\ x.pc = "expire"
    BY <1>7, LoginTokenTyped
  <2> QED BY <2>1, <2>2, GuessKeeps DEF AheadAt, UncountedAt, LockingAt
<1>8. CASE Lg!ExpireToken(r) \/ Lg!SetNonce(r)
  <2>1. /\ SameCount(k) /\ lgLogin[r].pc \in {"expire", "nonce"}
        /\ Lg!Leave(r) \/ Lg!Goto(r, "clear account")
    BY <1>8 DEF Lg!ExpireToken, Lg!SetNonce, Lg!NoCount, SameCount
  <2> QED BY <2>1, GuessQuiet DEF LoginLabel
<1>9. CASE Lg!ClearAccount(r) \/ Lg!ClearAddress(r)
  BY <1>9, GuessClear DEF Lg!ClearAccount, Lg!ClearAddress
<1> QED BY <1>1, <1>2, <1>3, <1>4, <1>5, <1>6, <1>7, <1>8, <1>9 DEF Lg!Step

LEMMA GuessLapses ==
  ASSUME LoginInv, NEW k \in Lg!Counter, GuessAt(k), NEW j \in Lg!Counter,
         Lg!CountLapses(j) \/ Lg!LockLapses(j)
  PROVE  GuessAt(k)'
<1>0. /\ lgFails \in [Lg!Counter -> Nat] /\ lgTried \in [Lg!Counter -> Nat]
      /\ lgLock \in [Lg!Counter -> BOOLEAN] /\ UNCHANGED lgLogin
  BY DEF LoginInv, LoginValues, Lg!CountLapses, Lg!LockLapses
<1>1. CASE k # j
  <2>1. SameCount(k)
    BY <1>0, <1>1 DEF SameCount, Lg!CountLapses, Lg!LockLapses
  <2> QED BY <1>0, <2>1, GuessStays
<1>2. CASE k = j /\ Lg!CountLapses(j)
  BY <1>0, <1>2, GuessCleared DEF Lg!CountLapses
<1>3. CASE k = j /\ Lg!LockLapses(j)
  <2>1. /\ lgLock'[k] = FALSE /\ lgTried'[k] = lgTried[k] /\ lgFails'[k] = lgFails[k]
        /\ lgFails[k] < Lg!Top(k)
    BY <1>0, <1>3 DEF Lg!LockLapses
  <2>2. Limited(Login, Lg!Top(k), lgTried[k], lgFails[k], FALSE,
                Ahead(k), Uncounted(k), Locking(k))
    BY <2>1, GuessValues, GuessSets, LimitedUnlocks DEF GuessAt
  <2> QED BY <1>0, <2>1, <2>2 DEF GuessAt, Lg!Top, Ahead, Uncounted, Locking
<1> QED BY <1>1, <1>2, <1>3

LEMMA GuessNext ==
  ASSUME GuessInv, Lg!Next \/ UNCHANGED lg
  PROVE  GuessInv'
<1>0. LoginInv /\ LoginInv'
  BY LoginTypeNext DEF GuessInv
<1> SUFFICES ASSUME NEW k \in Lg!Counter PROVE GuessAt(k)'
  BY <1>0 DEF GuessInv, Lg!Counter
<1>1. GuessAt(k)
  BY DEF GuessInv
<1>2. ASSUME NEW r \in Login, Lg!Step(r)
      PROVE  GuessAt(k)'
  BY <1>0, <1>1, <1>2, GuessStep
<1>3. ASSUME NEW r \in Login, NEW name \in Account \cup Stranger, NEW c \in Captcha,
             Lg!Begin(r, name, c)
      PROVE  GuessAt(k)'
  <2>1. SameCount(k) /\ lgLogin[r].pc = "idle"
    BY <1>3 DEF Lg!Begin, Lg!NoCount, SameCount
  <2>2. PICK x \in LoginRow : After(r, x) /\ x.pc = "stored"
    BY <1>0, <1>3, LoginBeginTyped
  <2> QED BY <1>0, <1>1, <2>1, <2>2, GuessKeeps DEF AheadAt, UncountedAt, LockingAt
<1>4. ASSUME NEW j \in Lg!Counter, Lg!CountLapses(j) \/ Lg!LockLapses(j)
      PROVE  GuessAt(k)'
  BY <1>0, <1>1, <1>4, GuessLapses
<1>5. ASSUME UNCHANGED <<lgLogin, lgTried, lgFails, lgLock>>
      PROVE  GuessAt(k)'
  BY <1>0, <1>1, <1>5, GuessStays DEF SameCount
<1>6. \/ \E r \in Login : Lg!Step(r)
      \/ \E r \in Login, name \in Account \cup Stranger, c \in Captcha : Lg!Begin(r, name, c)
      \/ \E j \in Lg!Counter : Lg!CountLapses(j) \/ Lg!LockLapses(j)
      \/ UNCHANGED <<lgLogin, lgTried, lgFails, lgLock>>
  BY DEF Lg!Next, lg, Lg!Issue, Lg!CaptchaLapses, Lg!Request, Lg!Logout, Lg!ClearNonce,
         Lg!Tick, Lg!NoCount
<1> QED BY <1>2, <1>3, <1>4, <1>5, <1>6

LEMMA GuessInit == Lg!Init => GuessInv
<1> SUFFICES ASSUME Lg!Init, NEW k \in Lg!Counter PROVE GuessAt(k)
  BY LoginTypeInit DEF GuessInv
<1>1. LoginInv /\ lgTried[k] = 0 /\ lgFails[k] = 0
  BY LoginTypeInit DEF Lg!Init
<1>2. Limited(Login, Lg!Top(k), 0, 0, lgLock[k], Ahead(k), Uncounted(k), Locking(k))
  BY <1>1, GuessValues, GuessSets, LimitedClears
<1> QED BY <1>1, <1>2 DEF GuessAt

\* However many logins run at once, and however their captchas, locks and counters are read
\* and written among each other's, an account or an address is tried with no more wrong
\* passwords than its limit and the logins that were under way together (user.py login,
\* _bump_login_fail).
THEOREM GuessesAreBounded == AllSpec => []GuessesBounded
<1>1. AllInit => GuessInv
  BY GuessInit DEF AllInit
<1>2. GuessInv /\ [AllNext]_everything => GuessInv'
  BY GuessNext DEF AllNext, everything
<1>3. GuessInv => GuessesBounded
  <2> SUFFICES ASSUME GuessInv, NEW k \in Lg!Counter
               PROVE  lgTried[k] <= Lg!Top(k) + Lg!Cardinality(Login) - 1
    BY DEF GuessesBounded, Lg!GuessesBounded
  <2>1. LoginInv /\ GuessAt(k)
    BY DEF GuessInv
  <2>2. lgTried[k] <= Lg!Top(k) + Cardinality(Login) - 1
    BY <2>1, GuessValues, GuessSets, LimitedBounds DEF GuessAt
  <2> QED BY <2>2, LoginSizes
<1> QED BY <1>1, <1>2, <1>3, PTL DEF AllSpec
-----------------------------------------------------------------------------
(* All parts together. *)

AllTypesInv == TypeOK /\ LoginInv /\ Sh!TypeOK /\ Tm!TypeOK /\ Ft!TypeOK

\* Every variable of FirstSetup, Logins, SshCommand, Terminal and Sftp keeps its type: among
\* others no more of a command's output is answered than its bound (run_cmd), the pty is
\* never narrower or wider than resize allows, no upload is longer than the limit, and a
\* token is answered only after it was written.
THEOREM SessionTypes == AllSpec => []Types
<1>1. AllInit => AllTypesInv
  BY TypeInit, LoginTypeInit, CommandTypeInit, TerminalTypeInit, TransferTypeInit
     DEF AllInit, AllTypesInv
<1>2. AllTypesInv /\ [AllNext]_everything => AllTypesInv'
  <2> SUFFICES ASSUME AllTypesInv, [AllNext]_everything PROVE AllTypesInv'
    OBVIOUS
  <2>1. TypeOK'
    BY TypeNext DEF AllTypesInv, AllNext, everything
  <2>2. LoginInv'
    BY LoginTypeNext DEF AllTypesInv, AllNext, everything
  <2>3. Sh!TypeOK'
    BY CommandTypeNext DEF AllTypesInv, AllNext, everything
  <2>4. Tm!TypeOK'
    BY TerminalTypeNext DEF AllTypesInv, AllNext, everything
  <2>5. Ft!TypeOK'
    BY TransferTypeNext DEF AllTypesInv, AllNext, everything
  <2> QED BY <2>1, <2>2, <2>3, <2>4, <2>5 DEF AllTypesInv
<1>3. AllTypesInv => Types
  BY LoginTyped DEF AllTypesInv, Types
<1> QED BY <1>1, <1>2, <1>3, PTL DEF AllSpec
=============================================================================
