------------------------------ MODULE MailProofs ------------------------------
(***************************************************************************)
(* MailCodes within Platform: the types, the mails of a day, the wrong     *)
(* codes and the life of a code, for any number of requests, addresses and *)
(* codes and any limits.                                                   *)
(***************************************************************************)
EXTENDS Platform, GuessProofs

LEMMA MailConstants ==
  /\ "ip" \notin Mail /\ IsFiniteSet(MailRequest)
  /\ DayLimit \in Nat \ {0} /\ IpLimit \in Nat \ {0} /\ Tries \in Nat \ {0}
<1>1. Ma!MailCodesAssumption
  BY PlatformAssumption
<1>2. {DayLimit, IpLimit, Tries} \subseteq Nat \ {0}
  BY <1>1 DEF Ma!MailCodesAssumption
<1>3. "ip" \notin Mail /\ IsFiniteSet(MailRequest)
  BY <1>1 DEF Ma!MailCodesAssumption, Ma!IsFiniteSet, IsFiniteSet
<1>4. \A n \in {DayLimit, IpLimit, Tries} : n \in Nat \ {0}
  BY <1>2
<1> QED BY <1>3, <1>4

LEMMA MailSizes == Ma!Cardinality(MailRequest) = Cardinality(MailRequest)
  BY DEF Ma!Cardinality, Cardinality

LEMMA MailKeys ==
  "ip" \in Ma!Key /\ Mail \subseteq Ma!Key /\ \A k \in Ma!Key : k # "ip" => k \in Mail
  BY DEF Ma!Key

-----------------------------------------------------------------------------
(* Types. *)

MailLabel == {"idle", "mail lock", "ip lock", "read", "count mail", "lock mail", "count ip",
              "lock ip", "done", "delete", "clear", "commit", "last", "day", "ip", "mark",
              "draw", "send"}

MailRow == [pc : MailLabel, mail : Mail \cup {Ma!None}, seen : Code \cup {Ma!None}]

\* What Ma!TypeOK says of everything but the requests.
MailValues ==
    /\ maKnown \subseteq Mail
    /\ maLast \in [Mail -> BOOLEAN] /\ maCode \in [Mail -> Code \cup {Ma!None}]
    /\ maDay \in [Ma!Key -> Nat] /\ maFails \in [Ma!Key -> Nat] /\ maTried \in [Ma!Key -> Nat]
    /\ maLock \in [Ma!Key -> BOOLEAN]
    /\ maSent \in [Mail -> Nat] /\ maUsed \subseteq Code

\* A request that does something does it for a mail, and a reset that goes through has read
\* a code.
MailOf(x) ==
    /\ x.pc # "idle" => x.mail \in Mail
    /\ x.pc \in {"delete", "clear", "commit"} => x.seen \in Code /\ x.seen # Ma!None

MailInv ==
    /\ maCall \in [MailRequest -> MailRow]
    /\ MailValues
    /\ \A r \in MailRequest : MailOf(maCall[r])

LEMMA MailTyped == MailInv => Ma!TypeOK
  BY DEF MailInv, MailValues, Ma!TypeOK, MailRow, MailLabel, Ma!Sending

\* A step of one request.
MailAfter(r, x) == maCall' = [maCall EXCEPT ![r] = x]

LEMMA MailFrame ==
  ASSUME MailInv, NEW r \in MailRequest, NEW x \in MailRow, MailAfter(r, x)
  PROVE  /\ maCall' \in [MailRequest -> MailRow] /\ maCall'[r] = x
         /\ \A q \in MailRequest : q # r => maCall'[q] = maCall[q]
  BY DEF MailInv, MailAfter

LEMMA MailGoes ==
  \A r \in MailRequest : \A l \in MailLabel : MailInv /\ Ma!Goto(r, l) =>
      \E x \in MailRow : /\ MailAfter(r, x) /\ x.mail = maCall[r].mail
                         /\ x.seen = maCall[r].seen /\ x.pc = l
<1> SUFFICES ASSUME NEW r \in MailRequest, NEW l \in MailLabel, MailInv, Ma!Goto(r, l)
             PROVE  \E x \in MailRow : /\ MailAfter(r, x) /\ x.mail = maCall[r].mail
                                       /\ x.seen = maCall[r].seen /\ x.pc = l
  OBVIOUS
<1> DEFINE x == [maCall[r] EXCEPT !.pc = l]
<1>1. maCall[r] \in MailRow /\ maCall \in [MailRequest -> MailRow]
  BY DEF MailInv
<1>2. x \in MailRow /\ x.mail = maCall[r].mail /\ x.seen = maCall[r].seen /\ x.pc = l
  BY <1>1 DEF MailRow
<1>3. MailAfter(r, x)
  BY <1>1 DEF MailAfter, Ma!Goto, MailRow
<1> QED BY <1>2, <1>3

LEMMA MailIdle ==
  /\ Ma!Idle \in MailRow /\ Ma!Idle.pc = "idle" /\ Ma!Idle.mail = Ma!None
  /\ Ma!Idle.seen = Ma!None /\ MailOf(Ma!Idle)
  BY DEF Ma!Idle, MailRow, MailLabel, MailOf

LEMMA MailLeaves ==
  ASSUME NEW r, Ma!Leave(r)
  PROVE  MailAfter(r, Ma!Idle)
  BY DEF Ma!Leave, MailAfter

LEMMA MailStep ==
  ASSUME MailInv, NEW r \in MailRequest, NEW x \in MailRow, MailAfter(r, x), MailValues',
         MailOf(x)
  PROVE  MailInv'
<1>1. \A q \in MailRequest : MailOf(maCall'[q])
  <2> SUFFICES ASSUME NEW q \in MailRequest, q # r PROVE MailOf(maCall'[q])
    BY MailFrame
  <2> QED BY MailFrame DEF MailInv
<1> QED BY <1>1, MailFrame DEF MailInv, MailOf

LEMMA MailStays ==
  ASSUME MailInv, UNCHANGED maCall, MailValues'
  PROVE  MailInv'
  BY DEF MailInv

\* What a request finds of itself.
LEMMA MailNow ==
  ASSUME MailInv, NEW r \in MailRequest
  PROVE  /\ maCall[r] \in MailRow /\ MailOf(maCall[r]) /\ MailValues
         /\ maCall[r].pc # "idle" => maCall[r].mail \in Mail /\ maCall[r].mail \in Ma!Key
  BY MailKeys DEF MailInv, MailRow, MailOf

\* A request that goes on or leaves with the code it has.
LEMMA MailMoves ==
  ASSUME MailInv, NEW r \in MailRequest, NEW l \in MailLabel, Ma!Goto(r, l) \/ Ma!Leave(r),
         MailValues', maCall[r].pc # "idle",
         l \in {"delete", "clear", "commit"} => maCall[r].pc \in {"delete", "clear", "commit"}
  PROVE  MailInv'
<1>1. CASE Ma!Leave(r)
  BY <1>1, MailLeaves, MailIdle, MailStep
<1>2. CASE Ma!Goto(r, l)
  <2>1. PICK x \in MailRow : /\ MailAfter(r, x) /\ x.mail = maCall[r].mail
                             /\ x.seen = maCall[r].seen /\ x.pc = l
    BY <1>2, MailGoes
  <2>2. MailOf(x)
    BY <2>1, MailNow DEF MailOf
  <2> QED BY <2>1, <2>2, MailStep
<1> QED BY <1>1, <1>2

-----------------------------------------------------------------------------
(* Types: the values that a step may change. *)

LEMMA MailValuesStay ==
  ASSUME MailValues,
         UNCHANGED <<maKnown, maLast, maDay, maCode, maFails, maLock, maSent, maTried, maUsed>>
  PROVE  MailValues'
  BY DEF MailValues

LEMMA MailSends ==
  ASSUME MailValues, maLast' \in [Mail -> BOOLEAN], maDay' \in [Ma!Key -> Nat],
         maSent' \in [Mail -> Nat],
         UNCHANGED <<maKnown, maCode, maFails, maLock, maTried, maUsed>>
  PROVE  MailValues'
  BY DEF MailValues

LEMMA MailCodesKept ==
  ASSUME MailValues, maCode' \in [Mail -> Code \cup {Ma!None}], maUsed' \subseteq Code,
         UNCHANGED <<maKnown, maLast, maDay, maFails, maLock, maSent, maTried>>
  PROVE  MailValues'
  BY DEF MailValues

LEMMA MailCounts ==
  ASSUME MailValues, maFails' \in [Ma!Key -> Nat], maTried' \in [Ma!Key -> Nat],
         maLock' \in [Ma!Key -> BOOLEAN],
         UNCHANGED <<maKnown, maLast, maDay, maCode, maSent, maUsed>>
  PROVE  MailValues'
  BY DEF MailValues

LEMMA MailTypeInit == Ma!Init => MailInv
<1> SUFFICES ASSUME Ma!Init PROVE MailInv
  OBVIOUS
<1>1. MailValues
  BY DEF Ma!Init, MailValues
<1>2. maCall \in [MailRequest -> MailRow] /\ \A r \in MailRequest : maCall[r] = Ma!Idle
  BY MailIdle DEF Ma!Init
<1> QED BY <1>1, <1>2, MailIdle DEF MailInv
-----------------------------------------------------------------------------
(* Types: the actions. *)

LEMMA MailLabels ==
  /\ "ip lock" \in MailLabel /\ "read" \in MailLabel /\ "count mail" \in MailLabel
  /\ "lock mail" \in MailLabel /\ "count ip" \in MailLabel /\ "lock ip" \in MailLabel
  /\ "done" \in MailLabel /\ "delete" \in MailLabel /\ "clear" \in MailLabel
  /\ "commit" \in MailLabel /\ "day" \in MailLabel /\ "ip" \in MailLabel
  /\ "mark" \in MailLabel /\ "draw" \in MailLabel /\ "send" \in MailLabel
  /\ "idle" \in MailLabel
  BY DEF MailLabel

LEMMA MailRaised ==
  ASSUME NEW K, NEW f \in [K -> Nat], NEW k \in K
  PROVE  [f EXCEPT ![k] = f[k] + 1] \in [K -> Nat]
  OBVIOUS

LEMMA MailBegins ==
  ASSUME MailInv, NEW r \in MailRequest, NEW m \in Mail, Ma!SendBegin(r, m) \/ Ma!ResetBegin(r, m)
  PROVE  MailInv' /\ \E x \in MailRow : /\ MailAfter(r, x) /\ x.pc \in {"last", "mail lock"}
                                        /\ x.seen = Ma!None
<1>1. PICK l \in {"last", "mail lock"} :
          maCall' = [maCall EXCEPT ![r] = [Ma!Idle EXCEPT !.pc = l, !.mail = m]]
  BY DEF Ma!SendBegin, Ma!ResetBegin
<1> DEFINE x == [Ma!Idle EXCEPT !.pc = l, !.mail = m]
<1>2. x \in MailRow /\ x.pc = l /\ x.mail = m /\ x.seen = Ma!None
  BY MailIdle DEF Ma!Idle, MailRow, MailLabel
<1>3. MailAfter(r, x)
  BY <1>1 DEF MailAfter
<1>4. MailOf(x)
  BY <1>2 DEF MailOf
<1>5. MailValues'
  BY MailNow, MailValuesStay DEF Ma!SendBegin, Ma!ResetBegin, Ma!NoSending, Ma!NoReset
<1> QED BY <1>2, <1>3, <1>4, <1>5, MailStep

LEMMA MailLooksTyped ==
  ASSUME MailInv, NEW r \in MailRequest,
         Ma!LookAtLast(r) \/ Ma!MailLock(r) \/ Ma!IpLock(r) \/ Ma!Answer(r)
  PROVE  MailInv'
<1>1. MailValues' /\ maCall[r].pc # "idle"
  BY MailNow, MailValuesStay
     DEF Ma!LookAtLast, Ma!MailLock, Ma!IpLock, Ma!LookAtLock, Ma!Answer, Ma!NoSending,
         Ma!NoReset
<1>2. \E l \in {"day", "ip lock", "read"} : Ma!Goto(r, l) \/ Ma!Leave(r)
  BY DEF Ma!LookAtLast, Ma!MailLock, Ma!IpLock, Ma!LookAtLock, Ma!Answer
<1> QED BY <1>1, <1>2, MailMoves, MailLabels

LEMMA MailCountDayTyped ==
  ASSUME MailInv, NEW r \in MailRequest, NEW k \in Ma!Key, NEW most, NEW here,
         NEW next \in {"ip", "mark"}, here # "idle", Ma!CountDay(r, k, most, here, next)
  PROVE  MailInv'
<1>1. maDay' \in [Ma!Key -> Nat]
  <2>1. maDay \in [Ma!Key -> Nat]
    BY MailNow DEF MailValues
  <2>2. maDay' = maDay \/ maDay' = [maDay EXCEPT ![k] = maDay[k] + 1]
    BY <2>1 DEF Ma!CountDay
  <2> QED BY <2>1, <2>2, MailRaised
<1>2. maLast' \in [Mail -> BOOLEAN]
  BY MailNow DEF Ma!CountDay, MailValues
<1>3. maSent' \in [Mail -> Nat]
  BY MailNow DEF Ma!CountDay, MailValues
<1>4. MailValues'
  BY <1>1, <1>2, <1>3, MailNow, MailSends DEF Ma!CountDay, Ma!NoReset
<1>5. maCall[r].pc # "idle" /\ (Ma!Goto(r, next) \/ Ma!Leave(r))
  BY DEF Ma!CountDay
<1> QED BY <1>4, <1>5, MailMoves, MailLabels

LEMMA MailMarkTyped ==
  ASSUME MailInv, NEW r \in MailRequest, Ma!Mark(r)
  PROVE  MailInv'
<1>0. MailValues /\ maCall[r].pc # "idle" /\ Ma!Goto(r, "draw")
  BY MailNow DEF Ma!Mark
<1>1. maLast' \in [Mail -> BOOLEAN]
  BY <1>0 DEF Ma!Mark, MailValues
<1>2. maDay' \in [Ma!Key -> Nat]
  BY <1>0 DEF Ma!Mark, MailValues
<1>3. maSent' \in [Mail -> Nat]
  BY <1>0 DEF Ma!Mark, MailValues
<1>4. MailValues'
  BY <1>0, <1>1, <1>2, <1>3, MailSends DEF Ma!Mark, Ma!NoReset
<1> QED BY <1>0, <1>4, MailMoves, MailLabels

LEMMA MailSendTyped ==
  ASSUME MailInv, NEW r \in MailRequest, Ma!Send(r)
  PROVE  /\ MailInv' /\ maCall[r].mail \in Mail
         /\ maSent' = [maSent EXCEPT ![maCall[r].mail] = maSent[maCall[r].mail] + 1]
<1>0. MailValues /\ maCall[r].pc # "idle" /\ maCall[r].mail \in Mail /\ Ma!Leave(r)
  BY MailNow DEF Ma!Send, MailOf
<1>1. maLast' \in [Mail -> BOOLEAN]
  BY <1>0 DEF Ma!Send, MailValues
<1>2. maDay' \in [Ma!Key -> Nat]
  BY <1>0 DEF Ma!Send, MailValues
<1>3. maSent' = [maSent EXCEPT ![maCall[r].mail] = maSent[maCall[r].mail] + 1]
  BY DEF Ma!Send
<1>4. maSent' \in [Mail -> Nat]
  <2>1. maSent \in [Mail -> Nat]
    BY <1>0 DEF MailValues
  <2> QED BY <1>0, <1>3, <2>1, MailRaised
<1>5. MailValues'
  BY <1>0, <1>1, <1>2, <1>4, MailSends DEF Ma!Send, Ma!NoReset
<1> QED BY <1>0, <1>3, <1>5, MailMoves, MailLabels

LEMMA MailDrawTyped ==
  ASSUME MailInv, NEW r \in MailRequest, Ma!Draw(r)
  PROVE  MailInv'
<1>0. MailValues /\ maCall[r].pc # "idle" /\ maCall[r].mail \in Mail
  BY MailNow DEF Ma!Draw, MailOf
<1>1. \/ Ma!Leave(r) /\ UNCHANGED <<maCode, maUsed>>
      \/ /\ \E c \in Code : /\ maCode' = [maCode EXCEPT ![maCall[r].mail] = c]
                            /\ maUsed' = maUsed \ {c}
         /\ Ma!Goto(r, "send")
  BY DEF Ma!Draw
<1>2. maCode' \in [Mail -> Code \cup {Ma!None}] /\ maUsed' \subseteq Code
  BY <1>0, <1>1 DEF MailValues
<1>3. MailValues'
  BY <1>0, <1>2, MailCodesKept DEF Ma!Draw, Ma!NoSending
<1> QED BY <1>0, <1>1, <1>3, MailMoves, MailLabels

LEMMA MailCountTyped ==
  ASSUME MailInv, NEW r \in MailRequest, NEW k \in Ma!Key, NEW here, here # "idle",
         NEW locking \in {"lock mail", "lock ip"}, NEW next \in {"count ip", "done"},
         Ma!Count(r, k, here, locking, next)
  PROVE  MailInv'
<1>0. MailValues /\ maCall[r].pc # "idle"
  BY MailNow DEF Ma!Count
<1>1. maFails' \in [Ma!Key -> Nat]
  <2>1. maFails \in [Ma!Key -> Nat]
    BY <1>0 DEF MailValues
  <2>2. maFails' = [maFails EXCEPT ![k] = maFails[k] + 1]
    BY DEF Ma!Count
  <2> QED BY <2>1, <2>2, MailRaised
<1>2. maTried' \in [Ma!Key -> Nat]
  BY <1>0 DEF Ma!Count, MailValues
<1>3. maLock' \in [Ma!Key -> BOOLEAN]
  BY <1>0 DEF Ma!Count, MailValues
<1>4. MailValues'
  BY <1>0, <1>1, <1>2, <1>3, MailCounts DEF Ma!Count, Ma!NoSending
<1>5. \E l \in {locking, next} : Ma!Goto(r, l)
  BY DEF Ma!Count
<1> QED BY <1>0, <1>4, <1>5, MailMoves, MailLabels

LEMMA MailLockTyped ==
  ASSUME MailInv, NEW r \in MailRequest, NEW k \in Ma!Key, NEW here, here # "idle",
         NEW next \in {"count ip", "done"}, Ma!Lock(r, k, here, next)
  PROVE  MailInv'
<1>0. MailValues /\ maCall[r].pc # "idle" /\ Ma!Goto(r, next)
  BY MailNow DEF Ma!Lock
<1>1. maFails' \in [Ma!Key -> Nat] /\ maTried' \in [Ma!Key -> Nat]
  BY <1>0 DEF Ma!Lock, MailValues
<1>2. maLock' \in [Ma!Key -> BOOLEAN]
  BY <1>0 DEF Ma!Lock, MailValues
<1>3. MailValues'
  BY <1>0, <1>1, <1>2, MailCounts DEF Ma!Lock, Ma!NoSending
<1> QED BY <1>0, <1>3, MailMoves, MailLabels

LEMMA MailReadTyped ==
  ASSUME MailInv, NEW r \in MailRequest, Ma!Read(r)
  PROVE  /\ MailInv'
         /\ \/ Ma!Goto(r, "count mail")
            \/ /\ maCode[maCall[r].mail] \in Code /\ maCode[maCall[r].mail] # Ma!None
               /\ UNCHANGED maTried
               /\ \E x \in MailRow : /\ MailAfter(r, x) /\ x.pc = "delete"
                                     /\ x.mail = maCall[r].mail
                                     /\ x.seen = maCode[maCall[r].mail]
<1>0. MailValues /\ maCall[r].pc = "read" /\ maCall[r].mail \in Mail /\ maCall[r] \in MailRow
  BY MailNow DEF Ma!Read, MailOf
<1> DEFINE m == maCall[r].mail
           guess == [k \in Ma!Key |-> maTried[k] + IF k \in {m, "ip"} THEN 1 ELSE 0]
<1>1. \/ Ma!Goto(r, "count mail") /\ (UNCHANGED maTried \/ maTried' = guess)
      \/ /\ maCode[m] # Ma!None
         /\ maCall' = [maCall EXCEPT ![r].pc = "delete", ![r].seen = maCode[m]]
         /\ UNCHANGED maTried
  BY DEF Ma!Read
<1>2. maTried' \in [Ma!Key -> Nat]
  <2>1. maTried \in [Ma!Key -> Nat]
    BY <1>0 DEF MailValues
  <2>2. guess \in [Ma!Key -> Nat]
    <3>1. \A k \in Ma!Key : maTried[k] + (IF k \in {m, "ip"} THEN 1 ELSE 0) \in Nat
      BY <2>1
    <3> QED BY <3>1
  <2> HIDE DEF guess
  <2> QED BY <1>1, <2>1, <2>2
<1>3. maFails' \in [Ma!Key -> Nat] /\ UNCHANGED <<maKnown, maLast, maDay, maCode, maSent, maUsed>>
  BY <1>0 DEF Ma!Read, MailValues, Ma!NoSending
<1>4. maLock' \in [Ma!Key -> BOOLEAN]
  BY <1>0 DEF Ma!Read, MailValues
<1>5. MailValues'
  BY <1>0, <1>2, <1>3, <1>4, MailCounts
<1>6. CASE Ma!Goto(r, "count mail")
  BY <1>0, <1>5, <1>6, MailMoves, MailLabels
<1>7. CASE /\ maCode[m] # Ma!None
           /\ maCall' = [maCall EXCEPT ![r].pc = "delete", ![r].seen = maCode[m]]
           /\ UNCHANGED maTried
  <2>1. maCode[m] \in Code
    BY <1>0, <1>7 DEF MailValues
  <2> DEFINE x == [maCall[r] EXCEPT !.pc = "delete", !.seen = maCode[m]]
  <2>2. x \in MailRow /\ x.pc = "delete" /\ x.mail = m /\ x.seen = maCode[m]
    BY <1>0, <2>1 DEF MailRow, MailLabel
  <2>3. MailAfter(r, x)
    BY <1>0, <1>7 DEF MailAfter, MailInv, MailRow
  <2>4. MailOf(x)
    BY <1>0, <1>7, <2>1, <2>2 DEF MailOf
  <2> QED BY <1>5, <1>7, <2>1, <2>2, <2>3, <2>4, MailStep
<1> QED BY <1>1, <1>6, <1>7
LEMMA MailDeleteTyped ==
  ASSUME MailInv, NEW r \in MailRequest, Ma!Delete(r)
  PROVE  MailInv'
<1>0. MailValues /\ maCall[r].pc = "delete" /\ maCall[r].mail \in Mail /\ Ma!Goto(r, "clear")
  BY MailNow DEF Ma!Delete, MailOf
<1>1. maCode' \in [Mail -> Code \cup {Ma!None}] /\ maUsed' \subseteq Code
  BY <1>0 DEF Ma!Delete, MailValues, Ma!NoReset
<1>2. MailValues'
  BY <1>0, <1>1, MailCodesKept DEF Ma!Delete, Ma!NoSending, Ma!NoReset
<1> QED BY <1>0, <1>2, MailMoves, MailLabels

LEMMA MailClearTyped ==
  ASSUME MailInv, NEW r \in MailRequest, Ma!ClearFails(r)
  PROVE  /\ MailInv'
         /\ \A k \in Ma!Key : IF k \in {maCall[r].mail, "ip"}
                              THEN maFails'[k] = 0 /\ maTried'[k] = 0
                              ELSE maFails'[k] = maFails[k] /\ maTried'[k] = maTried[k]
<1>0. MailValues /\ maCall[r].pc = "clear" /\ Ma!Goto(r, "commit")
  BY MailNow DEF Ma!ClearFails
<1>1. /\ maFails' = [k \in Ma!Key |-> IF k \in {maCall[r].mail, "ip"} THEN 0 ELSE maFails[k]]
      /\ maTried' = [k \in Ma!Key |-> IF k \in {maCall[r].mail, "ip"} THEN 0 ELSE maTried[k]]
  BY DEF Ma!ClearFails
<1>2. maFails' \in [Ma!Key -> Nat]
  BY <1>0, <1>1 DEF MailValues
<1>3. maTried' \in [Ma!Key -> Nat]
  BY <1>0, <1>1 DEF MailValues
<1>4. maLock' \in [Ma!Key -> BOOLEAN]
  BY <1>0 DEF Ma!ClearFails, MailValues
<1>5. MailValues'
  BY <1>0, <1>2, <1>3, <1>4, MailCounts DEF Ma!ClearFails, Ma!NoSending
<1>6. MailInv'
  BY <1>0, <1>5, MailMoves, MailLabels
<1> QED BY <1>1, <1>6

LEMMA MailCommitTyped ==
  ASSUME MailInv, NEW r \in MailRequest, Ma!Commit(r)
  PROVE  MailInv'
<1>0. MailValues /\ maCall[r].pc = "commit" /\ maCall[r].seen \in Code /\ Ma!Leave(r)
  BY MailNow DEF Ma!Commit, MailOf
<1>1. maCode' \in [Mail -> Code \cup {Ma!None}] /\ maUsed' \subseteq Code
  BY <1>0 DEF Ma!Commit, MailValues
<1>2. MailValues'
  BY <1>0, <1>1, MailCodesKept DEF Ma!Commit, Ma!NoSending
<1> QED BY <1>0, <1>2, MailMoves, MailLabels

LEMMA MailStepTyped ==
  ASSUME MailInv, NEW r \in MailRequest, Ma!Step(r)
  PROVE  MailInv'
<1>1. CASE Ma!LookAtLast(r) \/ Ma!MailLock(r) \/ Ma!IpLock(r) \/ Ma!Answer(r)
  BY <1>1, MailLooksTyped
<1>2. CASE Ma!CountMail(r)
  <2>1. maCall[r].mail \in Ma!Key
    BY <1>2, MailNow DEF Ma!CountMail, Ma!CountDay
  <2> QED BY <1>2, <2>1, MailCountDayTyped DEF Ma!CountMail
<1>3. CASE Ma!CountIp(r)
  BY <1>3, MailCountDayTyped, MailKeys DEF Ma!CountIp
<1>4. CASE Ma!Mark(r) \/ Ma!Draw(r) \/ Ma!Send(r) \/ Ma!Read(r)
  BY <1>4, MailMarkTyped, MailDrawTyped, MailSendTyped, MailReadTyped
<1>5. CASE Ma!CountFail(r)
  <2>1. maCall[r].mail \in Ma!Key
    BY <1>5, MailNow DEF Ma!CountFail, Ma!Count
  <2> QED BY <1>5, <2>1, MailCountTyped DEF Ma!CountFail
<1>6. CASE Ma!CountFailIp(r)
  BY <1>6, MailCountTyped, MailKeys DEF Ma!CountFailIp
<1>7. CASE Ma!LockMail(r)
  <2>1. maCall[r].mail \in Ma!Key
    BY <1>7, MailNow DEF Ma!LockMail, Ma!Lock
  <2> QED BY <1>7, <2>1, MailLockTyped DEF Ma!LockMail
<1>8. CASE Ma!LockIp(r)
  BY <1>8, MailLockTyped, MailKeys DEF Ma!LockIp
<1>9. CASE Ma!Delete(r) \/ Ma!ClearFails(r) \/ Ma!Commit(r)
  BY <1>9, MailDeleteTyped, MailClearTyped, MailCommitTyped
<1> QED BY <1>1, <1>2, <1>3, <1>4, <1>5, <1>6, <1>7, <1>8, <1>9 DEF Ma!Step

LEMMA MailLapsesTyped ==
  ASSUME MailInv,
         \/ \E m \in Mail : Ma!LastLapses(m) \/ Ma!CodeLapses(m)
         \/ \E k \in Ma!Key : Ma!DayLapses(k) \/ Ma!FailsLapse(k) \/ Ma!LockLapses(k)
  PROVE  MailInv'
<1>0. MailValues
  BY DEF MailInv
<1>1. ASSUME NEW m \in Mail, Ma!LastLapses(m)
      PROVE  MailInv'
  <2>1. maLast' \in [Mail -> BOOLEAN]
    BY <1>0, <1>1 DEF Ma!LastLapses, MailValues
  <2>2. maDay' \in [Ma!Key -> Nat] /\ maSent' \in [Mail -> Nat]
    BY <1>0, <1>1 DEF Ma!LastLapses, MailValues
  <2>3. MailValues'
    BY <1>0, <1>1, <2>1, <2>2, MailSends DEF Ma!LastLapses, Ma!NoReset
  <2> QED BY <1>1, <2>3, MailStays DEF Ma!LastLapses
<1>2. ASSUME NEW m \in Mail, Ma!CodeLapses(m)
      PROVE  MailInv'
  <2>1. maCode' \in [Mail -> Code \cup {Ma!None}] /\ maUsed' \subseteq Code
    BY <1>0, <1>2 DEF Ma!CodeLapses, MailValues, Ma!NoReset
  <2>2. MailValues'
    BY <1>0, <1>2, <2>1, MailCodesKept DEF Ma!CodeLapses, Ma!NoSending, Ma!NoReset
  <2> QED BY <1>2, <2>2, MailStays DEF Ma!CodeLapses
<1>3. ASSUME NEW k \in Ma!Key, Ma!DayLapses(k)
      PROVE  MailInv'
  <2>1. maLast' \in [Mail -> BOOLEAN]
    BY <1>0, <1>3 DEF Ma!DayLapses, MailValues
  <2>2. maDay' \in [Ma!Key -> Nat]
    BY <1>0, <1>3 DEF Ma!DayLapses, MailValues
  <2>3. maSent' \in [Mail -> Nat]
    BY <1>0, <1>3 DEF Ma!DayLapses, MailValues
  <2>4. MailValues'
    BY <1>0, <1>3, <2>1, <2>2, <2>3, MailSends DEF Ma!DayLapses, Ma!NoReset
  <2> QED BY <1>3, <2>4, MailStays DEF Ma!DayLapses
<1>4. ASSUME NEW k \in Ma!Key, Ma!FailsLapse(k) \/ Ma!LockLapses(k)
      PROVE  MailInv'
  <2>1. maFails' \in [Ma!Key -> Nat] /\ maTried' \in [Ma!Key -> Nat]
    BY <1>0, <1>4 DEF Ma!FailsLapse, Ma!LockLapses, MailValues
  <2>2. maLock' \in [Ma!Key -> BOOLEAN]
    BY <1>0, <1>4 DEF Ma!FailsLapse, Ma!LockLapses, MailValues
  <2>3. MailValues'
    BY <1>0, <1>4, <2>1, <2>2, MailCounts DEF Ma!FailsLapse, Ma!LockLapses, Ma!NoSending
  <2> QED BY <1>4, <2>3, MailStays DEF Ma!FailsLapse, Ma!LockLapses
<1> QED BY <1>1, <1>2, <1>3, <1>4

LEMMA MailTypeNext ==
  ASSUME MailInv, Ma!Next \/ UNCHANGED ma
  PROVE  MailInv'
<1>1. CASE UNCHANGED ma
  <2>1. MailValues'
    BY <1>1, MailValuesStay DEF ma, MailInv
  <2> QED BY <1>1, <2>1, MailStays DEF ma
<1> QED BY <1>1, MailBegins, MailStepTyped, MailLapsesTyped DEF Ma!Next

-----------------------------------------------------------------------------
(* The mails of a day. *)

\* Requests that the day's counter has let through and that have not sent their mail.
Passed(m) == {r \in MailRequest : /\ maCall[r].mail = m
                                  /\ maCall[r].pc \in {"ip", "mark", "draw", "send"}}

DayAt(m) ==
    /\ maSent[m] + Cardinality(Passed(m)) <= maDay[m]
    /\ maSent[m] + Cardinality(Passed(m)) <= DayLimit

DayInv == MailInv /\ \A m \in Mail : DayAt(m)

LEMMA DayValues ==
  ASSUME MailInv, NEW m \in Mail
  PROVE  /\ maSent[m] \in Nat /\ maDay[m] \in Nat /\ DayLimit \in Nat
         /\ Passed(m) \subseteq MailRequest /\ Cardinality(Passed(m)) \in Nat
<1>1. maSent[m] \in Nat
  BY DEF MailInv, MailValues
<1>2. maDay[m] \in Nat
  BY MailKeys DEF MailInv, MailValues
<1>3. Passed(m) \subseteq MailRequest
  BY DEF Passed
<1> QED BY <1>1, <1>2, <1>3, MailConstants, Sizes

\* What becomes of the set when a request becomes x.
LEMMA DayShift ==
  ASSUME MailInv, NEW r \in MailRequest, NEW x \in MailRow, MailAfter(r, x), NEW m
  PROVE  Passed(m)' = IF x.mail = m /\ x.pc \in {"ip", "mark", "draw", "send"}
                      THEN Passed(m) \cup {r} ELSE Passed(m) \ {r}
<1>1. maCall'[r] = x /\ \A q \in MailRequest : q # r => maCall'[q] = maCall[q]
  BY MailFrame
<1> QED BY <1>1 DEF Passed

\* A request that stays among those let through, or leaves, with the counter not lower.
LEMMA DayKeeps ==
  ASSUME MailInv, NEW m \in Mail, DayAt(m), Passed(m)' \subseteq Passed(m),
         maSent'[m] = maSent[m], maDay'[m] \in Nat, maDay'[m] >= maDay[m]
  PROVE  DayAt(m)'
<1>1. Cardinality(Passed(m)') <= Cardinality(Passed(m)) /\ Cardinality(Passed(m)') \in Nat
  BY NoMore, DayValues, MailConstants
<1>2. /\ maSent[m] + Cardinality(Passed(m)') <= maDay'[m]
      /\ maSent[m] + Cardinality(Passed(m)') <= DayLimit
  BY <1>1, DayValues DEF DayAt
<1> QED BY <1>2 DEF DayAt

LEMMA DayCounts ==
  ASSUME MailInv, NEW m \in Mail, DayAt(m), NEW r \in MailRequest, Ma!CountMail(r)
  PROVE  DayAt(m)'
<1> DEFINE n == maCall[r].mail
<1>0. /\ maCall[r].pc = "day" /\ n \in Mail /\ maSent' = maSent
      /\ maDay' = [maDay EXCEPT ![n] = IF @ > DayLimit THEN @ ELSE @ + 1]
      /\ IF maDay[n] + 1 > DayLimit THEN Ma!Leave(r) ELSE Ma!Goto(r, "ip")
  BY MailNow DEF Ma!CountMail, Ma!CountDay, MailOf
<1>1. maDay \in [Ma!Key -> Nat] /\ maDay[m] \in Nat /\ DayLimit \in Nat /\ m \in Ma!Key
  BY MailKeys, MailConstants DEF MailInv, MailValues
<1>2. r \notin Passed(m)
  BY <1>0 DEF Passed
<1>3. maDay'[m] \in Nat /\ maDay'[m] >= maDay[m]
  BY <1>0, <1>1
<1>4. CASE Ma!Leave(r)
  <2>1. Passed(m)' \subseteq Passed(m)
    BY <1>4, DayShift, MailLeaves, MailIdle
  <2> QED BY <1>0, <1>3, <2>1, DayKeeps
<1>5. CASE ~Ma!Leave(r) /\ m # n
  <2>1. Ma!Goto(r, "ip")
    BY <1>0, <1>5
  <2>2. PICK x \in MailRow : MailAfter(r, x) /\ x.mail = n
    BY <2>1, MailGoes, MailLabels
  <2>3. Passed(m)' \subseteq Passed(m)
    BY <1>5, <2>2, DayShift
  <2> QED BY <1>0, <1>3, <2>3, DayKeeps
<1>6. CASE ~Ma!Leave(r) /\ m = n
  <2>1. Ma!Goto(r, "ip") /\ maDay[m] + 1 <= DayLimit
    BY <1>0, <1>1, <1>6
  <2>2. PICK x \in MailRow : MailAfter(r, x) /\ x.mail = n /\ x.pc = "ip"
    <3>1. PICK l \in MailLabel : Ma!Goto(r, l) /\ l = "ip"
      BY <2>1, MailLabels
    <3> QED BY <3>1, MailGoes
  <2>3. Passed(m)' = Passed(m) \cup {r}
    BY <1>6, <2>2, DayShift
  <2>4. Cardinality(Passed(m)') = Cardinality(Passed(m)) + 1
    BY <1>2, <2>3, Grown, DayValues, MailConstants
  <2>5. maDay'[m] = maDay[m] + 1
    BY <1>0, <1>1, <1>6, <2>1
  <2>6. /\ maSent[m] + Cardinality(Passed(m)') <= maDay'[m]
        /\ maSent[m] + Cardinality(Passed(m)') <= DayLimit
    BY <2>1, <2>4, <2>5, DayValues DEF DayAt
  <2> QED BY <1>0, <2>6 DEF DayAt
<1> QED BY <1>4, <1>5, <1>6

LEMMA DaySends ==
  ASSUME MailInv, NEW m \in Mail, DayAt(m), NEW r \in MailRequest, Ma!Send(r)
  PROVE  DayAt(m)'
<1>0. /\ maCall[r].pc = "send" /\ Ma!Leave(r) /\ maDay' = maDay /\ maCall[r].mail \in Mail
      /\ maSent' = [maSent EXCEPT ![maCall[r].mail] = maSent[maCall[r].mail] + 1]
  BY MailSendTyped DEF Ma!Send
<1>1. Passed(m)' = Passed(m) \ {r}
  BY <1>0, DayShift, MailLeaves, MailIdle
<1>2. maSent \in [Mail -> Nat]
  BY DEF MailInv, MailValues
<1>3. CASE maCall[r].mail = m
  <2>1. r \in Passed(m) /\ maSent'[m] = maSent[m] + 1
    BY <1>0, <1>2, <1>3 DEF Passed
  <2>2. Cardinality(Passed(m)') = Cardinality(Passed(m)) - 1
    BY <1>1, <2>1, Shrunk, DayValues, MailConstants
  <2>3. /\ maSent'[m] + Cardinality(Passed(m)') <= maDay[m]
        /\ maSent'[m] + Cardinality(Passed(m)') <= DayLimit
    BY <2>1, <2>2, DayValues DEF DayAt
  <2> QED BY <1>0, <2>3 DEF DayAt
<1>4. CASE maCall[r].mail # m
  <2>1. maSent'[m] = maSent[m] /\ maDay'[m] = maDay[m] /\ maDay[m] \in Nat
    BY <1>0, <1>2, <1>4, DayValues
  <2> QED BY <1>1, <2>1, DayKeeps
<1> QED BY <1>3, <1>4
\* The other steps take no request to where the counter has let it through.
LEMMA DayOthers ==
  ASSUME MailInv, NEW m \in Mail, DayAt(m), NEW r \in MailRequest, Ma!Step(r),
         ~Ma!CountMail(r), ~Ma!Send(r)
  PROVE  DayAt(m)'
<1>1. maSent'[m] = maSent[m]
  BY DEF Ma!Step, Ma!LookAtLast, Ma!CountIp, Ma!CountDay, Ma!Mark, Ma!Draw, Ma!MailLock,
         Ma!IpLock, Ma!LookAtLock, Ma!Read, Ma!CountFail, Ma!CountFailIp, Ma!Count,
         Ma!LockMail, Ma!LockIp, Ma!Lock, Ma!Answer, Ma!Delete, Ma!ClearFails, Ma!Commit,
         Ma!NoSending
<1>2. maDay'[m] = maDay[m]
  <2>1. CASE Ma!CountIp(r)
    BY <2>1, MailConstants DEF Ma!CountIp, Ma!CountDay, MailInv, MailValues, Ma!Key
  <2>2. CASE ~Ma!CountIp(r)
    BY <2>2
       DEF Ma!Step, Ma!LookAtLast, Ma!Mark, Ma!Draw, Ma!MailLock, Ma!IpLock, Ma!LookAtLock,
           Ma!Read, Ma!CountFail, Ma!CountFailIp, Ma!Count, Ma!LockMail, Ma!LockIp,
           Ma!Lock, Ma!Answer, Ma!Delete, Ma!ClearFails, Ma!Commit, Ma!NoSending
  <2> QED BY <2>1, <2>2
<1>3. Passed(m)' \subseteq Passed(m)
  <2>1. CASE Ma!Leave(r)
    BY <2>1, DayShift, MailLeaves, MailIdle
  <2>2. CASE Ma!CountIp(r) \/ Ma!Mark(r) \/ Ma!Draw(r)
    <3>1. maCall[r].pc \in {"ip", "mark", "draw"}
      BY <2>2 DEF Ma!CountIp, Ma!CountDay, Ma!Mark, Ma!Draw
    <3>2. Ma!Leave(r) \/ \E l \in MailLabel : Ma!Goto(r, l)
      BY <2>2, MailLabels DEF Ma!CountIp, Ma!CountDay, Ma!Mark, Ma!Draw
    <3>3. ASSUME NEW l \in MailLabel, Ma!Goto(r, l)
          PROVE  \E x \in MailRow : MailAfter(r, x) /\ x.mail = maCall[r].mail
      BY <3>3, MailGoes
    <3>4. ASSUME NEW x \in MailRow, MailAfter(r, x), x.mail = maCall[r].mail
          PROVE  Passed(m)' \subseteq Passed(m)
      <4>1. maCall[r].mail = m => r \in Passed(m)
        BY <3>1 DEF Passed
      <4> QED BY <3>4, <4>1, DayShift
    <3> QED BY <2>1, <3>2, <3>3, <3>4
  <2>3. CASE Ma!Read(r)
    <3>1. \E x \in MailRow : MailAfter(r, x) /\ x.pc \notin {"ip", "mark", "draw", "send"}
      <4>1. ASSUME Ma!Goto(r, "count mail")
            PROVE  \E x \in MailRow : MailAfter(r, x) /\ x.pc = "count mail"
        <5>1. PICK l \in MailLabel : Ma!Goto(r, l) /\ l = "count mail"
          BY <4>1, MailLabels
        <5> QED BY <5>1, MailGoes
      <4> QED BY <2>3, <4>1, MailReadTyped
    <3> QED BY <3>1, DayShift
  <2>4. CASE ~Ma!Leave(r) /\ ~Ma!CountIp(r) /\ ~Ma!Mark(r) /\ ~Ma!Draw(r) /\ ~Ma!Read(r)
    <3>1. \E l \in {"day", "ip lock", "read", "count ip", "lock mail", "lock ip", "done",
                    "clear", "commit"} : Ma!Goto(r, l)
      BY <2>4 DEF Ma!Step, Ma!LookAtLast, Ma!MailLock, Ma!IpLock, Ma!LookAtLock,
                  Ma!CountFail, Ma!CountFailIp, Ma!Count, Ma!LockMail, Ma!LockIp, Ma!Lock,
                  Ma!Answer, Ma!Delete, Ma!ClearFails, Ma!Commit
    <3>2. PICK l \in MailLabel : Ma!Goto(r, l) /\ l \notin {"ip", "mark", "draw", "send"}
      BY <3>1, MailLabels
    <3>3. \E x \in MailRow : MailAfter(r, x) /\ x.pc = l
      BY <3>2, MailGoes
    <3> QED BY <3>2, <3>3, DayShift
  <2> QED BY <2>1, <2>2, <2>3, <2>4
<1> QED
  <2>1. maDay'[m] \in Nat /\ maDay'[m] >= maDay[m]
    BY <1>2, DayValues
  <2> QED BY <1>1, <1>3, <2>1, DayKeeps

LEMMA DayLapse ==
  ASSUME MailInv, NEW m \in Mail, DayAt(m), NEW k \in Ma!Key, Ma!DayLapses(k)
  PROVE  DayAt(m)'
<1>0. /\ maDay \in [Ma!Key -> Nat] /\ maSent \in [Mail -> Nat] /\ UNCHANGED maCall
      /\ maDay' = [maDay EXCEPT ![k] = 0]
      /\ maSent' = [n \in Mail |-> IF n = k THEN 0 ELSE maSent[n]]
      /\ \A r \in MailRequest : maCall[r].pc \notin Ma!Sending
  BY DEF MailInv, MailValues, Ma!DayLapses
<1>1. Passed(m)' = Passed(m) /\ Passed(m) = {}
  BY <1>0 DEF Passed, Ma!Sending
<1>2. CASE k = m
  <2>1. maSent'[m] = 0 /\ maDay'[m] = 0 /\ Cardinality(Passed(m)') = 0 /\ DayLimit \in Nat
    BY <1>0, <1>1, <1>2, FS_EmptySet, DayValues, MailKeys
  <2>2. /\ maSent'[m] + Cardinality(Passed(m)') <= maDay'[m]
        /\ maSent'[m] + Cardinality(Passed(m)') <= DayLimit
    BY <2>1
  <2> QED BY <2>2 DEF DayAt
<1>3. CASE k # m
  <2>1. maSent'[m] = maSent[m] /\ maDay'[m] = maDay[m] /\ maDay[m] \in Nat
    BY <1>0, <1>3, DayValues, MailKeys
  <2> QED BY <1>1, <2>1, DayKeeps
<1> QED BY <1>2, <1>3

LEMMA DayNext ==
  ASSUME DayInv, Ma!Next \/ UNCHANGED ma
  PROVE  DayInv'
<1>0. MailInv /\ MailInv'
  BY MailTypeNext DEF DayInv
<1> SUFFICES ASSUME NEW m \in Mail PROVE DayAt(m)'
  BY <1>0 DEF DayInv
<1>1. DayAt(m)
  BY DEF DayInv
<1>2. ASSUME NEW r \in MailRequest, Ma!Step(r)
      PROVE  DayAt(m)'
  BY <1>0, <1>1, <1>2, DayCounts, DaySends, DayOthers
<1>3. ASSUME NEW r \in MailRequest, NEW n \in Mail, Ma!SendBegin(r, n) \/ Ma!ResetBegin(r, n)
      PROVE  DayAt(m)'
  <2>1. PICK x \in MailRow : MailAfter(r, x) /\ x.pc \in {"last", "mail lock"}
    BY <1>0, <1>3, MailBegins
  <2>2. Passed(m)' \subseteq Passed(m)
    BY <1>0, <2>1, DayShift
  <2>3. maSent'[m] = maSent[m] /\ maDay'[m] = maDay[m] /\ maDay[m] \in Nat
    BY <1>0, <1>3, DayValues DEF Ma!SendBegin, Ma!ResetBegin, Ma!NoSending
  <2> QED BY <1>0, <1>1, <2>2, <2>3, DayKeeps
<1>4. ASSUME NEW k \in Ma!Key, Ma!DayLapses(k)
      PROVE  DayAt(m)'
  BY <1>0, <1>1, <1>4, DayLapse
<1>5. ASSUME UNCHANGED <<maCall, maDay, maSent>>
      PROVE  DayAt(m)'
  BY <1>1, <1>5 DEF DayAt, Passed
<1>6. \/ \E r \in MailRequest : Ma!Step(r)
      \/ \E r \in MailRequest, n \in Mail : Ma!SendBegin(r, n) \/ Ma!ResetBegin(r, n)
      \/ \E k \in Ma!Key : Ma!DayLapses(k)
      \/ UNCHANGED <<maCall, maDay, maSent>>
  BY DEF Ma!Next, ma, Ma!LastLapses, Ma!CodeLapses, Ma!FailsLapse, Ma!LockLapses,
         Ma!NoSending
<1> QED BY <1>2, <1>3, <1>4, <1>5, <1>6

LEMMA DayInit == Ma!Init => DayInv
<1> SUFFICES ASSUME Ma!Init, NEW m \in Mail PROVE DayAt(m)
  BY MailTypeInit DEF DayInv
<1>1. MailInv /\ maSent[m] = 0 /\ maDay[m] = 0 /\ Passed(m) = {}
  BY MailTypeInit, MailKeys DEF Ma!Init, Passed, Ma!Idle
<1>2. /\ maSent[m] + Cardinality(Passed(m)) <= maDay[m]
      /\ maSent[m] + Cardinality(Passed(m)) <= DayLimit
  BY <1>1, FS_EmptySet, DayValues
<1> QED BY <1>2 DEF DayAt
-----------------------------------------------------------------------------
(* The wrong codes. *)

\* For the counter k, a reset that is past the look at its lock, one whose wrong code the
\* counter does not show yet, and one that is about to write the lock.
AheadAt(x, k) ==
    IF k = "ip" THEN x.pc = "read" ELSE x.mail = k /\ x.pc \in {"ip lock", "read"}
UncountedAt(x, k) ==
    IF k = "ip" THEN x.pc \in {"count mail", "lock mail", "count ip"}
                ELSE x.mail = k /\ x.pc = "count mail"
LockingAt(x, k) ==
    IF k = "ip" THEN x.pc = "lock ip" ELSE x.mail = k /\ x.pc = "lock mail"

Ahead(k)     == {r \in MailRequest : AheadAt(maCall[r], k)}
Uncounted(k) == {r \in MailRequest : UncountedAt(maCall[r], k)}
Locking(k)   == {r \in MailRequest : LockingAt(maCall[r], k)}

GuessAt(k) ==
    Limited(MailRequest, Tries, maTried[k], maFails[k], maLock[k],
            Ahead(k), Uncounted(k), Locking(k))

GuessInv == MailInv /\ \A k \in Ma!Key : GuessAt(k)

LEMMA GuessValues ==
  ASSUME MailInv, NEW k \in Ma!Key
  PROVE  /\ IsFiniteSet(MailRequest) /\ Tries \in Nat /\ Tries \in Nat \ {0}
         /\ maTried[k] \in Nat /\ maFails[k] \in Nat /\ maLock[k] \in BOOLEAN
<1>1. maTried[k] \in Nat /\ maFails[k] \in Nat
  BY DEF MailInv, MailValues
<1>2. maLock[k] \in BOOLEAN
  BY DEF MailInv, MailValues
<1>3. Tries \in Nat \ {0} /\ IsFiniteSet(MailRequest)
  BY MailConstants
<1>4. Tries \in Nat
  BY <1>3
<1> QED BY <1>1, <1>2, <1>3, <1>4

LEMMA GuessSets ==
  ASSUME NEW k
  PROVE  /\ Ahead(k) \subseteq MailRequest /\ Uncounted(k) \subseteq MailRequest
         /\ Locking(k) \subseteq MailRequest
         /\ Ahead(k) \cap Uncounted(k) = {} /\ Ahead(k) \cap Locking(k) = {}
         /\ Uncounted(k) \cap Locking(k) = {}
  BY DEF Ahead, Uncounted, Locking, AheadAt, UncountedAt, LockingAt

\* What becomes of the sets when a request becomes x.
LEMMA GuessShift ==
  ASSUME MailInv, NEW r \in MailRequest, NEW x \in MailRow, MailAfter(r, x), NEW k
  PROVE  /\ Ahead(k)' = IF AheadAt(x, k) THEN Ahead(k) \cup {r} ELSE Ahead(k) \ {r}
         /\ Uncounted(k)' = IF UncountedAt(x, k) THEN Uncounted(k) \cup {r}
                                                 ELSE Uncounted(k) \ {r}
         /\ Locking(k)' = IF LockingAt(x, k) THEN Locking(k) \cup {r} ELSE Locking(k) \ {r}
         /\ AheadAt(maCall[r], k) <=> r \in Ahead(k)
         /\ UncountedAt(maCall[r], k) <=> r \in Uncounted(k)
         /\ LockingAt(maCall[r], k) <=> r \in Locking(k)
<1>1. maCall'[r] = x /\ \A q \in MailRequest : q # r => maCall'[q] = maCall[q]
  BY MailFrame
<1>2. Ahead(k)' = IF AheadAt(x, k) THEN Ahead(k) \cup {r} ELSE Ahead(k) \ {r}
  <2>1. \A q \in MailRequest : AheadAt(maCall[q], k)' <=>
                                  IF q = r THEN AheadAt(x, k) ELSE AheadAt(maCall[q], k)
    BY <1>1 DEF AheadAt
  <2> QED BY <2>1 DEF Ahead
<1>3. Uncounted(k)' = IF UncountedAt(x, k) THEN Uncounted(k) \cup {r}
                                           ELSE Uncounted(k) \ {r}
  <2>1. \A q \in MailRequest : UncountedAt(maCall[q], k)' <=>
                                  IF q = r THEN UncountedAt(x, k) ELSE UncountedAt(maCall[q], k)
    BY <1>1 DEF UncountedAt
  <2> QED BY <2>1 DEF Uncounted
<1>4. Locking(k)' = IF LockingAt(x, k) THEN Locking(k) \cup {r} ELSE Locking(k) \ {r}
  <2>1. \A q \in MailRequest : LockingAt(maCall[q], k)' <=>
                                  IF q = r THEN LockingAt(x, k) ELSE LockingAt(maCall[q], k)
    BY <1>1 DEF LockingAt
  <2> QED BY <2>1 DEF Locking
<1>5. /\ AheadAt(maCall[r], k) <=> r \in Ahead(k)
      /\ UncountedAt(maCall[r], k) <=> r \in Uncounted(k)
      /\ LockingAt(maCall[r], k) <=> r \in Locking(k)
  BY DEF Ahead, Uncounted, Locking
<1> QED BY <1>2, <1>3, <1>4, <1>5

SameCount(k) == maTried'[k] = maTried[k] /\ maFails'[k] = maFails[k] /\ maLock'[k] = maLock[k]

LEMMA GuessKeeps ==
  ASSUME MailInv, NEW k \in Ma!Key, GuessAt(k), NEW r \in MailRequest, NEW x \in MailRow,
         MailAfter(r, x), SameCount(k),
         AheadAt(x, k) => AheadAt(maCall[r], k),
         UncountedAt(maCall[r], k) => UncountedAt(x, k),
         LockingAt(maCall[r], k) => LockingAt(x, k)
  PROVE  GuessAt(k)'
<1>1. /\ Ahead(k)' \subseteq Ahead(k) /\ Uncounted(k) \subseteq Uncounted(k)'
      /\ Locking(k) \subseteq Locking(k)'
      /\ Uncounted(k)' \subseteq MailRequest /\ Locking(k)' \subseteq MailRequest
  BY GuessShift, GuessSets
<1>2. Limited(MailRequest, Tries, maTried[k], maFails[k], maLock[k],
              Ahead(k)', Uncounted(k)', Locking(k)')
  BY <1>1, GuessValues, GuessSets, LimitedKeeps DEF GuessAt
<1> QED BY <1>2 DEF GuessAt, SameCount

LEMMA GuessStays ==
  ASSUME MailInv, NEW k \in Ma!Key, GuessAt(k), UNCHANGED maCall, SameCount(k)
  PROVE  GuessAt(k)'
  BY DEF GuessAt, SameCount, Ahead, Uncounted, Locking

\* A reset that finds no lock.
LEMMA GuessEnters ==
  ASSUME MailInv, NEW k \in Ma!Key, GuessAt(k), NEW r \in MailRequest, NEW x \in MailRow,
         MailAfter(r, x), SameCount(k), ~maLock[k],
         AheadAt(x, k), ~UncountedAt(x, k), ~LockingAt(x, k),
         ~AheadAt(maCall[r], k), ~UncountedAt(maCall[r], k), ~LockingAt(maCall[r], k)
  PROVE  GuessAt(k)'
<1>1. /\ Ahead(k)' = Ahead(k) \cup {r} /\ Uncounted(k)' = Uncounted(k)
      /\ Locking(k)' = Locking(k) /\ r \notin Ahead(k) \cup Uncounted(k) \cup Locking(k)
  BY GuessShift
<1>2. maLock[k] = FALSE
  BY GuessValues
<1>3. Limited(MailRequest, Tries, maTried[k], maFails[k], FALSE,
              Ahead(k) \cup {r}, Uncounted(k), Locking(k))
  BY <1>1, <1>2, GuessValues, GuessSets, LimitedEnters DEF GuessAt
<1> QED BY <1>1, <1>2, <1>3 DEF GuessAt, SameCount

LEMMA GuessWrong ==
  ASSUME MailInv, NEW k \in Ma!Key, GuessAt(k), NEW r \in MailRequest, NEW x \in MailRow,
         MailAfter(r, x), maTried'[k] = maTried[k] + 1,
         maFails'[k] = maFails[k], maLock'[k] = maLock[k],
         ~AheadAt(x, k), UncountedAt(x, k), ~LockingAt(x, k),
         AheadAt(maCall[r], k), ~UncountedAt(maCall[r], k), ~LockingAt(maCall[r], k)
  PROVE  GuessAt(k)'
<1>0. /\ IsFiniteSet(MailRequest) /\ Tries \in Nat /\ maTried[k] \in Nat
      /\ maFails[k] \in Nat /\ maLock[k] \in BOOLEAN
  BY GuessValues
<1>1. /\ Ahead(k)' = Ahead(k) \ {r} /\ Uncounted(k)' = Uncounted(k) \cup {r}
      /\ Locking(k)' = Locking(k) /\ r \in Ahead(k) /\ r \notin Uncounted(k)
  <2>1. /\ Ahead(k)' = Ahead(k) \ {r} /\ Uncounted(k)' = Uncounted(k) \cup {r}
        /\ Locking(k)' = Locking(k) \ {r}
    BY GuessShift
  <2>2. r \in Ahead(k) /\ r \notin Uncounted(k) /\ r \notin Locking(k)
    BY GuessShift
  <2> QED BY <2>1, <2>2
<1>2. Limited(MailRequest, Tries, maTried[k] + 1, maFails[k], maLock[k],
              Ahead(k) \ {r}, Uncounted(k) \cup {r}, Locking(k))
  BY ONLY <1>0, <1>1, GuessSets, LimitedGuesses, GuessAt(k) DEF GuessAt
<1> QED BY <1>1, <1>2 DEF GuessAt

\* It is counted: below the limit it is done with this counter, at the limit it locks.
LEMMA GuessCounted ==
  ASSUME MailInv, NEW k \in Ma!Key, GuessAt(k), NEW r \in MailRequest, NEW x \in MailRow,
         MailAfter(r, x), maFails'[k] = maFails[k] + 1,
         maTried'[k] = maTried[k], maLock'[k] = maLock[k],
         ~AheadAt(x, k), ~UncountedAt(x, k), LockingAt(x, k) <=> maFails[k] + 1 >= Tries,
         ~AheadAt(maCall[r], k), UncountedAt(maCall[r], k), ~LockingAt(maCall[r], k)
  PROVE  GuessAt(k)'
<1>0. /\ IsFiniteSet(MailRequest) /\ Tries \in Nat /\ maTried[k] \in Nat
      /\ maFails[k] \in Nat /\ maLock[k] \in BOOLEAN
  BY GuessValues
<1>1. /\ Ahead(k)' = Ahead(k) /\ Uncounted(k)' = Uncounted(k) \ {r}
      /\ r \in Uncounted(k) /\ r \notin Locking(k)
      /\ Locking(k)' = IF LockingAt(x, k) THEN Locking(k) \cup {r} ELSE Locking(k)
  BY GuessShift
<1>2. CASE LockingAt(x, k)
  <2>1. Limited(MailRequest, Tries, maTried[k], maFails[k] + 1, maLock[k],
                Ahead(k), Uncounted(k) \ {r}, Locking(k) \cup {r})
    BY ONLY <1>0, <1>1, GuessSets, LimitedReaches, GuessAt(k) DEF GuessAt
  <2> QED BY <1>1, <1>2, <2>1 DEF GuessAt
<1>3. CASE ~LockingAt(x, k)
  <2>1. maFails[k] + 1 < Tries
    BY <1>3, GuessValues
  <2>2. Limited(MailRequest, Tries, maTried[k], maFails[k] + 1, maLock[k],
                Ahead(k), Uncounted(k) \ {r}, Locking(k))
    BY ONLY <1>0, <1>1, <2>1, GuessSets, LimitedCounts, GuessAt(k) DEF GuessAt
  <2> QED BY <1>1, <1>3, <2>2 DEF GuessAt
<1> QED BY <1>2, <1>3

LEMMA GuessLocked ==
  ASSUME MailInv, NEW k \in Ma!Key, GuessAt(k), NEW r \in MailRequest, NEW x \in MailRow,
         MailAfter(r, x), maLock'[k] = TRUE,
         maTried'[k] = maTried[k], maFails'[k] = maFails[k],
         ~AheadAt(x, k), ~UncountedAt(x, k),
         ~AheadAt(maCall[r], k), ~UncountedAt(maCall[r], k)
  PROVE  GuessAt(k)'
<1>0. maLock[k] \in BOOLEAN
  BY GuessValues
<1>1. Ahead(k)' = Ahead(k) /\ Uncounted(k)' = Uncounted(k)
  BY GuessShift
<1>2. Limited(MailRequest, Tries, maTried[k], maFails[k], TRUE,
              Ahead(k), Uncounted(k), Locking(k)')
  BY ONLY <1>0, GuessAt(k), LimitedLocks DEF GuessAt
<1> QED BY <1>1, <1>2 DEF GuessAt

LEMMA GuessCleared ==
  ASSUME MailInv, NEW k \in Ma!Key, maTried'[k] = 0, maFails'[k] = 0, maLock'[k] = maLock[k]
  PROVE  GuessAt(k)'
<1>0. maLock[k] \in BOOLEAN /\ Tries \in Nat \ {0} /\ IsFiniteSet(MailRequest)
  BY GuessValues
<1>1. /\ Ahead(k)' \subseteq MailRequest /\ Uncounted(k)' \subseteq MailRequest
      /\ Locking(k)' \subseteq MailRequest
  BY DEF Ahead, Uncounted, Locking
<1>2. Limited(MailRequest, Tries, 0, 0, maLock[k], Ahead(k)', Uncounted(k)', Locking(k)')
  BY ONLY <1>0, <1>1, LimitedClears
<1> QED BY <1>2 DEF GuessAt

\* A step that touches no counter and takes the request where no counter waits for it.
LEMMA GuessQuiet ==
  ASSUME MailInv, NEW k \in Ma!Key, GuessAt(k), NEW r \in MailRequest, NEW l \in MailLabel,
         Ma!Goto(r, l) \/ Ma!Leave(r), SameCount(k),
         maCall[r].pc \notin {"count mail", "lock mail", "count ip", "lock ip"},
         l \notin {"ip lock", "read"}
  PROVE  GuessAt(k)'
<1>1. CASE Ma!Leave(r)
  BY <1>1, MailLeaves, MailIdle, GuessKeeps DEF AheadAt, UncountedAt, LockingAt
<1>2. CASE Ma!Goto(r, l)
  <2>1. PICK x \in MailRow : MailAfter(r, x) /\ x.mail = maCall[r].mail /\ x.pc = l
    BY <1>2, MailGoes
  <2> QED BY <2>1, GuessKeeps DEF AheadAt, UncountedAt, LockingAt
<1> QED BY <1>1, <1>2

LEMMA GuessLooks ==
  ASSUME MailInv, NEW k \in Ma!Key, GuessAt(k), NEW r \in MailRequest,
         Ma!MailLock(r) \/ Ma!IpLock(r)
  PROVE  GuessAt(k)'
<1>1. SameCount(k)
  BY DEF Ma!MailLock, Ma!IpLock, Ma!LookAtLock, Ma!NoReset, SameCount
<1>2. CASE Ma!Leave(r)
  <2>1. maCall[r].pc \in {"mail lock", "ip lock"}
    BY DEF Ma!MailLock, Ma!IpLock, Ma!LookAtLock
  <2> QED BY <1>1, <1>2, <2>1, GuessQuiet, MailLabels
<1>3. CASE Ma!MailLock(r) /\ ~Ma!Leave(r)
  <2>1. /\ maCall[r].pc = "mail lock" /\ Ma!Goto(r, "ip lock")
        /\ maCall[r].mail = k => ~maLock[k]
    BY <1>3 DEF Ma!MailLock, Ma!LookAtLock
  <2>2. maCall[r].mail # "ip"
    BY <2>1, MailNow, MailConstants
  <2>3. PICK x \in MailRow : MailAfter(r, x) /\ x.mail = maCall[r].mail /\ x.pc = "ip lock"
    <3>1. PICK l \in MailLabel : Ma!Goto(r, l) /\ l = "ip lock"
      BY <2>1, MailLabels
    <3> QED BY <3>1, MailGoes
  <2>4. CASE maCall[r].mail = k
    BY <1>1, <2>1, <2>2, <2>3, <2>4, GuessEnters DEF AheadAt, UncountedAt, LockingAt
  <2>5. CASE maCall[r].mail # k
    BY <1>1, <2>1, <2>3, <2>5, GuessKeeps DEF AheadAt, UncountedAt, LockingAt
  <2> QED BY <2>4, <2>5
<1>4. CASE Ma!IpLock(r) /\ ~Ma!Leave(r)
  <2>1. maCall[r].pc = "ip lock" /\ Ma!Goto(r, "read") /\ (k = "ip" => ~maLock[k])
    BY <1>4 DEF Ma!IpLock, Ma!LookAtLock
  <2>2. PICK x \in MailRow : MailAfter(r, x) /\ x.mail = maCall[r].mail /\ x.pc = "read"
    <3>1. PICK l \in MailLabel : Ma!Goto(r, l) /\ l = "read"
      BY <2>1, MailLabels
    <3> QED BY <3>1, MailGoes
  <2>3. CASE k = "ip"
    BY <1>1, <2>1, <2>2, <2>3, GuessEnters DEF AheadAt, UncountedAt, LockingAt
  <2>4. CASE k # "ip"
    BY <1>1, <2>1, <2>2, <2>4, GuessKeeps DEF AheadAt, UncountedAt, LockingAt
  <2> QED BY <2>3, <2>4
<1> QED BY <1>2, <1>3, <1>4
LEMMA GuessRead ==
  ASSUME MailInv, NEW k \in Ma!Key, GuessAt(k), NEW r \in MailRequest, Ma!Read(r)
  PROVE  GuessAt(k)'
<1>1. maCall[r].pc = "read" /\ maFails'[k] = maFails[k] /\ maLock'[k] = maLock[k]
  BY DEF Ma!Read
<1>2. \/ UNCHANGED maTried
      \/ maTried' = [j \in Ma!Key |-> maTried[j] + IF j \in {maCall[r].mail, "ip"} THEN 1 ELSE 0]
  BY DEF Ma!Read
<1>3. CASE Ma!Goto(r, "count mail")
  <2>1. PICK x \in MailRow : MailAfter(r, x) /\ x.mail = maCall[r].mail /\ x.pc = "count mail"
    <3>1. PICK l \in MailLabel : Ma!Goto(r, l) /\ l = "count mail"
      BY <1>3, MailLabels
    <3> QED BY <3>1, MailGoes
  <2>2. CASE k \in {maCall[r].mail, "ip"} /\ ~UNCHANGED maTried
    <3>1. maTried'[k] = maTried[k] + 1
      BY <1>2, <2>2
    <3> QED BY <1>1, <2>1, <2>2, <3>1, GuessWrong DEF AheadAt, UncountedAt, LockingAt
  <2>3. CASE k \notin {maCall[r].mail, "ip"} \/ UNCHANGED maTried
    <3>1. maTried'[k] = maTried[k]
      <4>1. maTried[k] \in Nat
        BY GuessValues
      <4>2. maTried'[k] = maTried[k] \/ maTried'[k] = maTried[k] + 0
        BY <1>2, <2>3
      <4> QED BY <4>1, <4>2
    <3>2. SameCount(k)
      BY <1>1, <3>1 DEF SameCount
    <3> QED BY <1>1, <2>1, <3>2, GuessKeeps DEF AheadAt, UncountedAt, LockingAt
  <2> QED BY <2>2, <2>3
<1>4. ASSUME NEW x \in MailRow, MailAfter(r, x), x.pc = "delete", UNCHANGED maTried
      PROVE  GuessAt(k)'
  <2>1. SameCount(k)
    BY <1>1, <1>4 DEF SameCount
  <2> QED BY <1>1, <1>4, <2>1, GuessKeeps DEF AheadAt, UncountedAt, LockingAt
<1> QED BY <1>3, <1>4, MailReadTyped

LEMMA GuessCount ==
  ASSUME MailInv, NEW k \in Ma!Key, GuessAt(k), NEW r \in MailRequest,
         Ma!CountFail(r) \/ Ma!CountFailIp(r)
  PROVE  GuessAt(k)'
<1>0. maFails \in [Ma!Key -> Nat] /\ maTried'[k] = maTried[k] /\ maLock'[k] = maLock[k]
  BY MailNow DEF MailValues, Ma!CountFail, Ma!CountFailIp, Ma!Count
<1>1. CASE Ma!CountFail(r)
  <2> DEFINE m == maCall[r].mail
  <2>1. /\ maCall[r].pc = "count mail" /\ maFails' = [maFails EXCEPT ![m] = @ + 1]
        /\ Ma!Goto(r, IF maFails[m] + 1 >= Tries THEN "lock mail" ELSE "count ip")
    BY <1>1 DEF Ma!CountFail, Ma!Count
  <2>2. m \in Mail /\ m # "ip"
    BY <2>1, MailNow, MailConstants
  <2>3. PICK x \in MailRow :
            /\ MailAfter(r, x) /\ x.mail = m
            /\ x.pc = IF maFails[m] + 1 >= Tries THEN "lock mail" ELSE "count ip"
    <3>1. PICK l \in MailLabel : /\ Ma!Goto(r, l)
                                 /\ l = IF maFails[m] + 1 >= Tries THEN "lock mail"
                                                                   ELSE "count ip"
      BY <2>1, MailLabels
    <3>2. PICK x \in MailRow : MailAfter(r, x) /\ x.mail = m /\ x.pc = l
      BY <3>1, MailGoes
    <3> QED BY <3>1, <3>2
  <2>4. CASE k = m
    <3>1. maFails'[k] = maFails[k] + 1
      BY <1>0, <2>1, <2>4
    <3>2. x.pc = "lock mail" <=> maFails[k] + 1 >= Tries
      BY <2>3, <2>4
    <3>3. x.pc \in {"lock mail", "count ip"} /\ x.mail = k /\ maCall[r].mail = k /\ k # "ip"
      BY <2>2, <2>3, <2>4
    <3> QED BY <1>0, <2>1, <2>3, <3>1, <3>2, <3>3, GuessCounted
            DEF AheadAt, UncountedAt, LockingAt
  <2>5. CASE k # m
    <3>1. SameCount(k)
      BY <1>0, <2>1, <2>5 DEF SameCount
    <3>2. x.pc \in {"lock mail", "count ip"}
      BY <2>3
    <3> QED BY <2>1, <2>3, <2>5, <3>1, <3>2, GuessKeeps DEF AheadAt, UncountedAt, LockingAt
  <2> QED BY <2>4, <2>5
<1>2. CASE Ma!CountFailIp(r)
  <2>1. /\ maCall[r].pc = "count ip" /\ maFails' = [maFails EXCEPT !["ip"] = @ + 1]
        /\ Ma!Goto(r, IF maFails["ip"] + 1 >= Tries THEN "lock ip" ELSE "done")
    BY <1>2 DEF Ma!CountFailIp, Ma!Count
  <2>2. PICK x \in MailRow :
            /\ MailAfter(r, x)
            /\ x.pc = IF maFails["ip"] + 1 >= Tries THEN "lock ip" ELSE "done"
    <3>1. PICK l \in MailLabel : /\ Ma!Goto(r, l)
                                 /\ l = IF maFails["ip"] + 1 >= Tries THEN "lock ip" ELSE "done"
      BY <2>1, MailLabels
    <3>2. PICK x \in MailRow : MailAfter(r, x) /\ x.pc = l
      BY <3>1, MailGoes
    <3> QED BY <3>1, <3>2
  <2>3. CASE k = "ip"
    <3>1. maFails'[k] = maFails[k] + 1
      BY <1>0, <2>1, <2>3
    <3>2. x.pc = "lock ip" <=> maFails[k] + 1 >= Tries
      BY <2>2, <2>3
    <3>3. x.pc \in {"lock ip", "done"}
      BY <2>2
    <3> QED BY <1>0, <2>1, <2>2, <2>3, <3>1, <3>2, <3>3, GuessCounted
            DEF AheadAt, UncountedAt, LockingAt
  <2>4. CASE k # "ip"
    <3>1. SameCount(k)
      BY <1>0, <2>1, <2>4 DEF SameCount
    <3>2. x.pc \in {"lock ip", "done"}
      BY <2>2
    <3> QED BY <2>1, <2>2, <2>4, <3>1, <3>2, GuessKeeps DEF AheadAt, UncountedAt, LockingAt
  <2> QED BY <2>3, <2>4
<1> QED BY <1>1, <1>2

LEMMA GuessLock ==
  ASSUME MailInv, NEW k \in Ma!Key, GuessAt(k), NEW r \in MailRequest,
         Ma!LockMail(r) \/ Ma!LockIp(r)
  PROVE  GuessAt(k)'
<1>0. /\ maLock \in [Ma!Key -> BOOLEAN]
      /\ maTried'[k] = maTried[k] /\ maFails'[k] = maFails[k]
  BY MailNow DEF MailValues, Ma!LockMail, Ma!LockIp, Ma!Lock
<1>1. CASE Ma!LockMail(r)
  <2> DEFINE m == maCall[r].mail
  <2>1. /\ maCall[r].pc = "lock mail" /\ maLock' = [maLock EXCEPT ![m] = TRUE]
        /\ Ma!Goto(r, "count ip")
    BY <1>1 DEF Ma!LockMail, Ma!Lock
  <2>2. m \in Mail /\ m # "ip"
    BY <2>1, MailNow, MailConstants
  <2>3. PICK x \in MailRow : MailAfter(r, x) /\ x.mail = m /\ x.pc = "count ip"
    <3>1. PICK l \in MailLabel : Ma!Goto(r, l) /\ l = "count ip"
      BY <2>1, MailLabels
    <3> QED BY <3>1, MailGoes
  <2>4. CASE k = m
    <3>1. maLock'[k] = TRUE /\ k # "ip"
      BY <1>0, <2>1, <2>2, <2>4
    <3> QED BY <1>0, <2>1, <2>3, <3>1, GuessLocked DEF AheadAt, UncountedAt
  <2>5. CASE k # m
    <3>1. SameCount(k)
      BY <1>0, <2>1, <2>5 DEF SameCount
    <3> QED BY <2>1, <2>3, <2>5, <3>1, GuessKeeps DEF AheadAt, UncountedAt, LockingAt
  <2> QED BY <2>4, <2>5
<1>2. CASE Ma!LockIp(r)
  <2>1. /\ maCall[r].pc = "lock ip" /\ maLock' = [maLock EXCEPT !["ip"] = TRUE]
        /\ Ma!Goto(r, "done")
    BY <1>2 DEF Ma!LockIp, Ma!Lock
  <2>2. PICK x \in MailRow : MailAfter(r, x) /\ x.pc = "done"
    <3>1. PICK l \in MailLabel : Ma!Goto(r, l) /\ l = "done"
      BY <2>1, MailLabels
    <3> QED BY <3>1, MailGoes
  <2>3. CASE k = "ip"
    <3>1. maLock'[k] = TRUE
      BY <1>0, <2>1, <2>3
    <3> QED BY <1>0, <2>1, <2>2, <2>3, <3>1, GuessLocked DEF AheadAt, UncountedAt
  <2>4. CASE k # "ip"
    <3>1. SameCount(k)
      BY <1>0, <2>1, <2>4 DEF SameCount
    <3> QED BY <2>1, <2>2, <2>4, <3>1, GuessKeeps DEF AheadAt, UncountedAt, LockingAt
  <2> QED BY <2>3, <2>4
<1> QED BY <1>1, <1>2

LEMMA GuessClear ==
  ASSUME MailInv, NEW k \in Ma!Key, GuessAt(k), NEW r \in MailRequest, Ma!ClearFails(r)
  PROVE  GuessAt(k)'
<1>1. maLock'[k] = maLock[k] /\ maCall[r].pc = "clear" /\ Ma!Goto(r, "commit")
  BY DEF Ma!ClearFails
<1>2. CASE k \in {maCall[r].mail, "ip"}
  <2>1. maTried'[k] = 0 /\ maFails'[k] = 0
    BY <1>2, MailClearTyped
  <2> QED BY <1>1, <2>1, GuessCleared
<1>3. CASE k \notin {maCall[r].mail, "ip"}
  <2>1. SameCount(k)
    BY <1>1, <1>3, MailClearTyped DEF SameCount
  <2> QED BY <1>1, <2>1, GuessQuiet, MailLabels
<1> QED BY <1>2, <1>3

LEMMA GuessStep ==
  ASSUME MailInv, NEW k \in Ma!Key, GuessAt(k), NEW r \in MailRequest, Ma!Step(r)
  PROVE  GuessAt(k)'
<1>1. CASE Ma!MailLock(r) \/ Ma!IpLock(r)
  BY <1>1, GuessLooks
<1>2. CASE Ma!Read(r)
  BY <1>2, GuessRead
<1>3. CASE Ma!CountFail(r) \/ Ma!CountFailIp(r)
  BY <1>3, GuessCount
<1>4. CASE Ma!LockMail(r) \/ Ma!LockIp(r)
  BY <1>4, GuessLock
<1>5. CASE Ma!ClearFails(r)
  BY <1>5, GuessClear
<1>6. CASE Ma!LookAtLast(r) \/ Ma!CountMail(r) \/ Ma!CountIp(r) \/ Ma!Mark(r) \/ Ma!Draw(r)
           \/ Ma!Send(r) \/ Ma!Answer(r) \/ Ma!Delete(r) \/ Ma!Commit(r)
  <2>1. SameCount(k)
    BY <1>6 DEF Ma!LookAtLast, Ma!CountMail, Ma!CountIp, Ma!CountDay, Ma!Mark, Ma!Draw,
                Ma!Send, Ma!Answer, Ma!Delete, Ma!Commit, Ma!NoReset, SameCount
  <2>2. maCall[r].pc \in {"last", "day", "ip", "mark", "draw", "send", "done", "delete",
                          "commit"}
    BY <1>6 DEF Ma!LookAtLast, Ma!CountMail, Ma!CountIp, Ma!CountDay, Ma!Mark, Ma!Draw,
                Ma!Send, Ma!Answer, Ma!Delete, Ma!Commit
  <2>3. \E l \in {"day", "ip", "mark", "draw", "send", "clear"} : Ma!Goto(r, l) \/ Ma!Leave(r)
    BY <1>6 DEF Ma!LookAtLast, Ma!CountMail, Ma!CountIp, Ma!CountDay, Ma!Mark, Ma!Draw,
                Ma!Send, Ma!Answer, Ma!Delete, Ma!Commit
  <2>4. PICK l \in MailLabel : /\ Ma!Goto(r, l) \/ Ma!Leave(r)
                               /\ l \notin {"ip lock", "read"}
    BY <2>3, MailLabels
  <2> QED BY <2>1, <2>2, <2>4, GuessQuiet
<1> QED BY <1>1, <1>2, <1>3, <1>4, <1>5, <1>6 DEF Ma!Step

LEMMA GuessLapses ==
  ASSUME MailInv, NEW k \in Ma!Key, GuessAt(k), NEW j \in Ma!Key,
         Ma!FailsLapse(j) \/ Ma!LockLapses(j)
  PROVE  GuessAt(k)'
<1>0. /\ maFails \in [Ma!Key -> Nat] /\ maTried \in [Ma!Key -> Nat]
      /\ maLock \in [Ma!Key -> BOOLEAN] /\ UNCHANGED maCall
  BY DEF MailInv, MailValues, Ma!FailsLapse, Ma!LockLapses
<1>1. CASE k # j
  <2>1. SameCount(k)
    BY <1>0, <1>1 DEF SameCount, Ma!FailsLapse, Ma!LockLapses
  <2> QED BY <1>0, <2>1, GuessStays
<1>2. CASE k = j /\ Ma!FailsLapse(j)
  BY <1>0, <1>2, GuessCleared DEF Ma!FailsLapse
<1>3. CASE k = j /\ Ma!LockLapses(j)
  <2>1. /\ maLock'[k] = FALSE /\ maTried'[k] = maTried[k] /\ maFails'[k] = maFails[k]
        /\ maFails[k] < Tries
    BY <1>0, <1>3 DEF Ma!LockLapses
  <2>2. Limited(MailRequest, Tries, maTried[k], maFails[k], FALSE,
                Ahead(k), Uncounted(k), Locking(k))
    BY <2>1, GuessValues, GuessSets, LimitedUnlocks DEF GuessAt
  <2> QED BY <1>0, <2>1, <2>2 DEF GuessAt, Ahead, Uncounted, Locking
<1> QED BY <1>1, <1>2, <1>3

LEMMA GuessNext ==
  ASSUME GuessInv, Ma!Next \/ UNCHANGED ma
  PROVE  GuessInv'
<1>0. MailInv /\ MailInv'
  BY MailTypeNext DEF GuessInv
<1> SUFFICES ASSUME NEW k \in Ma!Key PROVE GuessAt(k)'
  BY <1>0 DEF GuessInv, Ma!Key
<1>1. GuessAt(k)
  BY DEF GuessInv
<1>2. ASSUME NEW r \in MailRequest, Ma!Step(r)
      PROVE  GuessAt(k)'
  BY <1>0, <1>1, <1>2, GuessStep
<1>3. ASSUME NEW r \in MailRequest, NEW m \in Mail, Ma!SendBegin(r, m) \/ Ma!ResetBegin(r, m)
      PROVE  GuessAt(k)'
  <2>1. SameCount(k) /\ maCall[r].pc = "idle"
    BY <1>3 DEF Ma!SendBegin, Ma!ResetBegin, Ma!NoReset, SameCount
  <2>2. PICK x \in MailRow : MailAfter(r, x) /\ x.pc \in {"last", "mail lock"}
    BY <1>0, <1>3, MailBegins
  <2> QED BY <1>0, <1>1, <2>1, <2>2, GuessKeeps DEF AheadAt, UncountedAt, LockingAt
<1>4. ASSUME NEW j \in Ma!Key, Ma!FailsLapse(j) \/ Ma!LockLapses(j)
      PROVE  GuessAt(k)'
  BY <1>0, <1>1, <1>4, GuessLapses
<1>5. ASSUME UNCHANGED <<maCall, maTried, maFails, maLock>>
      PROVE  GuessAt(k)'
  BY <1>0, <1>1, <1>5, GuessStays DEF SameCount
<1>6. \/ \E r \in MailRequest : Ma!Step(r)
      \/ \E r \in MailRequest, m \in Mail : Ma!SendBegin(r, m) \/ Ma!ResetBegin(r, m)
      \/ \E j \in Ma!Key : Ma!FailsLapse(j) \/ Ma!LockLapses(j)
      \/ UNCHANGED <<maCall, maTried, maFails, maLock>>
  BY DEF Ma!Next, ma, Ma!LastLapses, Ma!CodeLapses, Ma!DayLapses, Ma!NoReset
<1> QED BY <1>2, <1>3, <1>4, <1>5, <1>6

LEMMA GuessInit == Ma!Init => GuessInv
<1> SUFFICES ASSUME Ma!Init, NEW k \in Ma!Key PROVE GuessAt(k)
  BY MailTypeInit DEF GuessInv
<1>1. MailInv /\ maTried[k] = 0 /\ maFails[k] = 0
  BY MailTypeInit DEF Ma!Init
<1>2. Limited(MailRequest, Tries, 0, 0, maLock[k], Ahead(k), Uncounted(k), Locking(k))
  BY <1>1, GuessValues, GuessSets, LimitedClears
<1> QED BY <1>1, <1>2 DEF GuessAt

\* However many requests run at once: an address gets no more mails in a day than the limit,
\* for the counter is raised before it is looked at (_check_captcha_rate_limit), and is tried
\* with no more wrong reset codes than the limit and the resets that were under way together
\* (ForgotPwdReset, _bump_forgot_fail), however often a new code is asked for.
THEOREM MailLimitsKept == AllSpec => []MailLimits
<1>1. AllInit => DayInv /\ GuessInv
  BY DayInit, GuessInit DEF AllInit
<1>2. DayInv /\ GuessInv /\ [AllNext]_everything => DayInv' /\ GuessInv'
  BY DayNext, GuessNext DEF AllNext, everything
<1>3. DayInv /\ GuessInv => MailLimits
  <2> SUFFICES ASSUME DayInv, GuessInv PROVE Ma!DayLimitKept /\ Ma!GuessesBounded
    BY DEF MailLimits
  <2>1. MailInv
    BY DEF DayInv
  <2>2. ASSUME NEW m \in Mail
        PROVE  maSent[m] <= DayLimit
    <3>1. maSent[m] + Cardinality(Passed(m)) <= DayLimit
      BY DEF DayInv, DayAt
    <3> QED BY <2>1, <3>1, DayValues
  <2>3. ASSUME NEW k \in Ma!Key
        PROVE  maTried[k] <= Tries + Ma!Cardinality(MailRequest) - 1
    <3>1. GuessAt(k)
      BY DEF GuessInv
    <3>2. maTried[k] <= Tries + Cardinality(MailRequest) - 1
      BY <2>1, <3>1, GuessValues, GuessSets, LimitedBounds DEF GuessAt
    <3> QED BY <3>2, MailSizes
  <2> QED BY <2>2, <2>3 DEF Ma!DayLimitKept, Ma!GuessesBounded
<1> QED BY <1>1, <1>2, <1>3, PTL DEF AllSpec
-----------------------------------------------------------------------------
(* The life of a code. *)

\* Whose code a reset found that is about to delete it, and that it is gone afterwards.
CodeOf(x) ==
    /\ x.pc = "delete" => \A n \in Mail : maCode[n] = x.seen => n = x.mail
    /\ x.pc \in {"clear", "commit"} => \A n \in Mail : maCode[n] # x.seen

CodeInv ==
    /\ MailInv
    /\ \A m \in Mail : maCode[m] # Ma!None => maCode[m] \notin maUsed
    /\ \A m, n \in Mail : maCode[m] = maCode[n] /\ maCode[m] # Ma!None => m = n
    /\ \A r \in MailRequest : CodeOf(maCall[r])

\* Codes go, and one request becomes x.
LEMMA CodeGoes ==
  ASSUME CodeInv, MailInv', maUsed' = maUsed,
         \A n \in Mail : maCode'[n] \in {maCode[n], Ma!None},
         NEW r \in MailRequest, NEW x \in MailRow, MailAfter(r, x), CodeOf(x)'
  PROVE  CodeInv'
<1>1. MailInv
  BY DEF CodeInv
<1>2. \A m \in Mail : maCode'[m] # Ma!None => maCode'[m] \notin maUsed'
  BY DEF CodeInv
<1>3. \A m, n \in Mail : maCode'[m] = maCode'[n] /\ maCode'[m] # Ma!None => m = n
  BY DEF CodeInv
<1>4. ASSUME NEW q \in MailRequest
      PROVE  CodeOf(maCall[q])'
  <2>1. CASE q = r
    <3>1. maCall'[q] = x
      BY <1>1, <2>1, MailFrame
    <3> QED BY <3>1 DEF CodeOf
  <2>2. CASE q # r
    <3>1. maCall'[q] = maCall[q]
      BY <1>1, <2>2, MailFrame
    <3>2. CodeOf(maCall[q]) /\ MailOf(maCall[q])
      BY <1>1, MailNow DEF CodeInv
    <3> QED BY <3>1, <3>2 DEF CodeOf, MailOf
  <2> QED BY <2>1, <2>2
<1> QED BY <1>2, <1>3, <1>4 DEF CodeInv

\* A step that leaves the codes alone and takes a request to where it has read none.
LEMMA CodeQuiet ==
  ASSUME CodeInv, MailInv', UNCHANGED <<maCode, maUsed>>, NEW r \in MailRequest,
         NEW l \in MailLabel, Ma!Goto(r, l) \/ Ma!Leave(r), l \notin {"delete", "clear", "commit"}
  PROVE  CodeInv'
<1>1. MailInv
  BY DEF CodeInv
<1>2. CASE Ma!Leave(r)
  <2>1. CodeOf(Ma!Idle)'
    BY MailIdle DEF CodeOf
  <2> QED BY <1>2, <2>1, MailLeaves, MailIdle, CodeGoes
<1>3. CASE Ma!Goto(r, l)
  <2>1. PICK x \in MailRow : MailAfter(r, x) /\ x.pc = l
    BY <1>1, <1>3, MailGoes
  <2>2. CodeOf(x)'
    BY <2>1 DEF CodeOf
  <2> QED BY <2>1, <2>2, CodeGoes
<1> QED BY <1>2, <1>3

LEMMA CodeDraw ==
  ASSUME CodeInv, MailInv', NEW r \in MailRequest, Ma!Draw(r)
  PROVE  CodeInv'
<1>1. MailInv /\ maCode \in [Mail -> Code \cup {Ma!None}] /\ maCall[r].mail \in Mail
  BY MailNow DEF CodeInv, MailValues, Ma!Draw
<1>2. CASE Ma!Leave(r) /\ UNCHANGED <<maCode, maUsed>>
  BY <1>2, CodeQuiet, MailLabels
<1>3. ASSUME NEW c \in Code, \A n \in Mail : maCode[n] # c,
             \A q \in MailRequest : maCall[q].seen # c,
             maCode' = [maCode EXCEPT ![maCall[r].mail] = c], maUsed' = maUsed \ {c},
             Ma!Goto(r, "send")
      PROVE  CodeInv'
  <2>1. PICK x \in MailRow : MailAfter(r, x) /\ x.pc = "send"
    <3>1. PICK l \in MailLabel : Ma!Goto(r, l) /\ l = "send"
      BY <1>3, MailLabels
    <3> QED BY <1>1, <3>1, MailGoes
  <2>2. \A n \in Mail : maCode'[n] = IF n = maCall[r].mail THEN c ELSE maCode[n]
    BY <1>1, <1>3
  <2>3. \A m \in Mail : maCode'[m] # Ma!None => maCode'[m] \notin maUsed'
    BY <1>3, <2>2 DEF CodeInv
  <2>4. \A m, n \in Mail : maCode'[m] = maCode'[n] /\ maCode'[m] # Ma!None => m = n
    BY <1>3, <2>2 DEF CodeInv
  <2>5. ASSUME NEW q \in MailRequest
        PROVE  CodeOf(maCall[q])'
    <3>1. CASE q = r
      <4>1. maCall'[q] = x
        BY <1>1, <2>1, <3>1, MailFrame
      <4> QED BY <2>1, <4>1 DEF CodeOf
    <3>2. CASE q # r
      <4>1. maCall'[q] = maCall[q] /\ CodeOf(maCall[q]) /\ maCall[q].seen # c
        BY <1>1, <1>3, <2>1, <3>2, MailFrame DEF CodeInv
      <4> QED BY <2>2, <4>1 DEF CodeOf
    <3> QED BY <3>1, <3>2
  <2> QED BY <2>3, <2>4, <2>5 DEF CodeInv
<1> QED BY <1>2, <1>3 DEF Ma!Draw

LEMMA CodeRead ==
  ASSUME CodeInv, MailInv', NEW r \in MailRequest, Ma!Read(r)
  PROVE  CodeInv'
<1>1. MailInv /\ UNCHANGED <<maCode, maUsed>> /\ maCall[r].mail \in Mail
  BY MailNow DEF CodeInv, Ma!Read
<1>2. CASE Ma!Goto(r, "count mail")
  BY <1>1, <1>2, CodeQuiet, MailLabels
<1>3. ASSUME NEW x \in MailRow, MailAfter(r, x), x.pc = "delete", x.mail = maCall[r].mail,
             x.seen = maCode[maCall[r].mail], x.seen # Ma!None
      PROVE  CodeInv'
  <2>1. CodeOf(x)'
    BY <1>1, <1>3 DEF CodeOf, CodeInv
  <2> QED BY <1>1, <1>3, <2>1, CodeGoes
<1> QED BY <1>1, <1>2, <1>3, MailReadTyped

LEMMA CodeDelete ==
  ASSUME CodeInv, MailInv', NEW r \in MailRequest, Ma!Delete(r)
  PROVE  CodeInv'
<1>1. /\ MailInv /\ maCode \in [Mail -> Code \cup {Ma!None}] /\ maUsed' = maUsed
      /\ maCall[r].pc = "delete" /\ maCall[r].mail \in Mail /\ maCall[r].seen # Ma!None
      /\ maCode' = [maCode EXCEPT ![maCall[r].mail] = Ma!None] /\ Ma!Goto(r, "clear")
  BY MailNow DEF CodeInv, MailValues, MailOf, Ma!Delete, Ma!NoReset
<1>2. PICK x \in MailRow : /\ MailAfter(r, x) /\ x.mail = maCall[r].mail
                           /\ x.seen = maCall[r].seen /\ x.pc = "clear"
  <2>1. PICK l \in MailLabel : Ma!Goto(r, l) /\ l = "clear"
    BY <1>1, MailLabels
  <2> QED BY <1>1, <2>1, MailGoes
<1>3. \A n \in Mail : maCode'[n] = IF n = maCall[r].mail THEN Ma!None ELSE maCode[n]
  BY <1>1
<1>4. CodeOf(maCall[r])
  BY DEF CodeInv
<1>5. CodeOf(x)'
  BY <1>1, <1>2, <1>3, <1>4 DEF CodeOf
<1> QED BY <1>1, <1>2, <1>3, <1>5, CodeGoes

LEMMA CodeClear ==
  ASSUME CodeInv, MailInv', NEW r \in MailRequest, Ma!ClearFails(r)
  PROVE  CodeInv'
<1>1. /\ MailInv /\ UNCHANGED <<maCode, maUsed>> /\ maCall[r].pc = "clear"
      /\ Ma!Goto(r, "commit") /\ CodeOf(maCall[r])
  BY DEF CodeInv, Ma!ClearFails
<1>2. PICK x \in MailRow : /\ MailAfter(r, x) /\ x.mail = maCall[r].mail
                           /\ x.seen = maCall[r].seen /\ x.pc = "commit"
  <2>1. PICK l \in MailLabel : Ma!Goto(r, l) /\ l = "commit"
    BY <1>1, MailLabels
  <2> QED BY <1>1, <2>1, MailGoes
<1>3. CodeOf(x)'
  BY <1>1, <1>2 DEF CodeOf
<1> QED BY <1>1, <1>2, <1>3, CodeGoes

LEMMA CodeCommit ==
  ASSUME CodeInv, MailInv', NEW r \in MailRequest, Ma!Commit(r)
  PROVE  CodeInv'
<1>1. /\ MailInv /\ maCall[r].pc = "commit" /\ maUsed' = maUsed \cup {maCall[r].seen}
      /\ maCode' = maCode /\ MailAfter(r, Ma!Idle) /\ CodeOf(maCall[r])
  BY MailLeaves DEF CodeInv, Ma!Commit
<1>2. \A m \in Mail : maCode'[m] # Ma!None => maCode'[m] \notin maUsed'
  BY <1>1 DEF CodeInv, CodeOf
<1>3. \A m, n \in Mail : maCode'[m] = maCode'[n] /\ maCode'[m] # Ma!None => m = n
  BY <1>1 DEF CodeInv
<1>4. ASSUME NEW q \in MailRequest
      PROVE  CodeOf(maCall[q])'
  <2>1. CASE q = r
    <3>1. maCall'[q] = Ma!Idle
      BY <1>1, <2>1, MailFrame, MailIdle
    <3> QED BY <3>1, MailIdle DEF CodeOf
  <2>2. CASE q # r
    <3>1. maCall'[q] = maCall[q] /\ CodeOf(maCall[q])
      BY <1>1, <2>2, MailFrame, MailIdle DEF CodeInv
    <3> QED BY <1>1, <3>1 DEF CodeOf
  <2> QED BY <2>1, <2>2
<1> QED BY <1>2, <1>3, <1>4 DEF CodeInv

LEMMA CodeStep ==
  ASSUME CodeInv, MailInv', NEW r \in MailRequest, Ma!Step(r)
  PROVE  CodeInv'
<1>1. CASE Ma!Draw(r) \/ Ma!Read(r) \/ Ma!Delete(r) \/ Ma!ClearFails(r) \/ Ma!Commit(r)
  BY <1>1, CodeDraw, CodeRead, CodeDelete, CodeClear, CodeCommit
<1>2. CASE ~(Ma!Draw(r) \/ Ma!Read(r) \/ Ma!Delete(r) \/ Ma!ClearFails(r) \/ Ma!Commit(r))
  <2>1. UNCHANGED <<maCode, maUsed>>
    BY <1>2 DEF Ma!Step, Ma!LookAtLast, Ma!CountMail, Ma!CountIp, Ma!CountDay, Ma!Mark,
                Ma!Send, Ma!MailLock, Ma!IpLock, Ma!LookAtLock, Ma!CountFail,
                Ma!CountFailIp, Ma!Count, Ma!LockMail, Ma!LockIp, Ma!Lock, Ma!Answer,
                Ma!NoReset
  <2>2. \E l \in {"day", "ip", "mark", "draw", "ip lock", "read", "lock mail", "count ip",
                  "lock ip", "done"} : Ma!Goto(r, l) \/ Ma!Leave(r)
    BY <1>2 DEF Ma!Step, Ma!LookAtLast, Ma!CountMail, Ma!CountIp, Ma!CountDay, Ma!Mark,
                Ma!Send, Ma!MailLock, Ma!IpLock, Ma!LookAtLock, Ma!CountFail,
                Ma!CountFailIp, Ma!Count, Ma!LockMail, Ma!LockIp, Ma!Lock, Ma!Answer
  <2>3. PICK l \in MailLabel : /\ Ma!Goto(r, l) \/ Ma!Leave(r)
                               /\ l \notin {"delete", "clear", "commit"}
    BY <2>2, MailLabels
  <2> QED BY <2>1, <2>3, CodeQuiet
<1> QED BY <1>1, <1>2

\* What CodeSpent says of a step.
SpentStep ==
    \A r \in MailRequest :
        maCall[r].seen = Ma!None /\ maCall'[r].seen # Ma!None => maCall'[r].seen \notin maUsed

LEMMA CodeNext ==
  ASSUME CodeInv, Ma!Next \/ UNCHANGED ma
  PROVE  CodeInv'
<1>0. MailInv /\ MailInv'
  BY MailTypeNext DEF CodeInv
<1>1. ASSUME NEW r \in MailRequest, NEW m \in Mail, Ma!SendBegin(r, m) \/ Ma!ResetBegin(r, m)
      PROVE  CodeInv'
  <2>1. PICK x \in MailRow : MailAfter(r, x) /\ x.pc \in {"last", "mail lock"}
    BY <1>0, <1>1, MailBegins
  <2>2. UNCHANGED <<maCode, maUsed>>
    BY <1>1 DEF Ma!SendBegin, Ma!ResetBegin, Ma!NoReset
  <2>3. CodeOf(x)'
    BY <2>1 DEF CodeOf
  <2> QED BY <1>0, <2>1, <2>2, <2>3, CodeGoes
<1>2. ASSUME NEW r \in MailRequest, Ma!Step(r)
      PROVE  CodeInv'
  BY <1>0, <1>2, CodeStep
<1>3. ASSUME NEW m \in Mail, Ma!CodeLapses(m)
      PROVE  CodeInv'
  <2>1. /\ maUsed' = maUsed /\ maCall' = maCall
        /\ \A n \in Mail : maCode'[n] \in {maCode[n], Ma!None}
    BY <1>0, <1>3 DEF Ma!CodeLapses, Ma!NoReset, MailInv, MailValues
  <2>2. \A r \in MailRequest : CodeOf(maCall[r])'
    <3> SUFFICES ASSUME NEW r \in MailRequest PROVE CodeOf(maCall[r])'
      OBVIOUS
    <3>1. CodeOf(maCall[r]) /\ MailOf(maCall[r])
      BY <1>0, MailNow DEF CodeInv
    <3> QED BY <2>1, <3>1 DEF CodeOf, MailOf
  <2> QED BY <1>0, <2>1, <2>2 DEF CodeInv
<1>4. CASE UNCHANGED <<maCall, maCode, maUsed>>
  BY <1>0, <1>4 DEF CodeInv, CodeOf
<1>5. \/ \E r \in MailRequest : Ma!Step(r)
      \/ \E r \in MailRequest, m \in Mail : Ma!SendBegin(r, m) \/ Ma!ResetBegin(r, m)
      \/ \E m \in Mail : Ma!CodeLapses(m)
      \/ UNCHANGED <<maCall, maCode, maUsed>>
  BY DEF Ma!Next, ma, Ma!LastLapses, Ma!DayLapses, Ma!FailsLapse, Ma!LockLapses,
         Ma!NoReset, Ma!NoSending
<1> QED BY <1>1, <1>2, <1>3, <1>4, <1>5

\* Only the read finds a code, and the code of an address is none that was used.
LEMMA CodeFound ==
  ASSUME CodeInv, Ma!Next \/ UNCHANGED ma
  PROVE  SpentStep
<1>0. MailInv
  BY DEF CodeInv
<1> SUFFICES ASSUME NEW r \in MailRequest, maCall[r].seen = Ma!None, maCall'[r].seen # Ma!None
             PROVE  maCall'[r].seen \notin maUsed
  BY DEF SpentStep
<1>1. maCall' # maCall
  OBVIOUS
<1>2. ASSUME NEW q \in MailRequest, NEW x \in MailRow, MailAfter(q, x),
             x.seen \in {Ma!None, maCall[q].seen}
      PROVE  FALSE
  BY <1>0, <1>2, MailFrame
<1>3. ASSUME NEW q \in MailRequest, NEW m \in Mail, Ma!SendBegin(q, m) \/ Ma!ResetBegin(q, m)
      PROVE  FALSE
  BY <1>0, <1>2, <1>3, MailBegins
<1>4. ASSUME NEW q \in MailRequest, NEW l \in MailLabel, Ma!Goto(q, l) \/ Ma!Leave(q)
      PROVE  FALSE
  <2>1. CASE Ma!Leave(q)
    BY <1>2, <2>1, MailLeaves, MailIdle
  <2>2. CASE Ma!Goto(q, l)
    BY <1>0, <1>2, <2>2, MailGoes
  <2> QED BY <1>4, <2>1, <2>2
<1>5. ASSUME NEW q \in MailRequest, Ma!Read(q)
      PROVE  maCall'[r].seen \notin maUsed
  <2>1. ~Ma!Goto(q, "count mail")
    BY <1>4, MailLabels
  <2>2. PICK x \in MailRow : /\ MailAfter(q, x) /\ x.seen = maCode[maCall[q].mail]
                             /\ x.seen # Ma!None
    BY <1>0, <1>5, <2>1, MailReadTyped
  <2>3. maCall[q].mail \in Mail
    BY <1>0, <1>5, MailNow DEF Ma!Read
  <2>4. q = r
    BY <1>0, <2>2, MailFrame
  <2>5. maCall'[r].seen = maCode[maCall[q].mail]
    BY <1>0, <2>2, <2>4, MailFrame
  <2> QED BY <2>2, <2>3, <2>5 DEF CodeInv
<1>6. ASSUME NEW q \in MailRequest, Ma!Step(q), ~Ma!Read(q)
      PROVE  FALSE
  <2>1. \E l \in MailLabel : Ma!Goto(q, l) \/ Ma!Leave(q)
    BY <1>6, MailLabels
       DEF Ma!Step, Ma!LookAtLast, Ma!CountMail, Ma!CountIp, Ma!CountDay, Ma!Mark, Ma!Draw,
           Ma!Send, Ma!MailLock, Ma!IpLock, Ma!LookAtLock, Ma!CountFail, Ma!CountFailIp,
           Ma!Count, Ma!LockMail, Ma!LockIp, Ma!Lock, Ma!Answer, Ma!Delete,
           Ma!ClearFails, Ma!Commit
  <2> QED BY <1>4, <2>1
<1> QED
  BY <1>1, <1>3, <1>5, <1>6
     DEF Ma!Next, ma, Ma!LastLapses, Ma!CodeLapses, Ma!DayLapses, Ma!FailsLapse,
         Ma!LockLapses

\* A reset that comes after another was carried out, or failed to be, never finds the code of
\* that one: the code is deleted before the new password is committed (ForgotPwdReset).
THEOREM CodesAreSpent == AllSpec => CodeSpent
<1>1. AllInit => CodeInv
  BY MailTypeInit, MailIdle DEF AllInit, Ma!Init, CodeInv, CodeOf
<1>2. [AllNext]_everything => Ma!Next \/ UNCHANGED ma
  BY DEF AllNext, everything
<1>3. CodeInv /\ [AllNext]_everything => CodeInv'
  BY <1>2, CodeNext
<1>4. CodeInv /\ [AllNext]_everything => [SpentStep]_ma
  BY <1>2, CodeFound
<1>5. [][SpentStep]_ma => CodeSpent
  BY PTL DEF CodeSpent, Ma!CodeSpent, SpentStep, ma, Ma!vars
<1> QED BY <1>1, <1>3, <1>4, <1>5, PTL DEF AllSpec
=============================================================================
