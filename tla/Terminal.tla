------------------------------- MODULE Terminal -------------------------------
(***************************************************************************)
(* One browser terminal (ssh/webssh.py) with the session that admits it    *)
(* (ws_auth and the renewal loop of tools/at.py).  Three greenlets share   *)
(* the websocket: "in" admits the user, connects and then carries what is  *)
(* typed; "out" carries what the shell prints; "renew" looks after the     *)
(* token.  Each of the first two closes everything when its loop ends, and *)
(* may find the other one half way through doing so.                       *)
(*                                                                         *)
(* The websocket library is external: receive returns None once the peer   *)
(* has closed or has answered our close, and waits for ever for a peer     *)
(* that vanished.                                                          *)
(***************************************************************************)
EXTENDS Naturals

CONSTANTS
    Narrowest, Widest,  \* MIN_TERM_WIDTH, MAX_TERM_WIDTH
    Default,            \* DEFAULT_TERM_WIDTH
    Widths,             \* widths a browser may ask for
    Faults              \* "redis": a look at the token raises; "shell": the shell
                        \* does not open on a connection that is up

TerminalAssumption ==
    /\ {Narrowest, Default, Widest} \subseteq Nat /\ Widths \subseteq Nat
    /\ Narrowest <= Default /\ Default <= Widest

VARIABLES
    token,      \* the Redis key: full life, less than the threshold, gone
    allowed,    \* the rules let the user reach the host
    ws,         \* our end of the websocket
    peer,       \* the browser
    typed,      \* a message that waits to be received
    printed,    \* the shell has output that waits
    conn,       \* the SSH connection with its channel
    width,      \* width of the pty
    quiet,      \* WEBSH_IDLE_TIMEOUT has passed since the last message
    closing,    \* _closed
    pc          \* where each greenlet is

vars == <<token, allowed, ws, peer, typed, printed, conn, width, quiet, closing, pc>>

Greenlet == {"in", "out", "renew"}
Typed    == {"none", "text", "binary", "resize"}

Init ==
    /\ token = "full" /\ allowed = TRUE
    /\ ws = "open" /\ peer = "here"
    /\ typed = "none" /\ printed = FALSE
    /\ conn = "none" /\ width = Default
    /\ quiet = FALSE /\ closing = FALSE
    /\ pc = [g \in Greenlet |-> IF g = "in" THEN "handshake" ELSE "none"]

Goto(g, label) == pc' = [pc EXCEPT ![g] = label]

-----------------------------------------------------------------------------
(* Admission. *)

\* The sliding expiry: a key below the threshold gets its full life again.
Renewed == IF token = "low" THEN "full" ELSE token

Handshake ==
    /\ pc["in"] = "handshake"
    /\ IF token = "gone"
       THEN /\ Goto("in", "done") /\ ws' = "closed" /\ UNCHANGED token
       ELSE /\ token' \in {Renewed} \cup (IF "redis" \in Faults THEN {token} ELSE {})
            /\ pc' = [pc EXCEPT !["in"] = "first", !["renew"] = "sleep"]
            /\ UNCHANGED ws
    /\ UNCHANGED <<allowed, peer, typed, printed, conn, width, quiet, closing>>

\* receive returns None.
Gone == (peer = "left" /\ typed = "none") \/ (ws = "closed" /\ peer = "here")

\* The handler returns, and the library closes the websocket.
Refuse ==
    /\ Goto("in", "done") /\ ws' = "closed"
    /\ UNCHANGED <<token, allowed, peer, typed, printed, conn, width, quiet, closing>>

\* The first message names the host and the system user; it is waited for without a limit.
First ==
    /\ pc["in"] = "first"
    /\ \/ typed # "none" /\ ws = "open" /\ Goto("in", "permit") /\ typed' = "none" /\ UNCHANGED
            <<token, allowed, ws, peer, printed, conn, width, quiet, closing>>
       \/ (Gone \/ typed # "none") /\ Refuse   \* no message, no such host or system user

Permit ==
    /\ pc["in"] = "permit"
    /\ IF allowed /\ token # "gone"
       THEN /\ Goto("in", "connect")
            /\ UNCHANGED <<token, allowed, ws, peer, typed, printed, conn, width, quiet,
                           closing>>
       ELSE Refuse

Connect ==
    /\ pc["in"] = "connect"
    /\ \/ /\ conn' = "open"
          /\ pc' = [pc EXCEPT !["in"] = "loop", !["out"] = "loop"]
          /\ quiet' = FALSE
          /\ UNCHANGED <<token, allowed, ws, peer, typed, printed, width, closing>>
       \/ Refuse
       \/ /\ "shell" \in Faults
          /\ conn' = "left over" /\ ws' = "closed" /\ Goto("in", "done")
          /\ UNCHANGED <<token, allowed, peer, typed, printed, width, quiet, closing>>

-----------------------------------------------------------------------------
(* The two loops. *)

Least(a, b) == IF a < b THEN a ELSE b
Most(a, b)  == IF a < b THEN b ELSE a

SlipClamp(cols) == Most(Narrowest, cols)
Clamp(cols) == Most(Narrowest, Least(cols, Widest))

\* One turn of _ws_to_ssh.  A binary frame has no startswith, a resize of a closed
\* channel raises: both end the loop.
Input ==
    /\ pc["in"] = "loop"
    /\ \/ /\ typed # "none" /\ ws = "open"
          /\ typed' = "none" /\ quiet' = FALSE
          /\ \/ typed = "text" /\ UNCHANGED <<width, pc>>
             \/ typed = "resize" /\ conn = "open" /\ UNCHANGED pc
                /\ \E cols \in Widths : width' = Clamp(cols)
             \/ (typed = "binary" \/ (typed = "resize" /\ conn = "closed"))
                /\ Goto("in", "close") /\ UNCHANGED width
       \/ /\ Gone \/ (quiet /\ (typed = "none" \/ ws = "closed"))
          /\ Goto("in", "close")
          /\ UNCHANGED <<typed, quiet, width>>
    /\ UNCHANGED <<token, allowed, ws, peer, printed, conn, closing>>

\* One turn of _ssh_to_ws; sending to a closed websocket raises, sending to a peer that
\* has vanished blocks.
Output ==
    /\ pc["out"] = "loop"
    /\ IF conn = "closed" \/ quiet
       THEN Goto("out", "close") /\ UNCHANGED printed
       ELSE /\ printed
            /\ ws = "closed" \/ peer # "vanished"
            /\ printed' = FALSE
            /\ IF ws = "open" /\ peer = "here" THEN UNCHANGED pc ELSE Goto("out", "close")
    /\ UNCHANGED <<token, allowed, ws, peer, typed, conn, width, quiet, closing>>

\* _close: the flag and the SSH side, then the websocket.  Who comes second does nothing.
SlipCloseSsh(g) ==
    /\ pc[g] = "close"
    /\ closing' = TRUE
    /\ Goto(g, "close ws")
    /\ UNCHANGED <<token, allowed, ws, peer, typed, printed, conn, width, quiet>>
CloseSsh(g) ==
    /\ pc[g] = "close"
    /\ IF closing
       THEN Goto(g, "closed") /\ UNCHANGED <<closing, conn>>
       ELSE closing' = TRUE /\ conn' = "closed" /\ Goto(g, "close ws")
    /\ UNCHANGED <<token, allowed, ws, peer, typed, printed, width, quiet>>

CloseWs(g) ==
    /\ pc[g] = "close ws"
    /\ ws' = "closed" /\ Goto(g, "closed")
    /\ UNCHANGED <<token, allowed, peer, typed, printed, conn, width, quiet, closing>>

\* start() joins the other greenlet for five seconds and returns in any case.
Return ==
    /\ pc["in"] = "closed"
    /\ ws' = "closed" /\ Goto("in", "done")
    /\ UNCHANGED <<token, allowed, peer, typed, printed, conn, width, quiet, closing>>

-----------------------------------------------------------------------------
(* The renewal loop.  An exception counts as alive. *)

SlipRenew ==
    /\ pc["renew"] = "sleep"
    /\ IF ws = "closed" \/ token = "gone"
       THEN Goto("renew", "done") /\ UNCHANGED token
       ELSE token' = Renewed /\ UNCHANGED pc
    /\ UNCHANGED <<ws, allowed, peer, typed, printed, conn, width, quiet, closing>>
Renew ==
    /\ pc["renew"] = "sleep"
    /\ CASE ws = "closed"  -> Goto("renew", "done") /\ UNCHANGED <<token, ws>>
         [] ws = "open" /\ token = "gone" ->
               Goto("renew", "done") /\ ws' = "closed" /\ UNCHANGED token
         [] OTHER -> token' = Renewed /\ UNCHANGED <<pc, ws>>
    /\ UNCHANGED <<allowed, peer, typed, printed, conn, width, quiet, closing>>

-----------------------------------------------------------------------------
(* The world. *)

TokenAges ==    \* or the user logs out
    /\ token # "gone"
    /\ token' \in (IF token = "full" THEN {"low", "gone"} ELSE {"gone"})
    /\ UNCHANGED <<allowed, ws, peer, typed, printed, conn, width, quiet, closing, pc>>

Revoke ==
    /\ allowed /\ allowed' = FALSE
    /\ UNCHANGED <<token, ws, peer, typed, printed, conn, width, quiet, closing, pc>>

Type ==
    /\ peer = "here" /\ ws = "open" /\ typed = "none" /\ pc["in"] # "done"
    /\ typed' \in Typed \ {"none"}
    /\ UNCHANGED <<token, allowed, ws, peer, printed, conn, width, quiet, closing, pc>>

Show ==
    /\ conn = "open" /\ ~printed
    /\ printed' = TRUE
    /\ UNCHANGED <<token, allowed, ws, peer, typed, conn, width, quiet, closing, pc>>

RemoteCloses ==
    /\ conn = "open"
    /\ conn' = "closed"
    /\ UNCHANGED <<token, allowed, ws, peer, typed, printed, width, quiet, closing, pc>>

PeerGoes ==
    /\ peer = "here"
    /\ peer' \in {"left", "vanished"}
    /\ UNCHANGED <<token, allowed, ws, typed, printed, conn, width, quiet, closing, pc>>

GoQuiet ==
    /\ pc["in"] \in {"loop", "close", "close ws", "closed"} /\ ~quiet
    /\ typed = "none" \/ ws = "closed"
    /\ quiet' = TRUE
    /\ UNCHANGED <<token, allowed, ws, peer, typed, printed, conn, width, closing, pc>>

Bridge == Handshake \/ First \/ Permit \/ Connect \/ Input \/ Output \/ Return
Close(g) == CloseSsh(g) \/ CloseWs(g)
World == TokenAges \/ Revoke \/ Type \/ Show \/ RemoteCloses \/ PeerGoes \/ GoQuiet

Next == Bridge \/ (\E g \in {"in", "out"} : Close(g)) \/ Renew \/ World

Spec == Init /\ [][Next]_vars

\* The greenlets run, and the thirty minutes of silence pass unless somebody types.
Liveness ==
    /\ WF_vars(Input) /\ WF_vars(Output) /\ WF_vars(Renew) /\ WF_vars(GoQuiet)
    /\ WF_vars(Close("in")) /\ WF_vars(Close("out"))

FairSpec == Spec /\ Liveness

-----------------------------------------------------------------------------
(* Properties. *)

\* Every variable stays in its type; whatever a browser asks for, the pty keeps a width
\* between the two bounds.
TypeOK ==
    /\ token \in {"full", "low", "gone"} /\ allowed \in BOOLEAN
    /\ ws \in {"open", "closed"} /\ peer \in {"here", "left", "vanished"}
    /\ typed \in Typed /\ printed \in BOOLEAN
    /\ conn \in {"none", "open", "closed", "left over"}
    /\ width \in Narrowest..Widest
    /\ quiet \in BOOLEAN /\ closing \in BOOLEAN
    /\ pc \in [Greenlet -> {"none", "handshake", "first", "permit", "connect", "loop",
                            "close", "close ws", "closed", "sleep", "done"}]

\* A handler whose terminal was open returns only when the connection is closed, although
\* the greenlet that found the flag set has closed nothing itself.
NothingLeftOpen == pc["in"] = "done" => conn # "open" /\ ws = "closed"

\* Once the token is gone (logout, expiry) the terminal loses its connection, also when
\* the browser has vanished without a word and when it keeps typing.
LogoutEnds == token = "gone" /\ conn = "open" ~> conn # "open"
=============================================================================
