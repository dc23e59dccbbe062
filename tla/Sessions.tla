-------------------------------- MODULE Sessions --------------------------------
(***************************************************************************)
(* FirstSetup, Logins, SshCommand, Terminal and Sftp, composed.  The five  *)
(* share no state: part says whose behaviour this is, and the variables of *)
(* the others stay as they are.  FirstSetup is extended, the others are    *)
(* instances with variables of their own; their constants are those of the *)
(* components, renamed where two components use one name.                  *)
(***************************************************************************)
EXTENDS FirstSetup

CONSTANTS
    \* Logins
    Login, Account, Stranger, Captcha, Token, AccountLimit, AddressLimit, Chosen, Session,
    \* SshCommand
    MostOutput, MostWritten, Times, Traits,
    \* Terminal
    Narrowest, Default, Widest, Widths, TermFaults,
    \* Sftp
    Path, NoPath, UploadLimit, Chunk, Polite

VARIABLES
    part,
    lgLogin, lgCaptcha, lgSpent, lgFails, lgLock, lgTried, lgToken, lgNonce, lgIssued, lgGiven,
    shPc, shUsed, shRemote, shBuffer, shGot, shLate, shAnswer, shError,
    tmToken, tmAllowed, tmWs, tmPeer, tmTyped, tmPrinted, tmConn, tmWidth, tmQuiet,
    tmClosing, tmPc,
    ftSession, ftFile, ftName, ftSent, ftRemote, ftRow

lg == <<lgLogin, lgCaptcha, lgSpent, lgFails, lgLock, lgTried, lgToken, lgNonce, lgIssued,
        lgGiven>>
sh == <<shPc, shUsed, shRemote, shBuffer, shGot, shLate, shAnswer, shError>>
tm == <<tmToken, tmAllowed, tmWs, tmPeer, tmTyped, tmPrinted, tmConn, tmWidth, tmQuiet,
        tmClosing, tmPc>>
ft == <<ftSession, ftFile, ftName, ftSent, ftRemote, ftRow>>
everything == <<part, vars, lg, sh, tm, ft>>

Lg == INSTANCE Logins WITH
    User <- Account, Limit <- AccountLimit, LimitIp <- AddressLimit,
    login <- lgLogin, captcha <- lgCaptcha, spent <- lgSpent, fails <- lgFails,
    lock <- lgLock, tried <- lgTried, token <- lgToken, nonce <- lgNonce,
    issued <- lgIssued, given <- lgGiven

Sh == INSTANCE SshCommand WITH
    Max <- MostOutput, Most <- MostWritten,
    pc <- shPc, used <- shUsed, remote <- shRemote, buffer <- shBuffer, got <- shGot,
    late <- shLate, answer <- shAnswer, error <- shError

Tm == INSTANCE Terminal WITH
    Faults <- TermFaults,
    token <- tmToken, allowed <- tmAllowed, ws <- tmWs, peer <- tmPeer, typed <- tmTyped,
    printed <- tmPrinted, conn <- tmConn, width <- tmWidth, quiet <- tmQuiet,
    closing <- tmClosing, pc <- tmPc

Ft == INSTANCE Sftp WITH
    Limit <- UploadLimit,
    session <- ftSession, file <- ftFile, name <- ftName, sent <- ftSent,
    remote <- ftRemote, row <- ftRow

ASSUME SessionsAssumption ==
    /\ Lg!LoginsAssumption /\ Sh!SshAssumption /\ Tm!TerminalAssumption /\ Ft!SftpAssumption

AllInit ==
    /\ part \in {"setup", "guess", "session", "command", "terminal", "transfer"}
    /\ Init /\ (part # "setup" => file = "none")
    /\ Lg!Init /\ Sh!Init /\ Tm!Init /\ Ft!Init

\* The behaviours of Logins come twice: many requests guess at once within a moment, and
\* requests that come one by one open sessions that last.
OneByOne ==
    \A q, r \in Login : lgLogin'[q].pc # "idle" /\ lgLogin'[r].pc # "idle" => q = r

AllNext ==
    /\ UNCHANGED part
    /\ \/ part = "setup" /\ Next /\ UNCHANGED <<lg, sh, tm, ft>>
       \/ part = "guess" /\ Lg!Next /\ ~Lg!Tick /\ UNCHANGED <<vars, sh, tm, ft>>
       \/ part = "session" /\ Lg!Next /\ OneByOne /\ UNCHANGED <<vars, sh, tm, ft>>
       \/ part = "command" /\ Sh!Next /\ UNCHANGED <<vars, lg, tm, ft>>
       \/ part = "terminal" /\ Tm!Next /\ UNCHANGED <<vars, lg, sh, ft>>
       \/ part = "transfer" /\ Ft!Next /\ UNCHANGED <<vars, lg, sh, tm>>

\* Liveness of FirstSetup, Fairness of Logins, Liveness of SshCommand and of Terminal.
Fair(name, action) == part = name /\ action
AllLiveness ==
    /\ WF_vars(Fair("setup", Boot))
    /\ WF_vars(Fair("setup", dying /\ Die))
    /\ \A c \in Caller : WF_vars(Fair("setup", Mark(c) \/ Drop(c)))
    /\ WF_lg(Fair("session", Lg!Tick))
    /\ \A r \in Login : WF_lg(Fair("session", Lg!Step(r)))
    /\ WF_sh(Fair("command", Sh!Poll)) /\ WF_sh(Fair("command", Sh!Recv))
    /\ WF_sh(Fair("command", Sh!Finish))
    /\ WF_sh(Fair("command", Sh!Deadline))
    /\ WF_sh(Fair("command", Sh!CloseOutput))
    /\ WF_tm(Fair("terminal", Tm!Input)) /\ WF_tm(Fair("terminal", Tm!Output))
    /\ WF_tm(Fair("terminal", Tm!Renew)) /\ WF_tm(Fair("terminal", Tm!GoQuiet))
    /\ WF_tm(Fair("terminal", Tm!Close("in")))
    /\ WF_tm(Fair("terminal", Tm!Close("out")))

AllSpec == AllInit /\ [][AllNext]_everything /\ AllLiveness

-----------------------------------------------------------------------------
(* The properties of the instances under names of their own. *)

\* Every variable of every part stays in its type; the pty in its bounds.
Types ==
    TypeOK /\ Lg!TypeOK /\ Sh!TypeOK /\ Tm!TypeOK /\ Ft!TypeOK

\* No more wrong passwords than the limit and the logins under way.
GuessesBounded == Lg!GuessesBounded

\* A captcha that has been compared is not found by a later login.
OneGuess == Lg!OneGuess

\* A session that nobody renews ends.
UnusedSessionEnds == part = "session" => Lg!UnusedSessionEnds

\* A command ends for its caller, though it may never exit.
CommandBounded == Sh!CommandBounded

\* A terminal's handler returns with its connection closed.
NothingLeftOpen == Tm!NothingLeftOpen

\* A terminal does not outlive the session that admitted it.
LogoutEnds == Tm!LogoutEnds

\* The row of an upload names its file and no more bytes than arrived.
RowIsTrue == Ft!RowIsTrue
=============================================================================
