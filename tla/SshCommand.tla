------------------------------ MODULE SshCommand ------------------------------
(***************************************************************************)
(* One SSH connection and the commands run on it, one after the other      *)
(* (tools/shellcmd.py: RemoteConnectionAuto, ssh_cmd).  The remote command *)
(* writes, exits and closes its output at its own pace; the reader polls   *)
(* the channel with a deadline, reads the SAME channel a second time for   *)
(* what it calls stderr, and then waits for the exit status.               *)
(*                                                                         *)
(* paramiko is external: recv returns what is buffered of stdout and       *)
(* blocks while there is nothing and the channel has not reached its end;  *)
(* select also reports what is buffered of stderr, which recv never takes. *)
(***************************************************************************)
EXTENDS Naturals

CONSTANTS
    Max,        \* SSH_CMD_MAX_OUTPUT_BYTES
    Most,       \* bound: bytes a command writes
    Times,      \* bound: commands on one connection
    Traits      \* "fails", "silent": may stop for good without exiting, "stderr":
                \* writes there, "holds": leaves a child that keeps the output open,
                \* "endless": writes for ever

SshAssumption ==
    /\ Max \in Nat \ {0} /\ Most \in Nat /\ Times \in Nat
    /\ Traits \subseteq {"fails", "silent", "stderr", "holds", "endless"}

VARIABLES
    pc,         \* where the caller is
    used,       \* commands begun on this connection
    remote,     \* what the remote command has done so far
    buffer,     \* bytes of its output that are here and not read
    got,        \* bytes each of the two reads collected
    late,       \* the deadline of the current read has passed
    answer,     \* what ssh_cmd gave: a text, None or an exception
    error       \* conn.last_command_error is set

vars == <<pc, used, remote, buffer, got, late, answer, error>>

Read    == {"first", "second"}
Unread  == [r \in Read |-> 0]
Running == [wrote |-> 0, stderr |-> FALSE, code |-> "none", eof |-> FALSE]
Remote  == [wrote : 0..Most, stderr : BOOLEAN, code : {"none", "zero", "other"},
            eof : BOOLEAN]
Nothing == [kind |-> "none", bytes |-> 0, cut |-> FALSE]
Answer  == [kind : {"none", "text", "None", "blocked", "timeout"},
            bytes : 0..Max, cut : BOOLEAN]

Init ==
    /\ pc = "closed" /\ used = 0
    /\ remote = Running /\ buffer = 0 /\ got = Unread
    /\ late = FALSE /\ answer = Nothing /\ error = FALSE

-----------------------------------------------------------------------------
(* The connection.  The constructor refuses wrong types, a port out of range, *)
(* an unknown host key, a key outside its directory, or fails to connect.     *)

Connect ==
    /\ pc = "closed"
    /\ pc' \in {"ready", "closed"}
    /\ used' = 0 /\ answer' = Nothing /\ error' = FALSE
    /\ UNCHANGED <<remote, buffer, got, late>>

Close ==
    /\ pc = "ready"
    /\ pc' = "closed"
    /\ UNCHANGED <<used, remote, buffer, got, late, answer, error>>

-----------------------------------------------------------------------------
(* The command. *)

\* A command of the black list raises before anything is sent.
Blocked ==
    /\ pc = "ready" /\ used < Times
    /\ used' = used + 1
    /\ answer' = [Nothing EXCEPT !.kind = "blocked"] /\ error' = FALSE
    /\ UNCHANGED <<pc, remote, buffer, got, late>>

Begin ==
    /\ pc = "ready" /\ used < Times
    /\ used' = used + 1
    /\ pc' = "first"
    /\ remote' = Running /\ buffer' = 0 /\ got' = Unread /\ late' = FALSE
    /\ answer' = Nothing /\ error' = FALSE

Reading  == pc \in {"first", "second", "recv first", "recv second"}
Turn     == IF pc \in {"first", "recv first"} THEN "first" ELSE "second"
Exited   == remote.code # "none"
Readable == buffer > 0 \/ remote.stderr \/ remote.eof

\* A read is over: the second one follows with a deadline of its own, then the wait.
Over ==
    /\ pc' = IF Turn = "first" THEN "second" ELSE "status"
    /\ late' = FALSE

Least(a, b) == IF a < b THEN a ELSE b

\* The head of the loop: the length, the deadline, one select.
SlipPoll ==
    /\ pc \in {"first", "second"}
    /\ IF got[Turn] >= Max
       THEN Over /\ UNCHANGED answer
       ELSE /\ Readable \/ Exited
            /\ pc' = IF Turn = "first" THEN "recv first" ELSE "recv second"
            /\ UNCHANGED <<late, answer>>
    /\ UNCHANGED <<used, remote, buffer, got, error>>
Poll ==
    /\ pc \in {"first", "second"}
    /\ IF got[Turn] >= Max
       THEN Over /\ UNCHANGED answer
       ELSE IF late
       THEN /\ answer' = [Nothing EXCEPT !.kind = "timeout"]
            /\ pc' = "ready" /\ UNCHANGED late
       ELSE /\ Readable \/ Exited
            /\ pc' = IF Turn = "first" THEN "recv first" ELSE "recv second"
            /\ UNCHANGED <<late, answer>>
    /\ UNCHANGED <<used, remote, buffer, got, error>>

\* recv, which has no timeout.  A short chunk ends the read when the command has exited.
Recv ==
    /\ pc \in {"recv first", "recv second"}
    /\ buffer > 0 \/ remote.eof
    /\ LET n     == Least(buffer, Max - got[Turn])
           short == n < Max - got[Turn] - n
       IN /\ buffer' = buffer - n
          /\ got' = [got EXCEPT ![Turn] = @ + n]
          /\ IF n = 0 \/ (short /\ Exited)
             THEN Over
             ELSE pc' = Turn /\ UNCHANGED late
    /\ UNCHANGED <<used, remote, answer, error>>

\* recv_exit_status, which has no timeout either; the text of the second read is given
\* only if the first one was empty.  Whether more is ready was asked before the wait.
Finish ==
    /\ pc = "status" /\ Exited
    /\ \E cut \in BOOLEAN :
         /\ cut => buffer > 0
         /\ answer' = IF remote.code = "zero"
                      THEN [kind |-> "text", cut |-> cut,
                            bytes |-> IF got["first"] > 0 THEN got["first"] ELSE got["second"]]
                      ELSE [Nothing EXCEPT !.kind = "None"]
    /\ error' = (remote.code # "zero")
    /\ pc' = "ready"
    /\ UNCHANGED <<used, remote, buffer, got, late>>

\* Any other exception of the channel.
Fails ==
    /\ Reading \/ pc = "status"
    /\ answer' = [Nothing EXCEPT !.kind = "None"] /\ error' = TRUE
    /\ pc' = "ready"
    /\ UNCHANGED <<used, remote, buffer, got, late>>

-----------------------------------------------------------------------------
(* The remote command and the clock. *)

Present == Reading \/ pc = "status"

Write ==
    /\ Present /\ ~remote.eof
    /\ ~Exited \/ "holds" \in Traits
    /\ \/ /\ remote.wrote < Most
          /\ remote' = [remote EXCEPT !.wrote = @ + 1]
       \/ /\ "endless" \in Traits /\ remote.wrote = Most
          /\ UNCHANGED remote
    /\ buffer' = IF buffer < Most THEN buffer + 1 ELSE buffer
    /\ UNCHANGED <<pc, used, got, late, answer, error>>

Complain ==
    /\ Present /\ ~Exited /\ "stderr" \in Traits
    /\ remote' = [remote EXCEPT !.stderr = TRUE]
    /\ UNCHANGED <<pc, used, buffer, got, late, answer, error>>

Exit ==
    /\ Present /\ ~Exited
    /\ \E c \in {"zero"} \cup (IF "fails" \in Traits THEN {"other"} ELSE {}) :
          remote' = [remote EXCEPT !.code = c]
    /\ UNCHANGED <<pc, used, buffer, got, late, answer, error>>

CloseOutput ==
    /\ Present /\ Exited /\ ~remote.eof
    /\ remote' = [remote EXCEPT !.eof = TRUE]
    /\ UNCHANGED <<pc, used, buffer, got, late, answer, error>>

Deadline ==
    /\ Reading /\ ~late
    /\ late' = TRUE
    /\ UNCHANGED <<pc, used, remote, buffer, got, answer, error>>

Reader == Connect \/ Close \/ Blocked \/ Begin \/ Poll \/ Recv \/ Finish \/ Fails
Next   == Reader \/ Write \/ Complain \/ Exit \/ CloseOutput \/ Deadline

Spec == Init /\ [][Next]_vars

\* The caller goes on while it can, and time passes.  A command without a trait that
\* says otherwise exits, and a process that has exited leaves a closed output.
Liveness ==
    /\ WF_vars(Poll) /\ WF_vars(Recv) /\ WF_vars(Finish) /\ WF_vars(Deadline)
    /\ ("holds" \notin Traits) => WF_vars(CloseOutput)
    /\ ({"silent", "endless"} \cap Traits = {}) => WF_vars(Exit)

FairSpec == Spec /\ Liveness

-----------------------------------------------------------------------------
(* Properties. *)

\* Every variable stays in its type; in particular the two reads never collect more
\* than the limit each.
TypeOK ==
    /\ pc \in {"ready", "closed", "first", "second", "recv first",
               "recv second", "status"}
    /\ used \in 0..Times /\ remote \in Remote /\ buffer \in 0..Most
    /\ got \in [Read -> 0..Max] /\ late \in BOOLEAN
    /\ answer \in Answer /\ error \in BOOLEAN

\* What is said of the select loop: no command blocks its worker for ever, even one that
\* stops without a word.  It holds of commands that write less than twice the limit,
\* write nothing to stderr and leave no child behind; for the others it is refuted.
CommandBounded == Present ~> pc = "ready"
=============================================================================
