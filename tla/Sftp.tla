--------------------------------- MODULE Sftp ---------------------------------
(***************************************************************************)
(* One SFTP session of the browser (ssh/sftp.py: SftpBridge).  A single    *)
(* greenlet receives one message at a time and handles it to the end, so   *)
(* what can go wrong is in the ORDER of the messages: an upload is spread  *)
(* over many of them, and its attributes stay on the bridge in between.    *)
(*                                                                         *)
(* A path stands for itself after the checks of the sandbox and the file   *)
(* name; a message that fails them is one that is refused.  The remote     *)
(* file system is external: any operation on it may raise.                 *)
(***************************************************************************)
EXTENDS Integers, FiniteSets

CONSTANTS
    Path,       \* remote paths
    NoPath,     \* no path
    Limit,      \* SFTP_MAX_UPLOAD_SIZE
    Chunk,      \* sizes of the chunks a browser sends
    Polite      \* the browser sends nothing but chunks and the end during an upload

SftpAssumption ==
    /\ NoPath \notin Path /\ Limit \in Nat /\ Chunk \subseteq Nat
    /\ Polite \in BOOLEAN

VARIABLES
    session,    \* "new", "on", "closed"
    file,       \* the remote file _upload_file writes to, or NoPath
    name,       \* _upload_remote_path, set before the checks of upload_start
    sent,       \* _upload_transferred
    remote,     \* bytes of each remote file, or Absent
    row         \* the audit row just written

vars == <<session, file, name, sent, remote, row>>

Absent == -1
NoRow  == [path |-> NoPath, bytes |-> 0, good |-> FALSE]
Row    == [path : Path \cup {NoPath}, bytes : Nat, good : BOOLEAN]

Init ==
    /\ session = "new"
    /\ file = NoPath /\ name = NoPath /\ sent = 0
    /\ remote = [p \in Path |-> Absent]
    /\ row = NoRow

-----------------------------------------------------------------------------

\* An audit row; its failure would not stop the session.
Audit(p, bytes, good) == row' = [path |-> p, bytes |-> bytes, good |-> good]

Quiet == row' = NoRow

\* Credentials, host, system user, permission and connection: all of them or no session.
Open ==
    /\ session = "new"
    /\ session' \in {"on", "closed"}
    /\ Quiet
    /\ UNCHANGED <<file, name, sent, remote>>

Free == session = "on" /\ (Polite => file = NoPath)

\* ls, stat, what is not JSON, an unknown action, and a chunk outside an upload.
Look ==
    /\ Free
    /\ Quiet
    /\ UNCHANGED <<session, file, name, sent, remote>>

\* A download reads what stat saw; it is recorded whether it succeeds or not.
Download(p) ==
    /\ Free
    /\ \E good \in {FALSE} \cup {remote[p] # Absent} :
          Audit(p, IF good THEN remote[p] ELSE 0, good)
    /\ UNCHANGED <<session, file, name, sent, remote>>

SlipUploadStart(p) ==
    /\ Free
    /\ \/ UNCHANGED <<file, name, sent, remote>>
       \/ name' = p /\ UNCHANGED <<file, sent, remote>>
       \/ /\ name' = p /\ file' = p
          /\ remote' = [remote EXCEPT ![p] = 0]
          /\ UNCHANGED sent
    /\ row' = NoRow
    /\ UNCHANGED session
\* The name is on the bridge before the size is looked at; opening for writing empties
\* the file and forgets the handle of an upload that was not over.
UploadStart(p) ==
    /\ Free
    /\ \/ UNCHANGED <<file, name, sent, remote>>               \* a bad name
       \/ name' = p /\ UNCHANGED <<file, sent, remote>>        \* size, or open raises
       \/ /\ name' = p /\ file' = p /\ sent' = 0
          /\ remote' = [remote EXCEPT ![p] = 0]
    /\ row' = NoRow
    /\ UNCHANGED session

\* _finish_upload: the file is closed and the row says success, unless closing raises.
Finish ==
    /\ file' = NoPath
    /\ \/ Audit(name, sent, TRUE)
       \/ Audit(name, 0, FALSE)
    /\ UNCHANGED <<session, name, sent>>

\* A file removed meanwhile takes what is written with it.
Written(bytes) ==
    remote' = IF remote[file] = Absent THEN remote ELSE [remote EXCEPT ![file] = bytes]

\* A write that raises may have written a part, and finishes the upload all the same.
UploadChunk(n) ==
    /\ session = "on" /\ file # NoPath
    /\ \/ sent + n > Limit /\ Finish /\ UNCHANGED remote
       \/ /\ sent + n <= Limit
          /\ Written(sent + n)
          /\ sent' = sent + n
          /\ row' = NoRow
          /\ UNCHANGED <<session, file, name>>
       \/ /\ sent + n <= Limit
          /\ \E part \in sent..sent + n : Written(part)
          /\ Finish

UploadEnd ==
    /\ session = "on"
    /\ IF file # NoPath
       THEN Finish /\ UNCHANGED remote
       ELSE Quiet /\ UNCHANGED <<session, file, name, sent, remote>>

\* mkdir, rm and rename change the host and then say so, or say that they failed.
Refused(p) == Audit(p, 0, FALSE) /\ UNCHANGED remote

MkDir(p) ==
    /\ Free
    /\ \/ remote[p] = Absent /\ Audit(p, 0, TRUE) /\ UNCHANGED remote
       \/ Refused(p)
    /\ UNCHANGED <<session, file, name, sent>>

Rm(p) ==
    /\ Free
    /\ \/ /\ remote[p] # Absent
          /\ remote' = [remote EXCEPT ![p] = Absent] /\ Audit(p, 0, TRUE)
       \/ Refused(p)
    /\ UNCHANGED <<session, file, name, sent>>

Rename(p, q) ==
    /\ Free
    /\ \/ /\ remote[p] # Absent /\ remote[q] = Absent
          /\ remote' = [remote EXCEPT ![p] = Absent, ![q] = remote[p]]
          /\ row' = [path |-> q, bytes |-> 0, good |-> TRUE]
       \/ Refused(p)
    /\ UNCHANGED <<session, file, name, sent>>

\* The browser leaves, nothing comes for half an hour, or the loop raises: the file is
\* closed and nothing is recorded.
Leave ==
    /\ session = "on"
    /\ session' = "closed" /\ file' = NoPath
    /\ Quiet
    /\ UNCHANGED <<name, sent, remote>>

Upload == (\E p \in Path : UploadStart(p)) \/ (\E n \in Chunk : UploadChunk(n)) \/ UploadEnd

Operate ==
    \/ Look
    \/ \E p \in Path : Download(p) \/ MkDir(p) \/ Rm(p)
    \/ \E p, q \in Path : Rename(p, q)

Next == Open \/ Operate \/ Upload \/ Leave

Spec == Init /\ [][Next]_vars

-----------------------------------------------------------------------------
(* Properties. *)

\* Every variable stays in its type.
TypeOK ==
    /\ session \in {"new", "on", "closed"}
    /\ file \in Path \cup {NoPath} /\ name \in Path \cup {NoPath}
    /\ sent \in 0..Limit /\ remote \in [Path -> Absent..Limit]
    /\ row \in Row

\* For a browser that sends one upload at a time, a row of success names the file that was
\* written and no more bytes than it has, though the bridge keeps name, size and handle
\* apart and a write may have raised half way.
RowIsTrue ==
    [][Polite /\ row'.good /\ file # NoPath /\ file' = NoPath =>
         row'.path = file /\ row'.bytes <= remote'[file]]_vars
=============================================================================
