----------------------------- MODULE SessionFiles -----------------------------
(***************************************************************************)
(* The files of one session name: <name>.session, its sidecar               *)
(* <name>.identity.json, and their backups.  They are written by            *)
(* enroll-session-from-archive (parser_router.py, session_archive.py), by a  *)
(* QR login (auth.py) and by the deletion of an account                     *)
(* (parser_router.py, account_registry.py).                                 *)
(*                                                                         *)
(* A file stands for the login it holds, a sidecar for the login whose      *)
(* device it describes.  A handler gives way while the archive is converted *)
(* and probed, while the channels of the new session are counted, while     *)
(* clients are released; what it does to the files in between is one step.  *)
(***************************************************************************)
CONSTANTS
    Uploads,     \* calls of enroll-session-from-archive, and the login each brings
    Described,   \* those whose archive has the metadata of a device
    Overwriting, \* those with overwrite = true
    QrLogin,     \* the login of a QR dialogue
    NoFile

ASSUME SessionFilesAssumption ==
    /\ Described \subseteq Uploads /\ Overwriting \subseteq Uploads
    /\ QrLogin \notin Uploads /\ NoFile \notin Uploads \cup {QrLogin}

VARIABLES
    file,     \* <name>.session
    backup,   \* <name>.session.bak
    sidecar,  \* <name>.identity.json
    sidecarBackup,
    upload,   \* [Uploads -> Upload]
    qr,       \* the QR dialogue: _wait_for_scan
    deleting, \* parser_account_delete is under way
    unclean   \* history: what SidecarBelongs makes exceptions for

onDisk == <<file, backup, sidecar, sidecarBackup>>
filesVars == <<onDisk, upload, qr, deleting, unclean>>

Logins == Uploads \cup {QrLogin, NoFile}

\* moved, movedIdentity: backup_path and identity_backup_path are set; found: the
\* files when the call wrote its own; alone: history, nothing else wrote since.
Upload == [at : {"new", "probe", "count", "done", "failed"},
           moved : BOOLEAN, movedIdentity : BOOLEAN,
           found : Logins \X Logins, alone : BOOLEAN]

NewUpload == [at |-> "new", moved |-> FALSE, movedIdentity |-> FALSE,
              found |-> <<NoFile, NoFile>>, alone |-> FALSE]

FilesTypeOK ==
    /\ {file, backup, sidecar, sidecarBackup} \subseteq Logins
    /\ upload \in [Uploads -> Upload]
    /\ qr \in {"none", "waiting", "saving", "abandoned", "success", "error"}
    /\ deleting \in BOOLEAN /\ unclean \in BOOLEAN

FilesInit ==
    /\ file = NoFile /\ backup = NoFile /\ sidecar = NoFile /\ sidecarBackup = NoFile
    /\ upload = [u \in Uploads |-> NewUpload]
    /\ qr = "none" /\ deleting = FALSE /\ unclean = FALSE

-----------------------------------------------------------------------------
\* Whoever writes the files disturbs the calls that have written theirs.
Disturbing(f, u) == [v \in Uploads |-> IF v = u THEN f[v] ELSE [f[v] EXCEPT !.alone = FALSE]]

WaitingCalls == {u \in Uploads : upload[u].at = "count"}

\* Up to the conversion and the probe: 409 if the file exists.
BeginUpload(u) ==
    /\ upload[u].at = "new"
    /\ upload' = [upload EXCEPT ![u].at = IF file # NoFile /\ u \notin Overwriting
                                          THEN "failed" ELSE "probe"]
    /\ UNCHANGED <<onDisk, qr, deleting, unclean>>

\* The archive is no good, or Telegram does not know the session.
ProbeFails(u) ==
    /\ upload[u].at = "probe"
    /\ upload' = [upload EXCEPT ![u].at = "failed"]
    /\ UNCHANGED <<onDisk, qr, deleting, unclean>>

\* Bug: the identity of the old session is not moved into the backup.
MovesNoIdentity(moves) == FALSE
MovesIdentity(moves) == moves /\ sidecar # NoFile

\* The files that are there become the backup, the new ones take their place;
\* the account joins the clump.
InstallUpload(u) ==
    LET moves == file # NoFile
        movesIdentity == MovesIdentity(moves)
    IN  /\ upload[u].at = "probe"
        /\ backup' = IF moves THEN file ELSE backup
        /\ sidecarBackup' = IF movesIdentity THEN sidecar ELSE sidecarBackup
        /\ file' = u
        /\ sidecar' = IF u \in Described THEN u ELSE NoFile
        /\ upload' = Disturbing([upload EXCEPT ![u] =
                        [at |-> "count", moved |-> moves, movedIdentity |-> movesIdentity,
                         found |-> <<file, sidecar>>, alone |-> ~deleting /\ WaitingCalls = {}]], u)
        /\ unclean' = (unclean \/ WaitingCalls # {})
        /\ UNCHANGED <<qr, deleting>>

\* shutil.move fails after the rename: wrote_new_session is still False, and the
\* login is in the backup only.
InstallFails(u) ==
    /\ upload[u].at = "probe" /\ file # NoFile
    /\ backup' = file /\ file' = NoFile
    /\ sidecarBackup' = IF sidecar # NoFile THEN sidecar ELSE sidecarBackup
    /\ sidecar' = NoFile
    /\ upload' = Disturbing([upload EXCEPT ![u].at = "failed"], u)
    /\ unclean' = TRUE
    /\ UNCHANGED <<qr, deleting>>

\* The channels are counted: the backups go.
UploadDone(u) ==
    /\ upload[u].at = "count"
    /\ backup' = IF upload[u].moved THEN NoFile ELSE backup
    /\ sidecarBackup' = IF upload[u].movedIdentity THEN NoFile ELSE sidecarBackup
    /\ upload' = [upload EXCEPT ![u].at = "done"]
    /\ UNCHANGED <<file, sidecar, qr, deleting, unclean>>

SidecarPutBack(back) == IF back THEN sidecarBackup ELSE NoFile

\* An exception on the way: the call puts back what it found, as far as the
\* backups are still there.
UploadFails(u) ==
    LET back == upload[u].moved /\ backup # NoFile
        backIdentity == back /\ upload[u].movedIdentity /\ sidecarBackup # NoFile
    IN  /\ upload[u].at = "count"
        /\ file' = IF back THEN backup ELSE NoFile
        /\ backup' = IF back THEN NoFile ELSE backup
        /\ sidecar' = SidecarPutBack(backIdentity)
        /\ sidecarBackup' = IF backIdentity THEN NoFile ELSE sidecarBackup
        /\ upload' = Disturbing([upload EXCEPT ![u].at = "failed"], u)
        /\ UNCHANGED <<qr, deleting, unclean>>

-----------------------------------------------------------------------------
\* create_qr_session, and the scan up to the thread that writes the file.
StartQr == /\ qr = "none" /\ qr' = "waiting"
           /\ UNCHANGED <<onDisk, upload, deleting, unclean>>
QrScanned == /\ qr = "waiting" /\ qr' = "saving"
             /\ UNCHANGED <<onDisk, upload, deleting, unclean>>

\* The code expires, a password is asked for, or the dialogue is cleaned up.
QrEnds == /\ qr = "waiting" /\ qr' = "error"
          /\ UNCHANGED <<onDisk, upload, deleting, unclean>>

\* cleanup_session cancels the dialogue, but not the thread.
QrCleanedUp == /\ qr = "saving" /\ qr' = "abandoned"
               /\ UNCHANGED <<onDisk, upload, deleting, unclean>>

\* _save_string_session_to_file: the old file is removed first; the sidecar stays.
QrSaves ==
    /\ qr \in {"saving", "abandoned"}
    /\ file' \in {QrLogin, NoFile}
    /\ qr' = IF qr = "saving" THEN "success" ELSE "error"
    /\ upload' = Disturbing(upload, NoFile)
    /\ unclean' = (unclean \/ sidecar # NoFile \/ WaitingCalls # {})
    /\ UNCHANGED <<backup, sidecar, sidecarBackup, deleting>>

-----------------------------------------------------------------------------
\* parser_account_delete, up to release_client ...
StartDelete ==
    /\ ~deleting /\ file # NoFile
    /\ deleting' = TRUE
    /\ UNCHANGED <<onDisk, upload, qr, unclean>>

\* ... and delete_account_full, which leaves the sidecar.
DeleteFile ==
    /\ deleting
    /\ deleting' = FALSE
    /\ file' = NoFile
    /\ upload' = Disturbing(upload, NoFile)
    /\ unclean' = (unclean \/ sidecar # NoFile \/ WaitingCalls # {})
    /\ UNCHANGED <<backup, sidecar, sidecarBackup, qr>>

\* The process dies: no call puts anything back.
FilesCrash ==
    /\ upload' = [u \in Uploads |-> IF upload[u].at \in {"probe", "count"}
                                    THEN [upload[u] EXCEPT !.at = "failed", !.alone = FALSE]
                                    ELSE upload[u]]
    /\ qr' = IF qr \in {"waiting", "saving", "abandoned"} THEN "error" ELSE qr
    /\ deleting' = FALSE
    /\ UNCHANGED <<onDisk, unclean>>

FilesNext ==
    \/ \E u \in Uploads : \/ BeginUpload(u) \/ ProbeFails(u) \/ InstallUpload(u)
                          \/ InstallFails(u) \/ UploadDone(u) \/ UploadFails(u)
    \/ StartQr \/ QrScanned \/ QrEnds \/ QrCleanedUp \/ QrSaves
    \/ StartDelete \/ DeleteFile \/ FilesCrash

-----------------------------------------------------------------------------
\* An enrolment that fails after it installed its session leaves the session that
\* was there before, with its sidecar, if nothing else wrote the files meanwhile;
\* the backups of an earlier crash or failure do not get in its way.
FailedEnrolRestores ==
    \A u \in Uploads : upload[u].at = "failed" /\ upload[u].alone =>
       /\ file = upload[u].found[1]
       /\ file # NoFile => sidecar = upload[u].found[2]

\* The sidecar describes the login of the file beside it (a session is never
\* opened with the device of another), unless two enrolments overlapped, one
\* could not move its file into place, or a deletion or a QR login met a sidecar.
SidecarBelongs == sidecar \in {NoFile, file} \/ unclean

\* The session file and its identity change together, also when an enrolment fails.
FilesAgree == FailedEnrolRestores /\ SidecarBelongs
=============================================================================
