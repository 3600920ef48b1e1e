----------------------------- MODULE SyncTable -----------------------------
(***************************************************************************)
(* What the generic conduit decides to do with one record.                 *)
(*                                                                         *)
(* GenericConduit looks at the status bits of the record on the Palm       *)
(* ("remote") and of the record in the backup file ("local") and carries   *)
(* out a short list of steps.  Here a decision is that list: a sequence of *)
(* step names, in the order in which the code executes them.  Module       *)
(* GenericConduit executes a plan one step at a time, so that a lost       *)
(* connection, a refusal by the Palm or a crash can fall between any two.  *)
(***************************************************************************)
EXTENDS PdbList

(* Steps on the workstation only.                                          *)
ArchiveLocal  == "archive local"      \* archive_record(localrec)
ArchiveRemote == "archive remote"     \* archive_record(remoterec)
ClearLocal    == "clear local"        \* CLEAR_STATUS_FLAGS(localrec)
DeleteLocal   == "delete local"       \* pdb_DeleteRecordByID(localdb, localrec->id)
AppendRemote  == "append remote"      \* append a clean copy of remoterec
AppendUnclean == "append unclean"     \* the same, but the wrong record is cleaned
InsertRemote  == "insert remote"      \* insert a clean copy after localrec
DropRemote    == "drop remote"        \* pdb_DeleteRecordByID(_remotedb, ...)

(* Steps that call the Palm.                                               *)
DeleteRemote  == "delete remote"      \* DlpDeleteRecord; a refusal is a warning
PurgeLocal    == "purge local"        \* DlpDeleteRecord; on success, DeleteLocal
UploadLocal   == "upload local"       \* DlpWriteRecord with localrec->id
UploadAsNew   == "upload as new"      \* DlpWriteRecord with ID 0

PalmSteps  == {DeleteRemote, PurgeLocal, UploadLocal, UploadAsNew}
LocalSteps == {ArchiveLocal, ArchiveRemote, ClearLocal, DeleteLocal,
               AppendRemote, AppendUnclean, InsertRemote, DropRemote}
Steps == PalmSteps \cup LocalSteps

(* The steps that read or write through the pointer localrec.              *)
LocalrecSteps == {ArchiveLocal, ClearLocal, DeleteLocal, InsertRemote,
                  PurgeLocal, UploadLocal, UploadAsNew}

(* Of these, the ones after which localrec may have been freed.            *)
FreeingSteps == {DeleteLocal, PurgeLocal}

(* The four cases SyncRecord distinguishes, in the order it tests them.    *)
Statuses == {"archived", "expunged", "dirty", "clean"}

Status(rec) ==
    IF rec.flags \cap {DELETED, DIRTY} # {} /\ ARCHIVE \in rec.flags THEN "archived"
    ELSE IF EXPUNGED \in rec.flags THEN "expunged"
    ELSE IF DIRTY \in rec.flags THEN "dirty"
    ELSE "clean"

(* SyncRecord: one row per status of the remote record, one column per     *)
(* status of the local one.  Two entries depend on more than the statuses: *)
(* they are the plans for records whose contents differ.                   *)
RemoteArchived ==
    [archived |-> <<ArchiveLocal, ArchiveRemote, DeleteRemote, DeleteLocal>>,
     expunged |-> <<ArchiveRemote, DeleteRemote, DeleteLocal>>,
     dirty    |-> <<ArchiveRemote, ClearLocal, UploadLocal>>,
     clean    |-> <<ArchiveRemote, DeleteLocal>>]

RemoteExpunged ==
    [archived |-> <<ClearLocal, ArchiveLocal, DeleteLocal>>,
     expunged |-> <<DeleteLocal>>,
     dirty    |-> <<DeleteRemote, ClearLocal, UploadLocal>>,
     clean    |-> <<DeleteLocal>>]

RemoteDirty ==
    [archived |-> <<ClearLocal, ArchiveLocal, DeleteLocal, AppendUnclean>>,
     expunged |-> <<DeleteLocal, AppendRemote>>,
     dirty    |-> <<ClearLocal, UploadAsNew, InsertRemote>>,
     clean    |-> <<InsertRemote, DeleteLocal>>]

RemoteClean ==
    [archived |-> <<ClearLocal, ArchiveLocal, DeleteLocal, DeleteRemote>>,
     expunged |-> <<DeleteLocal, DeleteRemote>>,
     dirty    |-> <<ClearLocal, UploadLocal>>,
     clean    |-> <<>>]

SyncRecordTable == [archived |-> RemoteArchived, expunged |-> RemoteExpunged,
                    dirty |-> RemoteDirty, clean |-> RemoteClean]

(* Three mistakes a change to the table could make; no specification uses  *)
(* the operators named Wrong..., which show that the properties notice.    *)
WrongDesktopWins(localrec, remoterec) ==
    IF <<Status(remoterec), Status(localrec)>> = <<"dirty", "dirty">>
    THEN <<ClearLocal, UploadLocal>>
    ELSE SyncRecordTable[Status(remoterec)][Status(localrec)]
WrongKeepOld(localrec, remoterec) ==
    IF <<Status(remoterec), Status(localrec)>> = <<"dirty", "clean">>
    THEN <<InsertRemote>>
    ELSE SyncRecordTable[Status(remoterec)][Status(localrec)]
WrongFreeFirst(localrec, remoterec) ==
    IF <<Status(remoterec), Status(localrec)>> = <<"clean", "archived">>
    THEN <<ClearLocal, DeleteLocal, ArchiveLocal, DeleteRemote>>
    ELSE SyncRecordTable[Status(remoterec)][Status(localrec)]

SyncRecordPlan(localrec, remoterec) ==
    LET case == <<Status(remoterec), Status(localrec)>>
        same == localrec.data = remoterec.data
    IN  IF same /\ case = <<"archived", "archived">>
        THEN <<ArchiveLocal, DeleteRemote, DeleteLocal>>
        ELSE IF same /\ case = <<"dirty", "dirty">>
        THEN <<ClearLocal>>
        ELSE SyncRecordTable[case[1]][case[2]]

(* "DELETED and ARCHIVED, or at least DELETED and not EXPUNGED": the test  *)
(* the three sync functions make themselves, outside SyncRecord.           *)
ToArchive(rec) ==
    DELETED \in rec.flags /\ (ARCHIVE \in rec.flags \/ EXPUNGED \notin rec.flags)

(* FirstSync, for each record of the downloaded database (which is the one *)
(* that will be written to the backup file, hence "local").                *)
FirstSyncPlan(rec) ==
    IF ToArchive(rec) THEN <<ClearLocal, ArchiveLocal>>
    ELSE IF EXPUNGED \in rec.flags THEN <<DeleteLocal>>
    ELSE <<ClearLocal>>

(* SlowSync, first phase, for a remote record that the backup lacks.       *)
WrongForgetArchive(remoterec) ==
    IF ToArchive(remoterec) \/ EXPUNGED \in remoterec.flags THEN <<DropRemote>>
    ELSE <<AppendRemote>>
WrongKeepFlags(remoterec) ==
    IF ToArchive(remoterec) THEN <<ArchiveRemote>>
    ELSE IF EXPUNGED \in remoterec.flags THEN <<DropRemote>>
    ELSE <<AppendUnclean>>

SlowNewPlan(remoterec) ==
    IF ToArchive(remoterec) THEN <<ArchiveRemote>>
    ELSE IF EXPUNGED \in remoterec.flags THEN <<DropRemote>>
    ELSE <<AppendRemote>>

(* SlowSync, second phase, for a local record that the Palm lacks.         *)
WrongUploadClean(localrec) ==
    IF ToArchive(localrec) THEN <<ClearLocal, ArchiveLocal>>
    ELSE IF EXPUNGED \in localrec.flags THEN <<DeleteLocal>>
    ELSE <<ClearLocal, UploadLocal>>

SlowLocalPlan(localrec) ==
    IF ToArchive(localrec) THEN <<ClearLocal, ArchiveLocal>>
    ELSE IF EXPUNGED \in localrec.flags THEN <<DeleteLocal>>
    ELSE IF DIRTY \in localrec.flags THEN <<ClearLocal, UploadLocal>>
    ELSE <<ArchiveLocal, DeleteLocal>>

(* FastSync, first phase, for a modified record that the backup lacks.     *)
WrongAppendExpunged(remoterec) ==
    IF ARCHIVE \in remoterec.flags THEN <<ArchiveRemote>> ELSE <<AppendRemote>>

FastNewPlan(remoterec) ==
    IF ARCHIVE \in remoterec.flags THEN <<ArchiveRemote>>
    ELSE IF EXPUNGED \in remoterec.flags THEN <<>>
    ELSE <<AppendRemote>>

(* FastSync, second phase, for each local record.                          *)
WrongUploadDirty(localrec) ==
    IF ToArchive(localrec) THEN <<ClearLocal, ArchiveLocal, PurgeLocal>>
    ELSE IF EXPUNGED \in localrec.flags THEN <<PurgeLocal>>
    ELSE IF DIRTY \in localrec.flags THEN <<UploadLocal>>
    ELSE <<>>
WrongKeepArchived(localrec) ==
    IF ToArchive(localrec) THEN <<ClearLocal, ArchiveLocal>>
    ELSE IF EXPUNGED \in localrec.flags THEN <<PurgeLocal>>
    ELSE IF DIRTY \in localrec.flags THEN <<ClearLocal, UploadLocal>>
    ELSE <<>>

FastLocalPlan(localrec) ==
    IF ToArchive(localrec) THEN <<ClearLocal, ArchiveLocal, PurgeLocal>>
    ELSE IF EXPUNGED \in localrec.flags THEN <<PurgeLocal>>
    ELSE IF DIRTY \in localrec.flags THEN <<ClearLocal, UploadLocal>>
    ELSE <<>>

WrongTrustClean(localrec, remoterec) == remoterec

(* In SlowSync the Palm's dirty bit is only half trusted: if it is clear,  *)
(* the contents are compared, and a difference sets it.                    *)
DistrustClean(localrec, remoterec) ==
    IF DIRTY \notin remoterec.flags /\ localrec.data # remoterec.data
    THEN [remoterec EXCEPT !.flags = @ \cup {DIRTY}]
    ELSE remoterec
=============================================================================
