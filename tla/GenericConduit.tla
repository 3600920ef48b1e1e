--------------------------- MODULE GenericConduit ---------------------------
(***************************************************************************)
(* One record database, kept in step between a Palm and the backup files   *)
(* of one or more workstations by ColdSync's built-in generic conduit      *)
(* (src/src/conduits/generic.cc), run from do_sync (src/src/sync.c).       *)
(*                                                                         *)
(* Between syncs the user edits the Palm and the backup files.  A sync     *)
(* reads the backup file, walks the Palm's records and then its own, calls *)
(* the Palm for every change, rewrites the backup file in one rename,      *)
(* purges and cleans the Palm's flags, and finally writes its host ID into *)
(* the Palm's user info, which decides whether the next sync trusts the    *)
(* flags.  At any point the connection may be lost, the Palm may refuse a  *)
(* call, a write to disk may fail or the program may die.                  *)
(***************************************************************************)
EXTENDS SyncTable

CONSTANTS
    Hosts,       \* the workstations
    Device,      \* the Palm
    NoHost,      \* lastSyncPC of a Palm that was never synced
    NoFile,      \* the backup file does not exist
    InitRecords, \* number of records on the Palm at the start
    InitSynced,  \* the hosts already in step with the Palm at the start
    Editors,     \* where the user makes edits: hosts, the Device
    MaxEdits,    \* bound: edits the user makes, on all sides together
    MaxFaults,   \* bound: failures that happen
    Faults,      \* the kinds of failure that can happen (FaultKinds)
    ArchiveMarks,\* status bits a Palm application may add to archive a record
    ExpungeMarks,\* status bits it may add to delete one for good
    WriteMarks,  \* status bits the Palm may give a record that was uploaded
    Forced,      \* force_slow and force_fast, as a subset of {"slow", "fast"}
    OpenOnPalm   \* may the Palm have the database open?  {FALSE}, {TRUE} or both

FaultKinds == {"disconnect", "refuse", "archive", "disk", "crash"}

ASSUME ConstantsAssumption ==
    /\ NoHost \notin Hosts /\ Device \notin Hosts
    /\ Editors \subseteq Hosts \cup {Device}
    /\ NoFile \notin Seq(Record)
    /\ InitSynced \subseteq Hosts
    /\ InitRecords \in Nat /\ MaxEdits \in Nat /\ MaxFaults \in Nat
    /\ Faults \subseteq FaultKinds
    /\ ArchiveMarks \subseteq SUBSET Flags
    /\ ExpungeMarks \subseteq SUBSET Flags
    /\ WriteMarks \subseteq SUBSET Flags
    /\ Forced \subseteq {"slow", "fast"}
    /\ OpenOnPalm \subseteq BOOLEAN

VARIABLES
    palm,        \* the Palm's database
    nextId,      \* the next unique ID the Palm will assign
    lastSyncPC,  \* the host the Palm's user info names
    backup,      \* each host's backup file
    archive,     \* the contents in each host's archive file
    pc,          \* where the sync is
    host,        \* the workstation that is syncing
    mode,        \* which of the three sync functions runs
    opened,      \* DLPCMD_DBFLAG_OPEN: an application on the Palm has it open
    online,      \* the connection is up
    failed,      \* the conduit returned -1
    localdb,     \* the list that will be written to the backup file
    remotedb,    \* SlowSync: the downloaded list
    seen,        \* FastSync: IDs the Palm has already returned
    rem,         \* the remote record in hand
    li,          \* localrec, or the cursor of the second phase
    plan,        \* the steps left for the record in hand
    edits,       \* edits made so far, also the newest contents
    faults,      \* failures so far
    wanted,      \* ghost: contents the user has neither replaced nor expunged
    gone         \* ghost: contents deleted on the Device, and at each host

palmVars  == <<palm, nextId, lastSyncPC>>
fileVars  == <<backup, archive>>
workVars  == <<localdb, remotedb, seen, rem, li, plan>>
sessVars  == <<pc, host, mode, opened, online, failed>>
userVars  == <<edits, wanted, gone>>
vars == <<palmVars, fileVars, sessVars, workVars, userVars, faults>>

Phases == {"idle", "open", "remote", "local", "write", "cleanup", "reset", "userinfo"}
Modes  == {"none", "first", "slow", "fast"}
NoRec  == Rec(0, {}, 0)

TypeOK ==
    /\ palm \in Seq(Record) /\ nextId \in Nat
    /\ lastSyncPC \in Hosts \cup {NoHost}
    /\ backup \in [Hosts -> Seq(Record) \cup {NoFile}]
    /\ archive \in [Hosts -> SUBSET Nat]
    /\ pc \in Phases /\ host \in Hosts \cup {NoHost} /\ mode \in Modes
    /\ opened \in BOOLEAN /\ online \in BOOLEAN /\ failed \in BOOLEAN
    /\ localdb \in Seq(Record) /\ remotedb \in Seq(Record)
    /\ seen \subseteq Nat /\ rem \in Record /\ li \in Nat
    /\ plan \in Seq(Steps)
    /\ edits \in Nat /\ faults \in Nat
    /\ wanted \subseteq Nat /\ gone \in [Hosts \cup {Device} -> SUBSET Nat]

(* A Palm straight out of the shop, or one that the hosts of InitSynced    *)
(* have synced with one after the other, with no edit in between.          *)
Init ==
    /\ LET marks == IF InitSynced = {} THEN {DIRTY} ELSE {}
           records == [i \in 1 .. InitRecords |-> Rec(i, marks, i)]
       IN  /\ palm = records
           /\ backup = [h \in Hosts |-> IF h \in InitSynced THEN records ELSE NoFile]
    /\ nextId = InitRecords + 1
    /\ lastSyncPC \in IF InitSynced = {} THEN {NoHost} ELSE InitSynced
    /\ archive = [h \in Hosts |-> {}]
    /\ pc = "idle" /\ host = NoHost /\ mode = "none"
    /\ opened = FALSE /\ online = FALSE /\ failed = FALSE
    /\ localdb = <<>> /\ remotedb = <<>> /\ seen = {}
    /\ rem = NoRec /\ li = 0 /\ plan = <<>>
    /\ edits = 0 /\ faults = 0
    /\ wanted = 1 .. InitRecords
    /\ gone = [h \in Hosts \cup {Device} |-> {}]

Fault(kind) == kind \in Faults /\ faults < MaxFaults /\ faults' = faults + 1
NoFault == UNCHANGED faults

-----------------------------------------------------------------------------
(* The Palm's side of the calls (external: libpconn and the device).       *)

(* DlpWriteRecord, as the Palm executes it: a record with this ID is       *)
(* replaced; otherwise one is created, under this ID or under a new one.   *)
Store(id, data, newID) ==
    \E marks \in WriteMarks : LET i == FindRecordByID(palm, id) IN
        \/ /\ i # 0 /\ newID = id
           /\ palm' = [palm EXCEPT ![i] = Rec(id, marks, data)]
           /\ UNCHANGED nextId
        \/ /\ i = 0 /\ id # 0 /\ newID = id
           /\ palm' = AppendRecord(palm, Rec(id, marks, data))
           /\ UNCHANGED nextId
        \/ /\ i = 0 /\ newID = nextId
           /\ palm' = AppendRecord(palm, Rec(newID, marks, data))
           /\ nextId' = nextId + 1

(* DlpDeleteRecord, DlpCleanUpDatabase and DlpResetSyncFlags.              *)
Remove(id) == palm' = DeleteRecordByID(palm, id)
CleanUp    == palm' = Purged(palm)
ResetFlags == palm' = [i \in DOMAIN palm |-> [palm[i] EXCEPT !.flags = @ \ {DIRTY}]]

(* The modified records DlpReadNextModifiedRec has not returned yet.       *)
Unread == {i \in DOMAIN palm : palm[i].flags # {} /\ palm[i].id \notin seen}

(* How a call can go wrong: the Palm answers with an error, or the         *)
(* connection is lost.  When it is lost during the call, the Palm may have *)
(* executed the call or not: `effect' is what it would have done.          *)
Refused == online /\ Fault("refuse") /\ UNCHANGED <<online, palm, nextId>>

NotWritable == online /\ opened /\ NoFault /\ UNCHANGED <<online, palm, nextId>>

Lost(effect) ==
    \/ ~online /\ NoFault /\ UNCHANGED <<online, palm, nextId>>
    \/ /\ online /\ Fault("disconnect") /\ online' = FALSE
       /\ \/ UNCHANGED <<palm, nextId>>
          \/ effect

Stored(id, data) == \E newID \in {id, nextId} : Store(id, data, newID)

-----------------------------------------------------------------------------
(* The user, between syncs.                                                *)

NewEdit(where) ==
    where \in Editors /\ pc = "idle" /\ edits < MaxEdits /\ edits' = edits + 1
Version == InitRecords + edits + 1      \* contents no record has had yet

UserChanges(old, new) == wanted' = (wanted \ old) \cup new

PalmEdit(i) ==
    /\ NewEdit(Device) /\ IsLive(palm[i])
    /\ palm' = [palm EXCEPT ![i].data = Version, ![i].flags = @ \cup {DIRTY}]
    /\ UserChanges({palm[i].data}, {Version})
    /\ UNCHANGED <<nextId, lastSyncPC, gone, fileVars, sessVars, workVars, faults>>

PalmNew ==
    /\ NewEdit(Device)
    /\ palm' = AppendRecord(palm, Rec(nextId, {DIRTY}, Version))
    /\ nextId' = nextId + 1
    /\ UserChanges({}, {Version})
    /\ UNCHANGED <<lastSyncPC, gone, fileVars, sessVars, workVars, faults>>

PalmArchive(i) ==
    /\ NewEdit(Device) /\ IsLive(palm[i])
    /\ \E marks \in ArchiveMarks : palm' = [palm EXCEPT ![i].flags = @ \cup marks]
    /\ gone' = [gone EXCEPT ![Device] = @ \cup {palm[i].data}]
    /\ UNCHANGED <<nextId, lastSyncPC, wanted, fileVars, sessVars, workVars, faults>>

PalmExpunge(i) ==
    /\ NewEdit(Device) /\ IsLive(palm[i])
    /\ \E marks \in ExpungeMarks :
          palm' = [palm EXCEPT ![i].data = 0, ![i].flags = @ \cup marks]
    /\ gone' = [gone EXCEPT ![Device] = @ \cup {palm[i].data}]
    /\ UserChanges({palm[i].data}, {})
    /\ UNCHANGED <<nextId, lastSyncPC, fileVars, sessVars, workVars, faults>>

(* Programs on the workstation that edit a backup file mark what they      *)
(* change with the same bits.                                              *)
DesktopEdit(h, i) ==
    /\ NewEdit(h) /\ IsLive(backup[h][i])
    /\ backup' = [backup EXCEPT ![h][i].data = Version, ![h][i].flags = @ \cup {DIRTY}]
    /\ UserChanges({backup[h][i].data}, {Version})
    /\ UNCHANGED <<archive, gone, palmVars, sessVars, workVars, faults>>

DesktopNew(h) ==
    /\ NewEdit(h)
    /\ backup' = [backup EXCEPT ![h] = AppendRecord(@, Rec(0, {DIRTY}, Version))]
    /\ UserChanges({}, {Version})
    /\ UNCHANGED <<archive, gone, palmVars, sessVars, workVars, faults>>

DesktopArchive(h, i) ==
    /\ NewEdit(h) /\ IsLive(backup[h][i])
    /\ backup' = [backup EXCEPT ![h][i].flags = @ \cup {DELETED, ARCHIVE}]
    /\ gone' = [gone EXCEPT ![h] = @ \cup {backup[h][i].data}]
    /\ UNCHANGED <<archive, wanted, palmVars, sessVars, workVars, faults>>

DesktopExpunge(h, i) ==
    /\ NewEdit(h) /\ IsLive(backup[h][i])
    /\ backup' = [backup EXCEPT ![h][i].flags = @ \cup {DELETED, EXPUNGED}]
    /\ gone' = [gone EXCEPT ![h] = @ \cup {backup[h][i].data}]
    /\ UserChanges({backup[h][i].data}, {})
    /\ UNCHANGED <<archive, palmVars, sessVars, workVars, faults>>

UserStep ==
    \/ \E i \in DOMAIN palm : PalmEdit(i) \/ PalmArchive(i) \/ PalmExpunge(i)
    \/ PalmNew
    \/ \E h \in {g \in Hosts : backup[g] # NoFile} :
          \/ DesktopNew(h)
          \/ \E i \in DOMAIN backup[h] :
                DesktopEdit(h, i) \/ DesktopArchive(h, i) \/ DesktopExpunge(h, i)

-----------------------------------------------------------------------------
(* do_sync and GenericConduit::run: choose the kind of sync.               *)

WrongAlwaysFast(h) ==
    /\ pc = "idle"
    /\ pc' = "open" /\ host' = h /\ online' = TRUE /\ failed' = FALSE
    /\ opened' \in OpenOnPalm
    /\ mode' = IF backup[h] = NoFile THEN "first" ELSE "fast"
    /\ NoFault /\ UNCHANGED <<palmVars, fileVars, workVars, userVars>>

StartSync(h) ==
    /\ pc = "idle"
    /\ pc' = "open" /\ host' = h /\ online' = TRUE /\ failed' = FALSE
    /\ opened' \in OpenOnPalm
    /\ mode' = IF backup[h] = NoFile THEN "first"
               ELSE IF (lastSyncPC # h \/ "slow" \in Forced) /\ "fast" \notin Forced
               THEN "slow" ELSE "fast"
    /\ NoFault /\ UNCHANGED <<palmVars, fileVars, workVars, userVars>>

(* The conduit returns -1: for now, the failure concerns this database.    *)
Fail == pc' = "userinfo" /\ failed' = TRUE

(* read_backup, DlpOpenConduit, DlpOpenDB, and the download of the whole   *)
(* database in FirstSync and SlowSync.                                     *)
Open ==
    /\ pc = "open"
    /\ NoFault
    /\ CASE mode = "first" -> pc' = "local"  /\ localdb' = palm         /\ remotedb' = <<>>
         [] mode = "slow"  -> pc' = "remote" /\ localdb' = backup[host] /\ remotedb' = palm
         [] mode = "fast"  -> pc' = "remote" /\ localdb' = backup[host] /\ remotedb' = <<>>
    /\ UNCHANGED <<palmVars, fileVars, userVars, host, mode, opened, online, failed,
                   seen, rem, li, plan>>

OpenFails ==
    /\ pc = "open"
    /\ \/ Refused \/ Lost(FALSE)
       \/ mode # "first" /\ Fault("disk") /\ UNCHANGED <<online, palm, nextId>>
    /\ Fail
    /\ UNCHANGED <<lastSyncPC, fileVars, userVars, host, mode, opened, workVars>>

(* DLPSTAT_CANCEL, which do_sync does not let pass: no user info.          *)
EndSession ==
    /\ pc' = "idle" /\ host' = NoHost /\ mode' = "none"
    /\ opened' = FALSE /\ online' = FALSE /\ failed' = FALSE
    /\ localdb' = <<>> /\ remotedb' = <<>> /\ seen' = {}
    /\ rem' = NoRec /\ li' = 0 /\ plan' = <<>>

Cancel ==
    /\ pc = "open"
    /\ EndSession /\ NoFault
    /\ UNCHANGED <<palmVars, fileVars, userVars>>

-----------------------------------------------------------------------------
(* First phase: the Palm's records.                                        *)

WrongReadAgain(remoterec, newPlan) ==
    LET i == FindRecordByID(localdb, remoterec.id) IN
    /\ li' = i /\ seen' = seen /\ rem' = remoterec
    /\ plan' = IF i = 0 THEN newPlan ELSE SyncRecordPlan(localdb[i], remoterec)

Decide(remoterec, newPlan) ==
    LET i == FindRecordByID(localdb, remoterec.id) IN
    /\ li' = i /\ seen' = seen \cup {remoterec.id}
    /\ IF i = 0 THEN rem' = remoterec /\ plan' = newPlan
       ELSE LET r == IF mode = "slow" THEN DistrustClean(localdb[i], remoterec) ELSE remoterec
            IN  rem' = r /\ plan' = SyncRecordPlan(localdb[i], r)

(* SlowSync takes the downloaded records in turn.  Whatever happens to the *)
(* record, its flags end up cleared in _remotedb; `rem' keeps them.        *)
NextRemoteSlow ==
    /\ pc = "remote" /\ mode = "slow" /\ plan = <<>>
    /\ \E i \in DOMAIN remotedb :
          /\ remotedb[i].id \notin seen
          /\ \A j \in 1 .. (i - 1) : remotedb[j].id \in seen
          /\ Decide(remotedb[i], SlowNewPlan(remotedb[i]))
          /\ remotedb' = ClearStatusFlags(remotedb, i)
    /\ NoFault
    /\ UNCHANGED <<palmVars, fileVars, sessVars, userVars, localdb>>

(* FastSync asks the Palm for the next modified record.                    *)
NextRemoteFast ==
    /\ pc = "remote" /\ mode = "fast" /\ plan = <<>>
    /\ \E i \in Unread :
          /\ \A j \in Unread : i <= j
          /\ Decide(palm[i], FastNewPlan(palm[i]))
    /\ NoFault
    /\ UNCHANGED <<palmVars, fileVars, sessVars, userVars, localdb, remotedb>>

ReadFails ==
    /\ pc = "remote" /\ mode = "fast" /\ plan = <<>>
    /\ Refused \/ Lost(FALSE)
    /\ Fail
    /\ UNCHANGED <<lastSyncPC, fileVars, userVars, host, mode, opened, workVars>>

RemoteDone ==
    /\ pc = "remote" /\ plan = <<>>
    /\ IF mode = "fast" THEN Unread = {}
       ELSE \A i \in DOMAIN remotedb : remotedb[i].id \in seen
    /\ pc' = "local" /\ li' = 0 /\ rem' = NoRec /\ seen' = {}
    /\ NoFault
    /\ UNCHANGED <<palmVars, fileVars, userVars, host, mode, opened, online, failed,
                   localdb, remotedb, plan>>

-----------------------------------------------------------------------------
(* Second phase: the records of the list that will be written.             *)

LocalPlan(localrec) ==
    CASE mode = "first" -> FirstSyncPlan(localrec)
      [] mode = "slow"  -> IF FindRecordByID(remotedb, localrec.id) # 0 THEN <<>>
                           ELSE SlowLocalPlan(localrec)
      [] mode = "fast"  -> FastLocalPlan(localrec)

NextLocal ==
    /\ pc = "local" /\ plan = <<>> /\ li < Len(localdb)
    /\ li' = li + 1 /\ plan' = LocalPlan(localdb[li + 1])
    /\ NoFault
    /\ UNCHANGED <<palmVars, fileVars, sessVars, userVars, localdb, remotedb, seen, rem>>

LocalDone ==
    /\ pc = "local" /\ plan = <<>> /\ li = Len(localdb)
    /\ pc' = "write" /\ NoFault
    /\ UNCHANGED <<palmVars, fileVars, userVars, host, mode, opened, online, failed, workVars>>

-----------------------------------------------------------------------------
(* The steps of a plan.                                                    *)

Step(step) == plan # <<>> /\ Head(plan) = step
NextStep   == plan' = Tail(plan)

(* archive_record; its result is never looked at.                          *)
ArchiveRecord(data) ==
    \/ NoFault /\ archive' = [archive EXCEPT ![host] = @ \cup {data}]
    \/ Fault("archive") /\ UNCHANGED archive

DoArchive ==
    /\ \/ Step(ArchiveLocal) /\ ArchiveRecord(localdb[li].data)
       \/ Step(ArchiveRemote) /\ ArchiveRecord(rem.data)
    /\ NextStep
    /\ UNCHANGED <<palmVars, backup, sessVars, userVars, localdb, remotedb, seen, rem, li>>

DoClearLocal ==
    /\ Step(ClearLocal)
    /\ localdb' = ClearStatusFlags(localdb, li)
    /\ NextStep /\ NoFault
    /\ UNCHANGED <<palmVars, fileVars, sessVars, userVars, remotedb, seen, rem, li>>

(* The record is freed.  The loop of the second phase saved `next' before. *)
Unlink ==
    /\ localdb' = DeleteRecordByID(localdb, localdb[li].id)
    /\ li' = IF pc = "local" THEN li - 1 ELSE 0

DoDeleteLocal ==
    /\ Step(DeleteLocal)
    /\ Unlink /\ NextStep /\ NoFault
    /\ UNCHANGED <<palmVars, fileVars, sessVars, userVars, remotedb, seen, rem>>

(* Where the code cleans the freed localrec instead of newrec, newrec is   *)
(* cleaned only if the allocator has just handed out the same memory.      *)
DoAppendRemote ==
    /\ \E flags \in SUBSET rem.flags :
          /\ \/ Step(AppendRemote) /\ flags = {}
             \/ Step(AppendUnclean) /\ flags \in {{}, rem.flags}
          /\ localdb' = AppendRecord(localdb, Rec(rem.id, flags, rem.data))
    /\ NextStep /\ NoFault
    /\ UNCHANGED <<palmVars, fileVars, sessVars, userVars, remotedb, seen, rem, li>>

DoInsertRemote ==
    /\ Step(InsertRemote)
    /\ localdb' = InsertRecord(localdb, li, Rec(rem.id, {}, rem.data))
    /\ NextStep /\ NoFault
    /\ UNCHANGED <<palmVars, fileVars, sessVars, userVars, remotedb, seen, rem, li>>

DoDropRemote ==
    /\ Step(DropRemote)
    /\ remotedb' = DeleteRecordByID(remotedb, rem.id)
    /\ NextStep /\ NoFault
    /\ UNCHANGED <<palmVars, fileVars, sessVars, userVars, localdb, seen, rem, li>>

(* What a failed SyncRecord, or a failed call of the second phase, means:  *)
(* SlowSync does not look at SyncRecord's result and goes on to the next   *)
(* record; in all other places the conduit gives up.                       *)
WrongCarryOn == plan' = <<>> /\ UNCHANGED <<pc, failed>>

GiveUp ==
    /\ plan' = <<>>
    /\ IF pc = "remote" /\ mode = "slow" THEN UNCHANGED <<pc, failed>> ELSE Fail

DoDeleteRemote ==
    /\ Step(DeleteRemote)
    /\ \/ online /\ ~opened /\ Remove(rem.id) /\ NextStep /\ NoFault
          /\ UNCHANGED <<nextId, online, pc, failed>>
       \/ (Refused \/ NotWritable) /\ NextStep /\ UNCHANGED <<pc, failed>>
       \/ Lost(Remove(rem.id) /\ UNCHANGED nextId) /\ GiveUp
    /\ UNCHANGED <<lastSyncPC, fileVars, host, mode, opened, userVars, localdb, remotedb, seen,
                   rem, li>>

(* In FastSync's second phase a refusal leaves the record where it is.     *)
DoPurgeLocal ==
    /\ Step(PurgeLocal)
    /\ LET id == localdb[li].id IN
       \/ /\ online /\ ~opened /\ Remove(id) /\ Unlink /\ NextStep /\ NoFault
          /\ UNCHANGED <<nextId, online, pc, failed>>
       \/ (Refused \/ NotWritable) /\ NextStep /\ UNCHANGED <<pc, failed, localdb, li>>
       \/ Lost(Remove(id) /\ UNCHANGED nextId) /\ GiveUp /\ UNCHANGED <<localdb, li>>
    /\ UNCHANGED <<lastSyncPC, fileVars, host, mode, opened, userVars, remotedb, seen, rem>>

Upload(id) ==
    LET data == localdb[li].data IN
    \/ \E newID \in {id, nextId} :
          /\ online /\ ~opened /\ Store(id, data, newID) /\ NextStep /\ NoFault
          /\ localdb' = [localdb EXCEPT ![li].id = newID]
          /\ UNCHANGED <<online, pc, failed>>
    \/ (Refused \/ NotWritable \/ Lost(Stored(id, data))) /\ GiveUp /\ UNCHANGED localdb

DoUpload ==
    /\ \/ Step(UploadLocal) /\ Upload(localdb[li].id)
       \/ Step(UploadAsNew) /\ Upload(0)
    /\ UNCHANGED <<lastSyncPC, fileVars, host, mode, opened, userVars, remotedb, seen, rem, li>>

SyncRecordStep ==
    \/ DoArchive \/ DoClearLocal \/ DoDeleteLocal \/ DoAppendRemote \/ DoInsertRemote
    \/ DoDropRemote \/ DoDeleteRemote \/ DoPurgeLocal \/ DoUpload

-----------------------------------------------------------------------------
(* The end of the three sync functions, and of do_sync.                    *)

WrongWriteUnchecked ==
    /\ pc = "write" /\ pc' = "cleanup"
    /\ \/ NoFault /\ backup' = [backup EXCEPT ![host] = localdb]
       \/ Fault("disk") /\ UNCHANGED backup
    /\ UNCHANGED <<palmVars, archive, host, mode, opened, online, failed, userVars, workVars>>

WriteBackup ==
    /\ pc = "write"
    /\ \/ NoFault /\ backup' = [backup EXCEPT ![host] = localdb]
          /\ pc' = "cleanup" /\ UNCHANGED failed
       \/ Fault("disk") /\ UNCHANGED backup /\ Fail
    /\ UNCHANGED <<palmVars, archive, host, mode, opened, online, userVars, workVars>>

CleanUpDatabase ==
    /\ pc = "cleanup"
    /\ \/ online /\ CleanUp /\ NoFault /\ pc' = "reset"
          /\ UNCHANGED <<nextId, online, failed>>
       \/ (Refused \/ NotWritable \/ Lost(CleanUp /\ UNCHANGED nextId)) /\ Fail
    /\ UNCHANGED <<lastSyncPC, fileVars, host, mode, opened, userVars, workVars>>

ResetSyncFlags ==
    /\ pc = "reset"
    /\ \/ opened /\ NoFault /\ pc' = "userinfo"
          /\ UNCHANGED <<palm, nextId, online, failed>>
       \/ ~opened /\ online /\ ResetFlags /\ NoFault /\ pc' = "userinfo"
          /\ UNCHANGED <<nextId, online, failed>>
       \/ ~opened /\ (Refused \/ Lost(ResetFlags /\ UNCHANGED nextId)) /\ Fail
    /\ UNCHANGED <<lastSyncPC, fileVars, host, mode, opened, userVars, workVars>>

(* conduits_sync carries on after a conduit that failed, unless the        *)
(* connection is gone; the user info is written all the same.              *)
UpdateUserInfo ==
    /\ pc = "userinfo"
    /\ \/ online /\ NoFault /\ lastSyncPC' = host
       \/ online /\ Fault("disconnect") /\ lastSyncPC' \in {lastSyncPC, host}
       \/ ~online /\ NoFault /\ UNCHANGED lastSyncPC
    /\ EndSession
    /\ UNCHANGED <<palm, nextId, fileVars, userVars>>

(* The program dies; only files and the Palm remain.                       *)
Crash ==
    /\ pc # "idle"
    /\ Fault("crash") /\ EndSession
    /\ UNCHANGED <<palmVars, fileVars, userVars>>

-----------------------------------------------------------------------------
SyncStep ==
    \/ Open \/ OpenFails \/ NextRemoteSlow \/ NextRemoteFast \/ ReadFails \/ RemoteDone
    \/ NextLocal \/ LocalDone \/ SyncRecordStep
    \/ WriteBackup \/ CleanUpDatabase \/ ResetSyncFlags \/ UpdateUserInfo

Next ==
    \/ UserStep
    \/ \E h \in Hosts : StartSync(h)
    \/ Cancel \/ SyncStep \/ Crash

Spec == Init /\ [][Next]_vars
FairSpec == Spec /\ WF_vars(SyncStep)

-----------------------------------------------------------------------------
(* Nothing the user wrote, and neither replaced nor expunged, is ever      *)
(* missing from the Palm, the backup files and the archive files together: *)
(* not in the middle of a sync, not after a crash.                         *)
EditsSurvive ==
    wanted \subseteq Contents(palm)
               \cup (UNION {Contents(backup[h]) : h \in {g \in Hosts : backup[g] # NoFile}})
               \cup (UNION {archive[h] : h \in Hosts})

(* The same, as long as nothing has failed.                                *)
FaultlessEditsSurvive == faults = 0 => EditsSurvive

Synced == pc = "userinfo" /\ ~failed

(* A sync that reports success leaves the backup file and the Palm with    *)
(* the same records, under the same IDs.                                   *)
MirrorAfterSync == Synced => Live(backup[host]) = Live(palm)

(* The half of it that a user misses most: whatever is on the Palm is on   *)
(* the desktop, the second version of a record both sides changed included. *)
DesktopHasAll == Synced => Live(palm) \subseteq Live(backup[host])

(* A sync that reports success also leaves no status bit in the file for   *)
(* the next sync to act on.                                                *)
CleanAfterSync == Synced => \A i \in DOMAIN backup[host] : backup[host][i].flags = {}

(* A deletion made on the Palm or in this backup file is not undone.       *)
DeletionsHold ==
    Synced => \A data \in gone[Device] \cup gone[host] :
        \A rec \in Live(palm) \cup Live(backup[host]) : rec[2] # data

(* ... as long as nothing goes wrong on the way: after a failure the next  *)
(* sync meets deletions that one side has made and the other has not.      *)
FaultlessDeletionsHold == faults = 0 => DeletionsHold

(* "The record flags can be trusted": when a fast sync begins, a record    *)
(* that is clean on both sides is the same on both.                        *)
Clean(db) == {<<db[i].id, db[i].data>> : i \in {j \in DOMAIN db : db[j].flags = {}}}
Known(db) == {db[i].id : i \in DOMAIN db}
FlagsTrusted ==
    pc = "open" /\ mode = "fast" =>
        /\ \A rec \in Clean(palm) : rec[1] \in Known(backup[host])
        /\ \A rec \in Clean(backup[host]) : rec[1] \in Known(palm)
        /\ \A r \in Clean(palm), l \in Clean(backup[host]) : r[1] = l[1] => r = l

(* No two records of a backup file share an ID the Palm has assigned.      *)
UniqueIds ==
    \A h \in {g \in Hosts : backup[g] # NoFile} : \A i, j \in DOMAIN backup[h] :
        backup[h][i].id = backup[h][j].id /\ backup[h][i].id # 0 => i = j

(* No step of a plan goes through localrec after localrec has been freed,  *)
(* but for the one that AppendUnclean stands for: whenever a step that     *)
(* needs localrec is still to come, localrec is a record of the list.      *)
LocalrecLive ==
    (\E k \in DOMAIN plan : plan[k] \in LocalrecSteps) => li \in DOMAIN localdb

(* What else holds in every state, for the proofs: a session has a host    *)
(* and a kind of sync, there is a plan only while records are walked, and  *)
(* in a plan nothing that needs localrec comes after a step that frees it. *)
SessionInv ==
    /\ pc # "idle" => host \in Hosts /\ mode # "none"
    /\ pc = "open" /\ mode # "first" => backup[host] # NoFile
    /\ pc \notin {"remote", "local"} => plan = <<>>

FreesLast(p) ==
    \A j, k \in DOMAIN p : j < k /\ p[j] \in FreeingSteps => p[k] \notin LocalrecSteps

Inductive == TypeOK /\ SessionInv /\ FreesLast(plan) /\ LocalrecLive

(* Every sync that starts comes to an end.                                 *)
SyncEnds == pc # "idle" ~> pc = "idle"
=============================================================================
