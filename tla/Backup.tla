------------------------------- MODULE Backup -------------------------------
(***************************************************************************)
(* Copying databases from the Palm to a directory (src/src/backup.c) and   *)
(* back (src/src/restore.c), with the list of databases they go by         *)
(* (src/src/spalm.c).                                                      *)
(***************************************************************************)
EXTENDS Upload

CONSTANTS
    Sorted,   \* the databases with a sort block
    Files,    \* files to restore
    Named,    \* the database in a file
    Version,  \* its version
    Locked    \* files and databases with the read-only attribute

(* A file: the version of the database, whether it is all there, and what  *)
(* stands where its sort block should.                                     *)
Image == [ver : Ver \union {0}, whole : BOOLEAN, sort : {"right", "garbage"}]

ASSUME BackupAssumption ==
    /\ Sorted \subseteq DB /\ None \notin Files \union DB \union Image
    /\ Named \in [Files -> DB] /\ Version \in [Files -> Ver] /\ Locked \subseteq Files \union DB

VARIABLES
    have,   \* have_all_DBs_
    listed, \* the databases in the list, with their versions
    short,  \* ghost: the Palm refused to list databases
    dir,    \* the backup directory
    copy,   \* the database being backed up: where it is, and which
    done    \* ghost: the databases that the log calls backed up

backupVars == <<have, listed, short, dir, copy, done>>

CopySteps   == {"conduit", "open", "download", "twice", "twice again", "close", "write", "drop"}
CopyResults == {"ok", "failed"}
NoCopy == [at |-> "idle", db |-> None]

Empty == [ver |-> 0, whole |-> FALSE, sort |-> "right"]

BackupTypeOK ==
    /\ have \in BOOLEAN /\ listed \in [DB -> Ver \union {None}] /\ short \in BOOLEAN
    /\ dir \in [DB -> Image \union {None}]
    /\ copy \in [at : CopySteps \union CopyResults, db : DB] \union {NoCopy}
    /\ done \subseteq DB

BackupInit ==
    /\ have = FALSE /\ listed = [d \in DB |-> None] /\ short = FALSE
    /\ dir \in [DB -> {[ver |-> v, whole |-> TRUE, sort |-> "right"] : v \in Ver} \union {None}]
    /\ copy = NoCopy /\ done = {}

Listing(S) == [d \in DB |-> IF d \in S THEN palm[d].ver ELSE None]
OnPalm == {d \in DB : palm[d] # None}

(* ListDBs: one request for each database, as module Session has it in     *)
(* detail.  It comes to the whole list; to a part of it when the Palm      *)
(* refuses a request, which is a positive status; or to a failure.         *)
ListDBs ==
    \E o \in Request :
        /\ Take(o)
        /\ CASE o.result = "ok" -> have' = TRUE /\ listed' = Listing(OnPalm) /\ UNCHANGED short
             [] o.result = "refused" ->
                  /\ have' = TRUE /\ short' = TRUE
                  /\ \E S \in SUBSET OnPalm : S # OnPalm /\ listed' = Listing(S)
             [] OTHER -> UNCHANGED <<have, listed, short>>

-----------------------------------------------------------------------------
(* backup                                                                  *)
CopyGoes(step) == copy' = [copy EXCEPT !.at = step]
LeavesFile(f)  == dir' = [dir EXCEPT ![copy.db] = f]

(* The file is created before the Palm is asked for anything, and only if  *)
(* there is none of that name.                                             *)
CreateFile(d) ==
    /\ copy.at = "idle"
    /\ \/ /\ dir[d] = None /\ dir' = [dir EXCEPT ![d] = Empty]
          /\ copy' = [at |-> "conduit", db |-> d] /\ UNCHANGED linkVars
       \/ /\ dir[d] # None /\ copy' = [at |-> "drop", db |-> d]
          /\ UNCHANGED <<dir, linkVars>>
    /\ UNCHANGED <<have, listed, short, done>>

(* va_add_to_log: one more request; its result is not looked at.           *)
LogError ==
    /\ copy.at = "drop" /\ CopyGoes("failed")
    /\ \E o \in Request : Take(o)
    /\ UNCHANGED <<have, listed, short, dir, done>>

(* A cancelled backup takes its file along; after any other error it stays.*)
CopyConduit ==
    /\ copy.at = "conduit"
    /\ \E o \in Requests("ok", {"refused", "cancel"}) :
          /\ Take(o)
          /\ CopyGoes(IF o.result = "ok" THEN "open" ELSE "drop")
          /\ LeavesFile(IF o.result = "cancel" THEN None ELSE Empty)
    /\ UNCHANGED <<have, listed, short, done>>

CopyOpenDB ==
    /\ copy.at = "open"
    /\ \E o \in Requests(IF palm[copy.db] = None THEN "refused" ELSE "ok", {"refused"}) :
          Take(o) /\ CopyGoes(IF o.result = "ok" THEN "download" ELSE "drop")
    /\ UNCHANGED <<have, listed, short, dir, done>>

(* download_database: any number of requests; the Palm may not have one of *)
(* the blocks.  A failure closes the database, and backup does once more.  *)
Download ==
    /\ copy.at = "download"
    /\ \E o \in Request :
          /\ Take(o)
          /\ \/ o.result = "ok" /\ CopyGoes("close")
             \/ o.result \in {"ok", "refused"} /\ UNCHANGED copy
             \/ o.result # "ok" /\ CopyGoes("twice")
    /\ UNCHANGED <<have, listed, short, dir, done>>

CloseFailed ==
    /\ copy.at \in {"twice", "twice again"}
    /\ \E o \in Request : Take(o)
    /\ CopyGoes(IF copy.at = "twice" THEN "twice again" ELSE "drop")
    /\ LeavesFile(IF copy.at = "twice" THEN dir[copy.db] ELSE None)
    /\ UNCHANGED <<have, listed, short, done>>

CloseCopied ==
    /\ copy.at = "close" /\ CopyGoes("write")
    /\ \E o \in Request : Take(o)
    /\ UNCHANGED <<have, listed, short, dir, done>>

(* What download_database has read.  The sort block is copied with the     *)
(* length that the new database has for it, which is still 0.              *)
Downloaded(d) == [ver |-> palm[d].ver, whole |-> palm[d].whole,
                  sort |-> IF d \in Sorted THEN "garbage" ELSE "right"]

(* A mistake: the result of pdb_Write is not looked at.                    *)
WrongWriteFile ==
    /\ copy.at = "write"
    /\ \/ LeavesFile(Downloaded(copy.db)) /\ UNCHANGED linkVars
       \/ \E o \in LocalFailure :
             /\ Take(o)
             /\ LeavesFile([Downloaded(copy.db) EXCEPT !.whole = FALSE])
    /\ CopyGoes("ok") /\ done' = done \union {copy.db}
    /\ UNCHANGED <<have, listed, short>>

(* pdb_Write; a failure leaves as much as has been written.                *)
WriteFile ==
    /\ copy.at = "write"
    /\ \/ /\ LeavesFile(Downloaded(copy.db)) /\ UNCHANGED linkVars
          /\ CopyGoes("ok") /\ done' = done \union {copy.db}
       \/ /\ \E o \in LocalFailure : Take(o)
          /\ \/ LeavesFile([Downloaded(copy.db) EXCEPT !.whole = FALSE])
             \/ LeavesFile(Empty)
          /\ CopyGoes("drop") /\ UNCHANGED done
    /\ UNCHANGED <<have, listed, short>>

CopyStep ==
    \/ LogError \/ CopyConduit \/ CopyOpenDB \/ Download \/ CloseFailed \/ CloseCopied \/ WriteFile

-----------------------------------------------------------------------------
(* A mistake: the list is consulted the wrong way round.                   *)
WrongRestorable(f) ==
    LET d == Named[f]
    IN  /\ f \notin Locked
        /\ IF listed[d] = None THEN status = "up"
           ELSE d \notin Locked /\ Version[f] <= listed[d]

(* is_database_restorable, once there is a list or it could not be had.    *)
Restorable(f) ==
    LET d == Named[f]
    IN  /\ f \notin Locked
        /\ IF listed[d] = None THEN status = "up"
           ELSE d \notin Locked /\ Version[f] >= listed[d]
=============================================================================
