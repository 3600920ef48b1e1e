------------------------------- MODULE Upload -------------------------------
(***************************************************************************)
(* upload_database (src/src/install.c): one database goes to the Palm in a *)
(* series of DLP requests, any of which can be refused, answered late or   *)
(* lost.  Installing and restoring use it.                                 *)
(***************************************************************************)
EXTENDS Link

CONSTANTS
    DB,   \* databases
    Ver,  \* versions, which stand for contents and order modification numbers
    None  \* no database, no file

ASSUME UploadAssumption ==
    Ver \subseteq Nat /\ None \notin Ver \union DB \union [ver : Ver, whole : BOOLEAN]

VARIABLES
    palm,  \* the databases on the Palm
    up     \* the upload in progress: where it is, what, and with which `force'

uploadVars == <<palm, up>>

Content   == [ver : Ver, whole : BOOLEAN]
Whole(v)  == [ver |-> v, whole |-> TRUE]
Part(v)   == [ver |-> v, whole |-> FALSE]

(* The steps of upload_database, and its results: 0, negative, and the     *)
(* positive status that a refused block makes it return.                   *)
UploadSteps   == {"conduit", "create", "open", "empty", "block", "records", "abandon", "close"}
UploadResults == {"ok", "failed", "refused"}
NoUpload == [at |-> "idle", db |-> None, ver |-> None, force |-> FALSE]

UploadTypeOK ==
    /\ palm \in [DB -> Content \union {None}]
    /\ \/ up = NoUpload
       \/ up \in [at : UploadSteps \union UploadResults, db : DB, ver : Ver, force : BOOLEAN]

UploadInit ==
    /\ palm \in [DB -> {Whole(v) : v \in Ver} \union {None}]
    /\ up = NoUpload

BeginUpload(d, v, force) == up' = [at |-> "conduit", db |-> d, ver |-> v, force |-> force]
UploadGoes(step) == up' = [up EXCEPT !.at = step]
Becomes(o, content) == palm' = IF o.done THEN [palm EXCEPT ![up.db] = content] ELSE palm

OpenConduit ==
    /\ up.at = "conduit"
    /\ \E o \in Requests("ok", {"refused", "cancel"}) :
          Take(o) /\ UploadGoes(IF o.result = "ok" THEN "create" ELSE "failed")
    /\ UNCHANGED palm

(* The Palm refuses to create a database it has.  With `force' the one     *)
(* that is there is emptied and filled again.                              *)
CreateDB ==
    /\ up.at = "create"
    /\ \E o \in Requests(IF palm[up.db] = None THEN "ok" ELSE "exists", {"refused"}) :
          /\ Take(o) /\ Becomes(o, Part(up.ver))
          /\ UploadGoes(CASE o.result = "ok" -> "block"
                          [] o.result = "exists" /\ up.force -> "open"
                          [] OTHER -> "failed")

OpenDB ==
    /\ up.at = "open"
    /\ \E o \in Request :
          Take(o) /\ UploadGoes(IF o.result = "ok" THEN "empty" ELSE "failed")
    /\ UNCHANGED palm

DeleteAll ==
    /\ up.at = "empty"
    /\ \E o \in Request :
          /\ Take(o) /\ Becomes(o, Part(up.ver))
          /\ UploadGoes(IF o.result = "ok" THEN "block" ELSE "abandon")

(* The AppInfo block and the sort block, if there are any.  The status of  *)
(* a refusal is returned as it is, with the database open.                 *)
WriteBlock ==
    /\ up.at = "block"
    /\ \/ UploadGoes("records") /\ UNCHANGED linkVars
       \/ \E o \in Request :
             Take(o) /\ UploadGoes(IF o.result = "ok" THEN "records" ELSE o.result)
    /\ UNCHANGED palm

(* A mistake: a refused record is passed over.                             *)
WrongRecords ==
    /\ up.at = "records"
    /\ \E o \in Request :
          /\ Take(o) /\ Becomes(o, Whole(up.ver))
          /\ UploadGoes(IF o.result = "failed" THEN "abandon" ELSE "close")

(* The resources or records; the database is whole after the last of them. *)
WriteRecords ==
    /\ up.at = "records"
    /\ \E o \in Request :
          /\ Take(o) /\ Becomes(o, Whole(up.ver))
          /\ UploadGoes(IF o.result = "ok" THEN "close" ELSE "abandon")

(* CloseDB after a failure; its result is not looked at.                   *)
Abandon ==
    /\ up.at = "abandon"
    /\ \E o \in Request : Take(o)
    /\ UploadGoes("failed") /\ UNCHANGED palm

CloseDB ==
    /\ up.at = "close"
    /\ \E o \in Request : Take(o) /\ UploadGoes(IF o.result = "ok" THEN "ok" ELSE "failed")
    /\ UNCHANGED palm

UploadStep ==
    \/ OpenConduit \/ CreateDB \/ OpenDB \/ DeleteAll
    \/ WriteBlock \/ WriteRecords \/ Abandon \/ CloseDB
=============================================================================
