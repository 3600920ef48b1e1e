------------------------------ MODULE Session ------------------------------
(***************************************************************************)
(* One session with a Palm: do_sync (src/src/sync.c) from the list of the  *)
(* databases to the dump conduits, with the list (src/src/spalm.c), the    *)
(* installation of new databases (src/src/install.c), the attic, the user  *)
(* info and the preference cache.  Every request to the Palm is a step.    *)
(*                                                                         *)
(* What a conduit does to a database is module GenericConduit; here its    *)
(* success makes the backup file equal to the database on the Palm.        *)
(***************************************************************************)
EXTENDS Upload, Pref, FiniteSets

CONSTANTS
    Files,     \* files with databases to install
    Named,     \* the database in a file
    Version,   \* its version
    Homes,     \* what may be on the Palm and in the directories beforehand
    Slots,     \* names for one database in the attic: "name", "name~0", ...
    Filtered,  \* the databases that a non-default Sync conduit is for
    Filters,   \* values of the option filter_dbs
    Firsts,    \* values of the option install_first
    Forces     \* values of the option force_install

Blank == "blank"  \* an entry of the list that was never filled in

Home == [palm : [DB -> {Whole(v) : v \in Ver} \union {None}],
         backup : [DB -> {Whole(v) : v \in Ver} \union {None}],
         attic : [DB -> [1 .. Slots -> {Whole(v) : v \in Ver} \union {None}]]]

ASSUME SessionAssumption ==
    /\ Homes \subseteq Home /\ IsFiniteSet(DB)
    /\ Named \in [Files -> DB] /\ Version \in [Files -> Ver]
    /\ Slots \in Nat \ {0} /\ Filtered \subseteq DB /\ Blank \notin DB
    /\ Filters \subseteq BOOLEAN /\ Firsts \subseteq BOOLEAN /\ Forces \subseteq BOOLEAN
    /\ SAVED \notin DB /\ Prefs \cap (DB \union Files \union {Blank}) = {}

VARIABLES
    stage,    \* where do_sync is
    todo,     \* what the current loop has left
    room,     \* entries of the list not yet filled in
    listed,   \* palm->dblist: the databases, and their modification numbers
    blank,    \* does the list have an entry without a name?
    rescue,   \* the files in the rescue directory
    install,  \* the files in the install directory
    backup,   \* the backup directory
    attic,    \* the attic directory
    recorded, \* does the Palm name this host as the last it was synced with?
    opts,     \* options of the configuration and the command line
    result,   \* what do_sync returns
    short,    \* ghost: the Palm refused to list databases
    unsynced, \* ghost: the databases whose Sync conduit failed
    botched,  \* ghost: the databases whose upload failed
    stray     \* ghost: the preferences asked for after the connection was freed

fileVars  == <<rescue, install, backup, attic>>
listVars  == <<room, listed, blank>>
ghostVars == <<short, unsynced, botched, stray>>
vars == <<linkVars, uploadVars, prefVars, stage, todo, listVars, fileVars,
          recorded, opts, result, ghostVars>>

Stages == {"dirs", "list", "some", "rescue", "conduits", "install", "fetch", "sync", "attic",
           "userinfo", "prefs", "leave", "dump", "done", "crashed"}

TypeOK ==
    /\ LinkTypeOK /\ UploadTypeOK /\ PrefTypeOK
    /\ stage \in Stages
    /\ todo \subseteq DB \union {Blank} \union Files \union Prefs
    /\ room \in Nat /\ listed \in [DB -> Ver \union {None}] /\ blank \in BOOLEAN
    /\ rescue \subseteq Files /\ install \subseteq Files
    /\ backup \in [DB -> Content \union {None}]
    /\ attic \in [DB -> [1 .. Slots -> Content \union {None}]]
    /\ recorded \in BOOLEAN
    /\ opts \in [filter : BOOLEAN, first : BOOLEAN, force : BOOLEAN]
    /\ result \in {"none", "ok", "failed"}
    /\ short \in BOOLEAN /\ unsynced \subseteq DB /\ botched \subseteq DB
    /\ stray \subseteq Prefs

Init ==
    /\ LinkInit /\ UploadInit /\ PrefInit
    /\ \E home \in Homes : palm = home.palm /\ backup = home.backup /\ attic = home.attic
    /\ stage = "dirs" /\ todo = {}
    /\ room = 0 /\ listed = [d \in DB |-> None] /\ blank = FALSE
    /\ rescue \in SUBSET Files /\ install = Files \ rescue
    /\ recorded = FALSE
    /\ opts \in [filter : Filters, first : Firsts, force : Forces]
    /\ result = "none"
    /\ short = FALSE /\ unsynced = {} /\ botched = {} /\ stray = {}

-----------------------------------------------------------------------------
Idle  == up.at = "idle" /\ fetch.at = "idle"
At(s) == stage = s /\ Idle

OnPalm == {d \in DB : palm[d] # None}
Listed == {d \in DB : listed[d] # None} \union IF blank THEN {Blank} ELSE {}

(* Every return before the end goes through palm_Disconnect.               *)
Leave(r) == stage' = "leave" /\ result' = r /\ todo' = {}
Go(s, left) == stage' = s /\ todo' = left /\ UNCHANGED result

(* The directories are made, the cache of preferences is set up and the    *)
(* Palm's last host compared with this one.                                *)
Start ==
    /\ At("dirs")
    /\ \/ /\ IF opts.filter THEN Go("some", Filtered)
             ELSE IF OnPalm # {} THEN Go("list", OnPalm) ELSE Leave("failed")
          /\ room' = Cardinality(OnPalm) /\ UNCHANGED linkVars
       \/ \E o \in LocalFailure : Take(o) /\ Leave("failed") /\ UNCHANGED room
    /\ UNCHANGED <<uploadVars, prefVars, listed, blank, fileVars, recorded, opts, ghostVars>>

(* ListDBs: one DlpReadDBList for each entry.  Its positive results are    *)
(* taken for success: the entry stays blank, or, if it is the first, the   *)
(* flag that says whether there are more is whatever was in memory.        *)
ListStep ==
    /\ At("list") /\ room > 0 /\ todo # {}
    /\ \E o \in Request, d \in todo :
          /\ Take(o)
          /\ CASE o.result = "ok" ->
                    /\ listed' = [listed EXCEPT ![d] = palm[d].ver]
                    /\ room' = room - 1 /\ Go("list", todo \ {d})
                    /\ UNCHANGED <<blank, short>>
               [] o.result = "refused" ->
                    /\ short' = TRUE
                    /\ IF room = Cardinality(OnPalm)
                       THEN \/ Go("list", {}) /\ blank' = TRUE /\ UNCHANGED room
                            \/ UNCHANGED <<stage, todo, result, blank, room>>
                       ELSE Go("list", todo) /\ blank' = TRUE /\ room' = room - 1
                    /\ UNCHANGED listed
               [] OTHER -> Leave("failed") /\ UNCHANGED <<listVars, short>>
    /\ UNCHANGED <<uploadVars, prefVars, fileVars, recorded, opts, unsynced, botched, stray>>

(* With filter_dbs: palm_fetch_some_DBs for each pair of creator and type  *)
(* of the conduits, until the Palm finds no more or anything goes wrong.   *)
FetchSome ==
    /\ At("some") /\ todo # {}
    /\ \E d \in todo :
       \E o \in Requests(IF d \in OnPalm THEN "ok" ELSE "refused", {"refused"}) :
          /\ Take(o)
          /\ listed' = IF o.result = "ok" THEN [listed EXCEPT ![d] = palm[d].ver] ELSE listed
          /\ Go("some", todo \ {d})
          /\ short' = (short \/ (d \in OnPalm /\ o.result # "ok"))
    /\ UNCHANGED <<uploadVars, prefVars, room, blank, fileVars, recorded, opts,
                   unsynced, botched, stray>>

(* A mistake: it stops when there are more, not when there are none.       *)
WrongListDone ==
    /\ \/ At("list") /\ (room < Cardinality(OnPalm) \/ todo = {})
       \/ At("some") /\ todo = {}
    /\ Go("rescue", rescue)
    /\ UNCHANGED <<linkVars, uploadVars, prefVars, listVars, fileVars, recorded, opts, ghostVars>>

ListDone ==
    /\ \/ At("list") /\ (room = 0 \/ todo = {})
       \/ At("some") /\ todo = {}
    /\ Go("rescue", rescue)
    /\ UNCHANGED <<linkVars, uploadVars, prefVars, listVars, fileVars, recorded, opts, ghostVars>>

-----------------------------------------------------------------------------
(* InstallNewFiles, from the rescue directory and the install directory.   *)
Installing == stage \in {"rescue", "install"} /\ fetch.at = "idle"
Forced == stage = "install" /\ opts.force

Newer(f) == listed[Named[f]] # None /\ ~Forced => Version[f] > listed[Named[f]]

(* The next file is no newer than what the list says, or cannot be read.   *)
SkipFile ==
    /\ Installing /\ up.at = "idle"
    /\ \E f \in todo :
          /\ \/ Newer(f) = FALSE /\ UNCHANGED linkVars
             \/ \E o \in LocalFailure : Take(o)
          /\ Go(stage, todo \ {f})
    /\ UNCHANGED <<uploadVars, prefVars, listVars, fileVars, recorded, opts, ghostVars>>

(* A database of that name is deleted first; whether that works is not     *)
(* looked at.                                                              *)
InstallFile ==
    /\ Installing /\ up.at = "idle"
    /\ \E f \in todo :
          /\ Newer(f) = TRUE
          /\ LET d == Named[f] IN
             /\ BeginUpload(d, Version[f], Forced \/ listed[d] # None)
             /\ IF listed[d] # None
                THEN \E o \in Requests(IF d \in OnPalm THEN "ok" ELSE "refused", {"refused"}) :
                        Take(o) /\ palm' = IF o.done THEN [palm EXCEPT ![d] = None] ELSE palm
                ELSE UNCHANGED <<linkVars, palm>>
    /\ UNCHANGED <<prefVars, stage, todo, result, listVars, fileVars, recorded, opts, ghostVars>>

Current == {f \in todo : Named[f] = up.db /\ Version[f] = up.ver}

(* The upload failed: the end for a connection that is lost or cancelled,  *)
(* and the next file otherwise.  The result for the rescue directory is    *)
(* not looked at.                                                          *)
InstallFailed ==
    /\ Installing /\ up.at = "failed"
    /\ \E o \in Request : Take(o)
    /\ \E f \in Current :
          IF cs' \notin {"cancel", "noconn"} THEN Go(stage, todo \ {f})
          ELSE IF stage = "rescue" THEN Go("rescue", {}) ELSE Leave("failed")
    /\ botched' = botched \union {up.db} /\ up' = NoUpload
    /\ UNCHANGED <<palm, prefVars, listVars, fileVars, recorded, opts, short, unsynced, stray>>

(* The upload is taken for done: the list is completed, the file copied to *)
(* the backup directory unless there is one, and deleted.                  *)
Installed ==
    /\ Installing /\ up.at \in {"ok", "refused"}
    /\ listed' = [listed EXCEPT ![up.db] = IF @ = None THEN up.ver ELSE @]
    /\ \E f \in Current :
          /\ Go(stage, todo \ {f})
          /\ \/ /\ backup' = [backup EXCEPT ![up.db] = IF @ = None THEN Whole(up.ver) ELSE @]
                /\ install' = install \ (IF stage = "install" THEN {f} ELSE {})
                /\ \E o \in Request : Take(o)
             \/ /\ backup[up.db] = None
                /\ backup' \in {backup, [backup EXCEPT ![up.db] = Part(up.ver)]}
                /\ \E o \in Request, l \in LocalFailure :
                      o.faults < MaxFaults /\ Take([o EXCEPT !.faults = @ + 1])
                /\ UNCHANGED install
    /\ botched' = IF up.at = "refused" THEN botched \union {up.db} ELSE botched
    /\ up' = NoUpload
    /\ UNCHANGED <<palm, prefVars, room, blank, rescue, attic, recorded, opts,
                   short, unsynced, stray>>

(* What follows the installation, which comes before the sync or after it. *)
InstallDone ==
    /\ Installing /\ up.at = "idle" /\ todo = {}
    /\ IF stage = "rescue" THEN Go(IF opts.first THEN "conduits" ELSE "fetch", {})
       ELSE IF opts.first THEN Go("fetch", {}) ELSE Leave("ok")
    /\ UNCHANGED <<linkVars, uploadVars, prefVars, listVars, fileVars, recorded, opts, ghostVars>>

-----------------------------------------------------------------------------
(* A run of conduits: they may ask the Palm, and may fail on their own.    *)
ConduitRuns == Request \union LocalFailure

InstallConduits ==
    /\ At("conduits")
    /\ \E o \in ConduitRuns :
          /\ Take(o)
          /\ IF o.result = "failed" THEN Leave("failed") ELSE Go("install", install)
    /\ UNCHANGED <<uploadVars, prefVars, listVars, fileVars, recorded, opts, ghostVars>>

FetchConduits ==
    /\ At("fetch")
    /\ \E o \in ConduitRuns :
          /\ Take(o)
          /\ IF o.result = "failed" THEN Leave("failed") ELSE Go("sync", Listed)
    /\ UNCHANGED <<uploadVars, prefVars, listVars, fileVars, recorded, opts, ghostVars>>

(* A mistake: the same database again.                                     *)
WrongCarryOn(d) ==
    /\ unsynced' = unsynced \union ({d} \cap DB)
    /\ IF cs' \in {"cancel", "noconn"} THEN Leave("failed") ELSE Go("sync", todo)

(* conduits_sync, when a conduit has failed.                               *)
CarryOn(d) ==
    /\ unsynced' = unsynced \union ({d} \cap DB)
    /\ IF cs' \in {"cancel", "noconn"} THEN Leave("failed") ELSE Go("sync", todo \ {d})

(* A mistake: the first success ends the loop.                             *)
WrongSyncDb ==
    /\ At("sync")
    /\ \E d \in todo :
       \E o \in Requests(IF d \in OnPalm THEN "ok" ELSE "refused", {"refused"}) \union LocalFailure :
          /\ Take(o)
          /\ IF o.result = "ok"
             THEN /\ backup' = [backup EXCEPT ![d] = palm[d]]
                  /\ Go("sync", {}) /\ UNCHANGED unsynced
             ELSE CarryOn(d) /\ UNCHANGED backup
    /\ UNCHANGED <<uploadVars, prefVars, listVars, rescue, install, attic, recorded, opts,
                   short, botched, stray>>

SyncDb ==
    /\ At("sync")
    /\ \E d \in todo :
       \E o \in Requests(IF d \in OnPalm THEN "ok" ELSE "refused", {"refused"}) \union LocalFailure :
          /\ Take(o)
          /\ IF o.result = "ok"
             THEN /\ backup' = [backup EXCEPT ![d] = palm[d]]
                  /\ Go("sync", todo \ {d}) /\ UNCHANGED unsynced
             ELSE CarryOn(d) /\ UNCHANGED backup
    /\ UNCHANGED <<uploadVars, prefVars, listVars, rescue, install, attic, recorded, opts,
                   short, botched, stray>>

SyncDone ==
    /\ At("sync") /\ todo = {} /\ Go("attic", {d \in DB : backup[d] # None})
    /\ UNCHANGED <<linkVars, uploadVars, prefVars, listVars, fileVars, recorded, opts, ghostVars>>

(* A conduit's header needs a preference: GetPrefItem.                     *)
AskPref ==
    /\ At("fetch") \/ (At("sync") /\ todo # {})
    /\ \E p \in Prefs \ Fetched : BeginFetch(p)
    /\ UNCHANGED <<linkVars, uploadVars, flags, info, stage, todo, listVars, fileVars, recorded, opts,
                   result, ghostVars>>

(* The item is there, or the conduit that needed it does not run.          *)
GotPref ==
    /\ stage \in {"fetch", "sync"} /\ fetch.at \in {"got", "failed"}
    /\ fetch' = NoFetch /\ UNCHANGED linkVars
    /\ IF fetch.at = "got" THEN UNCHANGED <<stage, todo, result, unsynced>>
       ELSE IF stage = "fetch" THEN Leave("failed") /\ UNCHANGED unsynced
       ELSE \E d \in todo : CarryOn(d)
    /\ UNCHANGED <<uploadVars, flags, info, listVars, fileVars, recorded, opts, short, botched, stray>>

-----------------------------------------------------------------------------
(* A mistake: the last name is taken without a look.                       *)
WrongFreeSlots(d) == {s \in 1 .. Slots : attic[d][s] = None} \union {Slots}
FreeSlots(d) == {s \in 1 .. Slots : attic[d][s] = None}
First(slots) == CHOOSE s \in slots : \A t \in slots : s <= t

(* CheckLocalFiles: a file whose database is not in the list goes to the   *)
(* attic, under the first name that is free, or stays if none is.          *)
ToAttic(d) ==
    /\ attic' = [attic EXCEPT ![d][First(FreeSlots(d))] = backup[d]]
    /\ backup' = [backup EXCEPT ![d] = None]

CheckFile ==
    /\ At("attic")
    /\ \E d \in todo :
          \/ /\ IF listed[d] = None /\ FreeSlots(d) # {} THEN ToAttic(d)
                ELSE UNCHANGED <<attic, backup>>
             /\ Go("attic", todo \ {d}) /\ UNCHANGED linkVars
          \/ /\ \E o \in LocalFailure : Take(o)
             /\ IF cs = "noconn" THEN Leave("failed") ELSE Go("attic", {})
             /\ UNCHANGED <<attic, backup>>
    /\ UNCHANGED <<uploadVars, prefVars, listVars, rescue, install, recorded, opts, ghostVars>>

CheckDone ==
    /\ At("attic") /\ todo = {} /\ Go("userinfo", {})
    /\ UNCHANGED <<linkVars, uploadVars, prefVars, listVars, fileVars, recorded, opts, ghostVars>>

UpdateUserInfo ==
    /\ At("userinfo")
    /\ \E o \in Request :
          /\ Take(o) /\ recorded' = (recorded \/ o.done)
          /\ IF o.result = "ok" THEN Go("prefs", Prefs \ Fetched) ELSE Leave("failed")
    /\ UNCHANGED <<uploadVars, prefVars, listVars, fileVars, opts, ghostVars>>

(* What the dump conduits will need is fetched while there is a Palm.      *)
FillPref ==
    /\ At("prefs")
    /\ \E p \in todo : BeginFetch(p) /\ Go("prefs", todo \ {p})
    /\ UNCHANGED <<linkVars, uploadVars, flags, info, listVars, fileVars, recorded, opts, ghostVars>>

FilledPref ==
    /\ stage = "prefs" /\ fetch.at \in {"got", "failed"}
    /\ fetch' = NoFetch
    /\ IF fetch.at = "failed" /\ cs = "noconn" THEN Leave("failed") ELSE Go("prefs", todo)
    /\ UNCHANGED <<linkVars, uploadVars, flags, info, listVars, fileVars, recorded, opts, ghostVars>>

PrefsDone ==
    /\ At("prefs") /\ todo = {}
    /\ IF opts.first THEN Leave("ok") ELSE Go("conduits", {})
    /\ UNCHANGED <<linkVars, uploadVars, prefVars, listVars, fileVars, recorded, opts, ghostVars>>

(* The item's missing information is looked at all the same.               *)
Crash ==
    /\ stage # "crashed" /\ fetch.at = "crashed"
    /\ stage' = "crashed"
    /\ UNCHANGED <<linkVars, uploadVars, prefVars, todo, listVars, fileVars, recorded, opts,
                   result, ghostVars>>

(* palm_Disconnect, or palm_Release before the dump conduits.              *)
Release ==
    /\ At("leave") /\ Disconnect
    /\ stage' = IF result = "ok" THEN "dump" ELSE "done"
    /\ UNCHANGED <<uploadVars, prefVars, todo, listVars, fileVars, recorded, opts, result, ghostVars>>

(* The dump conduits; an item not in the cache is asked for on a           *)
(* connection that has been freed.                                         *)
DumpConduits ==
    /\ At("dump")
    /\ stray' \in SUBSET (Prefs \ Fetched)
    /\ stage' = "done" /\ result' = IF cs = "noerr" THEN "ok" ELSE "failed"
    /\ UNCHANGED <<linkVars, uploadVars, prefVars, todo, listVars, fileVars, recorded, opts,
                   short, unsynced, botched>>

Finished == stage \in {"done", "crashed"} /\ UNCHANGED vars

DoUpload == UploadStep /\ UNCHANGED <<prefVars, stage, todo, listVars, fileVars, recorded, opts,
                                      result, ghostVars>>
DoFetch  == PrefStep /\ UNCHANGED <<uploadVars, stage, todo, listVars, fileVars, recorded, opts,
                                    result, ghostVars>>

Next ==
    \/ Start \/ ListStep \/ FetchSome \/ ListDone
    \/ SkipFile \/ InstallFile \/ DoUpload \/ InstallFailed \/ Installed \/ InstallDone
    \/ InstallConduits \/ FetchConduits \/ SyncDb \/ SyncDone \/ AskPref \/ DoFetch \/ GotPref
    \/ CheckFile \/ CheckDone \/ UpdateUserInfo \/ FillPref \/ FilledPref \/ PrefsDone
    \/ Crash \/ Release \/ DumpConduits \/ Finished

Spec == Init /\ [][Next]_vars

(* The program is one process, and its calls return (module Padp has the   *)
(* exception): it takes its next step.                                     *)
FairSpec == Spec /\ WF_vars(Next)

-----------------------------------------------------------------------------
(* No file is lost: what is deleted from the install directory is whole on *)
(* the Palm, unless the Palm refused a block of it (upload_database's      *)
(* positive result); a backup file changes only in a sync, or moves to the *)
(* attic; and nothing in the attic is overwritten.                         *)
NothingLost ==
    [][/\ \A f \in install \ install' :
             palm[Named[f]] = Whole(Version[f]) \/ up.at = "refused"
       /\ \A d \in DB :
             backup[d] \in {None, backup'[d]} \/ stage = "sync" \/
             \E s \in 1 .. Slots : attic[d][s] = None /\ attic'[d][s] = backup[d]
       /\ \A d \in DB : \A s \in 1 .. Slots : attic[d][s] \in {None, attic'[d][s]}]_vars

(* "If there are any database files in it that aren't installed on the     *)
(* Palm, move them to the attic" (sync.c:58).  A file whose database is    *)
(* whole on the Palm is moved only if the list was filtered, the Palm did  *)
(* not list all it has, or an upload of it was taken for a failure.        *)
AtticOnlyIfGone ==
    [][\A d \in DB : attic'[d] # attic[d] /\ palm[d] \in {Whole(v) : v \in Ver} =>
          opts.filter \/ short \/ d \in botched]_vars

(* When the Palm names this host as the last it was synced with, the next  *)
(* sync here is a fast one, which trusts that the backup is what the Palm  *)
(* has.  It is, but for the databases whose conduit or upload failed, those*)
(* that a filtered or cut list left out, and those installed afterwards    *)
(* over a backup file, which InstallNewFiles leaves to "the conduit ...    *)
(* when the sync continues" (install.c:669).                               *)
InStep ==
    stage = "done" /\ recorded =>
        \A d \in OnPalm :
            \/ backup[d] = palm[d]
            \/ opts.filter \/ short \/ d \in unsynced \union botched
            \/ ~opts.first /\ \E f \in Files \ rescue : Named[f] = d

(* "There might still be pref items that are not yet cached. The dump      *)
(* conduits are going to try to download them ... with a closed connection *)
(* ... we will manually fill the cache here" (sync.c:935): no conduit asks *)
(* for a preference after that.                                            *)
DumpsNeedNoPalm == stray = {}

(* The session ends, whatever fails.                                       *)
SessionEnds == <>(stage \in {"done", "crashed"})
=============================================================================
