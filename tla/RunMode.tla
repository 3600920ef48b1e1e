------------------------------- MODULE RunMode -------------------------------
(***************************************************************************)
(* The run modes of coldsync (src/src/runmode.c): a sync of one user's     *)
(* Palm, a daemon that finds out whose Palm it has, initialization, backup,*)
(* restore, list and info.  What a sync does is module Session; here it is *)
(* the end of the road, with the account it runs under.                    *)
(***************************************************************************)
EXTENDS Lookup, Backup

CONSTANTS
    Modes,   \* the modes to run
    Me,      \* the local user, [name, id]: full name and uid
    Autos,   \* values of the option autoinit
    Nobody   \* no account

VARIABLES
    mode,    \* the mode
    stage,   \* where it is
    todo,    \* what is left to back up or to restore
    auto,    \* the option autoinit
    entry,   \* the entry of /etc/palms that was found, or 0
    block,   \* the PDA block that was found, or 0
    account, \* the account that coldsync runs under
    result,  \* what the mode returns
    misread, \* ghost: the Palm was taken for a blank one for want of an answer
    named    \* ghost: the entry of /etc/palms that the Palm was initialized from

modeVars == <<mode, stage, todo, auto, entry, block, account, result, misread, named>>
vars == <<linkVars, uploadVars, cacheVars, backupVars, modeVars>>

AllModes == {"standalone", "daemon", "init", "backup", "restore", "list", "info"}

(* The stages in which an accessor runs, and which.                        *)
UserStages   == {"auto", "auto match", "again", "match", "block user", "init user"}
SerialStages == {"auto serial", "match serial", "block", "init"}
Stages == UserStages \union SerialStages \union
          {"connect", "auto write", "conduits", "reload", "setuid", "write", "list", "copy",
           "restore", "sync", "leave", "done", "crashed"}

Persons == {[name |-> o.name, id |-> o.id] : o \in Owners}

ASSUME ModeAssumption ==
    /\ Modes \subseteq AllModes /\ Me \in Owners /\ Autos \subseteq BOOLEAN
    /\ \A i \in DOMAIN Palments : [name |-> Palments[i].name, id |-> Palments[i].id] \in Owners
    /\ \A i \in DOMAIN Blocks : \A o \in Owners :
          \A n \in {o.name, Blocks[i].name}, k \in {o.id, Blocks[i].id} :
             NotYet \notin {n, k} => [name |-> n, id |-> k] \in Owners

TypeOK ==
    /\ LinkTypeOK /\ UploadTypeOK /\ CacheTypeOK /\ BackupTypeOK
    /\ mode \in Modes /\ stage \in Stages /\ todo \subseteq DB \union Files
    /\ auto \in BOOLEAN /\ entry \in 0 .. Len(Palments) /\ block \in 0 .. Len(Blocks)
    /\ account \in Accounts \union {Nobody}
    /\ result \in {"none", "ok", "failed"} /\ misread \in BOOLEAN
    /\ named \in 0 .. Len(Palments)

Init ==
    /\ LinkInit /\ CacheInit /\ UploadInit /\ BackupInit
    /\ mode \in Modes /\ stage = "connect" /\ auto \in Autos
    /\ mode # "backup" => dir = [d \in DB |-> None]
    /\ IF mode \in {"standalone", "daemon", "init"} THEN palm = [d \in DB |-> None]
       ELSE owner = Me /\ device = CHOOSE k \in Devices : TRUE
    /\ mode # "daemon" => ~auto
    /\ todo = {} /\ entry = 0 /\ block = 0 /\ account = Nobody /\ result = "none"
    /\ misread = FALSE /\ named = 0

-----------------------------------------------------------------------------
Go(s)    == stage' = s /\ UNCHANGED result
Leave(r) == stage' = "leave" /\ result' = r

Keeps == UNCHANGED <<uploadVars, backupVars, mode, auto>>
Quiet == UNCHANGED linkVars

FirstStage == CASE mode = "standalone" -> "block" [] mode = "daemon" -> "auto"
                [] mode = "init" -> "init" [] mode = "restore" -> "restore"
                [] mode = "info" -> "reload" [] mode \in {"backup", "list"} -> "list"

(* palm_Connect.                                                           *)
Connect ==
    /\ stage = "connect"
    /\ \/ Go(FirstStage) /\ todo' = (IF mode = "restore" THEN Files ELSE {}) /\ Quiet
       \/ /\ \E o \in Request : o.result = "failed" /\ Take([o EXCEPT !.status = "closed"])
          /\ stage' = "done" /\ result' = "failed" /\ UNCHANGED todo
    /\ Keeps /\ UNCHANGED <<cacheVars, entry, block, account, misread, named>>

StartAsk ==
    /\ ask.at = "idle"
    /\ \/ stage \in UserStages /\ AskUser
       \/ stage \in SerialStages /\ AskSerial
       \/ stage = "reload" /\ Reload
    /\ UNCHANGED <<linkVars, uploadVars, backupVars, owner, device, cache, modeVars>>

DoAsk == CacheStep /\ UNCHANGED <<uploadVars, backupVars, modeVars>>

(* An accessor of the stage s has come back with r.                        *)
Back(s, r) == stage = s /\ ask.at = r /\ ask' = NoAsk /\ UNCHANGED <<owner, device, cache>>

(* What an accessor returns after a failure, or what there is: 0 is the    *)
(* user ID of a blank Palm and of a failure.                               *)
UserId == IF ask.at = "fail" THEN 0 ELSE cache.user.id

-----------------------------------------------------------------------------
(* The daemon.  Is the Palm uninitialized?                                 *)
(* A mistake: any Palm that is in /etc/palms.                              *)
WrongBlankPalm ==
    /\ \E r \in {"ok", "fail"} : Back("auto", r)
    /\ IF auto THEN Go("auto match") /\ misread' = (ask.at = "fail")
       ELSE Go("match") /\ UNCHANGED misread
    /\ Quiet /\ Keeps /\ UNCHANGED <<todo, entry, block, account, named>>

BlankPalm ==
    /\ \E r \in {"ok", "fail"} : Back("auto", r)
    /\ IF UserId = 0 /\ auto THEN Go("auto match") /\ misread' = (ask.at = "fail")
       ELSE Go("match") /\ UNCHANGED misread
    /\ Quiet /\ Keeps /\ UNCHANGED <<todo, entry, block, account, named>>

(* lookup_palment: the user info, then the serial number, then /etc/palms. *)
LookupUser ==
    /\ \/ Back("auto match", "ok") /\ Go("auto serial")
       \/ Back("auto match", "fail") /\ Go("conduits")
       \/ Back("match", "ok") /\ Go("match serial")
       \/ Back("match", "fail") /\ Leave("failed")
    /\ Quiet /\ Keeps /\ UNCHANGED <<todo, entry, block, account, misread, named>>

LookupUnique ==
    /\ \E r \in {"ok", "fail"} : Back("auto serial", r)
    /\ LET i == IF ask.at = "fail" THEN 0 ELSE FindUnique(cache.serial)
       IN  entry' = i /\ Go(IF i = 0 THEN "conduits" ELSE "auto write")
    /\ Quiet /\ Keeps /\ UNCHANGED <<todo, block, account, misread, named>>

LookupExact ==
    /\ \E r \in {"ok", "fail"} : Back("match serial", r)
    /\ LET i == IF ask.at = "fail" THEN 0 ELSE FindExact(cache.serial, cache.user)
       IN  entry' = i /\ IF i = 0 \/ ~HasAccount(i) THEN Leave("failed") ELSE Go("setuid")
    /\ Quiet /\ Keeps /\ UNCHANGED <<todo, block, account, misread, named>>

Person(i) == [name |-> Palments[i].name, id |-> Palments[i].id]

(* UpdateUserInfo2; nobody looks at its result.                            *)
AutoInit ==
    /\ stage = "auto write"
    /\ \E o \in Request :
          /\ Take(o)
          /\ owner' = IF o.done THEN Person(entry) ELSE owner
          /\ named' = IF o.done THEN entry ELSE named
    /\ Go("reload")
    /\ Keeps /\ UNCHANGED <<device, cache, ask, todo, entry, block, account, misread>>

(* run_Init_conduits: they may set the user as they like.                  *)
InitConduits ==
    /\ stage = "conduits"
    /\ \E o \in Request \union LocalFailure :
          Take(o) /\ owner' \in IF o.done THEN Owners ELSE {owner}
    /\ Go("reload")
    /\ Keeps /\ UNCHANGED <<device, cache, ask, todo, entry, block, account, misread, named>>

(* palm_reload; nobody looks at its result.                                *)
Reloaded ==
    /\ \E r \in {"ok", "fail"} : Back("reload", r)
    /\ IF mode = "info" THEN Leave("ok") ELSE Go("again")
    /\ Quiet /\ Keeps /\ UNCHANGED <<todo, entry, block, account, misread, named>>

StillBlank ==
    /\ \E r \in {"ok", "fail"} : Back("again", r)
    /\ IF UserId = 0 THEN Leave("failed") ELSE Go("match")
    /\ Quiet /\ Keeps /\ UNCHANGED <<todo, entry, block, account, misread, named>>

(* setuid, and the configuration of that user.                             *)
Setuid ==
    /\ stage = "setuid"
    /\ \/ /\ account' = Palments[entry].luser /\ Go("block") /\ Quiet
       \/ /\ \E o \in LocalFailure : Take(o)
          /\ account' \in {account, Palments[entry].luser} /\ Leave("failed")
    /\ Keeps /\ UNCHANGED <<cacheVars, todo, entry, block, misread, named>>

-----------------------------------------------------------------------------
(* find_pda_block.  After a failure the daemon goes on without a block.    *)
NoBlock == IF mode = "standalone" THEN Leave("failed") ELSE Go("sync")

BlockSerial ==
    /\ \/ /\ Back("block", "ok")
          /\ IF mode = "daemon" /\ \A i \in DOMAIN Blocks : ~Fits(Blocks[i], cache.serial)
             THEN Go("sync") ELSE Go("block user")
       \/ Back("block", "fail") /\ NoBlock
    /\ Quiet /\ Keeps /\ UNCHANGED <<todo, entry, block, account, misread, named>>

(* Whom the Palm should belong to in a standalone sync.                    *)
Wanted(b) == [name |-> IF b = 0 \/ Blocks[b].name = NotYet THEN Me.name ELSE Blocks[b].name,
              id   |-> IF b = 0 \/ Blocks[b].id = NotYet THEN Me.id ELSE Blocks[b].id]

(* A mistake: only the user ID is compared.                                *)
WrongBlockUser ==
    /\ \/ /\ Back("block user", "ok")
          /\ LET b == BlockFor(cache.serial, cache.user) IN
             /\ block' = b
             /\ IF mode = "daemon" \/ cache.user.id = Wanted(b).id THEN Go("sync") ELSE Leave("failed")
       \/ Back("block user", "fail") /\ NoBlock /\ UNCHANGED block
    /\ Quiet /\ Keeps /\ UNCHANGED <<todo, entry, account, misread, named>>

BlockUser ==
    /\ \/ /\ Back("block user", "ok")
          /\ LET b == BlockFor(cache.serial, cache.user) IN
             /\ block' = b
             /\ IF mode = "daemon" \/ cache.user = Wanted(b) THEN Go("sync") ELSE Leave("failed")
       \/ Back("block user", "fail") /\ NoBlock /\ UNCHANGED block
    /\ Quiet /\ Keeps /\ UNCHANGED <<todo, entry, account, misread, named>>

-----------------------------------------------------------------------------
(* Initialization: the block of the serial number, whatever user it names. *)
InitBlock ==
    /\ \/ Back("init", "ok") /\ block' = BlockForSerial(cache.serial) /\ Go("init user")
       \/ Back("init", "fail") /\ Leave("failed") /\ UNCHANGED block
    /\ Quiet /\ Keeps /\ UNCHANGED <<todo, entry, account, misread, named>>

(* "If the Palm already has non-default values for anything and the        *)
(* .coldsyncrc doesn't, then don't clobber" (runmode.c:472).               *)
MayWrite(user, b) ==
    /\ user.name # NoName /\ (b = 0 \/ Blocks[b].name = NotYet) => user.name = Me.name
    /\ user.id # 0 /\ (b = 0 \/ Blocks[b].id = NotYet) => user.id = Me.id

InitUser ==
    /\ \/ Back("init user", "ok") /\ IF MayWrite(cache.user, block) THEN Go("write") ELSE Leave("ok")
       \/ Back("init user", "fail") /\ Leave("failed")
    /\ Quiet /\ Keeps /\ UNCHANGED <<todo, entry, block, account, misread, named>>

(* UpdateUserInfo2.  Then the block is looked at, whether there is one or  *)
(* not.                                                                    *)
WriteUser ==
    /\ stage = "write"
    /\ \E o \in Request :
          /\ Take(o)
          /\ owner' = IF o.done THEN Wanted(block) ELSE owner
          /\ IF o.result # "ok" THEN Leave("failed")
             ELSE IF block = 0 THEN Go("crashed") ELSE Leave("ok")
    /\ Keeps /\ UNCHANGED <<device, cache, ask, todo, entry, block, account, misread, named>>

-----------------------------------------------------------------------------
(* The list of databases, for a full backup and for the mode that prints it*)
List ==
    /\ stage = "list" /\ ListDBs
    /\ IF ~have' THEN Leave(IF mode = "backup" /\ cs' # "noconn" THEN "ok" ELSE "failed") /\ UNCHANGED todo
       ELSE IF mode = "backup" THEN Go("copy") /\ todo' = {d \in DB : listed'[d] # None}
       ELSE Leave("ok") /\ UNCHANGED todo
    /\ UNCHANGED <<uploadVars, cacheVars, dir, copy, done, mode, auto, entry, block, account,
                   misread, named>>

BackUp ==
    /\ stage = "copy" /\ \E d \in todo : CreateFile(d)
    /\ UNCHANGED <<uploadVars, cacheVars, modeVars>>

DoCopy == CopyStep /\ UNCHANGED <<uploadVars, cacheVars, modeVars>>

(* A mistake: a database that failed is tried again.                       *)
WrongBackedUp ==
    /\ copy.at \in CopyResults /\ copy' = NoCopy
    /\ IF copy.at = "failed" /\ cs = "noconn" THEN Leave("failed") /\ UNCHANGED todo
       ELSE IF copy.at = "failed" THEN Go("copy") /\ UNCHANGED todo
       ELSE Go("copy") /\ todo' = todo \ {copy.db}
    /\ UNCHANGED <<linkVars, uploadVars, cacheVars, have, listed, short, dir, done, mode, auto,
                   entry, block, account, misread, named>>

(* The next database, unless the Palm is lost or has cancelled; then too   *)
(* the log is uploaded.                                                    *)
BackedUp ==
    /\ copy.at \in CopyResults /\ copy' = NoCopy
    /\ IF copy.at = "failed" /\ cs = "noconn" THEN Leave("failed") /\ UNCHANGED todo
       ELSE IF copy.at = "failed" /\ cs = "cancel" THEN Leave("ok") /\ UNCHANGED todo
       ELSE Go("copy") /\ todo' = todo \ {copy.db}
    /\ UNCHANGED <<linkVars, uploadVars, cacheVars, have, listed, short, dir, done, mode, auto,
                   entry, block, account, misread, named>>

-----------------------------------------------------------------------------
Restoring == stage = "restore" /\ up.at = "idle"

(* palm_find_dbentry gets the list for the first file, and again for each  *)
(* file as long as it cannot be had; then the file is uploaded all the same*)
(* if the connection is not marked.                                        *)
FindList ==
    /\ Restoring /\ ~have /\ ListDBs
    /\ IF have' THEN UNCHANGED <<todo, up>>
       ELSE \E f \in todo \ Locked :
               /\ todo' = todo \ {f}
               /\ IF status' = "up" THEN BeginUpload(Named[f], Version[f], TRUE) ELSE up' = up
    /\ UNCHANGED <<palm, cacheVars, dir, copy, done, mode, stage, auto, entry, block,
                   account, result, misread, named>>

(* Once there is a list: the file is uploaded, or the log says that it     *)
(* cannot be restored.                                                     *)
RestoreFile ==
    /\ Restoring
    /\ \E f \in todo :
          /\ todo' = todo \ {f}
          /\ \/ /\ have /\ Restorable(f) /\ BeginUpload(Named[f], Version[f], TRUE) /\ Quiet
             \/ /\ IF have THEN ~Restorable(f) ELSE f \in Locked
                /\ up' = up /\ \E o \in Request : Take(o)
    /\ UNCHANGED <<palm, cacheVars, backupVars, mode, stage, auto, entry, block, account, result,
                   misread, named>>

(* A file that cannot be read: the end for one that was named on the       *)
(* command line, and for one in a directory if the Palm is gone as well.   *)
Unreadable ==
    /\ Restoring /\ \E o \in LocalFailure : Take(o)
    /\ \E f \in todo : todo' = todo \ {f}
    /\ CASE cs = "cancel" -> Leave("ok") [] cs = "noconn" -> Leave("failed")
         [] OTHER -> Go("restore") \/ Leave("failed")
    /\ UNCHANGED <<uploadVars, cacheVars, backupVars, mode, auto, entry, block, account, misread,
                   named>>

DoUpload == UploadStep /\ UNCHANGED <<cacheVars, backupVars, modeVars>>

Restored ==
    /\ up.at \in UploadResults /\ up' = NoUpload
    /\ \/ /\ up.at = "failed" /\ cs = "noconn" /\ Leave("failed") /\ Quiet
       \/ /\ up.at = "failed" /\ cs = "cancel" /\ Leave("ok")
          /\ \E o \in Request : Take(o)
       \/ /\ up.at # "failed" \/ cs \notin {"noconn", "cancel"}
          /\ UNCHANGED <<stage, result>> /\ \E o \in Request : Take(o)
    /\ UNCHANGED <<palm, cacheVars, backupVars, mode, todo, auto, entry, block, account,
                   misread, named>>

AllDone ==
    /\ \/ stage = "copy" /\ copy.at = "idle" /\ todo = {}
       \/ Restoring /\ todo = {}
    /\ Leave("ok")
    /\ Quiet /\ Keeps /\ UNCHANGED <<cacheVars, todo, entry, block, account, misread, named>>

-----------------------------------------------------------------------------
Crash ==
    /\ ask.at = "crashed" /\ stage # "crashed" /\ Go("crashed")
    /\ Quiet /\ Keeps /\ UNCHANGED <<cacheVars, todo, entry, block, account, misread, named>>

Close ==
    /\ stage = "leave" /\ Disconnect /\ Go("done")
    /\ Keeps /\ UNCHANGED <<cacheVars, todo, entry, block, account, misread, named>>

Finished == stage \in {"sync", "done", "crashed"} /\ UNCHANGED vars

Next ==
    \/ Connect \/ StartAsk \/ DoAsk
    \/ BlankPalm \/ LookupUser \/ LookupUnique \/ LookupExact \/ AutoInit \/ InitConduits
    \/ Reloaded \/ StillBlank \/ Setuid \/ BlockSerial \/ BlockUser
    \/ InitBlock \/ InitUser \/ WriteUser
    \/ List \/ BackUp \/ DoCopy \/ BackedUp
    \/ FindList \/ RestoreFile \/ Unreadable \/ DoUpload \/ Restored \/ AllDone
    \/ Crash \/ Close \/ Finished

Spec == Init /\ [][Next]_vars

(* One process, whose calls return; no loop runs for ever, because a       *)
(* database has a number of records.                                       *)
FairSpec == Spec /\ WF_vars(Next)

-----------------------------------------------------------------------------
(* A sync that starts is that of the Palm's user: in standalone mode the   *)
(* one that the configuration names, and in a daemon one whose entry in    *)
(* /etc/palms fits, with the account of that entry.  What is compared is   *)
(* the cache, and the Palm may have been given a user since it was read.   *)
(* The exception is a Palm that was taken for a blank one because its user *)
(* ID could not be read.                                                   *)
SyncsRightUser ==
    stage = "sync" /\ ~misread =>
        IF mode = "standalone" THEN owner = Wanted(block)
        ELSE LET e == Palments[entry]
             IN  MatchUser(e, owner) /\ MatchId(e, owner) /\ account = e.luser

(* "Check if this palm is uninitialized and if autoinit is true"           *)
(* (runmode.c:787): the daemon does not take a Palm from its user, with    *)
(* the same exception.                                                     *)
AutoinitOnlyBlank ==
    [][mode = "daemon" /\ owner' # owner => (auto /\ owner.id = 0) \/ misread]_vars

(* "Autoinitialization of serial-number-retrievable devices in daemon      *)
(* mode" (NEWS:13): a Palm gets the user of an entry in /etc/palms only    *)
(* for its serial number.                                                  *)
AutoinitBySerial ==
    named # 0 => device.serial # NoSerial /\ Palments[named].serial = device.serial

(* What the log calls backed up is whole, and as the Palm had it.          *)
BackupsWhole ==
    \A d \in done : dir[d].whole /\ dir[d].ver = palm[d].ver

(* "Make a copy of the sort block" (backup.c:184).                         *)
SortBlocksKept == \A d \in done : dir[d].sort = "right"

(* "It's always a bad idea to overwrite a with an older version of a       *)
(* database" (restore.c:109): no database that the Palm listed is older    *)
(* after a restore than it was.                                            *)
NoDowngrade == \A d \in DB : palm[d] # None /\ listed[d] # None => palm[d].ver >= listed[d]

(* Every mode comes to an end.                                             *)
ModeEnds == <>(stage \in {"sync", "done", "crashed"})
=============================================================================
