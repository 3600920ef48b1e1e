---------------------------- MODULE RunModeProofs ----------------------------
(***************************************************************************)
(* What holds of the run modes for every set of users, Palms, entries of   *)
(* /etc/palms, PDA blocks, databases and files, and any number of          *)
(* failures: a sync is that of the Palm's user, a backup is whole, and a   *)
(* restore makes nothing older.                                            *)
(***************************************************************************)
EXTENDS RunMode, FiniteSets, WellFoundedInduction, TLAPS

(* Which mode each stage belongs to.                                       *)
AutoStages == {"auto match", "auto serial", "auto write", "conduits"}
ModeOK ==
    /\ stage \in AutoStages \union {"auto", "again", "match", "match serial", "setuid"} => mode = "daemon"
    /\ stage = "reload" => mode \in {"daemon", "info"}
    /\ stage \in {"block", "block user", "sync"} => mode \in {"standalone", "daemon"}
    /\ stage \in {"init", "init user", "write"} => mode = "init"
    /\ stage = "list" => mode \in {"backup", "list"}
    /\ stage = "copy" => mode = "backup" /\ todo \subseteq DB
    /\ stage = "restore" => mode = "restore" /\ todo \subseteq Files

(* The accessor that runs is the one of the stage; each has steps of its   *)
(* own, and the one for the user does not come back without a user.        *)
SerialSteps == {"sys", "none", "token", "move", "blank", "feature", "card", "ok", "fail", "crashed"}
ReloadSteps == {"sys", "user", "netsync", "ok", "fail"}
AskShape ==
    /\ \/ ask = NoAsk
       \/ ask \in [at : {"user", "ok", "fail"}, want : {"user"}]
       \/ ask \in [at : SerialSteps, want : {"serial"}]
       \/ ask \in [at : ReloadSteps, want : {"reload"}]
    /\ ask.want = "user" /\ ask.at = "ok" => cache.user # NotYet
AskPlace ==
    /\ ask.want = "user" => stage \in UserStages
    /\ ask.want = "serial" => stage \in SerialStages \union {"crashed"}
    /\ ask.want = "reload" => stage = "reload"

(* The cache has the user that the Palm names, or what was in memory in    *)
(* place of an empty name.                                                 *)
Agrees(user, o) == user.id = o.id /\ (user.name = o.name \/ (o.name = NoName /\ user.name = Garbage))
Fresh == cache.user # NotYet => Agrees(cache.user, owner)

(* A standalone sync never changes the user; a daemon does when the Palm   *)
(* was blank, and goes on only with a user ID read after that.             *)
FreshOK ==
    /\ mode = "standalone" => Fresh
    /\ mode = "daemon" /\ ~misread /\ stage \notin {"leave", "done", "crashed"} =>
          \/ Fresh
          \/ stage \in {"reload", "again"} /\ cache.user # NotYet /\ cache.user.id = 0
    /\ mode = "daemon" /\ ~misread /\ stage \in {"reload", "again"} => cache.user # NotYet
    /\ stage \in AutoStages => auto /\ (misread \/ (cache.user # NotYet /\ owner.id = 0))
    /\ stage \in {"connect", "auto"} => ~misread
    /\ stage = "match serial" => cache.user # NotYet

(* The entry that was found fits, and so does the account.                 *)
MatchOK ==
    /\ stage = "auto write" => entry \in DOMAIN Palments
    /\ stage \in {"setuid", "block", "block user", "sync"} /\ mode = "daemon" =>
          /\ entry \in DOMAIN Palments /\ HasAccount(entry)
          /\ misread \/ (MatchUser(Palments[entry], owner) /\ MatchId(Palments[entry], owner))
    /\ stage \in {"block", "block user", "sync"} /\ mode = "daemon" => account = Palments[entry].luser
    /\ stage = "sync" /\ mode = "standalone" => owner = Wanted(block)

(* A backup changes nothing on the Palm, and a file of the log is not      *)
(* touched again.                                                          *)
Reading == {"download", "twice", "twice again", "close", "write"}
BackupOK ==
    /\ mode # "restore" => up = NoUpload /\ \A d \in DB : palm[d] # None => palm[d].whole
    /\ mode # "backup" => done = {}
    /\ copy # NoCopy => stage = "copy"
    /\ copy.at \in Reading \union {"conduit", "open"} => copy.db \notin done
    /\ copy.at \in Reading => palm[copy.db] # None
    /\ \A d \in done : dir[d] # None /\ palm[d] # None
    /\ BackupsWhole

(* What is being restored is not older than what the list has.             *)
RestoreOK ==
    /\ up # NoUpload => stage = "restore"
    /\ ~have => \A d \in DB : listed[d] = None
    /\ up # NoUpload /\ listed[up.db] # None => up.ver >= listed[up.db]
    /\ NoDowngrade

(* TypeOK without the parts of the other modules.                          *)
OwnTypeOK ==
    /\ mode \in Modes /\ stage \in Stages /\ todo \subseteq DB \union Files
    /\ auto \in BOOLEAN /\ entry \in 0 .. Len(Palments) /\ block \in 0 .. Len(Blocks)
    /\ account \in Accounts \union {Nobody}
    /\ result \in {"none", "ok", "failed"} /\ misread \in BOOLEAN
    /\ named \in 0 .. Len(Palments)

Types == LinkTypeOK /\ UploadTypeOK /\ CacheTypeOK /\ BackupTypeOK /\ OwnTypeOK
WhoOK == AskShape /\ AskPlace /\ FreshOK /\ MatchOK
IInv  == Types /\ ModeOK /\ WhoOK /\ BackupOK /\ RestoreOK

-----------------------------------------------------------------------------
(* What a request can come to.                                             *)
Kinds == {"ok", "refused", "exists", "cancel"}

(* A fault that is left to happen.                                         *)
LEMMA OneMore ==
    ASSUME LinkTypeOK
    PROVE  faults + 0 \in 0 .. MaxFaults /\ (faults # MaxFaults => faults + 1 \in 0 .. MaxFaults)
BY LinkAssumption DEF LinkTypeOK

LEMMA ErrorTypes ==
    ASSUME NEW c \in CSErrno, NEW e
    PROVE  AfterPconn(e, c) \in CSErrno /\ AfterDlp(e, c) \in CSErrno
BY DEF AfterPconn, AfterDlp, CSErrno

LEMMA RequestFacts ==
    ASSUME LinkTypeOK, NEW s \in Kinds, NEW others \in SUBSET (Kinds \ {"ok"}),
           NEW o \in Requests(s, others)
    PROVE  /\ o \in Outcome
           /\ o.result \in {s, "failed"} \union others
           /\ o.done => s = "ok" /\ o.result \in {"ok", "failed"}
           /\ o.result = "ok" => o.done
           /\ o.result = "failed" => o.wire = "down"
           /\ wire = "down" => o.wire = "down"
<1>0. /\ wire \in {"up", "down"} /\ status \in Statuses /\ cs \in CSErrno /\ "lost" \in Statuses
      /\ \A a \in {s} \union others : a \in {"ok", "refused", "exists", "cancel", "failed"}
  BY DEF LinkTypeOK, Statuses, Kinds
<1>1. ASSUME NEW e \in Errors, NEW did \in BOOLEAN, NEW cost \in {0, 1}, o = NoAnswer(e, did, cost),
             cost = 1 => faults # MaxFaults, did => s = "ok"
      PROVE  /\ o \in Outcome /\ o.result = "failed" /\ o.wire = "down"
             /\ o.done => s = "ok"
  <2>1. AfterPconn(e, cs) \in CSErrno /\ faults + cost \in 0 .. MaxFaults
    BY <1>0, <1>1, OneMore, ErrorTypes
  <2> QED
    BY <1>0, <1>1, <2>1 DEF NoAnswer, Outcome
<1>2. ASSUME NEW a \in {s} \union others, NEW cost \in {0, 1}, o = Answer(a, cost),
             cost = 1 => faults # MaxFaults, wire = "up", a = "ok" => s = "ok"
      PROVE  /\ o \in Outcome /\ o.result = a /\ o.wire = "up"
             /\ (o.done <=> a = "ok")
  <2>1. AfterDlp(a, cs) \in CSErrno /\ faults + cost \in 0 .. MaxFaults
    BY <1>0, <1>2, OneMore, ErrorTypes
  <2> QED
    BY <1>0, <1>2, <2>1 DEF Answer, Outcome
<1>3. ASSUME o = Late(s), faults # MaxFaults, wire = "up"
      PROVE  /\ o \in Outcome /\ o.result = s /\ o.wire = "up"
             /\ (o.done <=> s = "ok")
  <2>1. AfterDlp(s, AfterPconn("timeout", cs)) \in CSErrno /\ faults + 1 \in 0 .. MaxFaults
    BY <1>0, <1>3, OneMore, ErrorTypes
  <2> QED
    BY <1>0, <1>3, <2>1 DEF Late, Outcome
<1>4. CASE wire = "down"
  <2>1. \E e \in Errors, did \in BOOLEAN : o = NoAnswer(e, did, 0) /\ ~did
    BY <1>4 DEF Requests, NoAnswer
  <2> QED
    BY <1>1, <1>4, <2>1
<1>5. CASE wire # "down"
  <2>1. wire = "up" /\ (s = "ok") \in BOOLEAN
    BY <1>0, <1>5
  <2>2. \/ o = Answer(s, 0)
        \/ /\ faults # MaxFaults
           /\ \/ o = Late(s)
              \/ \E a \in others : o = Answer(a, 1)
              \/ \E e \in Errors : o = NoAnswer(e, FALSE, 1) \/ o = NoAnswer(e, s = "ok", 1)
    BY <1>5 DEF Requests, NoAnswer, Answer, Late
  <2>3. CASE o = Answer(s, 0)
    BY <1>2, <1>5, <2>1, <2>3 DEF Kinds
  <2>4. CASE faults # MaxFaults /\ o = Late(s)
    BY <1>3, <1>5, <2>1, <2>4 DEF Kinds
  <2>5. ASSUME faults # MaxFaults, NEW a \in others, o = Answer(a, 1)
        PROVE  /\ o \in Outcome /\ o.result = a /\ o.wire = "up" /\ ~o.done
    BY <1>2, <2>1, <2>5
  <2>6. ASSUME faults # MaxFaults, NEW e \in Errors,
               o = NoAnswer(e, FALSE, 1) \/ o = NoAnswer(e, s = "ok", 1)
        PROVE  /\ o \in Outcome /\ o.result = "failed" /\ o.wire = "down" /\ (o.done => s = "ok")
    BY <1>1, <2>1, <2>6
  <2> QED
    BY <1>5, <2>2, <2>3, <2>4, <2>5, <2>6 DEF Kinds
<1> QED
  BY <1>4, <1>5

LEMMA PlainFacts ==
    ASSUME LinkTypeOK, NEW o \in Request
    PROVE  /\ o \in Outcome
           /\ o.result \in {"ok", "refused", "failed"}
           /\ o.done => o.result \in {"ok", "failed"}
           /\ o.result = "ok" => o.done
           /\ o.result = "failed" => o.wire = "down"
           /\ wire = "down" => o.wire = "down"
BY RequestFacts DEF Request, Kinds

LEMMA LocalFacts ==
    ASSUME LinkTypeOK, NEW o \in LocalFailure
    PROVE  o \in Outcome /\ o.result = "failed" /\ o.wire = wire /\ faults # MaxFaults
<1>1. faults # MaxFaults
  BY DEF LocalFailure
<1>2. o = [result |-> "failed", done |-> FALSE, wire |-> wire, status |-> status,
           cs |-> cs, faults |-> faults + 1]
  BY DEF LocalFailure
<1> QED
  BY <1>1, <1>2, OneMore DEF LinkTypeOK, Outcome

(* The connection never comes up again.                                    *)
LEMMA TakeFacts ==
    ASSUME LinkTypeOK, NEW o \in Outcome, Take(o)
    PROVE  LinkTypeOK' /\ wire' = o.wire
BY DEF Take, Outcome, LinkTypeOK

(* There is a first among natural numbers.                                 *)
LEMMA Least ==
    ASSUME NEW T \in SUBSET Nat, T # {}
    PROVE  \E s \in T : \A t \in T : s <= t
<1>1. PICK R : R = OpToRel(<, Nat)
  OBVIOUS
<1>2. IsWellFoundedOn(R, Nat)
  BY <1>1, NatLessThanWellFounded
<1>3. PICK s \in T : \A t \in T : ~ (<<t, s>> \in R)
  BY <1>2, WFMin
<1>4. \A t \in T : t < s => <<t, s>> \in R
  BY <1>1 DEF OpToRel
<1>5. \A t \in T : ~ (t < s)
  BY <1>3, <1>4
<1> QED
  BY <1>5

-----------------------------------------------------------------------------
(* Whatever is asked of the Palm leaves the types of the link as they are. *)
LEMMA AskedPalm ==
    ASSUME IInv, NEW o \in Request, Take(o)
    PROVE  LinkTypeOK' /\ o.result \in {"ok", "refused", "failed"}
BY PlainFacts, TakeFacts DEF IInv, Types

LEMMA FailedHere ==
    ASSUME IInv, NEW o \in LocalFailure, Take(o)
    PROVE  LinkTypeOK'
BY LocalFacts, TakeFacts DEF IInv, Types

LEMMA SameLink ==
    ASSUME IInv, UNCHANGED linkVars
    PROVE  LinkTypeOK'
BY DEF IInv, Types, LinkTypeOK, linkVars

(* What is read of the user of a Palm agrees with what the Palm has.       *)
LEMMA ReadFacts ==
    ASSUME NEW o \in Owners, NEW user \in Read(o)
    PROVE  user \in Users /\ user # NotYet /\ Agrees(user, o)
<1>1. o = [name |-> o.name, id |-> o.id]
  BY CacheAssumption
<1>2. PICK n \in {o.name, Garbage} : user = [o EXCEPT !.name = n] /\ (n = o.name \/ (n = Garbage /\ o.name = NoName))
  BY DEF Read
<1>3. user = [name |-> n, id |-> o.id]
  BY <1>1, <1>2
<1>4. user \in Users
  BY <1>2, <1>3 DEF Users
<1> QED
  BY <1>2, <1>3, <1>4, CacheAssumption DEF Agrees

(* A step of an accessor.                                                  *)
Accesses ==
    /\ UNCHANGED <<owner, device>>
    /\ cache' \in [sys : BOOLEAN, netsync : BOOLEAN,
                   user : Users \union {NotYet}, serial : Serials \union {Garbage, NotYet}]
    /\ \/ cache'.user = cache.user
       \/ cache'.user # NotYet /\ Agrees(cache'.user, owner)
    /\ ask' # NoAsk /\ ask'.want = ask.want
    /\ AskShape'

(* The steps by the accessor they belong to.                               *)
LEMMA AskSteps1 ==
    ASSUME AskShape
    PROVE  /\ ask.at = "sys" => ask.want \in {"serial", "reload"}
           /\ ask.at = "user" => ask.want \in {"user", "reload"}
           /\ ask.at = "netsync" => ask.want = "reload"
           /\ ask.at \in SerialSteps \ {"sys", "ok", "fail"} => ask.want = "serial"
           /\ ask.at # "idle" => ask # NoAsk /\ ask \in [at : AskSteps, want : Wants]
BY DEF AskShape, SerialSteps, ReloadSteps, NoAsk, AskSteps, Wants

LEMMA SerialAccess ==
    ASSUME CacheTypeOK, AskShape, UNCHANGED <<owner, device>>, ask.want = "serial", ask # NoAsk,
           NEW at \in SerialSteps, AskGoes(at),
           NEW snum \in Serials \union {Garbage, NotYet}, cache' = [cache EXCEPT !.serial = snum]
    PROVE  Accesses
<1>1. ask' = [at |-> at, want |-> "serial"]
  BY DEF AskGoes, AskShape, NoAsk
<1>2. cache'.user = cache.user
  BY DEF CacheTypeOK
<1> QED
  BY <1>1, <1>2 DEF CacheTypeOK, Accesses, AskShape, NoAsk

LEMMA SameSerial ==
    ASSUME CacheTypeOK
    PROVE  cache = [cache EXCEPT !.serial = cache.serial] /\ cache.serial \in Serials \union {Garbage, NotYet}
BY DEF CacheTypeOK

LEMMA UnreadFacts ==
    ASSUME CacheTypeOK, AskShape, UNCHANGED <<owner, device>>, ask.want = "serial", ask # NoAsk,
           NEW o, Unread(o)
    PROVE  Accesses
<1>1. "fail" \in SerialSteps /\ "crashed" \in SerialSteps /\ "ok" \in SerialSteps
  BY DEF SerialSteps
<1>2. CASE UNCHANGED cache
  <2>1. PICK at \in SerialSteps : AskGoes(at)
    BY <1>1 DEF Unread
  <2> QED
    BY <1>2, <2>1, SameSerial, SerialAccess
<1>3. CASE cache' = [cache EXCEPT !.serial = Garbage] /\ AskGoes("ok")
  BY <1>1, <1>3, SerialAccess
<1> QED
  BY <1>2, <1>3 DEF Unread

LEMMA HaveSerialFacts ==
    ASSUME CacheTypeOK, AskShape, UNCHANGED <<owner, device>>, ask.want = "serial", ask # NoAsk,
           NEW snum \in Serials, HaveSerial(snum)
    PROVE  Accesses
<1>1. PICK at \in {"feature", "ok"} : AskGoes(at)
  BY DEF HaveSerial
<1>2. at \in SerialSteps
  BY DEF SerialSteps
<1> QED
  BY <1>1, <1>2, SerialAccess DEF HaveSerial

LEMMA CacheLink == ASSUME IInv, CacheStep PROVE LinkTypeOK'
<1>1. LinkTypeOK
  BY DEF IInv, Types
<1>2. CASE FetchSysinfo \/ FetchUserinfo \/ RDLP_ROMToken \/ RDLP_MemMove \/ ExpCardInfo
  BY <1>2, AskedPalm DEF FetchSysinfo, FetchUserinfo, RDLP_ROMToken, RDLP_MemMove, ExpCardInfo
<1>3. CASE FetchNetsyncinfo
  <2>1. PICK o \in Requests("ok", {"exists", "refused"}) : Take(o)
    BY <1>3 DEF FetchNetsyncinfo
  <2>2. "ok" \in Kinds /\ {"exists", "refused"} \in SUBSET (Kinds \ {"ok"})
    BY DEF Kinds
  <2> QED
    BY <1>1, <2>1, <2>2, RequestFacts, TakeFacts
<1>4. CASE NoSerialNumber
  BY <1>4, SameLink DEF NoSerialNumber
<1>5. CASE ReadFeature
  BY <1>5, AskedPalm, SameLink DEF ReadFeature
<1> QED
  BY <1>2, <1>3, <1>4, <1>5 DEF CacheStep

LEMMA CacheFacts == ASSUME IInv, CacheStep PROVE Accesses
<1>1. CacheTypeOK /\ AskShape /\ owner \in Owners
  BY DEF IInv, Types, WhoOK, CacheTypeOK
<1>2. device \in Devices /\ NoSerial \in Serials /\ device.serial \in Serials /\ device.card \in Serials
  BY <1>1, CacheAssumption DEF CacheTypeOK
<1>3. UNCHANGED <<owner, device>>
  BY DEF CacheStep, FetchSysinfo, FetchUserinfo, FetchNetsyncinfo, NoSerialNumber, RDLP_ROMToken,
     RDLP_MemMove, ReadFeature, ExpCardInfo
<1>4. CASE FetchSysinfo
  <2>1. PICK o : /\ cache' = [cache EXCEPT !.sys = @ \/ o.result = "ok"]
                 /\ AskGoes(IF o.result # "ok" THEN "fail"
                            ELSE IF ask.want = "serial" THEN SerialStep ELSE "user")
    BY <1>4 DEF FetchSysinfo
  <2>2. ask.want \in {"serial", "reload"} /\ ask # NoAsk
    BY <1>1, <1>4, AskSteps1 DEF FetchSysinfo
  <2>3. PICK at : /\ AskGoes(at) /\ (ask.want = "serial" => at \in {"fail", "token", "none"})
                  /\ (ask.want = "reload" => at \in {"fail", "user"})
    BY <2>1, <2>2 DEF SerialStep
  <2>4. ask' = [at |-> at, want |-> ask.want]
    BY <1>1, <2>2, <2>3, AskSteps1 DEF AskGoes, AskShape, NoAsk
  <2>5. AskShape' /\ ask' # NoAsk
    BY <2>2, <2>3, <2>4 DEF AskShape, NoAsk, SerialSteps, ReloadSteps
  <2>6. /\ cache' \in [sys : BOOLEAN, netsync : BOOLEAN,
                       user : Users \union {NotYet}, serial : Serials \union {Garbage, NotYet}]
        /\ cache'.user = cache.user
    BY <1>1, <2>1 DEF CacheTypeOK
  <2> QED
    BY <1>3, <2>4, <2>5, <2>6 DEF Accesses
<1>5. CASE FetchUserinfo
  <2>1. PICK o \in Request, user \in Read(owner) :
          /\ cache' = [cache EXCEPT !.user = IF o.result = "ok" THEN user ELSE @]
          /\ AskGoes(IF o.result # "ok" THEN "fail"
                     ELSE IF ask.want = "reload" THEN "netsync" ELSE "ok")
    BY <1>5 DEF FetchUserinfo
  <2>2. ask.want \in {"user", "reload"} /\ ask # NoAsk
    BY <1>1, <1>5, AskSteps1 DEF FetchUserinfo
  <2>3. user \in Users /\ user # NotYet /\ Agrees(user, owner)
    BY <1>1, <2>1, ReadFacts
  <2>4. PICK at : /\ AskGoes(at) /\ at \in {"fail", "ok", "netsync"} /\ (at = "netsync" => ask.want = "reload")
                  /\ (at = "ok" => ask.want = "user" /\ o.result = "ok")
    BY <2>1, <2>2
  <2>5. ask' = [at |-> at, want |-> ask.want]
    BY <1>1, <2>2, <2>4, AskSteps1 DEF AskGoes, AskShape, NoAsk
  <2>6. /\ cache' \in [sys : BOOLEAN, netsync : BOOLEAN,
                       user : Users \union {NotYet}, serial : Serials \union {Garbage, NotYet}]
        /\ cache'.user = IF o.result = "ok" THEN user ELSE cache.user
    BY <1>1, <2>1, <2>3 DEF CacheTypeOK
  <2>7. AskShape' /\ ask' # NoAsk
    BY <2>2, <2>3, <2>4, <2>5, <2>6 DEF AskShape, NoAsk, ReloadSteps
  <2> QED
    BY <1>3, <2>3, <2>5, <2>6, <2>7 DEF Accesses
<1>6. CASE FetchNetsyncinfo
  <2>1. PICK o : /\ cache' = [cache EXCEPT !.netsync = @ \/ o.result \in {"ok", "exists"}]
                 /\ AskGoes(IF o.result \in {"ok", "exists"} THEN "ok" ELSE "fail")
    BY <1>6 DEF FetchNetsyncinfo
  <2>2. ask.want = "reload" /\ ask # NoAsk
    BY <1>1, <1>6, AskSteps1 DEF FetchNetsyncinfo
  <2>3. PICK at \in {"ok", "fail"} : AskGoes(at)
    BY <2>1
  <2>4. ask' = [at |-> at, want |-> "reload"]
    BY <1>1, <2>2, <2>3, AskSteps1 DEF AskGoes, AskShape, NoAsk
  <2>5. AskShape' /\ ask' # NoAsk
    BY <2>3, <2>4 DEF AskShape, NoAsk, ReloadSteps
  <2>6. /\ cache' \in [sys : BOOLEAN, netsync : BOOLEAN,
                       user : Users \union {NotYet}, serial : Serials \union {Garbage, NotYet}]
        /\ cache'.user = cache.user
    BY <1>1, <2>1 DEF CacheTypeOK
  <2> QED
    BY <1>3, <2>2, <2>4, <2>5, <2>6 DEF Accesses
<1>7. ask.at \in SerialSteps \ {"sys", "ok", "fail"} => ask.want = "serial" /\ ask # NoAsk
  BY <1>1, AskSteps1 DEF SerialSteps
<1>8. CASE NoSerialNumber
  BY <1>1, <1>2, <1>3, <1>7, <1>8, HaveSerialFacts DEF NoSerialNumber, SerialSteps
<1>9. CASE RDLP_ROMToken
  <2>1. ask.want = "serial" /\ ask # NoAsk
    BY <1>7, <1>9 DEF RDLP_ROMToken, SerialSteps
  <2>2. PICK o : \/ UNCHANGED cache /\ AskGoes(IF o.result = "ok" THEN "move" ELSE "blank")
                 \/ Unread(o)
    BY <1>9 DEF RDLP_ROMToken
  <2>3. CASE Unread(o)
    BY <1>1, <1>3, <2>1, <2>3, UnreadFacts
  <2>4. CASE UNCHANGED cache /\ AskGoes(IF o.result = "ok" THEN "move" ELSE "blank")
    <3>1. PICK at \in SerialSteps : AskGoes(at)
      BY <2>4 DEF SerialSteps
    <3> QED
      BY <1>1, <1>3, <2>1, <2>4, <3>1, SameSerial, SerialAccess
  <2> QED
    BY <2>2, <2>3, <2>4
<1>10. CASE RDLP_MemMove
  <2>1. ask.want = "serial" /\ ask # NoAsk
    BY <1>7, <1>10 DEF RDLP_MemMove, SerialSteps
  <2>2. PICK o : \/ HaveSerial(IF ask.at = "move" /\ o.result = "ok" THEN device.serial ELSE NoSerial)
                 \/ Unread(o)
    BY <1>10 DEF RDLP_MemMove
  <2>3. CASE Unread(o)
    BY <1>1, <1>3, <2>1, <2>3, UnreadFacts
  <2>4. CASE HaveSerial(IF ask.at = "move" /\ o.result = "ok" THEN device.serial ELSE NoSerial)
    <3>1. PICK snum \in Serials : HaveSerial(snum)
      BY <1>2, <2>4
    <3> QED
      BY <1>1, <1>3, <2>1, <3>1, HaveSerialFacts
  <2> QED
    BY <2>2, <2>3, <2>4
<1>11. CASE ReadFeature
  <2>1. ask.want = "serial" /\ ask # NoAsk /\ UNCHANGED cache
    BY <1>7, <1>11 DEF ReadFeature, SerialSteps
  <2>2. PICK at \in SerialSteps : AskGoes(at)
    BY <1>11 DEF ReadFeature, SerialSteps
  <2> QED
    BY <1>1, <1>3, <2>1, <2>2, SameSerial, SerialAccess
<1>12. CASE ExpCardInfo
  <2>1. ask.want = "serial" /\ ask # NoAsk /\ "ok" \in SerialSteps /\ AskGoes("ok")
    BY <1>7, <1>12 DEF ExpCardInfo, SerialSteps
  <2>2. PICK snum \in Serials : cache' = [cache EXCEPT !.serial = snum]
    BY <1>2, <1>12 DEF ExpCardInfo
  <2> QED
    BY <1>1, <1>3, <2>1, <2>2, SerialAccess
<1> QED
  BY <1>4, <1>5, <1>6, <1>8, <1>9, <1>10, <1>11, <1>12 DEF CacheStep

-----------------------------------------------------------------------------
(* What finds out whose Palm it is touches no database and no file.        *)
LEMMA WhoStep ==
    ASSUME IInv, UNCHANGED <<uploadVars, backupVars, mode>>, stage \notin {"copy", "restore"}
    PROVE  UploadTypeOK' /\ BackupTypeOK' /\ BackupOK' /\ RestoreOK'
<1>1. copy = NoCopy /\ up = NoUpload
  BY DEF IInv, BackupOK, RestoreOK
<1>2. UploadTypeOK' /\ BackupTypeOK'
  BY DEF IInv, Types, UploadTypeOK, BackupTypeOK, uploadVars, backupVars
<1>3. BackupOK' /\ RestoreOK'
  BY <1>1 DEF IInv, BackupOK, RestoreOK, BackupsWhole, NoDowngrade, Reading, uploadVars, backupVars
<1> QED
  BY <1>2, <1>3

LEMMA BackFacts ==
    ASSUME IInv, NEW s, NEW r \in {"ok", "fail"}, Back(s, r)
    PROVE  /\ CacheTypeOK' /\ AskShape' /\ AskPlace' /\ UNCHANGED <<owner, cache>>
           /\ stage = s /\ ask.at = r /\ (s \in UserStages /\ r = "ok" => cache.user # NotYet)
<1>1. stage = s /\ ask.at = r /\ ask' = NoAsk /\ UNCHANGED <<owner, device, cache>>
  BY DEF Back
<1>2. CacheTypeOK' /\ AskShape' /\ AskPlace'
  BY <1>1 DEF IInv, Types, CacheTypeOK, AskShape, AskPlace, NoAsk, AskSteps, Wants
<1>3. stage \in UserStages => ask.want = "user"
  <2>1. ask # NoAsk
    BY <1>1 DEF NoAsk
  <2>2. ask.want \in {"user", "serial", "reload"}
    BY <2>1 DEF IInv, WhoOK, AskShape
  <2> QED
    BY <2>2 DEF IInv, WhoOK, AskPlace, UserStages, SerialStages
<1> QED
  BY <1>1, <1>2, <1>3 DEF IInv, WhoOK, AskShape

(* The steps between two accessors, where nothing is known that was not    *)
(* known before.                                                           *)
LEMMA BetweenAccessors ==
    ASSUME IInv, NEW s, NEW r \in {"ok", "fail"}, Back(s, r), Quiet, Keeps,
           stage \notin {"copy", "restore"},
           UNCHANGED <<todo, account, named>>, OwnTypeOK', ModeOK', FreshOK', MatchOK'
    PROVE  IInv'
<1>1. LinkTypeOK' /\ UploadTypeOK' /\ BackupTypeOK' /\ BackupOK' /\ RestoreOK'
  BY SameLink, WhoStep DEF Quiet, Keeps
<1> QED
  BY <1>1, BackFacts DEF IInv, Types, WhoOK

LEMMA IdAgrees ==
    ASSUME IInv, Fresh, cache.user # NotYet
    PROVE  cache.user.id = owner.id
BY DEF Fresh, Agrees

LEMMA BlankPalmOK == ASSUME IInv, BlankPalm PROVE IInv'
<1>1. PICK r \in {"ok", "fail"} : Back("auto", r)
  BY DEF BlankPalm
<1>2. /\ stage = "auto" /\ mode = "daemon" /\ UNCHANGED <<owner, cache>> /\ ask.at = r
      /\ (r = "ok" => cache.user # NotYet) /\ misread \in BOOLEAN /\ auto \in BOOLEAN
  BY <1>1, BackFacts DEF UserStages, IInv, ModeOK, Types, OwnTypeOK
<1>3. \/ /\ UserId = 0 /\ auto /\ Go("auto match") /\ misread' = (ask.at = "fail")
      \/ Go("match") /\ UNCHANGED misread
  BY DEF BlankPalm
<1>4. Quiet /\ Keeps /\ UNCHANGED <<todo, entry, block, account, named>>
  BY DEF BlankPalm
<1>5. OwnTypeOK'
  BY <1>2, <1>3, <1>4 DEF IInv, Types, OwnTypeOK, Stages, UserStages, Go, Keeps
<1>6. ModeOK' /\ MatchOK'
  BY <1>2, <1>3, <1>4 DEF ModeOK, MatchOK, AutoStages, Go, Keeps
<1>7. FreshOK'
  <2>1. Fresh /\ ~misread
    BY <1>2 DEF IInv, WhoOK, FreshOK
  <2>2. CASE Go("match") /\ UNCHANGED misread
    BY <1>2, <1>4, <2>1, <2>2 DEF FreshOK, Fresh, Go, Keeps, AutoStages
  <2>3. CASE UserId = 0 /\ auto /\ Go("auto match") /\ misread' = (ask.at = "fail")
    <3>1. misread' \/ (cache.user # NotYet /\ owner.id = 0)
      <4>1. CASE r = "fail"
        BY <1>2, <2>3, <4>1
      <4>2. CASE r = "ok"
        BY <1>2, <2>1, <2>3, <4>2, IdAgrees DEF UserId
      <4> QED
        BY <4>1, <4>2
    <3>2. Fresh' /\ stage' = "auto match" /\ auto' /\ mode' = "daemon"
      BY <1>2, <1>4, <2>1, <2>3 DEF Fresh, Go, Keeps
    <3> QED
      BY <1>2, <3>1, <3>2 DEF FreshOK
  <2> QED
    BY <1>3, <2>2, <2>3
<1> QED
  BY <1>1, <1>2, <1>4, <1>5, <1>6, <1>7, BetweenAccessors

-----------------------------------------------------------------------------
(* What a lookup finds.                                                    *)
LEMMA Positions ==
    /\ Len(Palments) \in Nat /\ DOMAIN Palments = 1 .. Len(Palments)
    /\ Len(Blocks) \in Nat /\ DOMAIN Blocks = 1 .. Len(Blocks)
BY LookupAssumption

LEMMA FirstFacts ==
    ASSUME NEW S \in SUBSET Nat
    PROVE  FirstOf(S) \in S \union {0} /\ (S # {} => FirstOf(S) \in S)
BY Least DEF FirstOf

LEMMA FindBlockFacts ==
    ASSUME NEW fitting \in SUBSET DOMAIN Blocks
    PROVE  FindBlock(fitting) \in 0 .. Len(Blocks)
<1> DEFINE firm == {i \in fitting : ~Blocks[i].default}
<1>1. firm \in SUBSET Nat /\ \A i \in fitting : i \in 1 .. Len(Blocks)
  BY Positions
<1>2. CASE firm # {}
  BY <1>1, <1>2, FirstFacts, Positions DEF FindBlock
<1>3. CASE firm = {} /\ fitting = {}
  BY <1>3, Positions DEF FindBlock
<1>4. CASE firm = {} /\ fitting # {}
  <2> DEFINE T == {Len(Blocks) - i : i \in fitting}
  <2>1. T \in SUBSET Nat /\ T # {}
    BY <1>1, <1>4, Positions
  <2> HIDE DEF T
  <2>2. PICK s \in T : \A t \in T : s <= t
    BY <2>1, Least
  <2>3. PICK i \in fitting : s = Len(Blocks) - i
    BY DEF T
  <2>4. ASSUME NEW j \in fitting PROVE j <= i
    <3>1. s <= Len(Blocks) - j
      BY <2>2 DEF T
    <3>2. i \in Nat /\ j \in Nat /\ Len(Blocks) \in Nat
      BY <1>1, Positions
    <3> QED
      BY <2>3, <3>1, <3>2
  <2>5. (CHOOSE k \in fitting : \A j \in fitting : j <= k) \in fitting
    BY <2>3, <2>4
  <2> QED
    <3>1. FindBlock(fitting) = CHOOSE k \in fitting : \A j \in fitting : j <= k
      BY <1>4 DEF FindBlock
    <3> QED
      BY <1>1, <2>5, <3>1, Positions
<1> QED
  BY <1>2, <1>3, <1>4

LEMMA BlockFacts ==
    ASSUME NEW snum, NEW user
    PROVE  BlockFor(snum, user) \in 0 .. Len(Blocks) /\ BlockForSerial(snum) \in 0 .. Len(Blocks)
BY FindBlockFacts DEF BlockFor, BlockForSerial

LEMMA ExactFacts ==
    ASSUME NEW snum, NEW user
    PROVE  /\ FindExact(snum, user) \in 0 .. Len(Palments)
           /\ FindExact(snum, user) # 0 =>
                 /\ FindExact(snum, user) \in DOMAIN Palments
                 /\ MatchUser(Palments[FindExact(snum, user)], user)
                 /\ MatchId(Palments[FindExact(snum, user)], user)
<1> DEFINE S == {i \in DOMAIN Palments : LET e == Palments[i] IN
                   /\ e.serial \in Wildcards \/ MatchSerial(e, snum)
                   /\ MatchUser(e, user) /\ MatchId(e, user)}
<1>1. S \in SUBSET Nat /\ S \subseteq 1 .. Len(Palments)
  BY Positions
<1>2. FindExact(snum, user) = FirstOf(S)
  BY DEF FindExact
<1>3. FirstOf(S) \in S \union {0}
  BY <1>1, FirstFacts
<1>4. PICK i : i = FindExact(snum, user) /\ i \in S \union {0}
  BY <1>2, <1>3
<1>5. i \in 0 .. Len(Palments)
  BY <1>1, <1>4, Positions
<1>6. i # 0 => i \in DOMAIN Palments /\ MatchUser(Palments[i], user) /\ MatchId(Palments[i], user)
  BY <1>4
<1> QED
  BY <1>4, <1>5, <1>6

LEMMA UniqueFacts ==
    /\ FindUnique(cache.serial) \in 0 .. Len(Palments)
    /\ FindUnique(cache.serial) # 0 =>
          /\ FindUnique(cache.serial) \in DOMAIN Palments /\ Unique
          /\ MatchSerial(Palments[FindUnique(cache.serial)], cache.serial)
<1> DEFINE S == {i \in DOMAIN Palments : Unique /\ MatchSerial(Palments[i], cache.serial)}
<1>1. S \in SUBSET Nat /\ S \subseteq 1 .. Len(Palments)
  BY Positions
<1>2. FindUnique(cache.serial) = FirstOf(S)
  BY DEF FindUnique
<1>3. FirstOf(S) \in S \union {0}
  BY <1>1, FirstFacts
<1> QED
  BY <1>1, <1>2, <1>3, Positions

(* What is in memory by chance is no name of an entry or a block.          *)
LEMMA PersonFacts ==
    ASSUME NEW i \in DOMAIN Palments
    PROVE  Person(i) \in Owners /\ Palments[i].name # Garbage
<1>1. [name |-> Palments[i].name, id |-> Palments[i].id] \in Owners
  BY ModeAssumption
<1> QED
  BY <1>1, CacheAssumption DEF Person

LEMMA WantedFacts ==
    ASSUME NEW b \in 0 .. Len(Blocks)
    PROVE  Wanted(b) \in Owners /\ Wanted(b).name # Garbage
           /\ Wanted(b) = [name |-> Wanted(b).name, id |-> Wanted(b).id]
<1>1. Me \in Owners /\ Me = [name |-> Me.name, id |-> Me.id] /\ NotYet \notin {Me.name, Me.id}
  BY ModeAssumption, CacheAssumption
<1>2. Wanted(b) \in Owners
  <2>1. CASE b = 0
    BY <1>1, <2>1 DEF Wanted
  <2>2. CASE b # 0
    <3>1. b \in DOMAIN Blocks
      BY <2>2, Positions
    <3>2. \A n \in {Me.name, Blocks[b].name}, k \in {Me.id, Blocks[b].id} :
             NotYet \notin {n, k} => [name |-> n, id |-> k] \in Owners
      BY <1>1, <3>1, ModeAssumption
    <3>3. PICK n \in {Me.name, Blocks[b].name}, k \in {Me.id, Blocks[b].id} :
             Wanted(b) = [name |-> n, id |-> k] /\ NotYet \notin {n, k}
      BY <1>1 DEF Wanted
    <3> QED
      BY <3>2, <3>3
  <2> QED
    BY <2>1, <2>2
<1> QED
  BY <1>2, CacheAssumption

LEMMA MatchTransfer ==
    ASSUME NEW i \in DOMAIN Palments, NEW user, NEW o, Agrees(user, o),
           MatchUser(Palments[i], user), MatchId(Palments[i], user)
    PROVE  MatchUser(Palments[i], o) /\ MatchId(Palments[i], o)
BY PersonFacts DEF Agrees, MatchUser, MatchId, Wildcards

-----------------------------------------------------------------------------
LEMMA LookupUserOK == ASSUME IInv, LookupUser PROVE IInv'
<1>1. PICK s \in {"auto match", "match"}, r \in {"ok", "fail"} : Back(s, r)
  BY DEF LookupUser
<1>2. /\ stage = s /\ mode = "daemon" /\ UNCHANGED <<owner, cache>>
      /\ misread \in BOOLEAN /\ auto \in BOOLEAN /\ (r = "ok" => cache.user # NotYet) /\ ask.at = r
  BY <1>1, BackFacts DEF UserStages, AutoStages, IInv, ModeOK, Types, OwnTypeOK
<1>3. /\ \/ s = "auto match" /\ Go("auto serial")
         \/ s = "auto match" /\ Go("conduits")
         \/ s = "match" /\ Go("match serial") /\ cache.user # NotYet
         \/ s = "match" /\ Leave("failed")
      /\ Quiet /\ Keeps /\ UNCHANGED <<todo, entry, block, account, misread, named>>
  BY <1>2 DEF LookupUser, Back
<1>4. OwnTypeOK'
  BY <1>2, <1>3 DEF IInv, Types, OwnTypeOK, Stages, SerialStages, Go, Leave, Keeps
<1>5. ModeOK' /\ MatchOK'
  BY <1>2, <1>3 DEF ModeOK, MatchOK, AutoStages, Go, Leave, Keeps
<1>6. FreshOK'
  <2>1. misread \/ Fresh
    BY <1>2 DEF IInv, WhoOK, FreshOK
  <2>2. s = "auto match" => auto /\ (misread \/ (cache.user # NotYet /\ owner.id = 0))
    BY <1>2 DEF IInv, WhoOK, FreshOK, AutoStages
  <2> QED
    BY <1>2, <1>3, <2>1, <2>2 DEF FreshOK, Fresh, Go, Leave, Keeps, AutoStages
<1> QED
  BY <1>1, <1>2, <1>3, <1>4, <1>5, <1>6, BetweenAccessors

LEMMA LookupUniqueOK == ASSUME IInv, LookupUnique PROVE IInv'
<1>1. PICK r \in {"ok", "fail"} : Back("auto serial", r)
  BY DEF LookupUnique
<1>2. /\ stage = "auto serial" /\ mode = "daemon" /\ UNCHANGED <<owner, cache>>
      /\ misread \in BOOLEAN /\ auto \in BOOLEAN
  BY <1>1, BackFacts DEF AutoStages, IInv, ModeOK, Types, OwnTypeOK
<1>3. PICK i : /\ i = IF ask.at = "fail" THEN 0 ELSE FindUnique(cache.serial)
               /\ entry' = i /\ Go(IF i = 0 THEN "conduits" ELSE "auto write")
               /\ Quiet /\ Keeps /\ UNCHANGED <<todo, block, account, misread, named>>
  BY DEF LookupUnique
<1>4. i \in 0 .. Len(Palments) /\ (i # 0 => i \in DOMAIN Palments)
  <2>1. CASE ask.at = "fail"
    BY <1>3, <2>1, Positions
  <2>2. CASE i = FindUnique(cache.serial)
    BY <2>2, UniqueFacts
  <2> QED
    BY <1>3, <2>1, <2>2
<1>5. OwnTypeOK'
  BY <1>2, <1>3, <1>4 DEF IInv, Types, OwnTypeOK, Stages, Go, Keeps
<1>6. ModeOK' /\ MatchOK'
  BY <1>2, <1>3, <1>4 DEF ModeOK, MatchOK, AutoStages, Go, Keeps
<1>7. FreshOK'
  <2>1. misread \/ Fresh
    BY <1>2 DEF IInv, WhoOK, FreshOK
  <2>2. auto /\ (misread \/ (cache.user # NotYet /\ owner.id = 0))
    BY <1>2 DEF IInv, WhoOK, FreshOK, AutoStages
  <2> QED
    BY <1>2, <1>3, <2>1, <2>2 DEF FreshOK, Fresh, Go, Keeps, AutoStages
<1> QED
  BY <1>1, <1>2, <1>3, <1>5, <1>6, <1>7, BetweenAccessors

LEMMA LookupExactOK == ASSUME IInv, LookupExact PROVE IInv'
<1>1. PICK r \in {"ok", "fail"} : Back("match serial", r)
  BY DEF LookupExact
<1>2. /\ stage = "match serial" /\ mode = "daemon" /\ UNCHANGED <<owner, cache>>
      /\ misread \in BOOLEAN /\ auto \in BOOLEAN
  BY <1>1, BackFacts DEF IInv, ModeOK, Types, OwnTypeOK
<1>0. (misread \/ Fresh) /\ cache.user # NotYet
  BY <1>2 DEF IInv, WhoOK, FreshOK
<1>3. PICK i : /\ i = IF ask.at = "fail" THEN 0 ELSE FindExact(cache.serial, cache.user)
               /\ entry' = i /\ IF i = 0 \/ ~HasAccount(i) THEN Leave("failed") ELSE Go("setuid")
               /\ Quiet /\ Keeps /\ UNCHANGED <<todo, block, account, misread, named>>
  BY DEF LookupExact
<1>4. /\ i \in 0 .. Len(Palments)
      /\ i # 0 => i \in DOMAIN Palments /\ MatchUser(Palments[i], cache.user) /\ MatchId(Palments[i], cache.user)
  BY <1>3, ExactFacts, Positions
<1>5. OwnTypeOK'
  BY <1>2, <1>3, <1>4 DEF IInv, Types, OwnTypeOK, Stages, Go, Leave, Keeps
<1>6. ModeOK'
  BY <1>2, <1>3, <1>4 DEF ModeOK, AutoStages, Go, Leave, Keeps
<1>7. MatchOK'
  <2>1. CASE Leave("failed")
    BY <2>1 DEF MatchOK, Leave
  <2>2. CASE Go("setuid") /\ i # 0 /\ HasAccount(i)
    <3>2. misread \/ (MatchUser(Palments[i], owner) /\ MatchId(Palments[i], owner))
      BY <1>0, <1>4, <2>2, MatchTransfer DEF Fresh
    <3> QED
      BY <1>2, <1>3, <1>4, <2>2, <3>2 DEF MatchOK, Go
  <2> QED
    BY <1>3, <2>1, <2>2
<1>8. FreshOK'
  BY <1>0, <1>2, <1>3 DEF FreshOK, Fresh, Go, Leave, Keeps, AutoStages
<1> QED
  BY <1>1, <1>2, <1>3, <1>5, <1>6, <1>7, <1>8, BetweenAccessors

LEMMA ReloadedOK == ASSUME IInv, Reloaded PROVE IInv'
<1>1. PICK r \in {"ok", "fail"} : Back("reload", r)
  BY DEF Reloaded
<1>2. /\ stage = "reload" /\ mode \in {"daemon", "info"} /\ UNCHANGED <<owner, cache>>
      /\ misread \in BOOLEAN /\ auto \in BOOLEAN
  BY <1>1, BackFacts DEF IInv, ModeOK, Types, OwnTypeOK
<1>3. /\ IF mode = "info" THEN Leave("ok") ELSE Go("again")
      /\ Quiet /\ Keeps /\ UNCHANGED <<todo, entry, block, account, misread, named>>
  BY DEF Reloaded
<1>4. OwnTypeOK'
  BY <1>2, <1>3 DEF IInv, Types, OwnTypeOK, Stages, UserStages, Go, Leave, Keeps
<1>5. ModeOK' /\ MatchOK'
  BY <1>2, <1>3 DEF ModeOK, MatchOK, AutoStages, Go, Leave, Keeps
<1>6. FreshOK'
  BY <1>2, <1>3 DEF IInv, WhoOK, FreshOK, Fresh, Go, Leave, Keeps, AutoStages
<1> QED
  BY <1>1, <1>2, <1>3, <1>4, <1>5, <1>6, BetweenAccessors

LEMMA StillBlankOK == ASSUME IInv, StillBlank PROVE IInv'
<1>1. PICK r \in {"ok", "fail"} : Back("again", r)
  BY DEF StillBlank
<1>2. /\ stage = "again" /\ mode = "daemon" /\ UNCHANGED <<owner, cache>> /\ ask.at = r
      /\ misread \in BOOLEAN /\ auto \in BOOLEAN
  BY <1>1, BackFacts DEF IInv, ModeOK, Types, OwnTypeOK
<1>3. /\ IF UserId = 0 THEN Leave("failed") ELSE Go("match")
      /\ Quiet /\ Keeps /\ UNCHANGED <<todo, entry, block, account, misread, named>>
  BY DEF StillBlank
<1>4. OwnTypeOK'
  BY <1>2, <1>3 DEF IInv, Types, OwnTypeOK, Stages, UserStages, Go, Leave, Keeps
<1>5. ModeOK' /\ MatchOK'
  BY <1>2, <1>3 DEF ModeOK, MatchOK, AutoStages, Go, Leave, Keeps
<1>6. FreshOK'
  <2>1. CASE UserId = 0
    BY <1>2, <1>3, <2>1 DEF FreshOK, Leave, Keeps, AutoStages
  <2>2. CASE UserId # 0
    <3>1. cache.user.id # 0
      BY <1>2, <2>2 DEF UserId
    <3>2. misread \/ Fresh
      BY <1>2, <3>1 DEF IInv, WhoOK, FreshOK
    <3> QED
      BY <1>2, <1>3, <2>2, <3>2 DEF FreshOK, Fresh, Go, Keeps, AutoStages
  <2> QED
    BY <2>1, <2>2
<1> QED
  BY <1>1, <1>2, <1>3, <1>4, <1>5, <1>6, BetweenAccessors

(* What was found out of the user stands until the sync.                   *)
LEMMA TowardsSync ==
    ASSUME IInv, UNCHANGED <<mode, auto, entry, account, misread, owner, cache>>,
           stage \in {"block", "block user"},
           stage' = "leave" \/ stage' = "block user" \/ (stage' = "sync" /\ (mode = "standalone" => owner = Wanted(block')))
    PROVE  FreshOK' /\ MatchOK'
<1>1. FreshOK'
  BY DEF IInv, WhoOK, FreshOK, Fresh, AutoStages
<1>2. Wanted(block)' = Wanted(block')
  BY DEF Wanted
<1>3. stage' = "sync" /\ mode' = "standalone" => owner' = Wanted(block)'
  BY <1>2
<1>4. mode = "daemon" => /\ entry \in DOMAIN Palments /\ HasAccount(entry)
                         /\ misread \/ (MatchUser(Palments[entry], owner) /\ MatchId(Palments[entry], owner))
                         /\ account = Palments[entry].luser
  BY DEF IInv, WhoOK, MatchOK
<1>5. MatchOK'
  BY <1>3, <1>4 DEF MatchOK, HasAccount, MatchUser, MatchId
<1> QED
  BY <1>1, <1>5

LEMMA BlockSerialOK == ASSUME IInv, BlockSerial PROVE IInv'
<1>1. PICK r \in {"ok", "fail"} : Back("block", r)
  BY DEF BlockSerial
<1>2. /\ stage = "block" /\ mode \in {"standalone", "daemon"} /\ UNCHANGED <<owner, cache>>
  BY <1>1, BackFacts DEF IInv, ModeOK
<1>3. /\ \/ mode # "standalone" /\ Go("sync")
         \/ Go("block user")
         \/ Leave("failed")
      /\ Quiet /\ Keeps /\ UNCHANGED <<todo, entry, block, account, misread, named>>
  BY <1>2 DEF BlockSerial, NoBlock
<1>4. OwnTypeOK'
  BY <1>2, <1>3 DEF IInv, Types, OwnTypeOK, Stages, UserStages, Go, Leave, Keeps
<1>5. ModeOK'
  BY <1>2, <1>3 DEF ModeOK, AutoStages, Go, Leave, Keeps
<1>6. FreshOK' /\ MatchOK'
  BY <1>2, <1>3, TowardsSync DEF Go, Leave, Keeps
<1> QED
  BY <1>1, <1>2, <1>3, <1>4, <1>5, <1>6, BetweenAccessors

LEMMA BlockUserOK == ASSUME IInv, BlockUser PROVE IInv'
<1>1. PICK r \in {"ok", "fail"} : Back("block user", r)
  BY DEF BlockUser
<1>2. /\ stage = "block user" /\ mode \in {"standalone", "daemon"} /\ UNCHANGED <<owner, cache>>
      /\ (r = "ok" => cache.user # NotYet) /\ owner \in Owners /\ block \in 0 .. Len(Blocks)
  BY <1>1, BackFacts DEF IInv, ModeOK, UserStages, Types, CacheTypeOK, OwnTypeOK
<1>3. /\ \/ \E b : /\ b = BlockFor(cache.serial, cache.user) /\ block' = b /\ r = "ok"
                   /\ IF mode = "daemon" \/ cache.user = Wanted(b) THEN Go("sync") ELSE Leave("failed")
         \/ (IF mode = "standalone" THEN Leave("failed") ELSE Go("sync")) /\ UNCHANGED block
      /\ Quiet /\ Keeps /\ UNCHANGED <<todo, entry, account, misread, named>>
  BY <1>1 DEF BlockUser, NoBlock, Back
<1>4. block' \in 0 .. Len(Blocks)
  BY <1>2, <1>3, BlockFacts
<1>5. OwnTypeOK'
  BY <1>2, <1>3, <1>4 DEF IInv, Types, OwnTypeOK, Stages, Go, Leave, Keeps
<1>6. ModeOK'
  BY <1>2, <1>3 DEF ModeOK, AutoStages, Go, Leave, Keeps
<1>7. stage' = "leave" \/ (stage' = "sync" /\ (mode = "standalone" => owner = Wanted(block')))
  <2>1. CASE stage' = "sync" /\ mode = "standalone"
    <3>1. cache.user = Wanted(block') /\ cache.user # NotYet
      BY <1>2, <1>3, <2>1 DEF Leave
    <3>2. Agrees(cache.user, owner)
      BY <2>1, <3>1 DEF IInv, WhoOK, FreshOK, Fresh
    <3>3. Wanted(block').name # Garbage /\ Wanted(block') = [name |-> Wanted(block').name, id |-> Wanted(block').id]
      BY <1>4, WantedFacts
    <3>4. owner = [name |-> owner.name, id |-> owner.id]
      BY <1>2, CacheAssumption
    <3> QED
      BY <2>1, <3>1, <3>2, <3>3, <3>4 DEF Agrees
  <2> QED
    BY <1>3, <2>1 DEF Go, Leave
<1>8. FreshOK' /\ MatchOK'
  BY <1>2, <1>3, <1>7, TowardsSync DEF Keeps
<1> QED
  BY <1>1, <1>2, <1>3, <1>5, <1>6, <1>8, BetweenAccessors

LEMMA InitBlockOK == ASSUME IInv, InitBlock PROVE IInv'
<1>1. PICK r \in {"ok", "fail"} : Back("init", r)
  BY DEF InitBlock
<1>2. stage = "init" /\ mode = "init"
  BY <1>1, BackFacts DEF IInv, ModeOK
<1>3. /\ \/ block' = BlockForSerial(cache.serial) /\ Go("init user")
         \/ Leave("failed") /\ UNCHANGED block
      /\ Quiet /\ Keeps /\ UNCHANGED <<todo, entry, account, misread, named>>
  BY DEF InitBlock
<1>4. block' \in 0 .. Len(Blocks)
  BY <1>3, BlockFacts DEF IInv, Types, OwnTypeOK
<1>5. OwnTypeOK'
  BY <1>2, <1>3, <1>4 DEF IInv, Types, OwnTypeOK, Stages, UserStages, Go, Leave, Keeps
<1>6. ModeOK' /\ FreshOK' /\ MatchOK'
  BY <1>2, <1>3 DEF ModeOK, FreshOK, MatchOK, AutoStages, Go, Leave, Keeps
<1> QED
  BY <1>1, <1>2, <1>3, <1>5, <1>6, BetweenAccessors

LEMMA InitUserOK == ASSUME IInv, InitUser PROVE IInv'
<1>1. PICK r \in {"ok", "fail"} : Back("init user", r)
  BY DEF InitUser
<1>2. stage = "init user" /\ mode = "init"
  BY <1>1, BackFacts DEF IInv, ModeOK
<1>3. /\ Go("write") \/ \E x \in {"ok", "failed"} : Leave(x)
      /\ Quiet /\ Keeps /\ UNCHANGED <<todo, entry, block, account, misread, named>>
  BY DEF InitUser
<1>4. OwnTypeOK'
  BY <1>2, <1>3 DEF IInv, Types, OwnTypeOK, Stages, Go, Leave, Keeps
<1>5. ModeOK' /\ FreshOK' /\ MatchOK'
  BY <1>2, <1>3 DEF ModeOK, FreshOK, MatchOK, AutoStages, Go, Leave, Keeps
<1> QED
  BY <1>1, <1>2, <1>3, <1>4, <1>5, BetweenAccessors

-----------------------------------------------------------------------------
(* Steps in which no accessor runs.                                        *)
LEMMA Unasked ==
    ASSUME IInv, stage \notin UserStages \union SerialStages \union {"crashed", "reload"}
    PROVE  ask = NoAsk
<1>1. ask # NoAsk => ask.want \in {"user", "serial", "reload"}
  BY DEF IInv, WhoOK, AskShape
<1> QED
  BY <1>1 DEF IInv, WhoOK, AskPlace

LEMMA BesideAccessors ==
    ASSUME IInv, ask = NoAsk, UNCHANGED <<uploadVars, backupVars, mode, device, cache, ask>>,
           stage \notin {"copy", "restore"}, owner' \in Owners,
           LinkTypeOK', OwnTypeOK', ModeOK', FreshOK', MatchOK'
    PROVE  IInv'
<1>1. UploadTypeOK' /\ BackupTypeOK' /\ BackupOK' /\ RestoreOK'
  BY WhoStep
<1>2. CacheTypeOK'
  BY DEF IInv, Types, CacheTypeOK
<1>3. AskShape' /\ AskPlace'
  BY DEF AskShape, AskPlace, NoAsk
<1> QED
  BY <1>1, <1>2, <1>3 DEF IInv, Types, WhoOK

LEMMA ConnectOK == ASSUME IInv, Connect PROVE IInv'
<1>1. /\ stage = "connect" /\ ask = NoAsk /\ owner \in Owners /\ ~misread /\ mode \in AllModes
      /\ (mode \in {"daemon", "standalone"} => Fresh)
  <2>1. stage = "connect"
    BY DEF Connect
  <2>2. ask = NoAsk
    BY <2>1, Unasked DEF UserStages, SerialStages
  <2>3. mode \in AllModes /\ owner \in Owners
    BY ModeAssumption DEF IInv, Types, OwnTypeOK, CacheTypeOK
  <2>4. ~misread /\ (mode \in {"daemon", "standalone"} => Fresh)
    BY <2>1 DEF IInv, WhoOK, FreshOK
  <2> QED
    BY <2>1, <2>2, <2>3, <2>4
<1>2. Keeps /\ UNCHANGED <<cacheVars, entry, block, account, misread, named>>
  BY DEF Connect
<1>3. CASE Go(FirstStage) /\ todo' = (IF mode = "restore" THEN Files ELSE {}) /\ Quiet
  <2>1. /\ stage' \in {"block", "auto", "init", "restore", "reload", "list"} /\ UNCHANGED result
        /\ stage' = "block" => mode = "standalone"
        /\ stage' = "auto" => mode = "daemon"
        /\ stage' = "init" => mode = "init"
        /\ stage' = "restore" => mode = "restore"
        /\ stage' = "reload" => mode = "info"
        /\ stage' = "list" => mode \in {"backup", "list"}
    BY <1>1, <1>3 DEF Go, FirstStage, AllModes
  <2>2. OwnTypeOK'
    BY <1>2, <1>3, <2>1 DEF IInv, Types, OwnTypeOK, Stages, UserStages, SerialStages, Keeps
  <2>3. ModeOK' /\ MatchOK'
    BY <1>2, <1>3, <2>1 DEF ModeOK, MatchOK, AutoStages, Keeps
  <2>4. FreshOK'
    BY <1>1, <1>2, <2>1 DEF FreshOK, Fresh, Keeps, AutoStages, cacheVars
  <2>5. LinkTypeOK'
    BY <1>3, SameLink DEF Quiet
  <2> QED
    BY <1>1, <1>2, <2>2, <2>3, <2>4, <2>5, BesideAccessors DEF cacheVars, Keeps
<1>4. CASE /\ \E o \in Request : o.result = "failed" /\ Take([o EXCEPT !.status = "closed"])
           /\ stage' = "done" /\ result' = "failed" /\ UNCHANGED todo
  <2>1. PICK o \in Request : Take([o EXCEPT !.status = "closed"])
    BY <1>4
  <2>2. PICK p : p = [o EXCEPT !.status = "closed"]
    OBVIOUS
  <2>3. o \in Outcome
    BY PlainFacts DEF IInv, Types
  <2>4. p \in Outcome
    BY <2>2, <2>3 DEF Outcome, Statuses
  <2>5. LinkTypeOK'
    BY <2>1, <2>2, <2>4, TakeFacts DEF IInv, Types
  <2>6. OwnTypeOK'
    BY <1>2, <1>4 DEF IInv, Types, OwnTypeOK, Stages, Keeps
  <2>7. ModeOK' /\ MatchOK'
    BY <1>2, <1>4 DEF ModeOK, MatchOK, AutoStages, Keeps
  <2>8. FreshOK'
    BY <1>1, <1>2, <1>4 DEF FreshOK, Fresh, Keeps, AutoStages, cacheVars
  <2> QED
    BY <1>1, <1>2, <2>5, <2>6, <2>7, <2>8, BesideAccessors DEF cacheVars, Keeps
<1> QED
  BY <1>3, <1>4 DEF Connect

(* The two steps in which a Palm that seemed to be blank is given a user.  *)
LEMMA GivenUser ==
    ASSUME IInv, stage \in {"auto write", "conduits"}, owner' \in Owners, LinkTypeOK', Go("reload"),
           Keeps, UNCHANGED <<device, cache, ask, todo, entry, block, account, misread>>,
           named' \in {named, entry}
    PROVE  IInv'
<1>1. mode = "daemon" /\ ask = NoAsk /\ misread \in BOOLEAN
  BY Unasked DEF UserStages, SerialStages, IInv, ModeOK, AutoStages, Types, OwnTypeOK
<1>2. misread \/ (cache.user # NotYet /\ cache.user.id = 0)
  <2>1. misread \/ (cache.user # NotYet /\ owner.id = 0)
    BY DEF IInv, WhoOK, FreshOK, AutoStages
  <2>2. misread \/ Fresh
    BY <1>1 DEF IInv, WhoOK, FreshOK
  <2> QED
    BY <2>1, <2>2, IdAgrees
<1>3. OwnTypeOK'
  BY DEF IInv, Types, OwnTypeOK, Stages, Go, Keeps
<1>4. ModeOK' /\ MatchOK'
  BY <1>1 DEF ModeOK, MatchOK, AutoStages, Go, Keeps
<1>5. FreshOK'
  BY <1>1, <1>2 DEF FreshOK, Go, Keeps, AutoStages
<1> QED
  BY <1>1, <1>3, <1>4, <1>5, BesideAccessors DEF Keeps

LEMMA AutoInitOK == ASSUME IInv, AutoInit PROVE IInv'
<1>1. PICK o \in Request : /\ Take(o)
                           /\ owner' = IF o.done THEN Person(entry) ELSE owner
                           /\ named' = IF o.done THEN entry ELSE named
  BY DEF AutoInit
<1>2. entry \in DOMAIN Palments /\ owner \in Owners
  BY DEF AutoInit, IInv, WhoOK, MatchOK, Types, CacheTypeOK
<1>3. owner' \in Owners
  BY <1>1, <1>2, PersonFacts
<1> QED
  BY <1>1, <1>3, AskedPalm, GivenUser DEF AutoInit

LEMMA InitConduitsOK == ASSUME IInv, InitConduits PROVE IInv'
<1>1. PICK o \in Request \union LocalFailure :
          Take(o) /\ owner' \in IF o.done THEN Owners ELSE {owner}
  BY DEF InitConduits
<1>2. owner' \in Owners
  BY <1>1 DEF IInv, Types, CacheTypeOK
<1> QED
  BY <1>1, <1>2, AskedPalm, FailedHere, GivenUser DEF InitConduits

LEMMA SetuidOK == ASSUME IInv, Setuid PROVE IInv'
<1>1. /\ stage = "setuid" /\ mode = "daemon" /\ ask = NoAsk /\ misread \in BOOLEAN
      /\ owner \in Owners
  BY Unasked DEF Setuid, UserStages, SerialStages, IInv, ModeOK, Types, OwnTypeOK, CacheTypeOK
<1>2. /\ entry \in DOMAIN Palments /\ HasAccount(entry) /\ (misread \/ Fresh)
      /\ misread \/ (MatchUser(Palments[entry], owner) /\ MatchId(Palments[entry], owner))
  BY <1>1 DEF IInv, WhoOK, MatchOK, FreshOK
<1>3. Keeps /\ UNCHANGED <<cacheVars, todo, entry, block, misread, named>>
  BY DEF Setuid
<1>4. LinkTypeOK'
  BY FailedHere, SameLink DEF Setuid, Quiet
<1>5. \/ account' = Palments[entry].luser /\ Go("block")
      \/ account' \in {account, Palments[entry].luser} /\ Leave("failed")
  BY DEF Setuid
<1>6. account' \in Accounts \union {Nobody}
  BY <1>2, <1>5 DEF HasAccount, IInv, Types, OwnTypeOK
<1>7. OwnTypeOK'
  BY <1>3, <1>5, <1>6 DEF IInv, Types, OwnTypeOK, Stages, SerialStages, Go, Leave, Keeps
<1>8. ModeOK'
  BY <1>1, <1>3, <1>5 DEF ModeOK, AutoStages, Go, Leave, Keeps
<1>9. FreshOK'
  BY <1>1, <1>2, <1>3, <1>5 DEF FreshOK, Fresh, Go, Leave, Keeps, AutoStages, cacheVars
<1>10. MatchOK'
  BY <1>1, <1>2, <1>3, <1>5 DEF MatchOK, HasAccount, MatchUser, MatchId, Go, Leave, Keeps, cacheVars
<1> QED
  BY <1>1, <1>3, <1>4, <1>7, <1>8, <1>9, <1>10, BesideAccessors DEF cacheVars, Keeps

LEMMA WriteUserOK == ASSUME IInv, WriteUser PROVE IInv'
<1>1. stage = "write" /\ mode = "init" /\ ask = NoAsk /\ owner \in Owners /\ block \in 0 .. Len(Blocks)
  BY Unasked DEF WriteUser, UserStages, SerialStages, IInv, ModeOK, Types, OwnTypeOK, CacheTypeOK
<1>2. PICK o \in Request : /\ Take(o)
                           /\ owner' = IF o.done THEN Wanted(block) ELSE owner
                           /\ Leave("failed") \/ Go("crashed") \/ Leave("ok")
  BY DEF WriteUser
<1>3. Keeps /\ UNCHANGED <<device, cache, ask, todo, entry, block, account, misread, named>>
  BY DEF WriteUser
<1>4. LinkTypeOK' /\ owner' \in Owners
  BY <1>1, <1>2, AskedPalm, WantedFacts
<1>5. OwnTypeOK'
  BY <1>2, <1>3 DEF IInv, Types, OwnTypeOK, Stages, Go, Leave, Keeps
<1>6. ModeOK' /\ FreshOK' /\ MatchOK'
  BY <1>1, <1>2, <1>3 DEF ModeOK, FreshOK, MatchOK, AutoStages, Go, Leave, Keeps
<1> QED
  BY <1>1, <1>3, <1>4, <1>5, <1>6, BesideAccessors DEF Keeps

-----------------------------------------------------------------------------
LEMMA SameMode ==
    ASSUME IInv, UNCHANGED modeVars
    PROVE  OwnTypeOK' /\ ModeOK'
BY DEF IInv, Types, OwnTypeOK, ModeOK, modeVars

LEMMA SameWho ==
    ASSUME IInv, UNCHANGED <<mode, stage, auto, entry, block, account, misread, owner, cache>>
    PROVE  FreshOK' /\ MatchOK'
<1>1. FreshOK'
  BY DEF IInv, WhoOK, FreshOK, Fresh
<1>2. Wanted(block)' = Wanted(block)
  BY DEF Wanted
<1>3. MatchOK'
  BY <1>2 DEF IInv, WhoOK, MatchOK, MatchUser, MatchId, HasAccount
<1> QED
  BY <1>1, <1>3

LEMMA StartAskOK == ASSUME IInv, StartAsk PROVE IInv'
<1>1. /\ stage \notin {"copy", "restore"} /\ owner \in Owners /\ device \in Devices
      /\ UNCHANGED <<linkVars, uploadVars, backupVars, owner, device, cache, modeVars>>
  BY DEF StartAsk, UserStages, SerialStages, IInv, Types, CacheTypeOK
<1>2. /\ UploadTypeOK' /\ BackupTypeOK' /\ BackupOK' /\ RestoreOK' /\ LinkTypeOK'
      /\ OwnTypeOK' /\ ModeOK' /\ FreshOK' /\ MatchOK'
  BY <1>1, WhoStep, SameLink, SameMode, SameWho DEF modeVars
<1>3. \/ \E at \in {"ok", "user"} : /\ ask' = [at |-> at, want |-> "user"] /\ stage \in UserStages
                                    /\ at = "ok" => cache.user # NotYet
      \/ \E at \in {"ok", "token", "none", "sys"} : ask' = [at |-> at, want |-> "serial"] /\ stage \in SerialStages
      \/ ask' = [at |-> "sys", want |-> "reload"] /\ stage = "reload"
  BY DEF StartAsk, AskUser, AskSerial, Reload, SerialStep
<1>4. CacheTypeOK'
  BY <1>1, <1>3 DEF IInv, Types, CacheTypeOK, AskSteps, Wants
<1>5. AskShape' /\ AskPlace'
  BY <1>1, <1>3 DEF AskShape, AskPlace, SerialSteps, ReloadSteps, NoAsk, modeVars
<1> QED
  BY <1>2, <1>4, <1>5 DEF IInv, Types, WhoOK

LEMMA DoAskOK == ASSUME IInv, DoAsk PROVE IInv'
<1>1. UNCHANGED <<uploadVars, backupVars, modeVars>> /\ CacheStep
  BY DEF DoAsk
<1>2. /\ UNCHANGED <<owner, device>> /\ ask' # NoAsk /\ ask'.want = ask.want /\ AskShape'
      /\ \/ cache'.user = cache.user
         \/ cache'.user # NotYet /\ Agrees(cache'.user, owner)
  BY <1>1, CacheFacts DEF Accesses
<1>3. ask'.want \in {"user", "serial", "reload"}
  BY <1>2 DEF AskShape
<1>4. stage \in UserStages \union SerialStages \union {"crashed", "reload"} /\ AskPlace'
  BY <1>1, <1>2, <1>3 DEF IInv, WhoOK, AskPlace, modeVars
<1>5. UploadTypeOK' /\ BackupTypeOK' /\ BackupOK' /\ RestoreOK' /\ OwnTypeOK' /\ ModeOK'
  BY <1>1, <1>4, WhoStep, SameMode DEF UserStages, SerialStages, modeVars
<1>6. CacheTypeOK'
  <2>1. ask' \in [at : AskSteps, want : Wants]
    BY <1>2 DEF AskShape, NoAsk, AskSteps, Wants, SerialSteps, ReloadSteps
  <2> QED
    BY <1>1, <1>2, <2>1, CacheFacts DEF Accesses, IInv, Types, CacheTypeOK
<1>7. FreshOK'
  BY <1>1, <1>2 DEF IInv, WhoOK, FreshOK, Fresh, modeVars
<1>8. MatchOK'
  <2>1. Wanted(block)' = Wanted(block) /\ UNCHANGED <<mode, stage, entry, account, misread, owner>>
    BY <1>1, <1>2 DEF Wanted, modeVars
  <2> QED
    BY <2>1 DEF IInv, WhoOK, MatchOK, MatchUser, MatchId, HasAccount
<1>9. LinkTypeOK'
  BY <1>1, CacheLink
<1> QED
  BY <1>2, <1>4, <1>5, <1>6, <1>7, <1>8, <1>9 DEF IInv, Types, WhoOK

LEMMA CrashOK == ASSUME IInv, Crash PROVE IInv'
<1>1. /\ ask.at = "crashed" /\ Go("crashed") /\ Quiet /\ Keeps
      /\ UNCHANGED <<cacheVars, todo, entry, block, account, misread, named>>
  BY DEF Crash
<1>2. ask.want = "serial" /\ ask # NoAsk
  BY <1>1 DEF IInv, WhoOK, AskShape, ReloadSteps, NoAsk
<1>3. stage \notin {"copy", "restore"}
  BY <1>2 DEF IInv, WhoOK, AskPlace, SerialStages
<1>4. LinkTypeOK' /\ UploadTypeOK' /\ BackupTypeOK' /\ BackupOK' /\ RestoreOK'
  BY <1>1, <1>3, WhoStep, SameLink DEF Quiet, Keeps
<1>5. OwnTypeOK'
  BY <1>1 DEF IInv, Types, OwnTypeOK, Stages, Go, Keeps
<1>6. ModeOK' /\ MatchOK'
  BY <1>1 DEF ModeOK, MatchOK, AutoStages, Go
<1>7. FreshOK'
  BY <1>1 DEF IInv, WhoOK, FreshOK, Fresh, AutoStages, Go, Keeps, cacheVars
<1>8. CacheTypeOK' /\ AskShape' /\ AskPlace'
  BY <1>1, <1>2 DEF IInv, Types, WhoOK, CacheTypeOK, AskShape, AskPlace, cacheVars, Go
<1> QED
  BY <1>4, <1>5, <1>6, <1>7, <1>8 DEF IInv, Types, WhoOK

LEMMA CloseOK == ASSUME IInv, Close PROVE IInv'
<1>1. /\ stage = "leave" /\ Disconnect /\ Go("done") /\ Keeps
      /\ UNCHANGED <<cacheVars, todo, entry, block, account, misread, named>>
  BY DEF Close
<1>2. ask = NoAsk /\ owner \in Owners
  BY <1>1, Unasked DEF UserStages, SerialStages, IInv, Types, CacheTypeOK
<1>3. LinkTypeOK'
  <2>1. ASSUME NEW o \in Request, Take([o EXCEPT !.status = "closed"])
        PROVE  LinkTypeOK'
    <3>1. PICK p : p = [o EXCEPT !.status = "closed"]
      OBVIOUS
    <3>2. o \in Outcome
      BY PlainFacts DEF IInv, Types
    <3>3. p \in Outcome
      BY <3>1, <3>2 DEF Outcome, Statuses
    <3> QED
      BY <2>1, <3>1, <3>3, TakeFacts DEF IInv, Types
  <2>2. ASSUME status' = "closed", UNCHANGED <<wire, cs, faults>>
        PROVE  LinkTypeOK'
    BY <2>2 DEF IInv, Types, LinkTypeOK, Statuses
  <2> QED
    BY <1>1, <2>1, <2>2 DEF Disconnect
<1>4. OwnTypeOK'
  BY <1>1 DEF IInv, Types, OwnTypeOK, Stages, Go, Keeps
<1>5. ModeOK' /\ MatchOK'
  BY <1>1 DEF ModeOK, MatchOK, AutoStages, Go
<1>6. FreshOK'
  BY <1>1 DEF IInv, WhoOK, FreshOK, Fresh, AutoStages, Go, Keeps, cacheVars
<1> QED
  BY <1>1, <1>2, <1>3, <1>4, <1>5, <1>6, BesideAccessors DEF cacheVars, Keeps

LEMMA StutterOK == ASSUME IInv, UNCHANGED vars PROVE IInv'
<1>1. UNCHANGED linkVars /\ UNCHANGED uploadVars /\ UNCHANGED cacheVars /\ UNCHANGED backupVars /\ UNCHANGED modeVars
  BY DEF vars
<1>2. LinkTypeOK' /\ OwnTypeOK' /\ ModeOK' /\ FreshOK' /\ MatchOK'
  BY <1>1, SameLink, SameMode, SameWho DEF modeVars, cacheVars
<1>3. UploadTypeOK' /\ BackupTypeOK' /\ CacheTypeOK'
  BY <1>1 DEF IInv, Types, UploadTypeOK, BackupTypeOK, CacheTypeOK, uploadVars, backupVars, cacheVars
<1>4. AskShape' /\ AskPlace'
  BY <1>1 DEF IInv, WhoOK, AskShape, AskPlace, cacheVars, modeVars
<1>5. BackupOK' /\ RestoreOK'
  BY <1>1 DEF IInv, BackupOK, RestoreOK, BackupsWhole, NoDowngrade, uploadVars, backupVars, modeVars
<1> QED
  BY <1>2, <1>3, <1>4, <1>5 DEF IInv, Types, WhoOK

-----------------------------------------------------------------------------
(* The steps that copy databases, in which it is known whose Palm it is.   *)
LEMMA FileStep ==
    ASSUME IInv, UNCHANGED <<cacheVars, mode, auto, entry, block, account, misread, named>>,
           stage \in {"list", "copy", "restore"}, stage' \in {"list", "copy", "restore", "leave"}
    PROVE  CacheTypeOK' /\ WhoOK'
<1>1. ask = NoAsk /\ mode \in {"backup", "list", "restore"}
  BY Unasked DEF UserStages, SerialStages, IInv, ModeOK
<1>2. CacheTypeOK' /\ AskShape' /\ AskPlace'
  BY <1>1 DEF IInv, Types, CacheTypeOK, AskShape, AskPlace, NoAsk, cacheVars
<1>3. FreshOK' /\ MatchOK'
  BY <1>1 DEF FreshOK, MatchOK, AutoStages
<1> QED
  BY <1>2, <1>3 DEF WhoOK

LEMMA ListingFacts ==
    ASSUME UploadTypeOK, NEW S \in SUBSET OnPalm
    PROVE  /\ Listing(S) \in [DB -> Ver \union {None}]
           /\ \A d \in DB : palm[d] # None /\ Listing(S)[d] # None => palm[d].ver >= Listing(S)[d]
<1>1. ASSUME NEW d \in OnPalm
      PROVE  d \in DB /\ palm[d].ver \in Ver /\ palm[d].ver \in Nat
  BY UploadAssumption DEF UploadTypeOK, OnPalm, Content
<1>2. \A d \in DB : Listing(S)[d] = IF d \in S THEN palm[d].ver ELSE None
  BY DEF Listing
<1>3. Listing(S) \in [DB -> Ver \union {None}]
  BY <1>1 DEF Listing
<1>4. ASSUME NEW d \in DB, palm[d] # None, Listing(S)[d] # None
      PROVE  palm[d].ver >= Listing(S)[d]
  BY <1>1, <1>2, <1>4
<1> QED
  BY <1>3, <1>4

LEMMA ListDBsFacts ==
    ASSUME IInv, ListDBs, UNCHANGED palm
    PROVE  /\ LinkTypeOK' /\ have' \in BOOLEAN /\ short' \in BOOLEAN
           /\ listed' \in [DB -> Ver \union {None}]
           /\ ~have' => \A d \in DB : listed'[d] = None
           /\ NoDowngrade'
<1>1. PICK o \in Request :
        /\ Take(o)
        /\ CASE o.result = "ok" -> have' = TRUE /\ listed' = Listing(OnPalm) /\ UNCHANGED short
             [] o.result = "refused" ->
                  /\ have' = TRUE /\ short' = TRUE
                  /\ \E S \in SUBSET OnPalm : S # OnPalm /\ listed' = Listing(S)
             [] OTHER -> UNCHANGED <<have, listed, short>>
  BY DEF ListDBs
<1>2. LinkTypeOK' /\ o.result \in {"ok", "refused", "failed"}
  BY <1>1, AskedPalm
<1>3. UploadTypeOK /\ have \in BOOLEAN /\ short \in BOOLEAN
  BY DEF IInv, Types, BackupTypeOK
<1>4. CASE have' = TRUE /\ short' \in {short, TRUE} /\ \E S \in SUBSET OnPalm : listed' = Listing(S)
  <2>1. PICK S \in SUBSET OnPalm : listed' = Listing(S)
    BY <1>4
  <2>2. /\ listed' \in [DB -> Ver \union {None}]
        /\ \A d \in DB : palm[d] # None /\ listed'[d] # None => palm[d].ver >= listed'[d]
    BY <1>3, <2>1, ListingFacts
  <2> QED
    BY <1>2, <1>3, <1>4, <2>2 DEF NoDowngrade
<1>5. CASE UNCHANGED <<have, listed, short>>
  BY <1>2, <1>5 DEF IInv, Types, BackupTypeOK, RestoreOK, NoDowngrade
<1> QED
  BY <1>1, <1>2, <1>4, <1>5

LEMMA ListOK == ASSUME IInv, List PROVE IInv'
<1>1. /\ stage = "list" /\ mode \in {"backup", "list"} /\ up = NoUpload /\ copy = NoCopy
      /\ ListDBs
      /\ UNCHANGED <<uploadVars, cacheVars, dir, copy, done, mode, auto, entry, block, account,
                     misread, named>>
  BY DEF List, IInv, ModeOK, BackupOK, RestoreOK
<1>2. /\ LinkTypeOK' /\ have' \in BOOLEAN /\ short' \in BOOLEAN
      /\ listed' \in [DB -> Ver \union {None}]
      /\ ~have' => \A d \in DB : listed'[d] = None
      /\ NoDowngrade'
  BY <1>1, ListDBsFacts DEF uploadVars
<1>3. \/ /\ mode = "backup" /\ Go("copy") /\ todo' = {d \in DB : listed'[d] # None}
      \/ UNCHANGED todo /\ \E r \in {"ok", "failed"} : Leave(r)
  BY DEF List
<1>4. UploadTypeOK' /\ BackupTypeOK' /\ BackupOK' /\ RestoreOK'
  <2>1. UploadTypeOK' /\ BackupTypeOK'
    BY <1>1, <1>2 DEF IInv, Types, UploadTypeOK, BackupTypeOK, uploadVars
  <2>2. BackupOK' /\ RestoreOK'
    BY <1>1, <1>2 DEF IInv, BackupOK, BackupsWhole, RestoreOK, Reading, NoCopy, uploadVars
  <2> QED
    BY <2>1, <2>2
<1>5. OwnTypeOK' /\ ModeOK'
  BY <1>1, <1>3 DEF IInv, Types, OwnTypeOK, ModeOK, Stages, AutoStages, Go, Leave
<1>6. CacheTypeOK' /\ WhoOK'
  BY <1>1, <1>3, FileStep DEF Go, Leave
<1> QED
  BY <1>2, <1>4, <1>5, <1>6 DEF IInv, Types

-----------------------------------------------------------------------------
(* A step of a backup touches the file of its own database only, and that  *)
(* not once the log has called it backed up.                               *)
Copies ==
    /\ copy # NoCopy /\ copy' \in [at : CopySteps \union CopyResults, db : DB] /\ copy'.db = copy.db
    /\ UNCHANGED <<have, listed, short>>
    /\ dir' \in [DB -> Image \union {None}]
    /\ \A d \in DB \ {copy.db} : dir'[d] = dir[d]
    /\ dir' = dir \/ copy.db \notin done
    /\ \/ done' = done
       \/ /\ done' = done \union {copy.db} /\ copy'.at = "ok" /\ palm[copy.db] # None
          /\ dir'[copy.db] # None /\ dir'[copy.db].whole /\ dir'[copy.db].ver = palm[copy.db].ver
    /\ copy'.at \in Reading \union {"conduit", "open"} => copy.db \notin done
    /\ copy'.at \in Reading => palm[copy.db] # None

LEMMA CopyTypes ==
    ASSUME IInv, copy.at \in CopySteps
    PROVE  /\ copy # NoCopy /\ copy \in [at : CopySteps \union CopyResults, db : DB]
           /\ stage = "copy" /\ mode = "backup"
           /\ Empty \in Image /\ dir \in [DB -> Image \union {None}]
           /\ dir[copy.db] \in Image \union {None}
<1>1. copy # NoCopy
  <2>1. "idle" \notin CopySteps /\ NoCopy.at = "idle"
    BY DEF CopySteps, NoCopy
  <2> QED
    BY <2>1
<1>2. copy \in [at : CopySteps \union CopyResults, db : DB] /\ dir \in [DB -> Image \union {None}]
  BY <1>1 DEF IInv, Types, BackupTypeOK
<1>3. stage = "copy" /\ mode = "backup"
  BY <1>1 DEF IInv, BackupOK, ModeOK
<1>4. Empty \in Image
  BY DEF Empty, Image
<1> QED
  BY <1>1, <1>2, <1>3, <1>4

LEMMA CopyAnswers ==
    ASSUME IInv, copy.at \in CopySteps,
           NEW at \in CopySteps \union CopyResults, CopyGoes(at),
           NEW f \in Image \union {None}, LeavesFile(f), f = dir[copy.db] \/ copy.db \notin done,
           UNCHANGED <<have, listed, short, done>>,
           at \in Reading \union {"conduit", "open"} => copy.db \notin done,
           at \in Reading => palm[copy.db] # None
    PROVE  Copies
<1>1. copy' \in [at : CopySteps \union CopyResults, db : DB] /\ copy'.db = copy.db /\ copy'.at = at
  BY CopyTypes DEF CopyGoes
<1>2. /\ dir' \in [DB -> Image \union {None}]
      /\ \A d \in DB \ {copy.db} : dir'[d] = dir[d]
      /\ dir' = dir \/ copy.db \notin done
  BY CopyTypes DEF LeavesFile
<1> QED
  BY <1>1, <1>2, CopyTypes DEF Copies

LEMMA CopySame ==
    ASSUME IInv, copy.at \in CopySteps, UNCHANGED dir
    PROVE  LeavesFile(dir[copy.db]) /\ dir[copy.db] \in Image \union {None}
BY CopyTypes DEF LeavesFile

LEMMA CopyLink == ASSUME IInv, CopyStep PROVE LinkTypeOK'
<1>1. LinkTypeOK
  BY DEF IInv, Types
<1>2. CASE LogError \/ Download \/ CloseFailed \/ CloseCopied
  BY <1>2, AskedPalm DEF LogError, Download, CloseFailed, CloseCopied
<1>3. CASE CopyConduit
  <2>1. PICK o \in Requests("ok", {"refused", "cancel"}) : Take(o)
    BY <1>3 DEF CopyConduit
  <2>2. "ok" \in Kinds /\ {"refused", "cancel"} \in SUBSET (Kinds \ {"ok"})
    BY DEF Kinds
  <2> QED
    BY <1>1, <2>1, <2>2, RequestFacts, TakeFacts
<1>4. CASE CopyOpenDB
  <2>1. PICK s \in Kinds : \E o \in Requests(s, {"refused"}) : Take(o)
    BY <1>4 DEF CopyOpenDB, Kinds
  <2>2. {"refused"} \in SUBSET (Kinds \ {"ok"})
    BY DEF Kinds
  <2> QED
    BY <1>1, <2>1, <2>2, RequestFacts, TakeFacts
<1>5. CASE WriteFile
  BY <1>5, SameLink, FailedHere DEF WriteFile
<1> QED
  BY <1>2, <1>3, <1>4, <1>5 DEF CopyStep

LEMMA DownloadedFacts ==
    ASSUME IInv, copy.at = "write"
    PROVE  /\ palm[copy.db] # None /\ copy.db \notin done
           /\ Downloaded(copy.db) \in Image /\ [Downloaded(copy.db) EXCEPT !.whole = FALSE] \in Image
           /\ Downloaded(copy.db).whole /\ Downloaded(copy.db).ver = palm[copy.db].ver
           /\ Downloaded(copy.db) # None
<1>1. /\ palm[copy.db] # None /\ copy.db \notin done /\ copy.db \in DB /\ mode = "backup"
  BY CopyTypes DEF IInv, BackupOK, Reading, CopySteps
<1>2. palm[copy.db] \in Content /\ palm[copy.db].whole = TRUE
  BY <1>1 DEF IInv, Types, UploadTypeOK, BackupOK, Content
<1>3. PICK s \in {"right", "garbage"} :
         Downloaded(copy.db) = [ver |-> palm[copy.db].ver, whole |-> palm[copy.db].whole, sort |-> s]
  BY DEF Downloaded
<1>4. Downloaded(copy.db) \in Image /\ [Downloaded(copy.db) EXCEPT !.whole = FALSE] \in Image
  <2>1. palm[copy.db].ver \in Ver /\ palm[copy.db].whole \in BOOLEAN
    BY <1>2 DEF Content
  <2>3. Downloaded(copy.db) \in Image
    BY <1>3, <2>1 DEF Image
  <2>4. \A f \in Image : [f EXCEPT !.whole = FALSE] \in Image
    BY DEF Image
  <2> QED
    BY <2>3, <2>4
<1>5. Downloaded(copy.db) # None
  BY <1>4, BackupAssumption
<1> QED
  BY <1>1, <1>2, <1>3, <1>4, <1>5

LEMMA CopyFacts == ASSUME IInv, CopyStep PROVE Copies
<1>1. copy.at \in CopySteps
  BY DEF CopyStep, LogError, CopyConduit, CopyOpenDB, Download, CloseFailed, CloseCopied, WriteFile,
     CopySteps
<1>2. /\ copy.at \in Reading \union {"conduit", "open"} => copy.db \notin done
      /\ copy.at \in Reading => palm[copy.db] # None
  BY DEF IInv, BackupOK
<1>3. CASE LogError
  <2>1. "failed" \in CopySteps \union CopyResults /\ "failed" \notin Reading \union {"conduit", "open"}
    BY DEF CopyResults, Reading
  <2> QED
    BY <1>1, <1>3, <2>1, CopySame, CopyAnswers DEF LogError
<1>4. CASE CopyConduit
  <2>1. PICK at \in {"open", "drop"}, f \in {None, Empty} : CopyGoes(at) /\ LeavesFile(f)
    BY <1>4 DEF CopyConduit
  <2>2. at \in CopySteps \union CopyResults /\ at \notin Reading /\ f \in Image \union {None}
    BY <1>1, CopyTypes DEF CopySteps, Reading
  <2>3. copy.db \notin done /\ UNCHANGED <<have, listed, short, done>>
    BY <1>2, <1>4 DEF CopyConduit
  <2> QED
    BY <1>1, <2>1, <2>2, <2>3, CopyAnswers
<1>5. CASE CopyOpenDB
  <2>0. PICK s \in {"ok", "refused"} :
            /\ \E o \in Requests(s, {"refused"}) : CopyGoes(IF o.result = "ok" THEN "download" ELSE "drop")
            /\ s = "ok" => palm[copy.db] # None
    BY <1>5 DEF CopyOpenDB
  <2>1. PICK o \in Requests(s, {"refused"}) : CopyGoes(IF o.result = "ok" THEN "download" ELSE "drop")
    BY <2>0
  <2>2. s \in Kinds /\ {"refused"} \in SUBSET (Kinds \ {"ok"}) /\ LinkTypeOK
    BY DEF Kinds, IInv, Types
  <2>3. o.result = "ok" => s = "ok"
    BY <2>2, RequestFacts
  <2>4. PICK at \in {"download", "drop"} : CopyGoes(at) /\ (at = "download" => palm[copy.db] # None)
    BY <2>0, <2>1, <2>3
  <2>5. at \in CopySteps \union CopyResults /\ (at \in Reading => at = "download")
    BY <2>4 DEF CopySteps, Reading
  <2>6. copy.db \notin done /\ UNCHANGED <<have, listed, short, dir, done>>
    BY <1>2, <1>5 DEF CopyOpenDB
  <2> QED
    BY <1>1, <2>4, <2>5, <2>6, CopySame, CopyAnswers
<1>6. CASE Download \/ CloseCopied
  <2>1. /\ copy.at \in Reading /\ UNCHANGED <<have, listed, short, dir, done>>
    BY <1>6 DEF Download, CloseCopied, Reading
  <2>2. PICK at \in {"close", "download", "twice", "write"} : CopyGoes(at)
    <3>1. copy = [copy EXCEPT !.at = copy.at]
      BY <1>1, CopyTypes
    <3> QED
      BY <1>6, <3>1 DEF Download, CloseCopied, CopyGoes
  <2>3. at \in CopySteps \union CopyResults
    BY DEF CopySteps
  <2> QED
    BY <1>1, <1>2, <2>1, <2>2, <2>3, CopySame, CopyAnswers
<1>7. CASE CloseFailed
  <2>1. copy.at \in Reading /\ UNCHANGED <<have, listed, short, done>>
    BY <1>7 DEF CloseFailed, Reading
  <2>2. PICK at \in {"twice again", "drop"}, f \in {dir[copy.db], None} : CopyGoes(at) /\ LeavesFile(f)
    BY <1>7 DEF CloseFailed
  <2>3. at \in CopySteps \union CopyResults /\ f \in Image \union {None}
    BY <1>1, CopyTypes DEF CopySteps
  <2> QED
    BY <1>1, <1>2, <2>1, <2>2, <2>3, CopyAnswers
<1>8. CASE WriteFile
  <2>1. copy.at = "write" /\ UNCHANGED <<have, listed, short>>
    BY <1>8 DEF WriteFile
  <2>2. CASE LeavesFile(Downloaded(copy.db)) /\ CopyGoes("ok") /\ done' = done \union {copy.db}
    <3>1. copy' \in [at : CopySteps \union CopyResults, db : DB] /\ copy'.db = copy.db /\ copy'.at = "ok"
      BY <1>1, <2>2, CopyTypes DEF CopyGoes, CopyResults
    <3>2. /\ dir' \in [DB -> Image \union {None}] /\ dir'[copy.db] = Downloaded(copy.db)
          /\ \A d \in DB \ {copy.db} : dir'[d] = dir[d]
      BY <1>1, <2>1, <2>2, CopyTypes, DownloadedFacts DEF LeavesFile
    <3>3. "ok" \notin Reading \union {"conduit", "open"} /\ copy # NoCopy
      BY <1>1, CopyTypes DEF Reading
    <3> QED
      BY <2>1, <2>2, <3>1, <3>2, <3>3, DownloadedFacts DEF Copies
  <2>3. CASE /\ LeavesFile([Downloaded(copy.db) EXCEPT !.whole = FALSE]) \/ LeavesFile(Empty)
             /\ CopyGoes("drop") /\ UNCHANGED done
    <3>1. PICK f \in Image : LeavesFile(f)
      BY <1>1, <2>1, <2>3, CopyTypes, DownloadedFacts
    <3>2. "drop" \in CopySteps \union CopyResults /\ "drop" \notin Reading \union {"conduit", "open"}
      BY DEF CopySteps, Reading
    <3> QED
      BY <1>1, <2>1, <2>3, <3>1, <3>2, DownloadedFacts, CopyAnswers
  <2> QED
    BY <1>8, <2>2, <2>3 DEF WriteFile
<1> QED
  BY <1>3, <1>4, <1>5, <1>6, <1>7, <1>8 DEF CopyStep

LEMMA BackUpOK == ASSUME IInv, BackUp PROVE IInv'
<1>1. PICK d \in todo : CreateFile(d)
  BY DEF BackUp
<1>2. /\ stage = "copy" /\ mode = "backup" /\ d \in DB /\ copy.at = "idle" /\ up = NoUpload
      /\ UNCHANGED <<uploadVars, cacheVars, modeVars, have, listed, short, done>>
  BY <1>1 DEF BackUp, CreateFile, IInv, ModeOK, BackupOK
<1>3. \/ dir[d] = None /\ dir' = [dir EXCEPT ![d] = Empty] /\ copy' = [at |-> "conduit", db |-> d]
      \/ UNCHANGED dir /\ copy' = [at |-> "drop", db |-> d]
  BY <1>1 DEF CreateFile
<1>4. LinkTypeOK'
  BY <1>1, SameLink DEF CreateFile, linkVars
<1>5. dir \in [DB -> Image \union {None}] /\ Empty \in Image
  BY DEF IInv, Types, BackupTypeOK, Empty, Image
<1>6. BackupTypeOK'
  <2>1. "conduit" \in CopySteps /\ "drop" \in CopySteps
    BY DEF CopySteps
  <2>2. copy' \in [at : CopySteps \union CopyResults, db : DB]
    BY <1>2, <1>3, <2>1
  <2>3. dir' \in [DB -> Image \union {None}]
    BY <1>3, <1>5
  <2> QED
    BY <1>2, <2>2, <2>3 DEF IInv, Types, BackupTypeOK
<1>7. UploadTypeOK' /\ OwnTypeOK' /\ ModeOK' /\ CacheTypeOK' /\ WhoOK'
  <2>1. OwnTypeOK' /\ ModeOK'
    BY <1>2, SameMode
  <2>2. CacheTypeOK' /\ WhoOK'
    BY <1>2, FileStep DEF modeVars
  <2> QED
    BY <1>2, <2>1, <2>2 DEF IInv, Types, UploadTypeOK, uploadVars
<1>8. BackupOK'
  <2>1. /\ \A e \in done : dir[e] # None /\ palm[e] # None /\ dir[e].whole /\ dir[e].ver = palm[e].ver
        /\ done \subseteq DB /\ \A e \in DB : palm[e] # None => palm[e].whole
    BY <1>2 DEF IInv, BackupOK, BackupsWhole, Types, BackupTypeOK
  <2>2. \A e \in done : dir'[e] = dir[e]
    BY <1>3, <1>5, <2>1
  <2>3. copy'.at \notin Reading /\ (copy'.at = "conduit" => copy'.db \notin done) /\ copy'.at # "open"
    <3>1. CASE dir[d] = None /\ copy' = [at |-> "conduit", db |-> d]
      <4>1. d \notin done /\ copy'.at = "conduit" /\ copy'.db = d
        BY <2>1, <3>1
      <4> QED
        BY <4>1 DEF Reading
    <3>2. CASE copy' = [at |-> "drop", db |-> d]
      <4>1. copy'.at = "drop"
        BY <3>2
      <4> QED
        BY <4>1 DEF Reading
    <3> QED
      BY <1>3, <3>1, <3>2
  <2>4. UNCHANGED <<palm, up, mode, stage>>
    BY <1>2 DEF uploadVars, modeVars
  <2>5. (\A e \in done : dir[e] # None /\ palm[e] # None)' /\ BackupsWhole'
    BY <1>2, <2>1, <2>2, <2>4 DEF BackupsWhole
  <2> QED
    BY <1>2, <2>1, <2>3, <2>4, <2>5 DEF BackupOK
<1>9. RestoreOK'
  BY <1>2 DEF IInv, RestoreOK, NoDowngrade, uploadVars, modeVars
<1> QED
  BY <1>4, <1>6, <1>7, <1>8, <1>9 DEF IInv, Types

LEMMA DoCopyOK == ASSUME IInv, DoCopy PROVE IInv'
<1>1. UNCHANGED <<uploadVars, cacheVars, modeVars>> /\ Copies /\ LinkTypeOK'
  BY CopyFacts, CopyLink DEF DoCopy
<1>2. stage = "copy" /\ mode = "backup" /\ copy.db \in DB
  BY <1>1 DEF Copies, IInv, BackupOK, ModeOK, Types, BackupTypeOK
<1>3. BackupTypeOK'
  BY <1>1, <1>2 DEF Copies, IInv, Types, BackupTypeOK
<1>4. UploadTypeOK' /\ OwnTypeOK' /\ ModeOK' /\ CacheTypeOK' /\ WhoOK'
  <2>1. OwnTypeOK' /\ ModeOK'
    BY <1>1, SameMode
  <2>2. CacheTypeOK' /\ WhoOK'
    BY <1>1, <1>2, FileStep DEF modeVars
  <2> QED
    BY <1>1, <2>1, <2>2 DEF IInv, Types, UploadTypeOK, uploadVars
<1>5. BackupOK'
  <2>1. /\ \A e \in done : dir[e] # None /\ palm[e] # None /\ dir[e].whole /\ dir[e].ver = palm[e].ver
        /\ done \subseteq DB /\ \A e \in DB : palm[e] # None => palm[e].whole
        /\ up = NoUpload
    BY <1>2 DEF IInv, BackupOK, BackupsWhole, Types, BackupTypeOK
  <2>2. UNCHANGED <<palm, up, mode, stage>>
    BY <1>1 DEF uploadVars, modeVars
  <2>3. ASSUME NEW e \in done'
        PROVE  dir'[e] # None /\ palm'[e] # None /\ dir'[e].whole /\ dir'[e].ver = palm'[e].ver
    <3>1. CASE e \in done
      <4>1. dir'[e] = dir[e]
        BY <1>1, <2>1, <3>1 DEF Copies
      <4> QED
        BY <2>1, <2>2, <3>1, <4>1
    <3>2. CASE e \notin done
      BY <1>1, <2>2, <2>3, <3>2 DEF Copies
    <3> QED
      BY <3>1, <3>2
  <2>4. (\A e \in done : dir[e] # None /\ palm[e] # None)' /\ BackupsWhole'
    BY <2>3 DEF BackupsWhole
  <2>5. /\ copy'.at \in Reading \union {"conduit", "open"} => copy'.db \notin done'
        /\ copy'.at \in Reading => palm'[copy'.db] # None
    <3>1. "ok" \notin Reading \union {"conduit", "open"}
      BY DEF Reading
    <3> QED
      BY <1>1, <2>2, <3>1 DEF Copies
  <2> QED
    BY <1>2, <2>1, <2>2, <2>4, <2>5 DEF BackupOK
<1>6. RestoreOK'
  BY <1>1 DEF Copies, IInv, RestoreOK, NoDowngrade, uploadVars, modeVars
<1> QED
  BY <1>1, <1>3, <1>4, <1>5, <1>6 DEF IInv, Types

LEMMA BackedUpOK == ASSUME IInv, BackedUp PROVE IInv'
<1>1. /\ copy.at \in CopyResults /\ copy' = NoCopy
      /\ UNCHANGED <<linkVars, uploadVars, cacheVars, have, listed, short, dir, done, mode, auto,
                     entry, block, account, misread, named>>
      /\ \/ UNCHANGED todo /\ \E r \in {"ok", "failed"} : Leave(r)
         \/ Go("copy") /\ todo' = todo \ {copy.db}
  BY DEF BackedUp
<1>2. stage = "copy" /\ mode = "backup" /\ up = NoUpload
  <2>1. "idle" \notin CopyResults /\ NoCopy.at = "idle"
    BY DEF CopyResults, NoCopy
  <2> QED
    BY <1>1, <2>1 DEF IInv, BackupOK, ModeOK
<1>3. LinkTypeOK' /\ UploadTypeOK' /\ BackupTypeOK'
  BY <1>1, SameLink DEF IInv, Types, UploadTypeOK, BackupTypeOK, uploadVars
<1>4. OwnTypeOK' /\ ModeOK'
  BY <1>1, <1>2 DEF IInv, Types, OwnTypeOK, ModeOK, Stages, AutoStages, Go, Leave
<1>5. CacheTypeOK' /\ WhoOK'
  BY <1>1, <1>2, FileStep DEF Go, Leave
<1>6. BackupOK'
  BY <1>1, <1>2 DEF IInv, BackupOK, BackupsWhole, Reading, NoCopy, uploadVars
<1>7. RestoreOK'
  BY <1>1, <1>2 DEF IInv, RestoreOK, NoDowngrade, uploadVars
<1> QED
  BY <1>3, <1>4, <1>5, <1>6, <1>7 DEF IInv, Types

LEMMA AllDoneOK == ASSUME IInv, AllDone PROVE IInv'
<1>1. /\ stage \in {"copy", "restore"} /\ Leave("ok") /\ Quiet /\ Keeps
      /\ UNCHANGED <<cacheVars, todo, entry, block, account, misread, named>>
      /\ stage = "copy" => copy.at = "idle"
      /\ stage = "restore" => up.at = "idle"
  BY DEF AllDone, Restoring
<1>2. copy = NoCopy /\ up = NoUpload
  <2>1. "idle" \notin CopySteps \union CopyResults /\ "idle" \notin UploadSteps \union UploadResults
    BY DEF CopySteps, CopyResults, UploadSteps, UploadResults
  <2> QED
    BY <1>1, <2>1 DEF IInv, Types, BackupTypeOK, UploadTypeOK, BackupOK, RestoreOK
<1>3. LinkTypeOK' /\ UploadTypeOK' /\ BackupTypeOK'
  BY <1>1, SameLink DEF IInv, Types, UploadTypeOK, BackupTypeOK, uploadVars, backupVars, Quiet, Keeps
<1>4. OwnTypeOK' /\ ModeOK'
  BY <1>1 DEF IInv, Types, OwnTypeOK, ModeOK, Stages, AutoStages, Leave, Keeps
<1>5. CacheTypeOK' /\ WhoOK'
  BY <1>1, FileStep DEF Leave, Keeps
<1>6. BackupOK' /\ RestoreOK'
  BY <1>1, <1>2 DEF IInv, BackupOK, BackupsWhole, RestoreOK, NoDowngrade, Reading, NoCopy,
     uploadVars, backupVars, Keeps
<1> QED
  BY <1>3, <1>4, <1>5, <1>6 DEF IInv, Types

-----------------------------------------------------------------------------
(* What a restore leaves alone.                                            *)
LEMMA RestoreStep ==
    ASSUME IInv, stage = "restore", UNCHANGED <<cacheVars, dir, copy, done, mode, auto, entry, block,
           account, misread, named>>, stage' \in {"restore", "leave"}, result' \in {"none", "ok", "failed"},
           todo' \subseteq todo, LinkTypeOK', UploadTypeOK', RestoreOK',
           have' \in BOOLEAN, short' \in BOOLEAN, listed' \in [DB -> Ver \union {None}]
    PROVE  IInv'
<1>1. mode = "restore" /\ todo \subseteq Files /\ copy = NoCopy /\ done = {}
  BY DEF IInv, ModeOK, BackupOK
<1>2. CacheTypeOK' /\ WhoOK'
  BY FileStep
<1>3. BackupTypeOK'
  BY DEF IInv, Types, BackupTypeOK
<1>4. OwnTypeOK' /\ ModeOK'
  BY <1>1 DEF IInv, Types, OwnTypeOK, ModeOK, Stages, AutoStages
<1>5. BackupOK'
  BY <1>1 DEF BackupOK, BackupsWhole, Reading, NoCopy
<1> QED
  BY <1>2, <1>3, <1>4, <1>5 DEF IInv, Types

LEMMA Begun ==
    ASSUME NEW f \in Files, BeginUpload(Named[f], Version[f], TRUE)
    PROVE  /\ up' \in [at : UploadSteps \union UploadResults, db : DB, ver : Ver, force : BOOLEAN]
           /\ up'.db = Named[f] /\ up'.ver = Version[f]
<1>1. Named[f] \in DB /\ Version[f] \in Ver
  BY BackupAssumption
<1>2. "conduit" \in UploadSteps
  BY DEF UploadSteps
<1> QED
  BY <1>1, <1>2 DEF BeginUpload

LEMMA FindListOK == ASSUME IInv, FindList PROVE IInv'
<1>1. /\ stage = "restore" /\ up.at = "idle" /\ ListDBs
      /\ UNCHANGED <<palm, cacheVars, dir, copy, done, mode, stage, auto, entry, block,
                     account, result, misread, named>>
  BY DEF FindList, Restoring
<1>2. up = NoUpload /\ todo \subseteq Files
  <2>1. "idle" \notin UploadSteps \union UploadResults
    BY DEF UploadSteps, UploadResults
  <2> QED
    BY <1>1, <2>1 DEF IInv, Types, UploadTypeOK, ModeOK
<1>3. /\ LinkTypeOK' /\ have' \in BOOLEAN /\ short' \in BOOLEAN
      /\ listed' \in [DB -> Ver \union {None}]
      /\ ~have' => \A d \in DB : listed'[d] = None
      /\ NoDowngrade'
  BY <1>1, ListDBsFacts
<1>4. \/ UNCHANGED <<todo, up>>
      \/ ~have' /\ \E f \in todo : todo' = todo \ {f} /\ (BeginUpload(Named[f], Version[f], TRUE) \/ up' = up)
  BY DEF FindList
<1>5. CASE up' = up /\ todo' \subseteq todo
  <2>1. UploadTypeOK' /\ RestoreOK'
    BY <1>1, <1>2, <1>3, <1>5 DEF IInv, Types, UploadTypeOK, RestoreOK
  <2> QED
    BY <1>1, <1>3, <1>5, <2>1, RestoreStep DEF IInv, Types, OwnTypeOK
<1>6. ASSUME ~have', NEW f \in todo, todo' = todo \ {f}, BeginUpload(Named[f], Version[f], TRUE)
      PROVE  IInv'
  <2>1. up' \in [at : UploadSteps \union UploadResults, db : DB, ver : Ver, force : BOOLEAN]
    BY <1>2, <1>6, Begun
  <2>2. UploadTypeOK'
    BY <1>1, <2>1 DEF IInv, Types, UploadTypeOK
  <2>3. RestoreOK'
    BY <1>1, <1>3, <1>6, <2>1 DEF RestoreOK
  <2> QED
    BY <1>1, <1>3, <1>6, <2>2, <2>3, RestoreStep DEF IInv, Types, OwnTypeOK
<1> QED
  BY <1>4, <1>5, <1>6

LEMMA RestoreFileOK == ASSUME IInv, RestoreFile PROVE IInv'
<1>1. PICK f \in todo :
          /\ todo' = todo \ {f}
          /\ \/ /\ have /\ Restorable(f) /\ BeginUpload(Named[f], Version[f], TRUE) /\ Quiet
             \/ up' = up /\ \E o \in Request : Take(o)
  BY DEF RestoreFile
<1>2. /\ stage = "restore" /\ todo \subseteq Files /\ stage' = stage /\ result' = result
      /\ result \in {"none", "ok", "failed"}
      /\ UNCHANGED <<palm, cacheVars, backupVars, mode, stage, auto, entry, block, account, result,
                     misread, named>>
  BY DEF RestoreFile, Restoring, IInv, ModeOK, Types, OwnTypeOK
<1>3. LinkTypeOK'
  BY <1>1, AskedPalm, SameLink DEF Quiet
<1>4. /\ have' \in BOOLEAN /\ short' \in BOOLEAN /\ listed' \in [DB -> Ver \union {None}]
      /\ UNCHANGED <<dir, copy, done, have, listed, short>> /\ NoDowngrade'
  BY <1>2 DEF IInv, Types, BackupTypeOK, RestoreOK, NoDowngrade, backupVars
<1>5. CASE up' = up
  <2>1. UploadTypeOK' /\ RestoreOK'
    BY <1>2, <1>4, <1>5 DEF IInv, Types, UploadTypeOK, RestoreOK
  <2> QED
    BY <1>1, <1>2, <1>3, <1>4, <2>1, RestoreStep
<1>6. CASE have /\ Restorable(f) /\ BeginUpload(Named[f], Version[f], TRUE)
  <2>1. /\ up' \in [at : UploadSteps \union UploadResults, db : DB, ver : Ver, force : BOOLEAN]
        /\ up'.db = Named[f] /\ up'.ver = Version[f]
    BY <1>2, <1>6, Begun
  <2>2. listed[Named[f]] # None => Version[f] >= listed[Named[f]]
    BY <1>6 DEF Restorable
  <2>3. UploadTypeOK'
    BY <1>2, <2>1 DEF IInv, Types, UploadTypeOK
  <2>4. RestoreOK'
    BY <1>2, <1>4, <1>6, <2>1, <2>2 DEF RestoreOK
  <2> QED
    BY <1>1, <1>2, <1>3, <1>4, <2>3, <2>4, RestoreStep
<1> QED
  BY <1>1, <1>5, <1>6

LEMMA UnreadableOK == ASSUME IInv, Unreadable PROVE IInv'
<1>1. /\ stage = "restore" /\ UNCHANGED <<uploadVars, cacheVars, backupVars, mode, auto, entry,
                                           block, account, misread, named>>
      /\ \/ Go("restore")
         \/ Leave("ok") \/ Leave("failed")
      /\ \E f \in todo : todo' = todo \ {f}
      /\ up.at = "idle"
  BY DEF Unreadable, Restoring
<1>2. LinkTypeOK'
  BY FailedHere DEF Unreadable
<1>3. up = NoUpload
  <2>1. "idle" \notin UploadSteps \union UploadResults
    BY DEF UploadSteps, UploadResults
  <2> QED
    BY <1>1, <2>1 DEF IInv, Types, UploadTypeOK
<1>4. /\ UploadTypeOK' /\ RestoreOK' /\ have' \in BOOLEAN /\ short' \in BOOLEAN
      /\ listed' \in [DB -> Ver \union {None}] /\ UNCHANGED <<dir, copy, done>>
  BY <1>1, <1>3 DEF IInv, Types, UploadTypeOK, BackupTypeOK, RestoreOK, NoDowngrade, uploadVars, backupVars
<1>5. stage' \in {"restore", "leave"} /\ result' \in {"none", "ok", "failed"} /\ todo' \subseteq todo
  BY <1>1 DEF Go, Leave, IInv, Types, OwnTypeOK
<1> QED
  BY <1>1, <1>2, <1>4, <1>5, RestoreStep

LEMMA RestoredOK == ASSUME IInv, Restored PROVE IInv'
<1>1. /\ up.at \in UploadResults /\ up' = NoUpload
      /\ UNCHANGED <<palm, cacheVars, backupVars, mode, todo, auto, entry, block, account,
                     misread, named>>
      /\ \/ Leave("ok") \/ Leave("failed")
         \/ UNCHANGED <<stage, result>>
  BY DEF Restored
<1>2. up # NoUpload /\ stage = "restore"
  <2>1. "idle" \notin UploadResults /\ NoUpload.at = "idle"
    BY DEF UploadResults, NoUpload
  <2> QED
    BY <1>1, <2>1 DEF IInv, RestoreOK
<1>3. LinkTypeOK'
  BY AskedPalm, SameLink DEF Restored, Quiet
<1>4. /\ UploadTypeOK' /\ RestoreOK' /\ have' \in BOOLEAN /\ short' \in BOOLEAN
      /\ listed' \in [DB -> Ver \union {None}] /\ UNCHANGED <<dir, copy, done>>
  BY <1>1 DEF IInv, Types, UploadTypeOK, BackupTypeOK, RestoreOK, NoDowngrade, backupVars
<1>5. stage' \in {"restore", "leave"} /\ result' \in {"none", "ok", "failed"} /\ todo' \subseteq todo
  BY <1>1, <1>2 DEF Leave, IInv, Types, OwnTypeOK
<1> QED
  BY <1>1, <1>2, <1>3, <1>4, <1>5, RestoreStep

-----------------------------------------------------------------------------
(* A step of an upload changes its own database only, to what it uploads.  *)
Uploads ==
    /\ up # NoUpload /\ up' \in [at : UploadSteps \union UploadResults, db : DB, ver : Ver, force : BOOLEAN]
    /\ up'.db = up.db /\ up'.ver = up.ver
    /\ palm' \in [DB -> Content \union {None}]
    /\ \A d \in DB \ {up.db} : palm'[d] = palm[d]
    /\ palm'[up.db] \in {palm[up.db], Whole(up.ver), Part(up.ver)}

LEMMA UploadFacts ==
    ASSUME UploadTypeOK, up # NoUpload
    PROVE  /\ up \in [at : UploadSteps \union UploadResults, db : DB, ver : Ver, force : BOOLEAN]
           /\ palm \in [DB -> Content \union {None}]
           /\ Whole(up.ver) \in Content /\ Part(up.ver) \in Content
BY DEF UploadTypeOK, Whole, Part, Content

LEMMA UploadLink ==
    ASSUME IInv, UploadStep
    PROVE  LinkTypeOK'
<1>1. LinkTypeOK
  BY DEF IInv, Types
<1>2. CASE OpenConduit
  <2>1. PICK o \in Requests("ok", {"refused", "cancel"}) : Take(o)
    BY <1>2 DEF OpenConduit
  <2>2. "ok" \in Kinds /\ {"refused", "cancel"} \in SUBSET (Kinds \ {"ok"})
    BY DEF Kinds
  <2> QED
    BY <1>1, <2>1, <2>2, RequestFacts, TakeFacts
<1>3. CASE CreateDB
  <2>1. PICK s \in Kinds : \E o \in Requests(s, {"refused"}) : Take(o)
    BY <1>3 DEF CreateDB, Kinds
  <2>2. {"refused"} \in SUBSET (Kinds \ {"ok"})
    BY DEF Kinds
  <2> QED
    BY <1>1, <2>1, <2>2, RequestFacts, TakeFacts
<1>4. CASE OpenDB \/ DeleteAll \/ WriteRecords \/ Abandon \/ CloseDB
  BY <1>4, AskedPalm DEF OpenDB, DeleteAll, WriteRecords, Abandon, CloseDB
<1>5. CASE WriteBlock
  BY <1>5, AskedPalm, SameLink DEF WriteBlock
<1> QED
  BY <1>2, <1>3, <1>4, <1>5 DEF UploadStep

LEMMA UploadStepFacts == ASSUME IInv, UploadStep PROVE Uploads
<1>1. LinkTypeOK /\ UploadTypeOK
  BY DEF IInv, Types
<1>2. up # NoUpload
  BY DEF UploadStep, OpenConduit, CreateDB, OpenDB, DeleteAll, WriteBlock, WriteRecords, Abandon,
     CloseDB, NoUpload
<1>3. /\ up \in [at : UploadSteps \union UploadResults, db : DB, ver : Ver, force : BOOLEAN]
      /\ palm \in [DB -> Content \union {None}]
      /\ Whole(up.ver) \in Content /\ Part(up.ver) \in Content
  BY <1>1, <1>2, UploadFacts
<1>4. ASSUME NEW at \in UploadSteps \union UploadResults, UploadGoes(at), UNCHANGED palm
      PROVE  Uploads
  BY <1>2, <1>3, <1>4 DEF UploadGoes, Uploads
<1>5. ASSUME NEW at \in UploadSteps \union UploadResults, UploadGoes(at),
             NEW o, NEW c \in {Whole(up.ver), Part(up.ver)}, Becomes(o, c)
      PROVE  Uploads
  BY <1>2, <1>3, <1>5 DEF UploadGoes, Uploads, Becomes
<1>6. CASE OpenConduit \/ OpenDB \/ Abandon \/ CloseDB
  <2>1. PICK at \in {"create", "empty", "ok", "failed"} :
           UploadGoes(at) /\ UNCHANGED palm /\ (at = "ok" => up.at = "close")
    BY <1>6 DEF OpenConduit, OpenDB, Abandon, CloseDB
  <2>2. at \in UploadSteps \union UploadResults
    BY DEF UploadSteps, UploadResults
  <2> QED
    BY <1>4, <2>1, <2>2
<1>7. CASE WriteBlock
  <2>1. PICK at \in {"records", "refused", "failed"} : UploadGoes(at) /\ UNCHANGED palm
    BY <1>1, <1>7, PlainFacts DEF WriteBlock
  <2>2. at \in UploadSteps \union UploadResults
    BY DEF UploadSteps, UploadResults
  <2> QED
    BY <1>4, <2>1, <2>2
<1>8. CASE CreateDB \/ DeleteAll
  <2>0. PICK o : /\ Becomes(o, Part(up.ver))
                 /\ \/ UploadGoes(CASE o.result = "ok" -> "block"
                                     [] o.result = "exists" /\ up.force -> "open"
                                     [] OTHER -> "failed")
                    \/ UploadGoes(IF o.result = "ok" THEN "block" ELSE "abandon")
    BY <1>8 DEF CreateDB, DeleteAll
  <2>1. PICK at \in {"block", "open", "failed", "abandon"} : UploadGoes(at)
    BY <2>0 DEF UploadGoes
  <2>2. at \in UploadSteps \union UploadResults
    BY DEF UploadSteps, UploadResults
  <2> QED
    BY <1>5, <2>0, <2>1, <2>2
<1>9. CASE WriteRecords
  <2>1. PICK o \in Request : Becomes(o, Whole(up.ver))
                            /\ UploadGoes(IF o.result = "ok" THEN "close" ELSE "abandon")
    BY <1>9 DEF WriteRecords
  <2>2. o.result = "ok" => o.done
    BY <1>1, PlainFacts
  <2>3. "close" \in UploadSteps \union UploadResults /\ "abandon" \in UploadSteps \union UploadResults
    BY DEF UploadSteps
  <2>4. CASE o.result = "ok"
    BY <1>5, <2>1, <2>2, <2>3, <2>4
  <2>5. CASE o.result # "ok"
    BY <1>5, <2>1, <2>3, <2>5
  <2> QED
    BY <2>4, <2>5
<1> QED
  BY <1>6, <1>7, <1>8, <1>9 DEF UploadStep

LEMMA DoUploadOK == ASSUME IInv, DoUpload PROVE IInv'
<1>1. UNCHANGED <<cacheVars, backupVars, modeVars>> /\ Uploads /\ LinkTypeOK'
  BY UploadStepFacts, UploadLink DEF DoUpload
<1>2. /\ stage = "restore" /\ UploadTypeOK' /\ up.db \in DB /\ up.ver \in Nat
      /\ listed[up.db] # None => up.ver >= listed[up.db]
  <2>1. stage = "restore" /\ (listed[up.db] # None => up.ver >= listed[up.db])
    BY <1>1 DEF Uploads, IInv, RestoreOK
  <2>2. UploadTypeOK' /\ up.db \in DB /\ up.ver \in Nat
    BY <1>1, UploadAssumption DEF Uploads, UploadTypeOK
  <2> QED
    BY <2>1, <2>2
<1>3. /\ UNCHANGED <<have, listed, short, dir, copy, done, stage, result, todo>>
      /\ have' \in BOOLEAN /\ short' \in BOOLEAN /\ listed' \in [DB -> Ver \union {None}]
      /\ result' \in {"none", "ok", "failed"}
  BY <1>1 DEF IInv, Types, BackupTypeOK, OwnTypeOK, backupVars, modeVars
<1>4. ASSUME NEW d \in DB, palm'[d] # None, listed[d] # None
      PROVE  palm'[d].ver >= listed[d]
  <2>1. CASE palm'[d] = palm[d]
    BY <1>4, <2>1 DEF IInv, RestoreOK, NoDowngrade
  <2>2. CASE palm'[d] # palm[d]
    <3>1. d = up.db
      BY <1>1, <2>2 DEF Uploads
    <3>2. palm'[d] = Whole(up.ver) \/ palm'[d] = Part(up.ver)
      BY <1>1, <2>2, <3>1 DEF Uploads
    <3>3. palm'[d].ver = up.ver
      BY <3>2 DEF Whole, Part
    <3> QED
      BY <1>2, <1>4, <3>1, <3>3
  <2> QED
    BY <2>1, <2>2
<1>5. NoDowngrade'
  BY <1>3, <1>4 DEF NoDowngrade
<1>6. RestoreOK'
  BY <1>1, <1>2, <1>3, <1>5 DEF Uploads, IInv, RestoreOK
<1> QED
  BY <1>1, <1>2, <1>3, <1>6, RestoreStep DEF modeVars

-----------------------------------------------------------------------------
LEMMA InitOK == Init => IInv
<1> SUFFICES ASSUME Init PROVE IInv
  OBVIOUS
<1>1. /\ LinkInit /\ CacheInit /\ UploadInit /\ BackupInit
      /\ mode \in Modes /\ stage = "connect" /\ auto \in Autos
      /\ todo = {} /\ entry = 0 /\ block = 0 /\ account = Nobody /\ result = "none"
      /\ misread = FALSE /\ named = 0
  BY DEF Init
<1>2. LinkTypeOK
  BY <1>1, LinkAssumption DEF LinkInit, LinkTypeOK, Statuses, CSErrno
<1>3. ask = NoAsk /\ cache.user = NotYet /\ CacheTypeOK
  BY <1>1 DEF CacheInit, CacheTypeOK, NoAsk, AskSteps, Wants
<1>4. /\ up = NoUpload /\ palm \in [DB -> {Whole(v) : v \in Ver} \union {None}]
      /\ \A v \in Ver : Whole(v) \in Content /\ Whole(v).whole
  BY <1>1 DEF UploadInit, Whole, Content
<1>5. UploadTypeOK /\ \A d \in DB : palm[d] # None => palm[d].whole
  BY <1>4 DEF UploadTypeOK
<1>6. /\ have = FALSE /\ listed = [d \in DB |-> None] /\ short = FALSE /\ copy = NoCopy /\ done = {}
      /\ dir \in [DB -> {[ver |-> v, whole |-> TRUE, sort |-> "right"] : v \in Ver} \union {None}]
  BY <1>1 DEF BackupInit
<1>7. BackupTypeOK
  <2>0. ASSUME NEW v \in Ver PROVE [ver |-> v, whole |-> TRUE, sort |-> "right"] \in Image
    BY DEF Image
  <2>1. {[ver |-> v, whole |-> TRUE, sort |-> "right"] : v \in Ver} \subseteq Image
    BY <2>0
  <2>2. dir \in [DB -> Image \union {None}]
    BY <1>6, <2>1
  <2> QED
    BY <1>6, <2>2 DEF BackupTypeOK
<1>8. OwnTypeOK
  <2>1. 0 \in 0 .. Len(Palments) /\ 0 \in 0 .. Len(Blocks) /\ auto \in BOOLEAN
    BY <1>1, Positions, ModeAssumption
  <2> QED
    BY <1>1, <2>1 DEF OwnTypeOK, Stages
<1>9. ModeOK
  BY <1>1 DEF ModeOK, AutoStages
<1>10. WhoOK
  BY <1>1, <1>3 DEF WhoOK, AskShape, AskPlace, FreshOK, Fresh, MatchOK, AutoStages, NoAsk
<1>11. BackupOK
  BY <1>4, <1>5, <1>6 DEF BackupOK, BackupsWhole, Reading, NoCopy
<1>12. RestoreOK
  BY <1>4, <1>6 DEF RestoreOK, NoDowngrade
<1> QED
  BY <1>2, <1>3, <1>5, <1>7, <1>8, <1>9, <1>10, <1>11, <1>12 DEF IInv, Types

LEMMA NextOK == IInv /\ [Next]_vars => IInv'
<1> SUFFICES ASSUME IInv, [Next]_vars PROVE IInv'
  OBVIOUS
<1>1. CASE Connect \/ StartAsk \/ DoAsk \/ Crash \/ Close \/ Finished \/ UNCHANGED vars
  BY <1>1, ConnectOK, StartAskOK, DoAskOK, CrashOK, CloseOK, StutterOK DEF Finished
<1>2. CASE BlankPalm \/ LookupUser \/ LookupUnique \/ LookupExact \/ AutoInit \/ InitConduits
           \/ Reloaded \/ StillBlank \/ Setuid
  BY <1>2, BlankPalmOK, LookupUserOK, LookupUniqueOK, LookupExactOK, AutoInitOK, InitConduitsOK,
     ReloadedOK, StillBlankOK, SetuidOK
<1>3. CASE BlockSerial \/ BlockUser \/ InitBlock \/ InitUser \/ WriteUser
  BY <1>3, BlockSerialOK, BlockUserOK, InitBlockOK, InitUserOK, WriteUserOK
<1>4. CASE List \/ BackUp \/ DoCopy \/ BackedUp \/ AllDone
  BY <1>4, ListOK, BackUpOK, DoCopyOK, BackedUpOK, AllDoneOK
<1>5. CASE FindList \/ RestoreFile \/ Unreadable \/ DoUpload \/ Restored
  BY <1>5, FindListOK, RestoreFileOK, UnreadableOK, DoUploadOK, RestoredOK
<1> QED
  BY <1>1, <1>2, <1>3, <1>4, <1>5 DEF Next

(* In every run of every mode: what is known of the Palm is its own, or    *)
(* was asked for before the daemon gave it a user; the entry and the       *)
(* account fit it; what was backed up stays; what is restored is new       *)
(* enough.                                                                 *)
THEOREM RunModeInvariant == Spec => []IInv
<1>1. Init => IInv
  BY InitOK
<1>2. IInv /\ [Next]_vars => IInv'
  BY NextOK
<1> QED
  BY <1>1, <1>2, PTL DEF Spec

(* The types of RunMode, whatever the entries, blocks and files.           *)
THEOREM TypeCorrect == Spec => []TypeOK
<1>1. IInv => TypeOK
  BY DEF IInv, Types, OwnTypeOK, TypeOK
<1> QED
  BY <1>1, RunModeInvariant, PTL

(* A sync that starts is that of the Palm's user (run_mode_Standalone,     *)
(* run_mode_Daemon), unless the Palm's user ID could not be read.          *)
THEOREM RightUser == Spec => []SyncsRightUser
<1>1. IInv => SyncsRightUser
  <2> SUFFICES ASSUME IInv, stage = "sync", ~misread
               PROVE  IF mode = "standalone" THEN owner = Wanted(block)
                      ELSE LET e == Palments[entry]
                           IN  MatchUser(e, owner) /\ MatchId(e, owner) /\ account = e.luser
    BY DEF SyncsRightUser
  <2>1. mode \in {"standalone", "daemon"}
    BY DEF IInv, ModeOK
  <2> QED
    BY <2>1 DEF IInv, WhoOK, MatchOK
<1> QED
  BY <1>1, RunModeInvariant, PTL

(* What the log calls backed up is whole, and as the Palm had it, for the  *)
(* rest of the run (backup, in backup.c).                                  *)
THEOREM BackedUpWhole == Spec => []BackupsWhole
<1>1. IInv => BackupsWhole
  BY DEF IInv, BackupOK
<1> QED
  BY <1>1, RunModeInvariant, PTL

(* A restore makes no database older that the Palm has listed              *)
(* (is_database_restorable, in restore.c).                                 *)
THEOREM NothingOlder == Spec => []NoDowngrade
<1>1. IInv => NoDowngrade
  BY DEF IInv, RestoreOK
<1> QED
  BY <1>1, RunModeInvariant, PTL

(* Three steps change the user of a Palm.                                  *)
LEMMA SameOwner == ASSUME [Next]_vars, owner' # owner PROVE AutoInit \/ InitConduits \/ WriteUser
<1>1. CASE Connect \/ StartAsk \/ DoAsk \/ Crash \/ Close \/ Finished \/ UNCHANGED vars
  BY <1>1 DEF Connect, StartAsk, DoAsk, CacheStep, FetchSysinfo, FetchUserinfo, FetchNetsyncinfo,
     NoSerialNumber, RDLP_ROMToken, RDLP_MemMove, ReadFeature, ExpCardInfo, Crash, Close, Finished,
     vars, cacheVars
<1>2. CASE BlankPalm \/ LookupUser \/ LookupUnique \/ LookupExact \/ Reloaded \/ StillBlank \/ Setuid
  BY <1>2 DEF BlankPalm, LookupUser, LookupUnique, LookupExact, Reloaded, StillBlank, Setuid, Back, cacheVars
<1>3. CASE BlockSerial \/ BlockUser \/ InitBlock \/ InitUser
  BY <1>3 DEF BlockSerial, BlockUser, InitBlock, InitUser, Back
<1>4. CASE List \/ BackUp \/ DoCopy \/ BackedUp \/ AllDone
  BY <1>4 DEF List, BackUp, DoCopy, BackedUp, AllDone, cacheVars
<1>5. CASE FindList \/ RestoreFile \/ Unreadable \/ DoUpload \/ Restored
  BY <1>5 DEF FindList, RestoreFile, Unreadable, DoUpload, Restored, cacheVars
<1> QED
  BY <1>1, <1>2, <1>3, <1>4, <1>5 DEF Next

(* A daemon gives a user only to a Palm that has none, with the option     *)
(* autoinit, unless the Palm's user ID could not be read                   *)
(* (run_mode_Daemon).                                                      *)
THEOREM OnlyBlankInitialized == Spec => AutoinitOnlyBlank
<1>1. IInv /\ [Next]_vars => [mode = "daemon" /\ owner' # owner => (auto /\ owner.id = 0) \/ misread]_vars
  <2> SUFFICES ASSUME IInv, [Next]_vars, mode = "daemon", owner' # owner
               PROVE  (auto /\ owner.id = 0) \/ misread
    OBVIOUS
  <2>1. stage \in AutoStages
    BY SameOwner DEF AutoInit, InitConduits, WriteUser, AutoStages, IInv, ModeOK
  <2> QED
    BY <2>1 DEF IInv, WhoOK, FreshOK
<1> QED
  BY <1>1, RunModeInvariant, PTL DEF Spec, AutoinitOnlyBlank
=============================================================================
