---------------------------- MODULE SessionProofs ----------------------------
(***************************************************************************)
(* What holds of a session for every set of databases, files, versions and *)
(* preferences, every configuration and any number of failures: no file is *)
(* lost, the attic gets what is gone, and a host that the Palm names as    *)
(* its last one is in step with it.                                        *)
(***************************************************************************)
EXTENDS Session, FiniteSetTheorems, WellFoundedInduction, TLAPS

(* What each loop of do_sync goes over; the rescue directory and the       *)
(* install directory have no file in common.                               *)
TodoOK ==
    /\ stage = "list" => todo \subseteq OnPalm
    /\ stage \in {"some", "attic"} => todo \subseteq DB
    /\ stage \in {"rescue", "install"} => todo \subseteq Files
    /\ stage = "install" => todo \cap rescue = {}
    /\ stage = "sync" => todo \subseteq DB \union {Blank}
    /\ stage = "prefs" => todo \subseteq Prefs
    /\ install \cap rescue = {}

(* An upload is of one of the files in hand, and the database is whole     *)
(* after the last record.                                                  *)
UploadOK ==
    up # NoUpload =>
        /\ stage \in {"rescue", "install"} /\ fetch = NoFetch
        /\ \E f \in todo : Named[f] = up.db /\ Version[f] = up.ver
        /\ up.at \in {"close", "ok"} => palm[up.db] = Whole(up.ver)

FetchOK == fetch # NoFetch => stage \in {"fetch", "sync", "prefs", "crashed"}

(* Without a refusal, the list has room for the databases it is to have.   *)
CountOK == stage = "list" /\ ~short => room = Cardinality(todo)

(* What the list does not have although the Palm does.                     *)
ListOK ==
    \A d \in OnPalm : listed[d] = None =>
        \/ stage \in {"dirs", "leave", "dump", "done", "crashed"}
        \/ stage = "list" /\ d \in todo
        \/ opts.filter \/ short \/ d \in botched
        \/ up # NoUpload /\ up.db = d

(* A database in step, or one of those that are known not to be.           *)
Kept(d) == backup[d] = palm[d] \/ opts.filter \/ short \/ d \in unsynced \union botched
Later(d) == ~opts.first /\ \E f \in Files \ rescue : Named[f] = d
Afterwards == stage \in {"conduits", "install"} /\ ~opts.first

SyncOK ==
    /\ stage = "sync" => \A d \in OnPalm : Kept(d) \/ d \in todo
    /\ recorded \/ stage \in {"attic", "userinfo", "prefs"} \/ Afterwards =>
          \A d \in OnPalm : Kept(d) \/ Later(d)
    /\ recorded => stage \in {"prefs", "leave", "dump", "done", "crashed"} \/ Afterwards

(* TypeOK without the parts of the other modules.                          *)
OwnTypeOK ==
    /\ stage \in Stages
    /\ todo \subseteq DB \union {Blank} \union Files \union Prefs
    /\ room \in Nat /\ listed \in [DB -> Ver \union {None}] /\ blank \in BOOLEAN
    /\ rescue \subseteq Files /\ install \subseteq Files
    /\ backup \in [DB -> Content \union {None}]
    /\ attic \in [DB -> [1 .. Slots -> Content \union {None}]]
    /\ recorded \in BOOLEAN
    /\ opts \in [filter : BOOLEAN, first : BOOLEAN, force : BOOLEAN]
    /\ result \in {"none", "ok", "failed"}
    /\ short \in BOOLEAN /\ unsynced \subseteq DB /\ botched \subseteq DB
    /\ stray \subseteq Prefs

Types == LinkTypeOK /\ UploadTypeOK /\ PrefTypeOK /\ OwnTypeOK
Rest  == TodoOK /\ UploadOK /\ FetchOK /\ CountOK /\ ListOK /\ SyncOK
IInv  == Types /\ FreedOnlyWhenLost /\ Rest

-----------------------------------------------------------------------------
(* What a request can come to.                                             *)
Kinds == {"ok", "refused", "exists", "cancel"}

(* A fault that is left to happen.                                         *)
LEMMA OneMore ==
    ASSUME LinkTypeOK
    PROVE  faults + 0 \in 0 .. MaxFaults /\ (faults # MaxFaults => faults + 1 \in 0 .. MaxFaults)
BY LinkAssumption DEF LinkTypeOK

LEMMA ErrorTypes ==
    ASSUME NEW c \in CSErrno, NEW e
    PROVE  AfterPconn(e, c) \in CSErrno /\ AfterDlp(e, c) \in CSErrno
BY DEF AfterPconn, AfterDlp, CSErrno

LEMMA RequestFacts ==
    ASSUME LinkTypeOK, NEW s \in Kinds, NEW others \in SUBSET (Kinds \ {"ok"}),
           NEW o \in Requests(s, others)
    PROVE  /\ o \in Outcome
           /\ o.result \in {s, "failed"} \union others
           /\ o.done => s = "ok" /\ o.result \in {"ok", "failed"}
           /\ o.result = "ok" => o.done
           /\ o.result = "failed" => o.wire = "down"
           /\ wire = "down" => o.wire = "down"
<1>0. /\ wire \in {"up", "down"} /\ status \in Statuses /\ cs \in CSErrno /\ "lost" \in Statuses
      /\ \A a \in {s} \union others : a \in {"ok", "refused", "exists", "cancel", "failed"}
  BY DEF LinkTypeOK, Statuses, Kinds
<1>1. ASSUME NEW e \in Errors, NEW done \in BOOLEAN, NEW cost \in {0, 1}, o = NoAnswer(e, done, cost),
             cost = 1 => faults # MaxFaults, done => s = "ok"
      PROVE  /\ o \in Outcome /\ o.result = "failed" /\ o.wire = "down"
             /\ o.done => s = "ok"
  <2>1. AfterPconn(e, cs) \in CSErrno /\ faults + cost \in 0 .. MaxFaults
    BY <1>0, <1>1, OneMore, ErrorTypes
  <2> QED
    BY <1>0, <1>1, <2>1 DEF NoAnswer, Outcome
<1>2. ASSUME NEW a \in {s} \union others, NEW cost \in {0, 1}, o = Answer(a, cost),
             cost = 1 => faults # MaxFaults, wire = "up", a = "ok" => s = "ok"
      PROVE  /\ o \in Outcome /\ o.result = a /\ o.wire = "up"
             /\ (o.done <=> a = "ok")
  <2>1. AfterDlp(a, cs) \in CSErrno /\ faults + cost \in 0 .. MaxFaults
    BY <1>0, <1>2, OneMore, ErrorTypes
  <2> QED
    BY <1>0, <1>2, <2>1 DEF Answer, Outcome
<1>3. ASSUME o = Late(s), faults # MaxFaults, wire = "up"
      PROVE  /\ o \in Outcome /\ o.result = s /\ o.wire = "up"
             /\ (o.done <=> s = "ok")
  <2>1. AfterDlp(s, AfterPconn("timeout", cs)) \in CSErrno /\ faults + 1 \in 0 .. MaxFaults
    BY <1>0, <1>3, OneMore, ErrorTypes
  <2> QED
    BY <1>0, <1>3, <2>1 DEF Late, Outcome
<1>4. CASE wire = "down"
  <2>1. \E e \in Errors, done \in BOOLEAN : o = NoAnswer(e, done, 0) /\ ~done
    BY <1>4 DEF Requests, NoAnswer
  <2> QED
    BY <1>1, <1>4, <2>1
<1>5. CASE wire # "down"
  <2>1. wire = "up" /\ (s = "ok") \in BOOLEAN
    BY <1>0, <1>5
  <2>2. \/ o = Answer(s, 0)
        \/ /\ faults # MaxFaults
           /\ \/ o = Late(s)
              \/ \E a \in others : o = Answer(a, 1)
              \/ \E e \in Errors : o = NoAnswer(e, FALSE, 1) \/ o = NoAnswer(e, s = "ok", 1)
    BY <1>5 DEF Requests, NoAnswer, Answer, Late
  <2>3. CASE o = Answer(s, 0)
    BY <1>2, <1>5, <2>1, <2>3 DEF Kinds
  <2>4. CASE faults # MaxFaults /\ o = Late(s)
    BY <1>3, <1>5, <2>1, <2>4 DEF Kinds
  <2>5. ASSUME faults # MaxFaults, NEW a \in others, o = Answer(a, 1)
        PROVE  /\ o \in Outcome /\ o.result = a /\ o.wire = "up" /\ ~o.done
    BY <1>2, <2>1, <2>5
  <2>6. ASSUME faults # MaxFaults, NEW e \in Errors,
               o = NoAnswer(e, FALSE, 1) \/ o = NoAnswer(e, s = "ok", 1)
        PROVE  /\ o \in Outcome /\ o.result = "failed" /\ o.wire = "down" /\ (o.done => s = "ok")
    BY <1>1, <2>1, <2>6
  <2> QED
    BY <1>5, <2>2, <2>3, <2>4, <2>5, <2>6 DEF Kinds
<1> QED
  BY <1>4, <1>5

LEMMA PlainFacts ==
    ASSUME LinkTypeOK, NEW o \in Request
    PROVE  /\ o \in Outcome
           /\ o.result \in {"ok", "refused", "failed"}
           /\ o.done => o.result \in {"ok", "failed"}
           /\ o.result = "ok" => o.done
           /\ o.result = "failed" => o.wire = "down"
           /\ wire = "down" => o.wire = "down"
BY RequestFacts DEF Request, Kinds

LEMMA LocalFacts ==
    ASSUME LinkTypeOK, NEW o \in LocalFailure
    PROVE  o \in Outcome /\ o.result = "failed" /\ o.wire = wire /\ faults # MaxFaults
<1>1. faults # MaxFaults
  BY DEF LocalFailure
<1>2. o = [result |-> "failed", done |-> FALSE, wire |-> wire, status |-> status,
           cs |-> cs, faults |-> faults + 1]
  BY DEF LocalFailure
<1> QED
  BY <1>1, <1>2, OneMore DEF LinkTypeOK, Outcome

(* The connection never comes up again.                                    *)
LEMMA TakeFacts ==
    ASSUME LinkTypeOK, NEW o \in Outcome, Take(o)
    PROVE  LinkTypeOK' /\ wire' = o.wire
BY DEF Take, Outcome, LinkTypeOK

(* Nothing of a Palm that is still there has been freed.                   *)
LEMMA StillFreed ==
    ASSUME IInv, LinkTypeOK', wire = "down" => wire' = "down", UNCHANGED <<uploadVars, prefVars>>
    PROVE  LinkTypeOK' /\ UploadTypeOK' /\ PrefTypeOK' /\ FreedOnlyWhenLost'
BY DEF IInv, Types, UploadTypeOK, PrefTypeOK, FreedOnlyWhenLost, uploadVars, prefVars

LEMMA SameLink ==
    ASSUME IInv, UNCHANGED linkVars
    PROVE  LinkTypeOK' /\ (wire = "down" => wire' = "down")
BY DEF IInv, Types, LinkTypeOK, linkVars

LEMMA AskedPalm ==
    ASSUME IInv, NEW o \in Request, Take(o)
    PROVE  LinkTypeOK' /\ (wire = "down" => wire' = "down")
<1>1. LinkTypeOK
  BY DEF IInv, Types
<1> QED
  BY <1>1, PlainFacts, TakeFacts

LEMMA FailedHere ==
    ASSUME IInv, NEW o \in LocalFailure, Take(o)
    PROVE  LinkTypeOK' /\ (wire = "down" => wire' = "down")
<1>1. LinkTypeOK
  BY DEF IInv, Types
<1> QED
  BY <1>1, LocalFacts, TakeFacts

(* A request about one database, which the Palm may not have.              *)
LEMMA AskedAbout ==
    ASSUME IInv, NEW d, NEW o \in Requests(IF d \in OnPalm THEN "ok" ELSE "refused", {"refused"}),
           Take(o)
    PROVE  /\ LinkTypeOK' /\ (wire = "down" => wire' = "down")
           /\ o.result \in {"ok", "refused", "failed"}
           /\ o.result = "ok" => d \in OnPalm
           /\ o.done => d \in OnPalm
<1>1. LinkTypeOK
  BY DEF IInv, Types
<1> DEFINE s == IF d \in OnPalm THEN "ok" ELSE "refused"
<1>2. s \in Kinds /\ {"refused"} \in SUBSET (Kinds \ {"ok"}) /\ (s = "ok" <=> d \in OnPalm)
      /\ s \in {"ok", "refused"}
  BY DEF Kinds
<1>3. o \in Requests(s, {"refused"})
  OBVIOUS
<1> HIDE DEF s
<1>4. /\ o \in Outcome /\ o.result \in {s, "failed"} \union {"refused"}
      /\ (o.done => s = "ok") /\ (o.result = "ok" => o.done)
      /\ (wire = "down" => o.wire = "down")
  BY <1>1, <1>2, <1>3, RequestFacts
<1> QED
  BY <1>1, <1>2, <1>4, TakeFacts

(* Between two loops there is neither an upload nor a fetch.               *)
LEMMA IdleFacts ==
    /\ IInv /\ up.at = "idle" => up = NoUpload
    /\ IInv /\ fetch.at = "idle" => fetch = NoFetch
    /\ IInv /\ Idle => up = NoUpload /\ fetch = NoFetch
BY DEF IInv, Types, UploadTypeOK, PrefTypeOK, Idle, UploadSteps, UploadResults

-----------------------------------------------------------------------------
LEMMA StartOK == ASSUME IInv, Start PROVE IInv'
<1>1. up = NoUpload /\ fetch = NoFetch /\ stage = "dirs"
  BY IdleFacts DEF Start, At
<1>2. LinkTypeOK' /\ (wire = "down" => wire' = "down")
  BY SameLink, FailedHere DEF Start
<1>3. Types' /\ FreedOnlyWhenLost'
  <2>1. OnPalm \subseteq DB /\ Cardinality(OnPalm) \in Nat
    BY SessionAssumption, FS_Subset, FS_CardinalityType DEF OnPalm
  <2>2. OwnTypeOK'
    BY <2>1, SessionAssumption
    DEF Start, IInv, Types, OwnTypeOK, Go, Leave, Stages, ghostVars, fileVars
  <2> QED
    BY <1>2, <2>2, StillFreed DEF Start, Types
<1>4. TodoOK' /\ UploadOK' /\ FetchOK' /\ CountOK'
  BY <1>1, SessionAssumption DEF Start, IInv, Rest, TodoOK, UploadOK, FetchOK, CountOK, Go, Leave, OnPalm,
     uploadVars, prefVars, fileVars, ghostVars
<1>5. ListOK' /\ SyncOK'
  BY <1>1, SessionAssumption DEF Start, IInv, Types, OwnTypeOK, Rest, ListOK, SyncOK, Afterwards, Go, Leave, OnPalm,
     uploadVars, fileVars, ghostVars
<1> QED
  BY <1>3, <1>4, <1>5 DEF IInv, Rest

LEMMA ListStepOK == ASSUME IInv, ListStep PROVE IInv'
<1>1. up = NoUpload /\ fetch = NoFetch /\ stage = "list" /\ room > 0 /\ room \in Nat /\ todo \subseteq OnPalm
  BY IdleFacts DEF ListStep, At, IInv, Rest, TodoOK, Types, OwnTypeOK
<1>2. PICK o \in Request, d \in todo :
          /\ Take(o)
          /\ \/ /\ listed' = [listed EXCEPT ![d] = palm[d].ver]
                /\ room' = room - 1 /\ Go("list", todo \ {d})
                /\ UNCHANGED <<blank, short>>
             \/ /\ short' = TRUE /\ UNCHANGED listed
                /\ \/ Go("list", {}) /\ blank' = TRUE /\ UNCHANGED room
                   \/ UNCHANGED <<stage, todo, result, blank, room>>
                   \/ Go("list", todo) /\ blank' = TRUE /\ room' = room - 1
             \/ Leave("failed") /\ UNCHANGED <<listVars, short>>
  BY DEF ListStep
<1>3. LinkTypeOK' /\ (wire = "down" => wire' = "down")
  BY <1>2, AskedPalm
<1>4. palm[d] \in Content /\ palm[d].ver \in Ver /\ d \in DB
  BY <1>1 DEF IInv, Types, UploadTypeOK, OnPalm, Content
<1>5. IsFiniteSet(todo) /\ Cardinality(todo \ {d}) = Cardinality(todo) - 1
  <2>1. IsFiniteSet(todo)
    BY <1>1, SessionAssumption, FS_Subset DEF OnPalm
  <2> QED
    BY <2>1, FS_RemoveElement
<1>6. UNCHANGED <<uploadVars, prefVars, fileVars, recorded, opts, unsynced, botched, stray>>
  BY DEF ListStep
<1>7. Types' /\ FreedOnlyWhenLost'
  <2>1. listed' \in [DB -> Ver \union {None}] /\ room' \in Nat /\ stage' \in Stages
    BY <1>1, <1>2, <1>4 DEF IInv, Types, OwnTypeOK, Go, Leave, Stages, listVars
  <2>2. OwnTypeOK'
    BY <1>2, <1>6, <2>1 DEF IInv, Types, OwnTypeOK, Go, Leave, fileVars, listVars
  <2> QED
    BY <1>3, <1>6, <2>2, StillFreed DEF Types
<1>8. TodoOK' /\ UploadOK' /\ FetchOK'
  BY <1>1, <1>2, <1>6 DEF IInv, Rest, TodoOK, UploadOK, FetchOK, Go, Leave, OnPalm,
     uploadVars, prefVars, fileVars
<1>10. CountOK'
  BY <1>1, <1>2, <1>5 DEF IInv, Rest, CountOK, Go, Leave
<1>9. ListOK' /\ SyncOK'
  BY <1>1, <1>2, <1>4, <1>6, UploadAssumption DEF IInv, Types, OwnTypeOK, Rest, ListOK, SyncOK,
     Afterwards, Go, Leave, OnPalm, uploadVars, fileVars, listVars
<1> QED
  BY <1>7, <1>8, <1>9, <1>10 DEF IInv, Rest

LEMMA FetchSomeOK == ASSUME IInv, FetchSome PROVE IInv'
<1>1. up = NoUpload /\ fetch = NoFetch /\ stage = "some" /\ todo \subseteq DB
  BY IdleFacts DEF FetchSome, At, IInv, Rest, TodoOK
<1>0. PICK d \in todo :
       \E o \in Requests(IF d \in OnPalm THEN "ok" ELSE "refused", {"refused"}) :
          /\ Take(o)
          /\ listed' = IF o.result = "ok" THEN [listed EXCEPT ![d] = palm[d].ver] ELSE listed
          /\ Go("some", todo \ {d})
          /\ short' = (short \/ (d \in OnPalm /\ o.result # "ok"))
  BY DEF FetchSome
<1>2. PICK o \in Requests(IF d \in OnPalm THEN "ok" ELSE "refused", {"refused"}) :
          /\ Take(o)
          /\ listed' = IF o.result = "ok" THEN [listed EXCEPT ![d] = palm[d].ver] ELSE listed
          /\ Go("some", todo \ {d})
          /\ short' = (short \/ (d \in OnPalm /\ o.result # "ok"))
  BY <1>0
<1>3. LinkTypeOK' /\ (wire = "down" => wire' = "down") /\ (o.result = "ok" => d \in OnPalm)
  BY <1>2, AskedAbout
<1>4. UNCHANGED <<uploadVars, prefVars, room, blank, fileVars, recorded, opts,
                  unsynced, botched, stray>>
  BY DEF FetchSome
<1>5. d \in OnPalm => palm[d].ver \in Ver
  BY DEF IInv, Types, UploadTypeOK, OnPalm, Content
<1>6. listed' \in [DB -> Ver \union {None}] /\ short' \in BOOLEAN
  BY <1>1, <1>2, <1>3, <1>5 DEF IInv, Types, OwnTypeOK
<1>7. Types' /\ FreedOnlyWhenLost'
  <2>1. OwnTypeOK'
    BY <1>1, <1>2, <1>4, <1>6 DEF IInv, Types, OwnTypeOK, Go, Stages, fileVars
  <2> QED
    BY <1>3, <1>4, <2>1, StillFreed DEF Types
<1>8. TodoOK' /\ UploadOK' /\ FetchOK' /\ CountOK'
  BY <1>1, <1>2, <1>4 DEF IInv, Rest, TodoOK, UploadOK, FetchOK, CountOK, Go, uploadVars, prefVars, fileVars
<1>9. ListOK' /\ SyncOK'
  <2>1. \A e \in OnPalm : listed'[e] = None => listed[e] = None
    BY <1>1, <1>2, <1>3, <1>5, UploadAssumption DEF IInv, Types, OwnTypeOK, OnPalm
  <2>2. short => short'
    BY <1>2
  <2> QED
    BY <1>1, <1>2, <1>4, <2>1, <2>2
    DEF IInv, Rest, ListOK, SyncOK, Kept, Later, Afterwards, Go, OnPalm, uploadVars, fileVars
<1> QED
  BY <1>7, <1>8, <1>9 DEF IInv, Rest

LEMMA ListDoneOK == ASSUME IInv, ListDone PROVE IInv'
<1>1. up = NoUpload /\ fetch = NoFetch /\ stage \in {"list", "some"}
  BY IdleFacts DEF ListDone, At
<1>2. Types' /\ FreedOnlyWhenLost'
  <2>1. OwnTypeOK'
    BY DEF ListDone, Go, IInv, Types, OwnTypeOK, Stages, fileVars, listVars, ghostVars
  <2> QED
    BY <2>1, SameLink, StillFreed DEF ListDone, Types
<1>3. TodoOK' /\ UploadOK' /\ FetchOK' /\ CountOK'
  BY <1>1 DEF ListDone, Go, IInv, Types, OwnTypeOK, Rest, TodoOK, UploadOK, FetchOK, CountOK,
     uploadVars, prefVars, fileVars
<1>4. ListOK'
  <2>1. stage = "list" /\ ~short => todo = {}
    <3>1. stage = "list" => IsFiniteSet(todo)
      BY SessionAssumption, FS_Subset DEF IInv, Rest, TodoOK, OnPalm
    <3>2. stage = "list" => room = 0 \/ todo = {}
      BY DEF ListDone, At
    <3> QED
      BY <3>1, <3>2, FS_EmptySet DEF IInv, Rest, CountOK
  <2> QED
    BY <1>1, <2>1 DEF ListDone, Go, IInv, Rest, ListOK, OnPalm, uploadVars, listVars, ghostVars
<1>5. SyncOK'
  BY <1>1 DEF ListDone, Go, IInv, Rest, SyncOK, Afterwards
<1> QED
  BY <1>2, <1>3, <1>4, <1>5 DEF IInv, Rest

-----------------------------------------------------------------------------
LEMMA SkipFileOK == ASSUME IInv, SkipFile PROVE IInv'
<1>1. up = NoUpload /\ fetch = NoFetch /\ stage \in {"rescue", "install"}
  BY IdleFacts DEF SkipFile, Installing
<1>2. LinkTypeOK' /\ (wire = "down" => wire' = "down")
  BY SameLink, FailedHere DEF SkipFile
<1>3. Types' /\ FreedOnlyWhenLost'
  <2>1. OwnTypeOK'
    BY DEF SkipFile, Go, IInv, Types, OwnTypeOK, fileVars, listVars, ghostVars
  <2> QED
    BY <1>2, <2>1, StillFreed DEF SkipFile, Types
<1>4. TodoOK' /\ UploadOK' /\ FetchOK' /\ CountOK'
  BY <1>1 DEF SkipFile, Go, IInv, Rest, TodoOK, UploadOK, FetchOK, CountOK,
     uploadVars, prefVars, fileVars
<1>5. ListOK'
  BY <1>1 DEF SkipFile, Go, IInv, Rest, ListOK, OnPalm, uploadVars, listVars, ghostVars
<1>6. SyncOK'
  BY <1>1 DEF SkipFile, Go, IInv, Rest, SyncOK, Kept, Later, Afterwards, OnPalm,
     uploadVars, fileVars, ghostVars
<1> QED
  BY <1>3, <1>4, <1>5, <1>6 DEF IInv, Rest

LEMMA InstallFileOK == ASSUME IInv, InstallFile PROVE IInv'
<1>1. up = NoUpload /\ fetch = NoFetch /\ stage \in {"rescue", "install"} /\ todo \subseteq Files
  BY IdleFacts DEF InstallFile, Installing, IInv, Rest, TodoOK
<1>2. PICK f \in todo :
          /\ BeginUpload(Named[f], Version[f], Forced \/ listed[Named[f]] # None)
          /\ \/ \E o \in Requests(IF Named[f] \in OnPalm THEN "ok" ELSE "refused", {"refused"}) :
                   Take(o) /\ palm' = IF o.done THEN [palm EXCEPT ![Named[f]] = None] ELSE palm
             \/ UNCHANGED <<linkVars, palm>>
  BY DEF InstallFile
<1>3. LinkTypeOK' /\ (wire = "down" => wire' = "down")
      /\ palm' \in {palm, [palm EXCEPT ![Named[f]] = None]}
  BY <1>2, AskedAbout, SameLink
<1>4. UNCHANGED <<prefVars, stage, todo, result, listVars, fileVars, recorded, opts, ghostVars>>
  BY DEF InstallFile
<1>5. /\ Named[f] \in DB /\ Version[f] \in Ver
      /\ up' = [at |-> "conduit", db |-> Named[f], ver |-> Version[f],
                force |-> Forced \/ listed[Named[f]] # None]
      /\ up' # NoUpload
  BY <1>1, <1>2, SessionAssumption DEF BeginUpload, NoUpload
<1>6. Types' /\ FreedOnlyWhenLost'
  <2>1. OwnTypeOK'
    BY <1>4 DEF IInv, Types, OwnTypeOK, fileVars, listVars, ghostVars
  <2>2. UploadTypeOK'
    BY <1>3, <1>5 DEF IInv, Types, UploadTypeOK, UploadSteps
  <2>3. PrefTypeOK' /\ FreedOnlyWhenLost'
    BY <1>3, <1>4 DEF IInv, Types, PrefTypeOK, FreedOnlyWhenLost, prefVars
  <2> QED
    BY <1>3, <2>1, <2>2, <2>3 DEF Types
<1>7. TodoOK' /\ UploadOK' /\ FetchOK' /\ CountOK'
  BY <1>1, <1>2, <1>4, <1>5 DEF IInv, Rest, TodoOK, UploadOK, FetchOK, CountOK, prefVars, fileVars
<1>8. \A e \in OnPalm' : e \in OnPalm /\ palm'[e] = palm[e]
  BY <1>3, <1>5 DEF OnPalm, IInv, Types, UploadTypeOK
<1>9. ListOK'
  BY <1>1, <1>4, <1>8 DEF IInv, Rest, ListOK, listVars, ghostVars
<1>10. SyncOK'
  BY <1>1, <1>4, <1>8 DEF IInv, Rest, SyncOK, Kept, Later, Afterwards, fileVars, ghostVars
<1> QED
  BY <1>6, <1>7, <1>9, <1>10 DEF IInv, Rest

-----------------------------------------------------------------------------
(* Each step of an upload changes its own database only, and leaves it     *)
(* whole before it is closed.                                              *)
Uploads ==
    /\ up # NoUpload /\ up' \in [at : UploadSteps \union UploadResults, db : DB, ver : Ver, force : BOOLEAN]
    /\ up'.db = up.db /\ up'.ver = up.ver
    /\ palm' \in [DB -> Content \union {None}]
    /\ \A d \in DB \ {up.db} : palm'[d] = palm[d]
    /\ up'.at \in {"close", "ok"} => palm'[up.db] = Whole(up.ver)

LEMMA UploadFacts ==
    ASSUME UploadTypeOK, up # NoUpload
    PROVE  /\ up \in [at : UploadSteps \union UploadResults, db : DB, ver : Ver, force : BOOLEAN]
           /\ palm \in [DB -> Content \union {None}]
           /\ Whole(up.ver) \in Content /\ Part(up.ver) \in Content
BY DEF UploadTypeOK, Whole, Part, Content

LEMMA UploadLink ==
    ASSUME IInv, UploadStep
    PROVE  LinkTypeOK' /\ (wire = "down" => wire' = "down")
<1>1. LinkTypeOK
  BY DEF IInv, Types
<1>2. CASE OpenConduit
  <2>1. PICK o \in Requests("ok", {"refused", "cancel"}) : Take(o)
    BY <1>2 DEF OpenConduit
  <2>2. "ok" \in Kinds /\ {"refused", "cancel"} \in SUBSET (Kinds \ {"ok"})
    BY DEF Kinds
  <2> QED
    BY <1>1, <2>1, <2>2, RequestFacts, TakeFacts
<1>3. CASE CreateDB
  <2>1. PICK s \in Kinds : \E o \in Requests(s, {"refused"}) : Take(o)
    BY <1>3 DEF CreateDB, Kinds
  <2>2. {"refused"} \in SUBSET (Kinds \ {"ok"})
    BY DEF Kinds
  <2> QED
    BY <1>1, <2>1, <2>2, RequestFacts, TakeFacts
<1>4. CASE OpenDB \/ DeleteAll \/ WriteRecords \/ Abandon \/ CloseDB
  BY <1>4, AskedPalm DEF OpenDB, DeleteAll, WriteRecords, Abandon, CloseDB
<1>5. CASE WriteBlock
  BY <1>5, AskedPalm, SameLink DEF WriteBlock
<1> QED
  BY <1>2, <1>3, <1>4, <1>5 DEF UploadStep

LEMMA UploadStepFacts == ASSUME IInv, UploadStep PROVE Uploads
<1>1. /\ LinkTypeOK /\ UploadTypeOK
      /\ up # NoUpload => (up.at \in {"close", "ok"} => palm[up.db] = Whole(up.ver))
  BY DEF IInv, Types, Rest, UploadOK
<1>2. up # NoUpload
  BY DEF UploadStep, OpenConduit, CreateDB, OpenDB, DeleteAll, WriteBlock, WriteRecords,
     Abandon, CloseDB, NoUpload
<1>3. /\ up \in [at : UploadSteps \union UploadResults, db : DB, ver : Ver, force : BOOLEAN]
      /\ palm \in [DB -> Content \union {None}]
      /\ Whole(up.ver) \in Content /\ Part(up.ver) \in Content
  BY <1>1, <1>2, UploadFacts
<1>4. ASSUME NEW at \in UploadSteps \union UploadResults, UploadGoes(at), UNCHANGED palm,
             at \in {"close", "ok"} => up.at = "close"
      PROVE  Uploads
  BY <1>1, <1>2, <1>3, <1>4 DEF UploadGoes, Uploads
<1>5. ASSUME NEW at \in UploadSteps \union UploadResults, UploadGoes(at),
             NEW o, NEW c \in {Whole(up.ver), Part(up.ver)}, Becomes(o, c),
             at \in {"close", "ok"} => o.done /\ c = Whole(up.ver)
      PROVE  Uploads
  BY <1>2, <1>3, <1>5 DEF UploadGoes, Uploads, Becomes
<1>6. CASE OpenConduit \/ OpenDB \/ Abandon \/ CloseDB
  <2>1. PICK at \in {"create", "empty", "ok", "failed"} :
           UploadGoes(at) /\ UNCHANGED palm /\ (at = "ok" => up.at = "close")
    BY <1>6 DEF OpenConduit, OpenDB, Abandon, CloseDB
  <2>2. at \in UploadSteps \union UploadResults
    BY DEF UploadSteps, UploadResults
  <2> QED
    BY <1>4, <2>1, <2>2
<1>7. CASE WriteBlock
  <2>1. PICK at \in {"records", "refused", "failed"} : UploadGoes(at) /\ UNCHANGED palm
    BY <1>1, <1>7, PlainFacts DEF WriteBlock
  <2>2. at \in UploadSteps \union UploadResults
    BY DEF UploadSteps, UploadResults
  <2> QED
    BY <1>4, <2>1, <2>2
<1>8. CASE CreateDB \/ DeleteAll
  <2>0. PICK o : /\ Becomes(o, Part(up.ver))
                 /\ \/ UploadGoes(CASE o.result = "ok" -> "block"
                                     [] o.result = "exists" /\ up.force -> "open"
                                     [] OTHER -> "failed")
                    \/ UploadGoes(IF o.result = "ok" THEN "block" ELSE "abandon")
    BY <1>8 DEF CreateDB, DeleteAll
  <2>1. PICK at \in {"block", "open", "failed", "abandon"} : UploadGoes(at)
    BY <2>0 DEF UploadGoes
  <2>2. at \in UploadSteps \union UploadResults
    BY DEF UploadSteps, UploadResults
  <2> QED
    BY <1>5, <2>0, <2>1, <2>2
<1>9. CASE WriteRecords
  <2>1. PICK o \in Request : Becomes(o, Whole(up.ver))
                            /\ UploadGoes(IF o.result = "ok" THEN "close" ELSE "abandon")
    BY <1>9 DEF WriteRecords
  <2>2. o.result = "ok" => o.done
    BY <1>1, PlainFacts
  <2>3. "close" \in UploadSteps \union UploadResults /\ "abandon" \in UploadSteps \union UploadResults
    BY DEF UploadSteps
  <2>4. CASE o.result = "ok"
    BY <1>5, <2>1, <2>2, <2>3, <2>4
  <2>5. CASE o.result # "ok"
    BY <1>5, <2>1, <2>3, <2>5
  <2> QED
    BY <2>4, <2>5
<1> QED
  BY <1>6, <1>7, <1>8, <1>9 DEF UploadStep

LEMMA DoUploadOK == ASSUME IInv, DoUpload PROVE IInv'
<1>1. Uploads /\ LinkTypeOK' /\ (wire = "down" => wire' = "down")
  BY UploadStepFacts, UploadLink DEF DoUpload
<1>2. /\ stage \in {"rescue", "install"} /\ fetch = NoFetch
      /\ \E f \in todo : Named[f] = up.db /\ Version[f] = up.ver
  BY <1>1 DEF Uploads, IInv, Rest, UploadOK
<1>3. UNCHANGED <<prefVars, stage, todo, listVars, fileVars, recorded, opts, result, ghostVars>>
  BY DEF DoUpload
<1>4. up' # NoUpload
  <2>1. "idle" \notin UploadSteps \union UploadResults
    BY DEF UploadSteps, UploadResults
  <2> QED
    BY <1>1, <2>1 DEF Uploads, NoUpload
<1>5. Types' /\ FreedOnlyWhenLost'
  <2>1. OwnTypeOK'
    BY <1>3 DEF IInv, Types, OwnTypeOK, fileVars, listVars, ghostVars
  <2>2. UploadTypeOK'
    BY <1>1 DEF Uploads, UploadTypeOK
  <2>3. PrefTypeOK' /\ FreedOnlyWhenLost'
    BY <1>1, <1>3 DEF IInv, Types, PrefTypeOK, FreedOnlyWhenLost, prefVars
  <2> QED
    BY <1>1, <2>1, <2>2, <2>3 DEF Types
<1>6. TodoOK' /\ UploadOK' /\ FetchOK' /\ CountOK'
  BY <1>1, <1>2, <1>3 DEF Uploads, IInv, Rest, TodoOK, UploadOK, FetchOK, CountOK, prefVars, fileVars
<1>7. \A d \in OnPalm' : d = up.db \/ (d \in OnPalm /\ palm'[d] = palm[d])
  BY <1>1 DEF Uploads, OnPalm
<1>8. ListOK'
  BY <1>1, <1>3, <1>4, <1>7 DEF Uploads, IInv, Rest, ListOK, listVars, ghostVars
<1>9. SyncOK'
  <2>1. stage = "install" /\ ~opts.first => Later(up.db)
    BY <1>2 DEF Later, IInv, Types, OwnTypeOK, Rest, TodoOK
  <2> QED
    BY <1>2, <1>3, <1>7, <2>1 DEF IInv, Rest, SyncOK, Kept, Later, Afterwards, fileVars, ghostVars
<1> QED
  BY <1>5, <1>6, <1>8, <1>9 DEF IInv, Rest

LEMMA InstallFailedOK == ASSUME IInv, InstallFailed PROVE IInv'
<1>1. up # NoUpload /\ fetch = NoFetch /\ stage \in {"rescue", "install"}
  BY DEF InstallFailed, Installing, NoUpload, IInv, Rest, UploadOK
<1>2. LinkTypeOK' /\ (wire = "down" => wire' = "down")
  BY AskedPalm DEF InstallFailed
<1>3. up.db \in DB
  BY <1>1 DEF IInv, Types, UploadTypeOK
<1>4. PICK f \in Current :
          \/ Go(stage, todo \ {f})
          \/ stage = "rescue" /\ Go("rescue", {})
          \/ Leave("failed")
  BY DEF InstallFailed
<1>5. /\ botched' = botched \union {up.db} /\ up' = NoUpload
      /\ UNCHANGED <<palm, prefVars, listVars, fileVars, recorded, opts, short, unsynced, stray>>
  BY DEF InstallFailed
<1>6. Types' /\ FreedOnlyWhenLost'
  <2>1. OwnTypeOK'
    BY <1>3, <1>4, <1>5 DEF Go, Leave, Stages, IInv, Types, OwnTypeOK, fileVars, listVars
  <2>2. UploadTypeOK'
    BY <1>5 DEF IInv, Types, UploadTypeOK
  <2>3. PrefTypeOK' /\ FreedOnlyWhenLost'
    BY <1>2, <1>5 DEF IInv, Types, PrefTypeOK, FreedOnlyWhenLost, prefVars
  <2> QED
    BY <1>2, <2>1, <2>2, <2>3 DEF Types
<1>7. TodoOK' /\ UploadOK' /\ FetchOK' /\ CountOK'
  BY <1>1, <1>4, <1>5 DEF Go, Leave, IInv, Rest, TodoOK, UploadOK, FetchOK, CountOK, prefVars, fileVars
<1>8. ListOK'
  BY <1>1, <1>4, <1>5 DEF Go, Leave, IInv, Rest, ListOK, OnPalm, listVars
<1>9. SyncOK'
  BY <1>1, <1>4, <1>5 DEF Go, Leave, IInv, Rest, SyncOK, Kept, Later, Afterwards, OnPalm, fileVars
<1> QED
  BY <1>6, <1>7, <1>8, <1>9 DEF IInv, Rest

LEMMA InstalledOK == ASSUME IInv, Installed PROVE IInv'
<1>1. /\ up # NoUpload /\ fetch = NoFetch /\ stage \in {"rescue", "install"}
      /\ \E f \in todo : Named[f] = up.db /\ Version[f] = up.ver
  BY DEF Installed, Installing, NoUpload, IInv, Rest, UploadOK
<1>2. up.db \in DB /\ up.ver \in Ver /\ Whole(up.ver) \in Content /\ Part(up.ver) \in Content
  BY <1>1, UploadFacts DEF IInv, Types
<1>3. PICK f \in Current :
          /\ Go(stage, todo \ {f})
          /\ \/ /\ backup' = [backup EXCEPT ![up.db] = IF @ = None THEN Whole(up.ver) ELSE @]
                /\ install' = install \ (IF stage = "install" THEN {f} ELSE {})
                /\ \E o \in Request : Take(o)
             \/ /\ backup' \in {backup, [backup EXCEPT ![up.db] = Part(up.ver)]}
                /\ \E o \in Request, l \in LocalFailure :
                      o.faults < MaxFaults /\ Take([o EXCEPT !.faults = @ + 1])
                /\ UNCHANGED install
  BY DEF Installed
<1>4. LinkTypeOK' /\ (wire = "down" => wire' = "down")
  <2>1. CASE \E o \in Request : Take(o)
    BY <2>1, AskedPalm
  <2>2. ASSUME NEW o \in Request, o.faults < MaxFaults, Take([o EXCEPT !.faults = @ + 1])
        PROVE  LinkTypeOK' /\ (wire = "down" => wire' = "down")
    <3>1. LinkTypeOK /\ o \in Outcome /\ (wire = "down" => o.wire = "down")
      BY PlainFacts DEF IInv, Types
    <3>2. PICK p : p = [o EXCEPT !.faults = @ + 1]
      OBVIOUS
    <3>3. o.faults + 1 \in 0 .. MaxFaults
      BY <2>2, <3>1, LinkAssumption DEF Outcome
    <3>4. p \in Outcome /\ p.wire = o.wire
      BY <3>1, <3>2, <3>3 DEF Outcome
    <3> QED
      BY <2>2, <3>1, <3>2, <3>4, TakeFacts
  <2> QED
    BY <1>3, <2>1, <2>2
<1>5. /\ listed' = [listed EXCEPT ![up.db] = IF @ = None THEN up.ver ELSE @]
      /\ botched' \in {botched, botched \union {up.db}} /\ up' = NoUpload
      /\ UNCHANGED <<palm, prefVars, room, blank, rescue, attic, recorded, opts,
                     short, unsynced, stray>>
  BY DEF Installed
<1>6. /\ listed' \in [DB -> Ver \union {None}] /\ listed'[up.db] # None
      /\ \A d \in DB \ {up.db} : listed'[d] = listed[d]
  BY <1>2, <1>5, UploadAssumption DEF IInv, Types, OwnTypeOK
<1>7. /\ backup' \in [DB -> Content \union {None}] /\ install' \subseteq install
      /\ \A d \in DB \ {up.db} : backup'[d] = backup[d]
  BY <1>2, <1>3 DEF IInv, Types, OwnTypeOK
<1>8. Types' /\ FreedOnlyWhenLost'
  <2>1. OwnTypeOK'
    BY <1>2, <1>3, <1>5, <1>6, <1>7 DEF Go, IInv, Types, OwnTypeOK
  <2>2. UploadTypeOK'
    BY <1>5 DEF IInv, Types, UploadTypeOK
  <2>3. PrefTypeOK' /\ FreedOnlyWhenLost'
    BY <1>4, <1>5 DEF IInv, Types, PrefTypeOK, FreedOnlyWhenLost, prefVars
  <2> QED
    BY <1>4, <2>1, <2>2, <2>3 DEF Types
<1>9. TodoOK' /\ UploadOK' /\ FetchOK' /\ CountOK'
  BY <1>1, <1>3, <1>5, <1>7 DEF Go, IInv, Rest, TodoOK, UploadOK, FetchOK, CountOK, prefVars
<1>10. ListOK'
  BY <1>1, <1>3, <1>5, <1>6 DEF Go, IInv, Rest, ListOK, OnPalm
<1>11. SyncOK'
  <2>1. stage = "install" /\ ~opts.first => Later(up.db)
    BY <1>1 DEF Later, IInv, Types, OwnTypeOK, Rest, TodoOK
  <2> QED
    BY <1>1, <1>3, <1>5, <1>7, <2>1 DEF Go, IInv, Rest, SyncOK, Kept, Later, Afterwards, OnPalm
<1> QED
  BY <1>8, <1>9, <1>10, <1>11 DEF IInv, Rest

LEMMA InstallDoneOK == ASSUME IInv, InstallDone PROVE IInv'
<1>1. up = NoUpload /\ fetch = NoFetch /\ stage \in {"rescue", "install"}
  BY IdleFacts DEF InstallDone, Installing
<1>2. Types' /\ FreedOnlyWhenLost'
  <2>1. OwnTypeOK'
    BY DEF InstallDone, Go, Leave, Stages, IInv, Types, OwnTypeOK, fileVars, listVars, ghostVars
  <2> QED
    BY <2>1, SameLink, StillFreed DEF InstallDone, Types
<1>3. TodoOK' /\ UploadOK' /\ FetchOK' /\ CountOK'
  BY <1>1 DEF InstallDone, Go, Leave, IInv, Rest, TodoOK, UploadOK, FetchOK, CountOK,
     uploadVars, prefVars, fileVars
<1>4. ListOK'
  BY <1>1 DEF InstallDone, Go, Leave, IInv, Rest, ListOK, OnPalm, uploadVars, listVars, ghostVars
<1>5. SyncOK'
  BY <1>1 DEF InstallDone, Go, Leave, IInv, Rest, SyncOK, Kept, Later, Afterwards, OnPalm,
     uploadVars, fileVars, ghostVars
<1> QED
  BY <1>2, <1>3, <1>4, <1>5 DEF IInv, Rest

-----------------------------------------------------------------------------
LEMMA ConduitsRun ==
    ASSUME IInv, NEW o \in ConduitRuns, Take(o)
    PROVE  LinkTypeOK' /\ (wire = "down" => wire' = "down")
BY AskedPalm, FailedHere DEF ConduitRuns

LEMMA InstallConduitsOK == ASSUME IInv, InstallConduits PROVE IInv'
<1>1. up = NoUpload /\ fetch = NoFetch /\ stage = "conduits"
  BY IdleFacts DEF InstallConduits, At
<1>2. LinkTypeOK' /\ (wire = "down" => wire' = "down")
  BY ConduitsRun DEF InstallConduits
<1>3. Leave("failed") \/ Go("install", install)
  BY DEF InstallConduits
<1>4. UNCHANGED <<uploadVars, prefVars, listVars, fileVars, recorded, opts, ghostVars>>
  BY DEF InstallConduits
<1>5. Types' /\ FreedOnlyWhenLost'
  <2>1. OwnTypeOK'
    BY <1>3, <1>4 DEF Go, Leave, Stages, IInv, Types, OwnTypeOK, fileVars, listVars, ghostVars
  <2> QED
    BY <1>2, <1>4, <2>1, StillFreed DEF Types
<1>6. TodoOK' /\ UploadOK' /\ FetchOK' /\ CountOK'
  BY <1>1, <1>3, <1>4 DEF Go, Leave, IInv, Types, OwnTypeOK, Rest, TodoOK, UploadOK, FetchOK, CountOK,
     uploadVars, prefVars, fileVars
<1>7. ListOK'
  BY <1>1, <1>3, <1>4 DEF Go, Leave, IInv, Rest, ListOK, OnPalm, uploadVars, listVars, ghostVars
<1>8. SyncOK'
  BY <1>1, <1>3, <1>4 DEF Go, Leave, IInv, Rest, SyncOK, Kept, Later, Afterwards, OnPalm,
     uploadVars, fileVars, ghostVars
<1> QED
  BY <1>5, <1>6, <1>7, <1>8 DEF IInv, Rest

LEMMA FetchConduitsOK == ASSUME IInv, FetchConduits PROVE IInv'
<1>1. up = NoUpload /\ fetch = NoFetch /\ stage = "fetch"
  BY IdleFacts DEF FetchConduits, At
<1>2. LinkTypeOK' /\ (wire = "down" => wire' = "down")
  BY ConduitsRun DEF FetchConduits
<1>3. Leave("failed") \/ Go("sync", Listed)
  BY DEF FetchConduits
<1>4. UNCHANGED <<uploadVars, prefVars, listVars, fileVars, recorded, opts, ghostVars>>
  BY DEF FetchConduits
<1>5. Listed \subseteq DB \union {Blank}
  BY DEF Listed
<1>6. Types' /\ FreedOnlyWhenLost'
  <2>1. OwnTypeOK'
    BY <1>3, <1>4, <1>5 DEF Go, Leave, Stages, IInv, Types, OwnTypeOK, fileVars, listVars, ghostVars
  <2> QED
    BY <1>2, <1>4, <2>1, StillFreed DEF Types
<1>7. TodoOK' /\ UploadOK' /\ FetchOK' /\ CountOK'
  BY <1>1, <1>3, <1>4, <1>5 DEF Go, Leave, IInv, Rest, TodoOK, UploadOK, FetchOK, CountOK,
     uploadVars, prefVars, fileVars
<1>8. ListOK'
  BY <1>1, <1>3, <1>4 DEF Go, Leave, IInv, Rest, ListOK, OnPalm, uploadVars, listVars, ghostVars
<1>9. SyncOK'
  <2>1. \A d \in OnPalm : opts.filter \/ short \/ d \in botched \/ d \in Listed
    BY <1>1 DEF IInv, Rest, ListOK, Listed, OnPalm
  <2> QED
    BY <1>1, <1>3, <1>4, <2>1 DEF Go, Leave, IInv, Rest, SyncOK, Kept, Later, Afterwards, OnPalm,
       uploadVars, fileVars, ghostVars
<1> QED
  BY <1>6, <1>7, <1>8, <1>9 DEF IInv, Rest

LEMMA SyncDbOK == ASSUME IInv, SyncDb PROVE IInv'
<1>1. up = NoUpload /\ fetch = NoFetch /\ stage = "sync" /\ todo \subseteq DB \union {Blank}
  BY IdleFacts DEF SyncDb, At, IInv, Rest, TodoOK
<1>2. PICK d \in todo :
      \E o \in Requests(IF d \in OnPalm THEN "ok" ELSE "refused", {"refused"}) \union LocalFailure :
          /\ Take(o)
          /\ IF o.result = "ok"
             THEN /\ backup' = [backup EXCEPT ![d] = palm[d]]
                  /\ Go("sync", todo \ {d}) /\ UNCHANGED unsynced
             ELSE CarryOn(d) /\ UNCHANGED backup
  BY DEF SyncDb
<1>3. PICK o \in Requests(IF d \in OnPalm THEN "ok" ELSE "refused", {"refused"}) \union LocalFailure :
          /\ Take(o)
          /\ IF o.result = "ok"
             THEN /\ backup' = [backup EXCEPT ![d] = palm[d]]
                  /\ Go("sync", todo \ {d}) /\ UNCHANGED unsynced
             ELSE CarryOn(d) /\ UNCHANGED backup
  BY <1>2
<1>4. LinkTypeOK' /\ (wire = "down" => wire' = "down") /\ (o.result = "ok" => d \in OnPalm)
  <2>1. CASE o \in LocalFailure
    <3>1. LinkTypeOK
      BY DEF IInv, Types
    <3> QED
      BY <1>3, <2>1, <3>1, FailedHere, LocalFacts
  <2>2. CASE o \in Requests(IF d \in OnPalm THEN "ok" ELSE "refused", {"refused"})
    BY <1>3, <2>2, AskedAbout
  <2> QED
    BY <2>1, <2>2
<1>5. \/ /\ d \in OnPalm /\ backup' = [backup EXCEPT ![d] = palm[d]]
         /\ Go("sync", todo \ {d}) /\ UNCHANGED unsynced
      \/ /\ UNCHANGED backup /\ unsynced' = unsynced \union ({d} \cap DB)
         /\ Leave("failed") \/ Go("sync", todo \ {d})
  BY <1>3, <1>4 DEF CarryOn
<1>6. UNCHANGED <<uploadVars, prefVars, listVars, rescue, install, attic, recorded, opts,
                  short, botched, stray>>
  BY DEF SyncDb
<1>7. Types' /\ FreedOnlyWhenLost'
  <2>1. backup' \in [DB -> Content \union {None}] /\ unsynced' \subseteq DB
    BY <1>5 DEF OnPalm, IInv, Types, OwnTypeOK, UploadTypeOK
  <2>2. OwnTypeOK'
    BY <1>5, <1>6, <2>1 DEF Go, Leave, Stages, IInv, Types, OwnTypeOK, listVars
  <2> QED
    BY <1>4, <1>6, <2>2, StillFreed DEF Types
<1>8. TodoOK' /\ UploadOK' /\ FetchOK' /\ CountOK'
  BY <1>1, <1>5, <1>6 DEF Go, Leave, IInv, Rest, TodoOK, UploadOK, FetchOK, CountOK, uploadVars, prefVars
<1>9. ListOK'
  BY <1>1, <1>5, <1>6 DEF Go, Leave, IInv, Rest, ListOK, OnPalm, uploadVars, listVars
<1>10. SyncOK'
  <2>1. palm' = palm /\ OnPalm' = OnPalm /\ OnPalm \subseteq DB
    BY <1>6 DEF uploadVars, OnPalm
  <2>2. \A e \in OnPalm : Kept(e) \/ e \in todo
    BY <1>1 DEF IInv, Rest, SyncOK
  <2>3. \A e \in OnPalm : Kept(e) => Kept(e)'
    BY <1>5, <1>6, <2>1 DEF Kept, IInv, Types, OwnTypeOK
  <2>4. d \in OnPalm => Kept(d)'
    BY <1>5, <1>6, <2>1 DEF Kept, IInv, Types, OwnTypeOK
  <2>5. recorded' = FALSE
    BY <1>1, <1>6 DEF IInv, Types, OwnTypeOK, Rest, SyncOK, Afterwards
  <2> QED
    BY <1>5, <2>1, <2>2, <2>3, <2>4, <2>5 DEF Go, Leave, SyncOK, Afterwards
<1> QED
  BY <1>7, <1>8, <1>9, <1>10 DEF IInv, Rest

LEMMA SyncDoneOK == ASSUME IInv, SyncDone PROVE IInv'
<1>1. up = NoUpload /\ fetch = NoFetch /\ stage = "sync"
  BY IdleFacts DEF SyncDone, At
<1>2. Types' /\ FreedOnlyWhenLost'
  <2>1. OwnTypeOK'
    BY DEF SyncDone, Go, Stages, IInv, Types, OwnTypeOK, fileVars, listVars, ghostVars
  <2> QED
    BY <2>1, SameLink, StillFreed DEF SyncDone, Types
<1>3. TodoOK' /\ UploadOK' /\ FetchOK' /\ CountOK'
  BY <1>1 DEF SyncDone, Go, IInv, Rest, TodoOK, UploadOK, FetchOK, CountOK, uploadVars, prefVars, fileVars
<1>4. ListOK'
  BY <1>1 DEF SyncDone, Go, IInv, Rest, ListOK, OnPalm, uploadVars, listVars, ghostVars
<1>5. SyncOK'
  BY <1>1 DEF SyncDone, Go, IInv, Rest, SyncOK, Kept, Later, Afterwards, OnPalm,
     uploadVars, fileVars, ghostVars
<1> QED
  BY <1>2, <1>3, <1>4, <1>5 DEF IInv, Rest

-----------------------------------------------------------------------------
(* What holds when the databases, the files and the list stay as they are, *)
(* and the loop goes on or do_sync leaves.                                 *)
LEMMA LoopGoesOn ==
    ASSUME IInv, UNCHANGED <<uploadVars, listVars, fileVars, recorded, opts, short, botched>>,
           up = NoUpload, stage \in {"fetch", "sync", "prefs"},
           stage' \in {stage, "leave"}, todo' \subseteq todo, unsynced \subseteq unsynced',
           stage = "sync" /\ stage' = "sync" => \A d \in (todo \ todo') \cap DB : d \in unsynced',
           fetch' = NoFetch \/ stage' = stage
    PROVE  TodoOK' /\ UploadOK' /\ FetchOK' /\ CountOK' /\ ListOK' /\ SyncOK'
<1>1. TodoOK' /\ UploadOK' /\ FetchOK' /\ CountOK'
  BY DEF IInv, Rest, TodoOK, UploadOK, FetchOK, CountOK, uploadVars, fileVars
<1>2. ListOK'
  BY DEF IInv, Rest, ListOK, OnPalm, uploadVars, listVars
<1>3. OnPalm' = OnPalm /\ OnPalm \subseteq DB /\ (\A d \in OnPalm : Kept(d) => Kept(d)')
      /\ (\A d \in OnPalm : d \in unsynced' => Kept(d)') /\ (\A d \in OnPalm : Later(d) => Later(d)')
  BY DEF OnPalm, Kept, Later, uploadVars, fileVars
<1>4. SyncOK'
  BY <1>3 DEF IInv, Rest, SyncOK, Afterwards
<1> QED
  BY <1>1, <1>2, <1>4

LEMMA AskPrefOK == ASSUME IInv, AskPref PROVE IInv'
<1>1. up = NoUpload /\ fetch = NoFetch /\ stage \in {"fetch", "sync"}
  BY IdleFacts DEF AskPref, At
<1>2. UNCHANGED <<linkVars, uploadVars, flags, info, stage, todo, listVars, fileVars, recorded, opts,
                  result, ghostVars>>
  BY DEF AskPref
<1>3. PICK p \in Prefs : BeginFetch(p)
  BY DEF AskPref
<1>4. Types' /\ FreedOnlyWhenLost'
  <2>1. OwnTypeOK'
    BY <1>2 DEF IInv, Types, OwnTypeOK, fileVars, listVars, ghostVars
  <2>2. PrefTypeOK' /\ UploadTypeOK' /\ FreedOnlyWhenLost'
    BY <1>2, <1>3 DEF BeginFetch, IInv, Types, PrefTypeOK, UploadTypeOK, FreedOnlyWhenLost,
       linkVars, uploadVars
  <2> QED
    BY <1>2, <2>1, <2>2, SameLink DEF Types
<1>5. TodoOK' /\ UploadOK' /\ FetchOK' /\ CountOK' /\ ListOK' /\ SyncOK'
  BY <1>1, <1>2, LoopGoesOn DEF ghostVars
<1> QED
  BY <1>4, <1>5 DEF IInv, Rest

(* DownloadPrefItem: an item is freed only when the Palm is gone.          *)
LEMMA PrefStepFacts ==
    ASSUME IInv, PrefStep
    PROVE  /\ LinkTypeOK' /\ (wire = "down" => wire' = "down")
           /\ PrefTypeOK' /\ FreedOnlyWhenLost'
           /\ fetch # NoFetch /\ fetch.at \in {"size", "contents"}
<1>1. LinkTypeOK /\ PrefTypeOK /\ FreedOnlyWhenLost
  BY DEF IInv, Types
<1>2. /\ fetch # NoFetch /\ fetch.at \in {"size", "contents"} /\ flags' = flags
      /\ fetch \in [at : {"size", "contents", "got", "failed", "crashed"},
                    item : Prefs, from : {SAVED, UNSAVED}]
  BY <1>1 DEF PrefStep, ReadSize, ReadContents, NoFetch, PrefTypeOK
<1>3. PICK o \in Outcome :
          /\ Take(o) /\ (wire = "down" => o.wire = "down") /\ (o.result = "failed" => o.wire = "down")
          /\ \/ FetchGoes("contents") /\ UNCHANGED info
             \/ /\ info' = [info EXCEPT ![fetch.item] = "empty"]
                /\ fetch' = [fetch EXCEPT !.from = UNSAVED] \/ FetchGoes("got")
             \/ o.result = "failed" /\ FetchGoes("failed") /\ Freed
             \/ FetchGoes("got") /\ info' = [info EXCEPT ![fetch.item] = "found"]
  <2>1. CASE ReadSize
    <3>1. PICK o \in Requests(Natural, {"refused"}) :
          /\ Take(o)
          /\ CASE o.result = "ok" -> FetchGoes("contents") /\ UNCHANGED info
               [] o.result = "refused" ->
                    /\ info' = [info EXCEPT ![fetch.item] = "empty"]
                    /\ IF fetch.from = SAVED /\ flags[fetch.item] = {}
                       THEN fetch' = [fetch EXCEPT !.from = UNSAVED]
                       ELSE FetchGoes("got")
               [] OTHER -> FetchGoes("failed") /\ Freed
      BY <2>1 DEF ReadSize
    <3>2. Natural \in Kinds /\ Natural \in {"ok", "refused"} /\ {"refused"} \in SUBSET (Kinds \ {"ok"})
      BY DEF Natural, Kinds
    <3>3. /\ o \in Outcome /\ (wire = "down" => o.wire = "down") /\ (o.result = "failed" => o.wire = "down")
          /\ o.result \in {"ok", "refused", "failed"}
      BY <1>1, <3>2, RequestFacts
    <3> QED
      BY <3>1, <3>3
  <2>2. CASE ReadContents
    <3>1. PICK o \in Request :
          /\ Take(o)
          /\ IF o.result = "failed" THEN FetchGoes("failed") /\ Freed
             ELSE FetchGoes("got") /\ info' = [info EXCEPT ![fetch.item] = "found"]
      BY <2>2 DEF ReadContents
    <3>2. o \in Outcome /\ (wire = "down" => o.wire = "down") /\ (o.result = "failed" => o.wire = "down")
      BY <1>1, PlainFacts
    <3> QED
      BY <3>1, <3>2
  <2> QED
    BY <2>1, <2>2 DEF PrefStep
<1>4. LinkTypeOK' /\ wire' = o.wire
  BY <1>1, <1>3, TakeFacts
<1>5. PrefTypeOK'
  BY <1>1, <1>2, <1>3 DEF PrefTypeOK, FetchGoes, Freed, Infos
<1>6. FreedOnlyWhenLost'
  BY <1>1, <1>2, <1>3, <1>4 DEF FreedOnlyWhenLost, PrefTypeOK, Freed
<1> QED
  BY <1>2, <1>3, <1>4, <1>5, <1>6

LEMMA DoFetchOK == ASSUME IInv, DoFetch PROVE IInv'
<1>1. /\ LinkTypeOK' /\ PrefTypeOK' /\ FreedOnlyWhenLost'
      /\ fetch # NoFetch /\ fetch.at \in {"size", "contents"}
  BY PrefStepFacts DEF DoFetch
<1>2. UNCHANGED <<uploadVars, stage, todo, listVars, fileVars, recorded, opts, result, ghostVars>>
  BY DEF DoFetch
<1>3. Types'
  BY <1>1, <1>2 DEF IInv, Types, OwnTypeOK, UploadTypeOK, uploadVars, listVars, fileVars, ghostVars
<1>4. up = NoUpload
  BY <1>1 DEF IInv, Rest, UploadOK
<1>5. TodoOK' /\ UploadOK' /\ FetchOK' /\ CountOK'
  BY <1>1, <1>2, <1>4 DEF IInv, Rest, TodoOK, UploadOK, FetchOK, CountOK, uploadVars, listVars, fileVars, ghostVars
<1>6. ListOK' /\ SyncOK'
  BY <1>2 DEF IInv, Rest, ListOK, SyncOK, Kept, Later, Afterwards, OnPalm,
     uploadVars, listVars, fileVars, ghostVars
<1> QED
  BY <1>1, <1>3, <1>5, <1>6 DEF IInv, Rest

LEMMA GotPrefOK == ASSUME IInv, GotPref PROVE IInv'
<1>1. stage \in {"fetch", "sync"} /\ up = NoUpload /\ fetch' = NoFetch
  BY DEF GotPref, IInv, Rest, UploadOK
<1>2. UNCHANGED <<linkVars, uploadVars, flags, info, listVars, fileVars, recorded, opts,
                  short, botched, stray>>
  BY DEF GotPref
<1>3. \/ UNCHANGED <<stage, todo, result, unsynced>>
      \/ Leave("failed") /\ UNCHANGED unsynced
      \/ \E d \in todo : /\ unsynced' = unsynced \union ({d} \cap DB)
                         /\ Leave("failed") \/ (stage = "sync" /\ Go("sync", todo \ {d}))
  BY <1>1 DEF GotPref, CarryOn
<1>4. Types' /\ FreedOnlyWhenLost'
  <2>1. OwnTypeOK'
    BY <1>2, <1>3 DEF Go, Leave, Stages, IInv, Types, OwnTypeOK, fileVars, listVars
  <2>2. PrefTypeOK' /\ UploadTypeOK' /\ FreedOnlyWhenLost'
    BY <1>1, <1>2 DEF IInv, Types, PrefTypeOK, UploadTypeOK, FreedOnlyWhenLost, linkVars, uploadVars
  <2> QED
    BY <1>2, <2>1, <2>2, SameLink DEF Types
<1>5. TodoOK' /\ UploadOK' /\ FetchOK' /\ CountOK' /\ ListOK' /\ SyncOK'
  <2>1. stage' \in {stage, "leave"} /\ todo' \subseteq todo /\ unsynced \subseteq unsynced'
        /\ (stage = "sync" /\ stage' = "sync" => \A d \in (todo \ todo') \cap DB : d \in unsynced')
    BY <1>1, <1>3 DEF Go, Leave
  <2> QED
    BY <1>1, <1>2, <2>1, LoopGoesOn
<1> QED
  BY <1>4, <1>5 DEF IInv, Rest

-----------------------------------------------------------------------------
(* There is a first among natural numbers.                                 *)
LEMMA Least ==
    ASSUME NEW T \in SUBSET Nat, T # {}
    PROVE  \E s \in T : \A t \in T : s <= t
<1>1. PICK R : R = OpToRel(<, Nat)
  OBVIOUS
<1>2. IsWellFoundedOn(R, Nat)
  BY <1>1, NatLessThanWellFounded
<1>3. PICK s \in T : \A t \in T : ~ (<<t, s>> \in R)
  BY <1>2, WFMin
<1>4. \A t \in T : t < s => <<t, s>> \in R
  BY <1>1 DEF OpToRel
<1>5. \A t \in T : ~ (t < s)
  BY <1>3, <1>4
<1> QED
  BY <1>5

(* So the first free name in the attic is free.                            *)
LEMMA FirstFree ==
    ASSUME NEW d, FreeSlots(d) # {}
    PROVE  First(FreeSlots(d)) \in 1 .. Slots /\ attic[d][First(FreeSlots(d))] = None
<1>1. FreeSlots(d) \in SUBSET Nat
  BY SessionAssumption DEF FreeSlots
<1>2. First(FreeSlots(d)) \in FreeSlots(d)
  BY <1>1, Least DEF First
<1> QED
  BY <1>2 DEF FreeSlots

LEMMA CheckFileOK == ASSUME IInv, CheckFile PROVE IInv'
<1>1. up = NoUpload /\ fetch = NoFetch /\ stage = "attic" /\ todo \subseteq DB
  BY IdleFacts DEF CheckFile, At, IInv, Rest, TodoOK
<1>2. PICK d \in todo :
          \/ /\ \/ /\ listed[d] = None /\ FreeSlots(d) # {} /\ ToAttic(d)
                \/ UNCHANGED <<attic, backup>>
             /\ Go("attic", todo \ {d}) /\ UNCHANGED linkVars
          \/ /\ \E o \in LocalFailure : Take(o)
             /\ Leave("failed") \/ Go("attic", {})
             /\ UNCHANGED <<attic, backup>>
  BY DEF CheckFile
<1>3. LinkTypeOK' /\ (wire = "down" => wire' = "down")
  BY <1>2, SameLink, FailedHere
<1>4. UNCHANGED <<uploadVars, prefVars, listVars, rescue, install, recorded, opts, ghostVars>>
  BY DEF CheckFile
<1>5. /\ backup' \in [DB -> Content \union {None}]
      /\ attic' \in [DB -> [1 .. Slots -> Content \union {None}]]
      /\ \A e \in DB : backup'[e] = backup[e] \/ listed[e] = None
  <2>1. CASE UNCHANGED <<attic, backup>>
    BY <2>1 DEF IInv, Types, OwnTypeOK
  <2>2. CASE listed[d] = None /\ FreeSlots(d) # {} /\ ToAttic(d)
    <3>1. PICK s : s = First(FreeSlots(d)) /\ s \in 1 .. Slots
      BY <2>2, FirstFree
    <3>2. attic' = [attic EXCEPT ![d][s] = backup[d]] /\ backup' = [backup EXCEPT ![d] = None]
      BY <2>2, <3>1 DEF ToAttic
    <3> QED
      BY <1>1, <2>2, <3>1, <3>2 DEF IInv, Types, OwnTypeOK
  <2> QED
    BY <1>2, <2>1, <2>2
<1>6. Types' /\ FreedOnlyWhenLost'
  <2>1. OwnTypeOK'
    BY <1>2, <1>4, <1>5 DEF Go, Leave, Stages, IInv, Types, OwnTypeOK, listVars, ghostVars
  <2> QED
    BY <1>3, <1>4, <2>1, StillFreed DEF Types
<1>7. TodoOK' /\ UploadOK' /\ FetchOK' /\ CountOK'
  BY <1>1, <1>2, <1>4 DEF Go, Leave, IInv, Rest, TodoOK, UploadOK, FetchOK, CountOK, uploadVars, prefVars
<1>8. ListOK'
  BY <1>1, <1>2, <1>4 DEF Go, Leave, IInv, Rest, ListOK, OnPalm, uploadVars, listVars, ghostVars
<1>9. SyncOK'
  <2>1. \A e \in OnPalm : listed[e] = None => opts.filter \/ short \/ e \in botched
    BY <1>1 DEF IInv, Rest, ListOK
  <2> QED
    BY <1>1, <1>2, <1>4, <1>5, <2>1 DEF Go, Leave, IInv, Rest, SyncOK, Kept, Later, Afterwards, OnPalm,
       uploadVars, ghostVars
<1> QED
  BY <1>6, <1>7, <1>8, <1>9 DEF IInv, Rest

(* What holds when only the place in do_sync changes, after the attic.     *)
LEMMA MovesOn ==
    ASSUME IInv, UNCHANGED <<uploadVars, listVars, fileVars, recorded, opts, short, unsynced, botched>>,
           up = NoUpload, fetch' = NoFetch \/ stage' \in {"prefs", "crashed"},
           \/ stage = "attic" /\ stage' = "userinfo"
           \/ stage = "prefs" /\ stage' = "prefs"
           \/ stage = "prefs" /\ stage' = "conduits" /\ ~opts.first
           \/ stage' \in {"leave", "dump", "done", "crashed"} /\ stage # "dirs",
           todo' = {} \/ (todo' \subseteq todo /\ stage' \in {stage, "crashed", "dump", "done"})
    PROVE  TodoOK' /\ UploadOK' /\ FetchOK' /\ CountOK' /\ ListOK' /\ SyncOK'
<1>1. TodoOK' /\ UploadOK' /\ FetchOK' /\ CountOK'
  BY DEF IInv, Rest, TodoOK, UploadOK, FetchOK, CountOK, uploadVars, fileVars
<1>2. ListOK'
  BY DEF IInv, Rest, ListOK, OnPalm, uploadVars, listVars
<1>3. OnPalm' = OnPalm /\ (\A d \in OnPalm : Kept(d) => Kept(d)') /\ (\A d \in OnPalm : Later(d) => Later(d)')
  BY DEF OnPalm, Kept, Later, uploadVars, fileVars
<1>4. SyncOK'
  BY <1>3 DEF IInv, Rest, SyncOK, Afterwards
<1> QED
  BY <1>1, <1>2, <1>4

LEMMA MovesOnTypes ==
    ASSUME IInv, LinkTypeOK', wire = "down" => wire' = "down",
           UNCHANGED <<uploadVars, prefVars, listVars, fileVars, opts, short, unsynced, botched>>,
           stage' \in Stages, todo' \subseteq todo, recorded' \in BOOLEAN,
           result' \in {"none", "ok", "failed"}, stray' \subseteq Prefs
    PROVE  Types' /\ FreedOnlyWhenLost'
<1>1. OwnTypeOK'
  BY DEF IInv, Types, OwnTypeOK, listVars, fileVars
<1> QED
  BY <1>1, StillFreed DEF Types

LEMMA CheckDoneOK == ASSUME IInv, CheckDone PROVE IInv'
<1>1. up = NoUpload /\ fetch = NoFetch /\ stage = "attic" /\ stage' = "userinfo" /\ todo' = {}
  BY IdleFacts DEF CheckDone, At, Go
<1>2. UNCHANGED <<linkVars, uploadVars, prefVars, listVars, fileVars, recorded, opts, ghostVars, result>>
  BY DEF CheckDone, Go
<1>3. Types' /\ FreedOnlyWhenLost'
  BY <1>1, <1>2, SameLink, MovesOnTypes DEF Stages, IInv, Types, OwnTypeOK, ghostVars
<1>4. TodoOK' /\ UploadOK' /\ FetchOK' /\ CountOK' /\ ListOK' /\ SyncOK'
  BY <1>1, <1>2, MovesOn DEF prefVars, ghostVars
<1> QED
  BY <1>3, <1>4 DEF IInv, Rest

LEMMA UpdateUserInfoOK == ASSUME IInv, UpdateUserInfo PROVE IInv'
<1>1. up = NoUpload /\ fetch = NoFetch /\ stage = "userinfo"
  BY IdleFacts DEF UpdateUserInfo, At
<1>2. LinkTypeOK' /\ (wire = "down" => wire' = "down")
  BY AskedPalm DEF UpdateUserInfo
<1>3. Leave("failed") \/ Go("prefs", Prefs \ Fetched)
  BY DEF UpdateUserInfo
<1>4. recorded' \in BOOLEAN
  <2>1. PICK o \in Request : recorded' = (recorded \/ o.done)
    BY DEF UpdateUserInfo
  <2> QED
    BY <2>1
<1>5. UNCHANGED <<uploadVars, prefVars, listVars, fileVars, opts, ghostVars>>
  BY DEF UpdateUserInfo
<1>6. Types' /\ FreedOnlyWhenLost'
  <2>1. OwnTypeOK'
    BY <1>3, <1>4, <1>5 DEF Go, Leave, Stages, IInv, Types, OwnTypeOK, listVars, fileVars, ghostVars
  <2> QED
    BY <1>2, <1>5, <2>1, StillFreed DEF Types
<1>7. TodoOK' /\ UploadOK' /\ FetchOK' /\ CountOK'
  BY <1>1, <1>3, <1>5 DEF Go, Leave, IInv, Rest, TodoOK, UploadOK, FetchOK, CountOK,
     uploadVars, prefVars, fileVars
<1>8. ListOK'
  BY <1>1, <1>3, <1>5 DEF Go, Leave, IInv, Rest, ListOK, OnPalm, uploadVars, listVars, ghostVars
<1>9. SyncOK'
  <2>1. OnPalm' = OnPalm /\ \A d \in OnPalm : Kept(d)' \/ Later(d)'
    BY <1>1, <1>5 DEF IInv, Rest, SyncOK, OnPalm, Kept, Later, uploadVars, fileVars, ghostVars
  <2> QED
    BY <1>3, <2>1 DEF Go, Leave, SyncOK, Afterwards
<1> QED
  BY <1>6, <1>7, <1>8, <1>9 DEF IInv, Rest

LEMMA FillPrefOK == ASSUME IInv, FillPref PROVE IInv'
<1>1. up = NoUpload /\ fetch = NoFetch /\ stage = "prefs" /\ todo \subseteq Prefs
  BY IdleFacts DEF FillPref, At, IInv, Rest, TodoOK
<1>2. PICK p \in todo : BeginFetch(p) /\ Go("prefs", todo \ {p})
  BY DEF FillPref
<1>3. UNCHANGED <<linkVars, uploadVars, flags, info, listVars, fileVars, recorded, opts, ghostVars>>
  BY DEF FillPref
<1>4. Types' /\ FreedOnlyWhenLost'
  <2>1. OwnTypeOK'
    BY <1>2, <1>3 DEF Go, Stages, IInv, Types, OwnTypeOK, fileVars, listVars, ghostVars
  <2>2. PrefTypeOK' /\ UploadTypeOK' /\ FreedOnlyWhenLost'
    BY <1>1, <1>2, <1>3 DEF BeginFetch, IInv, Types, PrefTypeOK, UploadTypeOK, FreedOnlyWhenLost,
       linkVars, uploadVars
  <2> QED
    BY <1>3, <2>1, <2>2, SameLink DEF Types
<1>5. TodoOK' /\ UploadOK' /\ FetchOK' /\ CountOK' /\ ListOK' /\ SyncOK'
  <2>1. stage' = "prefs" /\ todo' \subseteq todo
    BY <1>2 DEF Go
  <2> QED
    BY <1>1, <1>3, <2>1, MovesOn DEF ghostVars
<1> QED
  BY <1>4, <1>5 DEF IInv, Rest

LEMMA FilledPrefOK == ASSUME IInv, FilledPref PROVE IInv'
<1>1. stage = "prefs" /\ up = NoUpload /\ fetch' = NoFetch
  BY DEF FilledPref, IInv, Rest, UploadOK
<1>2. UNCHANGED <<linkVars, uploadVars, flags, info, listVars, fileVars, recorded, opts, ghostVars>>
  BY DEF FilledPref
<1>3. /\ stage' \in {"leave", "prefs"} /\ (stage' = "leave" => todo' = {}) /\ todo' \subseteq todo
      /\ result' \in {result, "failed"}
  BY DEF FilledPref, Leave, Go
<1>4. Types' /\ FreedOnlyWhenLost'
  <2>1. OwnTypeOK'
    BY <1>2, <1>3 DEF Stages, IInv, Types, OwnTypeOK, fileVars, listVars, ghostVars
  <2>2. PrefTypeOK' /\ UploadTypeOK' /\ FreedOnlyWhenLost'
    BY <1>1, <1>2 DEF IInv, Types, PrefTypeOK, UploadTypeOK, FreedOnlyWhenLost, linkVars, uploadVars
  <2> QED
    BY <1>2, <2>1, <2>2, SameLink DEF Types
<1>5. TodoOK' /\ UploadOK' /\ FetchOK' /\ CountOK' /\ ListOK' /\ SyncOK'
  BY <1>1, <1>2, <1>3, MovesOn DEF ghostVars
<1> QED
  BY <1>4, <1>5 DEF IInv, Rest

LEMMA PrefsDoneOK == ASSUME IInv, PrefsDone PROVE IInv'
<1>1. up = NoUpload /\ fetch = NoFetch /\ stage = "prefs" /\ todo' = {}
  BY IdleFacts DEF PrefsDone, At, Leave, Go
<1>2. /\ stage' = "leave" \/ (stage' = "conduits" /\ ~opts.first)
      /\ result' \in {result, "ok"}
  BY DEF PrefsDone, Leave, Go
<1>3. UNCHANGED <<linkVars, uploadVars, prefVars, listVars, fileVars, recorded, opts, ghostVars>>
  BY DEF PrefsDone
<1>4. Types' /\ FreedOnlyWhenLost'
  BY <1>1, <1>2, <1>3, SameLink, MovesOnTypes DEF Stages, IInv, Types, OwnTypeOK, ghostVars
<1>5. TodoOK' /\ UploadOK' /\ FetchOK' /\ CountOK' /\ ListOK' /\ SyncOK'
  BY <1>1, <1>2, <1>3, MovesOn DEF prefVars, ghostVars
<1> QED
  BY <1>4, <1>5 DEF IInv, Rest

LEMMA CrashOK == ASSUME IInv, Crash PROVE IInv'
<1>1. fetch # NoFetch /\ stage' = "crashed" /\ todo' = todo
      /\ UNCHANGED <<linkVars, uploadVars, prefVars, listVars, fileVars, recorded, opts, ghostVars, result>>
  BY DEF Crash, NoFetch
<1>2. up = NoUpload /\ stage # "dirs"
  BY <1>1 DEF IInv, Rest, UploadOK, FetchOK
<1>3. Types' /\ FreedOnlyWhenLost'
  BY <1>1, SameLink, MovesOnTypes DEF Stages, IInv, Types, OwnTypeOK, ghostVars
<1>4. TodoOK' /\ UploadOK' /\ FetchOK' /\ CountOK' /\ ListOK' /\ SyncOK'
  BY <1>1, <1>2, MovesOn DEF ghostVars
<1> QED
  BY <1>3, <1>4 DEF IInv, Rest

LEMMA DisconnectFacts ==
    ASSUME IInv, Disconnect
    PROVE  LinkTypeOK' /\ (wire = "down" => wire' = "down")
<1>1. LinkTypeOK
  BY DEF IInv, Types
<1>2. ASSUME NEW o \in Request, Take([o EXCEPT !.status = "closed"])
      PROVE  LinkTypeOK' /\ (wire = "down" => wire' = "down")
  <2>1. o \in Outcome /\ (wire = "down" => o.wire = "down")
    BY <1>1, PlainFacts
  <2>2. PICK p : p = [o EXCEPT !.status = "closed"]
    OBVIOUS
  <2>3. p \in Outcome /\ p.wire = o.wire
    BY <2>1, <2>2 DEF Outcome, Statuses
  <2> QED
    BY <1>1, <1>2, <2>1, <2>2, <2>3, TakeFacts
<1>3. ASSUME status' = "closed", UNCHANGED <<wire, cs, faults>>
      PROVE  LinkTypeOK' /\ (wire = "down" => wire' = "down")
  BY <1>1, <1>3 DEF LinkTypeOK, Statuses
<1> QED
  BY <1>2, <1>3 DEF Disconnect

LEMMA ReleaseOK == ASSUME IInv, Release PROVE IInv'
<1>1. up = NoUpload /\ fetch = NoFetch /\ stage = "leave" /\ stage' \in {"dump", "done"} /\ todo' = todo
      /\ UNCHANGED <<uploadVars, prefVars, listVars, fileVars, recorded, opts, result, ghostVars>>
  BY IdleFacts DEF Release, At
<1>2. LinkTypeOK' /\ (wire = "down" => wire' = "down")
  BY DisconnectFacts DEF Release
<1>3. Types' /\ FreedOnlyWhenLost'
  BY <1>1, <1>2, MovesOnTypes DEF Stages, IInv, Types, OwnTypeOK, ghostVars
<1>4. TodoOK' /\ UploadOK' /\ FetchOK' /\ CountOK' /\ ListOK' /\ SyncOK'
  BY <1>1, MovesOn DEF prefVars, ghostVars
<1> QED
  BY <1>3, <1>4 DEF IInv, Rest

LEMMA DumpConduitsOK == ASSUME IInv, DumpConduits PROVE IInv'
<1>1. up = NoUpload /\ fetch = NoFetch /\ stage = "dump" /\ stage' = "done" /\ todo' = todo
      /\ UNCHANGED <<linkVars, uploadVars, prefVars, listVars, fileVars, recorded, opts,
                     short, unsynced, botched>>
      /\ result' \in {"ok", "failed"} /\ stray' \subseteq Prefs
  BY IdleFacts DEF DumpConduits, At
<1>2. Types' /\ FreedOnlyWhenLost'
  BY <1>1, SameLink, MovesOnTypes DEF Stages, IInv, Types, OwnTypeOK
<1>3. TodoOK' /\ UploadOK' /\ FetchOK' /\ CountOK' /\ ListOK' /\ SyncOK'
  BY <1>1, MovesOn DEF prefVars
<1> QED
  BY <1>2, <1>3 DEF IInv, Rest

LEMMA StutterOK == ASSUME IInv, UNCHANGED vars PROVE IInv'
<1>1. Types' /\ FreedOnlyWhenLost'
  BY DEF vars, IInv, Types, LinkTypeOK, UploadTypeOK, PrefTypeOK, OwnTypeOK, FreedOnlyWhenLost,
     linkVars, uploadVars, prefVars, listVars, fileVars, ghostVars
<1>2. TodoOK' /\ UploadOK' /\ FetchOK' /\ CountOK'
  BY DEF vars, IInv, Rest, TodoOK, UploadOK, FetchOK, CountOK, OnPalm,
     uploadVars, prefVars, listVars, fileVars, ghostVars
<1>3. ListOK' /\ SyncOK'
  BY DEF vars, IInv, Rest, ListOK, SyncOK, Kept, Later, Afterwards, OnPalm,
     uploadVars, listVars, fileVars, ghostVars
<1> QED
  BY <1>1, <1>2, <1>3 DEF IInv, Rest

-----------------------------------------------------------------------------
LEMMA InitOK == ASSUME Init PROVE IInv
<1>1. PICK home \in Home : palm = home.palm /\ backup = home.backup /\ attic = home.attic
  BY SessionAssumption DEF Init
<1>2. /\ palm \in [DB -> Content \union {None}] /\ backup \in [DB -> Content \union {None}]
      /\ attic \in [DB -> [1 .. Slots -> Content \union {None}]]
  <2>1. \A v \in Ver : Whole(v) \in Content
    BY DEF Whole, Content
  <2>2. {Whole(v) : v \in Ver} \union {None} \subseteq Content \union {None}
    BY <2>1
  <2>3. PICK W : W = {Whole(v) : v \in Ver} \union {None}
    OBVIOUS
  <2>4. home \in [palm : [DB -> W], backup : [DB -> W], attic : [DB -> [1 .. Slots -> W]]]
    BY <2>3 DEF Home
  <2>5. W \subseteq Content \union {None}
    BY <2>2, <2>3
  <2>6. /\ palm \in [DB -> W] /\ backup \in [DB -> W] /\ attic \in [DB -> [1 .. Slots -> W]]
    BY <1>1, <2>4
  <2> QED
    BY <2>5, <2>6
<1>3. LinkTypeOK /\ UploadTypeOK /\ PrefTypeOK /\ FreedOnlyWhenLost
  <2>1. LinkTypeOK
    BY LinkAssumption DEF Init, LinkInit, LinkTypeOK, Statuses, CSErrno
  <2>2. UploadTypeOK
    BY <1>2 DEF Init, UploadInit, UploadTypeOK
  <2>3. PrefTypeOK /\ FreedOnlyWhenLost
    BY DEF Init, PrefInit, PrefTypeOK, FreedOnlyWhenLost, Infos
  <2> QED
    BY <2>1, <2>2, <2>3
<1>4. OwnTypeOK
  BY <1>2, SessionAssumption DEF Init, OwnTypeOK, Stages
<1>5. Rest
  BY DEF Init, UploadInit, PrefInit, Rest, TodoOK, UploadOK, FetchOK, CountOK, ListOK, SyncOK, Afterwards
<1> QED
  BY <1>3, <1>4, <1>5 DEF IInv, Types

LEMMA NextOK == ASSUME IInv, [Next]_vars PROVE IInv'
<1>1. CASE Start \/ ListStep \/ FetchSome \/ ListDone
  BY <1>1, StartOK, ListStepOK, FetchSomeOK, ListDoneOK
<1>2. CASE SkipFile \/ InstallFile \/ DoUpload \/ InstallFailed \/ Installed \/ InstallDone
  BY <1>2, SkipFileOK, InstallFileOK, DoUploadOK, InstallFailedOK, InstalledOK, InstallDoneOK
<1>3. CASE InstallConduits \/ FetchConduits \/ SyncDb \/ SyncDone
  BY <1>3, InstallConduitsOK, FetchConduitsOK, SyncDbOK, SyncDoneOK
<1>4. CASE AskPref \/ DoFetch \/ GotPref
  BY <1>4, AskPrefOK, DoFetchOK, GotPrefOK
<1>5. CASE CheckFile \/ CheckDone \/ UpdateUserInfo \/ FillPref \/ FilledPref \/ PrefsDone
  BY <1>5, CheckFileOK, CheckDoneOK, UpdateUserInfoOK, FillPrefOK, FilledPrefOK, PrefsDoneOK
<1>6. CASE Crash \/ Release \/ DumpConduits
  BY <1>6, CrashOK, ReleaseOK, DumpConduitsOK
<1>7. CASE Finished \/ UNCHANGED vars
  BY <1>7, StutterOK DEF Finished
<1> QED
  BY <1>1, <1>2, <1>3, <1>4, <1>5, <1>6, <1>7 DEF Next

(* What the session keeps to at every step of do_sync.                     *)
THEOREM SessionInvariant == Spec => []IInv
<1>1. Init => IInv
  BY InitOK
<1>2. IInv /\ [Next]_vars => IInv'
  BY NextOK
<1> QED
  BY <1>1, <1>2, PTL DEF Spec

(* The types of the session's variables.                                   *)
THEOREM TypeCorrect == Spec => []TypeOK
<1>1. IInv => TypeOK
  BY DEF IInv, Types, OwnTypeOK, TypeOK
<1> QED
  BY <1>1, SessionInvariant, PTL

(* GetPrefItem never hands out what DownloadPrefItem has freed, as long as *)
(* the connection holds.                                                   *)
THEOREM NothingFreedOnTheLine == Spec => []FreedOnlyWhenLost
<1>1. IInv => FreedOnlyWhenLost
  BY DEF IInv
<1> QED
  BY <1>1, SessionInvariant, PTL

(* A host that UpdateUserInfo has written to the Palm as the last one has  *)
(* the Palm's databases, but for those that are known to be left out.      *)
THEOREM LastHostInStep == Spec => []InStep
<1>1. IInv => InStep
  BY DEF IInv, Rest, SyncOK, InStep, Kept, Later
<1> QED
  BY <1>1, SessionInvariant, PTL

-----------------------------------------------------------------------------
(* Only three kinds of step touch the files of the user.                   *)
LEMMA FilesKept ==
    ASSUME [Next]_vars, ~Installed, ~SyncDb, ~CheckFile
    PROVE  UNCHANGED <<install, backup, attic>>
<1> USE DEF fileVars
<1>1. CASE Start \/ ListStep \/ FetchSome \/ ListDone
  BY <1>1 DEF Start, ListStep, FetchSome, ListDone
<1>2. CASE SkipFile \/ InstallFile \/ DoUpload \/ InstallFailed \/ InstallDone
  BY <1>2 DEF SkipFile, InstallFile, DoUpload, InstallFailed, InstallDone
<1>3. CASE InstallConduits \/ FetchConduits \/ SyncDone
  BY <1>3 DEF InstallConduits, FetchConduits, SyncDone
<1>4. CASE AskPref \/ DoFetch \/ GotPref
  BY <1>4 DEF AskPref, DoFetch, GotPref
<1>5. CASE CheckDone \/ UpdateUserInfo \/ FillPref \/ FilledPref \/ PrefsDone
  BY <1>5 DEF CheckDone, UpdateUserInfo, FillPref, FilledPref, PrefsDone
<1>6. CASE Crash \/ Release \/ DumpConduits \/ Finished \/ UNCHANGED vars
  BY <1>6 DEF Crash, Release, DumpConduits, Finished, vars
<1> QED
  BY <1>1, <1>2, <1>3, <1>4, <1>5, <1>6 DEF Next

Deleted == \A f \in install \ install' :
               palm[Named[f]] = Whole(Version[f]) \/ up.at = "refused"
Replaced == \A d \in DB :
               backup[d] \in {None, backup'[d]} \/ stage = "sync" \/
               \E s \in 1 .. Slots : attic[d][s] = None /\ attic'[d][s] = backup[d]
AddedTo == \A d \in DB : \A s \in 1 .. Slots : attic[d][s] \in {None, attic'[d][s]}

(* A file goes to a name that is free, and nothing else in the attic       *)
(* changes.                                                                *)
LEMMA AtticFacts ==
    ASSUME IInv, CheckFile
    PROVE  /\ Replaced /\ AddedTo
           /\ \A d \in DB : attic'[d] # attic[d] => listed[d] = None
           /\ UNCHANGED <<install, palm>>
<1>1. todo \subseteq DB
  BY DEF CheckFile, At, IInv, Rest, TodoOK
<1>2. PICK d \in todo :
        \/ listed[d] = None /\ FreeSlots(d) # {} /\ ToAttic(d)
        \/ UNCHANGED <<attic, backup>>
  BY DEF CheckFile
<1>3. /\ backup \in [DB -> Content \union {None}]
      /\ attic \in [DB -> [1 .. Slots -> Content \union {None}]]
      /\ UNCHANGED <<install, palm>>
  BY DEF IInv, Types, OwnTypeOK, CheckFile, uploadVars
<1>4. CASE UNCHANGED <<attic, backup>>
  BY <1>3, <1>4 DEF Replaced, AddedTo
<1>5. CASE listed[d] = None /\ FreeSlots(d) # {} /\ ToAttic(d)
  <2>1. PICK s : s = First(FreeSlots(d)) /\ s \in 1 .. Slots /\ attic[d][s] = None
    BY <1>5, FirstFree
  <2>2. attic' = [attic EXCEPT ![d][s] = backup[d]] /\ backup' = [backup EXCEPT ![d] = None]
    BY <1>5, <2>1 DEF ToAttic
  <2>3. attic'[d][s] = backup[d] /\ \A e \in DB \ {d} : attic'[e] = attic[e] /\ backup'[e] = backup[e]
    BY <1>1, <1>3, <2>1, <2>2
  <2>4. \A t \in 1 .. Slots : t # s => attic'[d][t] = attic[d][t]
    BY <1>1, <1>3, <2>1, <2>2
  <2>5. Replaced
    BY <2>1, <2>3 DEF Replaced
  <2>6. AddedTo
    BY <2>1, <2>3, <2>4 DEF AddedTo
  <2> QED
    BY <1>3, <1>5, <2>3, <2>5, <2>6
<1> QED
  BY <1>2, <1>4, <1>5

LEMMA InstalledFacts == ASSUME IInv, Installed PROVE Deleted /\ Replaced /\ UNCHANGED attic
<1>1. /\ up # NoUpload /\ (up.at = "ok" => palm[up.db] = Whole(up.ver)) /\ up.at \in {"ok", "refused"}
  BY DEF Installed, NoUpload, IInv, Rest, UploadOK
<1>2. PICK f \in Current :
          \/ /\ backup' = [backup EXCEPT ![up.db] = IF @ = None THEN Whole(up.ver) ELSE @]
             /\ install' = install \ (IF stage = "install" THEN {f} ELSE {})
          \/ /\ backup[up.db] = None
             /\ backup' \in {backup, [backup EXCEPT ![up.db] = Part(up.ver)]}
             /\ UNCHANGED install
  BY DEF Installed
<1>3. Named[f] = up.db /\ Version[f] = up.ver
  BY DEF Current
<1>4. Deleted
  BY <1>1, <1>2, <1>3 DEF Deleted
<1>5. \A d \in DB : backup[d] \in {None, backup'[d]}
  BY <1>2 DEF IInv, Types, OwnTypeOK
<1> QED
  BY <1>4, <1>5 DEF Installed, Replaced

(* InstallNewFiles deletes a file only when its database is on the Palm or *)
(* a block of it was refused; a file in the backup directory is replaced   *)
(* by a sync only, or moves to the attic; the attic only grows.            *)
THEOREM NoFileIsLost == Spec => NothingLost
<1>1. ASSUME IInv, [Next]_vars PROVE Deleted /\ Replaced /\ AddedTo
  <2>1. CASE Installed
    BY <1>1, <2>1, InstalledFacts DEF AddedTo
  <2>2. CASE SyncDb
    BY <2>2 DEF SyncDb, At, Deleted, Replaced, AddedTo
  <2>3. CASE CheckFile
    BY <1>1, <2>3, AtticFacts DEF Deleted
  <2>4. CASE UNCHANGED <<install, backup, attic>>
    BY <2>4 DEF Deleted, Replaced, AddedTo
  <2> QED
    BY <1>1, <2>1, <2>2, <2>3, <2>4, FilesKept
<1>2. IInv /\ [Next]_vars =>
       [/\ \A f \in install \ install' :
             palm[Named[f]] = Whole(Version[f]) \/ up.at = "refused"
        /\ \A d \in DB :
             backup[d] \in {None, backup'[d]} \/ stage = "sync" \/
             \E s \in 1 .. Slots : attic[d][s] = None /\ attic'[d][s] = backup[d]
        /\ \A d \in DB : \A s \in 1 .. Slots : attic[d][s] \in {None, attic'[d][s]}]_vars
  BY <1>1 DEF Deleted, Replaced, AddedTo
<1> QED
  BY <1>2, SessionInvariant, PTL DEF Spec, NothingLost

(* CheckLocalFiles moves a file to the attic only when its database is not *)
(* whole on the Palm, or could not be listed or installed.                 *)
THEOREM AtticGetsWhatIsGone == Spec => AtticOnlyIfGone
<1>1. ASSUME IInv, [Next]_vars, NEW d \in DB, attic'[d] # attic[d], palm[d] \in {Whole(v) : v \in Ver}
      PROVE  opts.filter \/ short \/ d \in botched
  <2>1. ~Installed /\ ~SyncDb
    BY <1>1, InstalledFacts DEF SyncDb
  <2>2. CheckFile
    BY <1>1, <2>1, FilesKept
  <2>3. listed[d] = None /\ up = NoUpload /\ stage = "attic"
    BY <1>1, <2>2, AtticFacts, IdleFacts DEF CheckFile, At
  <2>4. d \in OnPalm
    <3>1. \A v \in Ver : Whole(v) \in [ver : Ver, whole : BOOLEAN]
      BY DEF Whole
    <3>2. palm[d] # None
      BY <1>1, <3>1, UploadAssumption
    <3> QED
      BY <3>2 DEF OnPalm
  <2> QED
    BY <1>1, <2>3, <2>4 DEF IInv, Rest, ListOK
<1>2. IInv /\ [Next]_vars =>
        [\A d \in DB : attic'[d] # attic[d] /\ palm[d] \in {Whole(v) : v \in Ver} =>
          opts.filter \/ short \/ d \in botched]_vars
  BY <1>1
<1> QED
  BY <1>2, SessionInvariant, PTL DEF Spec, AtticOnlyIfGone
=============================================================================
