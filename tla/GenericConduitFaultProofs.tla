---------------------- MODULE GenericConduitFaultProofs ----------------------
(***************************************************************************)
(* What a sync that reports success promises, and what holds of the        *)
(* generic conduit when calls fail, for any number of records, edits and   *)
(* failures.                                                               *)
(***************************************************************************)
EXTENDS GenericConduitProofs

-----------------------------------------------------------------------------
(* The workstations' files are edited by nobody but ColdSync.  Then the    *)
(* files are clean, a sync only copies from the Palm, and every record it  *)
(* adds to the list it adds clean, or, in FirstSync, clears on its way.    *)
OnlyCopies == Editors \subseteq {Device}

AllClean(db) == \A j \in DOMAIN db : db[j].flags = {}
CopySteps == {ArchiveLocal, ArchiveRemote, ClearLocal, DeleteLocal, AppendRemote, InsertRemote, DropRemote}
FirstPlans == {<<>>, <<ClearLocal, ArchiveLocal>>, <<ArchiveLocal>>, <<ClearLocal>>, <<DeleteLocal>>}

(* FirstSync has still to clear this record.                               *)
ToClear(j) ==
    /\ mode = "first"
    /\ j > li \/ (j = li /\ plan # <<>> /\ Head(plan) \in {ClearLocal, DeleteLocal})
Copied(j) ==
    /\ localdb[j].flags = {} \/ ToClear(j)
    /\ mode = "first" => localdb[j].id # 0

CleanInv ==
    /\ \A h \in Hosts : backup[h] # NoFile => AllClean(backup[h])
    /\ pc \in {"remote", "local"} =>
          /\ \A k \in DOMAIN plan : plan[k] \in CopySteps
          /\ \A j \in DOMAIN localdb : Copied(j)
    /\ pc \in {"idle", "open"} => li = 0
    /\ pc = "remote" => mode # "first"
    /\ pc = "local" /\ mode = "first" => plan \in FirstPlans
    /\ pc = "write" => AllClean(localdb)
    /\ pc \in {"cleanup", "reset"} \/ Synced => backup[host] # NoFile

(* What a plan does with a clean local record.                             *)
LEMMA CopyPlans ==
    ASSUME NEW l \in Record, l.flags = {}, NEW r \in Record
    PROVE  /\ \A k \in DOMAIN SyncRecordPlan(l, r) : SyncRecordPlan(l, r)[k] \in CopySteps
           /\ \A k \in DOMAIN SlowNewPlan(r) : SlowNewPlan(r)[k] \in CopySteps
           /\ \A k \in DOMAIN FastNewPlan(r) : FastNewPlan(r)[k] \in CopySteps
           /\ \A k \in DOMAIN SlowLocalPlan(l) : SlowLocalPlan(l)[k] \in CopySteps
           /\ FastLocalPlan(l) = <<>>
<1>1. Status(l) = "clean"
  BY DEF Status
<1>2. SyncRecordPlan(l, r) \in {<<ArchiveRemote, DeleteLocal>>, <<DeleteLocal>>, <<InsertRemote, DeleteLocal>>, <<>>}
  <2>1. Status(r) \in Statuses
    BY DEF Status, Statuses
  <2>2. SyncRecordPlan(l, r) = SyncRecordTable[Status(r)][Status(l)]
    BY <1>1 DEF SyncRecordPlan
  <2> QED
    BY <1>1, <2>1, <2>2
    DEF Statuses, SyncRecordTable, RemoteArchived, RemoteExpunged, RemoteDirty, RemoteClean
<1>3. \A k \in DOMAIN SyncRecordPlan(l, r) : SyncRecordPlan(l, r)[k] \in CopySteps
  <2>1. PICK p : p = SyncRecordPlan(l, r)
    OBVIOUS
  <2>2. \A k \in DOMAIN p : p[k] \in CopySteps
    BY <1>2, <2>1 DEF CopySteps
  <2> QED
    BY <2>1, <2>2
<1>4. SlowLocalPlan(l) = <<ArchiveLocal, DeleteLocal>> /\ FastLocalPlan(l) = <<>>
  BY DEF SlowLocalPlan, FastLocalPlan, ToArchive
<1>5. SlowNewPlan(r) \in {<<ArchiveRemote>>, <<DropRemote>>, <<AppendRemote>>}
  BY DEF SlowNewPlan
<1>6. FastNewPlan(r) \in {<<ArchiveRemote>>, <<>>, <<AppendRemote>>}
  BY DEF FastNewPlan
<1>7. \A k \in DOMAIN SlowNewPlan(r) : SlowNewPlan(r)[k] \in CopySteps
  <2>1. PICK p : p = SlowNewPlan(r)
    OBVIOUS
  <2>2. \A k \in DOMAIN p : p[k] \in CopySteps
    BY <1>5, <2>1 DEF CopySteps
  <2> QED
    BY <2>1, <2>2
<1>8. \A k \in DOMAIN FastNewPlan(r) : FastNewPlan(r)[k] \in CopySteps
  <2>1. PICK p : p = FastNewPlan(r)
    OBVIOUS
  <2>2. \A k \in DOMAIN p : p[k] \in CopySteps
    BY <1>6, <2>1 DEF CopySteps
  <2> QED
    BY <2>1, <2>2
<1>9. \A k \in DOMAIN SlowLocalPlan(l) : SlowLocalPlan(l)[k] \in CopySteps
  <2>1. PICK p : p = SlowLocalPlan(l)
    OBVIOUS
  <2>2. \A k \in DOMAIN p : p[k] \in CopySteps
    BY <1>4, <2>1 DEF CopySteps
  <2> QED
    BY <2>1, <2>2
<1> QED
  BY <1>3, <1>4, <1>7, <1>8, <1>9

(* The plans of FirstSync, and what is left of one after a step.           *)
LEMMA FirstPlanFacts ==
    /\ \A r \in Record : FirstSyncPlan(r) \in FirstPlans
    /\ \A r \in Record : FirstSyncPlan(r) # <<>> /\ Head(FirstSyncPlan(r)) \in {ClearLocal, DeleteLocal}
    /\ \A p \in FirstPlans : /\ \A k \in DOMAIN p : p[k] \in CopySteps
                             /\ p # <<>> => /\ Tail(p) \in FirstPlans
                                            /\ Tail(p) # <<>> => Head(Tail(p)) = ArchiveLocal
                                            /\ Head(p) \in {ClearLocal, ArchiveLocal, DeleteLocal}
                                            /\ Head(p) = DeleteLocal => Tail(p) = <<>>
<1>1. \A r \in Record : FirstSyncPlan(r) \in {<<ClearLocal, ArchiveLocal>>, <<DeleteLocal>>, <<ClearLocal>>}
  BY DEF FirstSyncPlan
<1>2. /\ \A r \in Record : FirstSyncPlan(r) \in FirstPlans
      /\ \A r \in Record : FirstSyncPlan(r) # <<>> /\ Head(FirstSyncPlan(r)) \in {ClearLocal, DeleteLocal}
  BY <1>1, Tails DEF FirstPlans
<1>3. ASSUME NEW p \in FirstPlans PROVE \A k \in DOMAIN p : p[k] \in CopySteps
  BY <1>3 DEF FirstPlans, CopySteps
<1>4. ClearLocal # DeleteLocal /\ ArchiveLocal # DeleteLocal
  BY DEF ClearLocal, DeleteLocal, ArchiveLocal
<1>5. ASSUME NEW p \in FirstPlans, p # <<>>
      PROVE  /\ Tail(p) \in FirstPlans
             /\ Tail(p) # <<>> => Head(Tail(p)) = ArchiveLocal
             /\ Head(p) \in {ClearLocal, ArchiveLocal, DeleteLocal}
             /\ Head(p) = DeleteLocal => Tail(p) = <<>>
  <2>1. CASE p = <<ClearLocal, ArchiveLocal>>
    BY <1>4, <2>1, Tails DEF FirstPlans
  <2>2. CASE p \in {<<ArchiveLocal>>, <<ClearLocal>>, <<DeleteLocal>>}
    <3>1. Tail(p) = <<>> /\ Head(p) \in {ClearLocal, ArchiveLocal, DeleteLocal}
      BY <2>2, Tails
    <3> QED
      BY <3>1 DEF FirstPlans
  <2> QED
    BY <1>5, <2>1, <2>2 DEF FirstPlans
<1> QED
  BY <1>2, <1>3, <1>5

(* A step of a plan in a session that only copies.                         *)
LEMMA CopyStepFacts ==
    ASSUME Inductive, CleanInv, plan # <<>>
    PROVE  /\ pc \in {"remote", "local"} /\ Head(plan) \in CopySteps
           /\ \A j \in DOMAIN localdb : Copied(j)
           /\ Head(plan) \notin {ClearLocal, DeleteLocal} =>
                 \A j \in DOMAIN localdb : localdb[j].flags = {} \/ (mode = "first" /\ j > li)
           /\ mode = "first" => pc = "local" /\ plan \in FirstPlans
<1>1. pc \in {"remote", "local"} /\ SafePlan(plan)
  BY AtStep
<1>2. Head(plan) \in CopySteps
  <2>1. 1 \in DOMAIN plan /\ Head(plan) = plan[1]
    BY <1>1, LenProperties, EmptySeq DEF SafePlan
  <2> QED
    BY <1>1, <2>1 DEF CleanInv
<1>3. \A j \in DOMAIN localdb : Copied(j)
  BY <1>1 DEF CleanInv
<1>4. mode = "first" => pc = "local" /\ plan \in FirstPlans
  BY <1>1 DEF CleanInv
<1> QED
  BY <1>1, <1>2, <1>3, <1>4 DEF Copied, ToClear

LEMMA CopyStepClean ==
    ASSUME Inductive, CleanInv, plan # <<>>, plan' = Tail(plan),
           UNCHANGED <<backup, pc, host, mode, failed>>,
           \A j \in DOMAIN localdb' : Copied(j)'
    PROVE  CleanInv'
<1>1. pc \in {"remote", "local"} /\ (mode = "first" => pc = "local" /\ plan \in FirstPlans)
  BY CopyStepFacts
<1>2. \A k \in DOMAIN plan' : plan'[k] \in CopySteps
  <2>1. SafePlan(plan)
    BY AtStep
  <2>2. \A k \in DOMAIN Tail(plan) : \E j \in DOMAIN plan : plan[j] = Tail(plan)[k]
    BY <2>1, RestOfPlan
  <2>3. \A j \in DOMAIN plan : plan[j] \in CopySteps
    BY <1>1 DEF CleanInv
  <2>4. PICK t : t = Tail(plan)
    OBVIOUS
  <2> QED
    BY <2>2, <2>3, <2>4
<1>3. mode = "first" => plan' \in FirstPlans
  BY <1>1, FirstPlanFacts
<1>4. \A h \in Hosts : backup'[h] # NoFile => AllClean(backup'[h])
  BY DEF CleanInv
<1>5. pc = "remote" => mode # "first"
  BY DEF CleanInv
<1> QED
  BY <1>1, <1>2, <1>3, <1>4, <1>5 DEF CleanInv, Synced, AllClean

(* Unlinking localrec: what comes after it moves up.                       *)
LEMMA UnlinkClean ==
    ASSUME Inductive, IdsInv, CleanInv, plan # <<>>, plan' = Tail(plan), Head(plan) = DeleteLocal,
           UNCHANGED mode, Unlink, localdb' \in Seq(Record)
    PROVE  \A j \in DOMAIN localdb' : Copied(j)'
<1>1. /\ pc \in {"remote", "local"} /\ (mode = "first" => pc = "local")
      /\ \A j \in DOMAIN localdb : Copied(j)
  BY CopyStepFacts
<1>2. localdb \in Seq(Record) /\ li \in DOMAIN localdb /\ localdb[li].id \in Nat
  <2>1. DeleteLocal \in LocalrecSteps /\ localdb \in Seq(Record)
    BY DEF LocalrecSteps, Inductive, TypeOK
  <2> QED
    BY <2>1, AtStep, ListFacts
<1>3. PICK n \in Nat : n = Len(localdb) /\ DOMAIN localdb = 1 .. n /\ li \in 1 .. n
  BY <1>2, ListFacts
<1>4. PICK k : k = FindRecordByID(localdb, localdb[li].id)
  OBVIOUS
<1>5. k \in 1 .. n /\ k <= li /\ localdb[k].id = localdb[li].id /\ localdb' = Without(localdb, k)
  <2>1. k # 0
    BY <1>2, <1>4, FindFacts DEF Lacks
  <2> QED
    BY <1>2, <1>3, <1>4, <2>1, FindFacts DEF Unlink
<1>6. PICK w : w = localdb'
  OBVIOUS
<1>7. \A j \in DOMAIN w : \/ j < k /\ j \in DOMAIN localdb \ {k} /\ w[j] = localdb[j]
                          \/ j >= k /\ j + 1 \in DOMAIN localdb \ {k} /\ w[j] = localdb[j + 1]
  BY <1>2, <1>3, <1>5, <1>6, WithoutRecs
<1>8. mode = "first" => k = li
  <2>1. CASE Distinct(localdb)
    <3>1. mode = "first" => localdb[li].id # 0
      BY <1>1, <1>2 DEF Copied
    <3> QED
      BY <1>2, <1>3, <1>5, <2>1, <3>1 DEF Distinct
  <2>2. CASE Doubled
    BY <1>4, <2>2 DEF Doubled
  <2> QED
    BY <2>1, <2>2 DEF IdsInv, PlanIds, Plain, Replacing, Bringing
<1>9. mode = "first" => plan' = <<>> /\ li' = li - 1
  BY <1>1, CopyStepFacts, FirstPlanFacts DEF Unlink
<1>10. ASSUME NEW j \in DOMAIN w
       PROVE  /\ w[j].flags = {} \/ (mode = "first" /\ j > li - 1)
              /\ mode = "first" => w[j].id # 0
  <2>1. j \in Nat
    BY <1>6, ListFacts
  <2>2. CASE j < k /\ j \in DOMAIN localdb \ {k} /\ w[j] = localdb[j]
    <3>1. Copied(j) /\ j < li
      BY <1>1, <1>3, <1>5, <2>1, <2>2
    <3>2. ~ ToClear(j)
      BY <1>3, <2>1, <3>1 DEF ToClear
    <3> QED
      BY <2>2, <3>1, <3>2 DEF Copied
  <2>3. CASE j >= k /\ j + 1 \in DOMAIN localdb \ {k} /\ w[j] = localdb[j + 1]
    <3>1. Copied(j + 1)
      BY <1>1, <2>3
    <3>2. mode = "first" => j > li - 1
      BY <1>3, <1>8, <2>1, <2>3
    <3> QED
      BY <2>3, <3>1, <3>2 DEF Copied, ToClear
  <2> QED
    BY <1>7, <2>2, <2>3
<1> QED
  BY <1>6, <1>9, <1>10 DEF Copied, ToClear

(* The steps that leave the list alone, and those that make a record clean. *)
LEMMA CopyElsewhere ==
    ASSUME Inductive, CleanInv, DoArchive \/ DoDropRemote
    PROVE  CleanInv'
<1>1. plan # <<>> /\ plan' = Tail(plan) /\ UNCHANGED <<backup, pc, host, mode, failed, localdb, li>>
  BY DEF DoArchive, DoDropRemote, Step, NextStep, sessVars, fileVars
<1>2. Head(plan) \notin {ClearLocal, DeleteLocal}
  BY DEF DoArchive, DoDropRemote, Step, ArchiveLocal, ArchiveRemote, DropRemote, ClearLocal, DeleteLocal
<1>3. \A j \in DOMAIN localdb' : Copied(j)'
  BY <1>1, <1>2, CopyStepFacts DEF Copied, ToClear
<1> QED
  BY <1>1, <1>3, CopyStepClean

LEMMA CopyClearLocal == ASSUME Inductive, CleanInv, DoClearLocal PROVE CleanInv'
<1>1. /\ plan # <<>> /\ plan' = Tail(plan) /\ Head(plan) = ClearLocal
      /\ localdb' = ClearStatusFlags(localdb, li)
      /\ UNCHANGED <<backup, pc, host, mode, failed, li>>
  BY DEF DoClearLocal, Step, NextStep, sessVars, fileVars
<1>2. localdb \in Seq(Record) /\ li \in 1 .. Len(localdb) /\ localdb[li] \in Record
  BY <1>1, AtStep DEF LocalrecSteps, Inductive, TypeOK
<1>3. PICK r \in Record : r = [localdb[li] EXCEPT !.flags = {}] /\ r.flags = {} /\ r.id = localdb[li].id
  <2>1. [localdb[li] EXCEPT !.flags = {}] \in Record
    BY <1>2 DEF Record
  <2> QED
    BY <1>2, <2>1 DEF Record
<1>4. /\ DOMAIN localdb' = DOMAIN localdb /\ localdb'[li] = r
      /\ \A j \in DOMAIN localdb : j # li => localdb'[j] = localdb[j]
  <2>1. DOMAIN localdb = 1 .. Len(localdb) /\ li \in DOMAIN localdb
    BY <1>2, ListFacts
  <2>2. localdb' = [localdb EXCEPT ![li] = r]
    BY <1>1, <1>3, <2>1 DEF ClearStatusFlags
  <2> QED
    BY <2>1, <2>2
<1>5. \A j \in DOMAIN localdb : Copied(j)
  BY <1>1, CopyStepFacts
<1>6. \A j \in DOMAIN localdb' : Copied(j)'
  BY <1>1, <1>2, <1>3, <1>4, <1>5 DEF Copied, ToClear
<1> QED
  BY <1>1, <1>6, CopyStepClean

LEMMA CopyDeleteLocal == ASSUME Inductive, Inductive', IdsInv, CleanInv, DoDeleteLocal PROVE CleanInv'
<1>1. /\ plan # <<>> /\ plan' = Tail(plan) /\ Head(plan) = DeleteLocal /\ Unlink
      /\ UNCHANGED <<backup, pc, host, mode, failed>>
  BY DEF DoDeleteLocal, Step, NextStep, sessVars, fileVars
<1>2. localdb' \in Seq(Record)
  BY DEF Inductive, TypeOK
<1>3. \A j \in DOMAIN localdb' : Copied(j)'
  BY <1>1, <1>2, UnlinkClean
<1> QED
  BY <1>1, <1>3, CopyStepClean

LEMMA CopyBring ==
    ASSUME Inductive, CleanInv, DoAppendRemote \/ DoInsertRemote PROVE CleanInv'
<1>1. /\ plan # <<>> /\ plan' = Tail(plan) /\ Head(plan) \in {AppendRemote, AppendUnclean, InsertRemote}
      /\ UNCHANGED <<backup, pc, host, mode, failed, li>>
  BY DEF DoAppendRemote, DoInsertRemote, Step, NextStep, sessVars, fileVars
<1>2. mode # "first"
  <2>1. {AppendRemote, AppendUnclean, InsertRemote} \cap {ClearLocal, ArchiveLocal, DeleteLocal} = {}
    BY DEF AppendRemote, AppendUnclean, InsertRemote, ClearLocal, ArchiveLocal, DeleteLocal
  <2> QED
    BY <1>1, <2>1, CopyStepFacts, FirstPlanFacts
<1>3. localdb \in Seq(Record) /\ rem \in Record
  BY DEF Inductive, TypeOK
<1>4. \A j \in DOMAIN localdb : localdb[j].flags = {}
  BY <1>1, <1>2, CopyStepFacts DEF Copied, ToClear
<1>5. PICK r \in Record : r = Rec(rem.id, {}, rem.data) /\ r.flags = {}
  <2>1. rem.id \in Nat /\ rem.data \in Nat
    BY <1>3, RecordFacts
  <2>2. Rec(rem.id, {}, rem.data) \in Record
    BY <2>1 DEF Rec, Record
  <2> QED
    BY <2>2 DEF Rec
<1>6. CASE DoAppendRemote
  <2>1. AppendUnclean \notin CopySteps
    BY DEF AppendUnclean, CopySteps, ArchiveLocal, ArchiveRemote, ClearLocal, DeleteLocal,
           AppendRemote, InsertRemote, DropRemote
  <2>2. Head(plan) \in CopySteps
    BY <1>1, CopyStepFacts
  <2>3. localdb' = Append(localdb, r)
    BY <1>5, <1>6, <2>1, <2>2 DEF DoAppendRemote, Step, AppendRecord
  <2>4. \A j \in DOMAIN Append(localdb, r) :
            (j \in DOMAIN localdb /\ Append(localdb, r)[j] = localdb[j]) \/ Append(localdb, r)[j] = r
    BY <1>3, AppendRecs
  <2>5. \A j \in DOMAIN localdb' : localdb'[j].flags = {}
    BY <1>4, <1>5, <2>3, <2>4
  <2> QED
    BY <1>1, <1>2, <2>5, CopyStepClean DEF Copied
<1>7. CASE DoInsertRemote
  <2>1. localdb' = InsertRecord(localdb, li, r) /\ Head(plan) = InsertRemote
    BY <1>5, <1>7 DEF DoInsertRemote, Step
  <2>2. li \in DOMAIN localdb
    <3>1. InsertRemote \in LocalrecSteps
      BY DEF LocalrecSteps
    <3> QED
      BY <1>1, <1>3, <2>1, <3>1, AtStep, ListFacts
  <2>3. PICK new : new = InsertRecord(localdb, li, r)
    OBVIOUS
  <2>4. /\ new[li] = localdb[li]
        /\ \A j \in DOMAIN new : \/ j = li
                                 \/ new[j] = r
                                 \/ \E k \in DOMAIN localdb \ {li} : new[j] = localdb[k]
    BY <1>3, <2>2, <2>3, InsertRecs
  <2>5. \A j \in DOMAIN new : new[j].flags = {}
    BY <1>4, <1>5, <2>2, <2>4
  <2> QED
    BY <1>1, <1>2, <2>1, <2>3, <2>5, CopyStepClean DEF Copied
<1> QED
  BY <1>6, <1>7

LEMMA SyncRecordStepClean ==
    ASSUME Inductive, Inductive', IdsInv, CleanInv, SyncRecordStep PROVE CleanInv'
<1>1. ~ DoDeleteRemote /\ ~ DoPurgeLocal /\ ~ DoUpload
  <2>1. {DeleteRemote, PurgeLocal, UploadLocal, UploadAsNew} \cap CopySteps = {}
    BY DEF CopySteps, DeleteRemote, PurgeLocal, UploadLocal, UploadAsNew, ArchiveLocal, ArchiveRemote,
           ClearLocal, DeleteLocal, AppendRemote, InsertRemote, DropRemote
  <2>2. plan # <<>> => Head(plan) \in CopySteps
    BY CopyStepFacts
  <2> QED
    BY <2>1, <2>2 DEF DoDeleteRemote, DoPurgeLocal, DoUpload, Step
<1> QED
  BY <1>1, CopyElsewhere, CopyClearLocal, CopyDeleteLocal, CopyBring DEF SyncRecordStep

(* The other steps of a sync.                                              *)
LEMMA OpenClean == ASSUME Inductive, IdsInv, CleanInv, Open PROVE CleanInv'
<1>1. /\ pc = "open" /\ plan = <<>> /\ UNCHANGED <<backup, host, mode, failed, plan, li>>
      /\ \/ mode = "first" /\ pc' = "local" /\ localdb' = palm
         \/ mode \in {"slow", "fast"} /\ pc' = "remote" /\ localdb' = backup[host] /\ backup[host] # NoFile
  <2>1. mode \in {"first", "slow", "fast"} /\ pc = "open"
    BY DEF Open, Inductive, SessionInv, TypeOK, Modes
  <2>2. \/ mode = "first" /\ pc' = "local"  /\ localdb' = palm
        \/ mode \in {"slow", "fast"} /\ pc' = "remote" /\ localdb' = backup[host]
    BY <2>1 DEF Open
  <2> QED
    BY <2>1, <2>2 DEF Open, fileVars, Inductive, SessionInv
<1>2. host \in Hosts /\ li \in Nat
  BY <1>1 DEF Inductive, SessionInv, TypeOK
<1>3. \A k \in DOMAIN plan' : plan'[k] \in CopySteps
  BY <1>1
<1>4. \A j \in DOMAIN localdb' : Copied(j)'
  <2>1. CASE mode = "first" /\ localdb' = palm
    <3>1. \A j \in DOMAIN palm : j > 0 /\ palm[j].id # 0
      BY ListFacts DEF IdsInv, PalmIds, Assigned, Inductive, TypeOK
    <3>2. li' = 0 /\ mode' = "first"
      BY <1>1, <2>1 DEF CleanInv
    <3> QED
      BY <2>1, <3>1, <3>2 DEF Copied, ToClear
  <2>2. CASE mode \in {"slow", "fast"} /\ localdb' = backup[host] /\ backup[host] # NoFile
    <3>1. AllClean(backup[host])
      BY <1>2, <2>2 DEF CleanInv
    <3> QED
      BY <1>1, <2>2, <3>1 DEF AllClean, Copied
  <2> QED
    BY <1>1, <2>1, <2>2
<1> QED
  BY <1>1, <1>3, <1>4 DEF CleanInv, Synced, AllClean, FirstPlans

LEMMA DecideClean ==
    ASSUME Inductive, CleanInv, pc = "remote", NEW new \in Record, NEW newPlan,
           \A k \in DOMAIN newPlan : newPlan[k] \in CopySteps, Decide(new, newPlan),
           UNCHANGED <<backup, pc, host, mode, failed, localdb>>
    PROVE  CleanInv'
<1>1. PICK i : i = FindRecordByID(localdb, new.id)
  OBVIOUS
<1>2. /\ mode # "first" /\ \A j \in DOMAIN localdb : localdb[j].flags = {}
  BY DEF CleanInv, Copied, ToClear
<1>3. i # 0 => i \in DOMAIN localdb /\ localdb[i] \in Record
  <2>1. localdb \in Seq(Record) /\ new.id \in Nat
    BY RecordFacts DEF Inductive, TypeOK
  <2> QED
    BY <1>1, <2>1, FindFacts, ListFacts
<1>4. \A k \in DOMAIN plan' : plan'[k] \in CopySteps
  <2>1. CASE i = 0
    BY <1>1, <2>1 DEF Decide
  <2>2. CASE i # 0
    <3>1. PICK r : r = IF mode = "slow" THEN DistrustClean(localdb[i], new) ELSE new
      OBVIOUS
    <3>2. r \in Record
      BY <3>1 DEF DistrustClean, Record, Flags
    <3>3. plan' = SyncRecordPlan(localdb[i], r)
      BY <1>1, <2>2, <3>1 DEF Decide
    <3> QED
      BY <1>2, <1>3, <2>2, <3>2, <3>3, CopyPlans
  <2> QED
    BY <2>1, <2>2
<1>5. \A h \in Hosts : backup'[h] # NoFile => AllClean(backup'[h])
  BY DEF CleanInv
<1>6. \A j \in DOMAIN localdb' : Copied(j)'
  BY <1>2 DEF Copied
<1> QED
  BY <1>2, <1>4, <1>5, <1>6 DEF CleanInv, Synced, AllClean

LEMMA NextRemoteClean ==
    ASSUME Inductive, CleanInv, NextRemoteSlow \/ NextRemoteFast PROVE CleanInv'
<1>1. /\ pc = "remote" /\ UNCHANGED <<backup, pc, host, mode, failed, localdb>>
  BY DEF NextRemoteSlow, NextRemoteFast, fileVars, sessVars
<1>2. palm \in Seq(Record) /\ remotedb \in Seq(Record)
  BY DEF Inductive, TypeOK
<1>3. NoRec \in Record /\ NoRec.flags = {}
  BY DEF NoRec, Rec, Record
<1>4. CASE NextRemoteSlow
  <2>1. PICK i \in DOMAIN remotedb : Decide(remotedb[i], SlowNewPlan(remotedb[i]))
    BY <1>4 DEF NextRemoteSlow
  <2>2. remotedb[i] \in Record
    BY <1>2, ListFacts
  <2> QED
    BY <1>1, <1>3, <2>1, <2>2, CopyPlans, DecideClean
<1>5. CASE NextRemoteFast
  <2>1. PICK i \in DOMAIN palm : Decide(palm[i], FastNewPlan(palm[i]))
    BY <1>5 DEF NextRemoteFast, Unread
  <2>2. palm[i] \in Record
    BY <1>2, ListFacts
  <2> QED
    BY <1>1, <1>3, <2>1, <2>2, CopyPlans, DecideClean
<1> QED
  BY <1>4, <1>5

LEMMA RemoteDoneClean == ASSUME Inductive, CleanInv, RemoteDone PROVE CleanInv'
<1>1. /\ pc = "remote" /\ plan = <<>> /\ pc' = "local" /\ UNCHANGED <<backup, host, mode, failed, localdb, plan>>
  BY DEF RemoteDone, fileVars
<1>2. mode # "first" /\ \A j \in DOMAIN localdb : localdb[j].flags = {}
  BY <1>1 DEF CleanInv, Copied, ToClear
<1>3. \A h \in Hosts : backup'[h] # NoFile => AllClean(backup'[h])
  BY <1>1 DEF CleanInv
<1> QED
  BY <1>1, <1>2, <1>3 DEF CleanInv, Synced, AllClean, Copied

LEMMA NextLocalClean == ASSUME Inductive, CleanInv, NextLocal PROVE CleanInv'
<1>1. /\ pc = "local" /\ plan = <<>> /\ li < Len(localdb) /\ li' = li + 1
      /\ plan' = LocalPlan(localdb[li + 1]) /\ UNCHANGED <<backup, pc, host, mode, failed, localdb>>
  BY DEF NextLocal, fileVars, sessVars
<1>2. /\ localdb \in Seq(Record) /\ li \in Nat /\ mode \in {"first", "slow", "fast"}
      /\ li + 1 \in DOMAIN localdb /\ localdb[li + 1] \in Record
  <2>1. localdb \in Seq(Record) /\ li \in Nat /\ mode \in {"first", "slow", "fast"}
    BY <1>1 DEF Inductive, TypeOK, SessionInv, Modes
  <2>2. li + 1 \in DOMAIN localdb
    BY <1>1, <2>1, ListFacts
  <2> QED
    BY <2>1, <2>2, ListFacts
<1>3. \A j \in DOMAIN localdb : Copied(j) /\ j \in Nat
  BY <1>1, <1>2, ListFacts DEF CleanInv
<1>4. CASE mode = "first"
  <2>1. plan' = FirstSyncPlan(localdb[li + 1])
    BY <1>1, <1>4 DEF LocalPlan
  <2>2. /\ plan' \in FirstPlans /\ plan' # <<>> /\ Head(plan') \in {ClearLocal, DeleteLocal}
    BY <1>2, <2>1, FirstPlanFacts
  <2>3. \A k \in DOMAIN plan' : plan'[k] \in CopySteps
    BY <2>2, FirstPlanFacts
  <2>4. ASSUME NEW j \in DOMAIN localdb PROVE Copied(j)'
    <3>1. j < li + 1 \/ j = li + 1 \/ j > li + 1
      BY <1>2, <1>3
    <3>2. j < li + 1 => localdb[j].flags = {}
      BY <1>1, <1>2, <1>3 DEF Copied, ToClear
    <3>3. localdb[j].id # 0
      BY <1>3, <1>4 DEF Copied
    <3> QED
      BY <1>1, <1>4, <2>2, <3>1, <3>2, <3>3 DEF Copied, ToClear
  <2>5. \A h \in Hosts : backup'[h] # NoFile => AllClean(backup'[h])
    BY <1>1 DEF CleanInv
  <2> QED
    BY <1>1, <2>2, <2>3, <2>4, <2>5 DEF CleanInv, Synced, AllClean
<1>5. CASE mode # "first"
  <2>1. \A j \in DOMAIN localdb : localdb[j].flags = {}
    BY <1>3, <1>5 DEF Copied, ToClear
  <2>2. plan' \in {<<>>, FastLocalPlan(localdb[li + 1]), SlowLocalPlan(localdb[li + 1])}
    BY <1>1, <1>2, <1>5 DEF LocalPlan
  <2>3. \A k \in DOMAIN plan' : plan'[k] \in CopySteps
    BY <1>2, <2>1, <2>2, CopyPlans
  <2>4. \A h \in Hosts : backup'[h] # NoFile => AllClean(backup'[h])
    BY <1>1 DEF CleanInv
  <2>5. \A j \in DOMAIN localdb' : Copied(j)'
    BY <1>1, <1>5, <2>1 DEF Copied
  <2> QED
    BY <1>1, <1>5, <2>3, <2>4, <2>5 DEF CleanInv, Synced, AllClean
<1> QED
  BY <1>4, <1>5

LEMMA LocalDoneClean == ASSUME Inductive, CleanInv, LocalDone PROVE CleanInv'
<1>1. /\ pc = "local" /\ plan = <<>> /\ li = Len(localdb) /\ pc' = "write"
      /\ UNCHANGED <<backup, host, mode, failed, localdb, plan>>
  BY DEF LocalDone, fileVars, workVars
<1>2. \A j \in DOMAIN localdb : localdb[j].flags = {}
  <2>1. \A j \in DOMAIN localdb : Copied(j) /\ ~ (j > li)
    BY <1>1, ListFacts DEF CleanInv, Inductive, TypeOK
  <2> QED
    BY <1>1, <2>1 DEF Copied, ToClear
<1>3. \A h \in Hosts : backup'[h] # NoFile => AllClean(backup'[h])
  BY <1>1 DEF CleanInv
<1> QED
  BY <1>1, <1>2, <1>3 DEF CleanInv, Synced, AllClean

LEMMA WriteBackupClean == ASSUME Inductive, CleanInv, WriteBackup PROVE CleanInv'
<1>1. /\ pc = "write" /\ UNCHANGED <<host, mode>> /\ host \in Hosts
      /\ \/ backup' = [backup EXCEPT ![host] = localdb] /\ pc' = "cleanup"
         \/ backup' = backup /\ pc' = "userinfo" /\ failed' = TRUE
  BY DEF WriteBackup, Fail, Inductive, SessionInv
<1>2. localdb # NoFile /\ AllClean(localdb) /\ backup \in [Hosts -> Seq(Record) \cup {NoFile}]
  <2>1. localdb \in Seq(Record) /\ backup \in [Hosts -> Seq(Record) \cup {NoFile}]
    BY DEF Inductive, TypeOK
  <2> QED
    BY <1>1, <2>1, ConstantsAssumption DEF CleanInv
<1>3. ASSUME NEW h \in Hosts, backup'[h] # NoFile PROVE AllClean(backup'[h])
  <2>1. backup'[h] = backup[h] \/ backup'[h] = localdb
    BY <1>1, <1>2, <1>3
  <2> QED
    BY <1>2, <1>3, <2>1 DEF CleanInv, AllClean
<1>4. CASE backup' = [backup EXCEPT ![host] = localdb] /\ pc' = "cleanup"
  <2>1. backup'[host'] # NoFile
    BY <1>1, <1>2, <1>4
  <2> QED
    BY <1>3, <1>4, <2>1 DEF CleanInv, Synced, AllClean
<1>5. CASE pc' = "userinfo" /\ failed' = TRUE
  BY <1>3, <1>5 DEF CleanInv, Synced, AllClean
<1> QED
  BY <1>1, <1>4, <1>5

(* What does not touch the files, and starts no phase.                     *)
LEMMA OutsideClean ==
    ASSUME CleanInv, UNCHANGED backup,
           \/ pc' \in {"idle", "open"} /\ li' = 0
           \/ pc' = "userinfo" /\ failed' = TRUE
           \/ pc \in {"cleanup", "reset"} /\ pc' \in {"reset", "userinfo"} /\ UNCHANGED host
    PROVE  CleanInv'
<1>1. \A h \in Hosts : backup'[h] # NoFile => AllClean(backup'[h])
  BY DEF CleanInv
<1> QED
  BY <1>1 DEF CleanInv, Synced, AllClean

LEMMA OutsideSteps ==
    ASSUME CleanInv, \/ \E h \in Hosts : StartSync(h)
                     \/ Cancel \/ OpenFails \/ ReadFails \/ CleanUpDatabase \/ ResetSyncFlags
                     \/ UpdateUserInfo \/ Crash
    PROVE  CleanInv'
<1>1. UNCHANGED backup
  BY DEF StartSync, Cancel, OpenFails, ReadFails, CleanUpDatabase, ResetSyncFlags, UpdateUserInfo, Crash,
         fileVars
<1>2. CASE \E h \in Hosts : StartSync(h)
  BY <1>1, <1>2, OutsideClean DEF StartSync, workVars, CleanInv
<1>3. CASE Cancel \/ UpdateUserInfo \/ Crash
  BY <1>1, <1>3, OutsideClean DEF Cancel, UpdateUserInfo, Crash, EndSession
<1>4. CASE OpenFails \/ ReadFails
  BY <1>1, <1>4, OutsideClean DEF OpenFails, ReadFails, Fail
<1>5. CASE CleanUpDatabase \/ ResetSyncFlags
  BY <1>1, <1>5, OutsideClean DEF CleanUpDatabase, ResetSyncFlags, Fail
<1> QED
  BY <1>2, <1>3, <1>4, <1>5

LEMMA UserStepClean == ASSUME OnlyCopies, CleanInv, UserStep PROVE CleanInv'
<1>1. \A h \in Hosts : h \notin Editors
  BY ConstantsAssumption DEF OnlyCopies
<1>2. \/ \E i \in DOMAIN palm : PalmEdit(i) \/ PalmArchive(i) \/ PalmExpunge(i)
      \/ PalmNew
  BY <1>1 DEF UserStep, DesktopNew, DesktopEdit, DesktopArchive, DesktopExpunge, NewEdit
<1>3. UNCHANGED backup /\ pc' = "idle" /\ pc = "idle" /\ li' = li
  BY <1>2 DEF PalmEdit, PalmArchive, PalmExpunge, PalmNew, NewEdit, fileVars, sessVars, workVars
<1> QED
  BY <1>3, OutsideClean DEF CleanInv

LEMMA InitClean == ASSUME Init PROVE CleanInv
<1>1. pc = "idle" /\ li = 0
  BY DEF Init
<1>2. ASSUME NEW h \in Hosts, backup[h] # NoFile PROVE AllClean(backup[h])
  <2>1. InitSynced # {} /\ backup[h] = [i \in 1 .. InitRecords |-> Rec(i, {}, i)]
    BY <1>2 DEF Init
  <2> QED
    BY <2>1 DEF AllClean, Rec
<1> QED
  BY <1>1, <1>2 DEF CleanInv, Synced

LEMMA NextClean ==
    ASSUME OnlyCopies, Inductive, Inductive', IdsInv, CleanInv, [Next]_vars PROVE CleanInv'
<1>1. CASE UserStep
  BY <1>1, UserStepClean
<1>2. CASE \/ \E h \in Hosts : StartSync(h)
           \/ Cancel \/ OpenFails \/ ReadFails \/ CleanUpDatabase \/ ResetSyncFlags
           \/ UpdateUserInfo \/ Crash
  BY <1>2, OutsideSteps
<1>3. CASE Open \/ NextRemoteSlow \/ NextRemoteFast \/ RemoteDone \/ NextLocal \/ LocalDone \/ WriteBackup
  BY <1>3, OpenClean, NextRemoteClean, RemoteDoneClean, NextLocalClean, LocalDoneClean, WriteBackupClean
<1>4. CASE SyncRecordStep
  BY <1>4, SyncRecordStepClean
<1>5. CASE UNCHANGED vars
  <2>1. UNCHANGED <<backup, pc, host, mode, failed, localdb, li, plan>>
    BY <1>5 DEF vars, fileVars, sessVars, workVars
  <2> QED
    BY <2>1 DEF CleanInv, Synced, AllClean, Copied, ToClear
<1> QED
  BY <1>1, <1>2, <1>3, <1>4, <1>5 DEF Next, SyncStep

(* Where nobody but ColdSync edits a backup file, a sync that reports      *)
(* success leaves no status bit in the file, in whatever order the hosts   *)
(* sync, whatever bits the Palm's applications set and whatever has failed *)
(* before.  (A record the user archives in the file, and edits on the      *)
(* Palm, is the one that may come back with its bit: AppendUnclean.)       *)
THEOREM OnlyCopiesClean == OnlyCopies /\ Spec => []CleanAfterSync
<1>1. Init => CleanInv
  BY InitClean
<1>2. OnlyCopies /\ Inductive /\ Inductive' /\ IdsInv /\ CleanInv /\ [Next]_vars => CleanInv'
  BY NextClean
<1>3. CleanInv /\ Inductive => CleanAfterSync
  <2> SUFFICES ASSUME CleanInv, Inductive, Synced PROVE \A i \in DOMAIN backup[host] : backup[host][i].flags = {}
    BY DEF CleanAfterSync
  <2>1. host \in Hosts
    BY DEF Synced, Inductive, SessionInv
  <2> QED
    BY <2>1 DEF CleanInv, AllClean
<1>4. OnlyCopies => OnlyCopies'
  BY DEF OnlyCopies
<1> QED
  BY <1>1, <1>2, <1>3, <1>4, InductiveInvariant, IdsInvariant, PTL DEF Spec

-----------------------------------------------------------------------------
(* One desktop: then no edit is lost even when calls fail, the disk is     *)
(* full or the program dies.  With two, or with a Palm that hands out      *)
(* written records clean, or an archive file that cannot be written, some  *)
(* are; and a call may only fail where every sync is a fast one, because   *)
(* SlowSync goes on after a SyncRecord that failed.                        *)
AlwaysFast == InitSynced = Hosts /\ "slow" \notin Forced
OneDesktop ==
    /\ OrdinaryUse
    /\ \A g, h \in Hosts : g = h
    /\ {} \notin WriteMarks
    /\ "archive" \notin Faults
    /\ "disconnect" \in Faults \/ "refuse" \in Faults => AlwaysFast

(* What the next sync starts from, wherever this one stops.                *)
Usable  == ListsDecent /\ AllInPlace /\ FilesGood /\ \A h \in Hosts : Trust(h)
FastInv == AlwaysFast =>
               \A h \in Hosts : mode \in {"none", "fast"} /\ lastSyncPC = h /\ backup[h] # NoFile
GaveUp  == pc = "userinfo" /\ failed
Robust  == Usable /\ FastInv /\ (Edits \/ GaveUp)

Sure ==
    /\ OneDesktop
    /\ Inductive /\ IdsInv /\ Robust
    /\ Inductive' /\ IdsInv'

(* Only the user's edits and the file system take content away.            *)
LEMMA SyncGrows ==
    ASSUME TypeOK, SyncStep \/ Cancel \/ Crash \/ (\E h \in Hosts : StartSync(h))
    PROVE  Growing
<1>1. CASE DoArchive
  <2>1. UNCHANGED <<wanted, edits>>
    BY <1>1 DEF DoArchive, userVars
  <2>2. PICK data : archive' = [archive EXCEPT ![host] = @ \cup {data}] \/ archive' = archive
    BY <1>1 DEF DoArchive, ArchiveRecord
  <2>3. \A h \in Hosts : archive[h] \subseteq archive'[h]
    BY <2>2 DEF TypeOK
  <2> QED
    BY <2>1, <2>3 DEF Growing
<1>2. CASE \/ DoClearLocal \/ DoDeleteLocal \/ DoAppendRemote \/ DoInsertRemote \/ DoDropRemote
           \/ DoDeleteRemote \/ DoPurgeLocal \/ DoUpload
  <2>1. UNCHANGED <<fileVars, userVars>>
    BY <1>2 DEF DoClearLocal, DoDeleteLocal, DoAppendRemote, DoInsertRemote, DoDropRemote,
       DoDeleteRemote, DoPurgeLocal, DoUpload
  <2> QED
    BY <2>1 DEF Growing, fileVars, userVars
<1>3. CASE \/ Open \/ OpenFails \/ NextRemoteSlow \/ NextRemoteFast \/ ReadFails \/ RemoteDone
           \/ NextLocal \/ LocalDone \/ CleanUpDatabase \/ ResetSyncFlags \/ UpdateUserInfo
           \/ Cancel \/ Crash \/ (\E h \in Hosts : StartSync(h))
  <2>1. UNCHANGED <<fileVars, userVars>>
    BY <1>3 DEF Open, OpenFails, NextRemoteSlow, NextRemoteFast, ReadFails, RemoteDone,
       NextLocal, LocalDone, CleanUpDatabase, ResetSyncFlags, UpdateUserInfo, Cancel, Crash, StartSync
  <2> QED
    BY <2>1 DEF Growing, fileVars, userVars
<1>4. CASE WriteBackup
  BY <1>4 DEF WriteBackup, Growing, userVars
<1> QED
  BY <1>1, <1>2, <1>3, <1>4 DEF SyncStep, SyncRecordStep

(* What the calls of a sync can do to the Palm.                            *)
LEMMA PalmCalls ==
    ASSUME SyncStep \/ Cancel \/ Crash \/ (\E h \in Hosts : StartSync(h))
    PROVE  \/ UNCHANGED palm
           \/ DoDeleteRemote /\ Remove(rem.id)
           \/ DoPurgeLocal /\ Remove(localdb[li].id)
           \/ /\ DoUpload
              /\ \E id, newID : /\ (Step(UploadLocal) /\ id = localdb[li].id) \/ (Step(UploadAsNew) /\ id = 0)
                                /\ newID \in {id, nextId}
                                /\ Store(id, localdb[li].data, newID)
           \/ CleanUpDatabase /\ CleanUp
           \/ ResetSyncFlags /\ ResetFlags
<1>1. CASE DoDeleteRemote
  BY <1>1 DEF DoDeleteRemote, Refused, NotWritable, Lost
<1>2. CASE DoPurgeLocal
  BY <1>2 DEF DoPurgeLocal, Refused, NotWritable, Lost
<1>3. CASE DoUpload
  <2>1. PICK id : /\ (Step(UploadLocal) /\ id = localdb[li].id) \/ (Step(UploadAsNew) /\ id = 0)
                  /\ Upload(id)
    BY <1>3 DEF DoUpload
  <2>2. UNCHANGED palm \/ \E newID \in {id, nextId} : Store(id, localdb[li].data, newID)
    BY <2>1 DEF Upload, Refused, NotWritable, Lost, Stored
  <2> QED
    BY <1>3, <2>1, <2>2
<1>4. CASE CleanUpDatabase
  BY <1>4 DEF CleanUpDatabase, Refused, NotWritable, Lost
<1>5. CASE ResetSyncFlags
  BY <1>5 DEF ResetSyncFlags, Refused, NotWritable, Lost
<1>6. CASE OpenFails \/ ReadFails
  BY <1>6 DEF OpenFails, ReadFails, Refused, Lost
<1>7. CASE \/ Open \/ NextRemoteSlow \/ NextRemoteFast \/ RemoteDone
           \/ NextLocal \/ LocalDone \/ WriteBackup \/ UpdateUserInfo
           \/ DoArchive \/ DoClearLocal \/ DoDeleteLocal \/ DoAppendRemote \/ DoInsertRemote \/ DoDropRemote
           \/ Cancel \/ Crash \/ (\E h \in Hosts : StartSync(h))
  <2>1. UNCHANGED palm
    BY <1>7 DEF Open, NextRemoteSlow, NextRemoteFast, RemoteDone, NextLocal, LocalDone, WriteBackup,
       UpdateUserInfo, DoArchive, DoClearLocal, DoDeleteLocal, DoAppendRemote, DoInsertRemote,
       DoDropRemote, Cancel, Crash, StartSync, palmVars
  <2> QED
    BY <2>1
<1> QED
  BY <1>1, <1>2, <1>3, <1>4, <1>5, <1>6, <1>7 DEF SyncStep, SyncRecordStep

(* A record that is clean after a call was there before it.                *)
LEMMA CleanOnPalm ==
    ASSUME OrdinaryUse, {} \notin WriteMarks, Inductive, IdsInv, ~ ResetSyncFlags,
           SyncStep \/ Cancel \/ Crash \/ (\E h \in Hosts : StartSync(h))
    PROVE  \A q \in Recs(palm') : q.flags = {} => q \in Recs(palm)
<1>1. palm \in Seq(Record) /\ nextId \in Nat /\ PalmIds /\ rem \in Record /\ rem.id \in Nat
  BY RecordFacts DEF Inductive, TypeOK, IdsInv
<1>2. CASE UNCHANGED palm
  BY <1>2
<1>3. CASE Remove(rem.id)
  BY <1>1, <1>3, RemoveRecs
<1>4. CASE DoPurgeLocal /\ Remove(localdb[li].id)
  <2>1. plan # <<>> /\ Head(plan) \in LocalrecSteps
    BY <1>4 DEF DoPurgeLocal, Step, LocalrecSteps
  <2>2. localdb[li].id \in Nat
    BY <2>1, AtStep
  <2> QED
    BY <1>1, <1>4, <2>2, RemoveRecs
<1>5. CASE /\ DoUpload
           /\ \E id, newID : /\ (Step(UploadLocal) /\ id = localdb[li].id) \/ (Step(UploadAsNew) /\ id = 0)
                             /\ newID \in {id, nextId}
                             /\ Store(id, localdb[li].data, newID)
  <2>1. PICK id, newID : /\ (Step(UploadLocal) /\ id = localdb[li].id) \/ (Step(UploadAsNew) /\ id = 0)
                         /\ newID \in {id, nextId}
                         /\ Store(id, localdb[li].data, newID)
    BY <1>5
  <2>2. plan # <<>> /\ Head(plan) \in LocalrecSteps
    BY <2>1 DEF Step, LocalrecSteps
  <2>3. localdb[li].id \in Nat /\ localdb[li].data \in Nat
    BY <2>2, AtStep
  <2>4. PICK q \in Record : q.flags \in WriteMarks /\ Recs(palm') = {p \in Recs(palm) : p.id # newID} \cup {q}
    <3>1. id \in Nat /\ newID \in Nat
      BY <1>1, <2>1, <2>3
    <3> QED
      BY <1>1, <2>1, <2>3, <3>1, StoreRecs
  <2> QED
    BY <2>4
<1>6. CASE CleanUp
  BY <1>1, <1>6, PurgedRecs DEF CleanUp
<1> QED
  BY <1>2, <1>3, <1>4, <1>5, <1>6, PalmCalls

(* So no call spoils a file for the next sync.                             *)
LEMMA TrustKept ==
    ASSUME Growing, UNCHANGED backup, \A q \in Recs(palm') : q.flags = {} => q \in Recs(palm)
    PROVE  \A h \in Hosts : Trust(h) => Trust(h)'
  BY SettledStays DEF Trust

(* A failed sync leaves what the next one starts from.                     *)
LEMMA FailedStep ==
    ASSUME Sure, Edits, Growing, PalmKeeps, \A h \in Hosts : Trust(h)', \A q \in Recs(palm') : Decent(q),
           UNCHANGED <<backup, localdb, remotedb, rem, mode, lastSyncPC>>, Fail
    PROVE  Robust'
<1>1. AllInPlace' /\ FilesGood'
  BY PlacesStay DEF Edits
<1>2. ListsDecent'
  <2>1. wanted' = wanted /\ edits' = edits
    BY DEF Growing
  <2> QED
    BY <2>1, SettledStays DEF Edits, ListsDecent, Newest
<1>3. FastInv'
  BY DEF Sure, Robust, FastInv, AlwaysFast
<1>4. GaveUp'
  BY DEF Fail, GaveUp
<1> QED
  BY <1>1, <1>2, <1>3, <1>4 DEF Robust, Usable

(* A session that is over leaves it, too.                                  *)
LEMMA OverStep ==
    ASSUME Sure, pc # "idle", EndSession, UNCHANGED <<palm, nextId, fileVars, userVars>>, lastSyncPC' \in {lastSyncPC, host}
    PROVE  Robust'
<1>1. /\ pc' = "idle" /\ localdb' = <<>> /\ remotedb' = <<>> /\ seen' = {} /\ rem' = NoRec /\ li' = 0 /\ plan' = <<>>
      /\ mode' = "none" /\ UNCHANGED <<palm, backup, archive, wanted, edits>>
  BY DEF EndSession, fileVars, userVars
<1>2. Usable
  BY DEF Sure, Robust
<1>3. Growing /\ PalmKeeps
  BY <1>1 DEF Growing, PalmKeeps
<1>4. AllInPlace' /\ FilesGood'
  BY <1>1, <1>2, <1>3, PlacesStay DEF Usable
<1>5. ListsDecent'
  <2>1. Decent(NoRec)
    <3>1. InitRecords \in Nat /\ edits \in Nat
      BY ConstantsAssumption DEF Sure, Inductive, TypeOK
    <3> QED
      BY <3>1 DEF Decent, NoRec, Rec, Newest
  <2>2. Recs(<<>>) = {}
    BY DEF Recs
  <2> QED
    BY <1>1, <1>2, <1>3, <2>1, <2>2, SettledStays DEF Usable, ListsDecent, Newest
<1>6. \A h \in Hosts : Trust(h)'
  BY <1>1, <1>2, <1>3, SettledStays DEF Usable, Trust
<1>7. BetweenSyncs'
  BY <1>1, <1>6 DEF BetweenSyncs, Trust
<1>8. FastInv'
  <2>1. AlwaysFast => \A h \in Hosts : lastSyncPC = h /\ backup[h] # NoFile
    BY DEF Sure, Robust, FastInv
  <2>2. ASSUME AlwaysFast, NEW h \in Hosts PROVE lastSyncPC' = h
    <3>1. host \in Hosts \cup {NoHost} /\ lastSyncPC = h
      BY <2>1, <2>2 DEF Sure, Inductive, TypeOK
    <3>2. lastSyncPC' \in Hosts \cup {NoHost}
      BY DEF Sure, Inductive, TypeOK
    <3>3. host \in Hosts
      BY DEF Sure, Inductive, SessionInv
    <3> QED
      BY <3>1, <3>2, <3>3 DEF Sure, OneDesktop
  <2> QED
    BY <1>1, <2>1, <2>2 DEF FastInv, AlwaysFast
<1>9. Edits'
  BY <1>1, <1>4, <1>5, <1>7 DEF Edits
<1> QED
  BY <1>4, <1>5, <1>6, <1>8, <1>9 DEF Robust, Usable

(* In every state but that of a sync that has failed.                      *)
LEMMA SureCalm == ASSUME Sure, Edits PROVE Calm
  BY DEF Sure, OneDesktop, Calm

(* What the next fast sync relies on, in every step.                       *)
LEMMA TrustNext ==
    ASSUME Sure, Edits, [Next]_vars, pc = "write" => FileAgrees' \/ UNCHANGED backup
    PROVE  \A h \in Hosts : Trust(h)'
<1>1. \A h \in Hosts : Trust(h)
  BY DEF Sure, Robust, Usable
<1>2. CASE UserStep
  BY <1>1, <1>2, SureCalm, UserStepEdits DEF TrustStays
<1>3. CASE UNCHANGED vars
  <2>1. UNCHANGED <<palm, backup, archive, wanted, edits>>
    BY <1>3 DEF vars, palmVars, fileVars, userVars
  <2>2. Growing
    BY <2>1 DEF Growing
  <2> QED
    BY <1>1, <2>1, <2>2, TrustKept
<1>4. ASSUME SyncStep \/ Cancel \/ Crash \/ (\E h \in Hosts : StartSync(h)), UNCHANGED backup, ~ ResetSyncFlags
      PROVE  \A h \in Hosts : Trust(h)'
  <2>1. Growing
    BY <1>4, SyncGrows DEF Sure, Inductive
  <2>2. \A q \in Recs(palm') : q.flags = {} => q \in Recs(palm)
    BY <1>4, CleanOnPalm DEF Sure, OneDesktop
  <2> QED
    BY <1>1, <1>4, <2>1, <2>2, TrustKept
<1>5. CASE ResetSyncFlags
  <2>1. pc = "reset" /\ UNCHANGED backup
    BY <1>5 DEF ResetSyncFlags, fileVars
  <2>2. FileAgrees /\ host \in Hosts
    BY <2>1 DEF Edits, Sure, Inductive, SessionInv
  <2>3. Growing
    BY <1>5, SyncGrows DEF Sure, Inductive, SyncStep
  <2>4. UNCHANGED palm \/ ResetFlags
    BY <1>5 DEF ResetSyncFlags, Refused, Lost
  <2>5. \A q \in Recs(palm') : \E p \in Recs(palm) : q.id = p.id /\ q.data = p.data
    BY <2>4, ResetRecs DEF Sure, Inductive, TypeOK
  <2>6. \A q \in Recs(palm'), r \in Recs(backup[host]) : Agree(q, r)
    BY <2>2, <2>5 DEF FileAgrees, Agree
  <2>7. \A q \in Recs(palm'), r \in Recs(backup[host]) : Agree(q, r)'
    BY <2>3, <2>6, SettledStays
  <2>8. \A h \in Hosts : h = host
    BY <2>2 DEF Sure, OneDesktop
  <2> QED
    BY <2>1, <2>7, <2>8 DEF Trust
<1>6. CASE WriteBackup
  <2>1. pc = "write" /\ host' = host /\ host \in Hosts
    BY <1>6 DEF WriteBackup, Sure, Inductive, SessionInv
  <2>2. CASE FileAgrees'
    <3>1. \A h \in Hosts : h = host'
      BY <2>1 DEF Sure, OneDesktop
    <3> QED
      BY <2>2, <3>1 DEF FileAgrees, Trust
  <2>3. CASE UNCHANGED backup
    <3>1. ~ ResetSyncFlags
      BY <2>1 DEF ResetSyncFlags
    <3> QED
      BY <1>4, <1>6, <2>3, <3>1 DEF SyncStep
  <2> QED
    BY <2>1, <2>2, <2>3
<1>7. ASSUME Next, ~ UserStep, ~ WriteBackup PROVE UNCHANGED backup
  <2>1. CASE \/ Open \/ OpenFails \/ NextRemoteSlow \/ NextRemoteFast \/ ReadFails \/ RemoteDone
             \/ NextLocal \/ LocalDone \/ CleanUpDatabase \/ ResetSyncFlags \/ UpdateUserInfo
             \/ Cancel \/ Crash \/ (\E h \in Hosts : StartSync(h))
    BY <2>1 DEF Open, OpenFails, NextRemoteSlow, NextRemoteFast, ReadFails, RemoteDone,
       NextLocal, LocalDone, CleanUpDatabase, ResetSyncFlags, UpdateUserInfo, Cancel, Crash, StartSync, fileVars
  <2>2. CASE SyncRecordStep
    BY <2>2 DEF SyncRecordStep, DoArchive, DoClearLocal, DoDeleteLocal, DoAppendRemote, DoInsertRemote,
       DoDropRemote, DoDeleteRemote, DoPurgeLocal, DoUpload, fileVars
  <2> QED
    BY <1>7, <2>1, <2>2 DEF Next, SyncStep
<1> QED
  BY <1>2, <1>3, <1>4, <1>5, <1>6, <1>7 DEF Next

(* A fast sync stays a fast one, and the next one will be fast, too.       *)
LEMMA FastStays ==
    ASSUME Inductive, FastInv, \A g, h \in Hosts : g = h, [Next]_vars,
           UserStep => \A h \in Hosts : backup[h] # NoFile => backup'[h] # NoFile
    PROVE  FastInv'
<1> SUFFICES ASSUME AlwaysFast, NEW h \in Hosts PROVE mode' \in {"none", "fast"} /\ lastSyncPC' = h /\ backup'[h] # NoFile
  BY DEF FastInv, AlwaysFast
<1>1. mode \in {"none", "fast"} /\ lastSyncPC = h /\ backup[h] # NoFile /\ "slow" \notin Forced
  BY DEF FastInv, AlwaysFast
<1>2. \A g \in Hosts : g = h
  OBVIOUS
<1>3. CASE UserStep
  <2>1. UNCHANGED <<mode, lastSyncPC>>
    BY <1>3, UserFrame DEF sessVars
  <2>2. backup'[h] # NoFile
    BY <1>1, <1>3
  <2> QED
    BY <1>1, <2>1, <2>2
<1>4. CASE \E g \in Hosts : StartSync(g)
  BY <1>1, <1>2, <1>4 DEF StartSync, palmVars, fileVars
<1>5. CASE Cancel \/ Crash
  BY <1>1, <1>5 DEF Cancel, Crash, EndSession, palmVars, fileVars
<1>6. CASE UpdateUserInfo
  <2>1. host \in Hosts
    BY <1>6 DEF UpdateUserInfo, Inductive, SessionInv
  <2> QED
    BY <1>1, <1>2, <1>6, <2>1 DEF UpdateUserInfo, EndSession, fileVars
<1>7. CASE WriteBackup
  <2>1. UNCHANGED <<mode, lastSyncPC>>
    BY <1>7 DEF WriteBackup, palmVars
  <2>2. backup'[h] # NoFile
    <3>1. localdb \in Seq(Record) /\ NoFile \notin Seq(Record) /\ host \in Hosts /\ backup \in [Hosts -> Seq(Record) \cup {NoFile}]
      BY <1>7, ConstantsAssumption DEF WriteBackup, Inductive, SessionInv, TypeOK
    <3>2. host = h
      BY <1>2, <3>1
    <3>3. backup'[h] \in {localdb, backup[h]}
      BY <1>7, <3>1, <3>2 DEF WriteBackup
    <3> QED
      BY <1>1, <3>1, <3>3
  <2> QED
    BY <1>1, <2>1, <2>2
<1>8. CASE \/ Open \/ OpenFails \/ NextRemoteSlow \/ NextRemoteFast \/ ReadFails \/ RemoteDone
           \/ NextLocal \/ LocalDone \/ CleanUpDatabase \/ ResetSyncFlags
  <2>1. UNCHANGED <<mode, lastSyncPC, backup>>
    BY <1>8 DEF Open, OpenFails, NextRemoteSlow, NextRemoteFast, ReadFails, RemoteDone,
       NextLocal, LocalDone, CleanUpDatabase, ResetSyncFlags, fileVars, palmVars, sessVars
  <2> QED
    BY <1>1, <2>1
<1>9. CASE SyncRecordStep
  <2>1. UNCHANGED <<mode, lastSyncPC, backup>>
    BY <1>9 DEF SyncRecordStep, DoArchive, DoClearLocal, DoDeleteLocal, DoAppendRemote, DoInsertRemote,
       DoDropRemote, DoDeleteRemote, DoPurgeLocal, DoUpload, fileVars, palmVars, sessVars
  <2> QED
    BY <1>1, <2>1
<1>10. CASE UNCHANGED vars
  BY <1>1, <1>10 DEF vars, sessVars, palmVars, fileVars
<1> QED
  BY <1>3, <1>4, <1>5, <1>6, <1>7, <1>8, <1>9, <1>10 DEF Next, SyncStep

LEMMA FastNext == ASSUME Sure, Edits, [Next]_vars PROVE FastInv'
<1>1. Inductive /\ FastInv /\ (\A g, h \in Hosts : g = h)
  BY DEF Sure, Robust, OneDesktop
<1>2. UserStep => \A h \in Hosts : backup[h] # NoFile => backup'[h] # NoFile
  BY SureCalm, UserStepEdits DEF TrustStays
<1> QED
  BY <1>1, <1>2, FastStays

(* A call only fails in a fast sync, which then gives up.                  *)
LEMMA FailsFast ==
    ASSUME Sure, pc # "idle", Fault("disconnect") \/ Fault("refuse")
    PROVE  mode # "slow" /\ (GiveUp => Fail)
<1>1. AlwaysFast /\ host \in Hosts
  BY DEF Sure, OneDesktop, Fault, Inductive, SessionInv
<1>2. mode # "slow"
  BY <1>1 DEF Sure, Robust, FastInv
<1> QED
  BY <1>2 DEF GiveUp

(* How a call ends in such a step: refused, or lost with the connection.   *)
LEMMA CallFails ==
    ASSUME Sure, Edits, pc # "idle", ~ NoFault
    PROVE  /\ online /\ ~ opened /\ ~ NotWritable
           /\ Refused => Fault("refuse") /\ UNCHANGED <<palm, nextId>>
<1>1. online /\ ~ opened
  BY DEF Edits
<1> QED
  BY <1>1 DEF NotWritable, Refused

(* The connection is lost before the first record is in hand, or between   *)
(* two records; the backup file cannot be read or written.                 *)
LEMMA EarlyFailure ==
    ASSUME Sure, Edits, ~ NoFault, OpenFails \/ ReadFails \/ WriteBackup
    PROVE  Robust'
<1>1. Growing
  BY SyncGrows DEF SyncStep, Sure, Inductive
<1>2. UNCHANGED <<palm, backup, localdb, remotedb, rem, mode, lastSyncPC>> /\ Fail
  <2>1. CASE OpenFails \/ ReadFails
    BY <2>1 DEF OpenFails, ReadFails, Refused, Lost, fileVars, workVars
  <2>2. CASE WriteBackup
    BY <2>2 DEF WriteBackup, palmVars, workVars
  <2> QED
    BY <2>1, <2>2
<1>3. PalmKeeps
  BY <1>2 DEF PalmKeeps
<1>4. \A h \in Hosts : Trust(h)'
  BY <1>2, TrustNext DEF Next, SyncStep
<1>5. \A q \in Recs(palm') : Decent(q)
  BY <1>2 DEF Edits, ListsDecent
<1> QED
  BY <1>1, <1>2, <1>3, <1>4, <1>5, FailedStep

(* DlpDeleteRecord fails in the first phase: nobody misses what it may     *)
(* have deleted.                                                           *)
LEMMA DeleteFailure ==
    ASSUME Sure, Edits, ~ NoFault, DoDeleteRemote
    PROVE  Edits' \/ Robust'
<1>1. plan # <<>> /\ Head(plan) = DeleteRemote
  BY DEF DoDeleteRemote, Step
<1>2. Calm /\ pc \in {"remote", "local"}
  BY <1>1, SureCalm, AtStep DEF Calm
<1>3. pc = "remote"
  <2>1. DeleteRemote \notin {ClearLocal, ArchiveLocal, DeleteLocal, PurgeLocal, UploadLocal}
    BY DEF DeleteRemote, ClearLocal, ArchiveLocal, DeleteLocal, PurgeLocal, UploadLocal
  <2> QED
    BY <1>1, <1>2, <2>1, AtSecondPhase, LocalHead
<1>4. CASE Refused
  BY <1>2, <1>3, <1>4, DoDeleteRemoteRemotePhase
<1>5. CASE ~ Refused
  <2>1. online /\ ~ NotWritable
    BY <1>3, CallFails
  <2>2. /\ Fault("disconnect") /\ GiveUp /\ (UNCHANGED palm \/ Remove(rem.id))
        /\ UNCHANGED <<backup, localdb, remotedb, rem, mode, lastSyncPC>>
    BY <1>5, <2>1 DEF DoDeleteRemote, Lost, fileVars
  <2>3. Fail
    BY <1>3, <2>2, FailsFast
  <2>4. Growing
    BY SyncGrows DEF SyncStep, SyncRecordStep, Sure, Inductive
  <2>5. Parted /\ rem.id \in Nat /\ ListsDecent
    BY <1>1, <1>2, <1>3, AtFirstPhase, RemoteHead DEF AtDeleteRemote
  <2>6. UNCHANGED palm \/ Recs(palm') = {p \in Recs(palm) : p.id # rem.id}
    BY <2>2, <2>5, RemoveRecs DEF Sure, Inductive, TypeOK, IdsInv
  <2>7. PalmKeeps
    BY <2>4, <2>5, <2>6, SettledStays DEF PalmKeeps, Parted
  <2>8. \A h \in Hosts : Trust(h)'
    BY <1>3, TrustNext DEF Next, SyncStep, SyncRecordStep
  <2>9. \A q \in Recs(palm') : Decent(q)
    BY <2>5, <2>6 DEF ListsDecent
  <2> QED
    BY <2>2, <2>3, <2>4, <2>7, <2>8, <2>9, FailedStep
<1> QED
  BY <1>4, <1>5

(* The same in the second phase: the content has just been archived.       *)
LEMMA PurgeFailure ==
    ASSUME Sure, Edits, ~ NoFault, DoPurgeLocal
    PROVE  Edits' \/ Robust'
<1>1. plan # <<>> /\ Head(plan) = PurgeLocal
  BY DEF DoPurgeLocal, Step
<1>2. Calm /\ pc \in {"remote", "local"}
  BY <1>1, SureCalm, AtStep DEF Calm
<1>3. pc = "local"
  BY <1>1, <1>2, AtFirstPhase, RemoteHead
<1>4. CASE Refused
  BY <1>2, <1>3, <1>4, RefusedPurgeEdits
<1>5. CASE ~ Refused
  <2>1. online /\ ~ NotWritable
    BY <1>3, CallFails
  <2>2. PICK id : id = localdb[li].id
    OBVIOUS
  <2>3. /\ Fault("disconnect") /\ GiveUp /\ (UNCHANGED palm \/ Remove(id))
        /\ UNCHANGED <<backup, localdb, remotedb, rem, mode, lastSyncPC>>
    BY <1>5, <2>1, <2>2 DEF DoPurgeLocal, Lost, fileVars
  <2>4. Fail
    BY <1>3, <2>3, FailsFast
  <2>5. Growing
    BY SyncGrows DEF SyncStep, SyncRecordStep, Sure, Inductive
  <2>6. SecondPhase /\ Settled(Localrec.data) /\ ListsDecent /\ Localrec \in Recs(localdb) /\ id = Localrec.id /\ id \in Nat
    BY <1>1, <1>2, <1>3, <2>2, AtSecondPhase, LocalHead
  <2>7. \A p \in Recs(palm) : p.id = id => Settled(p.data)
    <3>1. PICK d : d = Localrec
      OBVIOUS
    <3>2. ASSUME NEW p \in Recs(palm), p.id = id PROVE Settled(p.data)
      <4>1. Agree(p, d)
        BY <2>6, <3>1 DEF SecondPhase, AgreesAll
      <4>2. p.data = d.data \/ Settled(p.data)
        BY <2>6, <3>1, <3>2, <4>1 DEF Agree
      <4> QED
        BY <2>6, <3>1, <4>2
    <3> QED
      BY <3>2
  <2>8. UNCHANGED palm \/ Recs(palm') = {p \in Recs(palm) : p.id # id}
    BY <2>3, <2>6, RemoveRecs DEF Sure, Inductive, TypeOK, IdsInv
  <2>9. PalmKeeps
    BY <2>5, <2>7, <2>8, SettledStays DEF PalmKeeps
  <2>10. \A h \in Hosts : Trust(h)'
    BY <1>3, TrustNext DEF Next, SyncStep, SyncRecordStep
  <2>11. \A q \in Recs(palm') : Decent(q)
    BY <2>6, <2>8 DEF ListsDecent
  <2> QED
    BY <2>3, <2>4, <2>5, <2>9, <2>10, <2>11, FailedStep
<1> QED
  BY <1>4, <1>5

(* DlpWriteRecord fails: it may have replaced a record that nobody misses. *)
LEMMA UploadFailure ==
    ASSUME Sure, Edits, ~ NoFault, DoUpload
    PROVE  Robust'
<1>1. plan # <<>> /\ Head(plan) \in {UploadLocal, UploadAsNew}
  BY DEF DoUpload, Step
<1>2. Calm /\ pc \in {"remote", "local"} /\ li \in DOMAIN localdb /\ localdb[li].id \in Nat /\ localdb[li].data \in Nat
  <2>1. Head(plan) \in LocalrecSteps
    BY <1>1 DEF LocalrecSteps
  <2> QED
    BY <1>1, <2>1, SureCalm, AtStep DEF Calm
<1>3. online /\ ~ opened /\ ~ NotWritable
  BY <1>2, CallFails
<1>4. PICK l : l = localdb[li] /\ l = Localrec
  BY DEF Localrec
<1>5. l \in Record /\ l \in Recs(localdb) /\ Decent(l) /\ ListsDecent
  <2>1. l \in Record /\ l \in Recs(localdb)
    BY <1>2, <1>4, CalmFacts, ListFacts
  <2>2. ListsDecent
    BY <1>2 DEF Edits
  <2> QED
    BY <1>2, <2>1, <2>2 DEF ListsDecent
<1>6. PICK id : (Head(plan) = UploadLocal /\ id = l.id) \/ (Head(plan) = UploadAsNew /\ id = 0)
  <2>1. PICK step : step = Head(plan)
    OBVIOUS
  <2>2. step = UploadLocal \/ step = UploadAsNew
    BY <1>1, <2>1
  <2>3. \E id : (step = UploadLocal /\ id = l.id) \/ (step = UploadAsNew /\ id = 0)
    BY <2>2
  <2> QED
    BY <2>1, <2>3
<1>7. ASSUME NEW p \in Recs(palm), p.id = id PROVE p.data = l.data \/ Settled(p.data)
  <2>1. p.id # 0
    BY <1>2, CalmFacts
  <2>2. Head(plan) = UploadLocal /\ id = l.id
    BY <1>6, <1>7, <2>1
  <2>3. Agree(p, l)
    <3>1. CASE pc = "remote"
      <4>1. plan = <<UploadLocal>> /\ Takes
        <5>1. AtUpload
          BY <1>1, <1>2, <3>1, AtFirstPhase, RemoteHead
        <5>2. UploadLocal # UploadAsNew
          BY DEF UploadLocal, UploadAsNew
        <5> QED
          BY <2>2, <5>1, <5>2, Tails DEF AtUpload
      <4>2. \A x \in Recs(palm) : Agree(x, Localrec)
        BY <4>1 DEF Takes
      <4> QED
        BY <1>4, <4>2
    <3>2. CASE pc = "local"
      BY <1>1, <1>2, <1>5, <3>2, AtSecondPhase DEF SecondPhase, AgreesAll
    <3> QED
      BY <1>2, <3>1, <3>2
  <2> QED
    BY <1>7, <2>2, <2>3 DEF Agree
<1>8. /\ Fault("disconnect") \/ Fault("refuse")
      /\ GiveUp
      /\ UNCHANGED palm \/ (\E newID \in {id, nextId} : Store(id, l.data, newID))
  <2>1. PICK i : /\ (Step(UploadLocal) /\ i = l.id) \/ (Step(UploadAsNew) /\ i = 0)
                 /\ Upload(i)
    BY <1>4 DEF DoUpload
  <2>2. i = id
    <3>1. UploadLocal # UploadAsNew
      BY DEF UploadLocal, UploadAsNew
    <3> QED
      BY <1>6, <2>1, <3>1 DEF Step
  <2>3. (Refused \/ Lost(Stored(id, l.data))) /\ GiveUp
    BY <1>3, <1>4, <2>1, <2>2 DEF Upload
  <2> QED
    BY <1>3, <2>3 DEF Refused, Lost, Stored
<1>9. Fail
  BY <1>2, <1>8, FailsFast
<1>10. UNCHANGED <<backup, localdb, remotedb, rem, mode, lastSyncPC>>
  <2>1. UNCHANGED <<lastSyncPC, fileVars, mode, remotedb, rem>>
    BY DEF DoUpload
  <2>2. UNCHANGED localdb
    BY DEF DoUpload, Upload
  <2> QED
    BY <2>1, <2>2 DEF fileVars
<1>11. Growing
  BY SyncGrows DEF SyncStep, SyncRecordStep, Sure, Inductive
<1>12. \A h \in Hosts : Trust(h)'
  BY <1>2, TrustNext DEF Next, SyncStep, SyncRecordStep
<1>13. PalmKeeps /\ \A q \in Recs(palm') : Decent(q)
  <2>1. CASE UNCHANGED palm
    BY <1>5, <2>1 DEF PalmKeeps, ListsDecent
  <2>2. ASSUME NEW newID \in {id, nextId}, Store(id, l.data, newID)
        PROVE  PalmKeeps /\ \A q \in Recs(palm') : Decent(q)
    <3>1. /\ OrdinaryUse /\ palm \in Seq(Record) /\ nextId \in Nat /\ PalmIds
          /\ id \in Nat /\ newID \in Nat /\ l.data \in Nat
      BY <1>2, <1>4, <1>6, <2>2, CalmFacts DEF Calm, IdsInv
    <3>2. \E q \in Record :
            /\ q.id = newID /\ q.data = l.data /\ q.flags \subseteq {DIRTY} /\ q.flags \in WriteMarks
            /\ Recs(palm') = {p \in Recs(palm) : p.id # newID} \cup {q}
            /\ newID = id \/ (newID = nextId /\ \A p \in Recs(palm) : p.id # id)
      BY <2>2, <3>1, StoreRecs
    <3>3. PICK q \in Record :
            /\ q.id = newID /\ q.data = l.data /\ q.flags \subseteq {DIRTY}
            /\ Recs(palm') = {p \in Recs(palm) : p.id # newID} \cup {q}
      BY <3>2
    <3>4. \A p \in Recs(palm) : p.id # nextId
      BY <1>2, <3>1, CalmFacts
    <3>5. PalmKeeps
      <4>1. ASSUME NEW p \in Recs(palm), p.id = newID PROVE p.data = q.data \/ Settled(p.data)
        BY <1>7, <2>2, <3>3, <3>4, <4>1
      <4>2. ASSUME NEW p \in Recs(palm), p.id # newID PROVE p \in Recs(palm')
        BY <3>3, <4>2
      <4>3. q \in Recs(palm')
        BY <3>3
      <4> QED
        BY <1>11, <3>3, <4>1, <4>2, <4>3, SettledStays DEF PalmKeeps
    <3>6. Decent(q)
      BY <1>5, <3>3 DEF Decent
    <3> QED
      BY <1>5, <3>3, <3>5, <3>6 DEF ListsDecent
  <2> QED
    BY <1>8, <2>1, <2>2
<1> QED
  BY <1>9, <1>10, <1>11, <1>12, <1>13, FailedStep

(* DlpCleanUpDatabase and DlpResetSyncFlags fail.                          *)
LEMMA EndFailure ==
    ASSUME Sure, Edits, ~ NoFault, CleanUpDatabase \/ ResetSyncFlags
    PROVE  Robust'
<1>1. pc \in {"cleanup", "reset"}
  BY DEF CleanUpDatabase, ResetSyncFlags
<1>2. online /\ ~ opened /\ ~ NotWritable
  BY <1>1, CallFails
<1>3. /\ UNCHANGED <<backup, localdb, remotedb, rem, mode, lastSyncPC>> /\ Fail
      /\ UNCHANGED palm \/ (pc = "cleanup" /\ CleanUp) \/ ResetFlags
  BY <1>2 DEF CleanUpDatabase, ResetSyncFlags, Refused, Lost, fileVars, workVars
<1>4. Growing
  BY SyncGrows DEF SyncStep, Sure, Inductive
<1>5. \A h \in Hosts : Trust(h)'
  BY <1>1, TrustNext DEF Next, SyncStep
<1>6. palm \in Seq(Record) /\ \A p \in Recs(palm) : Decent(p)
  BY DEF Sure, Inductive, TypeOK, Edits, ListsDecent
<1>7. CASE UNCHANGED palm
  BY <1>3, <1>4, <1>5, <1>6, <1>7, FailedStep DEF PalmKeeps
<1>8. CASE pc = "cleanup" /\ CleanUp
  <2>1. Recs(palm') = {p \in Recs(palm) : IsLive(p)}
    BY <1>6, <1>8, PurgedRecs DEF CleanUp
  <2>2. DeadSettled
    BY <1>8 DEF Edits
  <2>3. PalmKeeps
    BY <1>4, <2>1, <2>2, SettledStays DEF DeadSettled, PalmKeeps
  <2> QED
    BY <1>3, <1>4, <1>5, <1>6, <2>1, <2>3, FailedStep
<1>9. CASE ResetFlags
  <2>1. /\ \A q \in Recs(palm') : \E p \in Recs(palm) : q.id = p.id /\ q.data = p.data /\ q.flags = p.flags \ {DIRTY}
        /\ \A p \in Recs(palm) : \E q \in Recs(palm') : q.id = p.id /\ q.data = p.data
    BY <1>6, <1>9, ResetRecs
  <2>2. PalmKeeps
    BY <2>1 DEF PalmKeeps
  <2>3. \A q \in Recs(palm') : Decent(q)
    <3>1. DIRTY \notin {DELETED, ARCHIVE, EXPUNGED}
      BY DEF DIRTY, DELETED, ARCHIVE, EXPUNGED
    <3> QED
      BY <1>6, <2>1, <3>1 DEF Decent
  <2> QED
    BY <1>3, <1>4, <1>5, <2>2, <2>3, FailedStep
<1> QED
  BY <1>3, <1>7, <1>8, <1>9

(* Every failure.                                                          *)
LEMMA FaultNext == ASSUME Sure, Edits, Next, ~ NoFault, ~ Crash, ~ UpdateUserInfo PROVE Edits' \/ Robust'
<1>1. ~ UserStep
  BY UserFrame DEF NoFault
<1>2. ~ (\E h \in Hosts : StartSync(h)) /\ ~ Cancel
  BY DEF StartSync, Cancel
<1>3. ~ Open /\ ~ NextRemoteSlow /\ ~ NextRemoteFast /\ ~ RemoteDone /\ ~ NextLocal /\ ~ LocalDone
  BY DEF Open, NextRemoteSlow, NextRemoteFast, RemoteDone, NextLocal, LocalDone
<1>4. ~ DoArchive
  <2>1. ~ Fault("archive")
    BY DEF Sure, OneDesktop, Fault
  <2> QED
    BY <2>1 DEF DoArchive, ArchiveRecord
<1>5. ~ DoClearLocal /\ ~ DoDeleteLocal /\ ~ DoAppendRemote /\ ~ DoInsertRemote /\ ~ DoDropRemote
  BY DEF DoClearLocal, DoDeleteLocal, DoAppendRemote, DoInsertRemote, DoDropRemote
<1>6. CASE OpenFails \/ ReadFails \/ WriteBackup
  BY <1>6, EarlyFailure
<1>7. CASE DoDeleteRemote \/ DoPurgeLocal \/ DoUpload
  BY <1>7, DeleteFailure, PurgeFailure, UploadFailure
<1>8. CASE CleanUpDatabase \/ ResetSyncFlags
  BY <1>8, EndFailure
<1> QED
  BY <1>1, <1>2, <1>3, <1>4, <1>5, <1>6, <1>7, <1>8 DEF Next, SyncStep, SyncRecordStep

(* After a failure, the session can only end.                              *)
LEMMA GaveUpNext ==
    ASSUME Sure, GaveUp, Next PROVE Crash \/ UpdateUserInfo
<1>1. pc = "userinfo" /\ plan = <<>>
  BY DEF GaveUp, Sure, Inductive, SessionInv
<1>2. ~ SyncRecordStep
  BY <1>1 DEF SyncRecordStep, DoArchive, DoClearLocal, DoDeleteLocal, DoAppendRemote, DoInsertRemote,
     DoDropRemote, DoDeleteRemote, DoPurgeLocal, DoUpload, Step
<1>3. ~ UserStep /\ ~ (\E h \in Hosts : StartSync(h)) /\ ~ Cancel
  BY <1>1, UserFrame DEF StartSync, Cancel
<1> QED
  BY <1>1, <1>2, <1>3 DEF Next, SyncStep, Open, OpenFails, NextRemoteSlow, NextRemoteFast, ReadFails, RemoteDone,
     NextLocal, LocalDone, WriteBackup, CleanUpDatabase, ResetSyncFlags

LEMMA RobustNext == ASSUME Sure, [Next]_vars PROVE Robust'
<1>1. CASE Cancel \/ Crash \/ UpdateUserInfo
  <2>1. pc # "idle" /\ EndSession /\ UNCHANGED <<palm, nextId, fileVars, userVars>>
    BY <1>1 DEF Cancel, Crash, UpdateUserInfo, palmVars
  <2>2. lastSyncPC' \in {lastSyncPC, host}
    BY <1>1 DEF Cancel, Crash, UpdateUserInfo, palmVars
  <2> QED
    BY <2>1, <2>2, OverStep
<1>2. CASE UNCHANGED vars /\ GaveUp
  <2>1. /\ UNCHANGED <<palm, backup, archive, wanted, edits, localdb, remotedb, rem>>
        /\ UNCHANGED <<pc, failed, mode, lastSyncPC>>
    BY <1>2 DEF vars, palmVars, fileVars, userVars, workVars, sessVars
  <2>2. Growing /\ PalmKeeps
    BY <2>1 DEF Growing, PalmKeeps
  <2>3. Usable
    BY DEF Sure, Robust
  <2>4. AllInPlace' /\ FilesGood'
    BY <2>1, <2>2, <2>3, PlacesStay DEF Usable
  <2>5. ListsDecent'
    BY <2>1, <2>2, <2>3, SettledStays DEF Usable, ListsDecent, Newest
  <2>6. \A h \in Hosts : Trust(h)'
    BY <2>1, <2>2, <2>3, TrustKept DEF Usable
  <2>7. FastInv' /\ GaveUp'
    BY <1>2, <2>1 DEF Sure, Robust, FastInv, AlwaysFast, GaveUp
  <2> QED
    BY <2>4, <2>5, <2>6, <2>7 DEF Robust, Usable
<1>3. ASSUME Edits, ~ Cancel, ~ Crash, ~ UpdateUserInfo PROVE Robust'
  <2>1. CASE Edits'
    <3>1. pc = "write" => FileAgrees' \/ UNCHANGED backup
      <4>1. ASSUME pc = "write", WriteBackup PROVE FileAgrees' \/ UNCHANGED backup
        BY <2>1, <4>1 DEF WriteBackup, Edits
      <4>2. ASSUME pc = "write", ~ WriteBackup PROVE UNCHANGED backup
        <5>1. plan = <<>>
          BY <4>2 DEF Sure, Inductive, SessionInv
        <5>2. ~ SyncRecordStep
          BY <5>1 DEF SyncRecordStep, DoArchive, DoClearLocal, DoDeleteLocal, DoAppendRemote, DoInsertRemote,
             DoDropRemote, DoDeleteRemote, DoPurgeLocal, DoUpload, Step
        <5>3. ~ UserStep /\ ~ (\E h \in Hosts : StartSync(h))
          BY <4>2, UserFrame DEF StartSync
        <5>4. UNCHANGED vars
          BY <1>3, <4>2, <5>2, <5>3 DEF Next, SyncStep, Open, OpenFails, NextRemoteSlow, NextRemoteFast,
             ReadFails, RemoteDone, NextLocal, LocalDone, CleanUpDatabase, ResetSyncFlags
        <5> QED
          BY <5>4 DEF vars, fileVars
      <4> QED
        BY <4>1, <4>2
    <3>2. \A h \in Hosts : Trust(h)'
      BY <1>3, <3>1, TrustNext
    <3>3. FastInv'
      BY <1>3, FastNext
    <3> QED
      BY <2>1, <3>2, <3>3 DEF Robust, Usable, Edits
  <2>2. CASE NoFault
    BY <1>3, <2>1, <2>2, SureCalm, CalmNext
  <2>3. CASE ~ NoFault
    <3>1. ~ UNCHANGED vars
      BY <2>3 DEF vars, NoFault
    <3> QED
      BY <1>3, <2>1, <2>3, <3>1, FaultNext
  <2> QED
    BY <2>2, <2>3
<1> QED
  BY <1>1, <1>2, <1>3, GaveUpNext DEF Sure, Robust

LEMMA InitFast == ASSUME Init, \A g, h \in Hosts : g = h PROVE FastInv
<1> SUFFICES ASSUME AlwaysFast, NEW h \in Hosts PROVE mode = "none" /\ lastSyncPC = h /\ backup[h] # NoFile
  BY DEF FastInv
<1>1. lastSyncPC \in InitSynced /\ mode = "none" /\ InitSynced = Hosts
  BY DEF Init, AlwaysFast
<1>2. PICK records \in Seq(Record) : backup = [g \in Hosts |-> IF g \in InitSynced THEN records ELSE NoFile]
  <2> DEFINE marks == IF InitSynced = {} THEN {DIRTY} ELSE {}
             list  == [i \in 1 .. InitRecords |-> Rec(i, marks, i)]
  <2>1. InitRecords \in Nat /\ marks \in SUBSET Flags
    BY ConstantsAssumption DEF Flags
  <2>2. \A i \in 1 .. InitRecords : Rec(i, marks, i) \in Record
    BY <2>1 DEF Rec, Record
  <2>3. list \in Seq(Record)
    BY <2>1, <2>2
  <2> QED
    BY <2>3 DEF Init
<1>3. backup[h] # NoFile
  BY <1>1, <1>2, ConstantsAssumption
<1> QED
  BY <1>1, <1>3

LEMMA InitRobust == ASSUME OneDesktop, Init PROVE Robust
<1>1. Edits
  BY InitEdits DEF OneDesktop
<1>2. PICK records \in Seq(Record) :
        /\ palm = records /\ backup = [h \in Hosts |-> IF h \in InitSynced THEN records ELSE NoFile]
        /\ \A p, r \in Recs(records) : p.id = r.id => p.data = r.data
  <2> DEFINE marks == IF InitSynced = {} THEN {DIRTY} ELSE {}
             list  == [i \in 1 .. InitRecords |-> Rec(i, marks, i)]
  <2>1. InitRecords \in Nat /\ marks \in SUBSET Flags
    BY ConstantsAssumption DEF Flags
  <2>2. list \in Seq(Record)
    <3>1. \A i \in 1 .. InitRecords : Rec(i, marks, i) \in Record
      BY <2>1 DEF Rec, Record
    <3> QED
      BY <2>1, <3>1
  <2>3. \A p, r \in Recs(list) : p.id = r.id => p.data = r.data
    BY <2>1 DEF Recs, Rec
  <2>4. palm = list /\ backup = [h \in Hosts |-> IF h \in InitSynced THEN list ELSE NoFile]
    BY DEF Init
  <2> QED
    BY <2>2, <2>3, <2>4
<1>3. \A h \in Hosts : Trust(h)
  BY <1>2 DEF Trust, Agree
<1>4. FastInv
  BY InitFast DEF OneDesktop
<1> QED
  BY <1>1, <1>3, <1>4 DEF Robust, Usable, Edits

(* The inductive invariant: either the sync is as it should be, or it has  *)
(* failed and left what the next one starts from.                          *)
THEOREM RobustInvariant == OneDesktop /\ Spec => []Robust
<1>1. OneDesktop /\ Init => Robust
  BY InitRobust
<1>2. OneDesktop /\ Inductive /\ Inductive' /\ IdsInv /\ IdsInv' /\ Robust /\ [Next]_vars => Robust'
  BY RobustNext DEF Sure
<1>3. OneDesktop => OneDesktop'
  BY DEF OneDesktop, OrdinaryUse, AlwaysFast
<1> QED
  BY <1>1, <1>2, <1>3, InductiveInvariant, IdsInvariant, PTL DEF Spec

(* With one desktop, and applications that set the bits as the manual      *)
(* says, no failure loses anything the user wrote: not a lost connection,  *)
(* a refused call, a full disk or a crash, at any moment, any number of    *)
(* them, nor the sync that comes after.                                    *)
THEOREM EditsSurviveFailures == OneDesktop /\ Spec => []EditsSurvive
<1>1. Robust => EditsSurvive
  BY InPlaceSurvives DEF Robust, Usable
<1> QED
  BY <1>1, RobustInvariant, PTL

-----------------------------------------------------------------------------
(* What a sync that reports success has achieved, with one desktop whose   *)
(* syncs are all fast ones.  The Palm does not refuse a call: a refused    *)
(* deletion is taken for done.  The connection may drop, the program die,  *)
(* the disk be full and an archive file lost at any moment.                *)
FastDesktop ==
    /\ OrdinaryUse
    /\ \A g, h \in Hosts : g = h
    /\ {} \notin WriteMarks
    /\ AlwaysFast
    /\ "refuse" \notin Faults

(* Status bits as ordinary use sets them.                                  *)
Polite(r) == r.flags \subseteq {DIRTY} \/ {DELETED, ARCHIVE} \subseteq r.flags \/ EXPUNGED \in r.flags
AllPolite ==
    /\ \A r \in Recs(palm) \cup Recs(localdb) : Polite(r)
    /\ Polite(rem)
    /\ \A h \in Hosts : backup[h] # NoFile => \A r \in Recs(backup[h]) : Polite(r)

(* The file has a clean record with this ID: as long as it is not written  *)
(* anew, the Palm has to keep its own.                                     *)
Protected(id) == \E r \in Recs(backup[host]) : r.flags = {} /\ r.id = id
Guarded       == \A r \in Recs(localdb) : r.flags # {} => ~ Protected(r.id)

(* The list has what the Palm has, or is about to send what it has.        *)
Matched(p) ==
    \/ IsLive(p) /\ \E r \in Recs(localdb) : r.id = p.id /\ (r.flags = {} => r.data = p.data)
    \/ ~ IsLive(p) /\ Lacks(localdb, p.id)
Backed(r)  == \E p \in Recs(palm) : p.id = r.id
Present(r) == r.flags = {} /\ \E p \in Recs(palm) : IsLive(p) /\ p.id = r.id /\ p.data = r.data

Sole   == Ours /\ \A j \in DOMAIN localdb : localdb[j].id = rem.id => j = li
Bared  == Localrec.flags = {}
Unsafe == Sole /\ ~ Protected(rem.id)
Buried == \A p \in Recs(palm) : p.id = rem.id => ~ IsLive(p)
Onward == rem.flags = {DIRTY} /\ \E p \in Recs(palm) : IsLive(p) /\ p.id = rem.id /\ p.data = rem.data
Second ==
    /\ Ours /\ \A j \in DOMAIN localdb : localdb[j].id = rem.id => li <= j
    /\ \E j \in DOMAIN localdb : j # li /\ localdb[j].id = rem.id /\ localdb[j].data = rem.data

(* The rests of plans in the first phase, by their first step.             *)
FarArchiveLocal ==
    \/ plan = <<ArchiveLocal, ArchiveRemote, DeleteRemote, DeleteLocal>> /\ Unsafe
    \/ plan = <<ArchiveLocal, DeleteRemote, DeleteLocal>> /\ Unsafe
    \/ plan = <<ArchiveLocal, DeleteLocal>> /\ Sole /\ Buried
    \/ plan = <<ArchiveLocal, DeleteLocal, AppendUnclean>> /\ Unsafe /\ Onward
FarArchiveRemote ==
    \/ plan = <<ArchiveRemote, DeleteRemote, DeleteLocal>> /\ Unsafe
    \/ plan = <<ArchiveRemote, ClearLocal, UploadLocal>> /\ Sole
    \/ plan = <<ArchiveRemote, DeleteLocal>> /\ Sole /\ Buried
    \/ plan = <<ArchiveRemote>> /\ Alone /\ Buried
FarClearLocal ==
    \/ plan = <<ClearLocal, UploadLocal>> /\ Sole
    \/ plan = <<ClearLocal, ArchiveLocal, DeleteLocal>> /\ Sole /\ Buried
    \/ plan = <<ClearLocal, ArchiveLocal, DeleteLocal, AppendUnclean>> /\ Unsafe /\ Onward
    \/ plan = <<ClearLocal, UploadAsNew, InsertRemote>> /\ Sole /\ Onward
    \/ plan = <<ClearLocal>> /\ Sole /\ Onward /\ Localrec.data = rem.data
FarDeleteLocal ==
    \/ plan = <<DeleteLocal>> /\ Sole /\ Buried
    \/ plan = <<DeleteLocal>> /\ Second /\ Onward
    \/ plan = <<DeleteLocal, AppendUnclean>> /\ Unsafe /\ Onward
    \/ plan = <<DeleteLocal, AppendRemote>> /\ Sole /\ Onward
FarDeleteRemote ==
    plan \in {<<DeleteRemote, DeleteLocal>>, <<DeleteRemote, ClearLocal, UploadLocal>>} /\ Unsafe
FarUpload ==
    \/ plan = <<UploadLocal>> /\ Sole /\ Bared
    \/ plan = <<UploadAsNew, InsertRemote>> /\ Sole /\ Onward /\ Bared
FarBring ==
    \/ plan = <<AppendRemote>> /\ Alone /\ Onward
    \/ plan = <<AppendUnclean>> /\ Alone /\ ~ Protected(rem.id) /\ Onward
    \/ plan = <<InsertRemote>> /\ li \in DOMAIN localdb /\ Lacks(localdb, rem.id) /\ Onward
    \/ plan = <<InsertRemote, DeleteLocal>> /\ Sole /\ Onward
FarPlan ==
    \/ FarArchiveLocal \/ FarArchiveRemote \/ FarClearLocal \/ FarDeleteLocal
    \/ FarDeleteRemote \/ FarUpload \/ FarBring

Held(id) == plan # <<>> /\ id = rem.id
Walking ==
    /\ Guarded
    /\ \A p \in Recs(palm) : Reached(p) => Matched(p) \/ Held(p.id)
    /\ \A r \in Recs(localdb) : r.flags = {} => Backed(r) \/ Held(r.id)
    /\ plan # <<>> => FarPlan /\ rem.id \in seen /\ rem.id # 0

(* The rests of plans in the second phase.                                 *)
NearPlan ==
    \/ plan = <<ClearLocal, UploadLocal>>
    \/ plan = <<UploadLocal>> /\ Bared
    \/ /\ plan \in {<<ClearLocal, ArchiveLocal, PurgeLocal>>, <<ArchiveLocal, PurgeLocal>>, <<PurgeLocal>>}
       /\ ~ Protected(Localrec.id)
Passed(j) == j < li \/ (j = li /\ plan = <<>>)
Sending ==
    /\ Guarded
    /\ \A p \in Recs(palm) : Matched(p) \/ (plan # <<>> /\ p.id = Localrec.id)
    /\ \A j \in DOMAIN localdb : localdb[j].flags = {} /\ (j # li \/ plan = <<>>) => Backed(localdb[j])
    /\ \A j \in DOMAIN localdb : Passed(j) => Present(localdb[j])
    /\ plan # <<>> => NearPlan /\ li \in DOMAIN localdb

SameLive(db) == AllClean(db) /\ Live(db) = Live(palm)
MirrorInv ==
    /\ AllPolite /\ FastInv
    /\ \A h \in Hosts : Paired(h)
    /\ pc # "idle" => ~ opened
    /\ pc \in {"idle", "open"} => plan = <<>> /\ seen = {} /\ li = 0
    /\ pc = "remote" => Walking
    /\ pc = "local" => Sending
    /\ pc = "write" => SameLive(localdb)
    /\ pc \in {"cleanup", "reset"} \/ Synced => SameLive(backup[host])

Ready ==
    /\ FastDesktop
    /\ Inductive /\ IdsInv /\ MirrorInv
    /\ Inductive' /\ IdsInv' /\ FastInv'

(* The facts about lists, IDs and the session that the proofs need.        *)
LEMMA ReadyFacts ==
    ASSUME Ready
    PROVE  /\ palm \in Seq(Record) /\ palm' \in Seq(Record) /\ nextId \in Nat
           /\ localdb \in Seq(Record) /\ localdb' \in Seq(Record)
           /\ rem \in Record /\ rem.id \in Nat /\ rem.id < nextId /\ li \in Nat
           /\ \A p \in Recs(palm) : p \in Record /\ p.id # 0 /\ p.id < nextId
           /\ \A p, q \in Recs(palm) : p.id = q.id => p = q
           /\ \A r \in Recs(localdb) : r \in Record /\ r.id < nextId
<1>1. /\ palm \in Seq(Record) /\ palm' \in Seq(Record) /\ nextId \in Nat
      /\ localdb \in Seq(Record) /\ localdb' \in Seq(Record)
      /\ rem \in Record /\ li \in Nat
  BY DEF Ready, Inductive, TypeOK
<1>2. \A p \in Recs(palm) : p \in Record /\ p.id # 0 /\ p.id < nextId
  BY <1>1, ListFacts DEF Ready, IdsInv, PalmIds, Assigned
<1>3. \A p, q \in Recs(palm) : p.id = q.id => p = q
  BY <1>1, ListFacts DEF Ready, IdsInv, PalmIds, Assigned, Distinct
<1>4. \A r \in Recs(localdb) : r \in Record /\ r.id < nextId
  BY <1>1, ListFacts DEF Ready, IdsInv, Below
<1>5. rem.id \in Nat /\ rem.id < nextId
  BY <1>1, RecordFacts DEF Ready, IdsInv
<1> QED
  BY <1>1, <1>2, <1>3, <1>4, <1>5

LEMMA SessionFacts ==
    ASSUME Ready, pc # "idle"
    PROVE  /\ host \in Hosts /\ mode = "fast" /\ ~ opened
           /\ \A h \in Hosts : h = host
           /\ backup[host] # NoFile /\ backup[host] \in Seq(Record) /\ Paired(host)
           /\ \A r \in Recs(backup[host]) : r \in Record /\ Polite(r) /\ r.id < nextId
           /\ \A r, s \in Recs(backup[host]) : r.id = s.id /\ r.id # 0 => r = s
           /\ ~ Protected(0)
<1>1. host \in Hosts /\ mode # "none" /\ AlwaysFast
  BY DEF Ready, Inductive, SessionInv, FastDesktop
<1>2. mode = "fast" /\ ~ opened /\ backup[host] # NoFile /\ Paired(host)
  BY <1>1 DEF Ready, MirrorInv, FastInv
<1>3. \A h \in Hosts : h = host
  BY <1>1 DEF Ready, FastDesktop
<1>4. backup[host] \in Seq(Record)
  BY <1>1, <1>2 DEF Ready, Inductive, TypeOK
<1>5. Distinct(backup[host]) /\ Below(backup[host], nextId)
  BY <1>1, <1>2 DEF Ready, IdsInv, FileIds
<1>6. \A r \in Recs(backup[host]) : r \in Record /\ Polite(r) /\ r.id < nextId
  BY <1>1, <1>2, <1>4, <1>5, ListFacts DEF Ready, MirrorInv, AllPolite, Below
<1>7. \A r, s \in Recs(backup[host]) : r.id = s.id /\ r.id # 0 => r = s
  BY <1>4, <1>5, ListFacts DEF Distinct
<1>8. ~ Protected(0)
  <2>1. \A p \in Recs(palm) : p.id # 0
    BY ReadyFacts
  <2>2. \A r \in Recs(backup[host]) : r.flags = {} => \E p \in Recs(palm) : p.id = r.id
    BY <1>2 DEF Paired
  <2> QED
    BY <2>1, <2>2 DEF Protected
<1> QED
  BY <1>1, <1>2, <1>3, <1>4, <1>6, <1>7, <1>8

(* How a call ends in a session: done, or the sync is over.                *)
LEMMA CallsEnd ==
    ASSUME Ready, pc # "idle"
    PROVE  ~ Refused /\ ~ NotWritable /\ (GiveUp => Fail)
<1>1. mode = "fast" /\ ~ opened /\ "refuse" \notin Faults
  BY SessionFacts DEF Ready, FastDesktop
<1> QED
  BY <1>1 DEF Refused, NotWritable, Fault, GiveUp

(* The Palm may lose no record that the file has clean, and gets no clean  *)
(* one.                                                                    *)
PalmSafe ==
    /\ \A q \in Recs(palm') : q \in Recs(palm) \/ q.flags = {DIRTY}
    /\ \A p \in Recs(palm) : \/ p \in Recs(palm')
                             \/ ~ Protected(p.id)
                             \/ \E q \in Recs(palm') : q.id = p.id /\ q.flags = {DIRTY}

LEMMA PairedStays ==
    ASSUME Ready, pc # "idle", UNCHANGED backup, PalmSafe
    PROVE  \A h \in Hosts : Paired(h)'
<1>1. \A h \in Hosts : h = host
  BY SessionFacts
<1>2. \A q \in Recs(palm') : q.flags = {} => q \in Recs(palm)
  BY DEF PalmSafe
<1>3. ASSUME NEW r \in Recs(backup[host]), r.flags = {}
      PROVE  \E p \in Recs(palm') : p.id = r.id /\ (p.flags = {} => p.data = r.data)
  <2>1. PICK p \in Recs(palm) : p.id = r.id /\ (p.flags = {} => p.data = r.data)
    BY <1>3, SessionFacts DEF Paired
  <2>2. Protected(p.id)
    BY <1>3, <2>1 DEF Protected
  <2>3. CASE p \in Recs(palm')
    BY <2>1, <2>3
  <2>4. ASSUME NEW q \in Recs(palm'), q.id = p.id, q.flags = {DIRTY}
        PROVE  \E x \in Recs(palm') : x.id = r.id /\ (x.flags = {} => x.data = r.data)
    BY <2>1, <2>4
  <2> QED
    BY <2>2, <2>3, <2>4 DEF PalmSafe
<1> QED
  BY <1>1, <1>2, <1>3, SessionFacts DEF Paired

LEMMA PoliteStays ==
    ASSUME Ready, UNCHANGED backup, PalmSafe,
           \A r \in Recs(localdb') : r \in Recs(localdb) \/ Polite(r), Polite(rem')
    PROVE  AllPolite'
<1>1. AllPolite
  BY DEF Ready, MirrorInv
<1>2. \A q \in Recs(palm') : Polite(q)
  BY <1>1 DEF PalmSafe, AllPolite, Polite
<1> QED
  BY <1>1, <1>2 DEF AllPolite

(* A sync that fails leaves the file, and on the Palm nothing unsafe.      *)
LEMMA FailedMirror ==
    ASSUME Ready, pc # "idle", Fail, PalmSafe, UNCHANGED <<backup, opened, localdb, rem>>
    PROVE  MirrorInv'
<1>1. pc' = "userinfo" /\ failed' /\ ~ opened'
  BY SessionFacts DEF Fail
<1>2. \A h \in Hosts : Paired(h)'
  BY PairedStays
<1>3. AllPolite'
  BY PoliteStays DEF Ready, MirrorInv, AllPolite
<1> QED
  BY <1>1, <1>2, <1>3 DEF MirrorInv, Synced, Ready

LEMMA SafePalm == ASSUME UNCHANGED palm PROVE PalmSafe
  BY DEF PalmSafe

-----------------------------------------------------------------------------
(* The beginning: the list is the file, and what is clean on the Palm is   *)
(* in it.                                                                  *)
LEMMA OpenMirror == ASSUME Ready, Open PROVE MirrorInv'
<1>1. pc = "open" /\ mode = "fast" /\ plan = <<>> /\ seen = {} /\ li = 0
  BY SessionFacts DEF Ready, MirrorInv, Open
<1>2. /\ pc' = "remote" /\ localdb' = backup[host]
      /\ UNCHANGED <<palm, backup, host, mode, opened, failed, seen, rem, li, plan>>
  BY <1>1 DEF Open, palmVars, fileVars
<1>3. \A r \in Recs(localdb') : Polite(r)
  BY <1>2, SessionFacts DEF Open
<1>4. AllPolite' /\ \A h \in Hosts : Paired(h)'
  BY <1>1, <1>2, <1>3, SafePalm, PairedStays, PoliteStays DEF Ready, MirrorInv, AllPolite
<1>5. Guarded'
  <2> SUFFICES ASSUME NEW r \in Recs(backup[host]), r.flags # {} PROVE ~ Protected(r.id)
    BY <1>2 DEF Guarded, Protected
  <2>1. CASE r.id = 0
    BY <1>1, <2>1, SessionFacts
  <2>2. CASE r.id # 0
    BY <1>1, <2>2, SessionFacts DEF Protected
  <2> QED
    BY <2>1, <2>2
<1>6. ASSUME NEW p \in Recs(palm), Reached(p)' PROVE Matched(p)'
  <2>1. p.flags = {} /\ IsLive(p)
    BY <1>1, <1>2, <1>6 DEF Reached, IsLive
  <2>2. PICK r \in Recs(backup[host]) : r.id = p.id
    BY <1>1, <2>1, SessionFacts DEF Paired
  <2>3. ASSUME r.flags = {} PROVE r.data = p.data
    <3>1. PICK q \in Recs(palm) : q.id = r.id /\ (q.flags = {} => q.data = r.data)
      BY <1>1, <2>3, SessionFacts DEF Paired
    <3> QED
      BY <2>1, <2>2, <3>1, ReadyFacts
  <2> QED
    BY <1>2, <2>1, <2>2, <2>3 DEF Matched
<1>7. ASSUME NEW r \in Recs(backup[host]), r.flags = {} PROVE Backed(r)'
  BY <1>1, <1>2, <1>7, SessionFacts DEF Backed, Paired
<1>8. Walking'
  BY <1>1, <1>2, <1>5, <1>6, <1>7 DEF Walking
<1> QED
  BY <1>1, <1>2, <1>4, <1>8, SessionFacts DEF MirrorInv, Ready, Synced

(* What the status of a record says of it.                                 *)
LEMMA PoliteFacts ==
    ASSUME NEW r \in Record, Polite(r)
    PROVE  /\ Status(r) \in Statuses
           /\ Status(r) \in {"archived", "expunged"} => ~ IsLive(r) /\ r.flags # {}
           /\ Status(r) = "dirty" => r.flags = {DIRTY} /\ IsLive(r)
           /\ Status(r) = "clean" => r.flags = {}
           /\ ARCHIVE \in r.flags \/ EXPUNGED \in r.flags => ~ IsLive(r)
           /\ ARCHIVE \notin r.flags /\ EXPUNGED \notin r.flags => r.flags \subseteq {DIRTY}
           /\ r.flags # {} => ToArchive(r) \/ EXPUNGED \in r.flags \/ DIRTY \in r.flags
           /\ IsLive(r) => r.flags \subseteq {DIRTY}
<1>1. /\ DIRTY # DELETED /\ DIRTY # ARCHIVE /\ DIRTY # EXPUNGED
      /\ DELETED # ARCHIVE /\ DELETED # EXPUNGED /\ ARCHIVE # EXPUNGED
  BY DEF DIRTY, DELETED, ARCHIVE, EXPUNGED
<1>2. r.flags \subseteq {DIRTY} \/ {DELETED, ARCHIVE} \subseteq r.flags \/ EXPUNGED \in r.flags
  BY DEF Polite
<1>3. Status(r) = IF r.flags \cap {DELETED, DIRTY} # {} /\ ARCHIVE \in r.flags THEN "archived"
                  ELSE IF EXPUNGED \in r.flags THEN "expunged"
                  ELSE IF DIRTY \in r.flags THEN "dirty" ELSE "clean"
  BY DEF Status
<1>4. Status(r) \in Statuses
  BY <1>3 DEF Statuses
<1>5. ARCHIVE \in r.flags \/ EXPUNGED \in r.flags => ~ IsLive(r)
  BY DEF IsLive
<1>6. Status(r) \in {"archived", "expunged"} => ARCHIVE \in r.flags \/ EXPUNGED \in r.flags
  BY <1>3
<1>7. ARCHIVE \notin r.flags /\ EXPUNGED \notin r.flags => r.flags \subseteq {DIRTY}
  BY <1>2
<1>8. r.flags \subseteq {DIRTY} => IsLive(r)
  BY <1>1 DEF IsLive
<1>9. Status(r) = "dirty" => r.flags = {DIRTY}
  <2>1. ASSUME Status(r) = "dirty" PROVE DIRTY \in r.flags /\ EXPUNGED \notin r.flags /\ r.flags \subseteq {DIRTY}
    BY <1>2, <1>3, <2>1
  <2> QED
    BY <2>1
<1>10. Status(r) = "clean" => r.flags = {}
  <2>1. ASSUME Status(r) = "clean" PROVE DIRTY \notin r.flags /\ EXPUNGED \notin r.flags
    BY <1>3, <2>1
  <2>2. ASSUME Status(r) = "clean" PROVE ~ ({DELETED, ARCHIVE} \subseteq r.flags)
    BY <1>3, <2>2
  <2> QED
    BY <1>2, <2>1, <2>2
<1>11. r.flags # {} => ToArchive(r) \/ EXPUNGED \in r.flags \/ DIRTY \in r.flags
  BY <1>2 DEF ToArchive
<1>12. IsLive(r) => r.flags \subseteq {DIRTY}
  BY <1>5, <1>7
<1> QED
  BY <1>4, <1>5, <1>6, <1>7, <1>8, <1>9, <1>10, <1>11, <1>12

(* FastSync asks for the next modified record, and decides.                *)
LEMMA NextRemoteMirror == ASSUME Ready, NextRemoteFast PROVE MirrorInv'
<1>1. /\ pc = "remote" /\ mode = "fast" /\ plan = <<>> /\ Walking
      /\ UNCHANGED <<palm, backup, pc, host, mode, opened, failed, localdb>>
  BY DEF NextRemoteFast, Ready, MirrorInv, palmVars, fileVars, sessVars
<1>2. PICK i \in Unread : Decide(palm[i], FastNewPlan(palm[i]))
  BY DEF NextRemoteFast
<1>3. PICK p : p = palm[i] /\ p \in Recs(palm) /\ p.flags # {} /\ p.id \notin seen
  BY <1>2 DEF Unread, Recs
<1>4. p \in Record /\ Polite(p) /\ p.id # 0 /\ p.id \in Nat
  BY <1>3, ReadyFacts, RecordFacts DEF Ready, MirrorInv, AllPolite
<1>5. PICK k : k = FindRecordByID(localdb, p.id)
  OBVIOUS
<1>6. /\ li' = k /\ seen' = seen \cup {p.id} /\ rem' = p
      /\ k = 0 => plan' = FastNewPlan(p)
      /\ k # 0 => plan' = SyncRecordPlan(localdb[k], p)
  BY <1>1, <1>2, <1>3, <1>5 DEF Decide
<1>7. AllPolite' /\ \A h \in Hosts : Paired(h)'
  BY <1>1, <1>4, <1>6, SafePalm, PairedStays, PoliteStays DEF Ready, MirrorInv, AllPolite
<1>8. Guarded'
  BY <1>1 DEF Walking, Guarded, Protected
<1>9. \A q \in Recs(palm) : q.id = p.id => q = p
  BY <1>3, ReadyFacts
<1>10. /\ IsLive(p) => p.flags = {DIRTY}
       /\ p.flags = {DIRTY} => Onward'
       /\ ~ IsLive(p) => Buried'
  <2>1. IsLive(p) => p.flags = {DIRTY}
    BY <1>3, <1>4, PoliteFacts
  <2>2. p.flags = {DIRTY} => IsLive(p)
    BY DEF IsLive, DIRTY, DELETED, ARCHIVE, EXPUNGED
  <2> QED
    BY <1>1, <1>3, <1>6, <1>9, <2>1, <2>2 DEF Onward, Buried
<1>11. ASSUME k = 0
       PROVE  (plan' = <<>> /\ Matched(p)') \/ (plan' # <<>> /\ FarPlan')
  <2>1. Lacks(localdb, p.id)
    BY <1>4, <1>5, <1>11, ReadyFacts, FindFacts
  <2>2. Alone'
    BY <1>1, <1>6, <1>11, <2>1 DEF Alone
  <2>3. CASE ARCHIVE \in p.flags
    <3>1. plan' = <<ArchiveRemote>> /\ plan' # <<>>
      BY <1>6, <1>11, <2>3 DEF FastNewPlan
    <3>2. Buried'
      BY <1>4, <1>10, <2>3, PoliteFacts
    <3> QED
      BY <2>2, <3>1, <3>2 DEF FarPlan, FarArchiveRemote
  <2>4. CASE ARCHIVE \notin p.flags /\ EXPUNGED \in p.flags
    <3>1. plan' = <<>>
      BY <1>6, <1>11, <2>4 DEF FastNewPlan
    <3>2. ~ IsLive(p)
      BY <1>4, <2>4, PoliteFacts
    <3> QED
      BY <1>1, <2>1, <3>1, <3>2 DEF Matched
  <2>5. CASE ARCHIVE \notin p.flags /\ EXPUNGED \notin p.flags
    <3>1. plan' = <<AppendRemote>> /\ plan' # <<>>
      BY <1>6, <1>11, <2>5 DEF FastNewPlan
    <3>2. Onward'
      BY <1>3, <1>4, <1>10, <2>5, PoliteFacts
    <3> QED
      BY <2>2, <3>1, <3>2 DEF FarPlan, FarBring
  <2> QED
    BY <2>3, <2>4, <2>5
<1>12. ASSUME k # 0
       PROVE  plan' # <<>> /\ FarPlan'
  <2>1. k \in DOMAIN localdb /\ localdb[k].id = p.id
    BY <1>4, <1>5, <1>12, ReadyFacts, FindFacts
  <2>2. Distinct(localdb)
    BY <1>1, NoPlanIds DEF Ready
  <2>3. Sole'
    BY <1>1, <1>4, <1>6, <2>1, <2>2 DEF Sole, Ours, Distinct
  <2>4. PICK l \in Record : l = localdb[k] /\ l \in Recs(localdb) /\ l.id = p.id /\ Polite(l)
    BY <2>1, ReadyFacts, ListFacts DEF Ready, MirrorInv, AllPolite
  <2>5. l.flags # {} => Unsafe'
    <3>1. l.flags # {} => ~ Protected(p.id)
      BY <1>1, <2>4 DEF Walking, Guarded
    <3> QED
      BY <1>1, <1>6, <2>3, <3>1 DEF Unsafe, Protected
  <2>6. plan' = SyncRecordPlan(l, p)
    BY <1>6, <1>12, <2>4
  <2>7. Status(l) \in {"archived", "expunged", "dirty", "clean"}
    BY <2>4, PoliteFacts DEF Statuses
  <2>8. Status(l) \in {"archived", "expunged"} => Unsafe'
    BY <2>4, <2>5, PoliteFacts
  <2>9. Status(l) = "dirty" => Unsafe'
    <3>1. Status(l) = "dirty" => l.flags = {DIRTY}
      BY <2>4, PoliteFacts
    <3> QED
      BY <2>5, <3>1
  <2>10. Localrec' = l
    BY <1>1, <1>6, <2>4 DEF Localrec
  <2>11. CASE Status(p) = "archived"
    <3>0. Buried'
      BY <1>4, <1>10, <2>11, PoliteFacts
    <3>1. CASE Status(l) = "archived"
      <4>1. \/ plan' = <<ArchiveLocal, DeleteRemote, DeleteLocal>>
            \/ plan' = <<ArchiveLocal, ArchiveRemote, DeleteRemote, DeleteLocal>>
        BY <2>6, <2>11, <3>1, TableRows
      <4> QED
        BY <2>8, <3>1, <4>1 DEF FarPlan, FarArchiveLocal
    <3>2. CASE Status(l) = "expunged"
      <4>1. plan' = <<ArchiveRemote, DeleteRemote, DeleteLocal>>
        BY <2>6, <2>11, <3>2, TableRows
      <4> QED
        BY <2>8, <3>2, <4>1 DEF FarPlan, FarArchiveRemote
    <3>3. CASE Status(l) = "dirty"
      <4>1. plan' = <<ArchiveRemote, ClearLocal, UploadLocal>>
        BY <2>6, <2>11, <3>3, TableRows
      <4> QED
        BY <2>3, <4>1 DEF FarPlan, FarArchiveRemote
    <3>4. CASE Status(l) = "clean"
      <4>1. plan' = <<ArchiveRemote, DeleteLocal>>
        BY <2>6, <2>11, <3>4, TableRows
      <4> QED
        BY <2>3, <3>0, <4>1 DEF FarPlan, FarArchiveRemote
    <3> QED
      BY <2>7, <3>1, <3>2, <3>3, <3>4
  <2>12. CASE Status(p) = "expunged"
    <3>0. Buried'
      BY <1>4, <1>10, <2>12, PoliteFacts
    <3>1. CASE Status(l) = "archived"
      <4>1. plan' = <<ClearLocal, ArchiveLocal, DeleteLocal>>
        BY <2>6, <2>12, <3>1, TableRows
      <4> QED
        BY <2>3, <3>0, <4>1 DEF FarPlan, FarClearLocal
    <3>2. CASE Status(l) \in {"expunged", "clean"}
      <4>1. plan' = <<DeleteLocal>>
        BY <2>6, <2>12, <3>2, TableRows
      <4> QED
        BY <2>3, <3>0, <4>1 DEF FarPlan, FarDeleteLocal
    <3>3. CASE Status(l) = "dirty"
      <4>1. plan' = <<DeleteRemote, ClearLocal, UploadLocal>>
        BY <2>6, <2>12, <3>3, TableRows
      <4> QED
        BY <2>9, <3>3, <4>1 DEF FarPlan, FarDeleteRemote
    <3> QED
      BY <2>7, <3>1, <3>2, <3>3
  <2>13. CASE Status(p) = "dirty"
    <3>0. Onward'
      BY <1>4, <1>10, <2>13, PoliteFacts
    <3>1. CASE Status(l) = "archived"
      <4>1. plan' = <<ClearLocal, ArchiveLocal, DeleteLocal, AppendUnclean>>
        BY <2>6, <2>13, <3>1, TableRows
      <4> QED
        BY <2>8, <3>0, <3>1, <4>1 DEF FarPlan, FarClearLocal
    <3>2. CASE Status(l) = "expunged"
      <4>1. plan' = <<DeleteLocal, AppendRemote>>
        BY <2>6, <2>13, <3>2, TableRows
      <4> QED
        BY <2>3, <3>0, <4>1 DEF FarPlan, FarDeleteLocal
    <3>3. CASE Status(l) = "dirty" /\ l.data = p.data
      <4>1. plan' = <<ClearLocal>> /\ Localrec'.data = rem'.data
        BY <1>6, <2>6, <2>10, <2>13, <3>3, TableRows
      <4> QED
        BY <2>3, <3>0, <4>1 DEF FarPlan, FarClearLocal
    <3>4. CASE Status(l) = "dirty" /\ l.data # p.data
      <4>1. plan' = <<ClearLocal, UploadAsNew, InsertRemote>>
        BY <2>6, <2>13, <3>4, TableRows
      <4> QED
        BY <2>3, <3>0, <4>1 DEF FarPlan, FarClearLocal
    <3>5. CASE Status(l) = "clean"
      <4>1. plan' = <<InsertRemote, DeleteLocal>>
        BY <2>6, <2>13, <3>5, TableRows
      <4> QED
        BY <2>3, <3>0, <4>1 DEF FarPlan, FarBring
    <3> QED
      BY <2>7, <3>1, <3>2, <3>3, <3>4, <3>5
  <2>14. Status(p) \in {"archived", "expunged", "dirty"}
    BY <1>3, <1>4, PoliteFacts DEF Statuses
  <2> QED
    BY <2>11, <2>12, <2>13, <2>14
<1>13. (plan' = <<>> /\ Matched(p)') \/ (plan' # <<>> /\ FarPlan')
  BY <1>11, <1>12
<1>14. ASSUME NEW q \in Recs(palm), Reached(q)' PROVE Matched(q)' \/ Held(q.id)'
  <2>1. CASE q.id = p.id
    BY <1>6, <1>9, <1>13, <2>1 DEF Held
  <2>2. CASE q.id # p.id
    <3>1. Reached(q)
      BY <1>1, <1>6, <1>14, <2>2 DEF Reached
    <3>2. Matched(q)
      BY <1>1, <3>1 DEF Walking, Held
    <3> QED
      BY <1>1, <3>2 DEF Matched
  <2> QED
    BY <2>1, <2>2
<1>15. ASSUME NEW r \in Recs(localdb), r.flags = {} PROVE Backed(r)'
  BY <1>1, <1>15 DEF Walking, Held, Backed
<1>16. Walking'
  BY <1>1, <1>4, <1>6, <1>8, <1>13, <1>14, <1>15 DEF Walking
<1> QED
  BY <1>1, <1>7, <1>16, SessionFacts DEF MirrorInv, Ready, Synced

(* No modified record is left: every record of the Palm was reached.       *)
LEMMA RemoteDoneMirror == ASSUME Ready, RemoteDone PROVE MirrorInv'
<1>1. /\ pc = "remote" /\ mode = "fast" /\ plan = <<>> /\ Walking /\ Unread = {}
      /\ pc' = "local" /\ li' = 0 /\ rem' = NoRec
      /\ UNCHANGED <<palm, backup, host, mode, opened, failed, localdb, plan>>
  BY SessionFacts DEF RemoteDone, Ready, MirrorInv, palmVars, fileVars
<1>2. Polite(rem')
  BY <1>1 DEF Polite, NoRec, Rec
<1>3. AllPolite' /\ \A h \in Hosts : Paired(h)'
  BY <1>1, <1>2, SafePalm, PairedStays, PoliteStays
<1>4. ASSUME NEW p \in Recs(palm) PROVE Matched(p)'
  <2>1. Reached(p)
    <3>1. PICK i \in DOMAIN palm : p = palm[i]
      BY DEF Recs
    <3> QED
      BY <1>1, <3>1 DEF Reached, Unread
  <2> QED
    BY <1>1, <2>1 DEF Walking, Held, Matched
<1>5. ASSUME NEW j \in DOMAIN localdb, localdb[j].flags = {} PROVE Backed(localdb[j])'
  BY <1>1, <1>5 DEF Walking, Held, Backed, Recs
<1>6. ASSUME NEW j \in DOMAIN localdb PROVE ~ Passed(j)'
  <2>1. j \in Nat /\ j # 0
    BY ReadyFacts, ListFacts
  <2> QED
    BY <1>1, <2>1 DEF Passed
<1>7. Guarded'
  BY <1>1 DEF Walking, Guarded, Protected
<1>8. Sending'
  BY <1>1, <1>4, <1>5, <1>6, <1>7 DEF Sending
<1> QED
  BY <1>1, <1>3, <1>8, SessionFacts DEF MirrorInv, Ready, Synced

(* In the second phase no two records of the list have one ID.             *)
LEMMA SendingFacts ==
    ASSUME Ready, pc = "local"
    PROVE  /\ Sending /\ Distinct(localdb)
           /\ plan # <<>> => Localrec \in Record /\ Localrec \in Recs(localdb) /\ li \in DOMAIN localdb
<1>1. Sending
  BY DEF Ready, MirrorInv
<1>2. PlanIds
  BY DEF Ready, IdsInv
<1>3. Doubled => plan = <<DeleteLocal>>
  BY DEF Doubled
<1>4. plan # <<DeleteLocal>>
  <2>1. Head(<<DeleteLocal>>) = DeleteLocal /\ <<DeleteLocal>> # <<>>
    BY Tails
  <2>2. ClearLocal # DeleteLocal /\ UploadLocal # DeleteLocal /\ ArchiveLocal # DeleteLocal /\ PurgeLocal # DeleteLocal
    BY DEF ClearLocal, DeleteLocal, UploadLocal, ArchiveLocal, PurgeLocal
  <2>3. NearPlan => Head(plan) \in {ClearLocal, UploadLocal, ArchiveLocal, PurgeLocal}
    BY Tails DEF NearPlan
  <2> QED
    BY <1>1, <2>1, <2>2, <2>3 DEF Sending
<1>5. Distinct(localdb)
  BY <1>2, <1>3, <1>4 DEF PlanIds, Plain, Replacing, Bringing
<1>6. plan # <<>> => Localrec \in Record /\ Localrec \in Recs(localdb) /\ li \in DOMAIN localdb
  BY <1>1, ReadyFacts, ListFacts DEF Sending, Localrec
<1> QED
  BY <1>1, <1>5, <1>6

LEMMA NextLocalMirror == ASSUME Ready, NextLocal PROVE MirrorInv'
<1>1. /\ pc = "local" /\ mode = "fast" /\ plan = <<>> /\ Sending
      /\ UNCHANGED <<palm, backup, pc, host, mode, opened, failed, localdb, rem>>
      /\ li < Len(localdb) /\ li' = li + 1 /\ plan' = LocalPlan(localdb[li + 1])
  BY SessionFacts DEF NextLocal, Ready, MirrorInv, palmVars, fileVars, sessVars
<1>2. AllPolite' /\ \A h \in Hosts : Paired(h)'
  BY <1>1, SafePalm, PairedStays, PoliteStays DEF Ready, MirrorInv, AllPolite
<1>3. li' \in DOMAIN localdb /\ \A j \in DOMAIN localdb : j <= li <=> j < li'
  BY <1>1, ReadyFacts, ListFacts
<1>4. PICK r \in Record : r = localdb[li'] /\ r \in Recs(localdb) /\ Polite(r)
  BY <1>3, ReadyFacts, ListFacts DEF Ready, MirrorInv, AllPolite
<1>5. plan' = FastLocalPlan(r) /\ Localrec' = r
  BY <1>1, <1>4 DEF LocalPlan, Localrec
<1>6. /\ r.flags = {} => plan' = <<>>
      /\ r.flags # {} => plan' # <<>> /\ NearPlan'
  <2>1. ASSUME r.flags = {} PROVE ~ ToArchive(r) /\ EXPUNGED \notin r.flags /\ DIRTY \notin r.flags
    BY <2>1 DEF ToArchive
  <2>2. r.flags = {} => plan' = <<>>
    BY <1>5, <2>1 DEF FastLocalPlan
  <2>3. ASSUME r.flags # {} PROVE plan' # <<>> /\ NearPlan'
    <3>1. ToArchive(r) \/ EXPUNGED \in r.flags \/ DIRTY \in r.flags
      BY <1>4, <2>3, PoliteFacts
    <3>2. ~ Protected(Localrec.id)'
      BY <1>1, <1>4, <1>5, <2>3 DEF Sending, Guarded, Protected
    <3>3. \/ plan' = <<ClearLocal, ArchiveLocal, PurgeLocal>>
          \/ plan' = <<PurgeLocal>>
          \/ plan' = <<ClearLocal, UploadLocal>>
      BY <1>5, <3>1 DEF FastLocalPlan
    <3> QED
      BY <3>2, <3>3 DEF NearPlan
  <2> QED
    BY <2>2, <2>3
<1>7. ASSUME r.flags = {} PROVE Present(r)
  <2>1. PICK p \in Recs(palm) : p.id = r.id
    BY <1>1, <1>3, <1>4, <1>7 DEF Sending, Backed
  <2>2. Matched(p)
    BY <1>1, <2>1 DEF Sending
  <2>3. IsLive(p)
    <3>1. ~ Lacks(localdb, p.id)
      BY <1>3, <1>4, <2>1 DEF Lacks
    <3> QED
      BY <2>2, <3>1 DEF Matched
  <2>4. PICK s \in Recs(localdb) : s.id = p.id /\ (s.flags = {} => s.data = p.data)
    BY <2>2, <2>3 DEF Matched
  <2>5. s = r
    <3>1. p.id # 0 /\ Distinct(localdb)
      BY <1>1, <2>1, ReadyFacts, SendingFacts
    <3>2. PICK j \in DOMAIN localdb : s = localdb[j]
      BY <2>4 DEF Recs
    <3> QED
      BY <1>3, <1>4, <2>1, <2>4, <3>1, <3>2 DEF Distinct
  <2> QED
    BY <1>7, <2>1, <2>3, <2>4, <2>5 DEF Present
<1>8. ASSUME NEW j \in DOMAIN localdb, Passed(j)' PROVE Present(localdb[j])'
  <2>1. CASE j < li'
    <3>1. Passed(j)
      <4>1. j \in Nat /\ li \in Nat
        BY ReadyFacts, ListFacts
      <4> QED
        BY <1>1, <1>3, <2>1, <4>1 DEF Passed
    <3> QED
      BY <1>1, <3>1 DEF Sending, Present
  <2>2. CASE j = li' /\ plan' = <<>>
    BY <1>1, <1>4, <1>6, <1>7, <2>2 DEF Present
  <2> QED
    BY <1>8, <2>1, <2>2 DEF Passed
<1>9. Guarded' /\ (\A p \in Recs(palm) : Matched(p)')
  BY <1>1 DEF Sending, Guarded, Protected, Matched
<1>10. \A j \in DOMAIN localdb : localdb[j].flags = {} => Backed(localdb[j])'
  BY <1>1 DEF Sending, Backed
<1>11. Sending'
  BY <1>1, <1>3, <1>4, <1>6, <1>8, <1>9, <1>10 DEF Sending
<1> QED
  BY <1>1, <1>2, <1>11, SessionFacts DEF MirrorInv, Ready, Synced

(* The list has become what the Palm has.                                  *)
LEMMA LiveRecs ==
    ASSUME NEW db \in Seq(Record)
    PROVE  \A x : x \in Live(db) <=> \E r \in Recs(db) : IsLive(r) /\ x = <<r.id, r.data>>
  BY DEF Live, Kept, Recs

LEMMA LocalDoneMirror == ASSUME Ready, LocalDone PROVE MirrorInv'
<1>1. /\ pc = "local" /\ pc' = "write" /\ plan = <<>> /\ Sending /\ li = Len(localdb)
      /\ UNCHANGED <<palm, backup, host, mode, opened, failed, localdb, rem>>
  BY DEF LocalDone, Ready, MirrorInv, palmVars, fileVars, workVars
<1>2. AllPolite' /\ \A h \in Hosts : Paired(h)'
  BY <1>1, SafePalm, PairedStays, PoliteStays DEF Ready, MirrorInv, AllPolite
<1>3. \A r \in Recs(localdb) : Present(r)
  <2>1. \A j \in DOMAIN localdb : Passed(j)
    BY <1>1, ReadyFacts, ListFacts DEF Passed
  <2> QED
    BY <1>1, <2>1 DEF Sending, Recs
<1>4. AllClean(localdb)
  BY <1>3 DEF AllClean, Present, Recs
<1>5. \A r \in Recs(localdb) : IsLive(r)
  BY <1>3 DEF Present, IsLive
<1>6. ASSUME NEW x \in Live(localdb) PROVE x \in Live(palm)
  BY <1>3, <1>6, ReadyFacts, LiveRecs DEF Present
<1>7. ASSUME NEW x \in Live(palm) PROVE x \in Live(localdb)
  <2>1. PICK p \in Recs(palm) : IsLive(p) /\ x = <<p.id, p.data>>
    BY <1>7, ReadyFacts, LiveRecs
  <2>2. Matched(p)
    BY <1>1, <2>1 DEF Sending
  <2>3. PICK r \in Recs(localdb) : r.id = p.id /\ (r.flags = {} => r.data = p.data)
    BY <2>1, <2>2 DEF Matched
  <2> QED
    BY <1>3, <1>5, <2>1, <2>3, ReadyFacts, LiveRecs DEF Present
<1>8. SameLive(localdb)
  <2>1. Live(localdb) \subseteq Live(palm) /\ Live(palm) \subseteq Live(localdb)
    BY <1>6, <1>7
  <2> QED
    BY <1>4, <2>1 DEF SameLive
<1>9. SameLive(localdb)'
  BY <1>1, <1>8 DEF SameLive
<1> QED
  BY <1>1, <1>2, <1>9, SessionFacts DEF MirrorInv, Ready, Synced

-----------------------------------------------------------------------------
(* The first phase, one step of a plan after the other.                    *)
LEMMA FarFacts ==
    ASSUME Ready, pc = "remote", plan # <<>>
    PROVE  /\ Walking /\ FarPlan /\ rem.id # 0 /\ rem.id \in Nat /\ rem.id < nextId
           /\ mode = "fast" /\ Polite(rem)
           /\ Ours => /\ li \in DOMAIN localdb /\ Localrec = localdb[li] /\ Localrec.id = rem.id
                      /\ Localrec \in Record /\ Localrec \in Recs(localdb)
<1>1. Walking /\ FarPlan /\ rem.id # 0 /\ Polite(rem)
  BY DEF Ready, MirrorInv, Walking, AllPolite
<1>2. Ours => /\ li \in DOMAIN localdb /\ Localrec = localdb[li] /\ Localrec.id = rem.id
              /\ Localrec \in Record /\ Localrec \in Recs(localdb)
  BY ReadyFacts, ListFacts DEF Ours, Localrec
<1> QED
  BY <1>1, <1>2, ReadyFacts, SessionFacts

LEMMA FarHead ==
    ASSUME FarPlan
    PROVE  /\ Head(plan) = ArchiveLocal => FarArchiveLocal
           /\ Head(plan) = ArchiveRemote => FarArchiveRemote
           /\ Head(plan) = ClearLocal => FarClearLocal
           /\ Head(plan) = DeleteLocal => FarDeleteLocal
           /\ Head(plan) = DeleteRemote => FarDeleteRemote
           /\ Head(plan) \in {UploadLocal, UploadAsNew} => FarUpload
           /\ Head(plan) \in {AppendRemote, AppendUnclean, InsertRemote} => FarBring
           /\ Head(plan) # DropRemote /\ Head(plan) # PurgeLocal
<1>1. FarArchiveLocal => Head(plan) = ArchiveLocal
  BY Tails DEF FarArchiveLocal
<1>2. FarArchiveRemote => Head(plan) = ArchiveRemote
  BY Tails DEF FarArchiveRemote
<1>3. FarClearLocal => Head(plan) = ClearLocal
  BY Tails DEF FarClearLocal
<1>4. FarDeleteLocal => Head(plan) = DeleteLocal
  BY Tails DEF FarDeleteLocal
<1>5. FarDeleteRemote => Head(plan) = DeleteRemote
  BY Tails DEF FarDeleteRemote
<1>6. FarUpload => Head(plan) \in {UploadLocal, UploadAsNew}
  BY Tails DEF FarUpload
<1>7. FarBring => Head(plan) \in {AppendRemote, AppendUnclean, InsertRemote}
  BY Tails DEF FarBring
<1>8. PICK h : h = Head(plan)
  OBVIOUS
<1>9. \/ FarArchiveLocal /\ h = ArchiveLocal
      \/ FarArchiveRemote /\ h = ArchiveRemote
      \/ FarClearLocal /\ h = ClearLocal
      \/ FarDeleteLocal /\ h = DeleteLocal
      \/ FarDeleteRemote /\ h = DeleteRemote
      \/ FarUpload /\ h \in {UploadLocal, UploadAsNew}
      \/ FarBring /\ h \in {AppendRemote, AppendUnclean, InsertRemote}
  BY <1>1, <1>2, <1>3, <1>4, <1>5, <1>6, <1>7, <1>8 DEF FarPlan
<1> HIDE DEF FarPlan
<1> QED
  BY <1>8, <1>9
  DEF ClearLocal, ArchiveLocal, ArchiveRemote, DeleteLocal, DropRemote, DeleteRemote, PurgeLocal,
      UploadLocal, UploadAsNew, AppendRemote, AppendUnclean, InsertRemote

(* What a step does to the records under other IDs than the one in hand,   *)
(* and what the last one has to leave behind.                              *)
FarElse ==
    /\ PalmSafe
    /\ \A p \in Recs(palm) : p.id # rem.id => p \in Recs(palm')
    /\ \A q \in Recs(palm') : q.id = rem.id \/ q \in Recs(palm) \/ Matched(q)'
    /\ \A r \in Recs(localdb) : r.id # rem.id => r \in Recs(localdb')
    /\ \A r \in Recs(localdb') :
          \/ r \in Recs(localdb)
          \/ /\ Polite(r) /\ (r.flags = {} \/ ~ Protected(r.id))
             /\ r.id = rem.id \/ (r.id = nextId /\ Backed(r)')
FarEnd ==
    /\ \A q \in Recs(palm') : q.id = rem.id => Matched(q)'
    /\ \A r \in Recs(localdb') : r.flags = {} /\ r.id = rem.id => Backed(r)'

LEMMA FarStep ==
    ASSUME Ready, pc = "remote", plan # <<>>,
           UNCHANGED <<backup, pc, host, mode, opened, failed, seen, rem>>,
           FarElse, plan' = <<>> => FarEnd, plan' # <<>> => FarPlan'
    PROVE  MirrorInv'
<1>1. /\ Walking /\ rem.id \in seen /\ rem.id # 0 /\ mode = "fast" /\ Polite(rem)
      /\ UNCHANGED <<backup, pc, host, mode, opened, failed, seen, rem>>
  BY FarFacts DEF Walking
<1>2. AllPolite' /\ \A h \in Hosts : Paired(h)'
  BY <1>1, PoliteStays, PairedStays DEF FarElse
<1>3. Guarded'
  BY <1>1 DEF Walking, Guarded, FarElse, Protected
<1>4. ASSUME NEW q \in Recs(palm'), Reached(q)' PROVE Matched(q)' \/ Held(q.id)'
  <2>1. CASE q.id = rem.id
    BY <1>1, <2>1 DEF FarEnd, Held
  <2>2. CASE q.id # rem.id /\ q \notin Recs(palm)
    BY <2>2 DEF FarElse
  <2>3. CASE q.id # rem.id /\ q \in Recs(palm)
    <3>1. Matched(q)
      BY <1>1, <1>4, <2>3 DEF Reached, Walking, Held
    <3>2. CASE IsLive(q)
      BY <2>3, <3>1, <3>2 DEF Matched, FarElse
    <3>3. CASE ~ IsLive(q)
      <4>1. ASSUME NEW r \in Recs(localdb'), r.id = q.id PROVE FALSE
        <5>1. r \notin Recs(localdb)
          BY <3>1, <3>3, <4>1 DEF Matched, Lacks, Recs
        <5>2. r.id = nextId
          BY <2>3, <4>1, <5>1 DEF FarElse
        <5>3. q.id < nextId /\ q.id \in Nat /\ nextId \in Nat
          BY <2>3, ReadyFacts, RecordFacts
        <5> QED
          BY <4>1, <5>2, <5>3
      <4> QED
        BY <3>3, <4>1 DEF Matched, Lacks, Recs
    <3> QED
      BY <3>2, <3>3
  <2> QED
    BY <2>1, <2>2, <2>3
<1>5. ASSUME NEW r \in Recs(localdb'), r.flags = {} PROVE Backed(r)' \/ Held(r.id)'
  <2>1. CASE r.id = rem.id
    BY <1>1, <1>5, <2>1 DEF FarEnd, Held
  <2>2. CASE r.id # rem.id /\ r \notin Recs(localdb)
    BY <2>2 DEF FarElse
  <2>3. CASE r.id # rem.id /\ r \in Recs(localdb)
    BY <1>1, <1>5, <2>3 DEF Walking, Held, Backed, FarElse
  <2> QED
    BY <2>1, <2>2, <2>3
<1>6. Walking'
  BY <1>1, <1>3, <1>4, <1>5 DEF Walking
<1> QED
  BY <1>1, <1>2, <1>6, SessionFacts DEF MirrorInv, Ready, Synced

(* While the Palm stays as it is.                                          *)
LEMMA FarStays ==
    ASSUME UNCHANGED <<palm, backup, host, rem>>
    PROVE  /\ PalmSafe
           /\ (Buried => Buried') /\ (Onward => Onward')
           /\ \A id : Protected(id) <=> Protected(id)'
           /\ \A q \in Recs(palm') : q \in Recs(palm)
           /\ \A p \in Recs(palm) : p \in Recs(palm')
  BY SafePalm DEF Buried, Onward, Protected

(* The record in hand, once the Palm has nothing under its ID but that.    *)
LEMMA OnwardEnds ==
    ASSUME Ready, pc = "remote", plan # <<>>, Onward, UNCHANGED palm,
           \E r \in Recs(localdb') : r.id = rem.id /\ r.data = rem.data
    PROVE  FarEnd
<1>1. PICK p \in Recs(palm) : IsLive(p) /\ p.id = rem.id /\ p.data = rem.data
  BY DEF Onward
<1>2. \A q \in Recs(palm') : q.id = rem.id => q = p
  BY <1>1, ReadyFacts
<1>3. Matched(p)'
  BY <1>1 DEF Matched
<1>4. \A r : r.id = rem.id => Backed(r)'
  BY <1>1 DEF Backed
<1> QED
  BY <1>2, <1>3, <1>4 DEF FarEnd

LEMMA BuriedEnds ==
    ASSUME Buried, UNCHANGED palm, Lacks(localdb', rem.id)
    PROVE  FarEnd
<1>1. \A r \in Recs(localdb') : r.id # rem.id
  BY DEF Lacks, Recs
<1>2. ASSUME NEW q \in Recs(palm'), q.id = rem.id PROVE Matched(q)'
  BY <1>2 DEF Buried, Matched
<1> QED
  BY <1>1, <1>2 DEF FarEnd

LEMMA FarArchiveStep == ASSUME Ready, pc = "remote", DoArchive PROVE MirrorInv'
<1>1. /\ plan # <<>> /\ plan' = Tail(plan) /\ Head(plan) \in {ArchiveLocal, ArchiveRemote}
      /\ UNCHANGED <<palm, backup, pc, host, mode, opened, failed, localdb, seen, rem, li>>
  BY DEF DoArchive, Step, NextStep, palmVars, sessVars
<1>2. FarArchiveLocal \/ FarArchiveRemote
  BY <1>1, FarFacts, FarHead
<1>3. FarElse
  BY <1>1, FarStays DEF FarElse
<1>4. /\ (Sole => Sole') /\ (Unsafe => Unsafe')
      /\ (Buried => Buried') /\ (Onward => Onward')
  <2>1. Sole => Sole'
    BY <1>1 DEF Sole, Ours
  <2>2. Unsafe => Unsafe'
    BY <1>1, <2>1 DEF Unsafe, Protected
  <2> QED
    BY <1>1, <2>1, <2>2, FarStays
<1>5. (plan' = <<>> => FarEnd) /\ (plan' # <<>> => FarPlan')
  <2>1. CASE plan = <<ArchiveLocal, ArchiveRemote, DeleteRemote, DeleteLocal>> /\ Unsafe
    <3>1. plan' = <<ArchiveRemote, DeleteRemote, DeleteLocal>> /\ plan' # <<>>
      BY <1>1, <2>1, Tails
    <3> QED
      BY <1>4, <2>1, <3>1 DEF FarPlan, FarArchiveRemote
  <2>2. CASE plan \in {<<ArchiveLocal, DeleteRemote, DeleteLocal>>, <<ArchiveRemote, DeleteRemote, DeleteLocal>>} /\ Unsafe
    <3>1. plan' = <<DeleteRemote, DeleteLocal>> /\ plan' # <<>>
      <4>0. PICK a : plan = <<a, DeleteRemote, DeleteLocal>>
        BY <2>2
      <4>1. Tail(plan) = <<DeleteRemote, DeleteLocal>>
        BY <4>0, Tails
      <4> QED
        BY <1>1, <4>1, Tails
    <3> QED
      BY <1>4, <2>2, <3>1 DEF FarPlan, FarDeleteRemote
  <2>3. CASE plan \in {<<ArchiveLocal, DeleteLocal>>, <<ArchiveRemote, DeleteLocal>>} /\ Sole /\ Buried
    <3>1. plan' = <<DeleteLocal>> /\ plan' # <<>>
      <4>1. Tail(plan) = <<DeleteLocal>>
        BY <2>3, Tails
      <4> QED
        BY <1>1, <4>1, Tails
    <3> QED
      BY <1>4, <2>3, <3>1 DEF FarPlan, FarDeleteLocal
  <2>4. CASE plan = <<ArchiveLocal, DeleteLocal, AppendUnclean>> /\ Unsafe /\ Onward
    <3>1. plan' = <<DeleteLocal, AppendUnclean>> /\ plan' # <<>>
      BY <1>1, <2>4, Tails
    <3> QED
      BY <1>4, <2>4, <3>1 DEF FarPlan, FarDeleteLocal
  <2>5. CASE plan = <<ArchiveRemote, ClearLocal, UploadLocal>> /\ Sole
    <3>1. plan' = <<ClearLocal, UploadLocal>> /\ plan' # <<>>
      BY <1>1, <2>5, Tails
    <3> QED
      BY <1>4, <2>5, <3>1 DEF FarPlan, FarClearLocal
  <2>6. CASE plan = <<ArchiveRemote>> /\ Alone /\ Buried
    <3>1. plan' = <<>> /\ Lacks(localdb', rem.id)
      BY <1>1, <2>6, Tails DEF Alone
    <3> QED
      BY <1>1, <2>6, <3>1, BuriedEnds
  <2> QED
    BY <1>2, <2>1, <2>2, <2>3, <2>4, <2>5, <2>6 DEF FarArchiveLocal, FarArchiveRemote
<1> QED
  BY <1>1, <1>3, <1>5, FarStep

LEMMA FarClearStep == ASSUME Ready, pc = "remote", DoClearLocal PROVE MirrorInv'
<1>1. /\ plan # <<>> /\ plan' = Tail(plan) /\ Head(plan) = ClearLocal
      /\ localdb' = ClearStatusFlags(localdb, li)
      /\ UNCHANGED <<palm, backup, pc, host, mode, opened, failed, seen, rem, li>>
  BY DEF DoClearLocal, Step, NextStep, palmVars, fileVars, sessVars
<1>2. FarClearLocal
  BY <1>1, FarFacts, FarHead
<1>3. /\ Sole /\ li \in DOMAIN localdb /\ Localrec = localdb[li] /\ Localrec.id = rem.id
      /\ Localrec \in Recs(localdb) /\ localdb \in Seq(Record)
  <2>1. Sole
    BY <1>2 DEF FarClearLocal, Unsafe
  <2> QED
    BY <1>1, <2>1, FarFacts, ReadyFacts DEF Sole
<1>4. PICK r \in Record :
        /\ r.id = Localrec.id /\ r.data = Localrec.data /\ r.flags = {}
        /\ DOMAIN localdb' = DOMAIN localdb /\ localdb'[li] = r
        /\ \A j \in DOMAIN localdb : j # li => localdb'[j] = localdb[j]
        /\ Recs(localdb') = {localdb[j] : j \in DOMAIN localdb \ {li}} \cup {r}
  BY <1>1, <1>3, ClearedRecs
<1>5. FarElse
  <2>1. \A s \in Recs(localdb) : s.id # rem.id => s \in Recs(localdb')
    BY <1>3, <1>4 DEF Recs
  <2>2. \A s \in Recs(localdb') : s \in Recs(localdb) \/ s = r
    BY <1>4 DEF Recs
  <2>3. Polite(r)
    BY <1>4 DEF Polite
  <2> QED
    BY <1>1, <1>3, <1>4, <2>1, <2>2, <2>3, FarStays DEF FarElse
<1>6. Sole' /\ Bared' /\ (Unsafe => Unsafe') /\ (Buried => Buried') /\ (Onward => Onward')
  <2>1. Sole'
    <3>1. Ours'
      BY <1>1, <1>3, <1>4 DEF Ours
    <3>2. \A j \in DOMAIN localdb' : localdb'[j].id = rem.id => j = li
      BY <1>3, <1>4 DEF Sole
    <3> QED
      BY <1>1, <3>1, <3>2 DEF Sole
  <2>2. Bared'
    BY <1>1, <1>4 DEF Bared, Localrec
  <2>3. Unsafe => Unsafe'
    BY <1>1, <2>1 DEF Unsafe, Protected
  <2> QED
    BY <1>1, <2>1, <2>2, <2>3, FarStays
<1>7. (plan' = <<>> => FarEnd) /\ (plan' # <<>> => FarPlan')
  <2>1. CASE plan = <<ClearLocal, UploadLocal>>
    <3>1. plan' = <<UploadLocal>> /\ plan' # <<>>
      BY <1>1, <2>1, Tails
    <3> QED
      BY <1>6, <3>1 DEF FarPlan, FarUpload
  <2>2. CASE plan = <<ClearLocal, ArchiveLocal, DeleteLocal>> /\ Buried
    <3>1. plan' = <<ArchiveLocal, DeleteLocal>> /\ plan' # <<>>
      BY <1>1, <2>2, Tails
    <3> QED
      BY <1>6, <2>2, <3>1 DEF FarPlan, FarArchiveLocal
  <2>3. CASE plan = <<ClearLocal, ArchiveLocal, DeleteLocal, AppendUnclean>> /\ Unsafe /\ Onward
    <3>1. plan' = <<ArchiveLocal, DeleteLocal, AppendUnclean>> /\ plan' # <<>>
      BY <1>1, <2>3, Tails
    <3> QED
      BY <1>6, <2>3, <3>1 DEF FarPlan, FarArchiveLocal
  <2>4. CASE plan = <<ClearLocal, UploadAsNew, InsertRemote>> /\ Onward
    <3>1. plan' = <<UploadAsNew, InsertRemote>> /\ plan' # <<>>
      BY <1>1, <2>4, Tails
    <3> QED
      BY <1>6, <2>4, <3>1 DEF FarPlan, FarUpload
  <2>5. CASE plan = <<ClearLocal>> /\ Onward /\ Localrec.data = rem.data
    <3>1. plan' = <<>> /\ r \in Recs(localdb') /\ r.id = rem.id /\ r.data = rem.data
      BY <1>1, <1>3, <1>4, <2>5, Tails
    <3> QED
      BY <1>1, <2>5, <3>1, OnwardEnds
  <2> QED
    BY <1>2, <2>1, <2>2, <2>3, <2>4, <2>5 DEF FarClearLocal
<1> QED
  BY <1>1, <1>5, <1>7, FarStep

(* pdb_DeleteRecordByID of the first record with the ID.                   *)
LEMMA UnlinkFirst ==
    ASSUME NEW db \in Seq(Record), NEW i \in DOMAIN db, NEW new,
           \A j \in DOMAIN db : db[j].id = db[i].id => i <= j,
           new = DeleteRecordByID(db, db[i].id)
    PROVE  /\ \A j \in DOMAIN new : \E k \in DOMAIN db \ {i} : new[j] = db[k]
           /\ \A k \in DOMAIN db \ {i} : \E j \in DOMAIN new : new[j] = db[k]
           /\ new = Without(db, i)
<1>1. db[i].id \in Nat /\ DOMAIN db = 1 .. Len(db) /\ i \in Nat
  BY ListFacts, RecordFacts
<1>2. PICK k : k = FindRecordByID(db, db[i].id)
  OBVIOUS
<1>3. /\ k = 0 => Lacks(db, db[i].id)
      /\ k # 0 => /\ k \in DOMAIN db /\ db[k].id = db[i].id
                  /\ \A j \in DOMAIN db : db[j].id = db[i].id => k <= j
                  /\ DeleteRecordByID(db, db[i].id) = Without(db, k)
  BY <1>1, <1>2, FindFacts
<1>4. k # 0
  BY <1>3 DEF Lacks
<1>5. k = i
  <2>1. k \in Nat /\ k <= i /\ i <= k
    BY <1>1, <1>3, <1>4
  <2> QED
    BY <1>1, <2>1
<1>6. new = Without(db, i)
  BY <1>3, <1>4, <1>5
<1> QED
  BY <1>6, WithoutRecs

LEMMA FarDeleteStep == ASSUME Ready, pc = "remote", DoDeleteLocal PROVE MirrorInv'
<1>1. /\ plan # <<>> /\ plan' = Tail(plan) /\ Head(plan) = DeleteLocal
      /\ localdb' = DeleteRecordByID(localdb, localdb[li].id) /\ li' = 0
      /\ UNCHANGED <<palm, backup, pc, host, mode, opened, failed, seen, rem>>
  BY DEF DoDeleteLocal, Unlink, Step, NextStep, palmVars, fileVars, sessVars
<1>2. FarDeleteLocal
  BY <1>1, FarFacts, FarHead
<1>3. /\ li \in DOMAIN localdb /\ localdb[li].id = rem.id /\ localdb \in Seq(Record)
      /\ \A j \in DOMAIN localdb : localdb[j].id = rem.id => li <= j
  <2>1. Ours /\ li \in Nat
    BY <1>2, ReadyFacts DEF FarDeleteLocal, Sole, Unsafe, Second
  <2>2. \A j \in DOMAIN localdb : localdb[j].id = rem.id => li <= j
    BY <1>2, <2>1 DEF FarDeleteLocal, Sole, Unsafe, Second
  <2> QED
    BY <2>1, <2>2, ReadyFacts DEF Ours
<1>4. /\ \A j \in DOMAIN localdb' : \E k \in DOMAIN localdb \ {li} : localdb'[j] = localdb[k]
      /\ \A k \in DOMAIN localdb \ {li} : \E j \in DOMAIN localdb' : localdb'[j] = localdb[k]
  <2>1. \A j \in DOMAIN localdb : localdb[j].id = localdb[li].id => li <= j
    BY <1>3
  <2>2. localdb \in Seq(Record) /\ li \in DOMAIN localdb /\ localdb' = DeleteRecordByID(localdb, localdb[li].id)
    BY <1>1, <1>3
  <2> QED
    BY <2>1, <2>2, UnlinkFirst
<1>5. FarElse
  <2>1. \A s \in Recs(localdb) : s.id # rem.id => s \in Recs(localdb')
    BY <1>3, <1>4 DEF Recs
  <2>2. \A s \in Recs(localdb') : s \in Recs(localdb)
    BY <1>4 DEF Recs
  <2> QED
    BY <1>1, <2>1, <2>2, FarStays DEF FarElse
<1>6. Sole => Lacks(localdb', rem.id)
  BY <1>4 DEF Sole, Lacks
<1>7. Sole => Alone'
  BY <1>1, <1>6 DEF Alone
<1>8. (Unsafe => ~ Protected(rem.id)') /\ (Onward => Onward')
  BY <1>1, FarStays DEF Unsafe
<1>9. (plan' = <<>> => FarEnd) /\ (plan' # <<>> => FarPlan')
  <2>1. CASE plan = <<DeleteLocal>> /\ Sole /\ Buried
    <3>1. plan' = <<>>
      BY <1>1, <2>1, Tails
    <3> QED
      BY <1>1, <1>6, <2>1, <3>1, BuriedEnds
  <2>2. CASE plan = <<DeleteLocal>> /\ Second /\ Onward
    <3>1. plan' = <<>>
      BY <1>1, <2>2, Tails
    <3>2. PICK j \in DOMAIN localdb : j # li /\ localdb[j].id = rem.id /\ localdb[j].data = rem.data
      BY <2>2 DEF Second
    <3>3. \E r \in Recs(localdb') : r.id = rem.id /\ r.data = rem.data
      BY <1>4, <3>2 DEF Recs
    <3> QED
      BY <1>1, <2>2, <3>1, <3>3, OnwardEnds
  <2>3. CASE plan = <<DeleteLocal, AppendUnclean>> /\ Unsafe /\ Onward
    <3>1. plan' = <<AppendUnclean>> /\ plan' # <<>>
      BY <1>1, <2>3, Tails
    <3> QED
      BY <1>1, <1>7, <1>8, <2>3, <3>1 DEF FarPlan, FarBring, Unsafe
  <2>4. CASE plan = <<DeleteLocal, AppendRemote>> /\ Sole /\ Onward
    <3>1. plan' = <<AppendRemote>> /\ plan' # <<>>
      BY <1>1, <2>4, Tails
    <3> QED
      BY <1>1, <1>7, <1>8, <2>4, <3>1 DEF FarPlan, FarBring
  <2> QED
    BY <1>2, <2>1, <2>2, <2>3, <2>4 DEF FarDeleteLocal
<1> QED
  BY <1>1, <1>5, <1>9, FarStep

(* The record with this ID is deleted on the Palm.                         *)
LEMMA RemoveSafe ==
    ASSUME Ready, NEW id \in Nat, ~ Protected(id), Remove(id)
    PROVE  Recs(palm') = {p \in Recs(palm) : p.id # id} /\ PalmSafe
<1>1. Recs(palm') = {p \in Recs(palm) : p.id # id}
  BY ReadyFacts, RemoveRecs DEF Ready, IdsInv
<1> QED
  BY <1>1 DEF PalmSafe

LEMMA FarRemoveStep == ASSUME Ready, pc = "remote", DoDeleteRemote PROVE MirrorInv'
<1>1. /\ plan # <<>> /\ Head(plan) = DeleteRemote
      /\ UNCHANGED <<backup, host, mode, opened, localdb, seen, rem, li>>
  BY DEF DoDeleteRemote, Step, fileVars
<1>2. FarDeleteRemote
  BY <1>1, FarFacts, FarHead
<1>3. Unsafe /\ Sole /\ ~ Protected(rem.id) /\ rem.id \in Nat
  BY <1>1, <1>2, FarFacts DEF FarDeleteRemote, Unsafe
<1>4. CASE Remove(rem.id) /\ plan' = Tail(plan) /\ UNCHANGED <<pc, failed>>
  <2>1. Recs(palm') = {p \in Recs(palm) : p.id # rem.id} /\ PalmSafe
    BY <1>3, <1>4, RemoveSafe
  <2>2. FarElse
    BY <1>1, <2>1 DEF FarElse
  <2>3. Sole' /\ Buried'
    BY <1>1, <1>3, <2>1 DEF Sole, Ours, Buried
  <2>4. plan' # <<>> /\ FarPlan'
    <3>1. CASE plan = <<DeleteRemote, DeleteLocal>>
      <4>1. plan' = <<DeleteLocal>> /\ plan' # <<>>
        BY <1>4, <3>1, Tails
      <4> QED
        BY <2>3, <4>1 DEF FarPlan, FarDeleteLocal
    <3>2. CASE plan = <<DeleteRemote, ClearLocal, UploadLocal>>
      <4>1. plan' = <<ClearLocal, UploadLocal>> /\ plan' # <<>>
        BY <1>4, <3>2, Tails
      <4> QED
        BY <2>3, <4>1 DEF FarPlan, FarClearLocal
    <3> QED
      BY <1>2, <3>1, <3>2 DEF FarDeleteRemote
  <2> QED
    BY <1>1, <1>4, <2>2, <2>4, FarStep
<1>5. CASE Lost(Remove(rem.id) /\ UNCHANGED nextId) /\ GiveUp
  <2>1. Fail
    BY <1>5, CallsEnd
  <2>2. CASE UNCHANGED palm
    BY <1>1, <2>1, <2>2, SafePalm, FailedMirror
  <2>3. CASE Remove(rem.id)
    BY <1>1, <1>3, <2>1, <2>3, RemoveSafe, FailedMirror
  <2> QED
    BY <1>5, <2>2, <2>3 DEF Lost
<1>6. ~ Refused /\ ~ NotWritable
  BY CallsEnd
<1> QED
  BY <1>4, <1>5, <1>6 DEF DoDeleteRemote, NextStep

(* A record is written to the Palm.                                        *)
LEMMA StoreSafe ==
    ASSUME Ready, NEW id \in Nat, id < nextId, NEW data \in Nat, NEW newID \in {id, nextId},
           Store(id, data, newID)
    PROVE  /\ newID \in Nat /\ newID # 0 /\ PalmSafe
           /\ \E q \in Record :
                 /\ q.id = newID /\ q.data = data /\ q.flags = {DIRTY}
                 /\ Recs(palm') = {p \in Recs(palm) : p.id # newID} \cup {q}
                 /\ newID = id \/ (newID = nextId /\ \A p \in Recs(palm) : p.id # id)
<1>1. /\ OrdinaryUse /\ palm \in Seq(Record) /\ nextId \in Nat /\ PalmIds /\ newID \in Nat
      /\ {} \notin WriteMarks
  BY ReadyFacts DEF Ready, IdsInv, FastDesktop
<1>2. PICK q \in Record :
        /\ q.id = newID /\ q.data = data /\ q.flags \subseteq {DIRTY} /\ q.flags \in WriteMarks
        /\ Recs(palm') = {p \in Recs(palm) : p.id # newID} \cup {q}
        /\ newID = id \/ (newID = nextId /\ \A p \in Recs(palm) : p.id # id)
  BY <1>1, StoreRecs
<1>3. q.flags = {DIRTY}
  BY <1>1, <1>2
<1>4. newID # 0
  <2>1. (newID = id /\ id # 0) \/ newID = nextId
    BY <1>1, StoreIds
  <2> QED
    BY <1>1, <2>1
<1>5. PalmSafe
  BY <1>2, <1>3 DEF PalmSafe
<1> QED
  BY <1>1, <1>2, <1>3, <1>4, <1>5

(* An upload: the Palm has the record now, under the ID it had or under a  *)
(* new one, or the sync is over.                                           *)
Uploaded ==
    /\ plan' = Tail(plan) /\ UNCHANGED <<pc, failed>>
    /\ \E id \in Nat, newID \in Nat, q \in Record :
          /\ \/ Head(plan) = UploadLocal /\ id = Localrec.id
             \/ Head(plan) = UploadAsNew /\ id = 0
          /\ localdb' = [localdb EXCEPT ![li] = [Localrec EXCEPT !.id = newID]]
          /\ q.id = newID /\ q.data = Localrec.data /\ q.flags = {DIRTY}
          /\ Recs(palm') = {p \in Recs(palm) : p.id # newID} \cup {q}
          /\ newID = id \/ (newID = nextId /\ \A p \in Recs(palm) : p.id # id)
          /\ newID # 0

LEMMA UploadStep ==
    ASSUME Ready, li \in DOMAIN localdb, DoUpload
    PROVE  /\ plan # <<>> /\ Head(plan) \in {UploadLocal, UploadAsNew} /\ PalmSafe
           /\ UNCHANGED <<backup, host, mode, opened, seen, rem, li>>
           /\ Uploaded \/ (Fail /\ UNCHANGED localdb)
<1>1. /\ plan # <<>> /\ Head(plan) \in {UploadLocal, UploadAsNew}
      /\ UNCHANGED <<backup, host, mode, opened, seen, rem, li>>
  BY DEF DoUpload, Step, fileVars
<1>2. /\ Localrec \in Record /\ Localrec = localdb[li] /\ Localrec.id \in Nat /\ Localrec.data \in Nat
      /\ Localrec.id < nextId /\ nextId \in Nat
  BY ReadyFacts, ListFacts, RecordFacts DEF Localrec
<1>3. PICK id \in Nat : /\ \/ Head(plan) = UploadLocal /\ id = Localrec.id
                           \/ Head(plan) = UploadAsNew /\ id = 0
                        /\ Upload(id)
  BY <1>2 DEF DoUpload, Step
<1>4. id < nextId
  BY <1>2, <1>3
<1>5. pc # "idle"
  BY <1>1 DEF Ready, MirrorInv
<1>6. ASSUME NEW newID \in {id, nextId}, Store(id, Localrec.data, newID),
             plan' = Tail(plan), UNCHANGED <<pc, failed>>, localdb' = [localdb EXCEPT ![li].id = newID]
      PROVE  PalmSafe /\ Uploaded
  <2>1. localdb' = [localdb EXCEPT ![li] = [Localrec EXCEPT !.id = newID]]
    BY <1>2, <1>6
  <2>2. /\ newID \in Nat /\ newID # 0 /\ PalmSafe
        /\ \E q \in Record :
              /\ q.id = newID /\ q.data = Localrec.data /\ q.flags = {DIRTY}
              /\ Recs(palm') = {p \in Recs(palm) : p.id # newID} \cup {q}
              /\ newID = id \/ (newID = nextId /\ \A p \in Recs(palm) : p.id # id)
    <3>1. PICK d \in Nat : d = Localrec.data
      BY <1>2
    <3>2. Store(id, d, newID) /\ id < nextId
      BY <1>4, <1>6, <3>1
    <3>3. /\ newID \in Nat /\ newID # 0 /\ PalmSafe
          /\ \E q \in Record :
                /\ q.id = newID /\ q.data = d /\ q.flags = {DIRTY}
                /\ Recs(palm') = {p \in Recs(palm) : p.id # newID} \cup {q}
                /\ newID = id \/ (newID = nextId /\ \A p \in Recs(palm) : p.id # id)
      BY <3>2, StoreSafe
    <3> QED
      BY <3>1, <3>3
  <2> HIDE DEF Localrec
  <2> QED
    BY <1>3, <1>6, <2>1, <2>2 DEF Uploaded
<1>7. ASSUME Lost(Stored(id, Localrec.data)), GiveUp, UNCHANGED localdb
      PROVE  PalmSafe /\ Fail /\ UNCHANGED localdb
  <2>1. Fail
    BY <1>5, <1>7, CallsEnd
  <2>2. CASE UNCHANGED palm
    BY <1>7, <2>1, <2>2, SafePalm
  <2>3. CASE Stored(id, Localrec.data)
    <3>1. PICK newID \in {id, nextId} : Store(id, Localrec.data, newID)
      BY <2>3 DEF Stored
    <3> QED
      BY <1>2, <1>4, <1>7, <2>1, <3>1, StoreSafe
  <2> QED
    BY <1>7, <2>2, <2>3 DEF Lost
<1>8. ~ Refused /\ ~ NotWritable
  BY <1>5, CallsEnd
<1>9. \/ \E newID \in {id, nextId} :
            /\ Store(id, Localrec.data, newID) /\ plan' = Tail(plan) /\ UNCHANGED <<pc, failed>>
            /\ localdb' = [localdb EXCEPT ![li].id = newID]
      \/ Lost(Stored(id, Localrec.data)) /\ GiveUp /\ UNCHANGED localdb
  BY <1>2, <1>3, <1>8 DEF Upload, NextStep
<1>10. PalmSafe /\ (Uploaded \/ (Fail /\ UNCHANGED localdb))
  BY <1>6, <1>7, <1>9
<1> QED
  BY <1>1, <1>10

LEMMA FarUploadStep == ASSUME Ready, pc = "remote", DoUpload PROVE MirrorInv'
<1>1. plan # <<>> /\ Head(plan) \in {UploadLocal, UploadAsNew}
  BY DEF DoUpload, Step
<1>2. FarUpload
  BY <1>1, FarFacts, FarHead
<1>3. /\ Sole /\ Bared /\ li \in DOMAIN localdb /\ Localrec = localdb[li] /\ Localrec.id = rem.id
      /\ Localrec.flags = {} /\ localdb \in Seq(Record) /\ Localrec \in Record
  <2>1. Sole /\ Bared
    BY <1>2 DEF FarUpload
  <2> QED
    BY <1>1, <2>1, FarFacts, ReadyFacts DEF Sole, Bared
<1>4. /\ PalmSafe /\ UNCHANGED <<backup, host, mode, opened, seen, rem, li>>
      /\ Uploaded \/ (Fail /\ UNCHANGED localdb)
  BY <1>3, UploadStep
<1>5. CASE Fail /\ UNCHANGED localdb
  BY <1>4, <1>5, FailedMirror
<1>6. CASE Uploaded
  <2>1. PICK id \in Nat, newID \in Nat, q \in Record :
          /\ \/ Head(plan) = UploadLocal /\ id = Localrec.id
             \/ Head(plan) = UploadAsNew /\ id = 0
          /\ localdb' = [localdb EXCEPT ![li] = [Localrec EXCEPT !.id = newID]]
          /\ q.id = newID /\ q.data = Localrec.data /\ q.flags = {DIRTY}
          /\ Recs(palm') = {p \in Recs(palm) : p.id # newID} \cup {q}
          /\ newID = id \/ (newID = nextId /\ \A p \in Recs(palm) : p.id # id)
          /\ newID # 0
    <3> HIDE DEF Localrec
    <3> QED
      BY <1>6 DEF Uploaded
  <2>2. PICK r \in Record :
          /\ DOMAIN localdb' = DOMAIN localdb /\ localdb'[li] = r
          /\ \A j \in DOMAIN localdb : j # li => localdb'[j] = localdb[j]
          /\ r.id = newID /\ r.data = Localrec.data /\ r.flags = {}
    <3>1. localdb' = [localdb EXCEPT ![li] = [localdb[li] EXCEPT !.id = newID]]
      BY <1>3, <2>1
    <3>2. PICK new : new = [localdb EXCEPT ![li] = [localdb[li] EXCEPT !.id = newID]]
      OBVIOUS
    <3>3. /\ DOMAIN new = DOMAIN localdb /\ \A j \in DOMAIN localdb : j # li => new[j] = localdb[j]
          /\ new[li].id = newID /\ new[li].data = localdb[li].data /\ new[li].flags = localdb[li].flags
          /\ new[li] \in Record
      BY <1>3, <3>2, RenamedRecs
    <3> QED
      BY <1>3, <3>1, <3>2, <3>3
  <2>3. IsLive(q)
    BY <2>1 DEF IsLive, DIRTY, DELETED, ARCHIVE, EXPUNGED
  <2>4. q \in Recs(palm') /\ r \in Recs(localdb') /\ Matched(q)' /\ Backed(r)'
    <3>1. q \in Recs(palm') /\ r \in Recs(localdb')
      BY <1>3, <2>1, <2>2 DEF Recs
    <3> QED
      BY <2>1, <2>2, <2>3, <3>1 DEF Matched, Backed
  <2>5. newID = rem.id \/ newID = nextId
    BY <1>3, <2>1
  <2>6. \A s \in Recs(localdb') : s = r \/ (s \in Recs(localdb) /\ s.id # rem.id)
    BY <1>3, <2>2 DEF Recs, Sole
  <2>7. FarElse
    <3>1. \A p \in Recs(palm) : p.id # rem.id => p \in Recs(palm')
      BY <2>1, <2>5, ReadyFacts
    <3>2. \A s \in Recs(localdb) : s.id # rem.id => s \in Recs(localdb')
      BY <1>3, <2>2 DEF Recs
    <3>3. \A x \in Recs(palm') : x.id = rem.id \/ x \in Recs(palm) \/ Matched(x)'
      BY <2>1, <2>4
    <3>4. Polite(r)
      BY <2>2 DEF Polite
    <3> QED
      BY <1>4, <2>2, <2>4, <2>5, <2>6, <3>1, <3>2, <3>3, <3>4 DEF FarElse
  <2>8. rem.id # nextId
    BY ReadyFacts
  <2>9. newID = nextId => \A p \in Recs(palm') : p.id # rem.id \/ p \in Recs(palm)
    BY <2>1, <2>8
  <2>10. CASE plan = <<UploadLocal>>
    <3>1. plan' = <<>> /\ Head(plan) = UploadLocal
      BY <1>6, <2>10, Tails DEF Uploaded
    <3>2. id = rem.id
      BY <1>3, <2>1, <3>1 DEF UploadLocal, UploadAsNew
    <3>3. \A x \in Recs(palm') : x.id = rem.id => x = q
      BY <2>1, <2>5, <2>8, <3>2
    <3>4. FarEnd
      BY <2>4, <2>6, <3>3 DEF FarEnd
    <3> QED
      BY <1>1, <1>4, <1>6, <2>7, <3>1, <3>4, FarStep DEF Uploaded
  <2>11. CASE plan = <<UploadAsNew, InsertRemote>> /\ Onward
    <3>1. plan' = <<InsertRemote>> /\ plan' # <<>> /\ Head(plan) = UploadAsNew
      BY <1>6, <2>11, Tails DEF Uploaded
    <3>2. newID = nextId
      BY <2>1, <3>1 DEF UploadLocal, UploadAsNew
    <3>3. li' \in DOMAIN localdb' /\ Lacks(localdb', rem.id)
      <4>1. \A s \in Recs(localdb') : s.id # rem.id
        BY <2>2, <2>6, <2>8, <3>2
      <4> QED
        BY <1>3, <1>4, <2>2, <4>1 DEF Lacks, Recs
    <3>4. Onward'
      <4>1. PICK p \in Recs(palm) : IsLive(p) /\ p.id = rem.id /\ p.data = rem.data
        BY <2>11 DEF Onward
      <4>2. p \in Recs(palm')
        BY <2>1, <2>8, <3>2, <4>1
      <4> QED
        BY <1>4, <2>11, <4>1, <4>2 DEF Onward
    <3>5. FarPlan'
      BY <1>4, <3>1, <3>3, <3>4 DEF FarPlan, FarBring
    <3> QED
      BY <1>1, <1>4, <1>6, <2>7, <3>1, <3>5, FarStep DEF Uploaded
  <2> QED
    BY <1>2, <2>10, <2>11 DEF FarUpload
<1> QED
  BY <1>4, <1>5, <1>6

(* The record in hand is put into the list, clean or, where the code       *)
(* cleans the wrong record, as it came.                                    *)
LEMMA Brought ==
    ASSUME Ready, pc = "remote", plan # <<>>, Onward,
           UNCHANGED <<palm, backup, pc, host, mode, opened, failed, seen, rem>>,
           NEW r \in Record, r.id = rem.id, r.data = rem.data,
           r.flags = {} \/ (r.flags = {DIRTY} /\ ~ Protected(rem.id)),
           Recs(localdb') = Recs(localdb) \cup {r}
    PROVE  FarElse /\ FarEnd
<1>1. FarElse
  <2>1. Polite(r)
    BY DEF Polite
  <2> QED
    BY <2>1, FarStays DEF FarElse
<1>2. FarEnd
  BY OnwardEnds
<1> QED
  BY <1>1, <1>2

LEMMA FarAppendStep == ASSUME Ready, pc = "remote", DoAppendRemote PROVE MirrorInv'
<1>1. /\ plan # <<>> /\ plan' = Tail(plan) /\ Head(plan) \in {AppendRemote, AppendUnclean}
      /\ UNCHANGED <<palm, backup, pc, host, mode, opened, failed, seen, rem>>
  BY DEF DoAppendRemote, Step, NextStep, palmVars, fileVars, sessVars
<1>2. PICK flags \in SUBSET rem.flags :
        /\ \/ Head(plan) = AppendRemote /\ flags = {}
           \/ Head(plan) = AppendUnclean /\ flags \in {{}, rem.flags}
        /\ localdb' = Append(localdb, Rec(rem.id, flags, rem.data))
  BY DEF DoAppendRemote, Step, AppendRecord
<1>3. FarBring
  BY <1>1, FarFacts, FarHead
<1>4. /\ Onward /\ Tail(plan) = <<>>
      /\ Head(plan) = AppendUnclean => ~ Protected(rem.id)
  <2>1. /\ AppendRemote # AppendUnclean /\ InsertRemote # AppendRemote /\ InsertRemote # AppendUnclean
    BY DEF AppendRemote, AppendUnclean, InsertRemote
  <2> QED
    BY <1>1, <1>3, <2>1, Tails DEF FarBring
<1>5. PICK r \in Record : /\ r = Rec(rem.id, flags, rem.data)
                          /\ r.id = rem.id /\ r.data = rem.data /\ r.flags = flags
  <2>1. rem.id \in Nat /\ rem.data \in Nat /\ flags \in SUBSET Flags
    BY ReadyFacts, RecordFacts
  <2>2. Rec(rem.id, flags, rem.data) \in Record
    BY <2>1 DEF Rec, Record
  <2> QED
    BY <2>2 DEF Rec
<1>6. Recs(localdb') = Recs(localdb) \cup {r}
  <2>1. PICK a : a = Append(localdb, r)
    OBVIOUS
  <2>2. Recs(a) = Recs(localdb) \cup {r}
    BY <2>1, ReadyFacts, AppendRecs
  <2> QED
    BY <1>2, <1>5, <2>1, <2>2
<1>7. r.flags = {} \/ (r.flags = {DIRTY} /\ ~ Protected(rem.id))
  BY <1>2, <1>4, <1>5 DEF Onward
<1>8. FarElse /\ FarEnd
  BY <1>1, <1>4, <1>5, <1>6, <1>7, Brought
<1> QED
  BY <1>1, <1>4, <1>8, FarStep

LEMMA FarInsertStep == ASSUME Ready, pc = "remote", DoInsertRemote PROVE MirrorInv'
<1>1. /\ plan # <<>> /\ plan' = Tail(plan) /\ Head(plan) = InsertRemote
      /\ UNCHANGED <<palm, backup, pc, host, mode, opened, failed, seen, rem, li>>
  BY DEF DoInsertRemote, Step, NextStep, palmVars, fileVars, sessVars
<1>2. FarBring
  BY <1>1, FarFacts, FarHead
<1>3. Onward /\ li \in DOMAIN localdb /\ localdb \in Seq(Record)
  <2>1. AppendRemote # InsertRemote /\ AppendUnclean # InsertRemote
    BY DEF AppendRemote, AppendUnclean, InsertRemote
  <2> QED
    BY <1>1, <1>2, <2>1, ReadyFacts, Tails DEF FarBring, Sole, Ours
<1>4. PICK r \in Record : /\ r = Rec(rem.id, {}, rem.data)
                          /\ r.id = rem.id /\ r.data = rem.data /\ r.flags = {}
  <2>1. rem.id \in Nat /\ rem.data \in Nat
    BY ReadyFacts, RecordFacts
  <2>2. Rec(rem.id, {}, rem.data) \in Record
    BY <2>1 DEF Rec, Record
  <2> QED
    BY <2>2 DEF Rec
<1>5. /\ li \in Nat /\ Len(localdb) \in Nat /\ DOMAIN localdb = 1 .. Len(localdb)
  BY <1>3, ListFacts, ReadyFacts
<1>6. PICK n \in Nat :
        /\ n = Len(localdb) /\ DOMAIN localdb = 1 .. n
        /\ localdb' = [j \in 1 .. (n + 1) |->
                          IF j <= li THEN localdb[j] ELSE IF j = li + 1 THEN r ELSE localdb[j - 1]]
  BY <1>4, <1>5 DEF DoInsertRemote, InsertRecord
<1>7. /\ DOMAIN localdb' = 1 .. (n + 1)
      /\ \A j \in 1 .. (n + 1) : /\ j <= li => j \in DOMAIN localdb /\ localdb'[j] = localdb[j]
                                 /\ j = li + 1 => localdb'[j] = r
                                 /\ j > li + 1 => j - 1 \in DOMAIN localdb \ {li} /\ localdb'[j] = localdb[j - 1]
  BY <1>3, <1>5, <1>6
<1>8. /\ li + 1 \in DOMAIN localdb' /\ localdb'[li + 1] = r
      /\ li \in DOMAIN localdb' /\ localdb'[li] = localdb[li]
  BY <1>3, <1>5, <1>6, <1>7
<1>9. Recs(localdb') = Recs(localdb) \cup {r}
  <2>1. ASSUME NEW j \in DOMAIN localdb' PROVE localdb'[j] \in Recs(localdb) \cup {r}
    <3>1. j <= li \/ j = li + 1 \/ j > li + 1
      BY <1>5, <1>7, <2>1
    <3> QED
      BY <1>7, <2>1, <3>1 DEF Recs
  <2>2. ASSUME NEW j \in DOMAIN localdb PROVE localdb[j] \in Recs(localdb')
    <3>1. CASE j <= li
      <4>1. j \in 1 .. (n + 1)
        BY <1>6
      <4> QED
        BY <1>7, <3>1, <4>1 DEF Recs
    <3>2. CASE j > li
      <4>1. j + 1 \in 1 .. (n + 1) /\ j + 1 > li + 1 /\ (j + 1) - 1 = j
        BY <1>5, <1>6, <3>2
      <4>2. localdb'[j + 1] = localdb[j]
        BY <1>7, <4>1
      <4> QED
        BY <1>7, <4>1, <4>2 DEF Recs
    <3> QED
      BY <1>5, <1>6, <3>1, <3>2
  <2> QED
    BY <1>8, <2>1, <2>2 DEF Recs
<1>10. FarElse /\ FarEnd
  BY <1>1, <1>3, <1>4, <1>9, Brought
<1>11. CASE plan = <<InsertRemote>>
  <2>1. plan' = <<>>
    BY <1>1, <1>11, Tails
  <2> QED
    BY <1>1, <1>10, <2>1, FarStep
<1>12. CASE plan = <<InsertRemote, DeleteLocal>> /\ Sole
  <2>1. plan' = <<DeleteLocal>> /\ plan' # <<>>
    BY <1>1, <1>12, Tails
  <2>2. ASSUME NEW j \in DOMAIN localdb', localdb'[j].id = rem.id PROVE li <= j
    <3>1. ASSUME j < li PROVE FALSE
      <4>1. j \in DOMAIN localdb /\ localdb'[j] = localdb[j]
        BY <1>5, <1>7, <3>1
      <4>2. j = li
        BY <1>12, <2>2, <4>1 DEF Sole
      <4> QED
        BY <1>5, <3>1, <4>2
    <3> QED
      BY <1>5, <1>7, <3>1
  <2>3. li + 1 # li
    BY <1>5
  <2>4. Second'
    <3>1. Ours'
      BY <1>1, <1>8, <1>12 DEF Ours, Sole
    <3>2. \E j \in DOMAIN localdb' : j # li /\ localdb'[j].id = rem.id /\ localdb'[j].data = rem.data
      BY <1>4, <1>8, <2>3
    <3> QED
      BY <1>1, <2>2, <3>1, <3>2 DEF Second
  <2>5. Onward'
    BY <1>1, <1>3, FarStays
  <2>6. FarPlan'
    BY <2>1, <2>4, <2>5 DEF FarPlan, FarDeleteLocal
  <2> QED
    BY <1>1, <1>10, <2>1, <2>6, FarStep
<1>13. plan = <<InsertRemote>> \/ (plan = <<InsertRemote, DeleteLocal>> /\ Sole)
  <2>1. AppendRemote # InsertRemote /\ AppendUnclean # InsertRemote
    BY DEF AppendRemote, AppendUnclean, InsertRemote
  <2> QED
    BY <1>1, <1>2, <2>1, Tails DEF FarBring
<1> QED
  BY <1>11, <1>12, <1>13

LEMMA FarNext == ASSUME Ready, pc = "remote", SyncRecordStep PROVE MirrorInv'
<1>1. CASE DoDropRemote \/ DoPurgeLocal
  <2>1. plan # <<>> /\ Head(plan) \in {DropRemote, PurgeLocal}
    BY <1>1 DEF DoDropRemote, DoPurgeLocal, Step
  <2> QED
    BY <2>1, FarFacts, FarHead
<1> QED
  BY <1>1, FarArchiveStep, FarClearStep, FarDeleteStep, FarRemoveStep, FarUploadStep, FarAppendStep, FarInsertStep
  DEF SyncRecordStep

-----------------------------------------------------------------------------
(* The second phase, one step of a plan after the other.                   *)
LEMMA NearFacts ==
    ASSUME Ready, pc = "local", plan # <<>>
    PROVE  /\ Sending /\ Distinct(localdb) /\ mode = "fast" /\ localdb \in Seq(Record)
           /\ li \in DOMAIN localdb /\ li \in Nat /\ Localrec = localdb[li]
           /\ Localrec \in Record /\ Localrec.id \in Nat /\ Localrec \in Recs(localdb)
           /\ \/ plan = <<ClearLocal, UploadLocal>>
              \/ plan = <<UploadLocal>> /\ Bared
              \/ plan = <<ClearLocal, ArchiveLocal, PurgeLocal>> /\ ~ Protected(Localrec.id)
              \/ plan = <<ArchiveLocal, PurgeLocal>> /\ ~ Protected(Localrec.id)
              \/ plan = <<PurgeLocal>> /\ ~ Protected(Localrec.id)
           /\ Head(plan) \in {ClearLocal, ArchiveLocal, PurgeLocal, UploadLocal}
<1>1. /\ Sending /\ Distinct(localdb) /\ li \in DOMAIN localdb /\ Localrec \in Record
      /\ Localrec \in Recs(localdb)
  BY SendingFacts
<1>2. NearPlan
  BY <1>1 DEF Sending
<1>3. \/ plan = <<ClearLocal, UploadLocal>>
      \/ plan = <<UploadLocal>> /\ Bared
      \/ plan = <<ClearLocal, ArchiveLocal, PurgeLocal>> /\ ~ Protected(Localrec.id)
      \/ plan = <<ArchiveLocal, PurgeLocal>> /\ ~ Protected(Localrec.id)
      \/ plan = <<PurgeLocal>> /\ ~ Protected(Localrec.id)
  BY <1>2 DEF NearPlan
<1>4. Head(plan) \in {ClearLocal, ArchiveLocal, PurgeLocal, UploadLocal}
  BY <1>3, Tails
<1>5. /\ mode = "fast" /\ localdb \in Seq(Record) /\ li \in Nat
      /\ Localrec.id \in Nat /\ Localrec = localdb[li]
  BY <1>1, SessionFacts, ReadyFacts, RecordFacts DEF Localrec
<1> QED
  BY <1>1, <1>3, <1>4, <1>5

LEMMA NearHead ==
    ASSUME Ready, pc = "local", plan # <<>>
    PROVE  /\ Head(plan) = ClearLocal =>
                 \/ plan = <<ClearLocal, UploadLocal>>
                 \/ plan = <<ClearLocal, ArchiveLocal, PurgeLocal>> /\ ~ Protected(Localrec.id)
           /\ Head(plan) = ArchiveLocal => plan = <<ArchiveLocal, PurgeLocal>> /\ ~ Protected(Localrec.id)
           /\ Head(plan) = PurgeLocal => plan = <<PurgeLocal>> /\ ~ Protected(Localrec.id)
           /\ Head(plan) = UploadLocal => plan = <<UploadLocal>> /\ Bared
           /\ Head(plan) \in {ClearLocal, ArchiveLocal, PurgeLocal, UploadLocal}
<1>1. PICK h : h = Head(plan)
  OBVIOUS
<1>2. \/ h = ClearLocal /\ plan = <<ClearLocal, UploadLocal>>
      \/ h = UploadLocal /\ plan = <<UploadLocal>> /\ Bared
      \/ h = ClearLocal /\ plan = <<ClearLocal, ArchiveLocal, PurgeLocal>> /\ ~ Protected(Localrec.id)
      \/ h = ArchiveLocal /\ plan = <<ArchiveLocal, PurgeLocal>> /\ ~ Protected(Localrec.id)
      \/ h = PurgeLocal /\ plan = <<PurgeLocal>> /\ ~ Protected(Localrec.id)
  BY <1>1, NearFacts, Tails
<1> QED
  BY <1>1, <1>2 DEF ClearLocal, ArchiveLocal, PurgeLocal, UploadLocal

LEMMA NearArchiveStep == ASSUME Ready, pc = "local", DoArchive PROVE MirrorInv'
<1>1. /\ plan # <<>> /\ plan' = Tail(plan) /\ Head(plan) \in {ArchiveLocal, ArchiveRemote}
      /\ UNCHANGED <<palm, backup, pc, host, mode, opened, failed, localdb, rem, li>>
  BY DEF DoArchive, Step, NextStep, palmVars, sessVars
<1>2. plan = <<ArchiveLocal, PurgeLocal>> /\ ~ Protected(Localrec.id) /\ Sending /\ li \in DOMAIN localdb
  <2>1. ArchiveRemote \notin {ClearLocal, ArchiveLocal, PurgeLocal, UploadLocal}
    BY DEF ClearLocal, PurgeLocal, UploadLocal, ArchiveLocal, ArchiveRemote
  <2>2. Head(plan) = ArchiveLocal
    BY <1>1, <2>1, NearFacts
  <2> QED
    BY <1>1, <2>2, NearFacts, NearHead
<1>3. plan' = <<PurgeLocal>> /\ plan' # <<>>
  BY <1>1, <1>2, Tails
<1>4. AllPolite' /\ \A h \in Hosts : Paired(h)'
  BY <1>1, SafePalm, PairedStays, PoliteStays DEF Ready, MirrorInv, AllPolite
<1>5. NearPlan' /\ Guarded'
  BY <1>1, <1>2, <1>3 DEF NearPlan, Sending, Guarded, Protected, Localrec
<1>6. \A p \in Recs(palm) : Matched(p)' \/ (plan' # <<>> /\ p.id = Localrec'.id)
  BY <1>1, <1>2, <1>3 DEF Sending, Matched, Localrec
<1>7. \A j \in DOMAIN localdb : localdb[j].flags = {} /\ j # li => Backed(localdb[j])'
  BY <1>1, <1>2 DEF Sending, Backed
<1>8. \A j \in DOMAIN localdb : Passed(j)' => Present(localdb[j])'
  BY <1>1, <1>2, <1>3 DEF Sending, Passed, Present
<1>9. Sending'
  BY <1>1, <1>2, <1>3, <1>5, <1>6, <1>7, <1>8 DEF Sending
<1> QED
  BY <1>1, <1>4, <1>9, SessionFacts DEF MirrorInv, Ready, Synced

LEMMA NearClearStep == ASSUME Ready, pc = "local", DoClearLocal PROVE MirrorInv'
<1>1. /\ plan # <<>> /\ plan' = Tail(plan) /\ Head(plan) = ClearLocal
      /\ localdb' = ClearStatusFlags(localdb, li)
      /\ UNCHANGED <<palm, backup, pc, host, mode, opened, failed, rem, li>>
  BY DEF DoClearLocal, Step, NextStep, palmVars, fileVars, sessVars
<1>2. /\ Sending /\ li \in DOMAIN localdb /\ Localrec = localdb[li] /\ localdb \in Seq(Record)
      /\ \/ plan = <<ClearLocal, UploadLocal>>
         \/ plan = <<ClearLocal, ArchiveLocal, PurgeLocal>> /\ ~ Protected(Localrec.id)
  BY <1>1, NearFacts, NearHead
<1>3. PICK r \in Record :
        /\ r.id = Localrec.id /\ r.data = Localrec.data /\ r.flags = {}
        /\ DOMAIN localdb' = DOMAIN localdb /\ localdb'[li] = r
        /\ \A j \in DOMAIN localdb : j # li => localdb'[j] = localdb[j]
        /\ Recs(localdb') = {localdb[j] : j \in DOMAIN localdb \ {li}} \cup {r}
  BY <1>1, <1>2, ClearedRecs
<1>4. Localrec' = r
  BY <1>1, <1>3 DEF Localrec
<1>5. plan' # <<>> /\ NearPlan'
  <2>1. CASE plan = <<ClearLocal, UploadLocal>>
    <3>1. plan' = <<UploadLocal>> /\ plan' # <<>>
      BY <1>1, <2>1, Tails
    <3> QED
      BY <1>3, <1>4, <3>1 DEF NearPlan, Bared
  <2>2. CASE plan = <<ClearLocal, ArchiveLocal, PurgeLocal>> /\ ~ Protected(Localrec.id)
    <3>1. plan' = <<ArchiveLocal, PurgeLocal>> /\ plan' # <<>>
      BY <1>1, <2>2, Tails
    <3>2. ~ Protected(r.id)'
      BY <1>1, <1>3, <2>2 DEF Protected
    <3> QED
      BY <1>4, <3>1, <3>2 DEF NearPlan
  <2> QED
    BY <1>2, <2>1, <2>2
<1>6. \A s \in Recs(localdb') : s \in Recs(localdb) \/ s = r
  BY <1>3 DEF Recs
<1>7. Polite(r)
  BY <1>3 DEF Polite
<1>8. AllPolite' /\ \A h \in Hosts : Paired(h)'
  BY <1>1, <1>6, <1>7, SafePalm, PairedStays, PoliteStays DEF Ready, MirrorInv, AllPolite
<1>9. Guarded'
  BY <1>1, <1>2, <1>3, <1>6 DEF Sending, Guarded, Protected
<1>10. ASSUME NEW p \in Recs(palm), p.id # Localrec.id PROVE Matched(p)'
  <2>1. Matched(p)
    BY <1>2, <1>10 DEF Sending
  <2>2. \A s \in Recs(localdb) : s.id = p.id => s \in Recs(localdb')
    BY <1>2, <1>3, <1>10 DEF Recs
  <2>3. Lacks(localdb, p.id) => Lacks(localdb', p.id)
    BY <1>2, <1>3, <1>10 DEF Lacks
  <2> QED
    BY <2>1, <2>2, <2>3 DEF Matched
<1>11. \A j \in DOMAIN localdb' : localdb'[j].flags = {} /\ j # li => Backed(localdb[j])'
  BY <1>1, <1>2, <1>3 DEF Sending, Backed
<1>12. \A j \in DOMAIN localdb' : Passed(j)' => Present(localdb[j])'
  <2> SUFFICES ASSUME NEW j \in DOMAIN localdb', Passed(j)' PROVE Present(localdb[j])'
    OBVIOUS
  <2>1. j < li /\ j # li
    BY <1>1, <1>5, NearFacts, ReadyFacts, ListFacts DEF Passed
  <2>2. Present(localdb[j])
    BY <1>2, <1>3, <2>1 DEF Sending, Passed
  <2> QED
    BY <1>1, <1>3, <2>1, <2>2 DEF Present
<1>13. Sending'
  BY <1>1, <1>2, <1>3, <1>4, <1>5, <1>9, <1>10, <1>11, <1>12 DEF Sending
<1> QED
  BY <1>1, <1>8, <1>13, SessionFacts DEF MirrorInv, Ready, Synced

LEMMA NearUploadStep == ASSUME Ready, pc = "local", DoUpload PROVE MirrorInv'
<1>1. plan # <<>> /\ Head(plan) \in {UploadLocal, UploadAsNew}
  BY DEF DoUpload, Step
<1>2. /\ Sending /\ Distinct(localdb) /\ li \in DOMAIN localdb /\ Localrec = localdb[li]
      /\ Localrec \in Record /\ Localrec.id \in Nat /\ localdb \in Seq(Record) /\ li \in Nat
      /\ plan = <<UploadLocal>> /\ Bared /\ Head(plan) = UploadLocal /\ Tail(plan) = <<>>
  <2>1. UploadAsNew \notin {ClearLocal, ArchiveLocal, PurgeLocal, UploadLocal}
    BY DEF ClearLocal, PurgeLocal, UploadLocal, ArchiveLocal, UploadAsNew
  <2>2. Head(plan) = UploadLocal
    BY <1>1, <2>1, NearFacts
  <2> QED
    BY <1>1, <2>2, NearFacts, NearHead, Tails
<1>3. /\ PalmSafe /\ UNCHANGED <<backup, host, mode, opened, seen, rem, li>>
      /\ Uploaded \/ (Fail /\ UNCHANGED localdb)
  BY <1>2, UploadStep
<1>4. CASE Fail /\ UNCHANGED localdb
  BY <1>3, <1>4, FailedMirror
<1>5. CASE Uploaded
  <2>1. PICK id \in Nat, newID \in Nat, q \in Record :
          /\ id = Localrec.id
          /\ localdb' = [localdb EXCEPT ![li] = [Localrec EXCEPT !.id = newID]]
          /\ q.id = newID /\ q.data = Localrec.data /\ q.flags = {DIRTY}
          /\ Recs(palm') = {p \in Recs(palm) : p.id # newID} \cup {q}
          /\ newID = id \/ (newID = nextId /\ \A p \in Recs(palm) : p.id # id)
          /\ newID # 0
    <3>1. UploadLocal # UploadAsNew
      BY DEF UploadLocal, UploadAsNew
    <3> HIDE DEF Localrec
    <3> QED
      BY <1>2, <1>5, <3>1 DEF Uploaded
  <2>2. PICK r \in Record :
          /\ DOMAIN localdb' = DOMAIN localdb /\ localdb'[li] = r
          /\ \A j \in DOMAIN localdb : j # li => localdb'[j] = localdb[j]
          /\ r.id = newID /\ r.data = Localrec.data /\ r.flags = {}
    <3>1. localdb' = [localdb EXCEPT ![li] = [localdb[li] EXCEPT !.id = newID]]
      BY <1>2, <2>1
    <3>2. PICK new : new = [localdb EXCEPT ![li] = [localdb[li] EXCEPT !.id = newID]]
      OBVIOUS
    <3>3. /\ DOMAIN new = DOMAIN localdb /\ \A j \in DOMAIN localdb : j # li => new[j] = localdb[j]
          /\ new[li].id = newID /\ new[li].data = localdb[li].data /\ new[li].flags = localdb[li].flags
          /\ new[li] \in Record
      BY <1>2, <3>2, RenamedRecs
    <3> QED
      BY <1>2, <3>1, <3>2, <3>3 DEF Bared
  <2>3. IsLive(q) /\ q \in Recs(palm') /\ r \in Recs(localdb')
    <3>1. IsLive(q)
      BY <2>1 DEF IsLive, DIRTY, DELETED, ARCHIVE, EXPUNGED
    <3>2. q \in Recs(palm') /\ r \in Recs(localdb')
      BY <1>2, <2>1, <2>2 DEF Recs
    <3> QED
      BY <3>1, <3>2
  <2>4. plan' = <<>> /\ UNCHANGED <<pc, failed>>
    BY <1>2, <1>5 DEF Uploaded
  <2>5. /\ \A p \in Recs(palm) : p.id # newID => p \in Recs(palm')
        /\ \A p \in Recs(palm') : p = q \/ (p \in Recs(palm) /\ p.id # newID)
    BY <2>1
  <2>6. \A s \in Recs(localdb') : s = r \/ s \in Recs(localdb)
    BY <2>2 DEF Recs
  <2>7. AllPolite' /\ \A h \in Hosts : Paired(h)'
    <3>1. Polite(r)
      BY <2>2 DEF Polite
    <3> QED
      BY <1>3, <2>4, <2>6, <3>1, PairedStays, PoliteStays DEF Ready, MirrorInv, AllPolite
  <2>8. Guarded'
    BY <1>2, <1>3, <2>2, <2>6 DEF Sending, Guarded, Protected
  <2>9. ASSUME NEW p \in Recs(palm') PROVE Matched(p)'
    <3>1. CASE p = q
      BY <2>1, <2>2, <2>3, <3>1 DEF Matched
    <3>2. CASE p # q
      <4>1. p \in Recs(palm) /\ p.id # newID /\ p.id # Localrec.id
        BY <2>1, <2>5, <3>2
      <4>2. Matched(p)
        BY <1>2, <4>1 DEF Sending
      <4>3. \A s \in Recs(localdb) : s.id = p.id => s \in Recs(localdb')
        BY <1>2, <2>2, <4>1 DEF Recs
      <4>4. Lacks(localdb, p.id) => Lacks(localdb', p.id)
        BY <1>2, <2>2, <4>1 DEF Lacks
      <4> QED
        BY <4>2, <4>3, <4>4 DEF Matched
    <3> QED
      BY <3>1, <3>2
  <2>10. ASSUME NEW j \in DOMAIN localdb', localdb'[j].flags = {} PROVE Backed(localdb[j])'
    <3>1. CASE j = li
      BY <2>1, <2>2, <2>3, <3>1 DEF Backed
    <3>2. CASE j # li
      <4>1. PICK p \in Recs(palm) : p.id = localdb[j].id
        BY <1>2, <2>2, <2>10, <3>2 DEF Sending, Backed
      <4> QED
        BY <2>1, <2>2, <2>3, <2>5, <3>2, <4>1 DEF Backed
    <3> QED
      BY <3>1, <3>2
  <2>11. ASSUME NEW j \in DOMAIN localdb', Passed(j)' PROVE Present(localdb[j])'
    <3>1. CASE j = li
      BY <2>1, <2>2, <2>3, <3>1 DEF Present
    <3>2. CASE j # li
      <4>1. Passed(j)
        BY <1>3, <2>11, <3>2 DEF Passed
      <4>2. PICK p \in Recs(palm) : IsLive(p) /\ p.id = localdb[j].id /\ p.data = localdb[j].data
        BY <1>2, <2>2, <4>1 DEF Sending, Present
      <4>3. localdb[j].flags = {}
        BY <1>2, <2>2, <4>1 DEF Sending, Present
      <4>4. p.id # newID
        <5>1. p.id # Localrec.id
          BY <1>2, <2>2, <3>2, <4>2, ReadyFacts DEF Distinct
        <5>2. p.id # nextId
          BY <4>2, ReadyFacts, RecordFacts
        <5> QED
          BY <2>1, <5>1, <5>2
      <4> QED
        BY <2>2, <2>5, <3>2, <4>2, <4>3, <4>4 DEF Present
    <3> QED
      BY <3>1, <3>2
  <2>12. Sending'
    BY <2>4, <2>8, <2>9, <2>10, <2>11 DEF Sending
  <2> QED
    BY <1>3, <2>4, <2>7, <2>12, SessionFacts DEF MirrorInv, Ready, Synced
<1> QED
  BY <1>3, <1>4, <1>5

LEMMA NearPurgeStep == ASSUME Ready, pc = "local", DoPurgeLocal PROVE MirrorInv'
<1>1. /\ plan # <<>> /\ Head(plan) = PurgeLocal
      /\ UNCHANGED <<backup, host, mode, opened, rem>>
  BY DEF DoPurgeLocal, Step, fileVars
<1>2. /\ Sending /\ Distinct(localdb) /\ li \in DOMAIN localdb /\ Localrec = localdb[li]
      /\ Localrec \in Record /\ Localrec.id \in Nat /\ localdb \in Seq(Record) /\ li \in Nat
      /\ plan = <<PurgeLocal>> /\ ~ Protected(Localrec.id)
  BY <1>1, NearFacts, NearHead
<1>3. Tail(plan) = <<>>
  BY <1>2, Tails
<1>4. PICK id \in Nat : id = Localrec.id
  BY <1>2
<1>5. /\ ~ Refused /\ ~ NotWritable
      /\ \/ Remove(id) /\ Unlink /\ plan' = <<>> /\ UNCHANGED <<pc, failed>>
         \/ Lost(Remove(id) /\ UNCHANGED nextId) /\ GiveUp /\ UNCHANGED <<localdb, li>>
  <2>1. ~ Refused /\ ~ NotWritable
    BY CallsEnd
  <2> QED
    BY <1>2, <1>3, <1>4, <2>1 DEF DoPurgeLocal, NextStep
<1>6. CASE Lost(Remove(id) /\ UNCHANGED nextId) /\ GiveUp /\ UNCHANGED localdb
  <2>1. Fail
    BY <1>6, CallsEnd
  <2>2. CASE UNCHANGED palm
    BY <1>1, <1>6, <2>1, <2>2, SafePalm, FailedMirror
  <2>3. CASE Remove(id)
    BY <1>1, <1>2, <1>4, <1>6, <2>1, <2>3, RemoveSafe, FailedMirror
  <2> QED
    BY <1>6, <2>2, <2>3 DEF Lost
<1>7. CASE Remove(id) /\ Unlink /\ plan' = <<>> /\ UNCHANGED <<pc, failed>>
  <2>1. Recs(palm') = {p \in Recs(palm) : p.id # id} /\ PalmSafe
    BY <1>2, <1>4, <1>7, RemoveSafe
  <2>2. ASSUME NEW j \in DOMAIN localdb, j < li
        PROVE  /\ localdb[j].id # id
               /\ \E p \in Recs(palm) : /\ IsLive(p) /\ p.id = localdb[j].id /\ p.data = localdb[j].data
                                        /\ p \in Recs(palm')
               /\ localdb[j].flags = {}
    <3>1. Present(localdb[j])
      BY <1>2, <2>2 DEF Sending, Passed
    <3>2. PICK p \in Recs(palm) : IsLive(p) /\ p.id = localdb[j].id /\ p.data = localdb[j].data
      BY <3>1 DEF Present
    <3>3. j # li
      BY <1>2, <2>2
    <3>4. localdb[j].id # id
      BY <1>2, <1>4, <3>2, <3>3, ReadyFacts DEF Distinct
    <3> QED
      BY <2>1, <3>1, <3>2, <3>4 DEF Present
  <2>3. \A j \in DOMAIN localdb : localdb[j].id = localdb[li].id => li <= j
    <3> SUFFICES ASSUME NEW j \in DOMAIN localdb, localdb[j].id = localdb[li].id PROVE li <= j
      OBVIOUS
    <3>1. ~ (j < li)
      BY <1>2, <1>4, <2>2
    <3> QED
      BY <1>2, <3>1, ListFacts
  <2>4. localdb' = DeleteRecordByID(localdb, localdb[li].id) /\ li' = li - 1
    BY <1>7 DEF Unlink
  <2>5. PICK w : w = Without(localdb, li)
    OBVIOUS
  <2>6. /\ localdb' = w
        /\ \A j \in DOMAIN w : \/ j < li /\ j \in DOMAIN localdb \ {li} /\ w[j] = localdb[j]
                               \/ j >= li /\ j + 1 \in DOMAIN localdb \ {li} /\ w[j] = localdb[j + 1]
        /\ \A j \in DOMAIN localdb \ {li} : \E k \in DOMAIN w : w[k] = localdb[j]
    <3>1. localdb' = w
      BY <1>2, <2>3, <2>4, <2>5, UnlinkFirst
    <3> QED
      BY <1>2, <2>5, <3>1, WithoutRecs
  <2>7. \A s \in Recs(localdb') : s \in Recs(localdb)
    BY <2>6 DEF Recs
  <2>8. \A s \in Recs(localdb) : s.id # id => s \in Recs(localdb')
    BY <1>2, <1>4, <2>6 DEF Recs
  <2>9. AllPolite' /\ \A h \in Hosts : Paired(h)'
    BY <1>1, <2>1, <2>7, PairedStays, PoliteStays DEF Ready, MirrorInv, AllPolite
  <2>10. Guarded'
    BY <1>1, <1>2, <2>7 DEF Sending, Guarded, Protected
  <2>11. ASSUME NEW p \in Recs(palm') PROVE Matched(p)'
    <3>1. p \in Recs(palm) /\ p.id # id
      BY <2>1
    <3>2. Matched(p)
      BY <1>2, <1>4, <3>1 DEF Sending
    <3>3. \A s \in Recs(localdb) : s.id = p.id => s \in Recs(localdb')
      BY <2>8, <3>1
    <3>4. Lacks(localdb, p.id) => Lacks(localdb', p.id)
      BY <2>7 DEF Lacks, Recs
    <3> QED
      BY <3>2, <3>3, <3>4 DEF Matched
  <2>12. ASSUME NEW k \in DOMAIN localdb \ {li}, localdb[k].flags = {}
         PROVE  \E p \in Recs(palm') : p.id = localdb[k].id
    <3>1. PICK p \in Recs(palm) : p.id = localdb[k].id
      BY <1>2, <2>12 DEF Sending, Backed
    <3>2. p.id # id
      BY <1>2, <1>4, <3>1, ReadyFacts DEF Distinct
    <3> QED
      BY <2>1, <3>1, <3>2
  <2>13. \A j \in DOMAIN localdb' : localdb'[j].flags = {} => Backed(localdb[j])'
    BY <2>6, <2>12 DEF Backed
  <2>14. ASSUME NEW j \in DOMAIN localdb', Passed(j)' PROVE Present(localdb[j])'
    <3>1. j \in Nat
      BY ReadyFacts, ListFacts
    <3>2. j < li
      BY <1>2, <2>4, <2>14, <3>1 DEF Passed
    <3>3. j \in DOMAIN localdb /\ localdb'[j] = localdb[j]
      BY <1>2, <2>6, <3>1, <3>2
    <3> QED
      BY <2>2, <3>2, <3>3 DEF Present
  <2>15. Sending'
    BY <1>7, <2>10, <2>11, <2>13, <2>14 DEF Sending
  <2> QED
    BY <1>1, <1>7, <2>9, <2>15, SessionFacts DEF MirrorInv, Ready, Synced
<1> QED
  BY <1>5, <1>6, <1>7

LEMMA NearNext == ASSUME Ready, pc = "local", SyncRecordStep PROVE MirrorInv'
<1>1. CASE DoDeleteLocal \/ DoAppendRemote \/ DoInsertRemote \/ DoDropRemote \/ DoDeleteRemote
  <2>1. plan # <<>> /\ Head(plan) \in {DeleteLocal, AppendRemote, AppendUnclean, InsertRemote, DropRemote, DeleteRemote}
    BY <1>1 DEF DoDeleteLocal, DoAppendRemote, DoInsertRemote, DoDropRemote, DoDeleteRemote, Step
  <2>2. {DeleteLocal, AppendRemote, AppendUnclean, InsertRemote, DropRemote, DeleteRemote}
           \cap {ClearLocal, ArchiveLocal, PurgeLocal, UploadLocal} = {}
    BY DEF ClearLocal, ArchiveLocal, DeleteLocal, DropRemote, DeleteRemote, PurgeLocal,
           UploadLocal, AppendRemote, AppendUnclean, InsertRemote
  <2> QED
    BY <2>1, <2>2, NearFacts
<1> QED
  BY <1>1, NearArchiveStep, NearClearStep, NearUploadStep, NearPurgeStep DEF SyncRecordStep

-----------------------------------------------------------------------------
(* The end of a sync.                                                      *)
LEMMA WriteMirror == ASSUME Ready, WriteBackup PROVE MirrorInv'
<1>1. /\ pc = "write" /\ SameLive(localdb) /\ plan = <<>>
      /\ UNCHANGED <<palm, host, mode, opened, localdb, rem>>
  BY DEF WriteBackup, Ready, MirrorInv, Inductive, SessionInv, palmVars, workVars
<1>2. CASE UNCHANGED backup /\ Fail
  BY <1>1, <1>2, SafePalm, FailedMirror
<1>3. CASE backup' = [backup EXCEPT ![host] = localdb] /\ pc' = "cleanup"
  <2>1. /\ host \in Hosts /\ \A h \in Hosts : h = host
        /\ localdb \in Seq(Record) /\ palm \in Seq(Record)
    BY <1>1, SessionFacts, ReadyFacts
  <2>2. backup'[host] = localdb
    BY <1>3, <2>1 DEF Ready, Inductive, TypeOK
  <2>3. \A r \in Recs(localdb) : r.flags = {} /\ Polite(r)
    BY <1>1 DEF SameLive, AllClean, Recs, Polite
  <2>4. AllPolite'
    BY <1>1, <2>1, <2>2, <2>3 DEF Ready, MirrorInv, AllPolite
  <2>5. SameLive(backup[host])'
    BY <1>1, <2>2 DEF SameLive
  <2>6. ASSUME NEW p \in Recs(palm), p.flags = {} PROVE \E r \in Recs(localdb) : r.id = p.id
    <3>1. IsLive(p)
      BY <2>6 DEF IsLive
    <3>2. <<p.id, p.data>> \in Live(localdb)
      BY <1>1, <2>1, <3>1, LiveRecs DEF SameLive
    <3> QED
      BY <2>1, <3>2, LiveRecs
  <2>7. ASSUME NEW r \in Recs(localdb) PROVE \E p \in Recs(palm) : p.id = r.id /\ p.data = r.data
    <3>1. IsLive(r)
      BY <2>3 DEF IsLive
    <3>2. <<r.id, r.data>> \in Live(palm)
      BY <1>1, <2>1, <3>1, LiveRecs DEF SameLive
    <3> QED
      BY <2>1, <3>2, LiveRecs
  <2>8. \A h \in Hosts : Paired(h)'
    BY <1>1, <2>1, <2>2, <2>6, <2>7 DEF Paired
  <2> QED
    BY <1>1, <1>3, <2>4, <2>5, <2>8, SessionFacts DEF MirrorInv, Ready, Synced
<1> QED
  BY <1>2, <1>3 DEF WriteBackup

(* Once the file is what the Palm has, purging the Palm takes nothing      *)
(* that is in it, and takes nothing away that is live.                     *)
LEMMA PurgeSafe ==
    ASSUME Ready, pc # "idle", SameLive(backup[host]), CleanUp, UNCHANGED <<backup, host>>
    PROVE  PalmSafe /\ SameLive(backup[host])'
<1>1. palm \in Seq(Record) /\ palm' \in Seq(Record) /\ backup[host] \in Seq(Record)
  BY ReadyFacts, SessionFacts
<1>2. Recs(palm') = {r \in Recs(palm) : IsLive(r)}
  BY <1>1, PurgedRecs DEF CleanUp
<1>3. ASSUME NEW p \in Recs(palm), ~ IsLive(p) PROVE ~ Protected(p.id)
  <2>1. ASSUME NEW r \in Recs(backup[host]), r.flags = {}, r.id = p.id PROVE FALSE
    <3>1. IsLive(r)
      BY <2>1 DEF IsLive
    <3>2. <<r.id, r.data>> \in Live(palm)
      BY <1>1, <3>1, LiveRecs DEF SameLive
    <3>3. PICK q \in Recs(palm) : IsLive(q) /\ <<r.id, r.data>> = <<q.id, q.data>>
      BY <1>1, <3>2, LiveRecs
    <3>4. q = p
      BY <2>1, <3>3, ReadyFacts
    <3> QED
      BY <1>3, <3>3, <3>4
  <2> QED
    BY <2>1 DEF Protected
<1>4. Live(palm') = Live(palm)
  <2>1. \A x : x \in Live(palm') <=> x \in Live(palm)
    BY <1>1, <1>2, LiveRecs
  <2> QED
    <3>1. Live(palm') \subseteq Live(palm) /\ Live(palm) \subseteq Live(palm')
      BY <2>1
    <3> QED
      BY <3>1
<1>5. SameLive(backup[host])'
  BY <1>4 DEF SameLive
<1> QED
  BY <1>2, <1>3, <1>5 DEF PalmSafe

LEMMA CleanUpMirror == ASSUME Ready, CleanUpDatabase PROVE MirrorInv'
<1>1. /\ pc = "cleanup" /\ SameLive(backup[host]) /\ plan = <<>>
      /\ UNCHANGED <<backup, host, mode, opened, localdb, rem>>
  BY DEF CleanUpDatabase, Ready, MirrorInv, Inductive, SessionInv, fileVars, workVars
<1>2. ~ Refused /\ ~ NotWritable
  BY <1>1, CallsEnd
<1>3. CASE Lost(CleanUp /\ UNCHANGED nextId) /\ Fail
  <2>1. CASE UNCHANGED palm
    BY <1>1, <1>3, <2>1, SafePalm, FailedMirror
  <2>2. CASE CleanUp
    BY <1>1, <1>3, <2>2, PurgeSafe, FailedMirror
  <2> QED
    BY <1>3, <2>1, <2>2 DEF Lost
<1>4. CASE CleanUp /\ pc' = "reset"
  <2>1. PalmSafe /\ SameLive(backup[host])'
    BY <1>1, <1>4, PurgeSafe
  <2>2. AllPolite' /\ \A h \in Hosts : Paired(h)'
    BY <1>1, <2>1, PairedStays, PoliteStays DEF Ready, MirrorInv, AllPolite
  <2> QED
    BY <1>1, <1>4, <2>1, <2>2, SessionFacts DEF MirrorInv, Ready, Synced
<1> QED
  BY <1>2, <1>3, <1>4 DEF CleanUpDatabase

(* The dirty bits of the Palm go once the file is what the Palm has.       *)
LEMMA ResetSafe ==
    ASSUME Ready, pc # "idle", SameLive(backup[host]), ResetFlags,
           UNCHANGED <<backup, host, localdb, rem>>
    PROVE  AllPolite' /\ (\A h \in Hosts : Paired(h)') /\ SameLive(backup[host])'
<1>1. palm \in Seq(Record) /\ palm' \in Seq(Record) /\ backup[host] \in Seq(Record)
  BY ReadyFacts, SessionFacts
<1>2. /\ \A q \in Recs(palm') : \E p \in Recs(palm) :
            q.id = p.id /\ q.data = p.data /\ q.flags = p.flags \ {DIRTY}
      /\ \A p \in Recs(palm) : \E q \in Recs(palm') : q.id = p.id /\ q.data = p.data
  BY <1>1, ResetRecs
<1>3. \A p \in Recs(palm), q \in Recs(palm') :
         q.id = p.id => q.data = p.data /\ q.flags = p.flags \ {DIRTY}
  <2> SUFFICES ASSUME NEW p \in Recs(palm), NEW q \in Recs(palm'), q.id = p.id
               PROVE  q.data = p.data /\ q.flags = p.flags \ {DIRTY}
    OBVIOUS
  <2>1. PICK s \in Recs(palm) : q.id = s.id /\ q.data = s.data /\ q.flags = s.flags \ {DIRTY}
    BY <1>2
  <2>2. s = p
    BY <2>1, ReadyFacts
  <2> QED
    BY <2>1, <2>2
<1>4. DIRTY \notin {DELETED, ARCHIVE, EXPUNGED}
  BY DEF DIRTY, DELETED, ARCHIVE, EXPUNGED
<1>5. Live(palm') = Live(palm)
  <2>1. ASSUME NEW x \in Live(palm') PROVE x \in Live(palm)
    <3>1. PICK q \in Recs(palm') : IsLive(q) /\ x = <<q.id, q.data>>
      BY <1>1, LiveRecs
    <3>2. PICK p \in Recs(palm) : q.id = p.id /\ q.data = p.data /\ q.flags = p.flags \ {DIRTY}
      BY <1>2
    <3>3. IsLive(p)
      BY <1>4, <3>1, <3>2 DEF IsLive
    <3> QED
      BY <1>1, <3>1, <3>2, <3>3, LiveRecs
  <2>2. ASSUME NEW x \in Live(palm) PROVE x \in Live(palm')
    <3>1. PICK p \in Recs(palm) : IsLive(p) /\ x = <<p.id, p.data>>
      BY <1>1, LiveRecs
    <3>2. PICK q \in Recs(palm') : q.id = p.id /\ q.data = p.data
      BY <1>2
    <3>3. IsLive(q)
      BY <1>3, <3>1, <3>2 DEF IsLive
    <3> QED
      BY <1>1, <3>1, <3>2, <3>3, LiveRecs
  <2> QED
    <3>1. Live(palm') \subseteq Live(palm) /\ Live(palm) \subseteq Live(palm')
      BY <2>1, <2>2
    <3> QED
      BY <3>1
<1>6. SameLive(backup[host])'
  BY <1>5 DEF SameLive
<1>7. AllPolite'
  <2>1. ASSUME NEW q \in Recs(palm') PROVE Polite(q)
    <3>1. PICK p \in Recs(palm) : q.flags = p.flags \ {DIRTY}
      BY <1>2
    <3>2. Polite(p)
      BY DEF Ready, MirrorInv, AllPolite
    <3> QED
      BY <1>4, <3>1, <3>2 DEF Polite
  <2> QED
    BY <2>1 DEF Ready, MirrorInv, AllPolite
<1>8. ASSUME NEW q \in Recs(palm'), q.flags = {} PROVE \E r \in Recs(backup[host]) : r.id = q.id
  <2>1. IsLive(q)
    BY <1>8 DEF IsLive
  <2>2. <<q.id, q.data>> \in Live(backup[host])
    BY <1>1, <1>5, <2>1, LiveRecs DEF SameLive
  <2> QED
    BY <1>1, <2>2, LiveRecs
<1>9. ASSUME NEW r \in Recs(backup[host]) PROVE \E q \in Recs(palm') : q.id = r.id /\ q.data = r.data
  <2>1. r.flags = {}
    BY DEF SameLive, AllClean, Recs
  <2>2. IsLive(r)
    BY <2>1 DEF IsLive
  <2>3. <<r.id, r.data>> \in Live(palm')
    BY <1>1, <1>5, <2>2, LiveRecs DEF SameLive
  <2> QED
    BY <1>1, <2>3, LiveRecs
<1>10. \A h \in Hosts : Paired(h)'
  BY <1>8, <1>9, SessionFacts DEF Paired
<1> QED
  BY <1>6, <1>7, <1>10

LEMMA ResetMirror == ASSUME Ready, ResetSyncFlags PROVE MirrorInv'
<1>1. /\ pc = "reset" /\ SameLive(backup[host]) /\ plan = <<>> /\ ~ opened /\ pc' = "userinfo"
      /\ UNCHANGED <<backup, host, mode, opened, localdb, rem>>
  BY SessionFacts DEF ResetSyncFlags, Ready, MirrorInv, Inductive, SessionInv, fileVars, workVars, Fail
<1>2. ~ Refused
  BY <1>1, CallsEnd
<1>3. ResetFlags \/ (UNCHANGED palm /\ Fail)
  BY <1>1, <1>2 DEF ResetSyncFlags, Lost
<1>4. CASE UNCHANGED palm /\ Fail
  BY <1>1, <1>4, SafePalm, FailedMirror
<1>5. CASE ResetFlags
  <2>1. AllPolite' /\ (\A h \in Hosts : Paired(h)') /\ SameLive(backup[host])'
    BY <1>1, <1>5, ResetSafe
  <2> QED
    BY <1>1, <2>1 DEF MirrorInv, Ready, Synced
<1> QED
  BY <1>3, <1>4, <1>5

LEMMA EndMirror ==
    ASSUME Ready, EndSession, UNCHANGED <<palm, backup>>
    PROVE  MirrorInv'
<1>1. /\ pc' = "idle" /\ plan' = <<>> /\ seen' = {} /\ li' = 0 /\ localdb' = <<>> /\ rem' = NoRec
  BY DEF EndSession
<1>2. Recs(localdb') = {} /\ Polite(rem')
  BY <1>1 DEF Recs, Polite, NoRec, Rec
<1>3. AllPolite' /\ \A h \in Hosts : Paired(h)'
  BY <1>2 DEF Ready, MirrorInv, AllPolite, Paired
<1> QED
  BY <1>1, <1>3 DEF MirrorInv, Ready, Synced

LEMMA StartMirror == ASSUME Ready, NEW h \in Hosts, StartSync(h) PROVE MirrorInv'
<1>1. /\ pc = "idle" /\ pc' = "open" /\ opened' \in OpenOnPalm
      /\ UNCHANGED <<palm, backup, localdb, rem, plan, seen, li>>
  BY DEF StartSync, palmVars, fileVars, workVars
<1>2. opened' = FALSE
  BY <1>1, ConstantsAssumption DEF Ready, FastDesktop, OrdinaryUse
<1>3. AllPolite' /\ \A g \in Hosts : Paired(g)'
  BY <1>1 DEF Ready, MirrorInv, AllPolite, Paired
<1> QED
  BY <1>1, <1>2, <1>3 DEF MirrorInv, Ready, Synced

LEMMA EarlyMirror == ASSUME Ready, OpenFails \/ ReadFails PROVE MirrorInv'
<1>1. /\ pc # "idle" /\ Fail /\ UNCHANGED <<palm, backup, opened, localdb, rem>>
  BY DEF OpenFails, ReadFails, Refused, Lost, fileVars, workVars
<1> QED
  BY <1>1, SafePalm, FailedMirror

LEMMA SyncMirror ==
    ASSUME Ready, SyncStep \/ Cancel \/ Crash \/ (\E h \in Hosts : StartSync(h))
    PROVE  MirrorInv'
<1>1. CASE NextRemoteSlow
  BY <1>1, SessionFacts DEF NextRemoteSlow
<1>2. CASE SyncRecordStep
  <2>1. pc \in {"remote", "local"}
    <3>1. plan # <<>>
      BY <1>2 DEF SyncRecordStep, DoArchive, DoClearLocal, DoDeleteLocal, DoAppendRemote, DoInsertRemote,
         DoDropRemote, DoDeleteRemote, DoPurgeLocal, DoUpload, Step
    <3> QED
      BY <3>1 DEF Ready, Inductive, SessionInv
  <2> QED
    BY <1>2, <2>1, FarNext, NearNext
<1>3. CASE Cancel \/ Crash \/ UpdateUserInfo
  BY <1>3, EndMirror DEF Cancel, Crash, UpdateUserInfo, palmVars, fileVars
<1> QED
  BY <1>1, <1>2, <1>3, OpenMirror, EarlyMirror, NextRemoteMirror, RemoteDoneMirror, NextLocalMirror,
     LocalDoneMirror, WriteMirror, CleanUpMirror, ResetMirror, StartMirror
  DEF SyncStep

-----------------------------------------------------------------------------
(* The user's edits: one record more, or another one, and it is marked.    *)
PalmTouched ==
    /\ UNCHANGED backup
    /\ \E q \in Record : /\ q.flags # {} /\ Polite(q)
                         /\ Recs(palm') = {p \in Recs(palm) : p.id # q.id} \cup {q}
FileTouched ==
    /\ UNCHANGED palm
    /\ \E h \in Hosts, file \in Seq(Record), q \in Record :
          /\ backup[h] # NoFile /\ backup' = [backup EXCEPT ![h] = file]
          /\ q.flags # {} /\ Polite(q)
          /\ \A r \in Recs(file) : r = q \/ r \in Recs(backup[h])
          /\ \A r \in Recs(backup[h]) : \E s \in Recs(file) : s.id = r.id

Edges == FastDesktop /\ Inductive /\ IdsInv /\ MirrorInv /\ Inductive' /\ IdsInv'

LEMMA EdgesFacts ==
    ASSUME Edges
    PROVE  /\ palm \in Seq(Record) /\ PalmIds /\ nextId \in Nat /\ Version \in Nat
           /\ \A p \in Recs(palm) : p \in Record /\ Polite(p) /\ p.id # nextId
           /\ \A h \in Hosts : backup[h] # NoFile =>
                 backup[h] \in Seq(Record) /\ \A r \in Recs(backup[h]) : r \in Record /\ Polite(r)
<1>1. /\ palm \in Seq(Record) /\ PalmIds /\ nextId \in Nat
      /\ \A h \in Hosts : backup[h] # NoFile => backup[h] \in Seq(Record)
  BY DEF Edges, Inductive, TypeOK, IdsInv
<1>2. Version \in Nat
  BY ConstantsAssumption DEF Edges, Inductive, TypeOK, Version
<1>3. AllPolite
  BY DEF Edges, MirrorInv
<1>4. \A p \in Recs(palm) : p \in Record /\ Polite(p) /\ p.id # nextId
  <2> SUFFICES ASSUME NEW p \in Recs(palm) PROVE p \in Record /\ Polite(p) /\ p.id # nextId
    OBVIOUS
  <2>1. p \in Record /\ p.id \in Nat /\ p.id < nextId
    BY <1>1, ListFacts, RecordFacts DEF PalmIds, Assigned
  <2> QED
    BY <1>1, <1>3, <2>1 DEF AllPolite
<1>5. \A h \in Hosts : backup[h] # NoFile => \A r \in Recs(backup[h]) : r \in Record /\ Polite(r)
  BY <1>1, <1>3, ListFacts DEF AllPolite
<1> QED
  BY <1>1, <1>2, <1>4, <1>5

LEMMA PalmTouch ==
    ASSUME Edges, UNCHANGED backup, NEW i \in DOMAIN palm, NEW q \in Record, q.id = palm[i].id,
           q.flags # {}, Polite(q), palm' = [palm EXCEPT ![i] = q]
    PROVE  PalmTouched
<1>1. Recs(palm') = {p \in Recs(palm) : p.id # q.id} \cup {q}
  BY EdgesFacts, PalmChanged
<1> QED
  BY <1>1 DEF PalmTouched

LEMMA FileTouch ==
    ASSUME Edges, UNCHANGED palm, NEW h \in Hosts, backup[h] # NoFile,
           NEW i \in DOMAIN backup[h], NEW q \in Record, q.id = backup[h][i].id,
           q.flags # {}, Polite(q), backup' = [backup EXCEPT ![h] = [backup[h] EXCEPT ![i] = q]]
    PROVE  FileTouched
<1>1. PICK db \in Seq(Record) : db = backup[h]
  BY EdgesFacts
<1>2. PICK file : file = [db EXCEPT ![i] = q]
  OBVIOUS
<1>3. file \in Seq(Record)
  BY <1>1, <1>2, ExceptSeq
<1>4. Recs(file) = {db[j] : j \in DOMAIN db \ {i}} \cup {q}
  BY <1>1, <1>2, ChangeRecs
<1>5. /\ \A r \in Recs(file) : r = q \/ r \in Recs(db)
      /\ \A r \in Recs(db) : r \in Recs(file) \/ r = db[i]
      /\ q \in Recs(file)
  BY <1>4 DEF Recs
<1>6. \A r \in Recs(db) : \E s \in Recs(file) : s.id = r.id
  BY <1>1, <1>5
<1>7. backup' = [backup EXCEPT ![h] = file]
  BY <1>1, <1>2
<1> QED
  BY <1>1, <1>3, <1>5, <1>6, <1>7 DEF FileTouched

(* The marks the user's programs set.                                      *)
EditFlags ==
    ArchiveMarks \cup ExpungeMarks \cup {{DIRTY}, {DELETED, ARCHIVE}, {DELETED, EXPUNGED}}
LEMMA EditMarks ==
    ASSUME Edges, NEW old \in Record, Polite(old), IsLive(old), NEW marks \in EditFlags
    PROVE  \E f \in SUBSET Flags :
              /\ f = old.flags \cup marks /\ f # {}
              /\ f \subseteq {DIRTY} \/ {DELETED, ARCHIVE} \subseteq f \/ EXPUNGED \in f
<1>1. old.flags \subseteq {DIRTY} /\ old.flags \subseteq Flags
  BY PoliteFacts, RecordFacts
<1>2. /\ \A m \in ArchiveMarks : m \subseteq Flags /\ {DELETED, ARCHIVE} \subseteq m
      /\ \A m \in ExpungeMarks : m \subseteq Flags /\ EXPUNGED \in m
  BY ConstantsAssumption DEF Edges, FastDesktop, OrdinaryUse
<1>3. PICK f : f = old.flags \cup marks
  OBVIOUS
<1>4. marks \subseteq Flags /\ marks # {}
  BY <1>2 DEF Flags, EditFlags
<1>5. f \in SUBSET Flags /\ f # {}
  BY <1>1, <1>3, <1>4
<1>6. f \subseteq {DIRTY} \/ {DELETED, ARCHIVE} \subseteq f \/ EXPUNGED \in f
  BY <1>1, <1>2, <1>3 DEF EditFlags
<1> QED
  BY <1>3, <1>5, <1>6

LEMMA PalmTouches ==
    ASSUME Edges, NEW i \in DOMAIN palm, PalmEdit(i) \/ PalmArchive(i) \/ PalmExpunge(i)
    PROVE  PalmTouched
<1>1. PICK old \in Record : old = palm[i] /\ Polite(old) /\ IsLive(old)
  <2>1. palm[i] \in Record /\ palm[i] \in Recs(palm)
    BY EdgesFacts, ListFacts
  <2> QED
    BY <2>1, EdgesFacts DEF PalmEdit, PalmArchive, PalmExpunge
<1>2. UNCHANGED backup
  BY DEF PalmEdit, PalmArchive, PalmExpunge, fileVars
<1>3. PICK marks \in EditFlags, d \in Nat :
        palm' = [palm EXCEPT ![i] = [old EXCEPT !.data = d, !.flags = old.flags \cup marks]]
  <2>1. CASE PalmEdit(i)
    BY <1>1, <2>1, EdgesFacts DEF PalmEdit, EditFlags
  <2>2. CASE PalmArchive(i)
    <3>1. PICK marks \in ArchiveMarks : palm' = [palm EXCEPT ![i] = [old EXCEPT !.flags = old.flags \cup marks]]
      BY <1>1, <2>2 DEF PalmArchive
    <3>2. old.data \in Nat
      BY RecordFacts
    <3>3. [old EXCEPT !.flags = old.flags \cup marks] = [old EXCEPT !.data = old.data, !.flags = old.flags \cup marks]
      BY DEF Record
    <3> QED
      BY <3>1, <3>2, <3>3 DEF EditFlags
  <2>3. CASE PalmExpunge(i)
    <3>1. PICK marks \in ExpungeMarks : palm' = [palm EXCEPT ![i] = [old EXCEPT !.data = 0, !.flags = old.flags \cup marks]]
      BY <1>1, <2>3 DEF PalmExpunge
    <3> QED
      BY <3>1 DEF EditFlags
  <2> QED
    BY <2>1, <2>2, <2>3
<1>4. PICK f \in SUBSET Flags : /\ f = old.flags \cup marks /\ f # {}
                                /\ f \subseteq {DIRTY} \/ {DELETED, ARCHIVE} \subseteq f \/ EXPUNGED \in f
  <2>1. marks \in EditFlags /\ old \in Record /\ Polite(old) /\ IsLive(old) /\ Edges
    BY <1>1
  <2> QED
    BY <2>1, EditMarks
<1>5. PICK q \in Record : q = [old EXCEPT !.data = d, !.flags = f] /\ q.id = old.id /\ q.flags = f
  <2>1. [old EXCEPT !.data = d, !.flags = f] \in Record
    BY DEF Record
  <2> QED
    BY <2>1 DEF Record
<1>6. palm' = [palm EXCEPT ![i] = q] /\ Polite(q)
  BY <1>3, <1>4, <1>5 DEF Polite
<1> QED
  BY <1>1, <1>2, <1>4, <1>5, <1>6, PalmTouch

LEMMA FileTouches ==
    ASSUME Edges, NEW h \in Hosts, backup[h] # NoFile, NEW i \in DOMAIN backup[h],
           DesktopEdit(h, i) \/ DesktopArchive(h, i) \/ DesktopExpunge(h, i)
    PROVE  FileTouched
<1>1. PICK db \in Seq(Record) : db = backup[h]
  BY EdgesFacts
<1>2. PICK old \in Record : old = db[i] /\ Polite(old) /\ IsLive(old)
  <2>1. db[i] \in Record /\ db[i] \in Recs(db)
    BY <1>1, ListFacts
  <2> QED
    BY <1>1, <2>1, EdgesFacts DEF DesktopEdit, DesktopArchive, DesktopExpunge
<1>3. UNCHANGED palm
  BY DEF DesktopEdit, DesktopArchive, DesktopExpunge, palmVars
<1>4. PICK marks \in EditFlags, d \in Nat :
        backup' = [backup EXCEPT ![h] = [db EXCEPT ![i] = [old EXCEPT !.data = d, !.flags = old.flags \cup marks]]]
  <2>1. CASE DesktopEdit(h, i)
    <3>1. PICK v \in Nat : v = Version
      BY EdgesFacts
    <3>2. backup' = [backup EXCEPT ![h] = [db EXCEPT ![i] = [old EXCEPT !.data = v, !.flags = old.flags \cup {DIRTY}]]]
      BY <1>1, <1>2, <2>1, <3>1 DEF DesktopEdit
    <3> QED
      BY <3>2 DEF EditFlags
  <2>2. \A marks : [old EXCEPT !.flags = old.flags \cup marks] = [old EXCEPT !.data = old.data, !.flags = old.flags \cup marks]
    BY DEF Record
  <2>3. old.data \in Nat
    BY RecordFacts
  <2>4. CASE DesktopArchive(h, i)
    <3>1. backup' = [backup EXCEPT ![h] = [db EXCEPT ![i] = [old EXCEPT !.flags = old.flags \cup {DELETED, ARCHIVE}]]]
      BY <1>1, <1>2, <2>4 DEF DesktopArchive
    <3> QED
      BY <2>2, <2>3, <3>1 DEF EditFlags
  <2>5. CASE DesktopExpunge(h, i)
    <3>1. backup' = [backup EXCEPT ![h] = [db EXCEPT ![i] = [old EXCEPT !.flags = old.flags \cup {DELETED, EXPUNGED}]]]
      BY <1>1, <1>2, <2>5 DEF DesktopExpunge
    <3> QED
      BY <2>2, <2>3, <3>1 DEF EditFlags
  <2> QED
    BY <2>1, <2>4, <2>5
<1>5. PICK f \in SUBSET Flags : /\ f = old.flags \cup marks /\ f # {}
                                /\ f \subseteq {DIRTY} \/ {DELETED, ARCHIVE} \subseteq f \/ EXPUNGED \in f
  <2>1. marks \in EditFlags /\ old \in Record /\ Polite(old) /\ IsLive(old) /\ Edges
    BY <1>2
  <2> QED
    BY <2>1, EditMarks
<1>6. PICK q \in Record : q = [old EXCEPT !.data = d, !.flags = f] /\ q.id = old.id /\ q.flags = f
  <2>1. [old EXCEPT !.data = d, !.flags = f] \in Record
    BY DEF Record
  <2> QED
    BY <2>1 DEF Record
<1>7. backup' = [backup EXCEPT ![h] = [backup[h] EXCEPT ![i] = q]] /\ Polite(q) /\ q.id = backup[h][i].id
  BY <1>1, <1>2, <1>4, <1>5, <1>6 DEF Polite
<1> QED
  BY <1>3, <1>5, <1>6, <1>7, FileTouch

LEMMA PalmGains == ASSUME Edges, PalmNew PROVE PalmTouched
<1>1. UNCHANGED backup /\ palm' = Append(palm, Rec(nextId, {DIRTY}, Version))
  BY DEF PalmNew, AppendRecord, fileVars
<1>2. PICK q \in Record : q = Rec(nextId, {DIRTY}, Version) /\ q.id = nextId /\ q.flags = {DIRTY}
  <2>1. Rec(nextId, {DIRTY}, Version) \in Record
    BY EdgesFacts DEF Rec, Record, Flags
  <2> QED
    BY <2>1 DEF Rec
<1>3. PICK a : a = Append(palm, q)
  OBVIOUS
<1>4. Recs(a) = Recs(palm) \cup {q}
  BY <1>3, EdgesFacts, AppendRecs
<1>5. Recs(palm') = {p \in Recs(palm) : p.id # q.id} \cup {q}
  BY <1>1, <1>2, <1>3, <1>4, EdgesFacts
<1>6. q.flags # {} /\ Polite(q)
  BY <1>2 DEF Polite
<1> QED
  BY <1>1, <1>5, <1>6 DEF PalmTouched

LEMMA FileGains == ASSUME Edges, NEW h \in Hosts, backup[h] # NoFile, DesktopNew(h) PROVE FileTouched
<1>1. PICK db \in Seq(Record) : db = backup[h]
  BY EdgesFacts
<1>2. PICK q \in Record : q = Rec(0, {DIRTY}, Version) /\ q.flags = {DIRTY}
  <2>1. Rec(0, {DIRTY}, Version) \in Record
    BY EdgesFacts DEF Rec, Record, Flags
  <2> QED
    BY <2>1 DEF Rec
<1>3. PICK file \in Seq(Record) : file = Append(db, q)
  BY AppendProperties
<1>4. UNCHANGED palm /\ backup' = [backup EXCEPT ![h] = file]
  BY <1>1, <1>2, <1>3 DEF DesktopNew, AppendRecord, palmVars
<1>5. Recs(file) = Recs(db) \cup {q}
  BY <1>3, AppendRecs
<1>6. q.flags # {} /\ Polite(q)
  BY <1>2 DEF Polite
<1>7. /\ \A r \in Recs(file) : r = q \/ r \in Recs(backup[h])
      /\ \A r \in Recs(backup[h]) : \E s \in Recs(file) : s.id = r.id
  BY <1>1, <1>5
<1> QED
  BY <1>4, <1>6, <1>7 DEF FileTouched

LEMMA UserTouches == ASSUME Edges, UserStep PROVE PalmTouched \/ FileTouched
<1>1. ASSUME NEW h \in Hosts, backup[h] # NoFile, DesktopNew(h) PROVE FileTouched
  BY <1>1, FileGains
<1>2. ASSUME NEW h \in Hosts, backup[h] # NoFile, NEW i \in DOMAIN backup[h],
             DesktopEdit(h, i) \/ DesktopArchive(h, i) \/ DesktopExpunge(h, i)
      PROVE  FileTouched
  BY <1>2, FileTouches
<1> QED
  BY <1>1, <1>2, PalmTouches, PalmGains DEF UserStep

LEMMA UserPairs ==
    ASSUME Edges, PalmTouched \/ FileTouched, UNCHANGED <<localdb, rem>>
    PROVE  AllPolite' /\ \A h \in Hosts : Paired(h)' /\ (backup[h] # NoFile => backup'[h] # NoFile)
<1>1. AllPolite /\ (\A h \in Hosts : Paired(h)) /\ (\A g, h \in Hosts : g = h)
  BY DEF Edges, MirrorInv, FastDesktop
<1>2. CASE PalmTouched
  <2>1. PICK q \in Record :
          /\ q.flags # {} /\ Polite(q) /\ backup' = backup
          /\ Recs(palm') = {p \in Recs(palm) : p.id # q.id} \cup {q}
    BY <1>2 DEF PalmTouched
  <2>2. AllPolite'
    BY <1>1, <2>1 DEF AllPolite
  <2>3. ASSUME NEW h \in Hosts, backup[h] # NoFile PROVE Paired(h)'
    <3>1. ASSUME NEW p \in Recs(palm'), p.flags = {} PROVE \E r \in Recs(backup[h]) : r.id = p.id
      <4>1. p \in Recs(palm)
        BY <2>1, <3>1
      <4> QED
        BY <1>1, <2>3, <3>1, <4>1 DEF Paired
    <3>2. ASSUME NEW r \in Recs(backup[h]), r.flags = {}
          PROVE  \E p \in Recs(palm') : p.id = r.id /\ (p.flags = {} => p.data = r.data)
      <4>1. PICK p \in Recs(palm) : p.id = r.id /\ (p.flags = {} => p.data = r.data)
        BY <1>1, <2>3, <3>2 DEF Paired
      <4>2. CASE p.id = q.id
        BY <2>1, <4>1, <4>2
      <4>3. CASE p.id # q.id
        BY <2>1, <4>1, <4>3
      <4> QED
        BY <4>2, <4>3
    <3> QED
      BY <2>1, <3>1, <3>2 DEF Paired
  <2>4. ASSUME NEW h \in Hosts PROVE Paired(h)' /\ (backup[h] # NoFile => backup'[h] # NoFile)
    BY <2>1, <2>3 DEF Paired
  <2> QED
    BY <2>2, <2>4
<1>3. CASE FileTouched
  <2>1. PICK g \in Hosts, file \in Seq(Record), q \in Record :
          /\ backup[g] # NoFile /\ backup' = [backup EXCEPT ![g] = file] /\ palm' = palm
          /\ q.flags # {} /\ Polite(q)
          /\ \A r \in Recs(file) : r = q \/ r \in Recs(backup[g])
          /\ \A r \in Recs(backup[g]) : \E s \in Recs(file) : s.id = r.id
    BY <1>3 DEF FileTouched
  <2>2. file # NoFile /\ \A h \in Hosts : h = g /\ backup'[h] = file
    <3>1. backup \in [Hosts -> Seq(Record) \cup {NoFile}]
      BY DEF Edges, Inductive, TypeOK
    <3> QED
      BY <1>1, <2>1, <3>1, ConstantsAssumption
  <2>3. AllPolite'
    <3>1. \A r \in Recs(file) : Polite(r)
      BY <1>1, <2>1 DEF AllPolite
    <3> QED
      BY <1>1, <2>1, <2>2, <3>1 DEF AllPolite
  <2>4. \A p \in Recs(palm) : p.flags = {} => \E r \in Recs(file) : r.id = p.id
    BY <1>1, <2>1 DEF Paired
  <2>5. \A r \in Recs(file) : r.flags = {} =>
           \E p \in Recs(palm) : p.id = r.id /\ (p.flags = {} => p.data = r.data)
    BY <1>1, <2>1 DEF Paired
  <2>6. \A h \in Hosts : Paired(h)'
    BY <2>1, <2>2, <2>4, <2>5 DEF Paired
  <2> QED
    BY <2>2, <2>3, <2>6
<1> QED
  BY <1>2, <1>3

LEMMA UserMirror == ASSUME Edges, UserStep, FastInv' PROVE MirrorInv'
<1>1. /\ pc = "idle" /\ pc' = "idle" /\ plan' = plan /\ seen' = seen /\ li' = li
      /\ UNCHANGED <<localdb, rem>>
  BY UserFrame DEF sessVars, workVars
<1>2. AllPolite' /\ \A h \in Hosts : Paired(h)'
  BY <1>1, UserTouches, UserPairs
<1>3. plan' = <<>> /\ seen' = {} /\ li' = 0
  BY <1>1 DEF Edges, MirrorInv
<1> QED
  BY <1>1, <1>2, <1>3 DEF MirrorInv, Synced

LEMMA MirrorNext == ASSUME Edges, [Next]_vars PROVE MirrorInv'
<1>1. UserStep => \A h \in Hosts : backup[h] # NoFile => backup'[h] # NoFile
  <2> SUFFICES ASSUME UserStep PROVE \A h \in Hosts : backup[h] # NoFile => backup'[h] # NoFile
    OBVIOUS
  <2>1. UNCHANGED <<localdb, rem>>
    BY UserFrame DEF workVars
  <2> QED
    BY <2>1, UserTouches, UserPairs
<1>2. FastInv'
  BY <1>1, FastStays DEF Edges, MirrorInv, FastDesktop
<1>3. Ready
  BY <1>2 DEF Edges, Ready
<1>4. CASE UserStep
  BY <1>2, <1>4, UserMirror
<1>5. CASE SyncStep \/ Cancel \/ Crash \/ (\E h \in Hosts : StartSync(h))
  BY <1>3, <1>5, SyncMirror
<1>6. CASE UNCHANGED vars
  <2>1. /\ palm' = palm /\ backup' = backup /\ localdb' = localdb /\ rem' = rem /\ plan' = plan /\ seen' = seen
        /\ li' = li /\ pc' = pc /\ host' = host /\ opened' = opened /\ failed' = failed
        /\ mode' = mode /\ remotedb' = remotedb
    BY <1>6 DEF vars, palmVars, fileVars, sessVars, workVars
  <2>2. /\ AllPolite' /\ \A h \in Hosts : Paired(h)'
    BY <2>1 DEF Edges, MirrorInv, AllPolite, Paired
  <2>3. pc = "remote" => Walking'
    <3>1. Recs(palm)' = Recs(palm) /\ Recs(localdb)' = Recs(localdb) /\ (Guarded' <=> Guarded)
      BY <2>1 DEF Guarded, Protected
    <3>2. \A p \in Recs(palm) : (Reached(p)' <=> Reached(p)) /\ (Matched(p)' <=> Matched(p)) /\ (Held(p.id)' <=> Held(p.id))
      BY <2>1 DEF Reached, Matched, Lacks, Held
    <3>3. \A r \in Recs(localdb) : (Backed(r)' <=> Backed(r)) /\ (Held(r.id)' <=> Held(r.id))
      BY <2>1 DEF Backed, Held
    <3>4. /\ (Sole' <=> Sole) /\ (Unsafe' <=> Unsafe) /\ (Buried' <=> Buried) /\ (Onward' <=> Onward)
          /\ (Second' <=> Second) /\ (Alone' <=> Alone) /\ (Bared' <=> Bared) /\ Localrec' = Localrec
          /\ (Lacks(localdb, rem.id)' <=> Lacks(localdb, rem.id)) /\ (Protected(rem.id)' <=> Protected(rem.id))
      BY <2>1 DEF Sole, Unsafe, Protected, Buried, Onward, Second, Ours, Alone, Bared, Localrec, Lacks
    <3>5. FarPlan' <=> FarPlan
      BY <2>1, <3>4 DEF FarPlan, FarArchiveLocal, FarArchiveRemote, FarClearLocal, FarDeleteLocal,
         FarDeleteRemote, FarUpload, FarBring
    <3> QED
      BY <2>1, <3>1, <3>2, <3>3, <3>5 DEF Edges, MirrorInv, Walking
  <2>4. pc = "local" => Sending'
    BY <2>1 DEF Edges, MirrorInv, Sending, Guarded, Protected, Matched, Lacks, Backed, Present, Passed, NearPlan,
       Bared, Localrec
  <2>5. /\ SameLive(localdb)' <=> SameLive(localdb)
        /\ SameLive(backup[host])' <=> SameLive(backup[host])
    BY <2>1 DEF SameLive, AllClean, Live, Recs
  <2> QED
    BY <1>2, <2>1, <2>2, <2>3, <2>4, <2>5 DEF Edges, MirrorInv, Synced
<1> QED
  BY <1>4, <1>5, <1>6 DEF Next

LEMMA InitMirror == ASSUME FastDesktop, Init PROVE MirrorInv
<1>1. FastInv
  BY InitFast DEF FastDesktop
<1>2. PICK records \in Seq(Record) :
        /\ palm = records /\ backup = [h \in Hosts |-> records]
        /\ Hosts # {} => \A r \in Recs(records) : r.flags = {}
        /\ \A r \in Recs(records) : r.flags \subseteq {DIRTY}
        /\ \A p, r \in Recs(records) : p.id = r.id => p.data = r.data
  <2> DEFINE marks == IF InitSynced = {} THEN {DIRTY} ELSE {}
             list  == [i \in 1 .. InitRecords |-> Rec(i, marks, i)]
  <2>1. InitRecords \in Nat /\ marks \in SUBSET Flags /\ marks \subseteq {DIRTY} /\ (Hosts # {} => marks = {})
    BY ConstantsAssumption DEF Flags, FastDesktop, AlwaysFast
  <2>2. list \in Seq(Record)
    <3>1. \A i \in 1 .. InitRecords : Rec(i, marks, i) \in Record
      BY <2>1 DEF Rec, Record
    <3> QED
      BY <2>1, <3>1
  <2>3. /\ \A p, r \in Recs(list) : p.id = r.id => p.data = r.data
        /\ \A r \in Recs(list) : r.flags = marks
    BY <2>1 DEF Recs, Rec
  <2>4. palm = list /\ backup = [h \in Hosts |-> IF h \in InitSynced THEN list ELSE NoFile]
    BY DEF Init
  <2>5. backup = [h \in Hosts |-> list]
    BY <2>4 DEF FastDesktop, AlwaysFast
  <2> HIDE DEF list, marks
  <2> QED
    BY <2>1, <2>2, <2>3, <2>4, <2>5
<1>3. /\ pc = "idle" /\ plan = <<>> /\ seen = {} /\ li = 0 /\ localdb = <<>> /\ rem = NoRec
  BY DEF Init
<1>4. Recs(localdb) = {} /\ Polite(rem)
  BY <1>3 DEF Recs, Polite, NoRec, Rec
<1>5. AllPolite
  BY <1>2, <1>4 DEF AllPolite, Polite
<1>6. \A h \in Hosts : Paired(h)
  BY <1>2 DEF Paired
<1> QED
  BY <1>1, <1>3, <1>5, <1>6 DEF MirrorInv, Synced

(* The inductive invariant: what each phase of the sync has brought about  *)
(* so far, and what the rest of the plan for the record at hand still has  *)
(* to do.                                                                  *)
THEOREM MirrorInvariant == FastDesktop /\ Spec => []MirrorInv
<1>1. FastDesktop /\ Init => MirrorInv
  BY InitMirror
<1>2. FastDesktop /\ Inductive /\ Inductive' /\ IdsInv /\ IdsInv' /\ MirrorInv /\ [Next]_vars => MirrorInv'
  BY MirrorNext DEF Edges
<1>3. FastDesktop => FastDesktop'
  BY DEF FastDesktop, OrdinaryUse, AlwaysFast
<1> QED
  BY <1>1, <1>2, <1>3, InductiveInvariant, IdsInvariant, PTL DEF Spec

(* After every sync that reports success, the backup file and the Palm     *)
(* have the same records under the same IDs, whatever both sides changed   *)
(* and whatever went wrong in the syncs before.                            *)
THEOREM SyncMirrors == FastDesktop /\ Spec => []MirrorAfterSync
<1>1. MirrorInv => MirrorAfterSync
  BY DEF MirrorInv, MirrorAfterSync, SameLive
<1> QED
  BY <1>1, MirrorInvariant, PTL

(* Such a sync leaves no status bit in the file, either.                   *)
THEOREM SyncCleans == FastDesktop /\ Spec => []CleanAfterSync
<1>1. MirrorInv => CleanAfterSync
  <2> SUFFICES ASSUME MirrorInv, Synced PROVE \A i \in DOMAIN backup[host] : backup[host][i].flags = {}
    BY DEF CleanAfterSync
  <2>1. AllClean(backup[host])
    BY DEF MirrorInv, SameLive
  <2> QED
    BY <2>1 DEF AllClean
<1> QED
  BY <1>1, MirrorInvariant, PTL

(* "The record flags can be trusted" (GenericConduit::FastSync relies on   *)
(* it): whenever a fast sync begins, also after one that failed half way,  *)
(* a record that is clean on both sides is the same on both, and one that  *)
(* is clean on one side is known to the other.                             *)
THEOREM FlagsAreTrusted == FastDesktop /\ Spec => []FlagsTrusted
<1>1. FastDesktop /\ Inductive /\ IdsInv /\ MirrorInv => FlagsTrusted
  <2> SUFFICES ASSUME FastDesktop, Inductive, IdsInv, MirrorInv, pc = "open", mode = "fast"
               PROVE  /\ \A rec \in Clean(palm) : rec[1] \in Known(backup[host])
                      /\ \A rec \in Clean(backup[host]) : rec[1] \in Known(palm)
                      /\ \A r \in Clean(palm), l \in Clean(backup[host]) : r[1] = l[1] => r = l
    BY DEF FlagsTrusted
  <2>1. host \in Hosts /\ Paired(host)
    BY DEF Inductive, SessionInv, MirrorInv
  <2>2. backup[host] # NoFile
    BY <2>1 DEF MirrorInv, FastInv, FastDesktop
  <2>3. \A p, q \in Recs(palm) : p.id = q.id => p = q
    <3>1. palm \in Seq(Record)
      BY DEF Inductive, TypeOK
    <3>2. Distinct(palm) /\ \A i \in DOMAIN palm : palm[i].id # 0
      BY DEF IdsInv, PalmIds, Assigned
    <3>3. \A p \in Recs(palm) : \E i \in DOMAIN palm : palm[i] = p
      BY <3>1, ListFacts
    <3> QED
      BY <3>2, <3>3 DEF Distinct
  <2>4. \A db : /\ \A x \in Clean(db) : \E r \in Recs(db) : r.flags = {} /\ x = <<r.id, r.data>>
                /\ \A r \in Recs(db) : r.id \in Known(db)
    BY DEF Clean, Known, Recs
  <2>5. ASSUME NEW x \in Clean(palm) PROVE x[1] \in Known(backup[host])
    <3>1. PICK p \in Recs(palm) : p.flags = {} /\ x = <<p.id, p.data>>
      BY <2>4
    <3>2. PICK r \in Recs(backup[host]) : r.id = p.id
      BY <2>1, <2>2, <3>1 DEF Paired
    <3> QED
      BY <2>4, <3>1, <3>2
  <2>6. ASSUME NEW x \in Clean(backup[host]) PROVE x[1] \in Known(palm)
    <3>1. PICK r \in Recs(backup[host]) : r.flags = {} /\ x = <<r.id, r.data>>
      BY <2>4
    <3>2. PICK p \in Recs(palm) : p.id = r.id
      BY <2>1, <2>2, <3>1 DEF Paired
    <3> QED
      BY <2>4, <3>1, <3>2
  <2>7. ASSUME NEW x \in Clean(palm), NEW y \in Clean(backup[host]), x[1] = y[1] PROVE x = y
    <3>1. PICK p \in Recs(palm) : p.flags = {} /\ x = <<p.id, p.data>>
      BY <2>4
    <3>2. PICK r \in Recs(backup[host]) : r.flags = {} /\ y = <<r.id, r.data>>
      BY <2>4
    <3>3. PICK q \in Recs(palm) : q.id = r.id /\ (q.flags = {} => q.data = r.data)
      BY <2>1, <2>2, <3>2 DEF Paired
    <3>4. q = p
      BY <2>3, <2>7, <3>1, <3>2, <3>3
    <3> QED
      BY <3>1, <3>2, <3>3, <3>4
  <2> QED
    BY <2>5, <2>6, <2>7
<1>2. FastDesktop => FastDesktop'
  BY DEF FastDesktop, OrdinaryUse, AlwaysFast
<1> QED
  BY <1>1, <1>2, InductiveInvariant, IdsInvariant, MirrorInvariant, PTL

-----------------------------------------------------------------------------
(* Deletions.  As long as nothing fails, what the user deleted on either   *)
(* side is gone from both after the next sync, and does not come back: no  *)
(* record that is live has contents which the user deleted, but for those  *)
(* that the sync has still to meet.  With FastDesktop's syncs.             *)
Deleted(d)   == \E w \in Hosts \cup {Device} : d \in gone[w]
Has(p, step) == \E k \in DOMAIN p : p[k] = step

(* A modified record of the Palm that the sync has not read yet, and a     *)
(* deletion on the Palm that it has not read yet.                          *)
Unseen(p) == IsLive(p) /\ p.flags # {} /\ p.id \notin seen
Ahead(r)  == /\ r.flags = {}
             /\ \E p \in Recs(palm) : ~ IsLive(p) /\ p.id = r.id /\ p.id \notin seen

(* Contents are in one record of the list, or in the two with one ID of    *)
(* which the first is about to be deleted.                                 *)
Single(db) == \A j, k \in DOMAIN db :
                  db[j].data = db[k].data => db[j].id = db[k].id /\ (db[j].id = 0 => j = k)
Own(p, db) == \A r \in Recs(db) : r.data = p.data => r.id = p.id

(* Between syncs.                                                          *)
Apart(db) ==
    /\ \A p, q \in Recs(palm) : IsLive(p) /\ IsLive(q) /\ p.data = q.data => p = q
    /\ \A p \in Recs(palm) : Unseen(p) => ~ Deleted(p.data) /\ \A r \in Recs(db) : r.data # p.data
    /\ \A p \in Recs(palm), r \in Recs(db) :
          IsLive(p) /\ IsLive(r) /\ p.data = r.data => p.id = r.id /\ r.flags = {}
    /\ Single(db)
    /\ \A r \in Recs(db) : IsLive(r) /\ Deleted(r.data) => Ahead(r)

(* In the first phase; and what the plan at hand still has to see to.      *)
Debt ==
    /\ li # 0 => Has(plan, DeleteLocal) \/ ~ Deleted(Localrec.data)
    /\ Has(plan, UploadAsNew) => Localrec.data # rem.data
    /\ Has(plan, AppendRemote) \/ Has(plan, AppendUnclean) \/ Has(plan, InsertRemote) =>
          /\ ~ Deleted(rem.data) /\ Own(rem, localdb)
          /\ \A p \in Recs(palm) : Unseen(p) => p.data # rem.data
Reading ==
    /\ \A p, q \in Recs(palm) : Unseen(p) /\ Unseen(q) /\ p.data = q.data => p = q
    /\ \A p \in Recs(palm) : Unseen(p) => ~ Deleted(p.data) /\ Own(p, localdb)
    /\ Single(localdb)
    /\ \A j \in DOMAIN localdb : IsLive(localdb[j]) /\ Deleted(localdb[j].data) =>
          Ahead(localdb[j]) \/ (j = li /\ Has(plan, DeleteLocal))
    /\ plan # <<>> => Debt

(* In the second phase, and after it.                                      *)
Purging ==
    /\ Single(localdb)
    /\ \A j \in DOMAIN localdb : IsLive(localdb[j]) /\ Deleted(localdb[j].data) =>
          j = li /\ Has(plan, PurgeLocal)
    /\ plan # <<>> => Has(plan, PurgeLocal) \/ ~ Deleted(Localrec.data)
Spotless(db) == Single(db) /\ \A r \in Recs(db) : ~ Deleted(r.data)

NoRevival ==
    /\ \A d : Deleted(d) => d <= Newest
    /\ pc # "idle" => ~ failed
    /\ pc \in {"idle", "open"} => \A h \in Hosts : Apart(backup[h])
    /\ pc = "remote" => Reading
    /\ pc = "local" => Purging
    /\ pc = "write" => Spotless(localdb)
    /\ pc \in {"cleanup", "reset", "userinfo"} => Spotless(backup[host])
    /\ pc = "userinfo" => \A p \in Recs(palm) : IsLive(p) => p.flags = {}

DeletionsInv == faults = 0 => NoRevival

(* What a plan has, and what it has left after a step.                     *)
LEMMA HasThese ==
    ASSUME NEW x
    PROVE  /\ ~ Has(<<>>, x)
           /\ \A a : Has(<<a>>, x) <=> x = a
           /\ \A a, b : Has(<<a, b>>, x) <=> x \in {a, b}
           /\ \A a, b, c : Has(<<a, b, c>>, x) <=> x \in {a, b, c}
           /\ \A a, b, c, d : Has(<<a, b, c, d>>, x) <=> x \in {a, b, c, d}
<1>1. ~ Has(<<>>, x)
  BY DEF Has
<1>2. \A a : Has(<<a>>, x) <=> x = a
  BY DEF Has
<1>3. \A a, b : Has(<<a, b>>, x) <=> x \in {a, b}
  <2> SUFFICES ASSUME NEW a, NEW b PROVE Has(<<a, b>>, x) <=> x \in {a, b}
    OBVIOUS
  <2> DEFINE p == <<a, b>>
  <2>1. DOMAIN p = {1, 2} /\ p[1] = a /\ p[2] = b
    OBVIOUS
  <2> HIDE DEF p
  <2>2. Has(p, x) <=> x \in {a, b}
    BY <2>1 DEF Has
  <2> QED
    BY <2>2 DEF p
<1>4. \A a, b, c : Has(<<a, b, c>>, x) <=> x \in {a, b, c}
  <2> SUFFICES ASSUME NEW a, NEW b, NEW c PROVE Has(<<a, b, c>>, x) <=> x \in {a, b, c}
    OBVIOUS
  <2> DEFINE p == <<a, b, c>>
  <2>1. DOMAIN p = {1, 2, 3} /\ p[1] = a /\ p[2] = b /\ p[3] = c
    OBVIOUS
  <2> HIDE DEF p
  <2>2. Has(p, x) <=> x \in {a, b, c}
    BY <2>1 DEF Has
  <2> QED
    BY <2>2 DEF p
<1>5. \A a, b, c, d : Has(<<a, b, c, d>>, x) <=> x \in {a, b, c, d}
  <2> SUFFICES ASSUME NEW a, NEW b, NEW c, NEW d PROVE Has(<<a, b, c, d>>, x) <=> x \in {a, b, c, d}
    OBVIOUS
  <2> DEFINE p == <<a, b, c, d>>
  <2>1. DOMAIN p = {1, 2, 3, 4} /\ p[1] = a /\ p[2] = b /\ p[3] = c /\ p[4] = d
    OBVIOUS
  <2> HIDE DEF p
  <2>2. Has(p, x) <=> x \in {a, b, c, d}
    BY <2>1 DEF Has
  <2> QED
    BY <2>2 DEF p
<1> QED
  BY <1>1, <1>2, <1>3, <1>4, <1>5

LEMMA HasRest ==
    ASSUME plan \in Seq(Steps), plan # <<>>, plan' = Tail(plan), NEW x
    PROVE  /\ Has(plan', x) => Has(plan, x)
           /\ Has(plan, x) => x = Head(plan) \/ Has(plan', x)
<1>1. /\ Len(plan) \in Nat /\ Len(plan) # 0 /\ DOMAIN plan = 1 .. Len(plan) /\ Head(plan) = plan[1]
      /\ DOMAIN plan' = 1 .. (Len(plan) - 1)
      /\ \A k \in 1 .. (Len(plan) - 1) : plan'[k] = plan[k + 1]
  OBVIOUS
<1>2. ASSUME NEW k \in DOMAIN plan', plan'[k] = x PROVE Has(plan, x)
  <2>1. k + 1 \in DOMAIN plan /\ plan[k + 1] = x
    BY <1>1, <1>2
  <2> QED
    BY <2>1 DEF Has
<1>3. ASSUME NEW k \in DOMAIN plan, plan[k] = x, k # 1 PROVE Has(plan', x)
  <2>1. k - 1 \in DOMAIN plan' /\ plan'[k - 1] = plan[(k - 1) + 1] /\ (k - 1) + 1 = k
    BY <1>1, <1>3
  <2> QED
    BY <1>3, <2>1 DEF Has
<1> QED
  BY <1>1, <1>2, <1>3 DEF Has

(* How the operations on a list keep contents in one record.               *)
LEMMA SingleWithout ==
    ASSUME NEW db \in Seq(Record), NEW i \in DOMAIN db, Single(db)
    PROVE  Single(Without(db, i))
<1>1. PICK w : w = Without(db, i)
  OBVIOUS
<1>2. DOMAIN db = 1 .. Len(db) /\ i \in Nat
  BY ListFacts
<1>3. \A j \in DOMAIN w : \/ j < i /\ j \in DOMAIN db \ {i} /\ w[j] = db[j]
                          \/ j >= i /\ j + 1 \in DOMAIN db \ {i} /\ w[j] = db[j + 1]
  BY <1>1, WithoutRecs
<1>4. DOMAIN w \subseteq Nat
  BY <1>1, <1>2, WithoutProperties
<1>5. ASSUME NEW j \in DOMAIN w, NEW k \in DOMAIN w, w[j].data = w[k].data
      PROVE  w[j].id = w[k].id /\ (w[j].id = 0 => j = k)
  <2>1. PICK m \in DOMAIN db : w[j] = db[m] /\ m = (IF j < i THEN j ELSE j + 1)
    BY <1>2, <1>3, <1>4
  <2>2. PICK n \in DOMAIN db : w[k] = db[n] /\ n = (IF k < i THEN k ELSE k + 1)
    BY <1>2, <1>3, <1>4
  <2>3. db[m].id = db[n].id /\ (db[m].id = 0 => m = n)
    BY <1>5, <2>1, <2>2 DEF Single
  <2>4. m = n => j = k
    BY <1>2, <1>4, <2>1, <2>2
  <2> QED
    BY <2>1, <2>2, <2>3, <2>4
<1> QED
  BY <1>1, <1>5 DEF Single

LEMMA SingleSame ==
    ASSUME NEW db, NEW new, Single(db), DOMAIN new = DOMAIN db,
           \A j \in DOMAIN db : new[j].id = db[j].id /\ new[j].data = db[j].data
    PROVE  Single(new)
  BY DEF Single

LEMMA SingleChange ==
    ASSUME NEW db, NEW new, NEW i \in DOMAIN db, Single(db), DOMAIN new = DOMAIN db,
           \A j \in DOMAIN db : j # i => new[j] = db[j] /\ db[j].data # new[i].data
    PROVE  Single(new)
<1> SUFFICES ASSUME NEW j \in DOMAIN db, NEW k \in DOMAIN db, new[j].data = new[k].data
             PROVE  new[j].id = new[k].id /\ (new[j].id = 0 => j = k)
  BY DEF Single
<1>1. j = i <=> k = i
  OBVIOUS
<1>2. CASE j # i /\ k # i
  BY <1>2 DEF Single
<1> QED
  BY <1>1, <1>2

LEMMA SingleAppend ==
    ASSUME NEW db \in Seq(Record), NEW r \in Record, Single(db), \A s \in Recs(db) : s.data # r.data
    PROVE  Single(Append(db, r))
<1>1. PICK a : a = Append(db, r)
  OBVIOUS
<1>2. \A j \in DOMAIN a : (j \in DOMAIN db /\ a[j] = db[j]) \/ (a[j] = r /\ j = Len(db) + 1)
  BY <1>1, AppendRecs
<1>3. \A j \in DOMAIN db : db[j].data # r.data
  BY DEF Recs
<1>4. Single(a)
  BY <1>2, <1>3 DEF Single
<1> QED
  BY <1>1, <1>4

LEMMA SingleInsert ==
    ASSUME NEW db \in Seq(Record), NEW i \in DOMAIN db, NEW r \in Record, Single(db),
           r.id # 0, Own(r, db)
    PROVE  Single(InsertRecord(db, i, r))
<1>1. PICK new : new = InsertRecord(db, i, r)
  OBVIOUS
<1>2. /\ i \in Nat /\ Len(db) \in Nat /\ DOMAIN db = 1 .. Len(db)
      /\ DOMAIN new = 1 .. (Len(db) + 1)
      /\ \A j \in DOMAIN new :
            new[j] = IF j <= i THEN db[j] ELSE IF j = i + 1 THEN r ELSE db[j - 1]
  BY <1>1, ListFacts DEF InsertRecord
<1>3. ASSUME NEW j \in DOMAIN new PROVE j = i + 1 \/ \E m \in DOMAIN db : m = (IF j <= i THEN j ELSE j - 1)
  BY <1>2
<1>4. ASSUME NEW j \in DOMAIN new, NEW k \in DOMAIN new, new[j].data = new[k].data
      PROVE  new[j].id = new[k].id /\ (new[j].id = 0 => j = k)
  <2>1. CASE j = i + 1 /\ k = i + 1
    BY <2>1
  <2>2. ASSUME NEW a \in DOMAIN new, NEW b \in DOMAIN new, new[a].data = new[b].data, a = i + 1, b # i + 1
        PROVE  new[a].id = new[b].id /\ new[a].id # 0
    <3>1. new[a] = r
      BY <1>2, <2>2
    <3>2. PICK m \in DOMAIN db : new[b] = db[m]
      BY <1>2, <2>2
    <3>3. db[m].id = r.id
      BY <2>2, <3>1, <3>2 DEF Own, Recs
    <3> QED
      BY <3>1, <3>2, <3>3
  <2>3. CASE j # i + 1 /\ k # i + 1
    <3>1. PICK m \in DOMAIN db : new[j] = db[m] /\ m = (IF j <= i THEN j ELSE j - 1)
      BY <1>2, <2>3
    <3>2. PICK n \in DOMAIN db : new[k] = db[n] /\ n = (IF k <= i THEN k ELSE k - 1)
      BY <1>2, <2>3
    <3>3. db[m].id = db[n].id /\ (db[m].id = 0 => m = n)
      BY <1>4, <3>1, <3>2 DEF Single
    <3>4. m = n => j = k
      BY <1>2, <2>3, <3>1, <3>2
    <3> QED
      BY <3>1, <3>2, <3>3, <3>4
  <2> QED
    BY <1>4, <2>1, <2>2, <2>3
<1> QED
  BY <1>1, <1>4 DEF Single

(* A step of a session in which nothing fails.                             *)
Still ==
    /\ Ready /\ MirrorInv' /\ Edits /\ NoRevival
    /\ UNCHANGED faults

LEMMA StillFacts ==
    ASSUME Still, UNCHANGED <<gone, edits>>
    PROVE  /\ \A d : Deleted(d)' <=> Deleted(d)
           /\ \A d : Deleted(d)' => d <= Newest'
<1>1. \A d : Deleted(d)' <=> Deleted(d)
  BY DEF Deleted
<1>2. Newest' = Newest
  BY DEF Newest
<1> QED
  BY <1>1, <1>2 DEF Still, NoRevival

LEMMA StillCalls ==
    ASSUME Still, pc # "idle"
    PROVE  /\ online /\ ~ opened /\ ~ failed
           /\ \A kind : ~ Fault(kind)
           /\ ~ Refused /\ ~ NotWritable
<1>1. online /\ ~ opened /\ ~ failed
  BY DEF Still, Edits, NoRevival
<1>2. \A kind : ~ Fault(kind)
  BY DEF Still, Fault, Ready, Inductive, TypeOK
<1> QED
  BY <1>1, <1>2 DEF Refused, NotWritable

(* The first phase: how a step of a plan keeps the promise.  No record of  *)
(* the Palm changes but the one in hand, and no record of the list gets    *)
(* other contents, but for one that is brought.                            *)
ListQuiet ==
    /\ li' = 0 \/ (li' = li /\ Localrec'.data = Localrec.data /\ Head(plan) # DeleteLocal)
    /\ Has(plan', UploadAsNew) => Localrec'.data = Localrec.data
    /\ \A j \in DOMAIN localdb' :
          \/ /\ j = li' /\ j = li /\ j \in DOMAIN localdb
             /\ localdb'[j].id = localdb[j].id /\ localdb'[j].data = localdb[j].data
          \/ \E k \in DOMAIN localdb \ {li} : localdb'[j] = localdb[k]
          \/ Head(plan) \in BringSteps /\ localdb'[j].id = rem.id /\ localdb'[j].data = rem.data

LEMMA ReadingStep ==
    ASSUME Still, pc = "remote", plan # <<>>, plan' = Tail(plan),
           UNCHANGED <<pc, failed, seen, rem, gone, edits>>,
           \A p \in Recs(palm') : p \in Recs(palm),
           \A p \in Recs(palm) : p \in Recs(palm') \/ p.id = rem.id,
           Single(localdb'), ListQuiet
    PROVE  NoRevival'
<1>1. /\ Reading /\ Debt /\ rem.id \in seen /\ rem.id # 0 /\ plan \in Seq(Steps) /\ ~ failed
      /\ \A j \in DOMAIN localdb : localdb[j] \in Recs(localdb)
      /\ 0 \notin DOMAIN localdb
  <2>1. Reading /\ ~ failed
    BY DEF Still, NoRevival
  <2>2. Walking
    BY DEF Still, Ready, MirrorInv
  <2>3. plan \in Seq(Steps) /\ localdb \in Seq(Record)
    BY DEF Still, Ready, Inductive, TypeOK
  <2> QED
    BY <2>1, <2>2, <2>3, ListFacts DEF Reading, Walking
<1>2. /\ \A d : Deleted(d)' <=> Deleted(d)
      /\ \A d : Deleted(d)' => d <= Newest'
  BY StillFacts
<1>3. /\ Has(plan', DeleteLocal) => Has(plan, DeleteLocal)
      /\ Has(plan, DeleteLocal) /\ Head(plan) # DeleteLocal => Has(plan', DeleteLocal)
      /\ \A x : Has(plan', x) => Has(plan, x)
      /\ Head(plan) \in BringSteps => \E x \in BringSteps : Has(plan, x)
  <2>1. ASSUME Head(plan) \in BringSteps PROVE \E x \in BringSteps : Has(plan, x)
    <3>1. 1 \in DOMAIN plan /\ plan[1] = Head(plan)
      BY <1>1
    <3> QED
      BY <2>1, <3>1 DEF Has
  <2> QED
    BY <1>1, <2>1, HasRest
<1>4. \A p : Unseen(p)' <=> Unseen(p)
  BY DEF Unseen
<1>5. (\E x \in BringSteps : Has(plan, x)) =>
          /\ ~ Deleted(rem.data) /\ Own(rem, localdb)
          /\ \A p \in Recs(palm) : Unseen(p) => p.data # rem.data
  BY <1>1 DEF Debt, BringSteps
<1>6. \A p : Own(p, localdb) /\ (Head(plan) \in BringSteps => p.data # rem.data \/ p = rem) => Own(p, localdb')
  <2> SUFFICES ASSUME NEW p, Own(p, localdb), Head(plan) \in BringSteps => p.data # rem.data \/ p = rem,
                      NEW s \in Recs(localdb'), s.data = p.data
               PROVE  s.id = p.id
    BY DEF Own
  <2>1. PICK j \in DOMAIN localdb' : s = localdb'[j]
    BY DEF Recs
  <2>2. CASE \E k \in DOMAIN localdb : s.id = localdb[k].id /\ s.data = localdb[k].data
    BY <1>1, <2>2 DEF Own
  <2>3. CASE Head(plan) \in BringSteps /\ s.id = rem.id /\ s.data = rem.data
    BY <2>3
  <2> QED
    BY <2>1, <2>2, <2>3 DEF ListQuiet
<1>7. \A r : Ahead(r) => Ahead(r)'
  <2> SUFFICES ASSUME NEW r, Ahead(r) PROVE Ahead(r)'
    OBVIOUS
  <2>1. PICK p \in Recs(palm) : ~ IsLive(p) /\ p.id = r.id /\ p.id \notin seen
    BY DEF Ahead
  <2>2. p \in Recs(palm')
    BY <1>1, <2>1
  <2> QED
    BY <2>1, <2>2 DEF Ahead
<1>8. /\ \A p, q \in Recs(palm') : Unseen(p)' /\ Unseen(q)' /\ p.data = q.data => p = q
      /\ \A p \in Recs(palm') : Unseen(p)' => ~ Deleted(p.data)' /\ Own(p, localdb')
  <2>1. \A p, q \in Recs(palm') : Unseen(p)' /\ Unseen(q)' /\ p.data = q.data => p = q
    BY <1>1, <1>4 DEF Reading
  <2>2. ASSUME NEW p \in Recs(palm'), Unseen(p)' PROVE ~ Deleted(p.data)' /\ Own(p, localdb')
    <3>1. p \in Recs(palm) /\ Unseen(p)
      BY <1>4, <2>2
    <3>2. ~ Deleted(p.data) /\ Own(p, localdb)
      BY <1>1, <3>1 DEF Reading
    <3>3. Head(plan) \in BringSteps => p.data # rem.data
      BY <1>3, <1>5, <3>1
    <3> QED
      BY <1>2, <1>6, <3>2, <3>3
  <2> QED
    BY <2>1, <2>2
<1>9. ASSUME NEW j \in DOMAIN localdb', IsLive(localdb'[j]), Deleted(localdb'[j].data)
      PROVE  Ahead(localdb[j])' \/ (j = li' /\ Has(plan', DeleteLocal))
  <2>1. CASE j = li' /\ j = li /\ j \in DOMAIN localdb /\ localdb'[j].data = localdb[j].data
    <3>1. li' # 0 /\ li # 0 /\ Localrec.data = localdb[j].data
      BY <1>1, <2>1 DEF Localrec
    <3>2. Head(plan) # DeleteLocal
      BY <3>1 DEF ListQuiet
    <3>3. Has(plan, DeleteLocal)
      BY <1>1, <1>9, <2>1, <3>1 DEF Debt
    <3> QED
      BY <1>3, <2>1, <3>2, <3>3
  <2>2. ASSUME NEW k \in DOMAIN localdb \ {li}, localdb'[j] = localdb[k] PROVE Ahead(localdb[j])'
    <3>1. Ahead(localdb[k])
      BY <1>1, <1>9, <2>2 DEF Reading
    <3> QED
      <4>1. PICK r : r = localdb[k] /\ Ahead(r)
        BY <3>1
      <4>2. Ahead(r)' /\ r = localdb'[j]
        BY <1>7, <2>2, <4>1
      <4> QED
        BY <4>2 DEF Ahead
  <2>3. CASE Head(plan) \in BringSteps /\ localdb'[j].data = rem.data
    BY <1>3, <1>5, <1>9, <2>3
  <2> QED
    BY <2>1, <2>2, <2>3 DEF ListQuiet
<1>10. ASSUME plan' # <<>> PROVE Debt'
  <2>1. li' # 0 => Has(plan', DeleteLocal) \/ ~ Deleted(Localrec.data)'
    <3> SUFFICES ASSUME li' # 0 PROVE Has(plan', DeleteLocal) \/ ~ Deleted(Localrec.data)'
      OBVIOUS
    <3>1. li' = li /\ Localrec'.data = Localrec.data /\ Head(plan) # DeleteLocal
      BY DEF ListQuiet
    <3>2. Has(plan, DeleteLocal) \/ ~ Deleted(Localrec.data)
      BY <1>1, <3>1 DEF Debt
    <3>3. Deleted(Localrec.data)' <=> Deleted(Localrec.data)
      BY <3>1 DEF Deleted
    <3> QED
      BY <1>3, <3>1, <3>2, <3>3
  <2>2. Has(plan', UploadAsNew) => Localrec'.data # rem'.data
    <3>1. Has(plan', UploadAsNew) => Localrec.data # rem.data /\ Localrec'.data = Localrec.data
      BY <1>1, <1>3 DEF Debt, ListQuiet
    <3> QED
      BY <3>1
  <2>3. ASSUME Has(plan', AppendRemote) \/ Has(plan', AppendUnclean) \/ Has(plan', InsertRemote)
        PROVE  /\ ~ Deleted(rem.data)' /\ Own(rem', localdb')
               /\ \A p \in Recs(palm') : Unseen(p)' => p.data # rem'.data
    <3>1. \E x \in BringSteps : Has(plan, x)
      BY <1>3, <2>3 DEF BringSteps
    <3>2. ~ Deleted(rem.data) /\ Own(rem, localdb) /\ \A p \in Recs(palm) : Unseen(p) => p.data # rem.data
      BY <1>5, <3>1
    <3>3. Deleted(rem.data)' <=> Deleted(rem.data)
      BY DEF Deleted
    <3>4. Own(rem, localdb')
      BY <1>6, <3>2
    <3> QED
      BY <1>4, <3>2, <3>3, <3>4
  <2> QED
    BY <2>1, <2>2, <2>3 DEF Debt
<1>11. Reading'
  BY <1>2, <1>8, <1>9, <1>10 DEF Reading
<1> QED
  BY <1>1, <1>2, <1>11 DEF NoRevival

LEMMA QuietList ==
    ASSUME UNCHANGED <<localdb, li>>, Head(plan) # DeleteLocal
    PROVE  ListQuiet
<1>1. Localrec' = Localrec
  BY DEF Localrec
<1>2. ASSUME NEW j \in DOMAIN localdb', j # li PROVE \E k \in DOMAIN localdb \ {li} : localdb'[j] = localdb[k]
  BY <1>2
<1> QED
  BY <1>1, <1>2 DEF ListQuiet

LEMMA ReadArchive == ASSUME Still, pc = "remote", DoArchive PROVE NoRevival'
<1>1. /\ plan # <<>> /\ plan' = Tail(plan) /\ Head(plan) \in {ArchiveLocal, ArchiveRemote}
      /\ UNCHANGED <<palm, pc, failed, localdb, seen, rem, li, gone, edits>>
  BY DEF DoArchive, Step, NextStep, palmVars, sessVars, userVars
<1>2. Head(plan) # DeleteLocal
  BY <1>1 DEF ArchiveLocal, ArchiveRemote, DeleteLocal
<1>3. ListQuiet
  BY <1>1, <1>2, QuietList
<1>4. Single(localdb')
  BY <1>1 DEF Still, NoRevival, Reading
<1> QED
  BY <1>1, <1>3, <1>4, ReadingStep

LEMMA ReadRemove == ASSUME Still, pc = "remote", DoDeleteRemote PROVE NoRevival'
<1>1. /\ plan # <<>> /\ Head(plan) = DeleteRemote
      /\ UNCHANGED <<localdb, seen, rem, li, gone, edits>>
  BY DEF DoDeleteRemote, Step, userVars
<1>2. Remove(rem.id) /\ plan' = Tail(plan) /\ UNCHANGED <<pc, failed>>
  BY <1>1, StillCalls DEF DoDeleteRemote, Lost, NextStep
<1>3. Recs(palm') = {p \in Recs(palm) : p.id # rem.id}
  BY <1>2, ReadyFacts, RemoveRecs DEF Still, Ready, IdsInv
<1>4. Head(plan) # DeleteLocal
  BY <1>1 DEF DeleteRemote, DeleteLocal
<1>5. ListQuiet
  BY <1>1, <1>4, QuietList
<1>6. Single(localdb')
  BY <1>1 DEF Still, NoRevival, Reading
<1> QED
  BY <1>1, <1>2, <1>3, <1>5, <1>6, ReadingStep

LEMMA ReadClear == ASSUME Still, pc = "remote", DoClearLocal PROVE NoRevival'
<1>1. /\ plan # <<>> /\ plan' = Tail(plan) /\ Head(plan) = ClearLocal
      /\ localdb' = ClearStatusFlags(localdb, li)
      /\ UNCHANGED <<palm, pc, failed, seen, rem, li, gone, edits>>
  BY DEF DoClearLocal, Step, NextStep, palmVars, fileVars, sessVars, userVars
<1>2. li \in DOMAIN localdb /\ localdb \in Seq(Record)
  <2>1. Ours
    BY <1>1, FarFacts, FarHead DEF Still, FarClearLocal, Unsafe, Sole
  <2> QED
    BY <1>1, <2>1, FarFacts, ReadyFacts DEF Still
<1>3. PICK r \in Record :
        /\ r.id = Localrec.id /\ r.data = Localrec.data /\ r.flags = {}
        /\ DOMAIN localdb' = DOMAIN localdb /\ localdb'[li] = r
        /\ \A j \in DOMAIN localdb : j # li => localdb'[j] = localdb[j]
  BY <1>1, <1>2, ClearedRecs
<1>4. \A j \in DOMAIN localdb : localdb'[j].id = localdb[j].id /\ localdb'[j].data = localdb[j].data
  BY <1>2, <1>3 DEF Localrec
<1>5. Single(localdb')
  BY <1>3, <1>4, SingleSame DEF Still, NoRevival, Reading
<1>6. Head(plan) # DeleteLocal
  BY <1>1 DEF ClearLocal, DeleteLocal
<1>7. Localrec'.data = Localrec.data
  BY <1>1, <1>3 DEF Localrec
<1>8. ASSUME NEW j \in DOMAIN localdb', j # li PROVE \E k \in DOMAIN localdb \ {li} : localdb'[j] = localdb[k]
  BY <1>3, <1>8
<1>9. ListQuiet
  BY <1>1, <1>3, <1>4, <1>6, <1>7, <1>8 DEF ListQuiet
<1> QED
  BY <1>1, <1>5, <1>9, ReadingStep

LEMMA ReadDelete == ASSUME Still, pc = "remote", DoDeleteLocal PROVE NoRevival'
<1>1. /\ plan # <<>> /\ plan' = Tail(plan) /\ Head(plan) = DeleteLocal
      /\ localdb' = DeleteRecordByID(localdb, localdb[li].id) /\ li' = 0
      /\ UNCHANGED <<palm, pc, failed, seen, rem, gone, edits>>
  BY DEF DoDeleteLocal, Unlink, Step, NextStep, palmVars, fileVars, sessVars, userVars
<1>2. FarDeleteLocal
  BY <1>1, FarFacts, FarHead DEF Still
<1>3. /\ li \in DOMAIN localdb /\ localdb[li].id = rem.id /\ localdb \in Seq(Record)
      /\ \A j \in DOMAIN localdb : localdb[j].id = rem.id => li <= j
  <2>1. Ours /\ li \in Nat
    BY <1>2, ReadyFacts DEF Still, FarDeleteLocal, Sole, Unsafe, Second
  <2>2. \A j \in DOMAIN localdb : localdb[j].id = rem.id => li <= j
    BY <1>2, <2>1 DEF FarDeleteLocal, Sole, Unsafe, Second
  <2> QED
    BY <2>1, <2>2, ReadyFacts DEF Ours, Still
<1>4. /\ \A j \in DOMAIN localdb' : \E k \in DOMAIN localdb \ {li} : localdb'[j] = localdb[k]
      /\ localdb' = Without(localdb, li)
  <2>1. \A j \in DOMAIN localdb : localdb[j].id = localdb[li].id => li <= j
    BY <1>3
  <2>2. localdb \in Seq(Record) /\ li \in DOMAIN localdb /\ localdb' = DeleteRecordByID(localdb, localdb[li].id)
    BY <1>1, <1>3
  <2>3. /\ \A j \in DOMAIN localdb' : \E k \in DOMAIN localdb \ {li} : localdb'[j] = localdb[k]
        /\ \A k \in DOMAIN localdb \ {li} : \E j \in DOMAIN localdb' : localdb'[j] = localdb[k]
        /\ localdb' = Without(localdb, li)
    <3>1. PICK new : new = localdb'
      OBVIOUS
    <3>2. PICK db \in Seq(Record) : db = localdb
      BY <2>2
    <3>3. PICK i \in DOMAIN db : i = li
      BY <2>2, <3>2
    <3>4. new = DeleteRecordByID(db, db[i].id) /\ \A j \in DOMAIN db : db[j].id = db[i].id => i <= j
      BY <2>1, <2>2, <3>1, <3>2, <3>3
    <3>5. /\ \A j \in DOMAIN new : \E k \in DOMAIN db \ {i} : new[j] = db[k]
          /\ \A k \in DOMAIN db \ {i} : \E j \in DOMAIN new : new[j] = db[k]
          /\ new = Without(db, i)
      <4>1. ASSUME NEW a \in Seq(Record), NEW j \in DOMAIN a, NEW x,
                   \A k \in DOMAIN a : a[k].id = a[j].id => j <= k, x = DeleteRecordByID(a, a[j].id)
            PROVE  x = Without(a, j)
        BY <4>1, UnlinkFirst
      <4>2. new = Without(db, i)
        BY <3>4, <4>1
      <4> QED
        BY <4>2, WithoutRecs
    <3> QED
      BY <3>1, <3>2, <3>3, <3>5
  <2> QED
    BY <2>3
<1>5. Single(localdb')
  BY <1>3, <1>4, SingleWithout DEF Still, NoRevival, Reading
<1>6. ~ Has(plan', UploadAsNew)
  <2>1. plan' \in {<<>>, <<AppendUnclean>>, <<AppendRemote>>}
    <3>1. \/ plan = <<DeleteLocal>>
          \/ plan = <<DeleteLocal, AppendUnclean>>
          \/ plan = <<DeleteLocal, AppendRemote>>
      BY <1>2 DEF FarDeleteLocal
    <3>2. /\ Tail(<<DeleteLocal>>) = <<>>
          /\ Tail(<<DeleteLocal, AppendUnclean>>) = <<AppendUnclean>>
          /\ Tail(<<DeleteLocal, AppendRemote>>) = <<AppendRemote>>
      BY Tails
    <3>3. plan' = Tail(plan)
      BY <1>1
    <3> QED
      BY <3>1, <3>2, <3>3
  <2>2. AppendUnclean # UploadAsNew /\ AppendRemote # UploadAsNew
    BY DEF AppendUnclean, AppendRemote, UploadAsNew
  <2>3. PICK u : u = UploadAsNew
    OBVIOUS
  <2>4. ~ Has(<<>>, u) /\ \A a : Has(<<a>>, u) <=> u = a
    BY HasThese
  <2> QED
    BY <2>1, <2>2, <2>3, <2>4
<1>7. ListQuiet
  BY <1>1, <1>4, <1>6 DEF ListQuiet
<1> QED
  BY <1>1, <1>5, <1>7, ReadingStep

LEMMA ReadAppend == ASSUME Still, pc = "remote", DoAppendRemote PROVE NoRevival'
<1>1. /\ plan # <<>> /\ plan' = Tail(plan) /\ Head(plan) \in {AppendRemote, AppendUnclean}
      /\ UNCHANGED <<palm, pc, failed, seen, rem, li, gone, edits>>
  BY DEF DoAppendRemote, Step, NextStep, palmVars, fileVars, sessVars, userVars
<1>2. PICK flags \in SUBSET rem.flags : localdb' = Append(localdb, Rec(rem.id, flags, rem.data))
  BY DEF DoAppendRemote, AppendRecord
<1>3. FarBring
  BY <1>1, FarFacts, FarHead DEF Still
<1>4. Alone /\ plan' = <<>>
  <2>1. InsertRemote # AppendRemote /\ InsertRemote # AppendUnclean
    BY DEF AppendRemote, AppendUnclean, InsertRemote
  <2> QED
    BY <1>1, <1>3, <2>1, Tails DEF FarBring
<1>5. PICK r \in Record : /\ r = Rec(rem.id, flags, rem.data)
                          /\ r.id = rem.id /\ r.data = rem.data
  <2>1. rem.id \in Nat /\ rem.data \in Nat /\ flags \in SUBSET Flags
    BY ReadyFacts, RecordFacts DEF Still
  <2>2. Rec(rem.id, flags, rem.data) \in Record
    BY <2>1 DEF Rec, Record
  <2> QED
    BY <2>2 DEF Rec
<1>6. Own(rem, localdb) /\ Single(localdb) /\ localdb \in Seq(Record)
  <2>1. Reading
    BY DEF Still, NoRevival
  <2>2. Debt
    BY <1>1, <2>1 DEF Reading
  <2>3. Has(plan, AppendRemote) \/ Has(plan, AppendUnclean)
    <3>1. Len(plan) # 0 /\ plan \in Seq(Steps)
      BY <1>1 DEF Still, Ready, Inductive, TypeOK
    <3>2. 1 \in DOMAIN plan /\ plan[1] = Head(plan)
      BY <1>1, <3>1
    <3> QED
      BY <1>1, <3>2 DEF Has
  <2> QED
    BY <2>1, <2>2, <2>3, ReadyFacts DEF Debt, Reading, Still
<1>7. \A s \in Recs(localdb) : s.data # r.data
  <2> SUFFICES ASSUME NEW s \in Recs(localdb), s.data = r.data PROVE FALSE
    OBVIOUS
  <2>1. s.id = rem.id
    BY <1>5, <1>6 DEF Own
  <2> QED
    BY <1>4, <2>1 DEF Alone, Lacks, Recs
<1>8. Single(localdb')
  <2>1. Single(Append(localdb, r))
    BY <1>6, <1>7, SingleAppend
  <2> QED
    BY <1>2, <1>5, <2>1
<1>9. ~ Has(plan', UploadAsNew)
  BY <1>4 DEF Has
<1>10. li' = 0
  BY <1>1, <1>4 DEF Alone
<1>11. ASSUME NEW j \in DOMAIN localdb'
       PROVE  \/ \E k \in DOMAIN localdb \ {li} : localdb'[j] = localdb[k]
              \/ localdb'[j] = r
  <2>1. PICK a : a = Append(localdb, r) /\ a = localdb'
    BY <1>2, <1>5
  <2>2. \A i \in DOMAIN a : (i \in DOMAIN localdb /\ a[i] = localdb[i]) \/ a[i] = r
    <3>1. ASSUME NEW db \in Seq(Record)
          PROVE  LET b == Append(db, r) IN
                 \A i \in DOMAIN b : (i \in DOMAIN db /\ b[i] = db[i]) \/ b[i] = r
      <4>1. PICK b : b = Append(db, r)
        OBVIOUS
      <4>2. \A i \in DOMAIN b : (i \in DOMAIN db /\ b[i] = db[i]) \/ (b[i] = r /\ i = Len(db) + 1)
        BY <4>1, AppendRecs
      <4> QED
        BY <4>1, <4>2
    <3> QED
      BY <1>6, <2>1, <3>1
  <2>3. 0 \notin DOMAIN localdb
    BY <1>6, ListFacts
  <2> QED
    BY <1>1, <1>10, <1>11, <2>1, <2>2, <2>3
<1>12. Head(plan) \in BringSteps
  BY <1>1 DEF BringSteps
<1>13. ListQuiet
  BY <1>5, <1>9, <1>10, <1>11, <1>12 DEF ListQuiet
<1> QED
  BY <1>1, <1>8, <1>13, ReadingStep

LEMMA ReadInsert == ASSUME Still, pc = "remote", DoInsertRemote PROVE NoRevival'
<1>1. /\ plan # <<>> /\ plan' = Tail(plan) /\ Head(plan) = InsertRemote
      /\ localdb' = InsertRecord(localdb, li, Rec(rem.id, {}, rem.data))
      /\ UNCHANGED <<palm, pc, failed, seen, rem, li, gone, edits>>
  BY DEF DoInsertRemote, Step, NextStep, palmVars, fileVars, sessVars, userVars
<1>2. FarBring
  BY <1>1, FarFacts, FarHead DEF Still
<1>3. /\ li \in DOMAIN localdb /\ localdb \in Seq(Record) /\ rem.id # 0
      /\ plan' \in {<<>>, <<DeleteLocal>>}
  <2>1. AppendRemote # InsertRemote /\ AppendUnclean # InsertRemote
    BY DEF AppendRemote, AppendUnclean, InsertRemote
  <2>2. \/ plan = <<InsertRemote>> /\ li \in DOMAIN localdb
        \/ plan = <<InsertRemote, DeleteLocal>> /\ li \in DOMAIN localdb
    BY <1>1, <1>2, <2>1, Tails DEF FarBring, Sole, Ours
  <2>3. plan' \in {<<>>, <<DeleteLocal>>}
    <3>1. Tail(<<InsertRemote>>) = <<>> /\ Tail(<<InsertRemote, DeleteLocal>>) = <<DeleteLocal>>
      BY Tails
    <3>2. plan' = Tail(plan) /\ (plan = <<InsertRemote>> \/ plan = <<InsertRemote, DeleteLocal>>)
      BY <1>1, <2>2
    <3> QED
      BY <3>1, <3>2
  <2> QED
    BY <1>1, <2>2, <2>3, FarFacts, ReadyFacts DEF Still
<1>4. PICK r \in Record : /\ r = Rec(rem.id, {}, rem.data)
                          /\ r.id = rem.id /\ r.data = rem.data
  <2>1. rem.id \in Nat /\ rem.data \in Nat
    BY ReadyFacts, RecordFacts DEF Still
  <2>2. Rec(rem.id, {}, rem.data) \in Record
    BY <2>1 DEF Rec, Record
  <2> QED
    BY <2>2 DEF Rec
<1>5. Own(rem, localdb) /\ Single(localdb)
  <2>1. Reading
    BY DEF Still, NoRevival
  <2>2. Debt
    BY <1>1, <2>1 DEF Reading
  <2>3. Has(plan, InsertRemote)
    <3>1. Len(plan) # 0 /\ plan \in Seq(Steps)
      BY <1>1 DEF Still, Ready, Inductive, TypeOK
    <3>2. 1 \in DOMAIN plan /\ plan[1] = Head(plan)
      BY <1>1, <3>1
    <3> QED
      BY <1>1, <3>2 DEF Has
  <2> QED
    BY <2>1, <2>2, <2>3 DEF Debt, Reading
<1>6. Single(localdb')
  <2>1. Single(InsertRecord(localdb, li, r))
    BY <1>3, <1>4, <1>5, SingleInsert DEF Own
  <2> QED
    BY <1>1, <1>4, <2>1
<1>7. ~ Has(plan', UploadAsNew) /\ Head(plan) # DeleteLocal
  <2>1. PICK u : u = UploadAsNew
    OBVIOUS
  <2>2. ~ Has(<<>>, u) /\ \A a : Has(<<a>>, u) <=> u = a
    BY HasThese
  <2>3. DeleteLocal # UploadAsNew /\ InsertRemote # DeleteLocal
    BY DEF DeleteLocal, UploadAsNew, InsertRemote
  <2> QED
    BY <1>1, <1>3, <2>1, <2>2, <2>3
<1>8. /\ li \in Nat /\ Len(localdb) \in Nat /\ DOMAIN localdb = 1 .. Len(localdb)
  BY <1>3, ListFacts
<1>9. /\ DOMAIN localdb' = 1 .. (Len(localdb) + 1)
      /\ \A j \in DOMAIN localdb' :
            localdb'[j] = IF j <= li THEN localdb[j] ELSE IF j = li + 1 THEN r ELSE localdb[j - 1]
  BY <1>1, <1>4, <1>8 DEF InsertRecord
<1>10. ASSUME NEW j \in DOMAIN localdb', j # li
       PROVE  \/ \E k \in DOMAIN localdb \ {li} : localdb'[j] = localdb[k]
              \/ localdb'[j] = r
  <2>1. CASE j < li
    <3>1. j \in DOMAIN localdb \ {li} /\ localdb'[j] = localdb[j]
      BY <1>3, <1>8, <1>9, <1>10, <2>1
    <3> QED
      BY <3>1
  <2>2. CASE j = li + 1
    BY <1>8, <1>9, <2>2
  <2>3. CASE j > li + 1
    <3>1. j - 1 \in DOMAIN localdb \ {li} /\ localdb'[j] = localdb[j - 1]
      BY <1>3, <1>8, <1>9, <1>10, <2>3
    <3> QED
      BY <3>1
  <2> QED
    BY <1>8, <1>9, <1>10, <2>1, <2>2, <2>3
<1>11. localdb'[li] = localdb[li] /\ Localrec' = Localrec
  BY <1>1, <1>3, <1>8, <1>9 DEF Localrec
<1>12. Head(plan) \in BringSteps
  BY <1>1 DEF BringSteps
<1>13. ListQuiet
  BY <1>1, <1>3, <1>4, <1>7, <1>10, <1>11, <1>12 DEF ListQuiet
<1> QED
  BY <1>1, <1>6, <1>13, ReadingStep

(* The record in hand is uploaded: only there does the Palm get a record,  *)
(* with contents that nothing else in the list has.                        *)
LEMMA ReadUpload == ASSUME Still, pc = "remote", DoUpload PROVE NoRevival'
<1>1. /\ plan # <<>> /\ Head(plan) \in {UploadLocal, UploadAsNew} /\ UNCHANGED <<gone, edits>>
  BY DEF DoUpload, Step, userVars
<1>2. FarUpload
  BY <1>1, FarFacts, FarHead DEF Still
<1>3. /\ Sole /\ li \in DOMAIN localdb /\ Localrec = localdb[li] /\ Localrec.id = rem.id
      /\ localdb \in Seq(Record) /\ Localrec \in Record /\ rem.id \in seen /\ rem.id < nextId
      /\ rem.id \in Nat /\ nextId \in Nat
  <2>1. Sole
    BY <1>2 DEF FarUpload
  <2>2. rem.id \in seen
    BY <1>1 DEF Still, Ready, MirrorInv, Walking
  <2> QED
    BY <1>1, <2>1, <2>2, FarFacts, ReadyFacts DEF Sole, Still
<1>4. Reading /\ Debt
  BY <1>1 DEF Still, NoRevival, Reading
<1>5. UNCHANGED <<pc, failed>>
  BY StillCalls DEF DoUpload, Upload, Lost
<1>6. /\ UNCHANGED <<seen, rem, li>>
      /\ Uploaded
  BY <1>3, <1>5, UploadStep DEF Still, Fail
<1>7. PICK id \in Nat, newID \in Nat, q \in Record :
        /\ \/ Head(plan) = UploadLocal /\ id = Localrec.id
           \/ Head(plan) = UploadAsNew /\ id = 0
        /\ localdb' = [localdb EXCEPT ![li] = [Localrec EXCEPT !.id = newID]]
        /\ q.id = newID /\ q.data = Localrec.data /\ q.flags = {DIRTY}
        /\ Recs(palm') = {p \in Recs(palm) : p.id # newID} \cup {q}
        /\ newID = id \/ (newID = nextId /\ \A p \in Recs(palm) : p.id # id)
        /\ newID # 0
  <2> HIDE DEF Localrec
  <2> QED
    BY <1>6 DEF Uploaded
<1>8. PICK r \in Record :
        /\ DOMAIN localdb' = DOMAIN localdb /\ localdb'[li] = r
        /\ \A j \in DOMAIN localdb : j # li => localdb'[j] = localdb[j]
        /\ r.id = newID /\ r.data = Localrec.data
  <2>1. localdb' = [localdb EXCEPT ![li] = [localdb[li] EXCEPT !.id = newID]]
    BY <1>3, <1>7
  <2>2. PICK new : new = [localdb EXCEPT ![li] = [localdb[li] EXCEPT !.id = newID]]
    OBVIOUS
  <2>3. /\ DOMAIN new = DOMAIN localdb /\ \A j \in DOMAIN localdb : j # li => new[j] = localdb[j]
        /\ new[li].id = newID /\ new[li].data = localdb[li].data /\ new[li].flags = localdb[li].flags
        /\ new[li] \in Record
    BY <1>3, <2>2, RenamedRecs
  <2> QED
    BY <1>3, <2>1, <2>2, <2>3
<1>9. newID = rem.id \/ newID = nextId
  BY <1>3, <1>7
<1>10. PICK d : d = Localrec.data
  OBVIOUS
<1>11. ~ Has(plan, DeleteLocal) /\ (plan' # <<>> => plan' = <<InsertRemote>> /\ Has(plan, UploadAsNew) /\ Has(plan, InsertRemote))
  <2>1. \/ plan = <<UploadLocal>> /\ plan' = <<>>
        \/ plan = <<UploadAsNew, InsertRemote>> /\ plan' = <<InsertRemote>>
    <3>1. plan = <<UploadLocal>> \/ plan = <<UploadAsNew, InsertRemote>>
      BY <1>2 DEF FarUpload
    <3>2. plan' = Tail(plan)
      BY <1>6 DEF Uploaded
    <3> QED
      BY <3>1, <3>2, Tails
  <2>2. ASSUME NEW x
        PROVE  /\ \A a : Has(<<a>>, x) <=> x = a
               /\ \A a, b : Has(<<a, b>>, x) <=> x \in {a, b}
    BY HasThese
  <2>3. /\ Has(<<UploadAsNew, InsertRemote>>, UploadAsNew) /\ Has(<<UploadAsNew, InsertRemote>>, InsertRemote)
        /\ ~ Has(<<UploadLocal>>, DeleteLocal) /\ ~ Has(<<UploadAsNew, InsertRemote>>, DeleteLocal)
    <3>1. DeleteLocal \notin {UploadLocal, UploadAsNew, InsertRemote}
      BY DEF DeleteLocal, UploadLocal, UploadAsNew, InsertRemote
    <3> QED
      BY <2>2, <3>1
  <2> QED
    BY <2>1, <2>3
<1>12. ~ Deleted(d)
  <2>1. li # 0
    BY <1>3, ListFacts
  <2> QED
    BY <1>4, <1>10, <1>11, <2>1 DEF Debt
<1>13. \A j \in DOMAIN localdb : j # li => localdb[j].data # d
  <2> SUFFICES ASSUME NEW j \in DOMAIN localdb, j # li, localdb[j].data = d PROVE FALSE
    OBVIOUS
  <2>1. localdb[j].id = localdb[li].id
    BY <1>3, <1>4, <1>10 DEF Reading, Single
  <2> QED
    BY <1>3, <2>1 DEF Sole
<1>14. Single(localdb')
  BY <1>3, <1>4, <1>8, <1>10, <1>13, SingleChange DEF Reading
<1>15. /\ \A x : Deleted(x)' <=> Deleted(x)
       /\ \A x : Deleted(x)' => x <= Newest'
       /\ \A p : Unseen(p)' <=> Unseen(p)
  BY <1>1, <1>6, StillFacts DEF Unseen
<1>16. ASSUME NEW p \in Recs(palm), Unseen(p)
       PROVE  p.data # d /\ Own(p, localdb')
  <2>1. Own(p, localdb) /\ p.id # rem.id
    BY <1>3, <1>4, <1>16 DEF Reading, Unseen
  <2>2. p.data # d
    BY <1>3, <1>10, <2>1, ListFacts DEF Own
  <2>3. ASSUME NEW j \in DOMAIN localdb, localdb'[j].data = p.data PROVE localdb'[j].id = p.id
    <3>1. j # li
      BY <1>8, <1>10, <2>2, <2>3
    <3> QED
      BY <1>3, <1>8, <2>1, <2>3, <3>1, ListFacts DEF Own
  <2> QED
    BY <1>8, <2>2, <2>3 DEF Own, Recs
<1>17. \A s \in Recs(localdb') : s.data = d => s.id = newID
  <2> SUFFICES ASSUME NEW j \in DOMAIN localdb, localdb'[j].data = d PROVE localdb'[j].id = newID
    BY <1>8 DEF Recs
  <2>1. j = li
    BY <1>8, <1>13
  <2> QED
    BY <1>8, <2>1
<1>18. \A p, x \in Recs(palm') : Unseen(p)' /\ Unseen(x)' /\ p.data = x.data => p = x
  BY <1>4, <1>7, <1>10, <1>15, <1>16 DEF Reading
<1>19. ASSUME NEW p \in Recs(palm'), Unseen(p)' PROVE ~ Deleted(p.data)' /\ Own(p, localdb')
  <2>1. CASE p = q
    BY <1>7, <1>10, <1>12, <1>15, <1>17, <2>1 DEF Own
  <2>2. CASE p \in Recs(palm)
    BY <1>4, <1>15, <1>16, <1>19, <2>2 DEF Reading
  <2> QED
    BY <1>7, <2>1, <2>2
<1>20. ASSUME NEW j \in DOMAIN localdb', IsLive(localdb'[j]), Deleted(localdb'[j].data)
       PROVE  Ahead(localdb[j])'
  <2>1. j # li
    BY <1>8, <1>10, <1>12, <1>20
  <2>2. PICK s : s = localdb[j] /\ s = localdb'[j]
    BY <1>8, <2>1
  <2>3. Ahead(s)
    BY <1>4, <1>8, <1>11, <1>20, <2>2 DEF Reading
  <2>4. PICK p \in Recs(palm) : ~ IsLive(p) /\ p.id = s.id /\ p.id \notin seen
    BY <2>3 DEF Ahead
  <2>5. p \in Recs(palm')
    <3>1. p.id # rem.id /\ p.id # nextId
      <4>1. p.id \in Nat /\ p.id < nextId
        BY <2>4, ReadyFacts, RecordFacts DEF Still
      <4> QED
        BY <1>3, <2>4, <4>1
    <3> QED
      BY <1>7, <1>9, <2>4, <3>1
  <2> QED
    BY <1>6, <2>2, <2>3, <2>4, <2>5 DEF Ahead
<1>21. ASSUME plan' # <<>> PROVE Debt'
  <2>1. /\ plan' = <<InsertRemote>> /\ d # rem.data /\ ~ Deleted(rem.data) /\ Own(rem, localdb)
        /\ \A p \in Recs(palm) : Unseen(p) => p.data # rem.data
    BY <1>4, <1>10, <1>11, <1>21 DEF Debt
  <2>2. ~ Deleted(Localrec.data)'
    <3>1. Localrec'.data = d
      BY <1>6, <1>8, <1>10 DEF Localrec
    <3> QED
      BY <1>1, <1>12, <3>1 DEF Deleted
  <2>3. ~ Has(plan', UploadAsNew)
    <3>1. PICK u : u = UploadAsNew
      OBVIOUS
    <3>2. \A a : Has(<<a>>, u) <=> u = a
      BY HasThese
    <3>3. InsertRemote # UploadAsNew
      BY DEF InsertRemote, UploadAsNew
    <3> QED
      BY <2>1, <3>1, <3>2, <3>3
  <2>4. ~ Deleted(rem.data)'
    BY <1>1, <1>6, <2>1 DEF Deleted
  <2>5. Own(rem, localdb')
    <3> SUFFICES ASSUME NEW j \in DOMAIN localdb, localdb'[j].data = rem.data PROVE localdb'[j].id = rem.id
      BY <1>8 DEF Own, Recs
    <3>1. j # li
      BY <1>8, <1>10, <2>1
    <3> QED
      BY <1>3, <1>8, <2>1, <3>1, ListFacts DEF Own
  <2>6. \A p \in Recs(palm') : Unseen(p)' => p.data # rem.data
    BY <1>7, <1>10, <1>15, <2>1
  <2> QED
    BY <1>6, <2>2, <2>3, <2>4, <2>5, <2>6 DEF Debt
<1>22. Reading'
  BY <1>14, <1>15, <1>18, <1>19, <1>20, <1>21 DEF Reading
<1> QED
  BY <1>5, <1>15, <1>22 DEF Still, NoRevival

(* What the plan for a modified record of the Palm has.                    *)
LEMMA HasLists ==
    /\ \A x : ~ Has(<<>>, x)
    /\ \A a, x : Has(<<a>>, x) <=> x = a
    /\ \A a, b, x : Has(<<a, b>>, x) <=> x \in {a, b}
    /\ \A a, b, c, x : Has(<<a, b, c>>, x) <=> x \in {a, b, c}
    /\ \A a, b, c, d, x : Has(<<a, b, c, d>>, x) <=> x \in {a, b, c, d}
<1>1. ASSUME NEW x PROVE ~ Has(<<>>, x)
  BY HasThese
<1>2. ASSUME NEW a, NEW x PROVE Has(<<a>>, x) <=> x = a
  BY HasThese
<1>3. ASSUME NEW a, NEW b, NEW x PROVE Has(<<a, b>>, x) <=> x \in {a, b}
  BY HasThese
<1>4. ASSUME NEW a, NEW b, NEW c, NEW x PROVE Has(<<a, b, c>>, x) <=> x \in {a, b, c}
  BY HasThese
<1>5. ASSUME NEW a, NEW b, NEW c, NEW d, NEW x PROVE Has(<<a, b, c, d>>, x) <=> x \in {a, b, c, d}
  BY HasThese
<1> QED
  BY <1>1, <1>2, <1>3, <1>4, <1>5

LEMMA PlanHas ==
    ASSUME NEW l \in Record, NEW p \in Record, Polite(l), Polite(p), p.flags # {}
    PROVE  LET q == SyncRecordPlan(l, p) IN
           /\ Status(l) # "dirty" => Has(q, DeleteLocal)
           /\ Has(q, UploadAsNew) => l.data # p.data
           /\ (\E x \in BringSteps : Has(q, x)) => IsLive(p)
<1>1. PICK q : q = SyncRecordPlan(l, p)
  OBVIOUS
<1> DEFINE Others == {ArchiveLocal, ArchiveRemote, ClearLocal, DeleteLocal, DeleteRemote, UploadLocal}
<1>0. \A x \in Others : x # UploadAsNew /\ x \notin BringSteps
  BY DEF ArchiveLocal, ArchiveRemote, ClearLocal, DeleteLocal, DeleteRemote, UploadLocal, UploadAsNew,
         BringSteps, AppendRemote, AppendUnclean, InsertRemote
<1>2. /\ Status(l) \in {"archived", "expunged", "dirty", "clean"}
      /\ Status(p) \in {"archived", "expunged", "dirty"}
      /\ Status(p) = "dirty" => IsLive(p)
  BY PoliteFacts DEF Statuses
<1>3. CASE Status(p) = "archived"
  <2>1. CASE Status(l) = "dirty"
    <3>1. q = <<ArchiveRemote, ClearLocal, UploadLocal>>
      BY <1>1, <1>3, <2>1, TableRows
    <3>2. \A x : Has(q, x) <=> x \in {ArchiveRemote, ClearLocal, UploadLocal}
      BY <3>1, HasLists
    <3> QED
      BY <1>0, <1>1, <2>1, <3>2
  <2>2. CASE Status(l) # "dirty"
    <3>1. \/ q = <<ArchiveLocal, DeleteRemote, DeleteLocal>>
          \/ q = <<ArchiveLocal, ArchiveRemote, DeleteRemote, DeleteLocal>>
          \/ q = <<ArchiveRemote, DeleteRemote, DeleteLocal>>
          \/ q = <<ArchiveRemote, DeleteLocal>>
      BY <1>1, <1>2, <1>3, <2>2, TableRows
    <3>2. \/ \A x : Has(q, x) <=> x \in {ArchiveLocal, DeleteRemote, DeleteLocal}
          \/ \A x : Has(q, x) <=> x \in {ArchiveLocal, ArchiveRemote, DeleteRemote, DeleteLocal}
          \/ \A x : Has(q, x) <=> x \in {ArchiveRemote, DeleteRemote, DeleteLocal}
          \/ \A x : Has(q, x) <=> x \in {ArchiveRemote, DeleteLocal}
      BY <3>1, HasLists
    <3> QED
      BY <1>0, <1>1, <3>2
  <2> QED
    BY <2>1, <2>2
<1>4. CASE Status(p) = "expunged"
  <2>1. CASE Status(l) = "dirty"
    <3>1. q = <<DeleteRemote, ClearLocal, UploadLocal>>
      BY <1>1, <1>4, <2>1, TableRows
    <3>2. \A x : Has(q, x) <=> x \in {DeleteRemote, ClearLocal, UploadLocal}
      BY <3>1, HasLists
    <3> QED
      BY <1>0, <1>1, <2>1, <3>2
  <2>2. CASE Status(l) # "dirty"
    <3>1. \/ q = <<ClearLocal, ArchiveLocal, DeleteLocal>>
          \/ q = <<DeleteLocal>>
      BY <1>1, <1>2, <1>4, <2>2, TableRows
    <3>2. \/ \A x : Has(q, x) <=> x \in {ClearLocal, ArchiveLocal, DeleteLocal}
          \/ \A x : Has(q, x) <=> x \in {DeleteLocal}
      BY <3>1, HasLists
    <3> QED
      BY <1>0, <1>1, <3>2
  <2> QED
    BY <2>1, <2>2
<1>5. CASE Status(p) = "dirty"
  <2>1. CASE Status(l) = "dirty" /\ l.data # p.data
    BY <1>2, <1>5, <2>1
  <2>2. CASE Status(l) = "dirty" /\ l.data = p.data
    <3>1. q = <<ClearLocal>>
      BY <1>1, <1>5, <2>2, TableRows
    <3>2. \A x : Has(q, x) <=> x = ClearLocal
      BY <3>1, HasLists
    <3>3. ~ Has(q, UploadAsNew)
      BY <3>2 DEF ClearLocal, UploadAsNew
    <3> QED
      BY <1>1, <1>2, <1>5, <2>2, <3>3
  <2>3. CASE Status(l) # "dirty"
    <3>1. \/ q = <<ClearLocal, ArchiveLocal, DeleteLocal, AppendUnclean>>
          \/ q = <<DeleteLocal, AppendRemote>>
          \/ q = <<InsertRemote, DeleteLocal>>
      BY <1>1, <1>2, <1>5, <2>3, TableRows
    <3>2. \/ \A x : Has(q, x) <=> x \in {ClearLocal, ArchiveLocal, DeleteLocal, AppendUnclean}
          \/ \A x : Has(q, x) <=> x \in {DeleteLocal, AppendRemote}
          \/ \A x : Has(q, x) <=> x \in {InsertRemote, DeleteLocal}
      BY <3>1, HasLists
    <3>3. Has(q, DeleteLocal) /\ ~ Has(q, UploadAsNew)
      <4>1. AppendUnclean # UploadAsNew /\ AppendRemote # UploadAsNew /\ InsertRemote # UploadAsNew
        BY DEF AppendUnclean, AppendRemote, InsertRemote, UploadAsNew
      <4> QED
        BY <1>0, <3>2, <4>1
    <3> QED
      BY <1>1, <1>2, <1>5, <3>3
  <2> QED
    BY <2>1, <2>2, <2>3
<1> QED
  BY <1>2, <1>3, <1>4, <1>5

LEMMA ReadNext == ASSUME Still, NextRemoteFast PROVE NoRevival'
<1>1. /\ pc = "remote" /\ mode = "fast" /\ plan = <<>> /\ Reading
      /\ UNCHANGED <<palm, pc, failed, localdb, gone, edits>>
  BY DEF NextRemoteFast, Still, NoRevival, palmVars, sessVars, userVars
<1>2. PICK i \in Unread : Decide(palm[i], FastNewPlan(palm[i]))
  BY DEF NextRemoteFast
<1>3. PICK p : p = palm[i] /\ p \in Recs(palm) /\ p.flags # {} /\ p.id \notin seen
  BY <1>2 DEF Unread, Recs
<1>4. p \in Record /\ Polite(p) /\ p.id # 0 /\ p.id \in Nat
  BY <1>3, ReadyFacts, RecordFacts DEF Still, Ready, MirrorInv, AllPolite
<1>5. PICK k : k = FindRecordByID(localdb, p.id)
  OBVIOUS
<1>6. /\ li' = k /\ seen' = seen \cup {p.id} /\ rem' = p
      /\ k = 0 => plan' = FastNewPlan(p)
      /\ k # 0 => plan' = SyncRecordPlan(localdb[k], p)
  BY <1>1, <1>2, <1>3, <1>5 DEF Decide
<1>7. /\ k # 0 => k \in DOMAIN localdb /\ localdb[k].id = p.id
      /\ k = 0 => Lacks(localdb, p.id)
  BY <1>4, <1>5, ReadyFacts, FindFacts DEF Still
<1>8. /\ Distinct(localdb) /\ localdb \in Seq(Record)
      /\ \A q \in Recs(palm) : q.id = p.id => q = p
  BY <1>1, <1>3, ReadyFacts, NoPlanIds DEF Still, Ready
<1>9. /\ \A x : Deleted(x)' <=> Deleted(x)
      /\ \A x : Deleted(x)' => x <= Newest'
  BY <1>1, StillFacts
<1>10. \A x : Unseen(x)' => Unseen(x) /\ x.id # p.id
  BY <1>6 DEF Unseen
<1>11. IsLive(p) => /\ ~ Deleted(p.data) /\ Own(p, localdb)
                    /\ \A x \in Recs(palm) : Unseen(x)' => x.data # p.data
  <2> SUFFICES ASSUME IsLive(p)
               PROVE  /\ ~ Deleted(p.data) /\ Own(p, localdb)
                      /\ \A x \in Recs(palm) : Unseen(x)' => x.data # p.data
    OBVIOUS
  <2>1. Unseen(p)
    BY <1>3 DEF Unseen
  <2> QED
    BY <1>1, <1>3, <1>10, <2>1 DEF Reading
<1>12. ASSUME k # 0
       PROVE  /\ Status(localdb[k]) # "dirty" => Has(plan', DeleteLocal)
              /\ Has(plan', UploadAsNew) => localdb[k].data # p.data
              /\ (\E x \in BringSteps : Has(plan', x)) => IsLive(p)
              /\ Status(localdb[k]) = "dirty" => localdb[k].flags = {DIRTY} /\ IsLive(localdb[k])
              /\ localdb[k] \in Record
  <2>1. PICK l \in Record : l = localdb[k] /\ Polite(l)
    BY <1>7, <1>8, <1>12, ListFacts DEF Still, Ready, MirrorInv, AllPolite
  <2>2. PICK q : q = SyncRecordPlan(l, p)
    OBVIOUS
  <2>3. /\ Status(l) # "dirty" => Has(q, DeleteLocal)
        /\ Has(q, UploadAsNew) => l.data # p.data
        /\ (\E x \in BringSteps : Has(q, x)) => IsLive(p)
    BY <1>3, <1>4, <2>1, <2>2, PlanHas
  <2>4. plan' = q
    BY <1>6, <1>12, <2>1, <2>2
  <2>5. Status(l) = "dirty" => l.flags = {DIRTY} /\ IsLive(l)
    BY <2>1, PoliteFacts
  <2> QED
    BY <2>1, <2>3, <2>4, <2>5
<1>13. ASSUME k = 0
       PROVE  /\ ~ Has(plan', UploadAsNew)
              /\ (\E x \in BringSteps : Has(plan', x)) => IsLive(p)
  <2>1. PICK q : q = plan'
    OBVIOUS
  <2>2. q = <<ArchiveRemote>> \/ q = <<>> \/ (q = <<AppendRemote>> /\ ARCHIVE \notin p.flags /\ EXPUNGED \notin p.flags)
    BY <1>6, <1>13, <2>1 DEF FastNewPlan
  <2>3. \/ \A x : Has(q, x) <=> x = ArchiveRemote
        \/ \A x : ~ Has(q, x)
        \/ (\A x : Has(q, x) <=> x = AppendRemote) /\ ARCHIVE \notin p.flags /\ EXPUNGED \notin p.flags
    BY <2>2, HasLists
  <2>4. ARCHIVE \notin p.flags /\ EXPUNGED \notin p.flags => IsLive(p)
    <3>1. ARCHIVE \notin p.flags /\ EXPUNGED \notin p.flags => p.flags \subseteq {DIRTY}
      BY <1>4, PoliteFacts
    <3>2. p.flags \subseteq {DIRTY} => IsLive(p)
      BY DEF IsLive, DIRTY, DELETED, ARCHIVE, EXPUNGED
    <3> QED
      BY <3>1, <3>2
  <2>5. ~ Has(q, UploadAsNew) /\ ((\E x \in BringSteps : Has(q, x)) => IsLive(p))
    BY <2>3, <2>4 DEF UploadAsNew, ArchiveRemote, AppendRemote, AppendUnclean, InsertRemote, BringSteps
  <2> QED
    BY <2>1, <2>5
<1>14. ASSUME NEW j \in DOMAIN localdb, IsLive(localdb[j]), Deleted(localdb[j].data)
       PROVE  Ahead(localdb[j])' \/ (j = k /\ Has(plan', DeleteLocal))
  <2>1. PICK l : l = localdb[j]
    OBVIOUS
  <2>2. ~ Has(plan, DeleteLocal)
    BY <1>1, HasLists
  <2>3. Ahead(l)
    BY <1>1, <1>14, <2>1, <2>2 DEF Reading
  <2>4. PICK x \in Recs(palm) : ~ IsLive(x) /\ x.id = l.id /\ x.id \notin seen
    BY <2>3 DEF Ahead
  <2>5. CASE x.id # p.id
    <3>1. Ahead(l)'
      BY <1>1, <1>6, <2>3, <2>4, <2>5 DEF Ahead
    <3> QED
      BY <1>1, <2>1, <3>1 DEF Ahead
  <2>6. CASE x.id = p.id
    <3>1. j = k /\ k # 0
      <4>1. k # 0
        BY <1>7, <2>1, <2>4, <2>6 DEF Lacks
      <4> QED
        BY <1>4, <1>7, <1>8, <2>1, <2>4, <2>6, <4>1 DEF Distinct
    <3>2. Status(localdb[k]) # "dirty"
      BY <1>12, <2>1, <2>3, <3>1 DEF Ahead
    <3> QED
      BY <1>12, <3>1, <3>2
  <2> QED
    BY <2>5, <2>6
<1>15. Debt'
  <2>1. ASSUME k # 0 PROVE Has(plan', DeleteLocal) \/ ~ Deleted(localdb[k].data)
    <3> SUFFICES ASSUME ~ Has(plan', DeleteLocal), Deleted(localdb[k].data) PROVE FALSE
      OBVIOUS
    <3>1. PICK l : l = localdb[k] /\ IsLive(l) /\ l.flags = {DIRTY}
      BY <1>12, <2>1
    <3>2. ~ Has(plan, DeleteLocal)
      BY <1>1, HasLists
    <3>3. Ahead(l)
      BY <1>1, <1>7, <2>1, <3>1, <3>2 DEF Reading
    <3> QED
      BY <3>1, <3>3 DEF Ahead
  <2>2. li' # 0 => Has(plan', DeleteLocal) \/ ~ Deleted(Localrec.data)'
    <3> SUFFICES ASSUME k # 0 PROVE Has(plan', DeleteLocal) \/ ~ Deleted(Localrec.data)'
      BY <1>6
    <3>1. Localrec' = localdb[k]
      BY <1>1, <1>6 DEF Localrec
    <3>2. Deleted(Localrec.data)' <=> Deleted(localdb[k].data)
      BY <1>1, <3>1 DEF Deleted
    <3> QED
      BY <2>1, <3>2
  <2>3. Has(plan', UploadAsNew) => Localrec'.data # rem'.data
    BY <1>1, <1>6, <1>12, <1>13 DEF Localrec
  <2>4. ASSUME Has(plan', AppendRemote) \/ Has(plan', AppendUnclean) \/ Has(plan', InsertRemote)
        PROVE  /\ ~ Deleted(rem.data)' /\ Own(rem', localdb')
               /\ \A x \in Recs(palm') : Unseen(x)' => x.data # rem'.data
    <3>1. IsLive(p)
      BY <1>12, <1>13, <2>4 DEF BringSteps
    <3>2. Deleted(rem.data)' <=> Deleted(p.data)
      BY <1>1, <1>6 DEF Deleted
    <3> QED
      BY <1>1, <1>6, <1>11, <3>1, <3>2
  <2> QED
    BY <2>2, <2>3, <2>4 DEF Debt
<1>16. Reading'
  <2>1. Single(localdb')
    BY <1>1 DEF Reading
  <2>2. \A x, y \in Recs(palm') : Unseen(x)' /\ Unseen(y)' /\ x.data = y.data => x = y
    BY <1>1, <1>10 DEF Reading
  <2>3. \A x \in Recs(palm') : Unseen(x)' => ~ Deleted(x.data)' /\ Own(x, localdb')
    BY <1>1, <1>9, <1>10 DEF Reading
  <2>4. ASSUME NEW j \in DOMAIN localdb', IsLive(localdb'[j]), Deleted(localdb'[j].data)
        PROVE  Ahead(localdb[j])' \/ (j = li' /\ Has(plan', DeleteLocal))
    BY <1>1, <1>6, <1>14, <2>4
  <2> QED
    BY <1>9, <1>15, <2>1, <2>2, <2>3, <2>4 DEF Reading
<1> QED
  BY <1>1, <1>9, <1>16 DEF Still, NoRevival

(* No modified record of the Palm is left, and no deletion of it.          *)
LEMMA ReadDone == ASSUME Still, RemoteDone PROVE NoRevival'
<1>1. /\ pc = "remote" /\ plan = <<>> /\ Reading /\ Unread = {} /\ pc' = "local"
      /\ UNCHANGED <<palm, failed, localdb, plan, gone, edits>>
  BY SessionFacts DEF RemoteDone, Still, NoRevival, palmVars, userVars
<1>2. /\ \A x : Deleted(x)' <=> Deleted(x)
      /\ \A x : Deleted(x)' => x <= Newest'
  BY <1>1, StillFacts
<1>3. \A r : ~ Ahead(r)
  <2> SUFFICES ASSUME NEW p \in Recs(palm), ~ IsLive(p), p.id \notin seen PROVE FALSE
    BY DEF Ahead
  <2>1. PICK i \in DOMAIN palm : p = palm[i]
    BY DEF Recs
  <2>2. p.flags # {}
    BY DEF IsLive
  <2> QED
    BY <1>1, <2>1, <2>2 DEF Unread
<1>4. \A j \in DOMAIN localdb : IsLive(localdb[j]) => ~ Deleted(localdb[j].data)
  <2>1. ~ Has(plan, DeleteLocal)
    BY <1>1, HasLists
  <2> QED
    BY <1>1, <1>3, <2>1 DEF Reading
<1>5. Purging'
  <2>1. Single(localdb')
    BY <1>1 DEF Reading
  <2> QED
    BY <1>1, <1>2, <1>4, <2>1 DEF Purging
<1> QED
  BY <1>1, <1>2, <1>5 DEF Still, NoRevival

(* The second phase, one record after the other.                           *)
LEMMA PurgeNext == ASSUME Still, NextLocal PROVE NoRevival'
<1>1. /\ pc = "local" /\ mode = "fast" /\ plan = <<>> /\ Purging
      /\ UNCHANGED <<pc, failed, localdb, gone, edits>>
      /\ li < Len(localdb) /\ li' = li + 1 /\ plan' = LocalPlan(localdb[li + 1])
  BY SessionFacts DEF NextLocal, Still, NoRevival, sessVars, userVars
<1>2. /\ \A x : Deleted(x)' <=> Deleted(x)
      /\ \A x : Deleted(x)' => x <= Newest'
  BY <1>1, StillFacts
<1>3. \A j \in DOMAIN localdb : IsLive(localdb[j]) => ~ Deleted(localdb[j].data)
  <2>1. ~ Has(plan, PurgeLocal)
    BY <1>1, HasLists
  <2> QED
    BY <1>1, <2>1 DEF Purging
<1>4. PICK r \in Record : r = localdb[li'] /\ li' \in DOMAIN localdb /\ Polite(r)
  <2>1. li' \in DOMAIN localdb
    BY <1>1, ReadyFacts, ListFacts DEF Still
  <2> QED
    BY <2>1, ReadyFacts, ListFacts DEF Still, Ready, MirrorInv, AllPolite
<1>5. plan' = FastLocalPlan(r) /\ Localrec' = r
  BY <1>1, <1>4 DEF LocalPlan, Localrec
<1>6. plan' # <<>> => Has(plan', PurgeLocal) \/ ~ Deleted(r.data)
  <2>1. CASE ToArchive(r) \/ EXPUNGED \in r.flags
    <3>1. PICK q : q = plan'
      OBVIOUS
    <3>2. q = <<ClearLocal, ArchiveLocal, PurgeLocal>> \/ q = <<PurgeLocal>>
      BY <1>5, <2>1, <3>1 DEF FastLocalPlan
    <3>3. \/ \A x : Has(q, x) <=> x \in {ClearLocal, ArchiveLocal, PurgeLocal}
          \/ \A x : Has(q, x) <=> x = PurgeLocal
      BY <3>2, HasLists
    <3> QED
      BY <3>1, <3>3
  <2>2. CASE ~ ToArchive(r) /\ EXPUNGED \notin r.flags
    <3>1. r.flags \subseteq {DIRTY}
      BY <1>4, <2>2 DEF Polite, ToArchive
    <3>2. IsLive(r)
      BY <3>1 DEF IsLive, DIRTY, DELETED, ARCHIVE, EXPUNGED
    <3> QED
      BY <1>3, <1>4, <3>2
  <2> QED
    BY <2>1, <2>2
<1>7. plan' # <<>> => Has(plan', PurgeLocal) \/ ~ Deleted(Localrec.data)'
  <2>1. Deleted(Localrec.data)' <=> Deleted(r.data)
    BY <1>1, <1>5 DEF Deleted
  <2> QED
    BY <1>6, <2>1
<1>8. Purging'
  <2>1. Single(localdb')
    BY <1>1 DEF Purging
  <2> QED
    BY <1>1, <1>2, <1>3, <1>7, <2>1 DEF Purging
<1> QED
  BY <1>1, <1>2, <1>8 DEF Still, NoRevival

LEMMA PurgingStep ==
    ASSUME Still, pc = "local", plan # <<>>, plan' = Tail(plan),
           UNCHANGED <<pc, failed, gone, edits>>, Single(localdb'),
           Head(plan) # PurgeLocal \/ plan' = <<>>,
           plan' # <<>> => Localrec'.data = Localrec.data,
           \A j \in DOMAIN localdb' :
              \/ /\ Head(plan) # PurgeLocal /\ j = li' /\ j = li /\ j \in DOMAIN localdb
                 /\ localdb'[j].data = localdb[j].data
              \/ \E k \in DOMAIN localdb \ {li} : localdb'[j] = localdb[k]
    PROVE  NoRevival'
<1>1. Purging /\ ~ failed /\ plan \in Seq(Steps)
  BY DEF Still, NoRevival, Ready, Inductive, TypeOK
<1>2. /\ \A x : Deleted(x)' <=> Deleted(x)
      /\ \A x : Deleted(x)' => x <= Newest'
  BY StillFacts
<1>3. Has(plan, PurgeLocal) /\ Head(plan) # PurgeLocal => Has(plan', PurgeLocal)
  BY <1>1, HasRest
<1>4. Has(plan, PurgeLocal) \/ ~ Deleted(Localrec.data)
  BY <1>1 DEF Purging
<1>5. ASSUME NEW j \in DOMAIN localdb', IsLive(localdb'[j]), Deleted(localdb'[j].data)
      PROVE  j = li' /\ Has(plan', PurgeLocal)
  <2>1. ASSUME NEW k \in DOMAIN localdb \ {li}, localdb'[j] = localdb[k] PROVE FALSE
    BY <1>1, <1>5, <2>1 DEF Purging
  <2>2. ASSUME Head(plan) # PurgeLocal, j = li', j = li, localdb'[j].data = localdb[j].data
        PROVE  Has(plan', PurgeLocal)
    <3>1. Localrec.data = localdb'[j].data
      BY <2>2 DEF Localrec
    <3> QED
      BY <1>3, <1>4, <1>5, <2>2, <3>1
  <2> QED
    BY <2>1, <2>2
<1>6. ASSUME plan' # <<>> PROVE Has(plan', PurgeLocal) \/ ~ Deleted(Localrec.data)'
  <2>1. Deleted(Localrec.data)' <=> Deleted(Localrec.data)
    BY <1>6 DEF Deleted
  <2> QED
    BY <1>3, <1>4, <1>6, <2>1
<1>7. Purging'
  BY <1>2, <1>5, <1>6 DEF Purging
<1> QED
  BY <1>1, <1>2, <1>7 DEF NoRevival

LEMMA PurgeArchive == ASSUME Still, pc = "local", DoArchive PROVE NoRevival'
<1>1. /\ plan # <<>> /\ plan' = Tail(plan) /\ Head(plan) \in {ArchiveLocal, ArchiveRemote}
      /\ UNCHANGED <<pc, failed, localdb, li, gone, edits>>
  BY DEF DoArchive, Step, NextStep, sessVars, userVars
<1>2. Head(plan) # PurgeLocal /\ Localrec' = Localrec
  BY <1>1 DEF ArchiveLocal, ArchiveRemote, PurgeLocal, Localrec
<1>3. Single(localdb')
  BY <1>1 DEF Still, NoRevival, Purging
<1>4. \A j \in DOMAIN localdb' :
          \/ j = li /\ j \in DOMAIN localdb /\ localdb'[j].data = localdb[j].data
          \/ \E k \in DOMAIN localdb \ {li} : localdb'[j] = localdb[k]
  BY <1>1
<1> QED
  BY <1>1, <1>2, <1>3, <1>4, PurgingStep

LEMMA PurgeClear == ASSUME Still, pc = "local", DoClearLocal PROVE NoRevival'
<1>1. /\ plan # <<>> /\ plan' = Tail(plan) /\ Head(plan) = ClearLocal
      /\ localdb' = ClearStatusFlags(localdb, li)
      /\ UNCHANGED <<pc, failed, li, gone, edits>>
  BY DEF DoClearLocal, Step, NextStep, sessVars, userVars
<1>2. li \in DOMAIN localdb /\ localdb \in Seq(Record)
  BY <1>1, NearFacts DEF Still
<1>3. PICK r \in Record :
        /\ r.id = Localrec.id /\ r.data = Localrec.data /\ r.flags = {}
        /\ DOMAIN localdb' = DOMAIN localdb /\ localdb'[li] = r
        /\ \A j \in DOMAIN localdb : j # li => localdb'[j] = localdb[j]
  BY <1>1, <1>2, ClearedRecs
<1>4. \A j \in DOMAIN localdb : localdb'[j].id = localdb[j].id /\ localdb'[j].data = localdb[j].data
  BY <1>2, <1>3 DEF Localrec
<1>5. Single(localdb')
  BY <1>3, <1>4, SingleSame DEF Still, NoRevival, Purging
<1>6. Head(plan) # PurgeLocal
  BY <1>1 DEF ClearLocal, PurgeLocal
<1>7. Localrec'.data = Localrec.data
  BY <1>1, <1>3 DEF Localrec
<1>8. \A j \in DOMAIN localdb' :
          \/ j = li /\ j \in DOMAIN localdb /\ localdb'[j].data = localdb[j].data
          \/ \E k \in DOMAIN localdb \ {li} : localdb'[j] = localdb[k]
  BY <1>3, <1>4
<1> QED
  BY <1>1, <1>5, <1>6, <1>7, <1>8, PurgingStep

LEMMA PurgeUpload == ASSUME Still, pc = "local", DoUpload PROVE NoRevival'
<1>1. plan # <<>> /\ Head(plan) \in {UploadLocal, UploadAsNew} /\ UNCHANGED <<gone, edits>>
  BY DEF DoUpload, Step, userVars
<1>2. /\ Distinct(localdb) /\ li \in DOMAIN localdb /\ Localrec = localdb[li]
      /\ Localrec \in Record /\ localdb \in Seq(Record)
      /\ plan = <<UploadLocal>> /\ Tail(plan) = <<>>
  <2>1. UploadAsNew \notin {ClearLocal, ArchiveLocal, PurgeLocal, UploadLocal}
    BY DEF ClearLocal, PurgeLocal, UploadLocal, ArchiveLocal, UploadAsNew
  <2>2. Head(plan) = UploadLocal
    BY <1>1, <2>1, NearFacts DEF Still
  <2> QED
    BY <1>1, <2>2, NearFacts, NearHead, Tails DEF Still
<1>3. UNCHANGED <<pc, failed>>
  BY StillCalls DEF DoUpload, Upload, Lost
<1>4. Uploaded /\ li' = li
  BY <1>2, <1>3, UploadStep DEF Still, Fail
<1>5. PICK newID \in Nat : localdb' = [localdb EXCEPT ![li] = [localdb[li] EXCEPT !.id = newID]]
  BY <1>2, <1>4 DEF Uploaded
<1>6. PICK r : /\ DOMAIN localdb' = DOMAIN localdb /\ localdb'[li] = r
               /\ \A j \in DOMAIN localdb : j # li => localdb'[j] = localdb[j]
               /\ r.data = localdb[li].data
  <2>1. PICK new : new = [localdb EXCEPT ![li] = [localdb[li] EXCEPT !.id = newID]]
    OBVIOUS
  <2>2. /\ DOMAIN new = DOMAIN localdb /\ \A j \in DOMAIN localdb : j # li => new[j] = localdb[j]
        /\ new[li].id = newID /\ new[li].data = localdb[li].data /\ new[li].flags = localdb[li].flags
        /\ new[li] \in Record
    BY <1>2, <2>1, RenamedRecs
  <2> QED
    BY <1>5, <2>1, <2>2
<1>7. \A j \in DOMAIN localdb : j # li => localdb[j].data # r.data
  <2> SUFFICES ASSUME NEW j \in DOMAIN localdb, j # li, localdb[j].data = localdb[li].data PROVE FALSE
    BY <1>6
  <2>1. localdb[j].id = localdb[li].id /\ localdb[j].id # 0
    BY <1>2 DEF Still, NoRevival, Purging, Single
  <2> QED
    BY <1>2, <2>1 DEF Distinct
<1>8. Single(localdb')
  BY <1>2, <1>6, <1>7, SingleChange DEF Still, NoRevival, Purging
<1>9. plan' = <<>> /\ Head(plan) # PurgeLocal
  <2>1. UploadLocal # PurgeLocal
    BY DEF UploadLocal, PurgeLocal
  <2> QED
    BY <1>2, <1>4, <2>1, Tails DEF Uploaded
<1>10. \A j \in DOMAIN localdb' :
          \/ j = li /\ j \in DOMAIN localdb /\ localdb'[j].data = localdb[j].data
          \/ \E k \in DOMAIN localdb \ {li} : localdb'[j] = localdb[k]
  BY <1>6
<1> QED
  BY <1>1, <1>2, <1>3, <1>4, <1>8, <1>9, <1>10, PurgingStep

LEMMA PurgeRemove == ASSUME Still, pc = "local", DoPurgeLocal PROVE NoRevival'
<1>1. plan # <<>> /\ Head(plan) = PurgeLocal /\ UNCHANGED <<gone, edits>>
  BY DEF DoPurgeLocal, Step, userVars
<1>2. /\ Sending /\ Distinct(localdb) /\ li \in DOMAIN localdb
      /\ localdb \in Seq(Record) /\ li \in Nat /\ plan = <<PurgeLocal>> /\ Tail(plan) = <<>>
  <2>1. plan = <<PurgeLocal>>
    BY <1>1, NearHead DEF Still
  <2> QED
    BY <1>1, <2>1, NearFacts, Tails DEF Still
<1>3. Unlink /\ plan' = <<>> /\ UNCHANGED <<pc, failed>>
  BY <1>2, StillCalls DEF DoPurgeLocal, Lost, NextStep
<1>4. \A j \in DOMAIN localdb : localdb[j].id = localdb[li].id => li <= j
  <2> SUFFICES ASSUME NEW j \in DOMAIN localdb, localdb[j].id = localdb[li].id, j < li PROVE FALSE
    BY <1>2, ListFacts
  <2>1. Present(localdb[j])
    BY <1>2 DEF Sending, Passed
  <2>2. localdb[j].id # 0
    BY <2>1, ReadyFacts DEF Still, Present
  <2> QED
    BY <1>2, <2>2 DEF Distinct
<1>5. PICK db \in Seq(Record), i \in DOMAIN localdb : db = localdb /\ i = li /\ i \in DOMAIN db
  BY <1>2
<1>6. localdb' = Without(db, i)
  <2>1. ASSUME NEW a \in Seq(Record), NEW j \in DOMAIN a, NEW x,
               \A k \in DOMAIN a : a[k].id = a[j].id => j <= k, x = DeleteRecordByID(a, a[j].id)
        PROVE  x = Without(a, j)
    BY <2>1, UnlinkFirst
  <2>2. PICK new : new = localdb' /\ new = DeleteRecordByID(db, db[i].id)
    BY <1>3, <1>5 DEF Unlink
  <2> QED
    BY <1>4, <1>5, <2>1, <2>2
<1>7. Single(localdb')
  BY <1>5, <1>6, SingleWithout DEF Still, NoRevival, Purging
<1>8. \A j \in DOMAIN localdb' : \E k \in DOMAIN localdb \ {li} : localdb'[j] = localdb[k]
  BY <1>5, <1>6, WithoutRecs
<1> QED
  BY <1>1, <1>2, <1>3, <1>7, <1>8, PurgingStep

(* At the end of the second phase everything in the list is live, and the  *)
(* Palm has it; so nothing that was deleted is in the list.                *)
LEMMA PurgeDone == ASSUME Still, LocalDone PROVE NoRevival'
<1>1. /\ pc = "local" /\ pc' = "write" /\ plan = <<>> /\ Purging
      /\ UNCHANGED <<failed, localdb, gone, edits>>
  BY DEF LocalDone, Still, NoRevival, workVars, userVars
<1>2. /\ \A x : Deleted(x)' <=> Deleted(x)
      /\ \A x : Deleted(x)' => x <= Newest'
  BY <1>1, StillFacts
<1>3. \A j \in DOMAIN localdb : IsLive(localdb[j])
  <2>1. AllClean(localdb)
    BY <1>1 DEF Still, MirrorInv, SameLive, AllClean
  <2> QED
    BY <2>1 DEF AllClean, IsLive
<1>4. \A j \in DOMAIN localdb : ~ Deleted(localdb[j].data)
  <2>1. ~ Has(plan, PurgeLocal)
    BY <1>1, HasLists
  <2> QED
    BY <1>1, <1>3, <2>1 DEF Purging
<1>5. Spotless(localdb)'
  <2>1. \A r \in Recs(localdb) : ~ Deleted(r.data)'
    BY <1>2, <1>4 DEF Recs
  <2> QED
    BY <1>1, <2>1 DEF Purging, Spotless
<1> QED
  BY <1>1, <1>2, <1>5 DEF Still, NoRevival

LEMMA SpotlessStays ==
    ASSUME Still, UNCHANGED <<gone, edits>>, NEW db, Spotless(db)
    PROVE  Single(db) /\ \A r \in Recs(db) : ~ Deleted(r.data)'
  BY StillFacts DEF Spotless

LEMMA SpotlessWritten == ASSUME Still, WriteBackup PROVE NoRevival'
<1>1. /\ pc = "write" /\ Spotless(localdb) /\ UNCHANGED <<host, localdb, gone, edits>>
  BY DEF WriteBackup, Still, NoRevival, workVars, userVars
<1>2. pc' = "cleanup" /\ UNCHANGED failed /\ backup' = [backup EXCEPT ![host] = localdb]
  BY <1>1, StillCalls DEF WriteBackup
<1>3. PICK db : db = localdb
  OBVIOUS
<1>4. backup'[host] = db
  BY <1>1, <1>2, <1>3, SessionFacts DEF Still, Ready, Inductive, TypeOK
<1>5. Single(db) /\ \A r \in Recs(db) : ~ Deleted(r.data)'
  BY <1>1, <1>3, SpotlessStays
<1>6. Spotless(backup[host])'
  BY <1>1, <1>4, <1>5 DEF Spotless
<1>7. /\ \A x : Deleted(x)' => x <= Newest'
  BY <1>1, StillFacts
<1> QED
  BY <1>1, <1>2, <1>6, <1>7 DEF Still, NoRevival

(* The file stays as it was written until the session ends.                *)
LEMMA SpotlessFile ==
    ASSUME Still, pc \in {"cleanup", "reset", "userinfo"}, pc' \in {"cleanup", "reset", "userinfo"},
           UNCHANGED <<backup, host, failed, gone, edits>>,
           pc' = "userinfo" => \A p \in Recs(palm') : IsLive(p) => p.flags = {}
    PROVE  NoRevival'
<1>1. Spotless(backup[host])
  BY DEF Still, NoRevival
<1>2. PICK db : db = backup[host]
  OBVIOUS
<1>3. Single(db) /\ \A r \in Recs(db) : ~ Deleted(r.data)'
  BY <1>1, <1>2, SpotlessStays
<1>4. Spotless(backup[host])'
  BY <1>2, <1>3 DEF Spotless
<1>5. /\ \A x : Deleted(x)' => x <= Newest'
  BY StillFacts
<1> QED
  BY <1>4, <1>5 DEF Still, NoRevival

LEMMA SpotlessCleanUp == ASSUME Still, CleanUpDatabase PROVE NoRevival'
<1>1. pc = "cleanup" /\ UNCHANGED <<backup, host, gone, edits>>
  BY DEF CleanUpDatabase, fileVars, userVars
<1>2. pc' = "reset" /\ UNCHANGED failed
  BY <1>1, StillCalls DEF CleanUpDatabase, Lost
<1> QED
  BY <1>1, <1>2, SpotlessFile

LEMMA SpotlessReset == ASSUME Still, ResetSyncFlags PROVE NoRevival'
<1>1. pc = "reset" /\ UNCHANGED <<backup, host, gone, edits>>
  BY DEF ResetSyncFlags, fileVars, userVars
<1>2. pc' = "userinfo" /\ UNCHANGED failed /\ ResetFlags
  BY <1>1, StillCalls DEF ResetSyncFlags, Lost
<1>3. ASSUME NEW q \in Recs(palm'), IsLive(q) PROVE q.flags = {}
  <2>1. PICK p \in Recs(palm) : q.flags = p.flags \ {DIRTY}
    BY <1>2, ReadyFacts, ResetRecs DEF Still
  <2>2. p \in Record /\ Polite(p)
    BY <2>1, ReadyFacts DEF Still, Ready, MirrorInv, AllPolite
  <2>3. IsLive(p)
    BY <1>3, <2>1 DEF IsLive, DIRTY, DELETED, ARCHIVE, EXPUNGED
  <2> QED
    BY <2>1, <2>2, <2>3, PoliteFacts
<1> QED
  BY <1>1, <1>2, <1>3, SpotlessFile

(* When the session ends, the file and the Palm have the same live records, *)
(* none of them marked or deleted.                                         *)
LEMMA ApartAgain == ASSUME Still, UpdateUserInfo PROVE NoRevival'
<1>1. /\ pc = "userinfo" /\ pc' = "idle" /\ ~ failed /\ seen' = {}
      /\ UNCHANGED <<palm, backup, gone, edits>>
  BY DEF UpdateUserInfo, EndSession, Still, NoRevival, fileVars, userVars
<1>2. /\ Spotless(backup[host]) /\ \A p \in Recs(palm) : IsLive(p) => p.flags = {}
  BY <1>1 DEF Still, NoRevival
<1>3. SameLive(backup[host]) /\ host \in Hosts /\ \A h \in Hosts : h = host
  BY <1>1, SessionFacts DEF Still, Ready, MirrorInv, Synced
<1>4. PICK db \in Seq(Record) : db = backup[host]
  BY <1>1, SessionFacts DEF Still
<1>5. \A r \in Recs(db) : r.flags = {} /\ IsLive(r)
  BY <1>3, <1>4 DEF SameLive, AllClean, Recs, IsLive
<1>6. Single(db) /\ \A r \in Recs(db) : ~ Deleted(r.data)'
  BY <1>1, <1>2, <1>4, SpotlessStays
<1>7. ASSUME NEW p \in Recs(palm), IsLive(p)
      PROVE  \E r \in Recs(db) : r.id = p.id /\ r.data = p.data
  <2>1. <<p.id, p.data>> \in Live(palm)
    BY <1>7, ReadyFacts, LiveRecs DEF Still
  <2>2. <<p.id, p.data>> \in Live(db)
    BY <1>3, <1>4, <2>1 DEF SameLive
  <2> QED
    BY <2>2, LiveRecs
<1>8. ASSUME NEW r \in Recs(db), NEW s \in Recs(db), r.data = s.data PROVE r.id = s.id
  BY <1>6, <1>8 DEF Single, Recs
<1>9. ASSUME NEW p \in Recs(palm), NEW q \in Recs(palm), IsLive(p), IsLive(q), p.data = q.data PROVE p = q
  <2>1. PICK r \in Recs(db) : r.id = p.id /\ r.data = p.data
    BY <1>7, <1>9
  <2>2. PICK s \in Recs(db) : s.id = q.id /\ s.data = q.data
    BY <1>7, <1>9
  <2>3. p.id = q.id
    BY <1>8, <1>9, <2>1, <2>2
  <2> QED
    BY <2>3, ReadyFacts DEF Still
<1>10. ASSUME NEW p \in Recs(palm), NEW r \in Recs(db), IsLive(p), p.data = r.data PROVE p.id = r.id
  <2>1. PICK s \in Recs(db) : s.id = p.id /\ s.data = p.data
    BY <1>7, <1>10
  <2> QED
    BY <1>8, <1>10, <2>1
<1>11. \A p \in Recs(palm) : ~ Unseen(p)'
  BY <1>2 DEF Unseen
<1>12. Apart(db)'
  BY <1>1, <1>5, <1>6, <1>9, <1>10, <1>11 DEF Apart
<1>13. \A h \in Hosts : Apart(backup[h])'
  BY <1>1, <1>3, <1>4, <1>12 DEF Apart
<1>14. \A x : Deleted(x)' => x <= Newest'
  BY <1>1, StillFacts
<1> QED
  BY <1>1, <1>13, <1>14 DEF NoRevival

(* What the Palm and the file are between syncs, the sync begins with.     *)
LEMMA ReadingBegins == ASSUME Still, Open PROVE NoRevival'
<1>1. /\ pc = "open" /\ mode = "fast" /\ plan = <<>> /\ seen = {} /\ li = 0
  BY SessionFacts DEF Still, Ready, MirrorInv, Open
<1>2. /\ pc' = "remote" /\ localdb' = backup[host]
      /\ UNCHANGED <<palm, failed, seen, li, plan, gone, edits>>
  BY <1>1 DEF Open, palmVars, userVars
<1>3. ~ failed /\ \A h \in Hosts : Apart(backup[h])
  BY <1>1 DEF Still, NoRevival
<1>4. PICK db \in Seq(Record) : db = backup[host] /\ Apart(db)
  BY <1>1, <1>3, SessionFacts DEF Still
<1>5. /\ \A x : Deleted(x)' <=> Deleted(x)
      /\ \A x : Deleted(x)' => x <= Newest'
  BY <1>2, StillFacts
<1>6. /\ \A p : Unseen(p)' <=> Unseen(p)
      /\ \A r : Ahead(r)' <=> Ahead(r)
  BY <1>2 DEF Unseen, Ahead
<1>7. \A p, q \in Recs(palm) : Unseen(p) /\ Unseen(q) /\ p.data = q.data => p = q
  BY <1>4 DEF Apart, Unseen
<1>8. \A p \in Recs(palm) : Unseen(p) => ~ Deleted(p.data) /\ Own(p, db)
  BY <1>4 DEF Apart, Own
<1>9. \A j \in DOMAIN db : IsLive(db[j]) /\ Deleted(db[j].data) => Ahead(db[j])
  BY <1>4 DEF Apart, Recs
<1>10. ASSUME NEW j \in DOMAIN db, IsLive(db[j]), Deleted(db[j].data) PROVE Ahead(localdb[j])'
  <2>1. PICK r : r = db[j]
    OBVIOUS
  <2>2. Ahead(r)'
    BY <1>5, <1>6, <1>9, <1>10, <2>1
  <2> QED
    BY <1>2, <1>4, <2>1, <2>2 DEF Ahead
<1>11. Single(localdb')
  BY <1>2, <1>4 DEF Apart
<1>12. \A p \in Recs(palm') : Unseen(p)' => ~ Deleted(p.data)' /\ Own(p, localdb')
  BY <1>2, <1>4, <1>5, <1>6, <1>8
<1>13. Reading'
  <2>1. \A j \in DOMAIN localdb' : IsLive(localdb'[j]) /\ Deleted(localdb[j].data)' => Ahead(localdb[j])'
    <3> SUFFICES ASSUME NEW j \in DOMAIN localdb', IsLive(localdb'[j]), Deleted(localdb[j].data)' PROVE Ahead(localdb[j])'
      OBVIOUS
    <3>1. Deleted(localdb'[j].data)
      BY <1>2 DEF Deleted
    <3> QED
      BY <1>2, <1>4, <1>5, <1>10, <3>1
  <2>2. \A p, q \in Recs(palm') : Unseen(p)' /\ Unseen(q)' /\ p.data = q.data => p = q
    BY <1>2, <1>6, <1>7
  <2> QED
    BY <1>1, <1>2, <1>11, <1>12, <2>1, <2>2 DEF Reading
<1> QED
  BY <1>2, <1>3, <1>5, <1>13 DEF NoRevival

LEMMA ApartStays ==
    ASSUME Still, pc \in {"idle", "open"}, pc' \in {"idle", "open"}, pc' # "idle" => ~ failed', seen' = {},
           UNCHANGED <<palm, backup, gone, edits>>
    PROVE  NoRevival'
<1>1. seen = {} /\ \A h \in Hosts : Apart(backup[h])
  BY DEF Still, NoRevival, Ready, MirrorInv
<1>2. /\ \A x : Deleted(x)' <=> Deleted(x)
      /\ \A x : Deleted(x)' => x <= Newest'
  BY StillFacts
<1>3. /\ \A p : Unseen(p)' <=> Unseen(p)
      /\ \A r : Ahead(r)' <=> Ahead(r)
  BY <1>1 DEF Unseen, Ahead
<1>4. ASSUME NEW h \in Hosts PROVE Apart(backup[h])'
  <2>1. PICK db : db = backup[h] /\ Apart(db)
    BY <1>1
  <2>2. Apart(db)'
    BY <1>2, <1>3, <2>1 DEF Apart
  <2> QED
    BY <2>1, <2>2 DEF Apart
<1> QED
  BY <1>2, <1>4 DEF NoRevival

LEMMA SyncKeepsDeletions ==
    ASSUME Still, SyncStep \/ Cancel \/ Crash \/ (\E h \in Hosts : StartSync(h))
    PROVE  NoRevival'
<1>1. CASE NextRemoteSlow
  BY <1>1, SessionFacts DEF NextRemoteSlow, Still
<1>2. CASE SyncRecordStep
  <2>1. pc \in {"remote", "local"} /\ plan # <<>>
    <3>1. plan # <<>>
      BY <1>2 DEF SyncRecordStep, DoArchive, DoClearLocal, DoDeleteLocal, DoAppendRemote, DoInsertRemote,
         DoDropRemote, DoDeleteRemote, DoPurgeLocal, DoUpload, Step
    <3> QED
      BY <3>1 DEF Still, Ready, Inductive, SessionInv
  <2>2. CASE pc = "remote"
    <3>1. CASE DoDropRemote \/ DoPurgeLocal
      <4>1. Head(plan) \in {DropRemote, PurgeLocal}
        BY <3>1 DEF DoDropRemote, DoPurgeLocal, Step
      <4> QED
        BY <2>1, <2>2, <4>1, FarFacts, FarHead DEF Still
    <3> QED
      BY <1>2, <2>2, <3>1, ReadArchive, ReadRemove, ReadClear, ReadDelete, ReadAppend, ReadInsert, ReadUpload
      DEF SyncRecordStep
  <2>3. CASE pc = "local"
    <3>1. CASE DoDeleteLocal \/ DoAppendRemote \/ DoInsertRemote \/ DoDropRemote \/ DoDeleteRemote
      <4>1. Head(plan) \in {DeleteLocal, AppendRemote, AppendUnclean, InsertRemote, DropRemote, DeleteRemote}
        BY <3>1 DEF DoDeleteLocal, DoAppendRemote, DoInsertRemote, DoDropRemote, DoDeleteRemote, Step
      <4>2. {DeleteLocal, AppendRemote, AppendUnclean, InsertRemote, DropRemote, DeleteRemote}
               \cap {ClearLocal, ArchiveLocal, PurgeLocal, UploadLocal} = {}
        BY DEF ClearLocal, ArchiveLocal, DeleteLocal, DropRemote, DeleteRemote, PurgeLocal,
               UploadLocal, AppendRemote, AppendUnclean, InsertRemote
      <4> QED
        BY <2>1, <2>3, <4>1, <4>2, NearFacts DEF Still
    <3> QED
      BY <1>2, <2>3, <3>1, PurgeArchive, PurgeClear, PurgeUpload, PurgeRemove DEF SyncRecordStep
  <2> QED
    BY <2>1, <2>2, <2>3
<1>3. CASE Cancel
  BY <1>3, ApartStays DEF Cancel, EndSession, palmVars, fileVars, userVars
<1>4. CASE \E h \in Hosts : StartSync(h)
  <2>1. pc = "idle" /\ pc' = "open" /\ ~ failed' /\ UNCHANGED <<palm, backup, seen, gone, edits>>
    BY <1>4 DEF StartSync, palmVars, fileVars, workVars, userVars
  <2>2. seen = {}
    BY <2>1 DEF Still, Ready, MirrorInv
  <2> QED
    BY <2>1, <2>2, ApartStays
<1>5. CASE Crash \/ OpenFails \/ ReadFails
  <2>1. pc # "idle"
    BY <1>5 DEF Crash, OpenFails, ReadFails
  <2>2. /\ ~ Lost(FALSE) /\ ~ Refused /\ \A kind : ~ Fault(kind)
    BY <2>1, StillCalls DEF Lost
  <2> QED
    BY <1>5, <2>2 DEF Crash, OpenFails, ReadFails
<1> QED
  BY <1>1, <1>2, <1>3, <1>4, <1>5, ReadingBegins, ReadNext, ReadDone, PurgeNext, PurgeDone, SpotlessWritten,
     SpotlessCleanUp, SpotlessReset, ApartAgain
  DEF SyncStep

-----------------------------------------------------------------------------
(* Between syncs, the user.  New contents are newer than all others; and   *)
(* what is deleted is marked, where it was, and in one record only.        *)
Between == Edges /\ Edits /\ NoRevival /\ pc = "idle"

LEMMA BetweenFacts ==
    ASSUME Between
    PROVE  /\ seen = {} /\ Newest \in Nat /\ Version = Newest + 1
           /\ \A d : Deleted(d) => d <= Newest
           /\ palm \in Seq(Record) /\ \A p \in Recs(palm) : p \in Record /\ p.data <= Newest
           /\ \A p, q \in Recs(palm) : p.id = q.id => p = q
           /\ \A h \in Hosts : /\ Apart(backup[h]) /\ backup[h] \in Seq(Record)
                               /\ Distinct(backup[h]) /\ \A g \in Hosts : g = h
                               /\ \A r \in Recs(backup[h]) : r \in Record /\ r.data <= Newest
<1>1. seen = {} /\ FastInv /\ AlwaysFast /\ ListsDecent /\ \A g, h \in Hosts : g = h
  BY DEF Between, Edges, MirrorInv, FastDesktop, Edits
<1>2. \A h \in Hosts : backup[h] # NoFile
  BY <1>1 DEF FastInv
<1>3. Newest \in Nat /\ Version = Newest + 1
  BY ConstantsAssumption DEF Between, Edges, Inductive, TypeOK, Newest, Version
<1>4. \A p \in Recs(palm) : p.data <= Newest
  BY <1>1 DEF ListsDecent, Decent
<1>5. \A h \in Hosts : \A r \in Recs(backup[h]) : r.data <= Newest
  BY <1>1, <1>2 DEF ListsDecent, Decent
<1>6. (\A d : Deleted(d) => d <= Newest) /\ \A h \in Hosts : Apart(backup[h])
  BY DEF Between, NoRevival
<1>7. \A p, q \in Recs(palm) : p.id = q.id => p = q
  <2>1. palm \in Seq(Record) /\ Distinct(palm) /\ Assigned(palm, nextId)
    BY DEF Between, Edges, IdsInv, PalmIds, Inductive, TypeOK
  <2> QED
    BY <2>1, ListFacts DEF Assigned, Distinct
<1>8. \A h \in Hosts : Distinct(backup[h])
  BY <1>2 DEF Between, Edges, IdsInv, FileIds
<1> QED
  BY <1>1, <1>2, <1>3, <1>4, <1>5, <1>6, <1>7, <1>8, EdgesFacts DEF Between

LEMMA StaysBetween ==
    ASSUME Between, UserStep, \A h \in Hosts : Apart(backup[h])', \A d : Deleted(d)' => d <= Newest'
    PROVE  NoRevival'
<1>1. pc' = "idle"
  BY DEF Between, UserStep, NewEdit, PalmEdit, PalmNew, PalmArchive, PalmExpunge, DesktopEdit, DesktopNew,
     DesktopArchive, DesktopExpunge, sessVars
<1> QED
  BY <1>1 DEF NoRevival

LEMMA UserGoesOn ==
    ASSUME Between, UserStep
    PROVE  seen' = {} /\ Newest' = Newest + 1
<1>1. seen' = seen /\ edits' = edits + 1
  BY UserFrame DEF workVars
<1>2. edits \in Nat /\ InitRecords \in Nat
  BY ConstantsAssumption DEF Between, Edges, Inductive, TypeOK
<1>3. seen = {}
  BY BetweenFacts
<1> QED
  BY <1>1, <1>2, <1>3 DEF Newest

LEMMA PalmGets ==
    ASSUME Between, UserStep, UNCHANGED <<backup, gone>>, NEW q \in Record, IsLive(q), q.data = Version,
           \A p \in Recs(palm) : p.id = q.id => IsLive(p),
           Recs(palm') = {p \in Recs(palm) : p.id # q.id} \cup {q}
    PROVE  NoRevival'
<1>1. seen = {} /\ seen' = {} /\ Newest' = Newest + 1 /\ Newest \in Nat /\ q.data = Newest + 1
  BY BetweenFacts, UserGoesOn
<1>2. \A d : Deleted(d)' <=> Deleted(d)
  BY DEF Deleted
<1>3. \A d : Deleted(d)' => d <= Newest'
  <2> SUFFICES ASSUME NEW d, Deleted(d)' PROVE d <= Newest'
    OBVIOUS
  <2>1. d <= Newest /\ (d \in Nat)
    <3>1. \E w \in Hosts \cup {Device} : d \in gone[w]
      BY <1>2 DEF Deleted
    <3> QED
      BY <1>2, <3>1, BetweenFacts DEF Between, Edges, Inductive, TypeOK
  <2> QED
    BY <1>1, <2>1
<1>4. ~ Deleted(q.data) /\ \A p \in Recs(palm) : p.data # q.data
  <2>1. \A p \in Recs(palm) : p.data \in Nat /\ p.data <= Newest
    BY BetweenFacts, RecordFacts
  <2> QED
    BY <1>1, <2>1, BetweenFacts
<1>5. ASSUME NEW h \in Hosts PROVE Apart(backup[h])'
  <2>1. PICK db : db = backup[h] /\ Apart(db) /\ \A r \in Recs(db) : r.data # q.data
    <3>1. \A r \in Recs(backup[h]) : r.data \in Nat /\ r.data <= Newest
      BY BetweenFacts, RecordFacts
    <3> QED
      BY <1>1, <3>1, BetweenFacts
  <2>2. \A p \in Recs(palm') : p = q \/ (p \in Recs(palm) /\ p.id # q.id)
    OBVIOUS
  <2>3. \A p, s \in Recs(palm') : IsLive(p) /\ IsLive(s) /\ p.data = s.data => p = s
    BY <1>4, <2>1, <2>2 DEF Apart
  <2>4. \A p : Unseen(p)' <=> Unseen(p)
    BY <1>1 DEF Unseen
  <2>5. \A p \in Recs(palm') : Unseen(p)' => ~ Deleted(p.data)' /\ \A r \in Recs(db) : r.data # p.data
    BY <1>2, <1>4, <2>1, <2>2, <2>4 DEF Apart
  <2>6. \A p \in Recs(palm'), r \in Recs(db) : IsLive(p) /\ IsLive(r) /\ p.data = r.data => p.id = r.id /\ r.flags = {}
    BY <2>1, <2>2 DEF Apart
  <2>7. ASSUME NEW r \in Recs(db), IsLive(r), Deleted(r.data)' PROVE Ahead(r)'
    <3>1. Ahead(r)
      BY <1>2, <2>1, <2>7 DEF Apart
    <3>2. PICK p \in Recs(palm) : ~ IsLive(p) /\ p.id = r.id
      BY <3>1 DEF Ahead
    <3>3. p \in Recs(palm')
      BY <3>2
    <3> QED
      BY <1>1, <3>1, <3>2, <3>3 DEF Ahead
  <2>8. Apart(db)'
    BY <2>1, <2>3, <2>5, <2>6, <2>7 DEF Apart
  <2> QED
    BY <2>1, <2>8 DEF Apart
<1> QED
  BY <1>3, <1>5, StaysBetween

LEMMA PalmLoses ==
    ASSUME Between, UserStep, UNCHANGED backup, NEW q \in Record, ~ IsLive(q),
           NEW old \in Recs(palm), IsLive(old), old.id = q.id,
           gone' = [gone EXCEPT ![Device] = @ \cup {old.data}],
           Recs(palm') = {p \in Recs(palm) : p.id # q.id} \cup {q}
    PROVE  NoRevival'
<1>1. seen = {} /\ seen' = {} /\ Newest' = Newest + 1 /\ Newest \in Nat
  BY BetweenFacts, UserGoesOn
<1>2. gone \in [Hosts \cup {Device} -> SUBSET Nat]
  BY DEF Between, Edges, Inductive, TypeOK
<1>3. \A d : Deleted(d)' <=> Deleted(d) \/ d = old.data
  BY <1>2 DEF Deleted
<1>4. \A d : Deleted(d)' => d <= Newest'
  <2> SUFFICES ASSUME NEW d, Deleted(d)' PROVE d <= Newest'
    OBVIOUS
  <2>1. Deleted(d) => d \in Nat
    BY <1>2 DEF Deleted
  <2>2. d <= Newest /\ d \in Nat
    BY <1>3, <2>1, BetweenFacts, RecordFacts
  <2> QED
    BY <1>1, <2>2
<1>5. \A p \in Recs(palm) : p.id = q.id => p = old
  BY BetweenFacts
<1>6. ASSUME NEW h \in Hosts PROVE Apart(backup[h])'
  <2>1. PICK db : db = backup[h] /\ Apart(db)
    BY BetweenFacts
  <2>2. \A p \in Recs(palm') : IsLive(p) => p \in Recs(palm) /\ p.id # q.id
    OBVIOUS
  <2>3. \A p, s \in Recs(palm') : IsLive(p) /\ IsLive(s) /\ p.data = s.data => p = s
    BY <2>1, <2>2 DEF Apart
  <2>4. \A p : Unseen(p)' <=> Unseen(p)
    BY <1>1 DEF Unseen
  <2>5. ASSUME NEW p \in Recs(palm'), Unseen(p)' PROVE ~ Deleted(p.data)' /\ \A r \in Recs(db) : r.data # p.data
    <3>1. Unseen(p) /\ IsLive(p) /\ p \in Recs(palm) /\ p.id # q.id
      BY <2>2, <2>4, <2>5 DEF Unseen
    <3>2. p.data # old.data
      BY <2>1, <3>1 DEF Apart
    <3> QED
      BY <1>3, <2>1, <3>1, <3>2 DEF Apart
  <2>6. \A p \in Recs(palm'), r \in Recs(db) : IsLive(p) /\ IsLive(r) /\ p.data = r.data => p.id = r.id /\ r.flags = {}
    BY <2>1, <2>2 DEF Apart
  <2>7. ASSUME NEW r \in Recs(db), IsLive(r), Deleted(r.data)' PROVE Ahead(r)'
    <3>1. CASE Deleted(r.data)
      <4>1. Ahead(r)
        BY <2>1, <2>7, <3>1 DEF Apart
      <4>2. PICK p \in Recs(palm) : ~ IsLive(p) /\ p.id = r.id
        BY <4>1 DEF Ahead
      <4>3. p \in Recs(palm')
        BY <1>5, <4>2
      <4> QED
        BY <1>1, <4>1, <4>2, <4>3 DEF Ahead
    <3>2. CASE r.data = old.data
      <4>1. old.id = r.id /\ r.flags = {}
        BY <2>1, <2>7, <3>2 DEF Apart
      <4> QED
        BY <1>1, <4>1 DEF Ahead
    <3> QED
      BY <1>3, <2>7, <3>1, <3>2
  <2>8. Apart(db)'
    BY <2>1, <2>3, <2>5, <2>6, <2>7 DEF Apart
  <2> QED
    BY <2>1, <2>8 DEF Apart
<1> QED
  BY <1>4, <1>6, StaysBetween

LEMMA FileGets ==
    ASSUME Between, UserStep, UNCHANGED <<palm, gone>>, NEW h \in Hosts, NEW file,
           backup' = [backup EXCEPT ![h] = file], Single(file), NEW q \in Record, q.data = Version,
           \A r \in Recs(file) : r = q \/ r \in Recs(backup[h])
    PROVE  NoRevival'
<1>1. seen = {} /\ seen' = {} /\ Newest' = Newest + 1 /\ Newest \in Nat /\ q.data = Newest + 1
  BY BetweenFacts, UserGoesOn
<1>2. \A d : Deleted(d)' <=> Deleted(d)
  BY DEF Deleted
<1>3. \A d : Deleted(d) => d \in Nat /\ d <= Newest
  <2>1. \A d : Deleted(d) => d \in Nat
    BY DEF Deleted, Between, Edges, Inductive, TypeOK
  <2> QED
    BY <2>1, BetweenFacts
<1>4. ~ Deleted(q.data) /\ \A p \in Recs(palm) : p.data # q.data
  <2>1. \A p \in Recs(palm) : p.data \in Nat /\ p.data <= Newest
    BY BetweenFacts, RecordFacts
  <2> QED
    BY <1>1, <1>3, <2>1
<1>5. /\ \A p : Unseen(p)' <=> Unseen(p)
      /\ \A r : Ahead(r)' <=> Ahead(r)
  BY <1>1 DEF Unseen, Ahead
<1>6. PICK db : db = backup[h] /\ Apart(db)
  BY BetweenFacts
<1>7. \A p \in Recs(palm) : Unseen(p) => ~ Deleted(p.data)' /\ \A r \in Recs(file) : r.data # p.data
  BY <1>2, <1>4, <1>6 DEF Apart
<1>8. \A p \in Recs(palm), r \in Recs(file) :
         IsLive(p) /\ IsLive(r) /\ p.data = r.data => p.id = r.id /\ r.flags = {}
  BY <1>4, <1>6 DEF Apart
<1>9. \A r \in Recs(file) : IsLive(r) /\ Deleted(r.data)' => Ahead(r)'
  BY <1>2, <1>4, <1>5, <1>6 DEF Apart
<1>10. Apart(file)'
  BY <1>5, <1>6, <1>7, <1>8, <1>9 DEF Apart
<1>11. backup'[h] = file /\ \A g \in Hosts : g = h
  BY BetweenFacts DEF Between, Edges, Inductive, TypeOK
<1>12. \A g \in Hosts : Apart(backup[g])'
  BY <1>10, <1>11 DEF Apart
<1>13. \A d : Deleted(d)' => d <= Newest'
  BY <1>1, <1>2, <1>3
<1> QED
  BY <1>12, <1>13, StaysBetween

LEMMA FileLoses ==
    ASSUME Between, UserStep, UNCHANGED palm, NEW h \in Hosts, NEW file,
           backup' = [backup EXCEPT ![h] = file], Single(file),
           NEW old \in Recs(backup[h]), gone' = [gone EXCEPT ![h] = @ \cup {old.data}],
           \A r \in Recs(file) : (r \in Recs(backup[h]) /\ r.data # old.data) \/ (~ IsLive(r) /\ r.data = old.data)
    PROVE  NoRevival'
<1>1. seen = {} /\ seen' = {} /\ Newest' = Newest + 1 /\ Newest \in Nat
  BY BetweenFacts, UserGoesOn
<1>2. gone \in [Hosts \cup {Device} -> SUBSET Nat]
  BY DEF Between, Edges, Inductive, TypeOK
<1>3. \A d : Deleted(d)' <=> Deleted(d) \/ d = old.data
  BY <1>2 DEF Deleted
<1>4. \A d : Deleted(d)' => d <= Newest'
  <2> SUFFICES ASSUME NEW d, Deleted(d)' PROVE d <= Newest'
    OBVIOUS
  <2>1. Deleted(d) => d \in Nat
    BY <1>2 DEF Deleted
  <2>2. d <= Newest /\ d \in Nat
    BY <1>3, <2>1, BetweenFacts, RecordFacts
  <2> QED
    BY <1>1, <2>2
<1>5. /\ \A p : Unseen(p)' <=> Unseen(p)
      /\ \A r : Ahead(r)' <=> Ahead(r)
  BY <1>1 DEF Unseen, Ahead
<1>6. PICK db : db = backup[h] /\ Apart(db)
  BY BetweenFacts
<1>7. \A p \in Recs(palm) : Unseen(p) => ~ Deleted(p.data)' /\ \A r \in Recs(file) : r.data # p.data
  BY <1>3, <1>6 DEF Apart
<1>8. \A p \in Recs(palm), r \in Recs(file) :
         IsLive(p) /\ IsLive(r) /\ p.data = r.data => p.id = r.id /\ r.flags = {}
  BY <1>6 DEF Apart
<1>9. \A r \in Recs(file) : IsLive(r) /\ Deleted(r.data)' => Ahead(r)'
  BY <1>3, <1>5, <1>6 DEF Apart
<1>10. Apart(file)'
  BY <1>5, <1>6, <1>7, <1>8, <1>9 DEF Apart
<1>11. backup'[h] = file /\ \A g \in Hosts : g = h
  BY BetweenFacts DEF Between, Edges, Inductive, TypeOK
<1>12. \A g \in Hosts : Apart(backup[g])'
  BY <1>10, <1>11 DEF Apart
<1> QED
  BY <1>4, <1>12, StaysBetween

LEMMA PalmEdits ==
    ASSUME Between, UserStep, NEW i \in DOMAIN palm, PalmEdit(i) \/ PalmArchive(i) \/ PalmExpunge(i)
    PROVE  NoRevival'
<1>1. PICK old \in Record : old = palm[i] /\ old \in Recs(palm) /\ IsLive(old) /\ Polite(old)
  <2>1. palm[i] \in Record /\ palm[i] \in Recs(palm)
    BY BetweenFacts, ListFacts
  <2> QED
    BY <2>1, EdgesFacts DEF Between, PalmEdit, PalmArchive, PalmExpunge
<1>2. UNCHANGED backup
  BY DEF PalmEdit, PalmArchive, PalmExpunge, fileVars
<1>3. old.data \in Nat /\ old.flags \in SUBSET Flags /\ Version \in Nat /\ DIRTY \in Flags
  BY <1>1, RecordFacts, EdgesFacts DEF Between, Flags
<1>4. ASSUME NEW q \in Record, q.id = old.id, palm' = [palm EXCEPT ![i] = q]
      PROVE  Recs(palm') = {p \in Recs(palm) : p.id # q.id} \cup {q}
  <2>1. palm \in Seq(Record) /\ PalmIds /\ q.id = palm[i].id
    BY <1>1, <1>4, EdgesFacts DEF Between
  <2> QED
    BY <1>4, <2>1, PalmChanged
<1>5. CASE PalmEdit(i)
  <2>1. PICK q \in Record : q = [old EXCEPT !.data = Version, !.flags = old.flags \cup {DIRTY}]
    BY <1>3 DEF Record
  <2>2. q.id = old.id /\ q.data = Version /\ q.flags = old.flags \cup {DIRTY}
    BY <1>1, <2>1 DEF Record
  <2>3. palm' = [palm EXCEPT ![i] = q] /\ UNCHANGED gone
    BY <1>1, <1>5, <2>1 DEF PalmEdit
  <2>4. IsLive(q)
    BY <1>1, <2>2 DEF IsLive, DIRTY, DELETED, ARCHIVE, EXPUNGED
  <2>5. \A p \in Recs(palm) : p.id = q.id => IsLive(p)
    BY <1>1, <2>2, BetweenFacts
  <2> QED
    BY <1>2, <1>4, <2>2, <2>3, <2>4, <2>5, PalmGets
<1>6. ASSUME NEW marks \in ArchiveMarks \cup ExpungeMarks, NEW d \in Nat,
             palm' = [palm EXCEPT ![i] = [old EXCEPT !.data = d, !.flags = old.flags \cup marks]],
             gone' = [gone EXCEPT ![Device] = @ \cup {old.data}]
      PROVE  NoRevival'
  <2>1. /\ marks \in SUBSET Flags
        /\ {DELETED, ARCHIVE} \subseteq marks \/ EXPUNGED \in marks
    BY ConstantsAssumption DEF Between, Edges, FastDesktop, OrdinaryUse
  <2>2. PICK q \in Record : q = [old EXCEPT !.data = d, !.flags = old.flags \cup marks]
    BY <1>3, <2>1 DEF Record
  <2>3. q.id = old.id /\ q.flags = old.flags \cup marks
    BY <1>1, <2>2 DEF Record
  <2>4. ~ IsLive(q)
    BY <2>1, <2>3 DEF IsLive
  <2> QED
    BY <1>1, <1>2, <1>4, <1>6, <2>2, <2>3, <2>4, PalmLoses
<1>7. CASE PalmArchive(i)
  <2>1. PICK marks \in ArchiveMarks : palm' = [palm EXCEPT ![i] = [old EXCEPT !.flags = old.flags \cup marks]]
    BY <1>1, <1>7 DEF PalmArchive
  <2>2. [old EXCEPT !.flags = old.flags \cup marks] = [old EXCEPT !.data = old.data, !.flags = old.flags \cup marks]
    BY DEF Record
  <2>3. gone' = [gone EXCEPT ![Device] = @ \cup {old.data}]
    BY <1>1, <1>7 DEF PalmArchive
  <2> QED
    BY <1>3, <1>6, <2>1, <2>2, <2>3
<1>8. CASE PalmExpunge(i)
  <2>1. PICK marks \in ExpungeMarks : palm' = [palm EXCEPT ![i] = [old EXCEPT !.data = 0, !.flags = old.flags \cup marks]]
    BY <1>1, <1>8 DEF PalmExpunge
  <2>2. gone' = [gone EXCEPT ![Device] = @ \cup {old.data}]
    BY <1>1, <1>8 DEF PalmExpunge
  <2> QED
    BY <1>6, <2>1, <2>2
<1> QED
  BY <1>5, <1>7, <1>8

LEMMA PalmAdds == ASSUME Between, UserStep, PalmNew PROVE NoRevival'
<1>1. UNCHANGED <<backup, gone>> /\ palm' = Append(palm, Rec(nextId, {DIRTY}, Version))
  BY DEF PalmNew, AppendRecord, fileVars
<1>2. PICK q \in Record : q = Rec(nextId, {DIRTY}, Version) /\ q.id = nextId /\ q.flags = {DIRTY} /\ q.data = Version
  <2>1. Rec(nextId, {DIRTY}, Version) \in Record
    BY EdgesFacts DEF Between, Rec, Record, Flags
  <2> QED
    BY <2>1 DEF Rec
<1>3. PICK a : a = Append(palm, q)
  OBVIOUS
<1>4. Recs(a) = Recs(palm) \cup {q}
  BY <1>3, BetweenFacts, AppendRecs
<1>5. \A p \in Recs(palm) : p.id # q.id
  BY <1>2, EdgesFacts DEF Between
<1>6. Recs(palm') = {p \in Recs(palm) : p.id # q.id} \cup {q}
  BY <1>1, <1>2, <1>3, <1>4, <1>5
<1>7. IsLive(q)
  BY <1>2 DEF IsLive, DIRTY, DELETED, ARCHIVE, EXPUNGED
<1> QED
  BY <1>1, <1>2, <1>5, <1>6, <1>7, PalmGets

LEMMA FileAdds == ASSUME Between, UserStep, NEW h \in Hosts, DesktopNew(h) PROVE NoRevival'
<1>1. PICK db \in Seq(Record) : db = backup[h] /\ Apart(db) /\ \A r \in Recs(db) : r \in Record /\ r.data <= Newest
  BY BetweenFacts
<1>2. PICK q \in Record : q = Rec(0, {DIRTY}, Version) /\ q.data = Version
  <2>1. Rec(0, {DIRTY}, Version) \in Record
    BY EdgesFacts DEF Between, Rec, Record, Flags
  <2> QED
    BY <2>1 DEF Rec
<1>3. PICK file \in Seq(Record) : file = Append(db, q)
  BY AppendProperties
<1>4. UNCHANGED <<palm, gone>> /\ backup' = [backup EXCEPT ![h] = file]
  BY <1>1, <1>2, <1>3 DEF DesktopNew, AppendRecord, palmVars
<1>5. Recs(file) = Recs(db) \cup {q}
  BY <1>3, AppendRecs
<1>6. \A r \in Recs(db) : r.data # q.data
  <2>1. \A r \in Recs(db) : r.data \in Nat
    BY <1>1, RecordFacts
  <2> QED
    BY <1>1, <1>2, <2>1, BetweenFacts
<1>7. Single(db)
  BY <1>1 DEF Apart
<1>8. Single(file)
  BY <1>3, <1>6, <1>7, SingleAppend
<1>9. \A r \in Recs(file) : r = q \/ r \in Recs(backup[h])
  BY <1>1, <1>5
<1> QED
  BY <1>2, <1>4, <1>8, <1>9, FileGets

LEMMA FileEdits ==
    ASSUME Between, UserStep, NEW h \in Hosts, NEW i \in DOMAIN backup[h],
           DesktopEdit(h, i) \/ DesktopArchive(h, i) \/ DesktopExpunge(h, i)
    PROVE  NoRevival'
<1>1. PICK db \in Seq(Record) : /\ db = backup[h] /\ Apart(db) /\ Distinct(db)
                                /\ \A r \in Recs(db) : r \in Record /\ r.data <= Newest
  BY BetweenFacts
<1>2. PICK old \in Record : old = db[i] /\ old \in Recs(db) /\ i \in DOMAIN db
  BY <1>1, ListFacts
<1>3. UNCHANGED palm /\ Single(db)
  BY <1>1 DEF DesktopEdit, DesktopArchive, DesktopExpunge, palmVars, Apart
<1>4. old.data \in Nat /\ old.flags \in SUBSET Flags /\ Version \in Nat /\ {DIRTY, DELETED, ARCHIVE, EXPUNGED} \subseteq Flags
  BY <1>1, RecordFacts, EdgesFacts DEF Between, Flags
<1>5. ASSUME NEW q \in Record
      PROVE  \E file : /\ file = [db EXCEPT ![i] = q] /\ DOMAIN file = DOMAIN db /\ file[i] = q
                       /\ \A j \in DOMAIN db : j # i => file[j] = db[j]
                       /\ \A r \in Recs(file) : r = q \/ \E j \in DOMAIN db : j # i /\ r = db[j]
  <2>1. PICK file : file = [db EXCEPT ![i] = q]
    OBVIOUS
  <2>2. /\ DOMAIN file = DOMAIN db /\ file[i] = q
        /\ \A j \in DOMAIN db : j # i => file[j] = db[j]
        /\ Recs(file) = {db[j] : j \in DOMAIN db \ {i}} \cup {q}
    BY <1>2, <2>1, ChangeRecs
  <2>3. \A r \in Recs(file) : r = q \/ \E j \in DOMAIN db : j # i /\ r = db[j]
    BY <2>2
  <2> QED
    BY <2>1, <2>2, <2>3, Zenon
<1>6. CASE DesktopEdit(h, i)
  <2>1. PICK q \in Record : q = [old EXCEPT !.data = Version, !.flags = old.flags \cup {DIRTY}]
    BY <1>4 DEF Record
  <2>2. q.data = Version
    BY <1>2, <2>1 DEF Record
  <2>3. PICK file : /\ file = [db EXCEPT ![i] = q] /\ DOMAIN file = DOMAIN db /\ file[i] = q
                    /\ \A j \in DOMAIN db : j # i => file[j] = db[j]
                    /\ \A r \in Recs(file) : r = q \/ \E j \in DOMAIN db : j # i /\ r = db[j]
    BY <1>5
  <2>4. backup' = [backup EXCEPT ![h] = file] /\ UNCHANGED gone
    <3>1. PICK v : v = Version
      OBVIOUS
    <3>2. q = [db[i] EXCEPT !.data = v, !.flags = db[i].flags \cup {DIRTY}]
      BY <1>2, <2>1, <3>1
    <3>3. /\ backup' = [backup EXCEPT ![h] = [db EXCEPT ![i] = [db[i] EXCEPT !.data = v, !.flags = db[i].flags \cup {DIRTY}]]]
          /\ UNCHANGED gone
      BY <1>1, <1>6, <3>1 DEF DesktopEdit
    <3> QED
      BY <2>3, <3>2, <3>3
  <2>5. \A j \in DOMAIN db : db[j].data # q.data
    <3>1. \A j \in DOMAIN db : db[j].data \in Nat /\ db[j].data <= Newest
      BY <1>1, ListFacts, RecordFacts
    <3> QED
      BY <2>2, <3>1, BetweenFacts
  <2>6. Single(file)
    BY <1>2, <1>3, <2>3, <2>5, SingleChange
  <2>7. \A r \in Recs(file) : r = q \/ r \in Recs(backup[h])
    BY <1>1, <2>3 DEF Recs
  <2> QED
    BY <1>3, <2>2, <2>4, <2>6, <2>7, FileGets
<1>7. ASSUME NEW marks \in {{DELETED, ARCHIVE}, {DELETED, EXPUNGED}},
             backup' = [backup EXCEPT ![h] = [db EXCEPT ![i] = [old EXCEPT !.flags = old.flags \cup marks]]],
             gone' = [gone EXCEPT ![h] = @ \cup {old.data}]
      PROVE  NoRevival'
  <2>1. marks \in SUBSET Flags
    BY <1>4
  <2>2. PICK q \in Record : q = [old EXCEPT !.flags = old.flags \cup marks]
    BY <1>4, <2>1 DEF Record
  <2>3. q.id = old.id /\ q.data = old.data /\ q.flags = old.flags \cup marks
    BY <1>2, <2>2 DEF Record
  <2>4. ~ IsLive(q)
    BY <2>3 DEF IsLive
  <2>5. PICK file : /\ file = [db EXCEPT ![i] = q] /\ DOMAIN file = DOMAIN db /\ file[i] = q
                    /\ \A j \in DOMAIN db : j # i => file[j] = db[j]
                    /\ \A r \in Recs(file) : r = q \/ \E j \in DOMAIN db : j # i /\ r = db[j]
    BY <1>5
  <2>6. Single(file)
    <3>1. \A j \in DOMAIN db : file[j].id = db[j].id /\ file[j].data = db[j].data
      BY <1>2, <2>3, <2>5
    <3> QED
      BY <1>3, <2>5, <3>1, SingleSame
  <2>7. \A j \in DOMAIN db : j # i => db[j].data # old.data
    <3> SUFFICES ASSUME NEW j \in DOMAIN db, j # i, db[j].data = db[i].data PROVE FALSE
      BY <1>2
    <3>1. db[j].id = db[i].id /\ db[j].id # 0
      BY <1>2, <1>3 DEF Single
    <3> QED
      BY <1>1, <1>2, <3>1 DEF Distinct
  <2>8. \A r \in Recs(file) : (r \in Recs(backup[h]) /\ r.data # old.data) \/ (~ IsLive(r) /\ r.data = old.data)
    BY <1>1, <2>3, <2>4, <2>5, <2>7 DEF Recs
  <2>9. backup' = [backup EXCEPT ![h] = file] /\ old \in Recs(backup[h])
    BY <1>1, <1>2, <1>7, <2>2, <2>5
  <2> QED
    BY <1>3, <1>7, <2>6, <2>8, <2>9, FileLoses
<1>8. CASE DesktopArchive(h, i)
  BY <1>1, <1>2, <1>7, <1>8 DEF DesktopArchive
<1>9. CASE DesktopExpunge(h, i)
  BY <1>1, <1>2, <1>7, <1>9 DEF DesktopExpunge
<1> QED
  BY <1>6, <1>8, <1>9

LEMMA UserDeletes == ASSUME Between, UserStep PROVE NoRevival'
  BY PalmEdits, PalmAdds, FileAdds, FileEdits DEF UserStep

LEMMA NoRevivalStutters == ASSUME NoRevival, UNCHANGED vars PROVE NoRevival'
<1>1. /\ UNCHANGED <<palm, backup, pc, host, failed, localdb, seen, rem, li, plan, edits, gone>>
  BY DEF vars, palmVars, fileVars, sessVars, workVars, userVars
<1>2. /\ \A d : Deleted(d)' <=> Deleted(d)
      /\ \A p : Unseen(p)' <=> Unseen(p)
      /\ \A r : Ahead(r)' <=> Ahead(r)
      /\ Newest' = Newest /\ Localrec' = Localrec
  BY <1>1 DEF Deleted, Unseen, Ahead, Newest, Localrec
<1>3. \A h \in Hosts : Apart(backup[h]) => Apart(backup[h])'
  BY <1>1, <1>2 DEF Apart
<1>4. /\ Deleted(Localrec.data)' <=> Deleted(Localrec.data)
      /\ Deleted(rem.data)' <=> Deleted(rem.data)
  BY <1>1, <1>2 DEF Deleted
<1>5. \A j \in DOMAIN localdb : /\ Ahead(localdb[j])' <=> Ahead(localdb[j])
                                /\ Deleted(localdb[j].data)' <=> Deleted(localdb[j].data)
  BY <1>1 DEF Ahead, Deleted
<1>6. Reading => Reading'
  BY <1>1, <1>2, <1>4, <1>5 DEF Reading, Debt
<1>7. Purging => Purging'
  BY <1>1, <1>2, <1>4, <1>5 DEF Purging
<1>8. Spotless(localdb) => Spotless(localdb)'
  BY <1>1, <1>2 DEF Spotless
<1>9. Spotless(backup[host]) => Spotless(backup[host])'
  BY <1>1, <1>2 DEF Spotless
<1> QED
  BY <1>1, <1>2, <1>3, <1>6, <1>7, <1>8, <1>9 DEF NoRevival

LEMMA DeletionsNext ==
    ASSUME Edges, MirrorInv', EditsInv, DeletionsInv, [Next]_vars
    PROVE  DeletionsInv'
<1> SUFFICES ASSUME faults' = 0 PROVE NoRevival'
  BY DEF DeletionsInv
<1>1. faults \in Nat /\ (UNCHANGED faults \/ faults' = faults + 1)
  <2>1. faults \in Nat
    BY DEF Edges, Inductive, TypeOK
  <2>2. UNCHANGED faults \/ faults' = faults + 1
    BY FaultsGrow DEF Edges, Inductive
  <2> QED
    BY <2>1, <2>2
<1>2. faults = 0 /\ UNCHANGED faults
  BY <1>1
<1>3. Edits /\ NoRevival
  BY <1>2 DEF EditsInv, DeletionsInv
<1>4. CASE UserStep
  <2>1. pc = "idle"
    BY <1>4, UserFrame
  <2> QED
    BY <1>3, <1>4, <2>1, UserDeletes DEF Between
<1>5. CASE SyncStep \/ Cancel \/ Crash \/ (\E h \in Hosts : StartSync(h))
  <2>1. Ready
    BY DEF Edges, Ready, MirrorInv
  <2>2. Still
    BY <1>2, <1>3, <2>1 DEF Still
  <2> QED
    BY <1>5, <2>2, SyncKeepsDeletions
<1>6. CASE UNCHANGED vars
  BY <1>3, <1>6, NoRevivalStutters
<1> QED
  BY <1>4, <1>5, <1>6 DEF Next

LEMMA InitDeletions == ASSUME FastDesktop, Init PROVE DeletionsInv
<1>1. PICK records \in Seq(Record) :
        /\ palm = records /\ backup = [h \in Hosts |-> records]
        /\ Hosts # {} => \A r \in Recs(records) : r.flags = {}
        /\ \A i \in DOMAIN records : records[i].id = i /\ records[i].data = i /\ i # 0
  <2> DEFINE marks == IF InitSynced = {} THEN {DIRTY} ELSE {}
             list  == [i \in 1 .. InitRecords |-> Rec(i, marks, i)]
  <2>1. InitRecords \in Nat /\ marks \in SUBSET Flags /\ (Hosts # {} => marks = {})
    BY ConstantsAssumption DEF Flags, FastDesktop, AlwaysFast
  <2>2. list \in Seq(Record)
    <3>1. \A i \in 1 .. InitRecords : Rec(i, marks, i) \in Record
      BY <2>1 DEF Rec, Record
    <3> QED
      BY <2>1, <3>1
  <2>3. /\ \A r \in Recs(list) : r.flags = marks
        /\ \A i \in DOMAIN list : list[i].id = i /\ list[i].data = i /\ i # 0
    BY <2>1 DEF Recs, Rec
  <2>4. palm = list /\ backup = [h \in Hosts |-> IF h \in InitSynced THEN list ELSE NoFile]
    BY DEF Init
  <2>5. backup = [h \in Hosts |-> list]
    BY <2>4 DEF FastDesktop, AlwaysFast
  <2> HIDE DEF list, marks
  <2> QED
    BY <2>1, <2>2, <2>3, <2>4, <2>5
<1>2. pc = "idle" /\ \A d : ~ Deleted(d)
  BY DEF Init, Deleted
<1>3. \A p, q \in Recs(records) : p.data = q.data => p = q
  BY <1>1 DEF Recs
<1>4. Single(records)
  BY <1>1 DEF Single
<1>5. ASSUME NEW h \in Hosts PROVE Apart(backup[h])
  <2>1. backup[h] = records /\ \A r \in Recs(records) : r.flags = {}
    BY <1>1
  <2> QED
    BY <1>1, <1>2, <1>3, <1>4, <2>1 DEF Apart, Unseen
<1> QED
  BY <1>2, <1>5 DEF DeletionsInv, NoRevival

(* The inductive invariant: where a deleted record can still be, and what  *)
(* will take it away from there.                                           *)
THEOREM DeletionsInvariant == FastDesktop /\ Spec => []DeletionsInv
<1>1. FastDesktop /\ Init => DeletionsInv
  BY InitDeletions
<1>2. /\ FastDesktop /\ Inductive /\ Inductive' /\ IdsInv /\ IdsInv' /\ EditsInv
      /\ MirrorInv /\ MirrorInv' /\ DeletionsInv /\ [Next]_vars
      => DeletionsInv'
  BY DeletionsNext DEF Edges
<1>3. FastDesktop => FastDesktop' /\ OrdinaryUse
  BY DEF FastDesktop, OrdinaryUse, AlwaysFast
<1> QED
  BY <1>1, <1>2, <1>3, InductiveInvariant, IdsInvariant, EditsInvariant, MirrorInvariant, PTL DEF Spec

(* As long as nothing has failed, no sync that reports success leaves on   *)
(* the Palm or in the file a live record whose contents the user deleted   *)
(* on either side.                                                         *)
THEOREM DeletionsStay == FastDesktop /\ Spec => []FaultlessDeletionsHold
<1>1. FastDesktop /\ Inductive /\ MirrorInv /\ DeletionsInv => FaultlessDeletionsHold
  <2> SUFFICES ASSUME FastDesktop, Inductive, MirrorInv, DeletionsInv, faults = 0, Synced,
                      NEW d \in gone[Device] \cup gone[host], NEW x \in Live(palm) \cup Live(backup[host])
               PROVE  x[2] # d
    BY DEF FaultlessDeletionsHold, DeletionsHold
  <2>1. host \in Hosts /\ pc = "userinfo"
    BY DEF Inductive, SessionInv, Synced
  <2>2. Deleted(d)
    BY <2>1 DEF Deleted
  <2>3. backup[host] \in Seq(Record)
    <3>1. backup[host] # NoFile
      BY <2>1 DEF MirrorInv, FastInv, FastDesktop
    <3> QED
      BY <2>1, <3>1 DEF Inductive, TypeOK
  <2>4. x \in Live(backup[host])
    BY DEF MirrorInv, SameLive
  <2>5. PICK r \in Recs(backup[host]) : x = <<r.id, r.data>>
    BY <2>3, <2>4, LiveRecs
  <2>6. ~ Deleted(r.data)
    BY <2>1, <2>5 DEF DeletionsInv, NoRevival, Spotless
  <2> QED
    BY <2>2, <2>5, <2>6
<1>2. FastDesktop => FastDesktop'
  BY DEF FastDesktop, OrdinaryUse, AlwaysFast
<1> QED
  BY <1>1, <1>2, InductiveInvariant, MirrorInvariant, DeletionsInvariant, PTL

(* Where nothing can fail that holds of every sync.                        *)
THEOREM NothingRevives == FastDesktop /\ MaxFaults = 0 /\ Spec => []DeletionsHold
<1>1. Init => faults = 0
  BY DEF Init
<1>2. MaxFaults = 0 /\ Inductive /\ faults = 0 /\ [Next]_vars => (faults = 0)'
  BY FaultsGrow DEF Inductive
<1>3. faults = 0 /\ FaultlessDeletionsHold => DeletionsHold
  BY DEF FaultlessDeletionsHold
<1>4. MaxFaults = 0 => (MaxFaults = 0)'
  OBVIOUS
<1> QED
  BY <1>1, <1>2, <1>3, <1>4, InductiveInvariant, DeletionsStay, PTL DEF Spec
=============================================================================
