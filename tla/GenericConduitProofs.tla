------------------------ MODULE GenericConduitProofs ------------------------
(***************************************************************************)
(* Proofs about GenericConduit, for every set of hosts, every number of    *)
(* records, edits and failures, and every behaviour of the Palm the        *)
(* constants allow: its variables keep their types, localrec is never used *)
(* after it has been freed, and no backup file holds an ID twice.  And, in *)
(* ordinary use: as long as nothing fails, nothing the user wrote is lost. *)
(***************************************************************************)
EXTENDS GenericConduit, SequenceTheorems, FiniteSetTheorems, WellFoundedInduction, TLAPS

-----------------------------------------------------------------------------
(* Facts about the record lists of PdbList, for every list and every ID.   *)

(* Every non-empty set of naturals has a least element.                    *)
LEMMA LeastNatural ==
    ASSUME NEW T \in SUBSET Nat, T # {}
    PROVE  \E x \in T : \A y \in T : x <= y
<1>1. IsWellFoundedOn(OpToRel(<, Nat), Nat)
  BY NatLessThanWellFounded
<1>2. PICK x \in T : \A y \in T : ~ (<<y, x>> \in OpToRel(<, Nat))
  BY <1>1, WFMin
<1>3. \A y \in T : ~ (y < x)
  BY <1>2 DEF OpToRel
<1>4. QED
  BY <1>3

(* pdb_FindRecordByID returns NULL exactly when no record has the ID, and  *)
(* otherwise the first record that has it.                                 *)
THEOREM FindRecordByIDCorrect ==
    ASSUME NEW db \in Seq(Record), NEW id \in Nat
    PROVE  LET i == FindRecordByID(db, id) IN
           /\ i \in 0 .. Len(db)
           /\ i = 0 <=> \A j \in 1 .. Len(db) : db[j].id # id
           /\ i # 0 => db[i].id = id /\ \A j \in 1 .. (i - 1) : db[j].id # id
<1> DEFINE P == Positions(db, id)
           i == FindRecordByID(db, id)
<1>1. DOMAIN db = 1 .. Len(db) /\ Len(db) \in Nat
  BY LenProperties
<1>2. P = {j \in 1 .. Len(db) : db[j].id = id}
  BY <1>1 DEF Positions
<1>3. CASE P = {}
  BY <1>1, <1>2, <1>3 DEF FindRecordByID
<1>4. CASE P # {}
  <2>1. \E x \in P : \A y \in P : x <= y
    <3>1. P \in SUBSET Nat
      BY <1>1, <1>2
    <3>2. QED
      BY <3>1, <1>4, LeastNatural
  <2>2. i \in P /\ \A y \in P : i <= y
    BY <2>1, <1>4 DEF FindRecordByID
  <2>3. QED
    BY <2>2, <1>1, <1>2
<1>5. QED
  BY <1>3, <1>4

(* Unlinking a record shortens the list by one and keeps every other       *)
(* record, in its order.                                                   *)
LEMMA WithoutProperties ==
    ASSUME NEW db \in Seq(Record), NEW i \in 1 .. Len(db)
    PROVE  /\ Without(db, i) \in Seq(Record)
           /\ Len(Without(db, i)) = Len(db) - 1
           /\ \A j \in 1 .. (Len(db) - 1) :
                 Without(db, i)[j] = IF j < i THEN db[j] ELSE db[j + 1]
<1>1. Len(db) \in Nat /\ Len(db) - 1 \in Nat /\ \A j \in 1 .. Len(db) : db[j] \in Record
  BY LenProperties, ElementOfSeq
<1> DEFINE n == Len(db) - 1
           e(j) == IF j < i THEN db[j] ELSE db[j + 1]
<1>2. \A j \in 1 .. n : e(j) \in Record
  BY <1>1
<1>3. Without(db, i) = [j \in 1 .. n |-> e(j)]
  BY <1>1 DEF Without
<1> HIDE DEF e, n
<1>4. [j \in 1 .. n |-> e(j)] \in Seq(Record) /\ Len([j \in 1 .. n |-> e(j)]) = n
  <2>1. n \in Nat
    BY <1>1 DEF n
  <2>2. QED
    BY <1>2, <2>1
<1>5. \A j \in 1 .. n : Without(db, i)[j] = e(j)
  BY <1>3
<1>6. QED
  BY <1>3, <1>4, <1>5 DEF e, n

(* pdb_DeleteRecordByID keeps a list a list.                               *)
LEMMA DeleteRecordByIDType ==
    ASSUME NEW db \in Seq(Record), NEW id \in Nat
    PROVE  DeleteRecordByID(db, id) \in Seq(Record)
<1> DEFINE i == FindRecordByID(db, id)
<1>1. i \in 0 .. Len(db) /\ Len(db) \in Nat
  BY FindRecordByIDCorrect, LenProperties
<1>2. CASE i = 0
  BY <1>2 DEF DeleteRecordByID, Without
<1>3. CASE i # 0
  BY <1>1, <1>3, WithoutProperties DEF DeleteRecordByID
<1>4. QED
  BY <1>2, <1>3

(* pdb_DeleteRecordByID, called with the ID of a record of the list,       *)
(* removes exactly one record.                                             *)
THEOREM DeleteRecordByIDShortens ==
    ASSUME NEW db \in Seq(Record), NEW k \in 1 .. Len(db)
    PROVE  Len(DeleteRecordByID(db, db[k].id)) = Len(db) - 1
<1> DEFINE i == FindRecordByID(db, db[k].id)
<1>1. db[k] \in Record
  BY ElementOfSeq
<1>2. db[k].id \in Nat
  BY <1>1 DEF Record
<1>3. Len(db) \in Nat
  BY LenProperties
<1>4. i \in 0 .. Len(db) /\ (i = 0 <=> \A j \in 1 .. Len(db) : db[j].id # db[k].id)
  BY <1>2, FindRecordByIDCorrect
<1>5. i # 0
  BY <1>4
<1>6. i \in 1 .. Len(db)
  BY <1>3, <1>4, <1>5
<1>7. QED
  BY <1>6, <1>5, WithoutProperties DEF DeleteRecordByID

(* pdb_InsertRecord makes the list one longer.                             *)
LEMMA InsertRecordType ==
    ASSUME NEW db \in Seq(Record), NEW i \in 1 .. Len(db), NEW rec \in Record
    PROVE  /\ InsertRecord(db, i, rec) \in Seq(Record)
           /\ Len(InsertRecord(db, i, rec)) = Len(db) + 1
<1>1. Len(db) \in Nat /\ \A j \in 1 .. Len(db) : db[j] \in Record
  BY LenProperties, ElementOfSeq
<1> DEFINE n == Len(db) + 1
           e(j) == IF j <= i THEN db[j] ELSE IF j = i + 1 THEN rec ELSE db[j - 1]
<1>2. n \in Nat /\ \A j \in 1 .. n : e(j) \in Record
  BY <1>1
<1>3. InsertRecord(db, i, rec) = [j \in 1 .. n |-> e(j)]
  BY DEF InsertRecord
<1> HIDE DEF e, n
<1>4. [j \in 1 .. n |-> e(j)] \in Seq(Record) /\ Len([j \in 1 .. n |-> e(j)]) = n
  BY <1>2
<1>5. QED
  BY <1>3, <1>4 DEF n

(* CLEAR_STATUS_FLAGS touches nothing but the flags of one record.         *)
LEMMA ClearStatusFlagsType ==
    ASSUME NEW db \in Seq(Record), NEW i \in 1 .. Len(db)
    PROVE  /\ ClearStatusFlags(db, i) \in Seq(Record)
           /\ Len(ClearStatusFlags(db, i)) = Len(db)
<1>1. db[i] \in Record
  BY ElementOfSeq
<1>2. [db[i] EXCEPT !.flags = {}] \in Record
  BY <1>1 DEF Record
<1>3. ClearStatusFlags(db, i) = [db EXCEPT ![i] = [db[i] EXCEPT !.flags = {}]]
  BY DEF ClearStatusFlags
<1>4. QED
  BY <1>2, <1>3, ExceptSeq

(* In a finite set of positions, every rank is taken.                      *)
LEMMA NthExists ==
    ASSUME NEW n \in Nat, NEW S \in SUBSET (1 .. n), NEW k \in 1 .. Cardinality(S)
    PROVE  Nth(S, k) \in S /\ Cardinality(S \cap (1 .. Nth(S, k))) = k
<1> DEFINE upto(i) == S \cap (1 .. i)
           T == {i \in 0 .. n : Cardinality(upto(i)) >= k}
<1>1. \A i \in Nat : IsFiniteSet(upto(i)) /\ Cardinality(upto(i)) \in Nat
  <2>1. \A i \in Nat : upto(i) \subseteq 1 .. n
    OBVIOUS
  <2>2. IsFiniteSet(1 .. n)
    BY FS_Interval
  <2> HIDE DEF upto
  <2>3. \A i \in Nat : IsFiniteSet(upto(i))
    BY <2>1, <2>2, FS_Subset
  <2>4. QED
    BY <2>3, FS_CardinalityType
<1>2. upto(n) = S /\ upto(0) = {}
  <2>1. 1 .. 0 = {}
    OBVIOUS
  <2>2. QED
    BY <2>1, Zenon
<1>3. k \in Nat /\ k >= 1 /\ Cardinality(S) >= k
  BY <1>1, <1>2
<1>4. n \in T
  BY <1>2, <1>3
<1>5. PICK m \in T : \A i \in T : m <= i
  <2>1. T \in SUBSET Nat /\ T # {}
    BY <1>4
  <2> HIDE DEF T
  <2>2. QED
    BY <2>1, LeastNatural
<1>6. m # 0
  BY <1>2, <1>3, <1>5, FS_EmptySet
<1>7. m - 1 \in Nat /\ m \in 1 .. n /\ m - 1 \notin T
  BY <1>5, <1>6
<1>8. Cardinality(upto(m - 1)) < k
  <2>1. m - 1 \in 0 .. n
    BY <1>7
  <2>2. ~ (Cardinality(upto(m - 1)) >= k)
    BY <1>7, <2>1
  <2>3. Cardinality(upto(m - 1)) \in Nat
    BY <1>1, <1>7
  <2> HIDE DEF upto
  <2>4. QED
    BY <1>3, <2>2, <2>3
<1>9. m \in S
  <2>1. SUFFICES ASSUME m \notin S PROVE FALSE
    OBVIOUS
  <2>2. upto(m) = upto(m - 1)
    BY <1>7, <2>1
  <2>3. QED
    BY <1>1, <1>3, <1>5, <1>7, <1>8, <2>2
<1>10. Cardinality(upto(m)) = Cardinality(upto(m - 1)) + 1
  <2>1. upto(m) = upto(m - 1) \cup {m} /\ m \notin upto(m - 1)
    BY <1>7, <1>9
  <2>2. IsFiniteSet(upto(m - 1))
    BY <1>1, <1>7
  <2> HIDE DEF upto
  <2>3. QED
    BY <2>1, <2>2, FS_AddElement
<1>11. Cardinality(upto(m)) = k
  BY <1>1, <1>3, <1>5, <1>7, <1>8, <1>10
<1>12. QED
  BY <1>9, <1>11 DEF Nth

(* DlpCleanUpDatabase leaves a list of live records.                       *)
THEOREM PurgedType ==
    ASSUME NEW db \in Seq(Record)
    PROVE  /\ Purged(db) \in Seq(Record)
           /\ \A k \in 1 .. Len(Purged(db)) : IsLive(Purged(db)[k])
<1> DEFINE n == Cardinality(Kept(db))
           e(k) == db[Nth(Kept(db), k)]
<1>1. Len(db) \in Nat /\ DOMAIN db = 1 .. Len(db) /\ \A j \in 1 .. Len(db) : db[j] \in Record
  BY LenProperties, ElementOfSeq
<1>2. Kept(db) \in SUBSET (1 .. Len(db)) /\ \A j \in Kept(db) : IsLive(db[j])
  BY <1>1 DEF Kept
<1>3. n \in Nat
  <2>1. IsFiniteSet(1 .. Len(db))
    BY <1>1, FS_Interval
  <2>2. IsFiniteSet(Kept(db))
    BY <1>2, <2>1, FS_Subset
  <2>3. QED
    BY <2>2, FS_CardinalityType
<1>4. \A k \in 1 .. n : Nth(Kept(db), k) \in Kept(db)
  BY <1>1, <1>2, NthExists
<1>5. \A k \in 1 .. n : e(k) \in Record /\ IsLive(e(k))
  BY <1>1, <1>2, <1>4
<1>6. Purged(db) = [k \in 1 .. n |-> e(k)]
  BY DEF Purged
<1> HIDE DEF e, n
<1>7. [k \in 1 .. n |-> e(k)] \in Seq(Record) /\ Len([k \in 1 .. n |-> e(k)]) = n
  BY <1>3, <1>5
<1>8. QED
  BY <1>5, <1>6, <1>7

-----------------------------------------------------------------------------
(* The plans of SyncTable: sequences of step names in which nothing that   *)
(* needs localrec follows a step that frees it.                            *)
SafePlan(p) == p \in Seq(Steps) /\ FreesLast(p)

(* b may come after a. *)
Follows(a, b) == a \in FreeingSteps => b \notin LocalrecSteps

(* What the proofs need to know about the step names.                      *)
LEMMA StepFacts ==
    /\ {ArchiveLocal, ArchiveRemote, ClearLocal, DeleteLocal, AppendRemote, AppendUnclean,
        InsertRemote, DropRemote, DeleteRemote, PurgeLocal, UploadLocal, UploadAsNew}
         \subseteq Steps
    /\ ArchiveLocal \notin FreeingSteps /\ ArchiveRemote \notin FreeingSteps
    /\ ClearLocal \notin FreeingSteps /\ InsertRemote \notin FreeingSteps
    /\ DeleteRemote \notin FreeingSteps /\ UploadAsNew \notin FreeingSteps
    /\ UploadLocal \notin FreeingSteps
    /\ DeleteRemote \notin LocalrecSteps /\ AppendRemote \notin LocalrecSteps
    /\ AppendUnclean \notin LocalrecSteps /\ ArchiveRemote \notin LocalrecSteps
    /\ DropRemote \notin LocalrecSteps
  BY DEF LocalrecSteps, FreeingSteps, Steps, PalmSteps,
         LocalSteps, ArchiveLocal, ArchiveRemote, ClearLocal, DeleteLocal, AppendRemote,
         AppendUnclean, InsertRemote, DropRemote, DeleteRemote, PurgeLocal, UploadLocal,
         UploadAsNew

(* The empty plan is safe.                                                 *)
LEMMA SafeEmpty == SafePlan(<<>>)
  BY DEF SafePlan, FreesLast

(* So is a plan of one step, whatever it is.                               *)
LEMMA SafeOne == ASSUME NEW a \in Steps PROVE SafePlan(<<a>>)
  BY DEF SafePlan, FreesLast

(* Two steps: the second may not need a localrec that the first freed.     *)
LEMMA SafeTwo ==
    ASSUME NEW a \in Steps, NEW b \in Steps, Follows(a, b)
    PROVE  SafePlan(<<a, b>>)
  BY DEF SafePlan, FreesLast, Follows

(* Three steps, pair by pair.                                              *)
LEMMA SafeThree ==
    ASSUME NEW a \in Steps, NEW b \in Steps, NEW c \in Steps,
           Follows(a, b), Follows(a, c), Follows(b, c)
    PROVE  SafePlan(<<a, b, c>>)
  BY DEF SafePlan, FreesLast, Follows

(* Four steps, pair by pair.                                               *)
LEMMA SafeFour ==
    ASSUME NEW a \in Steps, NEW b \in Steps, NEW c \in Steps, NEW d \in Steps,
           Follows(a, b), Follows(a, c), Follows(a, d),
           Follows(b, c), Follows(b, d), Follows(c, d)
    PROVE  SafePlan(<<a, b, c, d>>)
<1> DEFINE p == <<a, b, c, d>>
<1>1. p \in Seq(Steps) /\ DOMAIN p = 1 .. 4
  OBVIOUS
<1>2. p[1] = a /\ p[2] = b /\ p[3] = c /\ p[4] = d
  OBVIOUS
<1> HIDE DEF p
<1>3. ASSUME NEW j \in 1 .. 4, NEW k \in 1 .. 4, j < k
      PROVE  Follows(p[j], p[k])
  <2>1. \/ j = 1 /\ (k = 2 \/ k = 3 \/ k = 4)
        \/ j = 2 /\ (k = 3 \/ k = 4)
        \/ j = 3 /\ k = 4
    BY <1>3
  <2>2. QED
    BY <2>1, <1>2
<1>4. QED
  BY <1>1, <1>3 DEF SafePlan, FreesLast, Follows, p

(* Every plan of SyncRecord is safe.                                       *)
LEMMA SyncRecordPlanSafe ==
    ASSUME NEW localrec \in Record, NEW remoterec \in Record
    PROVE  SafePlan(SyncRecordPlan(localrec, remoterec))
<1>1. \A t \in Statuses : SafePlan(SyncRecordTable["archived"][t])
  <2>1. /\ SafePlan(<<ArchiveLocal, ArchiveRemote, DeleteRemote, DeleteLocal>>)
        /\ SafePlan(<<ArchiveRemote, DeleteRemote, DeleteLocal>>)
        /\ SafePlan(<<ArchiveRemote, ClearLocal, UploadLocal>>)
        /\ SafePlan(<<ArchiveRemote, DeleteLocal>>)
    BY StepFacts, SafeTwo, SafeThree, SafeFour DEF Follows
  <2>2. QED
    BY <2>1 DEF SyncRecordTable, RemoteArchived, Statuses
<1>2. \A t \in Statuses : SafePlan(SyncRecordTable["expunged"][t])
  <2>1. /\ SafePlan(<<ClearLocal, ArchiveLocal, DeleteLocal>>)
        /\ SafePlan(<<DeleteLocal>>)
        /\ SafePlan(<<DeleteRemote, ClearLocal, UploadLocal>>)
    BY StepFacts, SafeOne, SafeThree DEF Follows
  <2>2. QED
    BY <2>1 DEF SyncRecordTable, RemoteExpunged, Statuses
<1>3. \A t \in Statuses : SafePlan(SyncRecordTable["dirty"][t])
  <2>1. /\ SafePlan(<<ClearLocal, ArchiveLocal, DeleteLocal, AppendUnclean>>)
        /\ SafePlan(<<DeleteLocal, AppendRemote>>)
        /\ SafePlan(<<ClearLocal, UploadAsNew, InsertRemote>>)
        /\ SafePlan(<<InsertRemote, DeleteLocal>>)
    BY StepFacts, SafeTwo, SafeThree, SafeFour DEF Follows
  <2>2. QED
    BY <2>1 DEF SyncRecordTable, RemoteDirty, Statuses
<1>4. \A t \in Statuses : SafePlan(SyncRecordTable["clean"][t])
  <2>1. /\ SafePlan(<<ClearLocal, ArchiveLocal, DeleteLocal, DeleteRemote>>)
        /\ SafePlan(<<DeleteLocal, DeleteRemote>>)
        /\ SafePlan(<<ClearLocal, UploadLocal>>)
        /\ SafePlan(<<>>)
    BY StepFacts, SafeEmpty, SafeTwo, SafeFour DEF Follows
  <2>2. QED
    BY <2>1 DEF SyncRecordTable, RemoteClean, Statuses
<1>5. SafePlan(<<ArchiveLocal, DeleteRemote, DeleteLocal>>) /\ SafePlan(<<ClearLocal>>)
  BY StepFacts, SafeOne, SafeThree DEF Follows
<1>6. Status(localrec) \in Statuses /\ Status(remoterec) \in Statuses
  BY DEF Status, Statuses
<1>7. SafePlan(SyncRecordTable[Status(remoterec)][Status(localrec)])
  BY <1>1, <1>2, <1>3, <1>4, <1>6 DEF Statuses
<1>8. QED
  BY <1>5, <1>7 DEF SyncRecordPlan

(* So is every plan the three sync functions make themselves ...           *)
LEMMA OwnPlansSafe ==
    ASSUME NEW rec \in Record
    PROVE  /\ SafePlan(FirstSyncPlan(rec))
           /\ SafePlan(SlowLocalPlan(rec))
           /\ SafePlan(FastLocalPlan(rec))
           /\ SafePlan(SlowNewPlan(rec))
           /\ SafePlan(FastNewPlan(rec))
<1>1. /\ SafePlan(<<ClearLocal, ArchiveLocal>>)
      /\ SafePlan(<<ClearLocal, UploadLocal>>)
      /\ SafePlan(<<ArchiveLocal, DeleteLocal>>)
      /\ SafePlan(<<ClearLocal, ArchiveLocal, PurgeLocal>>)
  BY StepFacts, SafeTwo, SafeThree DEF Follows
<1>2. \A a \in {ClearLocal, DeleteLocal, PurgeLocal, ArchiveRemote, DropRemote, AppendRemote} :
          SafePlan(<<a>>)
  BY StepFacts, SafeOne
<1>3. QED
  BY <1>1, <1>2, SafeEmpty
  DEF FirstSyncPlan, SlowLocalPlan, FastLocalPlan, SlowNewPlan, FastNewPlan

(* ... and those for a record that the local list lacks do without localrec. *)
LEMMA NewPlansWithoutLocalrec ==
    ASSUME NEW rec \in Record, NEW k
    PROVE  /\ k \in DOMAIN SlowNewPlan(rec) => SlowNewPlan(rec)[k] \notin LocalrecSteps
           /\ k \in DOMAIN FastNewPlan(rec) => FastNewPlan(rec)[k] \notin LocalrecSteps
  BY StepFacts DEF SlowNewPlan, FastNewPlan

(* What is left of a safe plan is safe; after a step that frees localrec,  *)
(* nothing is left that needs it.                                          *)
LEMMA RestOfPlan ==
    ASSUME NEW p, SafePlan(p), p # <<>>
    PROVE  /\ SafePlan(Tail(p))
           /\ \A k \in DOMAIN Tail(p) : \E j \in DOMAIN p : p[j] = Tail(p)[k]
           /\ Head(p) \in FreeingSteps =>
                 \A k \in DOMAIN Tail(p) : Tail(p)[k] \notin LocalrecSteps
<1>1. p \in Seq(Steps) /\ Len(p) \in Nat /\ Len(p) > 0 /\ DOMAIN p = 1 .. Len(p)
  BY LenProperties, EmptySeq DEF SafePlan
<1>2. /\ Tail(p) \in Seq(Steps) /\ DOMAIN Tail(p) = 1 .. (Len(p) - 1)
      /\ \A k \in 1 .. (Len(p) - 1) : Tail(p)[k] = p[k + 1]
      /\ Head(p) = p[1]
  BY <1>1, HeadTailProperties, LenProperties
<1>3. QED
  BY <1>1, <1>2 DEF SafePlan, FreesLast

-----------------------------------------------------------------------------
(* Changing a record of a list into another leaves a list.                 *)
LEMMA ChangeType ==
    ASSUME NEW db \in Seq(Record), NEW i \in DOMAIN db, NEW r \in Record
    PROVE  [db EXCEPT ![i] = r] \in Seq(Record) /\ Len([db EXCEPT ![i] = r]) = Len(db)
<1>1. DOMAIN db = 1 .. Len(db)
  BY LenProperties
<1>2. QED
  BY <1>1, ExceptSeq

(* Adding a number to one of several sets of numbers.                      *)
LEMMA AddToSet ==
    ASSUME NEW S, NEW f \in [S -> SUBSET Nat], NEW d \in S, NEW x \in Nat
    PROVE  [f EXCEPT ![d] = @ \cup {x}] \in [S -> SUBSET Nat]
  OBVIOUS

(* A step that leaves the work on the record in hand alone, and does not   *)
(* leave the two phases with a plan unfinished.                            *)
LEMMA WorkUnchanged ==
    ASSUME FreesLast(plan), LocalrecLive, UNCHANGED <<plan, li, localdb>>
    PROVE  FreesLast(plan)' /\ LocalrecLive'
  BY DEF FreesLast, LocalrecLive

(* What the user's edits leave alone, on the Palm and in a backup file.    *)
LEMMA UserFrame ==
    ASSUME UserStep
    PROVE  /\ pc = "idle" /\ edits' = edits + 1
           /\ UNCHANGED <<lastSyncPC, sessVars, workVars, faults>>
<1> DEFINE Framed == /\ pc = "idle" /\ edits' = edits + 1
                     /\ UNCHANGED <<lastSyncPC, sessVars, workVars, faults>>
<1>1. ASSUME NEW i, PalmEdit(i) PROVE Framed
  BY <1>1 DEF PalmEdit, NewEdit
<1>2. ASSUME NEW i, PalmArchive(i) PROVE Framed
  BY <1>2 DEF PalmArchive, NewEdit
<1>3. ASSUME NEW i, PalmExpunge(i) PROVE Framed
  BY <1>3 DEF PalmExpunge, NewEdit
<1>4. CASE PalmNew
  BY <1>4 DEF PalmNew, NewEdit
<1>5. ASSUME NEW h, DesktopNew(h) PROVE Framed
  BY <1>5 DEF DesktopNew, NewEdit, palmVars
<1>6. ASSUME NEW h, NEW i, DesktopEdit(h, i) PROVE Framed
  BY <1>6 DEF DesktopEdit, NewEdit, palmVars
<1>7. ASSUME NEW h, NEW i, DesktopArchive(h, i) PROVE Framed
  BY <1>7 DEF DesktopArchive, NewEdit, palmVars
<1>8. ASSUME NEW h, NEW i, DesktopExpunge(h, i) PROVE Framed
  BY <1>8 DEF DesktopExpunge, NewEdit, palmVars
<1> QED
  BY <1>1, <1>2, <1>3, <1>4, <1>5, <1>6, <1>7, <1>8 DEF UserStep

(* The user's edits keep every list a list.                                *)
LEMMA UserStepInductive == ASSUME Inductive, UserStep PROVE Inductive'
<1> USE ConstantsAssumption
<1>1. TypeOK /\ SessionInv /\ FreesLast(plan) /\ LocalrecLive
  BY DEF Inductive
<1>2. Version \in Nat /\ {DIRTY, DELETED, ARCHIVE, EXPUNGED} = Flags
  BY <1>1 DEF TypeOK, Version, Flags
<1>3. /\ UNCHANGED <<lastSyncPC, sessVars, workVars, faults>>
      /\ edits' = edits + 1 /\ pc = "idle"
  BY UserFrame
<1>4. \A i \in DOMAIN palm : palm[i] \in Record
  BY <1>1, ElementOfSeq, LenProperties DEF TypeOK
<1>5. SUFFICES /\ palm' \in Seq(Record) /\ nextId' \in Nat
               /\ backup' \in [Hosts -> Seq(Record) \cup {NoFile}]
               /\ archive' \in [Hosts -> SUBSET Nat]
               /\ wanted' \subseteq Nat /\ gone' \in [Hosts \cup {Device} -> SUBSET Nat]
  <2>1. FreesLast(plan)' /\ LocalrecLive'
    BY <1>1, <1>3, WorkUnchanged DEF workVars
  <2>2. TypeOK'
    BY <1>1, <1>3, <1>5 DEF TypeOK, sessVars, workVars
  <2>3. SessionInv'
    BY <1>1, <1>3 DEF SessionInv, sessVars, workVars
  <2>4. QED
    BY <2>1, <2>2, <2>3 DEF Inductive
<1>6. ASSUME NEW i \in DOMAIN palm, PalmEdit(i) \/ PalmArchive(i) \/ PalmExpunge(i)
      PROVE  /\ palm' \in Seq(Record) /\ UNCHANGED <<nextId, fileVars>>
             /\ wanted' \subseteq Nat /\ gone' \in [Hosts \cup {Device} -> SUBSET Nat]
  <2>1. palm[i] \in Record /\ palm[i].data \in Nat
    BY <1>4 DEF Record
  <2>2. \E r \in Record : palm' = [palm EXCEPT ![i] = r]
    <3>1. CASE PalmEdit(i)
      <4> DEFINE r == [palm[i] EXCEPT !.data = Version, !.flags = @ \cup {DIRTY}]
      <4>1. r \in Record
        BY <2>1, <1>2 DEF Record
      <4>2. palm' = [palm EXCEPT ![i] = r]
        BY <3>1 DEF PalmEdit
      <4>3. QED
        BY <4>1, <4>2
    <3>2. CASE PalmArchive(i)
      <4>1. PICK marks \in ArchiveMarks : palm' = [palm EXCEPT ![i].flags = @ \cup marks]
        BY <3>2 DEF PalmArchive
      <4> DEFINE r == [palm[i] EXCEPT !.flags = @ \cup marks]
      <4>2. r \in Record
        BY <2>1 DEF Record
      <4>3. palm' = [palm EXCEPT ![i] = r]
        BY <4>1
      <4>4. QED
        BY <4>2, <4>3
    <3>3. CASE PalmExpunge(i)
      <4>1. PICK marks \in ExpungeMarks :
                palm' = [palm EXCEPT ![i].data = 0, ![i].flags = @ \cup marks]
        BY <3>3 DEF PalmExpunge
      <4> DEFINE r == [palm[i] EXCEPT !.data = 0, !.flags = @ \cup marks]
      <4>2. r \in Record
        BY <2>1 DEF Record
      <4>3. palm' = [palm EXCEPT ![i] = r]
        BY <4>1
      <4>4. QED
        BY <4>2, <4>3
    <3>4. QED
      BY <1>6, <3>1, <3>2, <3>3
  <2>3. palm' \in Seq(Record)
    BY <2>2, <1>1, ChangeType DEF TypeOK
  <2>4. UNCHANGED <<nextId, fileVars>>
    BY <1>6 DEF PalmEdit, PalmArchive, PalmExpunge
  <2>5. wanted' \subseteq Nat
    BY <1>6, <1>1, <1>2 DEF TypeOK, PalmEdit, PalmArchive, PalmExpunge, UserChanges
  <2>6. gone' \in [Hosts \cup {Device} -> SUBSET Nat]
    <3>1. gone' = gone \/ gone' = [gone EXCEPT ![Device] = @ \cup {palm[i].data}]
      BY <1>6 DEF PalmEdit, PalmArchive, PalmExpunge
    <3>2. QED
      BY <1>1, <2>1, <3>1, AddToSet DEF TypeOK
  <2>7. QED
    BY <2>3, <2>4, <2>5, <2>6
<1>7. CASE PalmNew
  <2>1. Rec(nextId, {DIRTY}, Version) \in Record
    BY <1>1, <1>2 DEF Rec, Record, TypeOK
  <2>2. palm' \in Seq(Record)
    BY <1>7, <1>1, <2>1, AppendProperties DEF PalmNew, AppendRecord, TypeOK
  <2>3. QED
    BY <1>7, <1>1, <1>2, <1>5, <2>2 DEF PalmNew, UserChanges, TypeOK, fileVars
<1>8. ASSUME NEW h \in Hosts, backup[h] # NoFile,
             \/ DesktopNew(h)
             \/ \E i \in DOMAIN backup[h] :
                   DesktopEdit(h, i) \/ DesktopArchive(h, i) \/ DesktopExpunge(h, i)
      PROVE  /\ UNCHANGED <<palm, nextId, archive>>
             /\ backup' \in [Hosts -> Seq(Record) \cup {NoFile}]
             /\ wanted' \subseteq Nat /\ gone' \in [Hosts \cup {Device} -> SUBSET Nat]
  <2>1. backup[h] \in Seq(Record)
    BY <1>1, <1>8 DEF TypeOK
  <2>2. \A i \in DOMAIN backup[h] : backup[h][i] \in Record /\ backup[h][i].data \in Nat
    <3>1. \A i \in DOMAIN backup[h] : backup[h][i] \in Record
      BY <2>1, ElementOfSeq, LenProperties
    <3>2. QED
      BY <3>1 DEF Record
  <2>3. UNCHANGED <<palm, nextId, archive>>
    BY <1>8 DEF DesktopNew, DesktopEdit, DesktopArchive, DesktopExpunge, palmVars
  <2>4. CASE DesktopNew(h)
    <3>1. Rec(0, {DIRTY}, Version) \in Record
      BY <1>2 DEF Rec, Record
    <3>2. Append(backup[h], Rec(0, {DIRTY}, Version)) \in Seq(Record)
      BY <2>1, <3>1, AppendProperties
    <3>3. backup' \in [Hosts -> Seq(Record) \cup {NoFile}]
      BY <2>4, <1>1, <3>2 DEF DesktopNew, AppendRecord, TypeOK
    <3>4. QED
      BY <2>4, <2>3, <3>3, <1>1, <1>2 DEF DesktopNew, UserChanges, TypeOK
  <2>5. ASSUME NEW i \in DOMAIN backup[h],
               DesktopEdit(h, i) \/ DesktopArchive(h, i) \/ DesktopExpunge(h, i)
        PROVE  /\ backup' \in [Hosts -> Seq(Record) \cup {NoFile}]
               /\ wanted' \subseteq Nat /\ gone' \in [Hosts \cup {Device} -> SUBSET Nat]
    <3> DEFINE edited   == [backup[h][i] EXCEPT !.data = Version, !.flags = @ \cup {DIRTY}]
               archived == [backup[h][i] EXCEPT !.flags = @ \cup {DELETED, ARCHIVE}]
               expunged == [backup[h][i] EXCEPT !.flags = @ \cup {DELETED, EXPUNGED}]
    <3>1. edited \in Record /\ archived \in Record /\ expunged \in Record
      <4>1. \A marks \in SUBSET Flags :
                [backup[h][i] EXCEPT !.flags = @ \cup marks] \in Record
        BY <2>2 DEF Record
      <4>2. archived \in Record /\ expunged \in Record
        BY <1>2, <4>1
      <4>3. edited \in Record
        <5>1. \A rec \in Record, v \in Nat, marks \in SUBSET Flags :
                  [rec EXCEPT !.data = v, !.flags = @ \cup marks] \in Record
          BY DEF Record
        <5>2. {DIRTY} \in SUBSET Flags
          BY <1>2
        <5>3. QED
          BY <1>2, <2>2, <5>1, <5>2
      <4>4. QED
        BY <4>2, <4>3
    <3>2. /\ DesktopEdit(h, i) =>
                backup' = [backup EXCEPT ![h] = [backup[h] EXCEPT ![i] = edited]]
          /\ DesktopArchive(h, i) =>
                backup' = [backup EXCEPT ![h] = [backup[h] EXCEPT ![i] = archived]]
          /\ DesktopExpunge(h, i) =>
                backup' = [backup EXCEPT ![h] = [backup[h] EXCEPT ![i] = expunged]]
      BY DEF DesktopEdit, DesktopArchive, DesktopExpunge
    <3> HIDE DEF edited, archived, expunged
    <3>3. \A r \in Record : [backup[h] EXCEPT ![i] = r] \in Seq(Record)
      BY <2>1, ChangeType
    <3>4. \A db \in Seq(Record) : [backup EXCEPT ![h] = db] \in [Hosts -> Seq(Record) \cup {NoFile}]
      BY <1>1 DEF TypeOK
    <3>5. backup' \in [Hosts -> Seq(Record) \cup {NoFile}]
      BY <2>5, <3>1, <3>2, <3>3, <3>4
    <3>6. wanted' \subseteq Nat
      BY <2>5, <1>1, <1>2 DEF TypeOK, DesktopEdit, DesktopArchive, DesktopExpunge, UserChanges
    <3>7. gone' \in [Hosts \cup {Device} -> SUBSET Nat]
      <4>1. gone' = gone \/ gone' = [gone EXCEPT ![h] = @ \cup {backup[h][i].data}]
        BY <2>5 DEF DesktopEdit, DesktopArchive, DesktopExpunge
      <4>2. h \in Hosts \cup {Device} /\ backup[h][i].data \in Nat
        BY <2>2
      <4> DEFINE d == backup[h][i].data
      <4>3. gone \in [Hosts \cup {Device} -> SUBSET Nat]
        BY <1>1 DEF TypeOK
      <4>4. [gone EXCEPT ![h] = @ \cup {d}] \in [Hosts \cup {Device} -> SUBSET Nat]
        BY <4>2, <4>3, AddToSet
      <4>5. QED
        BY <4>1, <4>3, <4>4
    <3>8. QED
      BY <3>5, <3>6, <3>7
  <2>6. QED
    BY <1>8, <2>3, <2>4, <2>5
<1>9. QED
  <2>1. CASE \E i \in DOMAIN palm : PalmEdit(i) \/ PalmArchive(i) \/ PalmExpunge(i)
    BY <2>1, <1>6, <1>5, <1>1 DEF TypeOK, fileVars
  <2>2. CASE \E h \in {g \in Hosts : backup[g] # NoFile} :
                \/ DesktopNew(h)
                \/ \E i \in DOMAIN backup[h] :
                      DesktopEdit(h, i) \/ DesktopArchive(h, i) \/ DesktopExpunge(h, i)
    BY <2>2, <1>8, <1>5, <1>1 DEF TypeOK
  <2>3. QED
    BY <1>7, <2>1, <2>2 DEF UserStep

-----------------------------------------------------------------------------
(* The Palm's database stays a list, whatever a call does to it.           *)
LEMMA RemoveType ==
    ASSUME palm \in Seq(Record), NEW id \in Nat, Remove(id)
    PROVE  palm' \in Seq(Record)
  BY DeleteRecordByIDType DEF Remove

(* DlpCleanUpDatabase leaves the Palm a list of records.                   *)
LEMMA CleanUpType == ASSUME palm \in Seq(Record), CleanUp PROVE palm' \in Seq(Record)
  BY PurgedType DEF CleanUp

(* DlpResetSyncFlags changes flags and nothing else.                       *)
LEMMA ResetFlagsType == ASSUME palm \in Seq(Record), ResetFlags PROVE palm' \in Seq(Record)
<1> DEFINE r(i) == [palm[i] EXCEPT !.flags = @ \ {DIRTY}]
<1>1. Len(palm) \in Nat /\ DOMAIN palm = 1 .. Len(palm) /\ \A i \in 1 .. Len(palm) : palm[i] \in Record
  BY LenProperties, ElementOfSeq
<1>2. \A i \in 1 .. Len(palm) : r(i) \in Record
  BY <1>1 DEF Record
<1>3. palm' = [i \in 1 .. Len(palm) |-> r(i)]
  BY <1>1 DEF ResetFlags
<1> HIDE DEF r
<1>4. QED
  BY <1>1, <1>2, <1>3

(* DlpWriteRecord leaves a list, and an ID that is a number.               *)
LEMMA StoreType ==
    ASSUME palm \in Seq(Record), nextId \in Nat,
           NEW id \in Nat, NEW data \in Nat, NEW newID \in Nat, Store(id, data, newID)
    PROVE  palm' \in Seq(Record) /\ nextId' \in Nat
<1>1. \A marks \in WriteMarks : Rec(id, marks, data) \in Record /\ Rec(newID, marks, data) \in Record
  BY ConstantsAssumption DEF Rec, Record
<1> DEFINE i == FindRecordByID(palm, id)
<1>2. i # 0 => i \in DOMAIN palm
  BY FindRecordByIDCorrect, LenProperties
<1>3. PICK marks \in WriteMarks :
        \/ i # 0 /\ palm' = [palm EXCEPT ![i] = Rec(id, marks, data)] /\ UNCHANGED nextId
        \/ palm' = Append(palm, Rec(id, marks, data)) /\ UNCHANGED nextId
        \/ palm' = Append(palm, Rec(newID, marks, data)) /\ nextId' = nextId + 1
  BY DEF Store, AppendRecord
<1>4. \A rec \in Record : Append(palm, rec) \in Seq(Record)
  BY AppendProperties
<1>5. i # 0 => \A rec \in Record : [palm EXCEPT ![i] = rec] \in Seq(Record)
  BY <1>2, ChangeType
<1> HIDE DEF i
<1>6. Rec(id, marks, data) \in Record /\ Rec(newID, marks, data) \in Record
  BY <1>1, Zenon
<1>7. CASE i # 0 /\ palm' = [palm EXCEPT ![i] = Rec(id, marks, data)] /\ UNCHANGED nextId
  <2>1. [palm EXCEPT ![i] = Rec(id, marks, data)] \in Seq(Record)
    BY <1>5, <1>6, <1>7, Zenon
  <2>2. QED
    BY <1>7, <2>1
<1>8. CASE palm' = Append(palm, Rec(id, marks, data)) /\ UNCHANGED nextId
  BY <1>4, <1>6, <1>8
<1>9. CASE palm' = Append(palm, Rec(newID, marks, data)) /\ nextId' = nextId + 1
  BY <1>4, <1>6, <1>9
<1>10. QED
  BY <1>3, <1>7, <1>8, <1>9

-----------------------------------------------------------------------------
(* Without a plan there is nothing to show about plans.                    *)
LEMMA NoPlan == ASSUME plan' = <<>> PROVE FreesLast(plan)' /\ LocalrecLive'
  BY DEF FreesLast, LocalrecLive

(* The invariant holds at the start.                                       *)
LEMMA InitInductive == Init => Inductive
<1> SUFFICES ASSUME Init PROVE Inductive
  OBVIOUS
<1> USE ConstantsAssumption
<1> DEFINE marks == IF InitSynced = {} THEN {DIRTY} ELSE {}
           r(i) == Rec(i, marks, i)
           records == [i \in 1 .. InitRecords |-> r(i)]
<1>1. \A i \in 1 .. InitRecords : r(i) \in Record
  BY DEF Rec, Record, Flags
<1>2. records \in Seq(Record)
  <2> HIDE DEF r
  <2>1. QED
    BY <1>1
<1>3. palm = records /\ backup = [h \in Hosts |-> IF h \in InitSynced THEN records ELSE NoFile]
  BY DEF Init
<1> HIDE DEF records
<1>4. palm \in Seq(Record) /\ backup \in [Hosts -> Seq(Record) \cup {NoFile}]
  BY <1>2, <1>3
<1>5. lastSyncPC \in Hosts \cup {NoHost}
  BY DEF Init
<1>6. NoRec \in Record
  BY DEF NoRec, Rec, Record
<1>7. archive \in [Hosts -> SUBSET Nat] /\ gone \in [Hosts \cup {Device} -> SUBSET Nat]
  BY DEF Init
<1>8. nextId \in Nat /\ wanted \subseteq Nat
  BY DEF Init
<1>9. TypeOK
  <2>1. /\ pc \in Phases /\ host \in Hosts \cup {NoHost} /\ mode \in Modes
        /\ opened \in BOOLEAN /\ online \in BOOLEAN /\ failed \in BOOLEAN
    BY DEF Init, Phases, Modes
  <2>2. /\ localdb = <<>> /\ remotedb = <<>> /\ plan = <<>> /\ seen = {} /\ rem = NoRec
        /\ li = 0 /\ edits = 0 /\ faults = 0
    BY DEF Init
  <2>3. QED
    BY <1>4, <1>5, <1>6, <1>7, <1>8, <2>1, <2>2 DEF TypeOK
<1>10. SessionInv /\ FreesLast(plan) /\ LocalrecLive
  BY DEF Init, SessionInv, FreesLast, LocalrecLive
<1>11. QED
  BY <1>9, <1>10 DEF Inductive

-----------------------------------------------------------------------------
(* The steps that begin and end a session, or one of its phases.           *)
LEMMA EndSessionInductive ==
    ASSUME Inductive, EndSession, lastSyncPC' \in Hosts \cup {NoHost}, faults' \in Nat,
           UNCHANGED <<palm, nextId, fileVars, userVars>>
    PROVE  Inductive'
<1>1. NoRec \in Record
  BY DEF NoRec, Rec, Record
<1>2. TypeOK'
  <2>1. /\ pc' \in Phases /\ host' \in Hosts \cup {NoHost} /\ mode' \in Modes
        /\ opened' \in BOOLEAN /\ online' \in BOOLEAN /\ failed' \in BOOLEAN
    BY DEF EndSession, Phases, Modes
  <2>2. /\ localdb' = <<>> /\ remotedb' = <<>> /\ plan' = <<>> /\ seen' = {} /\ rem' = NoRec
        /\ li' = 0
    BY DEF EndSession
  <2>3. QED
    BY <1>1, <2>1, <2>2 DEF Inductive, TypeOK, fileVars, userVars, NoRec
<1>3. SessionInv' /\ FreesLast(plan)' /\ LocalrecLive'
  BY NoPlan DEF EndSession, SessionInv
<1>4. QED
  BY <1>2, <1>3 DEF Inductive

(* do_sync starts with no plan and with a kind of sync.                    *)
LEMMA StartSyncInductive == ASSUME Inductive, NEW h \in Hosts, StartSync(h) PROVE Inductive'
<1>1. TypeOK'
  BY ConstantsAssumption DEF Inductive, TypeOK, StartSync, NoFault, palmVars, fileVars, workVars,
                             userVars, Phases, Modes
<1>2. plan' = <<>>
  BY DEF Inductive, SessionInv, StartSync, workVars
<1>3. SessionInv'
  BY <1>2 DEF Inductive, SessionInv, StartSync, fileVars
<1>4. QED
  BY <1>1, <1>2, <1>3, NoPlan DEF Inductive

(* The steps that move on to another phase with the work as it is.         *)
LEMMA PhaseStepInductive ==
    ASSUME Inductive, pc # "idle", plan = <<>>,
           UNCHANGED <<workVars, userVars, host, mode, opened, archive>>,
           palm' \in Seq(Record), nextId' \in Nat, faults' \in Nat,
           lastSyncPC' = lastSyncPC, online' \in BOOLEAN, failed' \in BOOLEAN,
           backup' \in [Hosts -> Seq(Record) \cup {NoFile}],
           pc' \in Phases \ {"idle", "open"}
    PROVE  Inductive'
<1>1. TypeOK'
  BY DEF Inductive, TypeOK, workVars, userVars
<1>2. SessionInv'
  BY DEF Inductive, SessionInv, workVars
<1>3. plan' = <<>>
  BY DEF workVars
<1>4. QED
  BY <1>1, <1>2, <1>3, NoPlan DEF Inductive

(* Open makes the lists of the session from those of the two sides.        *)
LEMMA OpenInductive == ASSUME Inductive, Open PROVE Inductive'
<1>1. TypeOK /\ SessionInv
  BY DEF Inductive
<1>2. host \in Hosts /\ mode \in {"first", "slow", "fast"} /\ plan = <<>>
  BY <1>1 DEF Open, TypeOK, SessionInv, Modes
<1>3. mode # "first" => backup[host] \in Seq(Record)
  BY <1>1, <1>2 DEF Open, TypeOK, SessionInv
<1>4. localdb' \in Seq(Record) /\ remotedb' \in Seq(Record) /\ pc' \in {"local", "remote"}
  <2>1. \/ mode = "first" /\ pc' = "local"  /\ localdb' = palm         /\ remotedb' = <<>>
        \/ mode = "slow"  /\ pc' = "remote" /\ localdb' = backup[host] /\ remotedb' = palm
        \/ mode = "fast"  /\ pc' = "remote" /\ localdb' = backup[host] /\ remotedb' = <<>>
    BY <1>2 DEF Open
  <2>2. palm \in Seq(Record)
    BY <1>1 DEF TypeOK
  <2>3. <<>> \in Seq(Record)
    OBVIOUS
  <2>4. QED
    BY <1>3, <2>1, <2>2, <2>3, Zenon
<1>5. TypeOK'
  BY <1>1, <1>4 DEF TypeOK, Open, NoFault, palmVars, fileVars, userVars, Phases
<1>6. plan' = <<>>
  BY <1>2 DEF Open
<1>7. SessionInv'
  BY <1>2, <1>4, <1>6 DEF SessionInv, Open
<1>8. QED
  BY <1>5, <1>6, <1>7, NoPlan DEF Inductive

(* A call that fails before any record is in hand leaves no plan.          *)
LEMMA FailedCallInductive == ASSUME Inductive, OpenFails \/ ReadFails PROVE Inductive'
<1>1. /\ pc # "idle" /\ plan = <<>>
      /\ UNCHANGED <<workVars, userVars, host, mode, opened, lastSyncPC, fileVars, palm, nextId>>
      /\ faults' \in Nat /\ online' \in BOOLEAN /\ failed' \in BOOLEAN /\ pc' = "userinfo"
  <2>1. online \in BOOLEAN /\ faults \in Nat /\ (pc = "open" => plan = <<>>)
    BY DEF Inductive, TypeOK, SessionInv
  <2>2. pc # "idle" /\ plan = <<>> /\ pc' = "userinfo" /\ failed' = TRUE
    BY <2>1 DEF OpenFails, ReadFails, Fail
  <2>3. UNCHANGED <<workVars, userVars, host, mode, opened, lastSyncPC, fileVars>>
    BY DEF OpenFails, ReadFails
  <2>4. UNCHANGED <<palm, nextId>> /\ (online' = online \/ online' = FALSE)
    BY DEF OpenFails, ReadFails, Refused, Lost
  <2>5. faults' = faults \/ faults' = faults + 1
    BY DEF OpenFails, ReadFails, Refused, Lost, Fault, NoFault
  <2>6. online' \in BOOLEAN
    BY <2>1, <2>4
  <2>7. failed' \in BOOLEAN /\ faults' \in Nat
    BY <2>1, <2>2, <2>5
  <2>8. QED
    BY <2>2, <2>3, <2>4, <2>6, <2>7
<1>2. QED
  BY <1>1, PhaseStepInductive DEF Inductive, TypeOK, fileVars, Phases

-----------------------------------------------------------------------------
(* Choosing the record in hand and its plan.                               *)
LEMMA DecideInductive ==
    ASSUME TypeOK, NEW remoterec \in Record, NEW newPlan, SafePlan(newPlan),
           \A k \in DOMAIN newPlan : newPlan[k] \notin LocalrecSteps,
           Decide(remoterec, newPlan), localdb' = localdb
    PROVE  /\ li' \in Nat /\ seen' \subseteq Nat /\ rem' \in Record /\ SafePlan(plan')
           /\ LocalrecLive'
<1> DEFINE i == FindRecordByID(localdb, remoterec.id)
<1>1. remoterec.id \in Nat
  BY DEF Record
<1>2. i \in Nat /\ (i # 0 => i \in DOMAIN localdb /\ localdb[i] \in Record)
  <2>1. i \in 0 .. Len(localdb) /\ Len(localdb) \in Nat /\ DOMAIN localdb = 1 .. Len(localdb)
    BY <1>1, FindRecordByIDCorrect, LenProperties DEF TypeOK
  <2> HIDE DEF i
  <2>2. QED
    BY <2>1, ElementOfSeq DEF TypeOK
<1>3. li' = i /\ seen' = seen \cup {remoterec.id}
  BY DEF Decide
<1>4. CASE i = 0
  <2>1. rem' = remoterec /\ plan' = newPlan
    BY <1>4 DEF Decide
  <2>2. LocalrecLive'
    BY <2>1 DEF LocalrecLive
  <2>3. QED
    BY <1>1, <1>2, <1>3, <2>1, <2>2 DEF TypeOK
<1>5. CASE i # 0
  <2> DEFINE r == IF mode = "slow" THEN DistrustClean(localdb[i], remoterec) ELSE remoterec
  <2>1. rem' = r /\ plan' = SyncRecordPlan(localdb[i], r)
    BY <1>5 DEF Decide
  <2>2. r \in Record
    BY DEF DistrustClean, Record, Flags
  <2> HIDE DEF i, r
  <2>3. SafePlan(plan')
    BY <1>2, <1>5, <2>1, <2>2, SyncRecordPlanSafe
  <2>4. LocalrecLive'
    BY <1>2, <1>3, <1>5 DEF LocalrecLive
  <2>5. QED
    BY <1>1, <1>2, <1>3, <2>1, <2>2, <2>3, <2>4 DEF TypeOK
<1>6. QED
  BY <1>4, <1>5

(* Taking the next remote record makes a safe plan for it.                 *)
LEMMA NextRemoteInductive == ASSUME Inductive, NextRemoteSlow \/ NextRemoteFast PROVE Inductive'
<1>1. TypeOK /\ SessionInv /\ pc = "remote"
  BY DEF Inductive, NextRemoteSlow, NextRemoteFast
<1>2. UNCHANGED <<palmVars, fileVars, sessVars, userVars, localdb, faults>>
  BY DEF NextRemoteSlow, NextRemoteFast, NoFault
<1>3. /\ li' \in Nat /\ seen' \subseteq Nat /\ rem' \in Record /\ SafePlan(plan')
      /\ LocalrecLive' /\ remotedb' \in Seq(Record)
  <2>1. CASE NextRemoteSlow
    <3>1. PICK i \in DOMAIN remotedb : /\ Decide(remotedb[i], SlowNewPlan(remotedb[i]))
                                       /\ remotedb' = ClearStatusFlags(remotedb, i)
      BY <2>1 DEF NextRemoteSlow
    <3>2. i \in 1 .. Len(remotedb) /\ remotedb[i] \in Record
      BY <1>1, LenProperties, ElementOfSeq DEF TypeOK
    <3>3. SafePlan(SlowNewPlan(remotedb[i]))
      BY <3>2, OwnPlansSafe
    <3>4. \A k \in DOMAIN SlowNewPlan(remotedb[i]) : SlowNewPlan(remotedb[i])[k] \notin LocalrecSteps
      BY <3>2, NewPlansWithoutLocalrec
    <3>5. remotedb' \in Seq(Record)
      BY <1>1, <3>1, <3>2, ClearStatusFlagsType DEF TypeOK
    <3>6. QED
      BY <1>1, <1>2, <3>1, <3>2, <3>3, <3>4, <3>5, DecideInductive
  <2>2. CASE NextRemoteFast
    <3>1. PICK i \in Unread : Decide(palm[i], FastNewPlan(palm[i])) /\ remotedb' = remotedb
      BY <2>2 DEF NextRemoteFast
    <3>2. palm[i] \in Record
      BY <1>1, LenProperties, ElementOfSeq DEF TypeOK, Unread
    <3>3. SafePlan(FastNewPlan(palm[i]))
      BY <3>2, OwnPlansSafe
    <3>4. \A k \in DOMAIN FastNewPlan(palm[i]) : FastNewPlan(palm[i])[k] \notin LocalrecSteps
      BY <3>2, NewPlansWithoutLocalrec
    <3>5. remotedb' \in Seq(Record)
      BY <1>1, <3>1 DEF TypeOK
    <3>6. QED
      BY <1>1, <1>2, <3>1, <3>2, <3>3, <3>4, <3>5, DecideInductive
  <2>3. QED
    BY <2>1, <2>2
<1>4. TypeOK'
  BY <1>1, <1>2, <1>3 DEF TypeOK, palmVars, fileVars, sessVars, userVars, SafePlan
<1>5. SessionInv'
  BY <1>1, <1>2 DEF SessionInv, fileVars, sessVars
<1>6. QED
  BY <1>3, <1>4, <1>5 DEF Inductive, SafePlan, FreesLast

(* So does taking the next local record.                                   *)
LEMMA NextLocalInductive == ASSUME Inductive, NextLocal PROVE Inductive'
<1>1. TypeOK /\ SessionInv /\ pc = "local"
  BY DEF Inductive, NextLocal
<1>2. UNCHANGED <<palmVars, fileVars, sessVars, userVars, localdb, remotedb, seen, rem, faults>>
  BY DEF NextLocal, NoFault
<1>3. li' = li + 1 /\ li' \in 1 .. Len(localdb) /\ DOMAIN localdb = 1 .. Len(localdb)
  BY <1>1, LenProperties DEF TypeOK, NextLocal
<1>4. localdb[li + 1] \in Record
  BY <1>1, <1>3, ElementOfSeq DEF TypeOK
<1>5. SafePlan(plan')
  <2>1. mode \in {"first", "slow", "fast"}
    BY <1>1 DEF TypeOK, SessionInv, Modes
  <2>2. SafePlan(LocalPlan(localdb[li + 1]))
    BY <1>4, <2>1, OwnPlansSafe, SafeEmpty DEF LocalPlan
  <2>3. QED
    BY <2>2 DEF NextLocal
<1>6. TypeOK'
  BY <1>1, <1>2, <1>3, <1>5 DEF TypeOK, palmVars, fileVars, sessVars, userVars, SafePlan
<1>7. SessionInv' /\ LocalrecLive'
  BY <1>1, <1>2, <1>3 DEF SessionInv, LocalrecLive, fileVars, sessVars
<1>8. QED
  BY <1>5, <1>6, <1>7 DEF Inductive, SafePlan, FreesLast

(* The two phases end with no plan.                                        *)
LEMMA PhaseEndInductive == ASSUME Inductive, RemoteDone \/ LocalDone PROVE Inductive'
<1>1. NoRec \in Record
  BY DEF NoRec, Rec, Record
<1>2. TypeOK'
  <2>1. CASE RemoteDone
    <3>1. /\ pc' = "local" /\ li' = 0 /\ rem' = NoRec /\ seen' = {}
          /\ UNCHANGED <<palmVars, fileVars, userVars, host, mode, opened, online, failed,
                         localdb, remotedb, plan, faults>>
      BY <2>1 DEF RemoteDone, NoFault
    <3>2. QED
      BY <1>1, <3>1 DEF Inductive, TypeOK, palmVars, fileVars, userVars, Phases
  <2>2. CASE LocalDone
    BY <2>2 DEF Inductive, TypeOK, LocalDone, NoFault, palmVars, fileVars, userVars,
                workVars, Phases
  <2>3. QED
    BY <2>1, <2>2
<1>3. plan' = <<>>
  BY DEF RemoteDone, LocalDone, workVars
<1>4. SessionInv'
  BY <1>3 DEF Inductive, SessionInv, RemoteDone, LocalDone, fileVars
<1>5. QED
  BY <1>2, <1>3, <1>4, NoPlan DEF Inductive

-----------------------------------------------------------------------------
(* The steps of a plan.  Where the plan stands at such a step ...          *)
LEMMA AtStep ==
    ASSUME Inductive, plan # <<>>
    PROVE  /\ SafePlan(plan) /\ pc \in {"remote", "local"}
           /\ Head(plan) \in LocalrecSteps =>
                 /\ li \in 1 .. Len(localdb) /\ localdb[li] \in Record
                 /\ localdb[li].id \in Nat /\ localdb[li].data \in Nat
<1>1. SafePlan(plan) /\ pc \in {"remote", "local"}
  BY DEF Inductive, SafePlan, TypeOK, SessionInv
<1>2. 1 \in DOMAIN plan /\ Head(plan) = plan[1]
  BY <1>1, LenProperties, EmptySeq DEF SafePlan
<1>3. Head(plan) \in LocalrecSteps => li \in 1 .. Len(localdb)
  BY <1>2, LenProperties DEF Inductive, LocalrecLive, TypeOK
<1>4. li \in 1 .. Len(localdb) => localdb[li] \in Record
  BY ElementOfSeq DEF Inductive, TypeOK
<1>5. \A rec \in Record : rec.id \in Nat /\ rec.data \in Nat
  BY DEF Record
<1>6. QED
  BY <1>1, <1>3, <1>4, <1>5

(* ... and what a step must show: its plan goes on or is given up, and     *)
(* localrec stays in the list unless this step is one that may free it.    *)
LEMMA PlanStepInductive ==
    ASSUME Inductive, plan # <<>>,
           UNCHANGED <<lastSyncPC, backup, host, mode, opened, userVars, seen, rem>>,
           palm' \in Seq(Record), nextId' \in Nat, archive' \in [Hosts -> SUBSET Nat],
           localdb' \in Seq(Record), remotedb' \in Seq(Record), li' \in Nat, faults' \in Nat,
           online' \in BOOLEAN, failed' \in BOOLEAN,
           \/ plan' = Tail(plan) /\ pc' = pc
           \/ plan' = <<>> /\ pc' \in {pc, "userinfo"},
           \/ plan' = <<>> \/ Head(plan) \in FreeingSteps
           \/ li' = li /\ Len(localdb') >= Len(localdb)
    PROVE  Inductive'
<1>1. TypeOK /\ SessionInv /\ LocalrecLive /\ SafePlan(plan) /\ pc \in {"remote", "local"}
  BY AtStep DEF Inductive
<1>2. SafePlan(plan')
  BY <1>1, RestOfPlan, SafeEmpty
<1>3. LocalrecLive'
  <2>1. CASE plan' = <<>>
    BY <2>1, NoPlan
  <2>2. CASE plan' = Tail(plan) /\ Head(plan) \in FreeingSteps
    <3>1. \A k \in DOMAIN Tail(plan) : Tail(plan)[k] \notin LocalrecSteps
      BY <1>1, <2>2, RestOfPlan
    <3>2. QED
      BY <2>2, <3>1 DEF LocalrecLive
  <2>3. CASE plan' = Tail(plan) /\ li' = li /\ Len(localdb') >= Len(localdb)
    <3>1. \A k \in DOMAIN Tail(plan) : \E j \in DOMAIN plan : plan[j] = Tail(plan)[k]
      BY <1>1, RestOfPlan
    <3>2. ASSUME NEW k \in DOMAIN Tail(plan), Tail(plan)[k] \in LocalrecSteps
          PROVE  li \in DOMAIN localdb
      BY <1>1, <3>1, <3>2 DEF LocalrecLive
    <3>3. DOMAIN localdb = 1 .. Len(localdb) /\ DOMAIN localdb' = 1 .. Len(localdb')
          /\ Len(localdb) \in Nat /\ Len(localdb') \in Nat
      BY <1>1, LenProperties DEF TypeOK
    <3>4. li \in DOMAIN localdb => li' \in DOMAIN localdb'
      BY <2>3, <3>3
    <3>5. QED
      BY <2>3, <3>2, <3>4 DEF LocalrecLive
  <2>4. QED
    BY <2>1, <2>2, <2>3
<1>4. TypeOK'
  BY <1>1, <1>2 DEF TypeOK, userVars, Phases, SafePlan
<1>5. SessionInv'
  BY <1>1 DEF SessionInv
<1>6. QED
  BY <1>2, <1>3, <1>4, <1>5 DEF Inductive, SafePlan, FreesLast

(* How a call of the Palm can end, as far as types go.                     *)
LEMMA CallTypes ==
    ASSUME Inductive,
           (NoFault /\ online' = online) \/ Refused \/ NotWritable \/ Lost(TRUE)
    PROVE  faults' \in Nat /\ online' \in BOOLEAN
<1>1. online \in BOOLEAN /\ faults \in Nat
  BY DEF Inductive, TypeOK
<1>2. /\ faults' = faults \/ faults' = faults + 1
      /\ online' = online \/ online' = FALSE
  BY DEF NoFault, Refused, NotWritable, Lost, Fault
<1>3. faults' \in Nat
  BY <1>1, <1>2
<1>4. online' \in BOOLEAN
  BY <1>1, <1>2
<1>5. QED
  BY <1>3, <1>4

(* archive_record touches the archive only.                                *)
LEMMA DoArchiveInductive == ASSUME Inductive, DoArchive PROVE Inductive'
<1>1. plan # <<>> /\ plan' = Tail(plan)
      /\ UNCHANGED <<palmVars, backup, sessVars, userVars, localdb, remotedb, seen, rem, li>>
  BY DEF DoArchive, Step, NextStep
<1>2. TypeOK /\ host \in Hosts
  BY <1>1 DEF Inductive, SessionInv
<1>3. \E data \in Nat : ArchiveRecord(data)
  <2>1. CASE Step(ArchiveLocal) /\ ArchiveRecord(localdb[li].data)
    <3>1. ArchiveLocal \in LocalrecSteps
      BY DEF LocalrecSteps
    <3>2. QED
      BY <2>1, <3>1, AtStep DEF Step
  <2>2. CASE Step(ArchiveRemote) /\ ArchiveRecord(rem.data)
    BY <1>2, <2>2 DEF TypeOK, Record
  <2>3. QED
    BY <2>1, <2>2 DEF DoArchive
<1>4. archive' \in [Hosts -> SUBSET Nat] /\ faults' \in Nat
  <2>1. PICK data \in Nat : ArchiveRecord(data)
    BY <1>3
  <2>2. CASE NoFault /\ archive' = [archive EXCEPT ![host] = @ \cup {data}]
    BY <1>2, <2>2, AddToSet DEF TypeOK, NoFault
  <2>3. CASE Fault("archive") /\ UNCHANGED archive
    BY <1>2, <2>3 DEF TypeOK, Fault
  <2>4. QED
    BY <2>1, <2>2, <2>3 DEF ArchiveRecord
<1>5. QED
  BY <1>1, <1>2, <1>4, PlanStepInductive DEF TypeOK, palmVars, sessVars

(* Clearing flags leaves the list as long as it was.                       *)
LEMMA DoClearLocalInductive == ASSUME Inductive, DoClearLocal PROVE Inductive'
<1>1. /\ plan # <<>> /\ Head(plan) = ClearLocal /\ plan' = Tail(plan)
      /\ localdb' = ClearStatusFlags(localdb, li)
      /\ UNCHANGED <<palmVars, fileVars, sessVars, userVars, remotedb, seen, rem, li, faults>>
  BY DEF DoClearLocal, Step, NextStep, NoFault
<1>2. TypeOK /\ li \in 1 .. Len(localdb)
  BY <1>1, AtStep DEF Inductive, LocalrecSteps
<1>3. localdb' \in Seq(Record) /\ Len(localdb') = Len(localdb) /\ Len(localdb) \in Nat
  BY <1>1, <1>2, ClearStatusFlagsType, LenProperties DEF TypeOK
<1>4. QED
  BY <1>1, <1>2, <1>3, PlanStepInductive DEF TypeOK, palmVars, fileVars, sessVars

(* Unlinking localrec, and where the second phase's loop then stands.      *)
LEMMA UnlinkType ==
    ASSUME TypeOK, li \in 1 .. Len(localdb), Unlink
    PROVE  localdb' \in Seq(Record) /\ li' \in Nat
<1>1. localdb[li] \in Record
  BY ElementOfSeq DEF TypeOK
<1>2. localdb[li].id \in Nat
  BY <1>1 DEF Record
<1>3. localdb' \in Seq(Record)
  BY <1>2, DeleteRecordByIDType DEF TypeOK, Unlink
<1>4. li - 1 \in Nat
  BY LenProperties DEF TypeOK
<1>5. QED
  BY <1>3, <1>4 DEF Unlink

(* localrec is freed, and no step left in the plan needs it.               *)
LEMMA DoDeleteLocalInductive == ASSUME Inductive, DoDeleteLocal PROVE Inductive'
<1>1. /\ plan # <<>> /\ Head(plan) = DeleteLocal /\ plan' = Tail(plan) /\ Unlink
      /\ UNCHANGED <<palmVars, fileVars, sessVars, userVars, remotedb, seen, rem, faults>>
  BY DEF DoDeleteLocal, Step, NextStep, NoFault
<1>2. Head(plan) \in FreeingSteps /\ Head(plan) \in LocalrecSteps
  BY <1>1 DEF FreeingSteps, LocalrecSteps
<1>3. TypeOK /\ localdb' \in Seq(Record) /\ li' \in Nat
  BY <1>1, <1>2, AtStep, UnlinkType DEF Inductive
<1>4. QED
  BY <1>1, <1>2, <1>3, PlanStepInductive DEF TypeOK, palmVars, fileVars, sessVars

(* Appending leaves localrec where it is.                                  *)
LEMMA DoAppendRemoteInductive == ASSUME Inductive, DoAppendRemote PROVE Inductive'
<1>1. PICK flags \in SUBSET rem.flags :
        /\ plan # <<>> /\ plan' = Tail(plan)
        /\ localdb' = Append(localdb, Rec(rem.id, flags, rem.data))
        /\ UNCHANGED <<palmVars, fileVars, sessVars, userVars, remotedb, seen, rem, li, faults>>
  BY DEF DoAppendRemote, Step, NextStep, NoFault, AppendRecord
<1>2. TypeOK
  BY DEF Inductive
<1>3. Rec(rem.id, flags, rem.data) \in Record
  BY <1>2 DEF TypeOK, Rec, Record
<1>4. localdb' \in Seq(Record) /\ Len(localdb') = Len(localdb) + 1 /\ Len(localdb) \in Nat
  BY <1>1, <1>2, <1>3, AppendProperties, LenProperties DEF TypeOK
<1>5. QED
  BY <1>1, <1>2, <1>4, PlanStepInductive DEF TypeOK, palmVars, fileVars, sessVars

(* So does inserting after it.                                             *)
LEMMA DoInsertRemoteInductive == ASSUME Inductive, DoInsertRemote PROVE Inductive'
<1>1. /\ plan # <<>> /\ Head(plan) = InsertRemote /\ plan' = Tail(plan)
      /\ localdb' = InsertRecord(localdb, li, Rec(rem.id, {}, rem.data))
      /\ UNCHANGED <<palmVars, fileVars, sessVars, userVars, remotedb, seen, rem, li, faults>>
  BY DEF DoInsertRemote, Step, NextStep, NoFault
<1>2. TypeOK /\ li \in 1 .. Len(localdb)
  BY <1>1, AtStep DEF Inductive, LocalrecSteps
<1>3. Rec(rem.id, {}, rem.data) \in Record
  BY <1>2 DEF TypeOK, Rec, Record
<1>4. localdb' \in Seq(Record) /\ Len(localdb') = Len(localdb) + 1 /\ Len(localdb) \in Nat
  BY <1>1, <1>2, <1>3, InsertRecordType, LenProperties DEF TypeOK
<1>5. QED
  BY <1>1, <1>2, <1>4, PlanStepInductive DEF TypeOK, palmVars, fileVars, sessVars

(* The downloaded list is not the one localrec is in.                      *)
LEMMA DoDropRemoteInductive == ASSUME Inductive, DoDropRemote PROVE Inductive'
<1>1. /\ plan # <<>> /\ plan' = Tail(plan)
      /\ remotedb' = DeleteRecordByID(remotedb, rem.id)
      /\ UNCHANGED <<palmVars, fileVars, sessVars, userVars, localdb, seen, rem, li, faults>>
  BY DEF DoDropRemote, Step, NextStep, NoFault
<1>2. TypeOK /\ rem.id \in Nat /\ Len(localdb) \in Nat
  BY LenProperties DEF Inductive, TypeOK, Record
<1>3. remotedb' \in Seq(Record)
  BY <1>1, <1>2, DeleteRecordByIDType DEF TypeOK
<1>4. QED
  BY <1>1, <1>2, <1>3, PlanStepInductive DEF TypeOK, palmVars, fileVars, sessVars

(* Giving up a plan moves to the end of the conduit, or not at all.        *)
LEMMA GiveUpType ==
    ASSUME TypeOK, GiveUp
    PROVE  plan' = <<>> /\ pc' \in {pc, "userinfo"} /\ failed' \in BOOLEAN
  BY DEF GiveUp, Fail, TypeOK

(* DlpDeleteRecord, however it ends.                                       *)
LEMMA DoDeleteRemoteInductive == ASSUME Inductive, DoDeleteRemote PROVE Inductive'
<1>1. /\ plan # <<>> /\ UNCHANGED <<lastSyncPC, fileVars, host, mode, opened, userVars, localdb,
                                    remotedb,
                                    seen, rem, li>>
  BY DEF DoDeleteRemote, Step
<1>2. TypeOK /\ rem.id \in Nat /\ Len(localdb) \in Nat
  BY LenProperties DEF Inductive, TypeOK, Record
<1>3. (NoFault /\ online' = online) \/ Refused \/ NotWritable \/ Lost(TRUE)
  BY DEF DoDeleteRemote, Lost
<1>4. faults' \in Nat /\ online' \in BOOLEAN
  BY <1>3, CallTypes
<1>5. (Remove(rem.id) \/ palm' = palm) /\ nextId' = nextId
  BY DEF DoDeleteRemote, Refused, NotWritable, Lost
<1>6. palm' \in Seq(Record) /\ nextId' \in Nat
  BY <1>2, <1>5, RemoveType DEF TypeOK
<1>7. \/ plan' = Tail(plan) /\ pc' = pc /\ failed' = failed
      \/ GiveUp
  BY DEF DoDeleteRemote, NextStep
<1>8. /\ failed' \in BOOLEAN
      /\ \/ plan' = Tail(plan) /\ pc' = pc
         \/ plan' = <<>> /\ pc' \in {pc, "userinfo"}
  BY <1>2, <1>7, GiveUpType DEF TypeOK
<1>9. QED
  BY <1>1, <1>2, <1>4, <1>6, <1>8, PlanStepInductive DEF TypeOK, fileVars

(* The same, with localrec freed when the Palm agrees.                     *)
LEMMA DoPurgeLocalInductive == ASSUME Inductive, DoPurgeLocal PROVE Inductive'
<1> DEFINE id == localdb[li].id
<1>1. /\ plan # <<>> /\ Head(plan) = PurgeLocal
      /\ UNCHANGED <<lastSyncPC, fileVars, host, mode, opened, userVars, remotedb, seen, rem>>
  BY DEF DoPurgeLocal, Step
<1>2. Head(plan) \in FreeingSteps /\ Head(plan) \in LocalrecSteps
  BY <1>1 DEF FreeingSteps, LocalrecSteps
<1>3. TypeOK /\ li \in 1 .. Len(localdb) /\ id \in Nat
  BY <1>1, <1>2, AtStep DEF Inductive
<1>4. (NoFault /\ online' = online) \/ Refused \/ NotWritable \/ Lost(TRUE)
  BY DEF DoPurgeLocal, Lost
<1>5. faults' \in Nat /\ online' \in BOOLEAN
  BY <1>4, CallTypes
<1>6. (Remove(id) \/ palm' = palm) /\ nextId' = nextId
  BY DEF DoPurgeLocal, Refused, NotWritable, Lost
<1>7. palm' \in Seq(Record) /\ nextId' \in Nat
  <2> HIDE DEF id
  <2>1. QED
    BY <1>3, <1>6, RemoveType DEF TypeOK
<1>8. Unlink \/ UNCHANGED <<localdb, li>>
  BY DEF DoPurgeLocal
<1>9. localdb' \in Seq(Record) /\ li' \in Nat
  BY <1>3, <1>8, UnlinkType DEF TypeOK
<1>10. \/ plan' = Tail(plan) /\ pc' = pc /\ failed' = failed
       \/ GiveUp
  BY DEF DoPurgeLocal, NextStep
<1>11. /\ failed' \in BOOLEAN
       /\ \/ plan' = Tail(plan) /\ pc' = pc
          \/ plan' = <<>> /\ pc' \in {pc, "userinfo"}
  BY <1>3, <1>10, GiveUpType DEF TypeOK
<1>12. QED
  BY <1>1, <1>2, <1>3, <1>5, <1>7, <1>9, <1>11, PlanStepInductive DEF TypeOK, fileVars

(* DlpWriteRecord, however it ends, and the new ID it gives localrec.      *)
LEMMA DoUploadInductive == ASSUME Inductive, DoUpload PROVE Inductive'
<1>1. /\ plan # <<>> /\ Head(plan) \in {UploadLocal, UploadAsNew}
      /\ UNCHANGED <<lastSyncPC, fileVars, host, mode, opened, userVars, remotedb, seen, rem, li>>
  BY DEF DoUpload, Step
<1>2. Head(plan) \in LocalrecSteps
  BY <1>1 DEF LocalrecSteps
<1>3. /\ TypeOK /\ li \in 1 .. Len(localdb) /\ localdb[li] \in Record
      /\ localdb[li].id \in Nat /\ localdb[li].data \in Nat
  BY <1>1, <1>2, AtStep DEF Inductive
<1>4. PICK id \in Nat : Upload(id)
  BY <1>3 DEF DoUpload
<1>5. (NoFault /\ online' = online) \/ Refused \/ NotWritable \/ Lost(TRUE)
  BY <1>4 DEF Upload, Lost
<1>6. faults' \in Nat /\ online' \in BOOLEAN
  BY <1>5, CallTypes
<1>7. nextId \in Nat /\ palm \in Seq(Record)
  BY <1>3 DEF TypeOK
<1>8. palm' \in Seq(Record) /\ nextId' \in Nat
  <2>1. \/ \E newID \in {id, nextId} : Store(id, localdb[li].data, newID)
        \/ UNCHANGED <<palm, nextId>>
    BY <1>4 DEF Upload, Refused, NotWritable, Lost, Stored
  <2>2. QED
    BY <1>3, <1>7, <2>1, StoreType
<1>9. localdb' \in Seq(Record) /\ Len(localdb') = Len(localdb) /\ Len(localdb) \in Nat
  <2>1. localdb' = localdb \/ \E newID \in {id, nextId} : localdb' = [localdb EXCEPT ![li].id = newID]
    BY <1>4 DEF Upload
  <2>2. \A newID \in Nat : [localdb[li] EXCEPT !.id = newID] \in Record
    BY <1>3 DEF Record
  <2>3. li \in DOMAIN localdb /\ Len(localdb) \in Nat /\ localdb \in Seq(Record)
    BY <1>3, LenProperties DEF TypeOK
  <2>4. ASSUME NEW newID \in Nat
        PROVE  /\ [localdb EXCEPT ![li].id = newID] \in Seq(Record)
               /\ Len([localdb EXCEPT ![li].id = newID]) = Len(localdb)
    BY <2>2, <2>3, ChangeType
  <2>5. QED
    BY <1>7, <2>1, <2>3, <2>4
<1>10. \/ plan' = Tail(plan) /\ pc' = pc /\ failed' = failed
       \/ GiveUp
  BY <1>4 DEF Upload, NextStep
<1>11. /\ failed' \in BOOLEAN
       /\ \/ plan' = Tail(plan) /\ pc' = pc
          \/ plan' = <<>> /\ pc' \in {pc, "userinfo"}
  BY <1>3, <1>10, GiveUpType DEF TypeOK
<1>12. QED
  BY <1>1, <1>3, <1>6, <1>8, <1>9, <1>11, PlanStepInductive DEF TypeOK, fileVars

-----------------------------------------------------------------------------
(* The end of the sync.                                                    *)
LEMMA WriteBackupInductive == ASSUME Inductive, WriteBackup PROVE Inductive'
<1>1. /\ TypeOK /\ pc # "idle" /\ plan = <<>>
      /\ UNCHANGED <<workVars, userVars, host, mode, opened, archive, palm, nextId, lastSyncPC,
                     online>>
  BY DEF Inductive, SessionInv, WriteBackup, palmVars
<1>2. CASE NoFault /\ backup' = [backup EXCEPT ![host] = localdb] /\ pc' = "cleanup" /\ failed' = failed
  <2>1. backup' \in [Hosts -> Seq(Record) \cup {NoFile}]
    BY <1>1, <1>2 DEF TypeOK
  <2>2. QED
    BY <1>1, <1>2, <2>1, PhaseStepInductive DEF TypeOK, NoFault, Phases
<1>3. CASE Fault("disk") /\ UNCHANGED backup /\ Fail
  BY <1>1, <1>3, PhaseStepInductive DEF TypeOK, Fault, Fail, Phases
<1>4. QED
  BY <1>2, <1>3 DEF WriteBackup

(* DlpCleanUpDatabase and DlpResetSyncFlags, however they end.             *)
LEMMA FlagCallsInductive == ASSUME Inductive, CleanUpDatabase \/ ResetSyncFlags PROVE Inductive'
<1>1. /\ TypeOK /\ pc # "idle" /\ plan = <<>>
      /\ UNCHANGED <<workVars, userVars, host, mode, opened, fileVars, nextId, lastSyncPC>>
  BY DEF Inductive, SessionInv, CleanUpDatabase, ResetSyncFlags, Refused, NotWritable, Lost
<1>2. (NoFault /\ online' = online) \/ Refused \/ NotWritable \/ Lost(TRUE)
  BY DEF CleanUpDatabase, ResetSyncFlags, Lost
<1>3. faults' \in Nat /\ online' \in BOOLEAN
  BY <1>2, CallTypes
<1>4. CleanUp \/ ResetFlags \/ palm' = palm
  BY DEF CleanUpDatabase, ResetSyncFlags, Refused, NotWritable, Lost
<1>5. palm' \in Seq(Record)
  BY <1>1, <1>4, CleanUpType, ResetFlagsType DEF TypeOK
<1>6. pc' \in {"reset", "userinfo"} /\ failed' \in BOOLEAN
  BY <1>1 DEF CleanUpDatabase, ResetSyncFlags, Fail, TypeOK
<1>7. QED
  BY <1>1, <1>3, <1>5, <1>6, PhaseStepInductive DEF TypeOK, fileVars, Phases

(* A session ends with nothing in hand.                                    *)
LEMMA SessionEndInductive == ASSUME Inductive, Cancel \/ Crash \/ UpdateUserInfo PROVE Inductive'
<1>1. TypeOK /\ EndSession
  BY DEF Inductive, Cancel, Crash, UpdateUserInfo
<1>2. UNCHANGED <<palm, nextId, fileVars, userVars>>
  BY DEF Cancel, Crash, UpdateUserInfo, palmVars
<1>3. lastSyncPC' \in {lastSyncPC, host}
  BY DEF Cancel, Crash, UpdateUserInfo, palmVars
<1>4. faults' \in {faults, faults + 1}
  BY DEF Cancel, Crash, UpdateUserInfo, NoFault, Fault
<1>5. lastSyncPC' \in Hosts \cup {NoHost} /\ faults' \in Nat
  BY <1>1, <1>3, <1>4 DEF TypeOK
<1>6. QED
  BY <1>1, <1>2, <1>5, EndSessionInductive

-----------------------------------------------------------------------------
(* Every step of the specification keeps the invariant.                    *)
LEMMA NextInductive == ASSUME Inductive, [Next]_vars PROVE Inductive'
<1>1. CASE UserStep
  BY <1>1, UserStepInductive
<1>2. CASE \E h \in Hosts : StartSync(h)
  BY <1>2, StartSyncInductive
<1>3. CASE Cancel \/ Crash \/ UpdateUserInfo
  BY <1>3, SessionEndInductive
<1>4. CASE Open \/ OpenFails \/ ReadFails
  BY <1>4, OpenInductive, FailedCallInductive
<1>5. CASE NextRemoteSlow \/ NextRemoteFast \/ RemoteDone
  BY <1>5, NextRemoteInductive, PhaseEndInductive
<1>6. CASE NextLocal \/ LocalDone
  BY <1>6, NextLocalInductive, PhaseEndInductive
<1>7. CASE SyncRecordStep
  BY <1>7, DoArchiveInductive, DoClearLocalInductive, DoDeleteLocalInductive,
     DoAppendRemoteInductive, DoInsertRemoteInductive, DoDropRemoteInductive,
     DoDeleteRemoteInductive, DoPurgeLocalInductive, DoUploadInductive DEF SyncRecordStep
<1>8. CASE WriteBackup \/ CleanUpDatabase \/ ResetSyncFlags
  BY <1>8, WriteBackupInductive, FlagCallsInductive
<1>9. CASE UNCHANGED vars
  <2>1. UNCHANGED <<palm, nextId, lastSyncPC, backup, archive, pc, host, mode, opened, online,
                    failed>>
    BY <1>9 DEF vars, palmVars, fileVars, sessVars
  <2>2. UNCHANGED <<localdb, remotedb, seen, rem, li, plan, edits, wanted, gone, faults>>
    BY <1>9 DEF vars, workVars, userVars
  <2>3. QED
    BY <2>1, <2>2 DEF Inductive, TypeOK, SessionInv, FreesLast, LocalrecLive
<1>10. QED
  BY <1>1, <1>2, <1>3, <1>4, <1>5, <1>6, <1>7, <1>8, <1>9 DEF Next, SyncStep

(* The inductive invariant of the generic conduit: type correctness, with  *)
(* the facts about sessions and plans it needs.                            *)
THEOREM InductiveInvariant == Spec => []Inductive
<1>1. Init => Inductive
  BY InitInductive
<1>2. Inductive /\ [Next]_vars => Inductive'
  BY NextInductive
<1>3. QED
  BY <1>1, <1>2, PTL DEF Spec

(* Every variable keeps its type: no list ever holds anything but records, *)
(* and no call leaves the backup file or the Palm with anything else.      *)
THEOREM TypeCorrect == Spec => []TypeOK
<1>1. Inductive => TypeOK
  BY DEF Inductive
<1>2. QED
  BY <1>1, InductiveInvariant, PTL

(* No sync, whatever fails in it, uses localrec after it has been freed,   *)
(* but for the place in SyncRecord that AppendUnclean stands for.          *)
THEOREM LocalrecNeverDangles == Spec => []LocalrecLive
<1>1. Inductive => LocalrecLive
  BY DEF Inductive
<1>2. QED
  BY <1>1, InductiveInvariant, PTL

-----------------------------------------------------------------------------
(* No two records of a list share an ID that a Palm has assigned.          *)
Distinct(db)  == \A i, j \in DOMAIN db : db[i].id = db[j].id /\ db[i].id # 0 => i = j
Lacks(db, id) == \A i \in DOMAIN db : db[i].id # id

(* Every record of db is one of these.                                     *)
From(db, these) == \A i \in DOMAIN db : \E j \in DOMAIN these : db[i].id = these[j].id

(* Lists with the same IDs in the same places.                             *)
LEMMA SameIds ==
    ASSUME NEW a \in Seq(Record), NEW b \in Seq(Record), Len(a) = Len(b),
           \A i \in 1 .. Len(a) : a[i].id = b[i].id
    PROVE  From(b, a) /\ (Distinct(a) => Distinct(b)) /\ \A id : Lacks(a, id) => Lacks(b, id)
<1>1. DOMAIN a = 1 .. Len(a) /\ DOMAIN b = 1 .. Len(a)
  BY LenProperties
<1> QED
  BY <1>1 DEF From, Distinct, Lacks

(* Changing a record, but not its ID.                                      *)
LEMMA ChangeIds ==
    ASSUME NEW db \in Seq(Record), NEW i \in DOMAIN db, NEW r \in Record, r.id = db[i].id
    PROVE  LET new == [db EXCEPT ![i] = r] IN
           From(new, db) /\ (Distinct(db) => Distinct(new)) /\ \A id : Lacks(db, id) => Lacks(new, id)
<1> DEFINE new == [db EXCEPT ![i] = r]
<1>1. new \in Seq(Record) /\ Len(new) = Len(db)
  BY ChangeType
<1>2. \A k \in 1 .. Len(db) : new[k].id = db[k].id
  <2>1. DOMAIN db = 1 .. Len(db)
    BY LenProperties
  <2> QED
    BY <2>1
<1> HIDE DEF new
<1>3. From(new, db) /\ (Distinct(db) => Distinct(new)) /\ \A id : Lacks(db, id) => Lacks(new, id)
  BY <1>1, <1>2, SameIds
<1> QED
  BY <1>3 DEF new

(* Unlinking a record.                                                     *)
LEMMA WithoutIds ==
    ASSUME NEW db \in Seq(Record), NEW i \in 1 .. Len(db)
    PROVE  /\ From(Without(db, i), db)
           /\ Distinct(db) => Distinct(Without(db, i))
           /\ Distinct(db) /\ db[i].id # 0 => Lacks(Without(db, i), db[i].id)
<1>1. PICK w \in Seq(Record) : w = Without(db, i)
  BY WithoutProperties
<1>2. PICK n \in Nat : n = Len(db) /\ DOMAIN db = 1 .. n
  BY LenProperties
<1>3. DOMAIN w = 1 .. (n - 1) /\ \A j \in 1 .. (n - 1) : w[j] = IF j < i THEN db[j] ELSE db[j + 1]
  BY <1>1, <1>2, WithoutProperties, LenProperties
<1>4. PICK old \in [1 .. (n - 1) -> Nat] : \A j \in 1 .. (n - 1) : old[j] = IF j < i THEN j ELSE j + 1
  <2>1. [j \in 1 .. (n - 1) |-> IF j < i THEN j ELSE j + 1] \in [1 .. (n - 1) -> Nat]
    BY <1>2
  <2> QED
    BY <2>1
<1>5. /\ \A j \in 1 .. (n - 1) : old[j] \in 1 .. n /\ old[j] # i /\ w[j] = db[old[j]]
      /\ \A j, k \in 1 .. (n - 1) : old[j] = old[k] => j = k
  BY <1>2, <1>3, <1>4
<1>6. From(w, db)
  BY <1>2, <1>3, <1>5 DEF From
<1>7. Distinct(db) => Distinct(w)
  <2> SUFFICES ASSUME Distinct(db), NEW j \in DOMAIN w, NEW k \in DOMAIN w, w[j].id = w[k].id, w[j].id # 0
               PROVE  j = k
    BY DEF Distinct
  <2>1. /\ old[j] \in DOMAIN db /\ old[k] \in DOMAIN db
        /\ db[old[j]].id = db[old[k]].id /\ db[old[j]].id # 0
    BY <1>2, <1>3, <1>5
  <2>2. old[j] = old[k]
    BY <2>1 DEF Distinct
  <2> QED
    BY <1>3, <1>5, <2>2
<1>8. Distinct(db) /\ db[i].id # 0 => Lacks(w, db[i].id)
  <2> SUFFICES ASSUME Distinct(db), db[i].id # 0, NEW j \in DOMAIN w PROVE w[j].id # db[i].id
    BY DEF Lacks
  <2>1. old[j] \in DOMAIN db /\ i \in DOMAIN db /\ old[j] # i /\ w[j] = db[old[j]]
    BY <1>2, <1>3, <1>5
  <2> QED
    BY <2>1 DEF Distinct
<1> QED
  BY <1>1, <1>6, <1>7, <1>8

(* pdb_DeleteRecordByID.                                                   *)
LEMMA DeleteIds ==
    ASSUME NEW db \in Seq(Record), NEW id \in Nat
    PROVE  /\ From(DeleteRecordByID(db, id), db)
           /\ Distinct(db) => Distinct(DeleteRecordByID(db, id))
           /\ Distinct(db) /\ id # 0 => Lacks(DeleteRecordByID(db, id), id)
<1>1. PICK i : i = FindRecordByID(db, id)
  OBVIOUS
<1>2. /\ Len(db) \in Nat /\ DOMAIN db = 1 .. Len(db)
      /\ i \in 0 .. Len(db) /\ (i = 0 => \A j \in 1 .. Len(db) : db[j].id # id)
      /\ i # 0 => db[i].id = id
  BY <1>1, FindRecordByIDCorrect, LenProperties
<1>3. CASE i = 0
  <2>1. DeleteRecordByID(db, id) = db
    BY <1>1, <1>3 DEF DeleteRecordByID, Without
  <2> QED
    BY <1>2, <1>3, <2>1 DEF From, Lacks
<1>4. CASE i # 0
  <2>1. i \in 1 .. Len(db) /\ DeleteRecordByID(db, id) = Without(db, i)
    BY <1>1, <1>2, <1>4 DEF DeleteRecordByID
  <2> QED
    BY <1>2, <1>4, <2>1, WithoutIds
<1> QED
  BY <1>3, <1>4

(* pdb_AppendRecord, of a record with a new ID or none.                    *)
LEMMA AppendIds ==
    ASSUME NEW db \in Seq(Record), NEW r \in Record
    PROVE  /\ Distinct(db) /\ (r.id = 0 \/ Lacks(db, r.id)) => Distinct(Append(db, r))
           /\ \A i \in DOMAIN Append(db, r) :
                 Append(db, r)[i] = r \/ (i \in DOMAIN db /\ Append(db, r)[i] = db[i])
<1>1. PICK a : a = Append(db, r)
  OBVIOUS
<1>2. PICK n \in Nat : n = Len(db) /\ DOMAIN db = 1 .. n
  BY LenProperties
<1>3. DOMAIN a = 1 .. (n + 1) /\ a[n + 1] = r /\ \A i \in 1 .. n : a[i] = db[i]
  BY <1>1, <1>2, AppendProperties, LenProperties
<1>4. \A i \in 1 .. (n + 1) : i \in 1 .. n \/ i = n + 1
  OBVIOUS
<1>5. Distinct(db) /\ (r.id = 0 \/ Lacks(db, r.id)) => Distinct(a)
  BY <1>2, <1>3, <1>4 DEF Distinct, Lacks
<1>6. \A i \in DOMAIN a : a[i] = r \/ (i \in DOMAIN db /\ a[i] = db[i])
  <2> SUFFICES ASSUME NEW i \in 1 .. (n + 1) PROVE a[i] = r \/ (i \in DOMAIN db /\ a[i] = db[i])
    BY <1>3
  <2>1. CASE i \in 1 .. n
    BY <1>2, <1>3, <2>1
  <2>2. CASE i = n + 1
    BY <1>3, <2>2
  <2> QED
    BY <1>4, <2>1, <2>2
<1> QED
  BY <1>1, <1>5, <1>6

(* pdb_InsertRecord, of a record with a new ID, or with that of the record *)
(* it goes behind and which then is to be unlinked.                        *)
LEMMA InsertIds ==
    ASSUME NEW db \in Seq(Record), NEW i \in 1 .. Len(db), NEW r \in Record, Distinct(db)
    PROVE  LET new == InsertRecord(db, i, r) IN
           /\ Lacks(db, r.id) => Distinct(new)
           /\ r.id = db[i].id /\ r.id # 0 =>
                 /\ i \in DOMAIN new /\ FindRecordByID(new, new[i].id) = i
                 /\ Distinct(Without(new, i))
           /\ \A j \in DOMAIN new : new[j] = r \/ \E k \in DOMAIN db : new[j] = db[k]
<1>1. PICK new \in Seq(Record) : new = InsertRecord(db, i, r) /\ Len(new) = Len(db) + 1
  BY InsertRecordType
<1>2. PICK n \in Nat : n = Len(db) /\ DOMAIN db = 1 .. n
  BY LenProperties
<1>3. /\ DOMAIN new = 1 .. (n + 1)
      /\ \A j \in 1 .. (n + 1) :
            new[j] = IF j <= i THEN db[j] ELSE IF j = i + 1 THEN r ELSE db[j - 1]
  BY <1>1, <1>2 DEF InsertRecord
<1>4. \A j \in DOMAIN new : new[j] = r \/ \E k \in DOMAIN db : new[j] = db[k]
  <2> SUFFICES ASSUME NEW j \in 1 .. (n + 1) PROVE new[j] = r \/ \E k \in 1 .. n : new[j] = db[k]
    BY <1>2, <1>3
  <2>1. CASE j <= i
    <3>1. j \in 1 .. n
      BY <1>2, <2>1
    <3>2. new[j] = db[j]
      BY <1>3, <2>1
    <3> QED
      BY <3>1, <3>2
  <2>2. CASE j = i + 1
    BY <1>2, <1>3, <2>2
  <2>3. CASE j > i + 1
    <3>1. j - 1 \in 1 .. n
      BY <1>2, <2>3
    <3> QED
      BY <1>2, <1>3, <2>3, <3>1
  <2> QED
    BY <1>2, <2>1, <2>2, <2>3
<1>5. ASSUME Lacks(db, r.id) PROVE Distinct(new)
  <2>1. PICK old \in [1 .. (n + 1) -> Nat] :
            \A j \in 1 .. (n + 1) : old[j] = IF j <= i THEN j ELSE IF j = i + 1 THEN 0 ELSE j - 1
    <3>1. [j \in 1 .. (n + 1) |-> IF j <= i THEN j ELSE IF j = i + 1 THEN 0 ELSE j - 1]
              \in [1 .. (n + 1) -> Nat]
      BY <1>2
    <3> QED
      BY <3>1
  <2>2. /\ \A j, k \in 1 .. (n + 1) : old[j] = old[k] => j = k
        /\ \A j \in 1 .. (n + 1) : \/ old[j] = 0 /\ new[j] = r
                                   \/ old[j] \in 1 .. n /\ new[j] = db[old[j]]
    <3>1. i \in 1 .. n
      BY <1>2
    <3>2. \A j, k \in 1 .. (n + 1) : old[j] = old[k] => j = k
      <4> SUFFICES ASSUME NEW j \in 1 .. (n + 1), NEW k \in 1 .. (n + 1), old[j] = old[k] PROVE j = k
        OBVIOUS
      <4>1. \A m \in 1 .. (n + 1) : \/ m <= i /\ old[m] = m
                                    \/ m = i + 1 /\ old[m] = 0
                                    \/ m > i + 1 /\ old[m] = m - 1
        <5> SUFFICES ASSUME NEW m \in 1 .. (n + 1)
                     PROVE  \/ m <= i /\ old[m] = m
                            \/ m = i + 1 /\ old[m] = 0
                            \/ m > i + 1 /\ old[m] = m - 1
          OBVIOUS
        <5>1. m <= i \/ m = i + 1 \/ (m > i + 1 /\ ~(m <= i) /\ m # i + 1)
          BY <3>1
        <5>2. m = i + 1 => ~(m <= i)
          BY <3>1
        <5> QED
          BY <2>1, <5>1, <5>2
      <4>2. PICK x, y : x = old[j] /\ y = old[k]
        OBVIOUS
      <4>3. /\ (j <= i /\ x = j) \/ (j = i + 1 /\ x = 0) \/ (j > i + 1 /\ x = j - 1)
            /\ (k <= i /\ y = k) \/ (k = i + 1 /\ y = 0) \/ (k > i + 1 /\ y = k - 1)
            /\ x = y
        BY <4>1, <4>2
      <4> QED
        BY <3>1, <4>3
    <3>3. ASSUME NEW j \in 1 .. (n + 1)
          PROVE  \/ old[j] = 0 /\ new[j] = r
                 \/ old[j] \in 1 .. n /\ new[j] = db[old[j]]
      <4>1. CASE j <= i
        <5>1. old[j] = j /\ new[j] = db[j] /\ j \in 1 .. n
          BY <1>3, <2>1, <3>1, <4>1
        <5> QED
          BY <5>1
      <4>2. CASE j = i + 1
        <5>1. ~(j <= i)
          BY <3>1, <4>2
        <5> QED
          BY <1>3, <2>1, <4>2, <5>1
      <4>3. CASE j > i + 1
        <5>1. ~(j <= i) /\ j # i + 1 /\ j - 1 \in 1 .. n
          BY <3>1, <4>3
        <5>2. old[j] = j - 1 /\ new[j] = db[j - 1]
          BY <1>3, <2>1, <5>1
        <5> QED
          BY <5>1, <5>2
      <4> QED
        BY <3>1, <4>1, <4>2, <4>3
    <3> QED
      BY <3>2, <3>3
  <2> SUFFICES ASSUME NEW j \in 1 .. (n + 1), NEW k \in 1 .. (n + 1), new[j].id = new[k].id, new[j].id # 0
               PROVE  old[j] = old[k]
    BY <1>3, <2>2 DEF Distinct
  <2> QED
    BY <1>2, <1>5, <2>2 DEF Distinct, Lacks
<1>6. ASSUME r.id = db[i].id, r.id # 0
      PROVE  i \in DOMAIN new /\ FindRecordByID(new, new[i].id) = i /\ Distinct(Without(new, i))
  <2>1. i \in 1 .. (n + 1) /\ new[i] = db[i] /\ i \in 1 .. n
    BY <1>2, <1>3
  <2>2. \A j \in 1 .. (n + 1) : j < i => new[j].id # r.id
    BY <1>2, <1>3, <1>6 DEF Distinct
  <2>3. FindRecordByID(new, r.id) = i
    <3>1. PICK f : f = FindRecordByID(new, r.id)
      OBVIOUS
    <3>2. r.id \in Nat
      BY DEF Record
    <3>3. /\ f \in 0 .. (n + 1) /\ (f = 0 <=> \A j \in 1 .. (n + 1) : new[j].id # r.id)
          /\ f # 0 => new[f].id = r.id /\ \A j \in 1 .. (f - 1) : new[j].id # r.id
      <4>1. Len(new) = n + 1
        BY <1>1, <1>2
      <4> QED
        <5>1. PICK id \in Nat : id = r.id
          BY <3>2
        <5>2. new \in Seq(Record) /\ f = FindRecordByID(new, id)
          BY <3>1, <5>1
        <5>3. /\ f \in 0 .. Len(new) /\ (f = 0 <=> \A j \in 1 .. Len(new) : new[j].id # id)
              /\ f # 0 => new[f].id = id /\ \A j \in 1 .. (f - 1) : new[j].id # id
          BY <5>2, FindRecordByIDCorrect
        <5> QED
          BY <4>1, <5>1, <5>3
    <3>4. f # 0
      BY <1>6, <2>1, <3>3
    <3>5. ~(f < i) /\ ~(i < f)
      <4>1. ~(f < i)
        BY <2>2, <3>3, <3>4
      <4>2. ~(i \in 1 .. (f - 1))
        BY <1>6, <2>1, <3>3, <3>4
      <4> QED
        BY <2>1, <3>3, <4>1, <4>2
    <3> QED
      BY <2>1, <3>1, <3>3, <3>5
  <2>4. Distinct(Without(new, i))
    <3>1. i \in 1 .. Len(new)
      BY <1>1, <1>2, <2>1
    <3>2. PICK w \in Seq(Record) : w = Without(new, i) /\ Len(w) = n
      BY <1>1, <1>2, <3>1, WithoutProperties
    <3>3. \A j \in 1 .. n : w[j] = IF j < i THEN new[j] ELSE new[j + 1]
      <4>1. \A j \in 1 .. (Len(new) - 1) : Without(new, i)[j] = IF j < i THEN new[j] ELSE new[j + 1]
        BY <3>1, WithoutProperties
      <4> QED
        BY <1>1, <1>2, <3>2, <4>1
    <3>4. ASSUME NEW j \in 1 .. n PROVE db[j].id = w[j].id
      <4>1. CASE j < i
        BY <1>2, <1>3, <3>3, <4>1
      <4>2. CASE j = i
        BY <1>2, <1>3, <1>6, <3>3, <4>2
      <4>3. CASE j > i
        <5>1. j + 1 \in 1 .. (n + 1) /\ ~(j + 1 <= i) /\ j + 1 # i + 1 /\ (j + 1) - 1 = j
          BY <1>2, <4>3
        <5>2. ~(j < i)
          BY <1>2, <4>3
        <5> QED
          BY <1>3, <3>3, <5>1, <5>2
      <4> QED
        BY <1>2, <4>1, <4>2, <4>3
    <3> QED
      BY <1>2, <3>2, <3>4, SameIds
  <2> QED
    BY <1>3, <1>6, <2>1, <2>3, <2>4
<1> QED
  BY <1>1, <1>4, <1>5, <1>6

(* DlpCleanUpDatabase: no record comes twice.                              *)
LEMMA PurgedIds ==
    ASSUME NEW db \in Seq(Record)
    PROVE  From(Purged(db), db) /\ (Distinct(db) => Distinct(Purged(db)))
<1>1. PICK n \in Nat : n = Len(db) /\ DOMAIN db = 1 .. n
  BY LenProperties
<1>2. PICK S : S = Kept(db) /\ S \in SUBSET (1 .. n)
  BY <1>1 DEF Kept
<1>3. PICK c : c = Cardinality(S)
  OBVIOUS
<1>4. \A k \in 1 .. c : Nth(S, k) \in 1 .. n /\ Cardinality(S \cap (1 .. Nth(S, k))) = k
  BY <1>1, <1>2, <1>3, NthExists
<1>5. \A j, k \in 1 .. c : Nth(S, j) = Nth(S, k) => j = k
  BY <1>4
<1>6. Purged(db) = [k \in 1 .. c |-> db[Nth(S, k)]]
  BY <1>2, <1>3 DEF Purged
<1>7. PICK p : p = Purged(db)
  OBVIOUS
<1>8. DOMAIN p = 1 .. c /\ \A k \in 1 .. c : p[k] = db[Nth(S, k)]
  BY <1>6, <1>7
<1>9. From(p, db)
  BY <1>1, <1>4, <1>8 DEF From
<1>10. Distinct(db) => Distinct(p)
  <2> SUFFICES ASSUME Distinct(db), NEW j \in 1 .. c, NEW k \in 1 .. c, p[j].id = p[k].id, p[j].id # 0
               PROVE  j = k
    BY <1>8 DEF Distinct
  <2>1. /\ Nth(S, j) \in DOMAIN db /\ Nth(S, k) \in DOMAIN db
        /\ db[Nth(S, j)].id = db[Nth(S, k)].id /\ db[Nth(S, j)].id # 0
    BY <1>1, <1>4, <1>8
  <2>2. Nth(S, j) = Nth(S, k)
    BY <2>1 DEF Distinct
  <2> QED
    BY <1>5, <2>2
<1> QED
  BY <1>7, <1>9, <1>10

-----------------------------------------------------------------------------
(* The IDs of a list are numbers that the Palm has given out before, or 0. *)
Below(db, id)    == \A i \in DOMAIN db : db[i].id < id
Assigned(db, id) == \A i \in DOMAIN db : db[i].id # 0 /\ db[i].id < id

(* A list whose IDs all come from such a list is one.                      *)
LEMMA FromBelow ==
    ASSUME NEW a \in Seq(Record), NEW b \in Seq(Record), From(b, a),
           NEW n \in Nat, NEW m \in Nat, n <= m
    PROVE  (Below(a, n) => Below(b, m)) /\ (Assigned(a, n) => Assigned(b, m))
<1>1. \A i \in DOMAIN b : b[i].id \in Nat
  <2>1. \A i \in DOMAIN b : b[i] \in Record
    BY LenProperties, ElementOfSeq
  <2> QED
    BY <2>1 DEF Record
<1>2. \A x \in Nat : x < n => x < m
  OBVIOUS
<1> QED
  BY <1>1, <1>2 DEF From, Below, Assigned

(* The list itself, as the Palm gives out more.                            *)
LEMMA SameBelow ==
    ASSUME NEW a \in Seq(Record), NEW n \in Nat, NEW m \in Nat, n <= m
    PROVE  (Below(a, n) => Below(a, m)) /\ (Assigned(a, n) => Assigned(a, m))
<1>1. From(a, a)
  BY DEF From
<1> QED
  BY <1>1, FromBelow

(* The Palm's IDs: it gives out each once.                                 *)
PalmIds == Distinct(palm) /\ Assigned(palm, nextId)
PalmKept == PalmIds' /\ nextId' \in Nat /\ nextId <= nextId'

(* DlpWriteRecord leaves them so, and the record gets its own ID or a new one. *)
LEMMA StoreIds ==
    ASSUME palm \in Seq(Record), nextId \in Nat, PalmIds, NEW id \in Nat, id < nextId,
           NEW data \in Nat, NEW newID \in Nat, Store(id, data, newID)
    PROVE  /\ PalmKept
           /\ (newID = id /\ id # 0) \/ (newID = nextId /\ nextId' = nextId + 1)
<1> DEFINE i == FindRecordByID(palm, id)
<1>1. \A marks \in WriteMarks : Rec(id, marks, data) \in Record /\ Rec(newID, marks, data) \in Record
  BY ConstantsAssumption DEF Rec, Record
<1>2. DOMAIN palm = 1 .. Len(palm) /\ Len(palm) \in Nat
  BY LenProperties
<1>3. /\ i = 0 => Lacks(palm, id)
      /\ i # 0 => i \in DOMAIN palm /\ palm[i].id = id
  <2>1. /\ i \in 0 .. Len(palm)
        /\ i = 0 <=> \A j \in 1 .. Len(palm) : palm[j].id # id
        /\ i # 0 => palm[i].id = id
    BY FindRecordByIDCorrect
  <2> HIDE DEF i
  <2> QED
    BY <1>2, <2>1 DEF Lacks
<1>4. PICK marks \in WriteMarks :
        \/ i # 0 /\ newID = id /\ palm' = [palm EXCEPT ![i] = Rec(id, marks, data)] /\ UNCHANGED nextId
        \/ i = 0 /\ id # 0 /\ newID = id /\ palm' = Append(palm, Rec(id, marks, data)) /\ UNCHANGED nextId
        \/ i = 0 /\ newID = nextId /\ palm' = Append(palm, Rec(newID, marks, data)) /\ nextId' = nextId + 1
  BY DEF Store, AppendRecord
<1>5. palm' \in Seq(Record) /\ nextId' \in Nat
  BY StoreType
<1> HIDE DEF i
<1>6. /\ Rec(id, marks, data) \in Record /\ Rec(newID, marks, data) \in Record
      /\ Rec(id, marks, data).id = id /\ Rec(newID, marks, data).id = newID
  <2>1. Rec(id, marks, data) \in Record /\ Rec(newID, marks, data) \in Record
    BY <1>1, Zenon
  <2> QED
    BY <2>1 DEF Rec
<1>7. PICK r, s \in Record : /\ r = Rec(id, marks, data) /\ r.id = id
                             /\ s = Rec(newID, marks, data) /\ s.id = newID
  BY <1>6
<1>8. CASE i # 0 /\ newID = id /\ palm' = [palm EXCEPT ![i] = r] /\ UNCHANGED nextId
  <2>1. From(palm', palm) /\ Distinct(palm')
    BY <1>3, <1>7, <1>8, ChangeIds DEF PalmIds
  <2>2. Assigned(palm', nextId)
    <3>1. nextId <= nextId /\ Assigned(palm, nextId)
      BY DEF PalmIds
    <3> QED
      BY <1>5, <2>1, <3>1, FromBelow
  <2>3. id # 0
    BY <1>3, <1>8 DEF PalmIds, Assigned
  <2> QED
    BY <1>8, <2>1, <2>2, <2>3 DEF PalmIds, PalmKept
<1>9. CASE i = 0 /\ id # 0 /\ newID = id /\ palm' = Append(palm, r) /\ UNCHANGED nextId
  <2>1. Distinct(palm')
    BY <1>3, <1>7, <1>9, AppendIds DEF PalmIds
  <2>2. \A j \in DOMAIN palm' : palm'[j] = r \/ (j \in DOMAIN palm /\ palm'[j] = palm[j])
    BY <1>9, AppendIds
  <2>3. Assigned(palm', nextId)
    BY <1>7, <1>9, <2>2 DEF PalmIds, Assigned
  <2> QED
    BY <1>9, <2>1, <2>3 DEF PalmIds, PalmKept
<1>10. CASE i = 0 /\ newID = nextId /\ palm' = Append(palm, s) /\ nextId' = nextId + 1
  <2>1. Lacks(palm, nextId)
    BY DEF PalmIds, Assigned, Lacks
  <2>2. Distinct(palm')
    BY <1>7, <1>10, <2>1, AppendIds DEF PalmIds
  <2>3. \A j \in DOMAIN palm' : palm'[j] = s \/ (j \in DOMAIN palm /\ palm'[j] = palm[j])
    BY <1>10, AppendIds
  <2>4. Assigned(palm, nextId + 1) /\ nextId # 0
    <3>1. nextId <= nextId + 1 /\ nextId # 0
      OBVIOUS
    <3> QED
      BY <3>1, SameBelow DEF PalmIds
  <2>5. Assigned(palm', nextId')
    BY <1>7, <1>10, <2>3, <2>4 DEF Assigned
  <2> QED
    BY <1>10, <2>2, <2>5 DEF PalmIds, PalmKept
<1> QED
  BY <1>4, <1>7, <1>8, <1>9, <1>10

(* The other calls of the Palm give out none.                              *)
LEMMA PalmCallIds ==
    ASSUME palm \in Seq(Record), nextId \in Nat, PalmIds, UNCHANGED nextId,
           \/ UNCHANGED palm
           \/ \E id \in Nat : Remove(id)
           \/ CleanUp
           \/ ResetFlags
    PROVE  PalmKept
<1>1. nextId <= nextId' /\ nextId' \in Nat
  OBVIOUS
<1>2. ASSUME palm' \in Seq(Record), From(palm', palm), Distinct(palm') PROVE PalmKept
  BY <1>1, <1>2, FromBelow DEF PalmIds, PalmKept
<1>3. CASE UNCHANGED palm
  BY <1>1, <1>3 DEF PalmIds, PalmKept
<1>4. ASSUME NEW id \in Nat, Remove(id) PROVE PalmKept
  BY <1>2, <1>4, RemoveType, DeleteIds DEF PalmIds, Remove
<1>5. CASE CleanUp
  BY <1>2, <1>5, CleanUpType, PurgedIds DEF PalmIds, CleanUp
<1>6. CASE ResetFlags
  <2>1. palm' \in Seq(Record)
    BY <1>6, ResetFlagsType
  <2>2. DOMAIN palm = 1 .. Len(palm) /\ DOMAIN palm' = 1 .. Len(palm') /\ Len(palm) \in Nat /\ Len(palm') \in Nat
        /\ \A i \in DOMAIN palm : palm[i] \in Record
    BY <2>1, LenProperties, ElementOfSeq
  <2>3. DOMAIN palm' = DOMAIN palm /\ \A i \in DOMAIN palm : palm'[i] = [palm[i] EXCEPT !.flags = @ \ {DIRTY}]
    BY <1>6 DEF ResetFlags
  <2>4. ASSUME NEW i \in 1 .. Len(palm) PROVE palm'[i].id = palm[i].id
    <3>1. palm[i] \in Record /\ palm'[i] = [palm[i] EXCEPT !.flags = @ \ {DIRTY}]
      BY <2>2, <2>3
    <3> QED
      BY <3>1 DEF Record
  <2>5. Len(palm') = Len(palm)
    <3>1. PICK m \in Nat, n \in Nat : m = Len(palm') /\ n = Len(palm) /\ 1 .. m = 1 .. n
      BY <2>2, <2>3
    <3> QED
      BY <3>1
  <2>6. From(palm', palm) /\ (Distinct(palm) => Distinct(palm'))
    BY <2>1, <2>4, <2>5, SameIds
  <2> QED
    BY <1>2, <2>1, <2>6 DEF PalmIds
<1> QED
  BY <1>3, <1>4, <1>5, <1>6

-----------------------------------------------------------------------------
(* What holds of the IDs in every state.  The Palm has given out each ID   *)
(* once; every ID in a list on a workstation is one of these, or 0.  A     *)
(* plan that brings the record in hand into the local list either takes    *)
(* the place of the record with the same ID, or meets a list without that  *)
(* ID; in between, the list may hold the ID twice, and then the one thing  *)
(* left to do is to unlink the first of the two.                           *)
BringSteps  == {AppendRemote, AppendUnclean, InsertRemote}
NoBrings(p) == \A k \in DOMAIN p : p[k] \notin BringSteps

ReplacingPlans ==
    {<<ClearLocal, ArchiveLocal, DeleteLocal, AppendUnclean>>,
     <<ArchiveLocal, DeleteLocal, AppendUnclean>>,
     <<DeleteLocal, AppendUnclean>>, <<DeleteLocal, AppendRemote>>,
     <<ClearLocal, UploadAsNew, InsertRemote>>, <<UploadAsNew, InsertRemote>>,
     <<InsertRemote, DeleteLocal>>}

Plain     == Distinct(localdb) /\ NoBrings(plan)
Replacing == /\ Distinct(localdb) /\ plan \in ReplacingPlans
             /\ li \in DOMAIN localdb /\ localdb[li].id = rem.id /\ rem.id # 0
Bringing  == /\ Distinct(localdb) /\ Lacks(localdb, rem.id)
             /\ plan \in {<<AppendRemote>>, <<AppendUnclean>>, <<InsertRemote>>}
Doubled   == /\ plan = <<DeleteLocal>> /\ li \in DOMAIN localdb
             /\ FindRecordByID(localdb, localdb[li].id) = li /\ Distinct(Without(localdb, li))

PlanIds == Plain \/ Replacing \/ Bringing \/ Doubled
FileIds == \A h \in Hosts : backup[h] # NoFile => Distinct(backup[h]) /\ Below(backup[h], nextId)

IdsInv ==
    /\ PalmIds /\ FileIds
    /\ Below(localdb, nextId) /\ Assigned(remotedb, nextId) /\ rem.id < nextId
    /\ PlanIds

(* The names of the steps that the proof tells apart.                      *)
LEMMA StepNames ==
    /\ {ClearLocal, ArchiveLocal, ArchiveRemote, DeleteLocal, DropRemote, DeleteRemote, PurgeLocal,
        UploadLocal, UploadAsNew} \cap BringSteps = {}
    /\ {ClearLocal, ArchiveLocal, ArchiveRemote, DropRemote, DeleteRemote, PurgeLocal,
        UploadLocal} \cap {DeleteLocal, UploadAsNew, InsertRemote} = {}
    /\ DeleteLocal # UploadAsNew /\ DeleteLocal \notin {ClearLocal, ArchiveLocal}
    /\ UploadAsNew \notin {ClearLocal, ArchiveLocal} /\ InsertRemote \notin {ClearLocal, ArchiveLocal}
    /\ PurgeLocal \notin {ClearLocal, ArchiveLocal} /\ UploadLocal \notin {ClearLocal, ArchiveLocal}
    /\ InsertRemote \notin {AppendRemote, AppendUnclean}
  BY DEF BringSteps, ClearLocal, ArchiveLocal, ArchiveRemote, DeleteLocal, DropRemote, DeleteRemote,
         PurgeLocal, UploadLocal, UploadAsNew, AppendRemote, AppendUnclean, InsertRemote

(* How a plan goes on that replaces a record.                              *)
LEMMA ReplacingGoesOn ==
    ASSUME NEW p \in ReplacingPlans
    PROVE  \/ Head(p) \in {ClearLocal, ArchiveLocal} /\ Tail(p) \in ReplacingPlans
           \/ Head(p) = DeleteLocal /\ Tail(p) \in {<<AppendRemote>>, <<AppendUnclean>>}
           \/ Head(p) = UploadAsNew /\ Tail(p) = <<InsertRemote>>
           \/ Head(p) = InsertRemote /\ Tail(p) = <<DeleteLocal>>
<1>1. \A a, b : Head(<<a, b>>) = a /\ Tail(<<a, b>>) = <<b>>
  OBVIOUS
<1>2. \A a, b, c : Head(<<a, b, c>>) = a /\ Tail(<<a, b, c>>) = <<b, c>>
  OBVIOUS
<1>3. \A a, b, c, d : Head(<<a, b, c, d>>) = a /\ Tail(<<a, b, c, d>>) = <<b, c, d>>
  OBVIOUS
<1>4. /\ <<ArchiveLocal, DeleteLocal, AppendUnclean>> \in ReplacingPlans
      /\ <<DeleteLocal, AppendUnclean>> \in ReplacingPlans
      /\ <<UploadAsNew, InsertRemote>> \in ReplacingPlans
  BY DEF ReplacingPlans
<1>5. \/ p = <<ClearLocal, ArchiveLocal, DeleteLocal, AppendUnclean>>
      \/ p = <<ArchiveLocal, DeleteLocal, AppendUnclean>>
      \/ p = <<DeleteLocal, AppendUnclean>>
      \/ p = <<DeleteLocal, AppendRemote>>
      \/ p = <<ClearLocal, UploadAsNew, InsertRemote>>
      \/ p = <<UploadAsNew, InsertRemote>>
      \/ p = <<InsertRemote, DeleteLocal>>
  BY DEF ReplacingPlans
<1>6. CASE \/ p = <<ClearLocal, ArchiveLocal, DeleteLocal, AppendUnclean>>
           \/ p = <<ArchiveLocal, DeleteLocal, AppendUnclean>>
           \/ p = <<ClearLocal, UploadAsNew, InsertRemote>>
  <2>1. Head(p) \in {ClearLocal, ArchiveLocal} /\ Tail(p) \in ReplacingPlans
    <3>1. CASE p = <<ClearLocal, ArchiveLocal, DeleteLocal, AppendUnclean>>
      <4>1. Head(p) = ClearLocal /\ Tail(p) = <<ArchiveLocal, DeleteLocal, AppendUnclean>>
        BY <1>3, <3>1
      <4> QED
        BY <1>4, <4>1
    <3>2. CASE p = <<ArchiveLocal, DeleteLocal, AppendUnclean>>
      <4>1. Head(p) = ArchiveLocal /\ Tail(p) = <<DeleteLocal, AppendUnclean>>
        BY <1>2, <3>2
      <4> QED
        BY <1>4, <4>1
    <3>3. CASE p = <<ClearLocal, UploadAsNew, InsertRemote>>
      <4>1. Head(p) = ClearLocal /\ Tail(p) = <<UploadAsNew, InsertRemote>>
        BY <1>2, <3>3
      <4> QED
        BY <1>4, <4>1
    <3> QED
      BY <1>6, <3>1, <3>2, <3>3
  <2> QED
    BY <2>1
<1>7. CASE p = <<DeleteLocal, AppendUnclean>> \/ p = <<DeleteLocal, AppendRemote>>
  <2>1. Head(p) = DeleteLocal /\ Tail(p) \in {<<AppendRemote>>, <<AppendUnclean>>}
    BY <1>1, <1>7
  <2> QED
    BY <2>1
<1>8. CASE p = <<UploadAsNew, InsertRemote>> \/ p = <<InsertRemote, DeleteLocal>>
  <2>1. (Head(p) = UploadAsNew /\ Tail(p) = <<InsertRemote>>) \/ (Head(p) = InsertRemote /\ Tail(p) = <<DeleteLocal>>)
    BY <1>1, <1>8
  <2> QED
    BY <2>1
<1> QED
  BY <1>5, <1>6, <1>7, <1>8

(* ... and one that does not, or that has one step left.                   *)
LEMMA OthersGoOn ==
    /\ NoBrings(<<>>)
    /\ \A a : Head(<<a>>) = a /\ Tail(<<a>>) = <<>> /\ <<a>> # <<>>
    /\ \A p \in Seq(Steps) : NoBrings(p) /\ p # <<>> => Head(p) \notin BringSteps /\ NoBrings(Tail(p))
<1>1. NoBrings(<<>>)
  BY DEF NoBrings
<1>2. \A a : Head(<<a>>) = a /\ Tail(<<a>>) = <<>> /\ <<a>> # <<>>
  OBVIOUS
<1>3. ASSUME NEW p \in Seq(Steps), NoBrings(p), p # <<>>
      PROVE  Head(p) \notin BringSteps /\ NoBrings(Tail(p))
  <2>1. Len(p) \in Nat /\ Len(p) > 0 /\ DOMAIN p = 1 .. Len(p)
    BY <1>3, LenProperties, EmptySeq
  <2>2. /\ DOMAIN Tail(p) = 1 .. (Len(p) - 1) /\ Head(p) = p[1]
        /\ \A k \in 1 .. (Len(p) - 1) : Tail(p)[k] = p[k + 1]
    BY <1>3, HeadTailProperties, LenProperties
  <2> QED
    BY <1>3, <2>1, <2>2 DEF NoBrings
<1> QED
  BY <1>1, <1>2, <1>3

(* The plans of SyncRecord.                                                *)
LEMMA SyncRecordPlanIds ==
    ASSUME NEW localrec \in Record, NEW remoterec \in Record
    PROVE  LET p == SyncRecordPlan(localrec, remoterec) IN NoBrings(p) \/ p \in ReplacingPlans
<1> DEFINE Good(p) == NoBrings(p) \/ p \in ReplacingPlans
<1>1. \A a, b, c, d \in {ClearLocal, ArchiveLocal, ArchiveRemote, DeleteLocal, DeleteRemote, UploadLocal} :
          NoBrings(<<a>>) /\ NoBrings(<<a, b>>) /\ NoBrings(<<a, b, c>>) /\ NoBrings(<<a, b, c, d>>)
  BY StepNames DEF NoBrings
<1>2. \A t \in Statuses : Good(SyncRecordTable["archived"][t])
  <2>1. /\ NoBrings(<<ArchiveLocal, ArchiveRemote, DeleteRemote, DeleteLocal>>)
        /\ NoBrings(<<ArchiveRemote, DeleteRemote, DeleteLocal>>)
        /\ NoBrings(<<ArchiveRemote, ClearLocal, UploadLocal>>)
        /\ NoBrings(<<ArchiveRemote, DeleteLocal>>)
    BY <1>1
  <2> QED
    BY <2>1 DEF SyncRecordTable, RemoteArchived, Statuses
<1>3. \A t \in Statuses : Good(SyncRecordTable["expunged"][t])
  <2>1. /\ NoBrings(<<ClearLocal, ArchiveLocal, DeleteLocal>>)
        /\ NoBrings(<<DeleteLocal>>)
        /\ NoBrings(<<DeleteRemote, ClearLocal, UploadLocal>>)
    BY <1>1
  <2> QED
    BY <2>1 DEF SyncRecordTable, RemoteExpunged, Statuses
<1>4. \A t \in Statuses : Good(SyncRecordTable["dirty"][t])
  <2>1. /\ <<ClearLocal, ArchiveLocal, DeleteLocal, AppendUnclean>> \in ReplacingPlans
        /\ <<DeleteLocal, AppendRemote>> \in ReplacingPlans
        /\ <<ClearLocal, UploadAsNew, InsertRemote>> \in ReplacingPlans
        /\ <<InsertRemote, DeleteLocal>> \in ReplacingPlans
    BY DEF ReplacingPlans
  <2> QED
    BY <2>1 DEF SyncRecordTable, RemoteDirty, Statuses
<1>5. \A t \in Statuses : Good(SyncRecordTable["clean"][t])
  <2>1. /\ NoBrings(<<ClearLocal, ArchiveLocal, DeleteLocal, DeleteRemote>>)
        /\ NoBrings(<<DeleteLocal, DeleteRemote>>)
        /\ NoBrings(<<ClearLocal, UploadLocal>>)
        /\ NoBrings(<<>>)
    BY <1>1, OthersGoOn
  <2> QED
    BY <2>1 DEF SyncRecordTable, RemoteClean, Statuses
<1>6. Good(<<ArchiveLocal, DeleteRemote, DeleteLocal>>) /\ Good(<<ClearLocal>>)
  BY <1>1
<1>7. Status(localrec) \in Statuses /\ Status(remoterec) \in Statuses
  BY DEF Status, Statuses
<1>8. Good(SyncRecordTable[Status(remoterec)][Status(localrec)])
  BY <1>2, <1>3, <1>4, <1>5, <1>7 DEF Statuses
<1> QED
  BY <1>6, <1>8 DEF SyncRecordPlan

(* The plans the sync functions make themselves.                           *)
LEMMA OwnPlansIds ==
    ASSUME NEW rec \in Record
    PROVE  /\ NoBrings(FirstSyncPlan(rec)) /\ NoBrings(SlowLocalPlan(rec)) /\ NoBrings(FastLocalPlan(rec))
           /\ NoBrings(SlowNewPlan(rec)) \/ SlowNewPlan(rec) = <<AppendRemote>>
           /\ NoBrings(FastNewPlan(rec)) \/ FastNewPlan(rec) = <<AppendRemote>>
<1>1. \A a, b, c \in {ClearLocal, ArchiveLocal, ArchiveRemote, DeleteLocal, DropRemote, PurgeLocal, UploadLocal} :
          NoBrings(<<a>>) /\ NoBrings(<<a, b>>) /\ NoBrings(<<a, b, c>>)
  BY StepNames DEF NoBrings
<1> QED
  BY <1>1, OthersGoOn DEF FirstSyncPlan, SlowLocalPlan, FastLocalPlan, SlowNewPlan, FastNewPlan

-----------------------------------------------------------------------------
(* Where no plan is under way, the local list is in order.                 *)
LEMMA NoPlanIds == ASSUME IdsInv, plan = <<>> PROVE Distinct(localdb)
  BY OthersGoOn DEF IdsInv, PlanIds, Plain, Replacing, Bringing, Doubled, ReplacingPlans

(* The backup files, as the Palm gives out more IDs.                       *)
LEMMA FileIdsKept == ASSUME TypeOK, IdsInv, PalmKept, UNCHANGED backup PROVE FileIds'
<1> SUFFICES ASSUME NEW h \in Hosts, backup[h] # NoFile
             PROVE  Distinct(backup[h]) /\ Below(backup[h], nextId')
  BY DEF FileIds
<1>1. PICK db \in Seq(Record) : db = backup[h] /\ Distinct(db) /\ Below(db, nextId)
  BY DEF TypeOK, IdsInv, FileIds
<1>2. Below(db, nextId')
  BY <1>1, SameBelow DEF TypeOK, PalmKept
<1> QED
  BY <1>1, <1>2

(* A step that leaves the work in hand alone, or drops its plan.           *)
LEMMA WorkIds ==
    ASSUME TypeOK, IdsInv, PalmKept, FileIds', UNCHANGED <<localdb, remotedb, rem>>,
           UNCHANGED <<plan, li>> \/ (plan' = <<>> /\ Distinct(localdb))
    PROVE  IdsInv'
<1>1. Below(localdb, nextId') /\ Assigned(remotedb, nextId')
  BY SameBelow DEF TypeOK, IdsInv, PalmKept
<1>2. rem.id < nextId'
  BY DEF TypeOK, IdsInv, PalmKept, Record
<1>3. PlanIds'
  <2>1. CASE UNCHANGED <<plan, li>>
    BY <2>1 DEF IdsInv, PlanIds, Plain, Replacing, Bringing, Doubled
  <2>2. CASE plan' = <<>> /\ Distinct(localdb)
    BY <2>2, OthersGoOn DEF PlanIds, Plain
  <2> QED
    BY <2>1, <2>2
<1> QED
  BY <1>1, <1>2, <1>3 DEF IdsInv, PalmKept

(* The user gives no record an ID but the one the Palm assigns.            *)
LEMMA UserStepIds == ASSUME Inductive, IdsInv, UserStep PROVE IdsInv'
<1>1. TypeOK /\ palm \in Seq(Record) /\ nextId \in Nat /\ PalmIds
  BY DEF Inductive, TypeOK, IdsInv
<1>2. UNCHANGED <<localdb, remotedb, rem, plan, li>>
  BY DEF UserStep, PalmEdit, PalmNew, PalmArchive, PalmExpunge, DesktopEdit, DesktopNew,
         DesktopArchive, DesktopExpunge, workVars
<1>3. palm' \in Seq(Record) /\ nextId' \in Nat
  BY UserStepInductive DEF Inductive, TypeOK
<1>4. \A r \in Record, f \in SUBSET Flags :
          [r EXCEPT !.flags = f] \in Record /\ [r EXCEPT !.flags = f].id = r.id
  BY DEF Record
<1>5. Version \in Nat /\ {DIRTY, DELETED, ARCHIVE, EXPUNGED} = Flags
  BY <1>1, ConstantsAssumption DEF TypeOK, Version, Flags
<1>6. ASSUME NEW i \in DOMAIN palm, PalmEdit(i) \/ PalmArchive(i) \/ PalmExpunge(i) PROVE IdsInv'
  <2>1. PICK old \in Record : old = palm[i] /\ old.flags \subseteq Flags
    <3>1. palm[i] \in Record
      BY <1>1, ElementOfSeq, LenProperties
    <3> QED
      BY <3>1 DEF Record
  <2>2. PICK r \in Record : palm' = [palm EXCEPT ![i] = r] /\ r.id = old.id
    <3>1. CASE PalmEdit(i)
      <4>1. palm' = [palm EXCEPT ![i] = [old EXCEPT !.data = Version, !.flags = old.flags \cup {DIRTY}]]
        BY <2>1, <3>1 DEF PalmEdit
      <4>2. PICK f \in SUBSET Flags : f = old.flags \cup {DIRTY}
        BY <1>5, <2>1
      <4>3. PICK v \in Nat : v = Version
        BY <1>5
      <4>4. [old EXCEPT !.data = v, !.flags = f] \in Record /\ [old EXCEPT !.data = v, !.flags = f].id = old.id
        BY DEF Record
      <4> QED
        BY <4>1, <4>2, <4>3, <4>4
    <3>2. CASE PalmArchive(i)
      <4>1. PICK marks \in SUBSET Flags : palm' = [palm EXCEPT ![i] = [old EXCEPT !.flags = old.flags \cup marks]]
        BY <2>1, <3>2, ConstantsAssumption DEF PalmArchive
      <4>2. old.flags \cup marks \in SUBSET Flags
        BY <2>1
      <4> QED
        BY <1>4, <4>1, <4>2
    <3>3. CASE PalmExpunge(i)
      <4>1. PICK marks \in SUBSET Flags :
                palm' = [palm EXCEPT ![i] = [old EXCEPT !.data = 0, !.flags = old.flags \cup marks]]
        BY <2>1, <3>3, ConstantsAssumption DEF PalmExpunge
      <4>2. PICK f \in SUBSET Flags : f = old.flags \cup marks
        BY <2>1
      <4>3. PICK v \in Nat : v = 0
        OBVIOUS
      <4>4. [old EXCEPT !.data = v, !.flags = f] \in Record /\ [old EXCEPT !.data = v, !.flags = f].id = old.id
        BY DEF Record
      <4> QED
        BY <4>1, <4>2, <4>3, <4>4
    <3> QED
      BY <1>6, <3>1, <3>2, <3>3
  <2>3. UNCHANGED <<nextId, backup>>
    BY <1>6 DEF PalmEdit, PalmArchive, PalmExpunge, fileVars
  <2>4. From(palm', palm) /\ Distinct(palm')
    BY <1>1, <2>1, <2>2, ChangeIds DEF PalmIds
  <2>5. PalmKept
    <3>1. nextId <= nextId' /\ nextId' \in Nat
      BY <1>1, <2>3
    <3> QED
      BY <1>1, <1>3, <2>4, <3>1, FromBelow DEF PalmIds, PalmKept
  <2> QED
    BY <1>1, <1>2, <2>3, <2>5, FileIdsKept, WorkIds
<1>7. CASE PalmNew
  <2>1. PICK r \in Record : r.id = nextId /\ palm' = Append(palm, r)
    <3>1. Rec(nextId, {DIRTY}, Version) \in Record /\ Rec(nextId, {DIRTY}, Version).id = nextId
      BY <1>1, <1>5 DEF Rec, Record
    <3> QED
      BY <1>7, <3>1 DEF PalmNew, AppendRecord
  <2>2. nextId' = nextId + 1 /\ UNCHANGED backup
    BY <1>7 DEF PalmNew, fileVars
  <2>3. Lacks(palm, nextId)
    BY <1>1 DEF PalmIds, Assigned, Lacks
  <2>4. Distinct(palm')
    BY <1>1, <2>1, <2>3, AppendIds DEF PalmIds
  <2>5. \A j \in DOMAIN palm' : palm'[j] = r \/ (j \in DOMAIN palm /\ palm'[j] = palm[j])
    BY <1>1, <2>1, AppendIds
  <2>6. Assigned(palm, nextId + 1) /\ nextId # 0
    <3>1. nextId <= nextId + 1 /\ rem.id \in Nat /\ rem.id < nextId
      BY <1>1 DEF TypeOK, Record, IdsInv
    <3> QED
      BY <1>1, <3>1, SameBelow DEF PalmIds
  <2>7. Assigned(palm', nextId')
    BY <1>1, <2>1, <2>2, <2>5, <2>6 DEF Assigned
  <2>8. PalmKept
    BY <1>1, <2>2, <2>4, <2>7 DEF PalmIds, PalmKept
  <2> QED
    BY <1>1, <1>2, <2>2, <2>8, FileIdsKept, WorkIds
<1>8. ASSUME NEW h \in Hosts, backup[h] # NoFile,
             \/ DesktopNew(h)
             \/ \E i \in DOMAIN backup[h] : DesktopEdit(h, i) \/ DesktopArchive(h, i) \/ DesktopExpunge(h, i)
      PROVE  IdsInv'
  <2>1. PICK db \in Seq(Record) : db = backup[h] /\ Distinct(db) /\ Below(db, nextId)
    BY <1>1, <1>8 DEF TypeOK, IdsInv, FileIds
  <2>2. UNCHANGED <<palm, nextId>>
    BY <1>8 DEF DesktopNew, DesktopEdit, DesktopArchive, DesktopExpunge, palmVars
  <2>3. \E new \in Seq(Record) : /\ backup' = [backup EXCEPT ![h] = new]
                                 /\ Distinct(new) /\ Below(new, nextId)
    <3>1. CASE DesktopNew(h)
      <4>1. PICK r \in Record : r.id = 0 /\ backup' = [backup EXCEPT ![h] = Append(db, r)]
        <5>1. Rec(0, {DIRTY}, Version) \in Record /\ Rec(0, {DIRTY}, Version).id = 0
          BY <1>5 DEF Rec, Record
        <5> QED
          BY <2>1, <3>1, <5>1 DEF DesktopNew, AppendRecord
      <4>2. PICK new \in Seq(Record) : new = Append(db, r)
        BY AppendProperties
      <4>3. Distinct(new) /\ \A j \in DOMAIN new : new[j] = r \/ (j \in DOMAIN db /\ new[j] = db[j])
        BY <2>1, <4>1, <4>2, AppendIds
      <4>4. 0 < nextId
        BY <1>1 DEF TypeOK, Record, IdsInv
      <4>5. Below(new, nextId)
        BY <2>1, <4>1, <4>3, <4>4 DEF Below
      <4> QED
        BY <4>1, <4>2, <4>3, <4>5
    <3>2. ASSUME NEW i \in DOMAIN db, DesktopEdit(h, i) \/ DesktopArchive(h, i) \/ DesktopExpunge(h, i)
          PROVE  \E new \in Seq(Record) : /\ backup' = [backup EXCEPT ![h] = new]
                                          /\ Distinct(new) /\ Below(new, nextId)
      <4>1. PICK old \in Record : old = db[i] /\ old.flags \subseteq Flags
        <5>1. db[i] \in Record
          BY ElementOfSeq, LenProperties
        <5> QED
          BY <5>1 DEF Record
      <4>2. PICK r \in Record : backup' = [backup EXCEPT ![h] = [db EXCEPT ![i] = r]] /\ r.id = old.id
        <5>1. CASE DesktopEdit(h, i)
          <6>1. backup' = [backup EXCEPT ![h] =
                              [db EXCEPT ![i] = [old EXCEPT !.data = Version, !.flags = old.flags \cup {DIRTY}]]]
            BY <2>1, <4>1, <5>1 DEF DesktopEdit
          <6>2. PICK f \in SUBSET Flags : f = old.flags \cup {DIRTY}
            BY <1>5, <4>1
          <6>3. PICK v \in Nat : v = Version
            BY <1>5
          <6>4. [old EXCEPT !.data = v, !.flags = f] \in Record /\ [old EXCEPT !.data = v, !.flags = f].id = old.id
            BY DEF Record
          <6> QED
            BY <6>1, <6>2, <6>3, <6>4
        <5>2. CASE DesktopArchive(h, i) \/ DesktopExpunge(h, i)
          <6>1. PICK marks \in SUBSET Flags :
                    backup' = [backup EXCEPT ![h] = [db EXCEPT ![i] = [old EXCEPT !.flags = old.flags \cup marks]]]
            <7>1. {DELETED, ARCHIVE} \in SUBSET Flags /\ {DELETED, EXPUNGED} \in SUBSET Flags
              BY <1>5
            <7> QED
              BY <2>1, <4>1, <5>2, <7>1 DEF DesktopArchive, DesktopExpunge
          <6>2. old.flags \cup marks \in SUBSET Flags
            BY <4>1
          <6> QED
            BY <1>4, <6>1, <6>2
        <5> QED
          BY <3>2, <5>1, <5>2
      <4>3. PICK new \in Seq(Record) : new = [db EXCEPT ![i] = r]
        BY ChangeType
      <4>4. From(new, db) /\ Distinct(new)
        BY <2>1, <4>1, <4>2, <4>3, ChangeIds
      <4>5. Below(new, nextId)
        <5>1. nextId <= nextId
          BY <1>1
        <5> QED
          BY <1>1, <2>1, <4>4, <5>1, FromBelow
      <4> QED
        BY <4>2, <4>3, <4>4, <4>5
    <3> QED
      BY <1>8, <2>1, <3>1, <3>2
  <2>4. FileIds'
    BY <1>1, <2>2, <2>3 DEF TypeOK, IdsInv, FileIds
  <2>5. PalmKept
    BY <1>1, <2>2 DEF PalmIds, PalmKept
  <2> QED
    BY <1>1, <1>2, <2>4, <2>5, WorkIds
<1> QED
  BY <1>6, <1>7, <1>8 DEF UserStep

(* Without any record, there is nothing to show.                           *)
LEMMA EmptyIds == \A n : Distinct(<<>>) /\ Below(<<>>, n) /\ Assigned(<<>>, n)
  BY DEF Distinct, Below, Assigned

(* The steps between two records that call no one, and those that fail     *)
(* before they have done anything.                                         *)
LEMMA SessionStepIds ==
    ASSUME Inductive, IdsInv,
           \/ \E h \in Hosts : StartSync(h)
           \/ Cancel \/ Crash \/ UpdateUserInfo
           \/ OpenFails \/ ReadFails \/ RemoteDone \/ LocalDone
    PROVE  IdsInv'
<1>1. TypeOK /\ nextId \in Nat /\ NoRec.id = 0 /\ 0 < nextId
  <2>1. TypeOK /\ rem \in Record /\ nextId \in Nat /\ rem.id < nextId /\ NoRec.id = 0
    BY DEF Inductive, TypeOK, IdsInv, NoRec, Rec
  <2> QED
    BY <2>1 DEF Record
<1>2. UNCHANGED <<palm, nextId, backup>>
  BY DEF StartSync, Cancel, Crash, UpdateUserInfo, OpenFails, ReadFails, RemoteDone, LocalDone,
         palmVars, fileVars, Refused, Lost
<1>3. PalmKept /\ FileIds'
  BY <1>1, <1>2 DEF IdsInv, PalmKept, PalmIds, FileIds
<1>4. CASE UNCHANGED <<localdb, remotedb, rem, plan, li>>
  BY <1>1, <1>3, <1>4, WorkIds
<1>5. CASE EndSession
  <2>1. localdb' = <<>> /\ remotedb' = <<>> /\ rem' = NoRec /\ plan' = <<>>
    BY <1>5 DEF EndSession
  <2>2. Distinct(localdb') /\ Below(localdb', nextId') /\ Assigned(remotedb', nextId')
    BY <2>1, EmptyIds
  <2>3. PlanIds'
    BY <2>1, <2>2, OthersGoOn DEF PlanIds, Plain
  <2> QED
    BY <1>1, <1>2, <1>3, <2>1, <2>2, <2>3 DEF IdsInv, PalmKept
<1>6. CASE RemoteDone
  <2>1. UNCHANGED <<localdb, remotedb, plan>> /\ rem' = NoRec /\ plan = <<>>
    BY <1>6 DEF RemoteDone
  <2>2. PlanIds'
    BY <2>1, NoPlanIds, OthersGoOn DEF PlanIds, Plain
  <2> QED
    BY <1>1, <1>2, <1>3, <2>1, <2>2 DEF IdsInv, PalmKept
<1> QED
  BY <1>4, <1>5, <1>6 DEF StartSync, Cancel, Crash, UpdateUserInfo, OpenFails, ReadFails, LocalDone, workVars

(* The lists of the session are the Palm's and the backup file's.          *)
LEMMA OpenIds == ASSUME Inductive, IdsInv, Open PROVE IdsInv'
<1>1. TypeOK /\ nextId \in Nat
  BY DEF Inductive, TypeOK
<1>2. UNCHANGED <<palm, nextId, backup, rem, plan>> /\ plan = <<>>
  BY DEF Inductive, SessionInv, Open, palmVars, fileVars
<1>3. PalmKept /\ FileIds'
  BY <1>1, <1>2 DEF IdsInv, PalmKept, PalmIds, FileIds
<1>4. /\ host \in Hosts /\ mode \in {"first", "slow", "fast"}
      /\ mode # "first" => backup[host] # NoFile
  BY <1>1 DEF Inductive, SessionInv, Open, TypeOK, Modes
<1>5. \/ mode = "first" /\ localdb' = palm         /\ remotedb' = <<>>
      \/ mode = "slow"  /\ localdb' = backup[host] /\ remotedb' = palm
      \/ mode = "fast"  /\ localdb' = backup[host] /\ remotedb' = <<>>
  BY <1>4 DEF Open
<1>6. Distinct(palm) /\ Assigned(palm, nextId) /\ Below(palm, nextId)
  BY DEF IdsInv, PalmIds, Assigned, Below
<1>7. mode # "first" => Distinct(backup[host]) /\ Below(backup[host], nextId)
  BY <1>4 DEF IdsInv, FileIds
<1>8. Distinct(localdb') /\ Below(localdb', nextId) /\ Assigned(remotedb', nextId)
  BY <1>5, <1>6, <1>7, EmptyIds
<1>9. PlanIds'
  BY <1>2, <1>8, OthersGoOn DEF PlanIds, Plain
<1> QED
  BY <1>2, <1>3, <1>8, <1>9 DEF IdsInv, PalmKept

(* The plan for a record of the Palm.                                      *)
LEMMA DecideIds ==
    ASSUME TypeOK, IdsInv, Distinct(localdb), NEW remoterec \in Record, remoterec.id # 0, remoterec.id < nextId,
           NEW newPlan, NoBrings(newPlan) \/ newPlan = <<AppendRemote>>,
           Decide(remoterec, newPlan), UNCHANGED <<localdb, nextId>>
    PROVE  PlanIds' /\ rem'.id < nextId'
<1>1. PICK i : i = FindRecordByID(localdb, remoterec.id)
  OBVIOUS
<1>2. remoterec.id \in Nat
  BY DEF Record
<1>3. /\ i \in 0 .. Len(localdb) /\ DOMAIN localdb = 1 .. Len(localdb) /\ Len(localdb) \in Nat
      /\ i = 0 => \A j \in 1 .. Len(localdb) : localdb[j].id # remoterec.id
      /\ i # 0 => localdb[i].id = remoterec.id
  BY <1>1, <1>2, FindRecordByIDCorrect, LenProperties DEF TypeOK
<1>4. CASE i = 0
  <2>1. rem' = remoterec /\ plan' = newPlan /\ Lacks(localdb, remoterec.id)
    BY <1>1, <1>3, <1>4 DEF Decide, Lacks
  <2>2. Plain' \/ Bringing'
    BY <2>1 DEF Plain, Bringing
  <2> QED
    BY <2>1, <2>2 DEF PlanIds
<1>5. CASE i # 0
  <2>1. i \in DOMAIN localdb /\ localdb[i] \in Record
    <3>1. i \in 1 .. Len(localdb)
      BY <1>3, <1>5
    <3> QED
      BY <1>3, <3>1, ElementOfSeq DEF TypeOK
  <2>2. PICK r \in Record : /\ r = IF mode = "slow" THEN DistrustClean(localdb[i], remoterec) ELSE remoterec
                            /\ r.id = remoterec.id
    <3>1. LET dirty == [remoterec EXCEPT !.flags = @ \cup {DIRTY}]
          IN  dirty \in Record /\ dirty.id = remoterec.id
      BY DEF Record, Flags
    <3> QED
      BY <3>1 DEF DistrustClean
  <2>3. rem' = r /\ plan' = SyncRecordPlan(localdb[i], r) /\ li' = i
    BY <1>1, <1>5, <2>2 DEF Decide
  <2>4. NoBrings(plan') \/ plan' \in ReplacingPlans
    BY <2>1, <2>3, SyncRecordPlanIds
  <2>5. Plain' \/ Replacing'
    BY <1>3, <1>5, <2>1, <2>2, <2>3, <2>4 DEF Plain, Replacing
  <2> QED
    BY <2>2, <2>3, <2>5 DEF PlanIds
<1> QED
  BY <1>4, <1>5

(* Taking the next remote record; ClearStatusFlags changes no ID.         *)
LEMMA NextRemoteIds == ASSUME Inductive, IdsInv, NextRemoteSlow \/ NextRemoteFast PROVE IdsInv'
<1>1. TypeOK /\ nextId \in Nat /\ palm \in Seq(Record) /\ remotedb \in Seq(Record)
  BY DEF Inductive, TypeOK
<1>2. UNCHANGED <<palm, nextId, backup, localdb>> /\ plan = <<>>
  BY DEF NextRemoteSlow, NextRemoteFast, palmVars, fileVars
<1>3. PalmKept /\ FileIds' /\ Distinct(localdb) /\ Below(localdb', nextId')
  BY <1>1, <1>2, NoPlanIds DEF IdsInv, PalmKept, PalmIds, FileIds
<1>4. CASE NextRemoteSlow
  <2>1. PICK i \in DOMAIN remotedb : /\ Decide(remotedb[i], SlowNewPlan(remotedb[i]))
                                     /\ remotedb' = ClearStatusFlags(remotedb, i)
    BY <1>4 DEF NextRemoteSlow
  <2>2. remotedb[i] \in Record /\ remotedb[i].id # 0 /\ remotedb[i].id < nextId /\ i \in 1 .. Len(remotedb)
    BY <1>1, ElementOfSeq, LenProperties DEF IdsInv, Assigned
  <2>3. PlanIds' /\ rem'.id < nextId'
    BY <1>1, <1>2, <1>3, <2>1, <2>2, DecideIds, OwnPlansIds
  <2>4. PICK r \in Record : r = [remotedb[i] EXCEPT !.flags = {}] /\ r.id = remotedb[i].id
    <3>1. [remotedb[i] EXCEPT !.flags = {}] \in Record /\ [remotedb[i] EXCEPT !.flags = {}].id = remotedb[i].id
      BY <2>2 DEF Record
    <3> QED
      BY <3>1
  <2>5. remotedb' = [remotedb EXCEPT ![i] = r] /\ remotedb' \in Seq(Record)
    BY <1>1, <2>1, <2>4, ChangeType DEF ClearStatusFlags
  <2>6. From(remotedb', remotedb)
    BY <1>1, <2>4, <2>5, ChangeIds
  <2>7. Assigned(remotedb', nextId)
    <3>1. nextId <= nextId /\ Assigned(remotedb, nextId)
      BY <1>1 DEF IdsInv
    <3> QED
      BY <1>1, <2>5, <2>6, <3>1, FromBelow
  <2> QED
    BY <1>2, <1>3, <2>3, <2>7 DEF IdsInv, PalmKept
<1>5. CASE NextRemoteFast
  <2>1. PICK i \in DOMAIN palm : Decide(palm[i], FastNewPlan(palm[i])) /\ UNCHANGED remotedb
    BY <1>5 DEF NextRemoteFast, Unread
  <2>2. palm[i] \in Record /\ palm[i].id # 0 /\ palm[i].id < nextId
    BY <1>1, ElementOfSeq, LenProperties DEF IdsInv, PalmIds, Assigned
  <2>3. PlanIds' /\ rem'.id < nextId'
    BY <1>1, <1>2, <1>3, <2>1, <2>2, DecideIds, OwnPlansIds
  <2> QED
    BY <1>2, <1>3, <2>1, <2>3 DEF IdsInv, PalmKept
<1> QED
  BY <1>4, <1>5

(* Taking the next local record: its plan brings nothing in.               *)
LEMMA NextLocalIds == ASSUME Inductive, IdsInv, NextLocal PROVE IdsInv'
<1>1. TypeOK /\ nextId \in Nat
  BY DEF Inductive, TypeOK
<1>2. /\ UNCHANGED <<palm, nextId, backup, localdb, remotedb, rem>>
      /\ plan = <<>> /\ plan' = LocalPlan(localdb[li + 1]) /\ li < Len(localdb) /\ pc = "local"
  BY DEF NextLocal, palmVars, fileVars
<1>3. PalmKept /\ FileIds' /\ Distinct(localdb)
  BY <1>1, <1>2, NoPlanIds DEF IdsInv, PalmKept, PalmIds, FileIds
<1>4. localdb[li + 1] \in Record
  <2>1. li + 1 \in 1 .. Len(localdb)
    BY <1>1, <1>2, LenProperties DEF TypeOK
  <2> QED
    BY <1>1, <2>1, ElementOfSeq DEF TypeOK
<1>5. mode \in {"first", "slow", "fast"}
  BY <1>1, <1>2 DEF Inductive, SessionInv, TypeOK, Modes
<1>6. NoBrings(plan')
  BY <1>2, <1>4, <1>5, OwnPlansIds, OthersGoOn DEF LocalPlan
<1>7. PlanIds'
  BY <1>2, <1>3, <1>6 DEF PlanIds, Plain
<1> QED
  BY <1>2, <1>3, <1>7 DEF IdsInv, PalmKept

-----------------------------------------------------------------------------
(* A plan at its first step: only the last of the four cases allows the    *)
(* list to hold an ID twice, and then the step is DeleteLocal.             *)
LEMMA AtStepIds ==
    ASSUME Inductive, IdsInv, plan # <<>>
    PROVE  /\ \/ Plain /\ Head(plan) \notin BringSteps /\ NoBrings(Tail(plan))
              \/ /\ Replacing
                 /\ \/ Head(plan) \in {ClearLocal, ArchiveLocal} /\ Tail(plan) \in ReplacingPlans
                    \/ Head(plan) = DeleteLocal /\ Tail(plan) \in {<<AppendRemote>>, <<AppendUnclean>>}
                    \/ Head(plan) = UploadAsNew /\ Tail(plan) = <<InsertRemote>>
                    \/ Head(plan) = InsertRemote /\ Tail(plan) = <<DeleteLocal>>
              \/ Bringing /\ Head(plan) \in BringSteps /\ Tail(plan) = <<>>
              \/ Doubled /\ Head(plan) = DeleteLocal /\ Tail(plan) = <<>>
           /\ Head(plan) # DeleteLocal => Distinct(localdb)
<1>1. plan \in Seq(Steps)
  BY DEF Inductive, TypeOK
<1>2. Plain => Head(plan) \notin BringSteps /\ NoBrings(Tail(plan))
  BY <1>1, OthersGoOn DEF Plain
<1>3. Bringing => Head(plan) \in BringSteps /\ Tail(plan) = <<>>
  BY OthersGoOn DEF Bringing, BringSteps
<1>4. Doubled => Head(plan) = DeleteLocal /\ Tail(plan) = <<>>
  BY OthersGoOn DEF Doubled
<1>5. Replacing =>
          \/ Head(plan) \in {ClearLocal, ArchiveLocal} /\ Tail(plan) \in ReplacingPlans
          \/ Head(plan) = DeleteLocal /\ Tail(plan) \in {<<AppendRemote>>, <<AppendUnclean>>}
          \/ Head(plan) = UploadAsNew /\ Tail(plan) = <<InsertRemote>>
          \/ Head(plan) = InsertRemote /\ Tail(plan) = <<DeleteLocal>>
  BY ReplacingGoesOn DEF Replacing
<1>6. Plain \/ Replacing \/ Bringing => Distinct(localdb)
  BY DEF Plain, Replacing, Bringing
<1> QED
  BY <1>2, <1>3, <1>4, <1>5, <1>6 DEF IdsInv, PlanIds

(* What remains to be shown of a step of a plan.                           *)
LEMMA PlanStepIds ==
    ASSUME Inductive, IdsInv, PalmKept, UNCHANGED <<backup, rem>>,
           Below(localdb', nextId'), Assigned(remotedb', nextId'), PlanIds'
    PROVE  IdsInv'
<1>1. TypeOK /\ FileIds'
  BY FileIdsKept DEF Inductive
<1>2. rem.id < nextId'
  BY <1>1 DEF TypeOK, IdsInv, PalmKept, Record
<1> QED
  BY <1>1, <1>2 DEF IdsInv, PalmKept

(* A step that changes no ID in the local list, and brings none.           *)
LEMMA QuietStepIds ==
    ASSUME Inductive, IdsInv, plan # <<>>, PalmKept, UNCHANGED <<backup, rem, li>>,
           localdb' \in Seq(Record), Len(localdb') = Len(localdb),
           \A i \in 1 .. Len(localdb) : localdb'[i].id = localdb[i].id,
           remotedb' \in Seq(Record), From(remotedb', remotedb),
           Head(plan) \notin BringSteps \cup {DeleteLocal},
           plan' = <<>> \/ (plan' = Tail(plan) /\ Head(plan) # UploadAsNew)
    PROVE  IdsInv'
<1>1. localdb \in Seq(Record) /\ remotedb \in Seq(Record) /\ nextId \in Nat /\ nextId' \in Nat /\ nextId <= nextId'
  BY DEF Inductive, TypeOK, PalmKept
<1>2. From(localdb', localdb) /\ (Distinct(localdb) => Distinct(localdb'))
  BY <1>1, SameIds
<1>3. Distinct(localdb) /\ Distinct(localdb')
  BY <1>2, AtStepIds
<1>4. Below(localdb', nextId') /\ Assigned(remotedb', nextId')
  BY <1>1, <1>2, FromBelow DEF IdsInv
<1>5. DOMAIN localdb = 1 .. Len(localdb) /\ DOMAIN localdb' = 1 .. Len(localdb)
  BY <1>1, LenProperties
<1>6. Plain' \/ Replacing'
  <2>1. CASE plan' = <<>> \/ (plan' = Tail(plan) /\ NoBrings(Tail(plan)))
    BY <1>3, <2>1, OthersGoOn DEF Plain
  <2>2. CASE plan' = Tail(plan) /\ Replacing /\ Tail(plan) \in ReplacingPlans
    <3>1. /\ li' \in DOMAIN localdb' /\ localdb'[li'].id = rem'.id /\ rem'.id # 0
      BY <1>5, <2>2 DEF Replacing
    <3> QED
      BY <1>3, <2>2, <3>1 DEF Replacing
  <2>3. InsertRemote \in BringSteps
    BY DEF BringSteps
  <2> QED
    BY <2>1, <2>2, <2>3, AtStepIds
<1> QED
  BY <1>4, <1>6, PlanStepIds DEF PlanIds

(* The Palm, where a step does not call it.                                *)
LEMMA NoCallIds == ASSUME Inductive, IdsInv, UNCHANGED <<palm, nextId>> PROVE PalmKept
  BY DEF Inductive, TypeOK, IdsInv, PalmKept, PalmIds

(* archive_record, CLEAR_STATUS_FLAGS and the dropping of a remote record. *)
LEMMA QuietStepsIds == ASSUME Inductive, IdsInv, DoArchive \/ DoClearLocal \/ DoDropRemote PROVE IdsInv'
<1>1. /\ plan # <<>> /\ plan' = Tail(plan) /\ UNCHANGED <<palm, nextId, backup, rem, li>>
      /\ Head(plan) \in {ArchiveLocal, ArchiveRemote, ClearLocal, DropRemote}
  BY DEF DoArchive, DoClearLocal, DoDropRemote, Step, NextStep, palmVars, fileVars
<1>2. Head(plan) \notin BringSteps \cup {DeleteLocal} /\ Head(plan) # UploadAsNew
  BY <1>1, StepNames
<1>3. localdb \in Seq(Record) /\ remotedb \in Seq(Record) /\ localdb' \in Seq(Record) /\ remotedb' \in Seq(Record)
  BY DoArchiveInductive, DoClearLocalInductive, DoDropRemoteInductive DEF Inductive, TypeOK
<1>4. Len(localdb') = Len(localdb) /\ \A i \in 1 .. Len(localdb) : localdb'[i].id = localdb[i].id
  <2>1. CASE localdb' = localdb
    BY <2>1
  <2>2. CASE DoClearLocal
    <3>1. Head(plan) = ClearLocal /\ localdb' = ClearStatusFlags(localdb, li)
      BY <2>2 DEF DoClearLocal, Step
    <3>2. li \in 1 .. Len(localdb) /\ localdb[li] \in Record
      BY <1>1, <3>1, AtStep DEF LocalrecSteps
    <3>3. DOMAIN localdb = 1 .. Len(localdb)
      BY <1>3, LenProperties
    <3>4. localdb' = [localdb EXCEPT ![li] = [localdb[li] EXCEPT !.flags = {}]]
      BY <3>1 DEF ClearStatusFlags
    <3>5. [localdb[li] EXCEPT !.flags = {}].id = localdb[li].id
      BY <3>2 DEF Record
    <3>6. Len(localdb') = Len(localdb)
      BY <1>3, <3>1, <3>2, ClearStatusFlagsType
    <3> QED
      BY <3>2, <3>3, <3>4, <3>5, <3>6
  <2> QED
    BY <2>1, <2>2 DEF DoArchive, DoDropRemote
<1>5. From(remotedb', remotedb)
  <2>1. From(remotedb, remotedb)
    BY DEF From
  <2>2. CASE DoDropRemote
    <3>1. rem.id \in Nat /\ remotedb' = DeleteRecordByID(remotedb, rem.id)
      BY <2>2 DEF DoDropRemote, Inductive, TypeOK, Record
    <3> QED
      BY <1>3, <3>1, DeleteIds
  <2> QED
    BY <2>1, <2>2 DEF DoArchive, DoClearLocal
<1> QED
  BY <1>1, <1>2, <1>3, <1>4, <1>5, NoCallIds, QuietStepIds

(* The record in hand is appended to a list that has not its ID.           *)
LEMMA DoAppendRemoteIds == ASSUME Inductive, IdsInv, DoAppendRemote PROVE IdsInv'
<1>1. PICK flags \in SUBSET rem.flags :
        /\ plan # <<>> /\ plan' = Tail(plan) /\ Head(plan) \in {AppendRemote, AppendUnclean}
        /\ localdb' = Append(localdb, Rec(rem.id, flags, rem.data))
        /\ UNCHANGED <<palm, nextId, backup, remotedb, rem, li>>
  BY DEF DoAppendRemote, Step, NextStep, AppendRecord, palmVars, fileVars
<1>2. localdb \in Seq(Record) /\ rem \in Record
  BY DEF Inductive, TypeOK
<1>3. PICK r \in Record : r = Rec(rem.id, flags, rem.data) /\ r.id = rem.id
  <2>1. Rec(rem.id, flags, rem.data) \in Record /\ Rec(rem.id, flags, rem.data).id = rem.id
    BY <1>2 DEF Rec, Record
  <2> QED
    BY <2>1
<1>4. Bringing /\ Tail(plan) = <<>>
  <2>1. AppendRemote \in BringSteps /\ AppendUnclean \in BringSteps /\ ArchiveLocal \notin BringSteps
        /\ ClearLocal \notin BringSteps /\ DeleteLocal \notin BringSteps /\ UploadAsNew \notin BringSteps
        /\ InsertRemote \notin {AppendRemote, AppendUnclean}
    BY StepNames DEF BringSteps
  <2> QED
    BY <1>1, <2>1, AtStepIds
<1>5. Distinct(localdb')
  BY <1>1, <1>2, <1>3, <1>4, AppendIds DEF Bringing
<1>6. \A j \in DOMAIN localdb' : localdb'[j] = r \/ (j \in DOMAIN localdb /\ localdb'[j] = localdb[j])
  BY <1>1, <1>2, <1>3, AppendIds
<1>7. Below(localdb', nextId')
  BY <1>1, <1>3, <1>6 DEF IdsInv, Below
<1>8. PlanIds'
  BY <1>1, <1>4, <1>5, OthersGoOn DEF PlanIds, Plain
<1> QED
  BY <1>1, <1>7, <1>8, NoCallIds, PlanStepIds DEF IdsInv

(* It is inserted into such a list, or behind the record it replaces.      *)
LEMMA DoInsertRemoteIds == ASSUME Inductive, IdsInv, DoInsertRemote PROVE IdsInv'
<1>1. /\ plan # <<>> /\ Head(plan) = InsertRemote /\ plan' = Tail(plan)
      /\ localdb' = InsertRecord(localdb, li, Rec(rem.id, {}, rem.data))
      /\ UNCHANGED <<palm, nextId, backup, remotedb, rem, li>>
  BY DEF DoInsertRemote, Step, NextStep, palmVars, fileVars
<1>2. localdb \in Seq(Record) /\ rem \in Record /\ li \in 1 .. Len(localdb)
  BY <1>1, AtStep DEF Inductive, TypeOK, LocalrecSteps
<1>3. PICK r \in Record : r = Rec(rem.id, {}, rem.data) /\ r.id = rem.id
  <2>1. Rec(rem.id, {}, rem.data) \in Record /\ Rec(rem.id, {}, rem.data).id = rem.id
    BY <1>2 DEF Rec, Record
  <2> QED
    BY <2>1
<1>4. \/ Replacing /\ plan' = <<DeleteLocal>>
      \/ Bringing /\ plan' = <<>>
  <2>1. InsertRemote \in BringSteps /\ InsertRemote \notin {ArchiveLocal, ClearLocal, DeleteLocal, UploadAsNew}
    BY StepNames DEF BringSteps
  <2> QED
    BY <1>1, <2>1, AtStepIds
<1>5. Distinct(localdb)
  BY <1>4 DEF Replacing, Bringing
<1>6. /\ Lacks(localdb, rem.id) => Distinct(localdb')
      /\ rem.id = localdb[li].id /\ rem.id # 0 =>
            /\ li \in DOMAIN localdb' /\ FindRecordByID(localdb', localdb'[li].id) = li
            /\ Distinct(Without(localdb', li))
      /\ \A j \in DOMAIN localdb' : localdb'[j] = r \/ \E k \in DOMAIN localdb : localdb'[j] = localdb[k]
  BY <1>1, <1>2, <1>3, <1>5, InsertIds
<1>7. Below(localdb', nextId')
  BY <1>1, <1>3, <1>6 DEF IdsInv, Below
<1>8. PlanIds'
  <2>1. CASE Replacing /\ plan' = <<DeleteLocal>>
    <3>1. Doubled'
      BY <1>1, <1>6, <2>1 DEF Replacing, Doubled
    <3> QED
      BY <3>1 DEF PlanIds
  <2>2. CASE Bringing /\ plan' = <<>>
    BY <1>6, <2>2, OthersGoOn DEF PlanIds, Plain, Bringing
  <2> QED
    BY <1>4, <2>1, <2>2
<1> QED
  BY <1>1, <1>7, <1>8, NoCallIds, PlanStepIds DEF IdsInv

(* localrec is unlinked.  Where its ID came twice, it was the first.       *)
LEMMA DoDeleteLocalIds == ASSUME Inductive, IdsInv, DoDeleteLocal PROVE IdsInv'
<1>1. /\ plan # <<>> /\ Head(plan) = DeleteLocal /\ plan' = Tail(plan)
      /\ localdb' = DeleteRecordByID(localdb, localdb[li].id)
      /\ UNCHANGED <<palm, nextId, backup, remotedb, rem>>
  BY DEF DoDeleteLocal, Step, NextStep, Unlink, palmVars, fileVars
<1>2. /\ localdb \in Seq(Record) /\ localdb' \in Seq(Record) /\ nextId \in Nat
      /\ li \in 1 .. Len(localdb) /\ localdb[li].id \in Nat
  BY <1>1, AtStep, DoDeleteLocalInductive DEF Inductive, TypeOK, LocalrecSteps
<1>3. /\ From(localdb', localdb)
      /\ Distinct(localdb) => Distinct(localdb')
      /\ Distinct(localdb) /\ localdb[li].id # 0 => Lacks(localdb', localdb[li].id)
  BY <1>1, <1>2, DeleteIds
<1>4. Below(localdb', nextId')
  <2>1. nextId <= nextId /\ Below(localdb, nextId)
    BY <1>2 DEF IdsInv
  <2> QED
    BY <1>1, <1>2, <1>3, <2>1, FromBelow
<1>5. PlanIds'
  <2>1. CASE Plain /\ NoBrings(Tail(plan))
    BY <1>1, <1>3, <2>1 DEF PlanIds, Plain
  <2>2. CASE Replacing /\ Tail(plan) \in {<<AppendRemote>>, <<AppendUnclean>>}
    <3>1. Bringing'
      BY <1>1, <1>3, <2>2 DEF Replacing, Bringing
    <3> QED
      BY <3>1 DEF PlanIds
  <2>3. CASE Doubled /\ Tail(plan) = <<>>
    <3>1. localdb' = Without(localdb, li)
      BY <1>1, <2>3 DEF Doubled, DeleteRecordByID
    <3> QED
      BY <1>1, <2>3, <3>1, OthersGoOn DEF PlanIds, Plain, Doubled
  <2>4. DeleteLocal \notin BringSteps \cup {ClearLocal, ArchiveLocal, UploadAsNew, InsertRemote}
    BY StepNames DEF BringSteps
  <2> QED
    BY <1>1, <2>1, <2>2, <2>3, <2>4, AtStepIds
<1> QED
  BY <1>1, <1>4, <1>5, NoCallIds, PlanStepIds DEF IdsInv

(* DlpDeleteRecord, however it ends.                                       *)
LEMMA DoDeleteRemoteIds == ASSUME Inductive, IdsInv, DoDeleteRemote PROVE IdsInv'
<1>1. /\ plan # <<>> /\ Head(plan) = DeleteRemote
      /\ UNCHANGED <<nextId, backup, localdb, remotedb, rem, li>>
      /\ Remove(rem.id) \/ UNCHANGED palm
      /\ plan' = Tail(plan) \/ plan' = <<>>
  BY DEF DoDeleteRemote, Step, NextStep, GiveUp, fileVars, Refused, NotWritable, Lost
<1>2. palm \in Seq(Record) /\ nextId \in Nat /\ localdb \in Seq(Record) /\ remotedb \in Seq(Record)
      /\ rem.id \in Nat
  BY DEF Inductive, TypeOK, Record
<1>3. PalmKept
  BY <1>1, <1>2, PalmCallIds DEF IdsInv
<1>4. Head(plan) \notin BringSteps \cup {DeleteLocal} /\ Head(plan) # UploadAsNew
  BY <1>1, StepNames
<1>5. From(remotedb, remotedb)
  BY DEF From
<1> QED
  BY <1>1, <1>2, <1>3, <1>4, <1>5, QuietStepIds

(* The same, with localrec unlinked when the Palm agrees.                  *)
LEMMA DoPurgeLocalIds == ASSUME Inductive, IdsInv, DoPurgeLocal PROVE IdsInv'
<1>1. PICK id : id = localdb[li].id
  OBVIOUS
<1>2. /\ plan # <<>> /\ Head(plan) = PurgeLocal /\ UNCHANGED <<nextId, backup, remotedb, rem>>
      /\ Remove(id) \/ UNCHANGED palm
      /\ \/ plan' = Tail(plan) /\ localdb' = DeleteRecordByID(localdb, id)
         \/ (plan' = Tail(plan) \/ plan' = <<>>) /\ UNCHANGED <<localdb, li>>
  BY <1>1 DEF DoPurgeLocal, Step, NextStep, GiveUp, Unlink, fileVars, Refused, NotWritable, Lost
<1>3. /\ palm \in Seq(Record) /\ nextId \in Nat /\ localdb \in Seq(Record) /\ remotedb \in Seq(Record)
      /\ localdb' \in Seq(Record) /\ id \in Nat
  BY <1>1, <1>2, AtStep, DoPurgeLocalInductive DEF Inductive, TypeOK, LocalrecSteps
<1>4. PalmKept
  BY <1>2, <1>3, PalmCallIds DEF IdsInv
<1>5. PurgeLocal \notin BringSteps \cup {DeleteLocal, UploadAsNew, InsertRemote, ClearLocal, ArchiveLocal}
  BY StepNames
<1>6. Plain /\ NoBrings(Tail(plan))
  BY <1>2, <1>5, AtStepIds
<1>7. From(localdb', localdb) /\ Distinct(localdb')
  <2>1. CASE localdb' = DeleteRecordByID(localdb, id)
    BY <1>3, <1>6, <2>1, DeleteIds DEF Plain
  <2>2. CASE UNCHANGED localdb
    BY <1>6, <2>2 DEF Plain, From
  <2> QED
    BY <1>2, <2>1, <2>2
<1>8. Below(localdb', nextId')
  <2>1. nextId <= nextId /\ Below(localdb, nextId)
    BY <1>3 DEF IdsInv
  <2> QED
    BY <1>2, <1>3, <1>7, <2>1, FromBelow
<1>9. PlanIds'
  BY <1>2, <1>6, <1>7, OthersGoOn DEF PlanIds, Plain
<1> QED
  BY <1>2, <1>4, <1>8, <1>9, PlanStepIds DEF IdsInv

(* DlpWriteRecord.  The record keeps its ID, or gets the one just assigned *)
(* on both sides; if it was given up to make room for another record with  *)
(* its old ID, no record has that ID any more.                             *)
LEMMA DoUploadIds == ASSUME Inductive, IdsInv, DoUpload PROVE IdsInv'
<1>1. /\ plan # <<>> /\ Head(plan) \in {UploadLocal, UploadAsNew}
      /\ UNCHANGED <<backup, remotedb, rem, li>>
  BY DEF DoUpload, Step, fileVars
<1>2. /\ palm \in Seq(Record) /\ nextId \in Nat /\ localdb \in Seq(Record) /\ remotedb \in Seq(Record)
      /\ rem.id \in Nat /\ rem.id < nextId
  BY DEF Inductive, TypeOK, IdsInv, Record
<1>3. li \in 1 .. Len(localdb) /\ localdb[li].id \in Nat /\ localdb[li].data \in Nat /\ DOMAIN localdb = 1 .. Len(localdb)
  BY <1>1, <1>2, AtStep, LenProperties DEF LocalrecSteps
<1>4. PICK data \in Nat : data = localdb[li].data
  BY <1>3
<1>5. PICK id \in Nat : /\ Upload(id) /\ id < nextId
                        /\ \/ Head(plan) = UploadLocal /\ id = localdb[li].id
                           \/ Head(plan) = UploadAsNew /\ id = 0
  BY <1>2, <1>3 DEF DoUpload, Step, IdsInv, Below
<1>6. Distinct(localdb) /\ Head(plan) \notin BringSteps \cup {DeleteLocal}
  BY <1>1, AtStepIds, StepNames
<1>7. ASSUME NEW newID \in Nat, Store(id, data, newID)
      PROVE  PalmKept /\ ((newID = id /\ id # 0) \/ (newID = nextId /\ nextId' = nextId + 1))
  BY <1>2, <1>5, <1>7, StoreIds DEF IdsInv
<1>8. CASE UNCHANGED localdb /\ plan' = <<>>
  <2>1. (\E newID \in {id, nextId} : Store(id, data, newID)) \/ UNCHANGED <<palm, nextId>>
    BY <1>4, <1>5, <1>8 DEF Upload, Refused, NotWritable, Lost, Stored
  <2>2. PalmKept
    BY <1>2, <1>7, <2>1, NoCallIds
  <2>3. From(remotedb, remotedb)
    BY DEF From
  <2> QED
    BY <1>1, <1>2, <1>6, <1>8, <2>2, <2>3, QuietStepIds
<1>9. ASSUME NEW newID \in {id, nextId}, Store(id, data, newID), plan' = Tail(plan),
             localdb' = [localdb EXCEPT ![li].id = newID]
      PROVE  IdsInv'
  <2>1. /\ newID \in Nat /\ PalmKept /\ nextId' \in Nat /\ nextId <= nextId' /\ newID < nextId'
        /\ (newID = id /\ id # 0) \/ newID = nextId
    BY <1>2, <1>5, <1>7, <1>9 DEF PalmKept
  <2>2. newID = localdb[li].id \/ Lacks(localdb, newID)
    BY <1>2, <1>5, <2>1 DEF IdsInv, Below, Lacks
  <2>3. DOMAIN localdb' = DOMAIN localdb /\ \A j \in DOMAIN localdb : localdb[j] \in Record
    BY <1>2, <1>9, LenProperties, ElementOfSeq
  <2>4. \A j \in DOMAIN localdb : localdb'[j].id = IF j = li THEN newID ELSE localdb[j].id
    BY <1>9, <2>3 DEF Record
  <2>5. Distinct(localdb')
    BY <1>6, <2>2, <2>3, <2>4 DEF Distinct, Lacks
  <2>6. Below(localdb', nextId')
    <3>1. Below(localdb, nextId')
      BY <1>2, <2>1, SameBelow DEF IdsInv
    <3> QED
      BY <2>1, <2>3, <2>4, <3>1 DEF Below
  <2>7. Assigned(remotedb', nextId')
    BY <1>1, <1>2, <2>1, SameBelow DEF IdsInv
  <2>8. PlanIds'
    <3>1. CASE NoBrings(Tail(plan))
      BY <1>9, <2>5, <3>1 DEF PlanIds, Plain
    <3>2. CASE Replacing /\ Head(plan) = UploadAsNew /\ Tail(plan) = <<InsertRemote>>
      <4>1. id = 0 /\ newID = nextId
        <5>1. UploadLocal # UploadAsNew
          BY StepNames
        <5> QED
          BY <1>5, <2>1, <3>2, <5>1
      <4>2. localdb[li].id = rem.id /\ rem.id # 0 /\ newID # rem.id
        BY <1>2, <3>2, <4>1 DEF Replacing
      <4>3. Lacks(localdb', rem.id)
        BY <1>3, <1>6, <2>3, <2>4, <4>2 DEF Distinct, Lacks
      <4>4. Bringing'
        BY <1>1, <1>9, <2>5, <3>2, <4>3 DEF Bringing
      <4> QED
        BY <4>4 DEF PlanIds
    <3>3. /\ {UploadLocal, UploadAsNew} \cap (BringSteps \cup {ClearLocal, ArchiveLocal, DeleteLocal}) = {}
          /\ InsertRemote \in BringSteps
      BY StepNames DEF BringSteps
    <3> QED
      BY <1>1, <3>1, <3>2, <3>3, AtStepIds
  <2> QED
    BY <1>1, <2>1, <2>6, <2>7, <2>8, PlanStepIds
<1> QED
  BY <1>4, <1>5, <1>8, <1>9 DEF Upload, NextStep, GiveUp

-----------------------------------------------------------------------------
(* The backup file takes over the list, which no plan has left unfinished. *)
LEMMA WriteBackupIds == ASSUME Inductive, IdsInv, WriteBackup PROVE IdsInv'
<1>1. /\ TypeOK /\ plan = <<>> /\ host \in Hosts /\ nextId \in Nat
      /\ UNCHANGED <<palm, nextId, localdb, remotedb, rem, plan, li>>
  BY DEF Inductive, TypeOK, SessionInv, WriteBackup, palmVars, workVars
<1>2. backup' = [backup EXCEPT ![host] = localdb] \/ UNCHANGED backup
  BY DEF WriteBackup
<1>3. Distinct(localdb) /\ Below(localdb, nextId) /\ PalmKept
  BY <1>1, NoPlanIds, NoCallIds DEF IdsInv
<1>4. FileIds'
  BY <1>1, <1>2, <1>3 DEF TypeOK, IdsInv, FileIds
<1> QED
  BY <1>1, <1>3, <1>4, WorkIds

(* DlpCleanUpDatabase and DlpResetSyncFlags, however they end.             *)
LEMMA FlagCallsIds == ASSUME Inductive, IdsInv, CleanUpDatabase \/ ResetSyncFlags PROVE IdsInv'
<1>1. /\ TypeOK /\ palm \in Seq(Record) /\ nextId \in Nat
      /\ UNCHANGED <<nextId, backup, localdb, remotedb, rem, plan, li>>
      /\ CleanUp \/ ResetFlags \/ UNCHANGED palm
  BY DEF Inductive, TypeOK, CleanUpDatabase, ResetSyncFlags, Refused, NotWritable, Lost, workVars, fileVars
<1>2. PalmKept
  BY <1>1, PalmCallIds DEF IdsInv
<1> QED
  BY <1>1, <1>2, FileIdsKept, WorkIds

(* At the start each record has an ID of its own.                          *)
LEMMA InitIds == Init => IdsInv
<1> SUFFICES ASSUME Init PROVE IdsInv
  OBVIOUS
<1> DEFINE marks == IF InitSynced = {} THEN {DIRTY} ELSE {}
           records == [i \in 1 .. InitRecords |-> Rec(i, marks, i)]
<1>1. /\ palm = records /\ backup = [h \in Hosts |-> IF h \in InitSynced THEN records ELSE NoFile]
      /\ nextId = InitRecords + 1 /\ InitRecords \in Nat
  BY ConstantsAssumption DEF Init
<1>2. DOMAIN records = 1 .. InitRecords /\ \A i \in 1 .. InitRecords : records[i].id = i
  BY DEF Rec
<1> HIDE DEF records
<1>3. Distinct(records) /\ Assigned(records, nextId) /\ Below(records, nextId)
  BY <1>1, <1>2 DEF Distinct, Assigned, Below
<1>4. PalmIds /\ FileIds
  BY <1>1, <1>3 DEF PalmIds, FileIds
<1>5. localdb = <<>> /\ remotedb = <<>> /\ plan = <<>> /\ rem.id = 0
  BY DEF Init, NoRec, Rec
<1>6. Plain /\ Below(localdb, nextId) /\ Assigned(remotedb, nextId)
  BY <1>5, EmptyIds, OthersGoOn DEF Plain
<1> QED
  BY <1>1, <1>4, <1>5, <1>6 DEF IdsInv, PlanIds

(* Every step keeps what holds of the IDs.                                 *)
LEMMA NextIds == ASSUME Inductive, IdsInv, [Next]_vars PROVE IdsInv'
<1>1. CASE UserStep
  BY <1>1, UserStepIds
<1>2. CASE \/ \E h \in Hosts : StartSync(h)
           \/ Cancel \/ Crash \/ UpdateUserInfo \/ OpenFails \/ ReadFails \/ RemoteDone \/ LocalDone
  BY <1>2, SessionStepIds
<1>3. CASE Open \/ NextRemoteSlow \/ NextRemoteFast \/ NextLocal
  BY <1>3, OpenIds, NextRemoteIds, NextLocalIds
<1>4. CASE SyncRecordStep
  BY <1>4, QuietStepsIds, DoDeleteLocalIds, DoAppendRemoteIds, DoInsertRemoteIds, DoDeleteRemoteIds,
     DoPurgeLocalIds, DoUploadIds DEF SyncRecordStep
<1>5. CASE WriteBackup \/ CleanUpDatabase \/ ResetSyncFlags
  BY <1>5, WriteBackupIds, FlagCallsIds
<1>6. CASE UNCHANGED vars
  <2>1. UNCHANGED <<palm, nextId, backup, localdb, remotedb, rem, plan, li>>
    BY <1>6 DEF vars, palmVars, fileVars, workVars
  <2> QED
    BY <2>1 DEF IdsInv, PalmIds, FileIds, PlanIds, Plain, Replacing, Bringing, Doubled
<1> QED
  BY <1>1, <1>2, <1>3, <1>4, <1>5, <1>6 DEF Next, SyncStep

(* The Palm's IDs are distinct and have been given out, those in the files *)
(* and lists of a workstation are the Palm's or 0, and only a plan that is *)
(* about to unlink the old version of a record finds its ID there twice.   *)
THEOREM IdsInvariant == Spec => []IdsInv
<1>1. Inductive /\ IdsInv /\ [Next]_vars => IdsInv'
  BY NextIds
<1> QED
  BY <1>1, InitIds, InductiveInvariant, PTL DEF Spec

(* No backup file ever holds two records with one ID that the Palm has     *)
(* assigned, wherever syncs are cut off, refused or fail: libpdb itself    *)
(* does not look, but when the next sync reads the file, the first record  *)
(* with an ID that pdb_FindRecordByID returns is the only one.             *)
THEOREM NoIdTwice == Spec => []UniqueIds
<1>1. IdsInv => UniqueIds
  BY DEF IdsInv, FileIds, UniqueIds, Distinct
<1> QED
  BY <1>1, IdsInvariant, PTL

-----------------------------------------------------------------------------
(* No edit is lost while nothing fails.  This takes applications that set  *)
(* the status bits as the manual says, no -FF, and a Palm that has not the *)
(* database open: with an open one, uploads are refused and SlowSync does  *)
(* not look; with -FF, the flags are trusted when they cannot be.          *)
OrdinaryUse ==
    /\ \A marks \in WriteMarks : marks \subseteq {DIRTY}
    /\ \A marks \in ArchiveMarks : {DELETED, ARCHIVE} \subseteq marks /\ EXPUNGED \notin marks
    /\ \A marks \in ExpungeMarks : EXPUNGED \in marks /\ ARCHIVE \notin marks
    /\ "fast" \notin Forced /\ TRUE \notin OpenOnPalm

Recs(db) == {db[i] : i \in DOMAIN db}
Newest   == InitRecords + edits

(* Nobody misses this content: replaced, expunged or in an archive file.   *)
Settled(d) == d \notin wanted \/ \E h \in Hosts : d \in archive[h]

(* This record's content is on the Palm, under the same ID.                *)
OnPalm(r) == \E p \in Recs(palm) : p.id = r.id /\ p.data = r.data
Good(r)   == Settled(r.data) \/ OnPalm(r)

(* The record p of the Palm may be overwritten with r.                     *)
Agree(p, r) == p.id = r.id => p.data = r.data \/ Settled(p.data)

(* A record as ordinary use leaves it.                                     *)
Decent(r) ==
    /\ r.data <= Newest
    /\ \/ r.flags \subseteq {DIRTY}
       \/ {DELETED, ARCHIVE} \subseteq r.flags /\ EXPUNGED \notin r.flags
       \/ EXPUNGED \in r.flags /\ ARCHIVE \notin r.flags /\ r.data \notin wanted

ListsDecent ==
    /\ \A r \in Recs(palm) \cup Recs(localdb) \cup Recs(remotedb) : Decent(r)
    /\ Decent(rem)
    /\ \A h \in Hosts : backup[h] # NoFile => \A r \in Recs(backup[h]) : Decent(r)
    /\ wanted \subseteq 1 .. Newest

(* Every content has a place, and what is clean in a file is on the Palm.  *)
InPlace(d) ==
    \/ Settled(d)
    \/ \E p \in Recs(palm) : p.data = d
    \/ \E h \in Hosts : backup[h] # NoFile /\ \E r \in Recs(backup[h]) : r.data = d
AllInPlace == \A d \in wanted : InPlace(d)
FilesGood  == \A h \in Hosts : backup[h] # NoFile =>
                  \A r \in Recs(backup[h]) : r.flags = {} => Good(r)

(* Between syncs: what the next fast sync will rely on.                    *)
Trust(h) == backup[h] # NoFile =>
                \A p \in Recs(palm), r \in Recs(backup[h]) : p.flags = {} => Agree(p, r)

(* What is clean on both sides is the same on both, and is on both.        *)
Paired(h) == backup[h] # NoFile =>
    /\ \A p \in Recs(palm) : p.flags = {} => \E r \in Recs(backup[h]) : r.id = p.id
    /\ \A r \in Recs(backup[h]) : r.flags = {} =>
           \E p \in Recs(palm) : p.id = r.id /\ (p.flags = {} => p.data = r.data)

BetweenSyncs ==
    /\ lastSyncPC \in Hosts => Trust(lastSyncPC)
    /\ plan = <<>> /\ seen = {} /\ li = 0
    /\ pc = "open" => /\ mode = "fast" => host = lastSyncPC
                      /\ mode = "first" => backup[host] = NoFile

(* In a sync: the contents of the old backup file.                         *)
Covered(d) ==
    \/ Settled(d)
    \/ \E r \in Recs(localdb) : r.data = d
    \/ \E p \in Recs(palm) : p.data = d
OldCovered == backup[host] # NoFile => \A r \in Recs(backup[host]) : Covered(r.data)

(* The clean records of the list, but for localrec while it is worked on.  *)
LocalGood ==
    \A j \in DOMAIN localdb :
        localdb[j].flags = {} /\ (j # li \/ plan = <<>>) => Good(localdb[j])

(* The sync is through with a record of the Palm.                          *)
AgreesAll(p) == \A r \in Recs(localdb) : Agree(p, r)
Finished(p)  == AgreesAll(p) /\ (~ IsLive(p) => Settled(p.data))
Reached(p) ==
    IF mode = "slow" THEN ~ \E r \in Recs(remotedb) : r.id = p.id /\ r.id \notin seen
    ELSE p.flags = {} \/ p.id \in seen

Localrec == localdb[li]
Ours     == li \in DOMAIN localdb /\ localdb[li].id = rem.id
OnHand   == \E p \in Recs(palm) : p.id = rem.id /\ p.data = rem.data /\ (IsLive(rem) => IsLive(p))
Parted   == \A p \in Recs(palm) : p.id = rem.id => Settled(p.data)
Fresh    == OnHand /\ rem.flags \subseteq {DIRTY}
Twin     == Ours /\ Localrec.data = rem.data
Takes    == Ours /\ \A p \in Recs(palm) : Agree(p, Localrec)
Alone    == li = 0 /\ Lacks(localdb, rem.id)

AtArchiveLocal ==
    \/ plan = <<ArchiveLocal, ArchiveRemote, DeleteRemote, DeleteLocal>> /\ Ours /\ OnHand
    \/ plan = <<ArchiveLocal, DeleteRemote, DeleteLocal>> /\ Twin /\ OnHand
    \/ plan = <<ArchiveLocal, DeleteLocal>> /\ Ours /\ Parted
    \/ plan = <<ArchiveLocal, DeleteLocal, AppendUnclean>> /\ Ours /\ Fresh
    \/ plan = <<ArchiveLocal, DeleteLocal, DeleteRemote>> /\ Twin /\ OnHand
AtArchiveRemote ==
    \/ plan = <<ArchiveRemote, DeleteRemote, DeleteLocal>> /\ Ours /\ OnHand /\ Settled(Localrec.data)
    \/ plan = <<ArchiveRemote, ClearLocal, UploadLocal>> /\ Ours /\ OnHand
    \/ plan = <<ArchiveRemote, DeleteLocal>> /\ Ours /\ OnHand /\ Good(Localrec)
    \/ plan = <<ArchiveRemote>> /\ OnHand /\ Alone
AtClearLocal ==
    \/ plan = <<ClearLocal, UploadLocal>> /\ Takes
    \/ plan = <<ClearLocal, ArchiveLocal, DeleteLocal>> /\ Ours /\ Parted
    \/ plan = <<ClearLocal, ArchiveLocal, DeleteLocal, AppendUnclean>> /\ Ours /\ Fresh
    \/ plan = <<ClearLocal, UploadAsNew, InsertRemote>> /\ Ours /\ Fresh
    \/ plan = <<ClearLocal, ArchiveLocal, DeleteLocal, DeleteRemote>> /\ Twin /\ OnHand
    \/ plan = <<ClearLocal>> /\ Twin /\ Fresh
AtDeleteLocal ==
    \/ plan = <<DeleteLocal>> /\ Ours /\ Parted /\ Good(Localrec)
    \/ /\ plan = <<DeleteLocal>> /\ Ours /\ Fresh /\ Good(Localrec)
       /\ \A j \in DOMAIN localdb : j # li /\ localdb[j].id = rem.id => localdb[j].data = rem.data
    \/ plan = <<DeleteLocal, AppendUnclean>> /\ Ours /\ Fresh /\ Settled(Localrec.data)
    \/ plan = <<DeleteLocal, AppendRemote>> /\ Ours /\ Fresh /\ Settled(Localrec.data)
    \/ plan = <<DeleteLocal, DeleteRemote>> /\ Ours /\ Parted /\ Settled(Localrec.data)
AtDeleteRemote ==
    \/ plan = <<DeleteRemote, DeleteLocal>> /\ Ours /\ Parted /\ Settled(Localrec.data)
    \/ plan = <<DeleteRemote, ClearLocal, UploadLocal>> /\ Ours /\ Parted
    \/ plan = <<DeleteRemote>> /\ Parted /\ Alone
AtUpload ==
    \/ plan = <<UploadLocal>> /\ Takes
    \/ plan = <<UploadAsNew, InsertRemote>> /\ Ours /\ Fresh
AtBring ==
    \/ plan = <<AppendRemote>> /\ Fresh /\ Alone
    \/ plan = <<AppendUnclean>> /\ Fresh /\ Alone
    \/ plan = <<InsertRemote>> /\ Fresh /\ Good(Localrec) /\ Lacks(localdb, rem.id)
    \/ plan = <<InsertRemote, DeleteLocal>> /\ Ours /\ Fresh /\ Good(Localrec)
AtDrop == plan = <<DropRemote>> /\ Parted /\ Alone

RemotePlan ==
    \/ AtArchiveLocal \/ AtArchiveRemote \/ AtClearLocal \/ AtDeleteLocal
    \/ AtDeleteRemote \/ AtUpload \/ AtBring \/ AtDrop

FirstPhase ==
    /\ mode \in {"slow", "fast"} /\ OldCovered /\ LocalGood
    /\ \A p \in Recs(palm) : Reached(p) => Finished(p) \/ (plan # <<>> /\ p.id = rem.id)
    /\ mode = "slow" => \A r \in Recs(remotedb) : r.id \notin seen => r \in Recs(palm)
    /\ plan # <<>> => RemotePlan /\ rem.id \in seen /\ rem.id # 0

LocalPlans ==
    \/ plan \in {<<>>, <<ClearLocal, ArchiveLocal>>, <<ArchiveLocal>>}
    \/ plan = <<DeleteLocal>> /\ Settled(Localrec.data)
    \/ plan = <<ClearLocal>> /\ mode = "first"
    \/ plan \in {<<ClearLocal, UploadLocal>>, <<UploadLocal>>, <<ArchiveLocal, DeleteLocal>>} /\ mode # "first"
    \/ plan \in {<<ClearLocal, ArchiveLocal, PurgeLocal>>, <<ArchiveLocal, PurgeLocal>>} /\ mode # "first"
    \/ plan = <<PurgeLocal>> /\ mode # "first" /\ Settled(Localrec.data)

(* FirstSync has still to archive this record.                             *)
ToCome(p) ==
    /\ mode = "first"
    /\ \/ \E j \in DOMAIN localdb : j > li /\ localdb[j] = p
       \/ /\ plan \in {<<ClearLocal, ArchiveLocal>>, <<ArchiveLocal>>}
          /\ li \in DOMAIN localdb /\ Localrec.data = p.data

SecondPhase ==
    /\ OldCovered /\ LocalGood /\ LocalPlans
    /\ \A p \in Recs(palm) : AgreesAll(p) /\ (~ IsLive(p) => Settled(p.data) \/ ToCome(p))
    /\ mode = "first" => backup[host] = NoFile /\ \A r \in Recs(localdb) : OnPalm(r)
    /\ \A j \in DOMAIN localdb : (j < li \/ (j = li /\ plan = <<>>)) /\ localdb[j].id = 0
           => Settled(localdb[j].data)

Writing ==
    /\ OldCovered /\ LocalGood
    /\ \A p \in Recs(palm) : Finished(p)

FileAgrees  == /\ backup[host] # NoFile
               /\ \A p \in Recs(palm), r \in Recs(backup[host]) : Agree(p, r)
DeadSettled == \A p \in Recs(palm) : ~ IsLive(p) => Settled(p.data)

Edits ==
    /\ ListsDecent /\ AllInPlace /\ FilesGood
    /\ pc # "idle" => online /\ ~opened
    /\ pc \in {"idle", "open"} => BetweenSyncs
    /\ pc = "remote" => FirstPhase
    /\ pc = "local" => SecondPhase
    /\ pc = "write" => Writing
    /\ pc = "cleanup" => FileAgrees /\ DeadSettled
    /\ pc \in {"reset", "userinfo"} => FileAgrees

EditsInv == faults = 0 => Edits

-----------------------------------------------------------------------------
(* What the operations on a list do to the set of its records.             *)

(* A list by its positions.                                                *)
LEMMA ListFacts ==
    ASSUME NEW db \in Seq(Record)
    PROVE  /\ Len(db) \in Nat /\ DOMAIN db = 1 .. Len(db)
           /\ \A j \in DOMAIN db : db[j] \in Record /\ db[j] \in Recs(db)
           /\ \A r \in Recs(db) : r \in Record /\ \E j \in DOMAIN db : db[j] = r
<1>1. Len(db) \in Nat /\ DOMAIN db = 1 .. Len(db) /\ \A j \in 1 .. Len(db) : db[j] \in Record
  BY LenProperties, ElementOfSeq
<1> QED
  BY <1>1 DEF Recs

(* The fields of a record.                                                 *)
LEMMA RecordFacts ==
    ASSUME NEW r \in Record
    PROVE  r.id \in Nat /\ r.data \in Nat /\ r.flags \subseteq Flags
  BY DEF Record

(* Unlinking the k-th record: the others move up.                          *)
LEMMA WithoutRecs ==
    ASSUME NEW db \in Seq(Record), NEW k \in DOMAIN db
    PROVE  LET w == Without(db, k) IN
           /\ \A j \in DOMAIN w : \/ j < k /\ j \in DOMAIN db \ {k} /\ w[j] = db[j]
                                  \/ j >= k /\ j + 1 \in DOMAIN db \ {k} /\ w[j] = db[j + 1]
           /\ \A j \in DOMAIN db \ {k} : \/ j < k /\ j \in DOMAIN w /\ w[j] = db[j]
                                         \/ j > k /\ j - 1 \in DOMAIN w /\ w[j - 1] = db[j]
<1>1. PICK n \in Nat : n = Len(db) /\ DOMAIN db = 1 .. n /\ k \in 1 .. n
  BY ListFacts
<1>2. PICK w : w = Without(db, k)
  OBVIOUS
<1>3. /\ DOMAIN w = 1 .. (n - 1)
      /\ \A j \in 1 .. (n - 1) : w[j] = IF j < k THEN db[j] ELSE db[j + 1]
  <2>1. w \in Seq(Record) /\ Len(w) = n - 1
    BY <1>1, <1>2, WithoutProperties
  <2>2. \A j \in 1 .. (n - 1) : w[j] = IF j < k THEN db[j] ELSE db[j + 1]
    BY <1>1, <1>2, WithoutProperties
  <2> QED
    BY <2>1, <2>2, ListFacts
<1>4. ASSUME NEW j \in 1 .. (n - 1)
      PROVE  \/ j < k /\ j \in (1 .. n) \ {k} /\ w[j] = db[j]
             \/ j >= k /\ j + 1 \in (1 .. n) \ {k} /\ w[j] = db[j + 1]
  BY <1>1, <1>3
<1>5. ASSUME NEW j \in (1 .. n) \ {k}
      PROVE  \/ j < k /\ j \in 1 .. (n - 1) /\ w[j] = db[j]
             \/ j > k /\ j - 1 \in 1 .. (n - 1) /\ w[j - 1] = db[j]
  <2>1. CASE j < k
    BY <1>1, <1>3, <2>1
  <2>2. CASE j > k
    <3>1. j - 1 \in 1 .. (n - 1) /\ ~ (j - 1 < k) /\ (j - 1) + 1 = j
      BY <1>1, <2>2
    <3>2. w[j - 1] = db[(j - 1) + 1]
      BY <1>3, <3>1
    <3> QED
      BY <2>2, <3>1, <3>2
  <2> QED
    BY <1>1, <2>1, <2>2
<1> QED
  BY <1>1, <1>2, <1>3, <1>4, <1>5

(* The record that pdb_DeleteRecordByID unlinks: the first with this ID.   *)
LEMMA FindFacts ==
    ASSUME NEW db \in Seq(Record), NEW id \in Nat
    PROVE  LET k == FindRecordByID(db, id) IN
           /\ k = 0 => Lacks(db, id) /\ DeleteRecordByID(db, id) = db
           /\ k # 0 => /\ k \in DOMAIN db /\ db[k].id = id
                       /\ \A j \in DOMAIN db : db[j].id = id => k <= j
                       /\ DeleteRecordByID(db, id) = Without(db, k)
<1>1. PICK k : k = FindRecordByID(db, id)
  OBVIOUS
<1>2. PICK n \in Nat : n = Len(db) /\ DOMAIN db = 1 .. n
  BY ListFacts
<1>3. /\ k \in 0 .. n
      /\ k = 0 => \A j \in 1 .. n : db[j].id # id
      /\ k # 0 => db[k].id = id /\ \A j \in 1 .. (k - 1) : db[j].id # id
  BY <1>1, <1>2, FindRecordByIDCorrect
<1>4. DeleteRecordByID(db, id) = Without(db, k) /\ Without(db, 0) = db
  BY <1>1 DEF DeleteRecordByID, Without
<1>5. k # 0 => \A j \in 1 .. n : db[j].id = id => k <= j
  BY <1>2, <1>3
<1>6. k = 0 => Lacks(db, id)
  BY <1>2, <1>3 DEF Lacks
<1> QED
  BY <1>1, <1>2, <1>3, <1>4, <1>5, <1>6

(* DlpDeleteRecord removes the record with this ID and no other.           *)
LEMMA RemoveRecs ==
    ASSUME palm \in Seq(Record), PalmIds, NEW id \in Nat, Remove(id)
    PROVE  Recs(palm') = {p \in Recs(palm) : p.id # id}
<1>1. PICK k : k = FindRecordByID(palm, id)
  OBVIOUS
<1>2. /\ k = 0 => Lacks(palm, id) /\ palm' = palm
      /\ k # 0 => k \in DOMAIN palm /\ palm[k].id = id /\ palm' = Without(palm, k)
  BY <1>1, FindFacts DEF Remove
<1>3. CASE k = 0
  BY <1>2, <1>3 DEF Lacks, Recs
<1>4. CASE k # 0
  <2>1. k \in DOMAIN palm /\ palm[k].id = id /\ palm' = Without(palm, k)
    BY <1>2, <1>4
  <2>2. \A j \in DOMAIN palm \ {k} : palm[j].id # id
    <3>1. palm[k].id # 0
      BY <2>1 DEF PalmIds, Assigned
    <3> QED
      BY <2>1, <3>1 DEF PalmIds, Distinct
  <2>3. /\ \A j \in DOMAIN palm' : \E i \in DOMAIN palm \ {k} : palm'[j] = palm[i]
        /\ \A i \in DOMAIN palm \ {k} : \E j \in DOMAIN palm' : palm'[j] = palm[i]
    BY <2>1, WithoutRecs
  <2> QED
    BY <2>1, <2>2, <2>3 DEF Recs
<1> QED
  BY <1>3, <1>4

(* pdb_AppendRecord.                                                       *)
LEMMA AppendRecs ==
    ASSUME NEW db \in Seq(Record), NEW r \in Record
    PROVE  LET a == Append(db, r) IN
           /\ Recs(a) = Recs(db) \cup {r}
           /\ \A j \in DOMAIN db : j \in DOMAIN a /\ a[j] = db[j]
           /\ \A j \in DOMAIN a : (j \in DOMAIN db /\ a[j] = db[j]) \/ (a[j] = r /\ j = Len(db) + 1)
<1>1. PICK a : a = Append(db, r)
  OBVIOUS
<1>2. PICK n \in Nat : n = Len(db) /\ DOMAIN db = 1 .. n
  BY ListFacts
<1>3. DOMAIN a = 1 .. (n + 1) /\ a[n + 1] = r /\ \A j \in 1 .. n : a[j] = db[j]
  BY <1>1, <1>2, AppendProperties, LenProperties
<1>4. \A j \in 1 .. (n + 1) : j \in 1 .. n \/ j = n + 1
  OBVIOUS
<1>5. \A j \in 1 .. n : j \in 1 .. (n + 1)
  OBVIOUS
<1>6. n + 1 \in 1 .. (n + 1)
  OBVIOUS
<1>7. Recs(a) = Recs(db) \cup {r}
  <2>1. \A x \in Recs(a) : x \in Recs(db) \cup {r}
    BY <1>2, <1>3, <1>4 DEF Recs
  <2>2. \A x \in Recs(db) : x \in Recs(a)
    BY <1>2, <1>3, <1>5 DEF Recs
  <2>3. r \in Recs(a)
    BY <1>3, <1>6 DEF Recs
  <2> QED
    BY <2>1, <2>2, <2>3
<1>8. \A j \in DOMAIN a : (j \in DOMAIN db /\ a[j] = db[j]) \/ (a[j] = r /\ j = n + 1)
  BY <1>2, <1>3, <1>4
<1> QED
  BY <1>1, <1>2, <1>3, <1>5, <1>7, <1>8

(* pdb_InsertRecord.                                                       *)
LEMMA InsertRecs ==
    ASSUME NEW db \in Seq(Record), NEW i \in DOMAIN db, NEW r \in Record
    PROVE  LET new == InsertRecord(db, i, r) IN
           /\ i \in DOMAIN new /\ new[i] = db[i]
           /\ \A j \in DOMAIN db : \E k \in DOMAIN new : new[k] = db[j]
           /\ \A j \in DOMAIN new : \/ j = i
                                    \/ new[j] = r
                                    \/ \E k \in DOMAIN db \ {i} : new[j] = db[k]
<1>1. PICK n \in Nat : n = Len(db) /\ DOMAIN db = 1 .. n /\ i \in 1 .. n
  BY ListFacts
<1>2. PICK new : new = InsertRecord(db, i, r)
  OBVIOUS
<1>3. /\ DOMAIN new = 1 .. (n + 1)
      /\ \A j \in 1 .. (n + 1) :
            new[j] = IF j <= i THEN db[j] ELSE IF j = i + 1 THEN r ELSE db[j - 1]
  BY <1>1, <1>2 DEF InsertRecord
<1>4. i \in DOMAIN new /\ new[i] = db[i]
  BY <1>1, <1>3
<1>5. ASSUME NEW j \in 1 .. n PROVE \E k \in 1 .. (n + 1) : new[k] = db[j]
  <2>1. CASE j <= i
    BY <1>1, <1>3, <2>1
  <2>2. CASE j > i
    <3>1. j + 1 \in 1 .. (n + 1) /\ ~ (j + 1 <= i) /\ j + 1 # i + 1 /\ (j + 1) - 1 = j
      BY <1>1, <2>2
    <3> QED
      BY <1>3, <3>1
  <2> QED
    BY <1>1, <2>1, <2>2
<1>6. ASSUME NEW j \in 1 .. (n + 1)
      PROVE  j = i \/ new[j] = r \/ \E k \in (1 .. n) \ {i} : new[j] = db[k]
  <2>1. CASE j < i
    <3>1. j \in (1 .. n) \ {i} /\ j <= i
      BY <1>1, <2>1
    <3> QED
      BY <1>3, <3>1
  <2>2. CASE j = i + 1
    <3>1. ~ (j <= i)
      BY <1>1, <2>2
    <3> QED
      BY <1>3, <2>2, <3>1
  <2>3. CASE j > i + 1
    <3>1. ~ (j <= i) /\ j # i + 1 /\ j - 1 \in (1 .. n) \ {i}
      BY <1>1, <2>3
    <3> QED
      BY <1>3, <3>1
  <2> QED
    BY <1>1, <2>1, <2>2, <2>3
<1>7. \A j \in DOMAIN db : \E k \in DOMAIN new : new[k] = db[j]
  BY <1>1, <1>3, <1>5
<1>8. \A j \in DOMAIN new : j = i \/ new[j] = r \/ \E k \in DOMAIN db \ {i} : new[j] = db[k]
  BY <1>1, <1>3, <1>6
<1> QED
  BY <1>2, <1>4, <1>7, <1>8

(* Changing the i-th record.                                               *)
LEMMA ChangeRecs ==
    ASSUME NEW db \in Seq(Record), NEW i \in DOMAIN db, NEW r \in Record
    PROVE  LET new == [db EXCEPT ![i] = r] IN
           /\ DOMAIN new = DOMAIN db /\ new[i] = r
           /\ \A j \in DOMAIN db : j # i => new[j] = db[j]
           /\ Recs(new) = {db[j] : j \in DOMAIN db \ {i}} \cup {r}
<1> DEFINE new == [db EXCEPT ![i] = r]
<1>1. DOMAIN new = DOMAIN db /\ new[i] = r /\ \A j \in DOMAIN db : j # i => new[j] = db[j]
  OBVIOUS
<1> HIDE DEF new
<1>2. Recs(new) = {db[j] : j \in DOMAIN db \ {i}} \cup {r}
  BY <1>1 DEF Recs
<1> QED
  BY <1>1, <1>2 DEF new

(* DlpWriteRecord, on a Palm that gives a written record no bit but        *)
(* `dirty': the new version takes the place of the old one, if there is    *)
(* one, and otherwise gets this ID or one that nobody has had.             *)
LEMMA StoreRecs ==
    ASSUME OrdinaryUse, palm \in Seq(Record), nextId \in Nat, PalmIds, NEW id \in Nat,
           NEW data \in Nat, NEW newID \in Nat, Store(id, data, newID)
    PROVE  \E q \in Record :
              /\ q.id = newID /\ q.data = data /\ q.flags \subseteq {DIRTY} /\ q.flags \in WriteMarks
              /\ Recs(palm') = {p \in Recs(palm) : p.id # newID} \cup {q}
              /\ newID = id \/ (newID = nextId /\ \A p \in Recs(palm) : p.id # id)
<1>1. PICK i : i = FindRecordByID(palm, id)
  OBVIOUS
<1>2. /\ i = 0 => Lacks(palm, id)
      /\ i # 0 => i \in DOMAIN palm /\ palm[i].id = id
  BY <1>1, FindFacts
<1>3. PICK marks \in WriteMarks :
        \/ i # 0 /\ newID = id /\ palm' = [palm EXCEPT ![i] = Rec(newID, marks, data)]
        \/ i = 0 /\ newID = id /\ palm' = Append(palm, Rec(newID, marks, data))
        \/ i = 0 /\ newID = nextId /\ palm' = Append(palm, Rec(newID, marks, data))
  BY <1>1 DEF Store, AppendRecord
<1>4. PICK q \in Record : /\ q = Rec(newID, marks, data)
                          /\ q.id = newID /\ q.data = data /\ q.flags \subseteq {DIRTY} /\ q.flags \in WriteMarks
  <2>1. marks \subseteq {DIRTY} /\ marks \in SUBSET Flags
    BY ConstantsAssumption DEF OrdinaryUse
  <2>2. Rec(newID, marks, data) \in Record
    BY <2>1 DEF Rec, Record
  <2> QED
    BY <2>1, <2>2 DEF Rec
<1>5. CASE i # 0 /\ newID = id /\ palm' = [palm EXCEPT ![i] = q]
  <2>1. i \in DOMAIN palm /\ palm[i].id = id /\ id # 0
    BY <1>2, <1>5 DEF PalmIds, Assigned
  <2>2. \A j \in DOMAIN palm \ {i} : palm[j].id # id
    BY <2>1 DEF PalmIds, Distinct
  <2>3. Recs(palm') = {palm[j] : j \in DOMAIN palm \ {i}} \cup {q}
    BY <1>5, <2>1, ChangeRecs
  <2>4. Recs(palm') = {p \in Recs(palm) : p.id # newID} \cup {q}
    BY <1>5, <2>1, <2>2, <2>3 DEF Recs
  <2> QED
    BY <1>4, <1>5, <2>4
<1>6. CASE i = 0 /\ palm' = Append(palm, q) /\ (newID = id \/ newID = nextId)
  <2>1. \A p \in Recs(palm) : p.id # id /\ p.id # nextId
    <3>1. \A j \in DOMAIN palm : palm[j].id # id
      BY <1>2, <1>6 DEF Lacks
    <3>2. \A j \in DOMAIN palm : palm[j].id # nextId
      BY DEF PalmIds, Assigned
    <3> QED
      BY <3>1, <3>2 DEF Recs
  <2>2. Recs(palm') = Recs(palm) \cup {q}
    BY <1>6, AppendRecs
  <2>3. Recs(palm') = {p \in Recs(palm) : p.id # newID} \cup {q}
    BY <1>6, <2>1, <2>2
  <2> QED
    BY <1>4, <1>6, <2>1, <2>3
<1> QED
  BY <1>3, <1>4, <1>5, <1>6

(* Every member of a finite set of positions has a rank.                   *)
LEMMA NthReaches ==
    ASSUME NEW n \in Nat, NEW S \in SUBSET (1 .. n), NEW i \in S
    PROVE  \E k \in 1 .. Cardinality(S) : Nth(S, k) = i
<1> DEFINE upto(m) == S \cap (1 .. m)
<1>1. IsFiniteSet(S) /\ \A m \in Nat : IsFiniteSet(upto(m)) /\ Cardinality(upto(m)) \in Nat
  <2>1. IsFiniteSet(1 .. n)
    BY FS_Interval
  <2>2. \A m \in Nat : upto(m) \subseteq 1 .. n
    OBVIOUS
  <2> HIDE DEF upto
  <2>3. IsFiniteSet(S) /\ \A m \in Nat : IsFiniteSet(upto(m))
    BY <2>1, <2>2, FS_Subset
  <2> QED
    BY <2>3, FS_CardinalityType
<1>2. i \in Nat /\ i \in upto(i) /\ upto(i) \subseteq S
  OBVIOUS
<1>3. \A a, b \in S : a < b => Cardinality(upto(a)) < Cardinality(upto(b))
  <2> SUFFICES ASSUME NEW a \in S, NEW b \in S, a < b
               PROVE  Cardinality(upto(a)) < Cardinality(upto(b))
    OBVIOUS
  <2>1. a \in Nat /\ b \in Nat
    OBVIOUS
  <2>2. upto(a) \cup {b} \subseteq upto(b) /\ b \notin upto(a)
    BY <2>1
  <2> HIDE DEF upto
  <2>3. Cardinality(upto(a) \cup {b}) = Cardinality(upto(a)) + 1
    BY <1>1, <2>1, <2>2, FS_AddElement
  <2>4. Cardinality(upto(a) \cup {b}) <= Cardinality(upto(b))
    BY <1>1, <2>1, <2>2, FS_Subset
  <2> QED
    BY <1>1, <2>1, <2>3, <2>4
<1>4. Cardinality(upto(i)) \in 1 .. Cardinality(S)
  <2> HIDE DEF upto
  <2>1. Cardinality(upto(i)) <= Cardinality(S) /\ Cardinality(S) \in Nat
    BY <1>1, <1>2, FS_Subset, FS_CardinalityType
  <2>2. Cardinality(upto(i)) # 0
    BY <1>1, <1>2, FS_EmptySet
  <2> QED
    BY <1>1, <1>2, <2>1, <2>2
<1>5. PICK k : k = Cardinality(upto(i))
  OBVIOUS
<1>6. PICK m : m = Nth(S, k)
  OBVIOUS
<1>7. m \in S /\ Cardinality(upto(m)) = k
  BY <1>4, <1>5, <1>6, NthExists
<1>8. m = i
  <2>1. ~ (m < i) /\ ~ (i < m)
    <3> HIDE DEF upto
    <3> QED
      BY <1>1, <1>2, <1>3, <1>5, <1>7
  <2> QED
    BY <1>7, <2>1
<1> QED
  BY <1>4, <1>5, <1>6, <1>8

(* DlpCleanUpDatabase keeps the live records and no other.                 *)
LEMMA PurgedRecs ==
    ASSUME NEW db \in Seq(Record)
    PROVE  Recs(Purged(db)) = {r \in Recs(db) : IsLive(r)}
<1>1. PICK n \in Nat : n = Len(db) /\ DOMAIN db = 1 .. n
  BY ListFacts
<1>2. PICK S \in SUBSET (1 .. n) : S = Kept(db) /\ S = {i \in 1 .. n : IsLive(db[i])}
  BY <1>1 DEF Kept
<1>3. PICK c : c = Cardinality(S)
  OBVIOUS
<1>4. PICK p : p = Purged(db)
  OBVIOUS
<1>5. p = [k \in 1 .. c |-> db[Nth(S, k)]]
  BY <1>2, <1>3, <1>4 DEF Purged
<1>6. DOMAIN p = 1 .. c /\ \A k \in 1 .. c : p[k] = db[Nth(S, k)]
  BY <1>5
<1>7. \A k \in 1 .. c : Nth(S, k) \in S
  BY <1>3, NthExists
<1>8. \A i \in S : \E k \in 1 .. c : Nth(S, k) = i
  BY <1>3, NthReaches
<1>9. Recs(p) = {db[i] : i \in S}
  <2>1. Recs(p) = {p[k] : k \in 1 .. c}
    BY <1>6 DEF Recs
  <2>2. \A k \in 1 .. c : \E i \in S : p[k] = db[i]
    BY <1>6, <1>7
  <2>3. \A i \in S : \E k \in 1 .. c : p[k] = db[i]
    BY <1>6, <1>8
  <2>4. ASSUME NEW x \in Recs(p) PROVE x \in {db[i] : i \in S}
    <3>1. PICK k \in 1 .. c : x = p[k]
      BY <2>1
    <3> QED
      BY <2>2, <3>1
  <2>5. ASSUME NEW x \in {db[i] : i \in S} PROVE x \in Recs(p)
    <3>1. PICK i \in S : x = db[i]
      OBVIOUS
    <3> QED
      BY <2>1, <2>3, <3>1
  <2> QED
    BY <2>4, <2>5
<1>10. {db[i] : i \in S} = {r \in Recs(db) : IsLive(r)}
  BY <1>1, <1>2 DEF Recs
<1> QED
  BY <1>4, <1>9, <1>10

(* DlpResetSyncFlags changes neither IDs nor contents.                     *)
LEMMA ResetRecs ==
    ASSUME palm \in Seq(Record), ResetFlags
    PROVE  /\ \A q \in Recs(palm') : \E p \in Recs(palm) :
                 q.id = p.id /\ q.data = p.data /\ q.flags = p.flags \ {DIRTY}
           /\ \A p \in Recs(palm) : \E q \in Recs(palm') : q.id = p.id /\ q.data = p.data
<1>1. \A j \in DOMAIN palm : palm[j] \in Record
  BY ListFacts
<1>2. DOMAIN palm' = DOMAIN palm /\ \A i \in DOMAIN palm : palm'[i] = [palm[i] EXCEPT !.flags = palm[i].flags \ {DIRTY}]
  BY DEF ResetFlags
<1>3. \A i \in DOMAIN palm : /\ palm'[i].id = palm[i].id /\ palm'[i].data = palm[i].data
                             /\ palm'[i].flags = palm[i].flags \ {DIRTY}
  BY <1>1, <1>2 DEF Record
<1> QED
  BY <1>2, <1>3 DEF Recs

-----------------------------------------------------------------------------
(* A step from a state in which everything is as it should be.             *)
Calm ==
    /\ OrdinaryUse
    /\ Inductive /\ IdsInv /\ Edits
    /\ Inductive' /\ IdsInv'

(* A step of a sync takes nothing back that the user wrote, and nothing    *)
(* out of an archive file ...                                              *)
Growing ==
    UNCHANGED <<wanted, edits>> /\ \A h \in Hosts : archive[h] \subseteq archive'[h]

(* ... and takes no content from the Palm that is still missed.            *)
PalmKeeps ==
    \A p \in Recs(palm) :
        Settled(p.data)' \/ \E q \in Recs(palm') : q.id = p.id /\ q.data = p.data

(* What then stays as it is.                                               *)
LEMMA SettledStays ==
    ASSUME Growing
    PROVE  /\ \A d : Settled(d) => Settled(d)'
           /\ \A r : Decent(r) <=> Decent(r)'
           /\ \A p, r : Agree(p, r) => Agree(p, r)'
<1>1. \A d : Settled(d) => Settled(d)'
  BY DEF Growing, Settled
<1>2. \A r : Decent(r) <=> Decent(r)'
  BY DEF Growing, Decent, Newest
<1> QED
  BY <1>1, <1>2 DEF Agree

LEMMA GoodStays == ASSUME Growing, PalmKeeps PROVE \A r : Good(r) => Good(r)'
<1> SUFFICES ASSUME NEW r, Good(r) PROVE Good(r)'
  OBVIOUS
<1>1. CASE Settled(r.data)
  BY <1>1, SettledStays DEF Good
<1>2. CASE OnPalm(r)
  <2>1. PICK p \in Recs(palm) : p.id = r.id /\ p.data = r.data
    BY <1>2 DEF OnPalm
  <2>2. Settled(p.data)' \/ \E q \in Recs(palm') : q.id = p.id /\ q.data = p.data
    BY <2>1 DEF PalmKeeps
  <2>3. Settled(r.data)' \/ \E q \in Recs(palm') : q.id = r.id /\ q.data = r.data
    BY <2>1, <2>2
  <2> QED
    BY <2>3 DEF Good, OnPalm
<1> QED
  BY <1>1, <1>2 DEF Good

LEMMA PlacesStay ==
    ASSUME Growing, PalmKeeps, UNCHANGED backup, AllInPlace, FilesGood
    PROVE  AllInPlace' /\ FilesGood'
<1>1. ASSUME NEW d \in wanted PROVE InPlace(d)'
  <2>1. InPlace(d)
    BY DEF AllInPlace
  <2>2. CASE Settled(d)
    BY <2>2, SettledStays DEF InPlace
  <2>3. ASSUME NEW p \in Recs(palm), p.data = d PROVE InPlace(d)'
    <3>1. Settled(d)' \/ \E q \in Recs(palm') : q.data = d
      BY <2>3 DEF PalmKeeps
    <3> QED
      BY <3>1 DEF InPlace
  <2>4. CASE \E h \in Hosts : backup[h] # NoFile /\ \E r \in Recs(backup[h]) : r.data = d
    BY <2>4 DEF InPlace
  <2> QED
    BY <2>1, <2>2, <2>3, <2>4 DEF InPlace
<1>2. AllInPlace'
  BY <1>1 DEF AllInPlace, Growing
<1>3. FilesGood'
  BY GoodStays DEF FilesGood
<1> QED
  BY <1>2, <1>3

LEMMA CoveredStays ==
    ASSUME Growing, PalmKeeps, \A r \in Recs(localdb) : Covered(r.data)'
    PROVE  \A d : Covered(d) => Covered(d)'
<1> SUFFICES ASSUME NEW d, Covered(d) PROVE Covered(d)'
  OBVIOUS
<1>1. CASE Settled(d)
  BY <1>1, SettledStays DEF Covered
<1>2. ASSUME NEW p \in Recs(palm), p.data = d PROVE Covered(d)'
  <2>1. Settled(d)' \/ \E q \in Recs(palm') : q.data = d
    BY <1>2 DEF PalmKeeps
  <2> QED
    BY <2>1 DEF Covered
<1> QED
  BY <1>1, <1>2 DEF Covered

(* The facts about lists and IDs that the proofs below keep needing.       *)
LEMMA CalmFacts ==
    ASSUME Calm
    PROVE  /\ palm \in Seq(Record) /\ palm' \in Seq(Record) /\ nextId \in Nat
           /\ localdb \in Seq(Record) /\ localdb' \in Seq(Record)
           /\ remotedb \in Seq(Record) /\ remotedb' \in Seq(Record)
           /\ rem \in Record /\ li \in Nat
           /\ \A p \in Recs(palm) : p \in Record /\ p.id # 0 /\ p.id < nextId
           /\ \A p, q \in Recs(palm) : p.id = q.id => p = q
           /\ \A r \in Recs(localdb) : r \in Record /\ r.id < nextId
           /\ \A r \in Recs(remotedb) : r \in Record /\ r.id # 0
<1>1. /\ palm \in Seq(Record) /\ palm' \in Seq(Record) /\ nextId \in Nat
      /\ localdb \in Seq(Record) /\ localdb' \in Seq(Record)
      /\ remotedb \in Seq(Record) /\ remotedb' \in Seq(Record)
      /\ rem \in Record /\ li \in Nat
  BY DEF Calm, Inductive, TypeOK
<1>2. \A p \in Recs(palm) : p \in Record /\ p.id # 0 /\ p.id < nextId
  BY <1>1, ListFacts DEF Calm, IdsInv, PalmIds, Assigned
<1>3. \A p, q \in Recs(palm) : p.id = q.id => p = q
  BY <1>1, ListFacts DEF Calm, IdsInv, PalmIds, Assigned, Distinct
<1>4. \A r \in Recs(localdb) : r \in Record /\ r.id < nextId
  BY <1>1, ListFacts DEF Calm, IdsInv, Below
<1>5. \A r \in Recs(remotedb) : r \in Record /\ r.id # 0
  BY <1>1, ListFacts DEF Calm, IdsInv, Assigned
<1> QED
  BY <1>1, <1>2, <1>3, <1>4, <1>5

-----------------------------------------------------------------------------
(* A step of a plan in the first phase: it leaves the session alone, ...   *)
SameSession == UNCHANGED <<backup, pc, host, mode, opened, online, lastSyncPC, seen, rem>>

(* ... on the Palm it touches the record in hand only, or adds one that    *)
(* the sync need not come back to, ...                                     *)
PalmElse ==
    /\ PalmKeeps
    /\ \A p \in Recs(palm) : p.id # rem.id => p \in Recs(palm')
    /\ \A q \in Recs(palm') : q.id = rem.id \/ q \in Recs(palm) \/ Finished(q)'
    /\ \A r \in Recs(remotedb') : r \in Recs(remotedb)
    /\ \A r \in Recs(remotedb) : r.id # rem.id => r \in Recs(remotedb')

(* ... and in the local list the record with the same ID only, or it gives *)
(* a record an ID that is new.                                             *)
ListElse ==
    /\ \A r \in Recs(localdb') : \/ r.id = rem.id
                                 \/ r.id = nextId
                                 \/ \E s \in Recs(localdb) : s.id = r.id /\ s.data = r.data
    /\ \A r \in Recs(localdb) : Covered(r.data)'
    /\ \A j \in DOMAIN localdb' : \/ \E k \in DOMAIN localdb \ {li} : localdb'[j] = localdb[k]
                                  \/ j = li' /\ plan' # <<>>
                                  \/ Good(localdb[j])'

(* Such a step does what it should if it brings the plan on its way and    *)
(* the record in hand to its end.                                          *)
LEMMA FirstPhaseStep ==
    ASSUME Calm, pc = "remote", plan # <<>>, Growing, SameSession, PalmElse, ListElse,
           \A r \in Recs(palm') \cup Recs(localdb') : Decent(r),
           plan' = <<>> => \A p \in Recs(palm') : p.id = rem.id => Finished(p)',
           plan' # <<>> => RemotePlan'
    PROVE  Edits'
<1>1. Edits /\ FirstPhase
  BY DEF Calm, Edits
<1>2. AllInPlace' /\ FilesGood'
  BY <1>1, PlacesStay DEF Edits, SameSession, PalmElse
<1>3. ListsDecent'
  BY <1>1, SettledStays DEF Edits, ListsDecent, SameSession, PalmElse, Growing, Newest
<1>4. OldCovered'
  BY <1>1, CoveredStays DEF FirstPhase, OldCovered, SameSession, PalmElse, ListElse
<1>5. LocalGood'
  <2> SUFFICES ASSUME NEW j \in DOMAIN localdb', localdb'[j].flags = {}, j # li' \/ plan' = <<>>
               PROVE  Good(localdb[j])'
    BY DEF LocalGood
  <2>1. CASE \E k \in DOMAIN localdb \ {li} : localdb'[j] = localdb[k]
    BY <1>1, <2>1, GoodStays DEF FirstPhase, LocalGood, PalmElse
  <2> QED
    BY <2>1 DEF ListElse
<1>6. ASSUME NEW p \in Recs(palm'), Reached(p)'
      PROVE  Finished(p)' \/ (plan' # <<>> /\ p.id = rem.id)
  <2>1. CASE p.id = rem.id
    BY <2>1
  <2>2. CASE p.id # rem.id /\ p \in Recs(palm)
    <3>1. Reached(p)
      BY <1>6, <2>2 DEF Reached, SameSession, PalmElse
    <3>2. Finished(p)
      BY <1>1, <2>2, <3>1 DEF FirstPhase
    <3>3. p.id # nextId
      BY <2>2, CalmFacts
    <3>4. ASSUME NEW r \in Recs(localdb') PROVE Agree(p, r)'
      <4>1. CASE r.id = p.id
        <5>1. PICK s \in Recs(localdb) : s.id = r.id /\ s.data = r.data
          BY <2>2, <3>3, <4>1 DEF ListElse
        <5>2. Agree(p, s)
          BY <3>2 DEF Finished, AgreesAll
        <5> QED
          BY <5>1, <5>2, SettledStays DEF Agree
      <4>2. CASE r.id # p.id
        BY <4>2 DEF Agree
      <4> QED
        BY <4>1, <4>2
    <3>5. ~ IsLive(p) => Settled(p.data)'
      BY <3>2, SettledStays DEF Finished
    <3> QED
      BY <3>4, <3>5 DEF Finished, AgreesAll
  <2> QED
    BY <2>1, <2>2 DEF PalmElse
<1>7. ASSUME mode = "slow", NEW r \in Recs(remotedb'), r.id \notin seen PROVE r \in Recs(palm')
  <2>1. r \in Recs(remotedb) /\ r \in Recs(palm)
    BY <1>1, <1>7 DEF PalmElse, FirstPhase
  <2>2. rem.id \in seen
    BY <1>1 DEF FirstPhase
  <2> QED
    BY <1>7, <2>1, <2>2 DEF PalmElse
<1>8. plan' # <<>> => rem.id \in seen /\ rem.id # 0
  BY <1>1 DEF FirstPhase
<1>9. FirstPhase'
  BY <1>1, <1>4, <1>5, <1>6, <1>7, <1>8 DEF FirstPhase, SameSession
<1>10. pc' = "remote" /\ online' /\ ~ opened'
  BY <1>1 DEF Edits, SameSession
<1> QED
  BY <1>2, <1>3, <1>9, <1>10 DEF Edits

(* Where a step leaves the Palm, or the list, alone.                       *)
LEMMA SamePalm ==
    ASSUME UNCHANGED <<palm, remotedb>>
    PROVE  PalmElse
  BY DEF PalmElse, PalmKeeps

LEMMA SameList ==
    ASSUME Calm, pc = "remote", Growing, PalmKeeps, UNCHANGED <<localdb, li>>,
           plan' = <<>> => li \notin DOMAIN localdb
    PROVE  ListElse
<1>1. \A r \in Recs(localdb) : Covered(r.data)'
  BY DEF Covered
<1>2. ASSUME NEW j \in DOMAIN localdb
      PROVE  \/ \E k \in DOMAIN localdb \ {li} : localdb'[j] = localdb[k]
             \/ j = li' /\ plan' # <<>>
  BY <1>2
<1> QED
  BY <1>1, <1>2 DEF ListElse

(* The first step of a plan, and what it leaves.                           *)
LEMMA Tails ==
    /\ \A a : Head(<<a>>) = a /\ Tail(<<a>>) = <<>> /\ <<a>> # <<>>
    /\ \A a, b : Head(<<a, b>>) = a /\ Tail(<<a, b>>) = <<b>>
    /\ \A a, b, c : Head(<<a, b, c>>) = a /\ Tail(<<a, b, c>>) = <<b, c>> /\ <<b, c>> # <<>>
    /\ \A a, b, c, d : Head(<<a, b, c, d>>) = a /\ Tail(<<a, b, c, d>>) = <<b, c, d>> /\ <<b, c, d>> # <<>>
<1>1. \A a : Head(<<a>>) = a /\ Tail(<<a>>) = <<>> /\ <<a>> # <<>>
  OBVIOUS
<1>2. \A a, b : Head(<<a, b>>) = a /\ Tail(<<a, b>>) = <<b>>
  OBVIOUS
<1>3. \A a, b, c : Head(<<a, b, c>>) = a /\ Tail(<<a, b, c>>) = <<b, c>> /\ <<b, c>> # <<>>
  OBVIOUS
<1>4. \A a, b, c, d : Head(<<a, b, c, d>>) = a /\ Tail(<<a, b, c, d>>) = <<b, c, d>> /\ <<b, c, d>> # <<>>
  OBVIOUS
<1> QED
  BY <1>1, <1>2, <1>3, <1>4

(* A plan of the first phase, by its first step.                           *)
LEMMA RemoteHead ==
    ASSUME RemotePlan
    PROVE  /\ Head(plan) = ArchiveLocal => AtArchiveLocal
           /\ Head(plan) = ArchiveRemote => AtArchiveRemote
           /\ Head(plan) = ClearLocal => AtClearLocal
           /\ Head(plan) = DeleteLocal => AtDeleteLocal
           /\ Head(plan) = DeleteRemote => AtDeleteRemote
           /\ Head(plan) \in {UploadLocal, UploadAsNew} => AtUpload
           /\ Head(plan) \in {AppendRemote, AppendUnclean, InsertRemote} => AtBring
           /\ Head(plan) = DropRemote => AtDrop
           /\ Head(plan) # PurgeLocal
<1>1. AtArchiveLocal => Head(plan) = ArchiveLocal
  BY Tails DEF AtArchiveLocal
<1>2. AtArchiveRemote => Head(plan) = ArchiveRemote
  BY Tails DEF AtArchiveRemote
<1>3. AtClearLocal => Head(plan) = ClearLocal
  BY Tails DEF AtClearLocal
<1>4. AtDeleteLocal => Head(plan) = DeleteLocal
  BY Tails DEF AtDeleteLocal
<1>5. AtDeleteRemote => Head(plan) = DeleteRemote
  BY Tails DEF AtDeleteRemote
<1>6. AtUpload => Head(plan) \in {UploadLocal, UploadAsNew}
  BY Tails DEF AtUpload
<1>7. AtBring => Head(plan) \in {AppendRemote, AppendUnclean, InsertRemote}
  BY Tails DEF AtBring
<1>8. AtDrop => Head(plan) = DropRemote
  BY Tails DEF AtDrop
<1>9. PICK h : h = Head(plan)
  OBVIOUS
<1>10. \/ AtArchiveLocal /\ h = ArchiveLocal
       \/ AtArchiveRemote /\ h = ArchiveRemote
       \/ AtClearLocal /\ h = ClearLocal
       \/ AtDeleteLocal /\ h = DeleteLocal
       \/ AtDeleteRemote /\ h = DeleteRemote
       \/ AtUpload /\ h \in {UploadLocal, UploadAsNew}
       \/ AtBring /\ h \in {AppendRemote, AppendUnclean, InsertRemote}
       \/ AtDrop /\ h = DropRemote
  BY <1>1, <1>2, <1>3, <1>4, <1>5, <1>6, <1>7, <1>8, <1>9 DEF RemotePlan
<1> HIDE DEF RemotePlan
<1> QED
  BY <1>9, <1>10
  DEF ClearLocal, ArchiveLocal, ArchiveRemote, DeleteLocal, DropRemote, DeleteRemote, PurgeLocal,
      UploadLocal, UploadAsNew, AppendRemote, AppendUnclean, InsertRemote

(* What a plan relies on stays while neither list changes.                 *)
LEMMA FactsStay ==
    ASSUME Growing, UNCHANGED <<palm, localdb, li, rem>>
    PROVE  /\ Ours => Ours'
           /\ OnHand => OnHand'
           /\ Parted => Parted'
           /\ Fresh => Fresh'
           /\ Twin => Twin'
           /\ Alone => Alone'
           /\ Settled(Localrec.data) => Settled(Localrec.data)'
           /\ Good(Localrec) => Good(Localrec)'
<1>1. PalmKeeps
  BY DEF PalmKeeps
<1>2. Settled(Localrec.data) => Settled(Localrec.data)'
  BY SettledStays DEF Localrec
<1>3. Good(Localrec) => Good(Localrec)'
  BY <1>1, GoodStays DEF Localrec
<1>4. Parted => Parted'
  BY SettledStays DEF Parted
<1> QED
  BY <1>2, <1>3, <1>4 DEF Ours, OnHand, Fresh, Twin, Alone, Localrec

(* The only record of the Palm under the ID of the one in hand is that one. *)
LEMMA InHand ==
    ASSUME Calm, OnHand
    PROVE  /\ \A p \in Recs(palm) : p.id = rem.id => p.data = rem.data
           /\ Settled(rem.data) => Parted
           /\ Settled(rem.data)' /\ UNCHANGED <<palm, rem>> => Parted'
<1>1. PICK q \in Recs(palm) : q.id = rem.id /\ q.data = rem.data
  BY DEF OnHand
<1>2. \A p \in Recs(palm) : p.id = rem.id => p.data = rem.data
  BY <1>1, CalmFacts
<1> QED
  BY <1>2 DEF Parted

(* The record in hand is done with: both sides have it, ...                *)
LEMMA FreshFinished ==
    ASSUME palm' \in Seq(Record), PalmIds', Fresh',
           \A r \in Recs(localdb') : r.id = rem'.id => r.data = rem'.data
    PROVE  \A p \in Recs(palm') : p.id = rem'.id => Finished(p)'
<1>1. PICK q \in Recs(palm') : /\ q.id = rem'.id /\ q.data = rem'.data
                               /\ IsLive(rem') => IsLive(q)
  BY DEF Fresh, OnHand
<1>2. IsLive(rem')
  BY DEF Fresh, IsLive, DIRTY, DELETED, ARCHIVE, EXPUNGED
<1> SUFFICES ASSUME NEW p \in Recs(palm'), p.id = rem'.id PROVE Finished(p)'
  OBVIOUS
<1>3. p = q
  <2>1. PICK j \in DOMAIN palm', k \in DOMAIN palm' : p = palm'[j] /\ q = palm'[k]
    BY ListFacts
  <2>2. p.id # 0
    BY <2>1 DEF PalmIds, Assigned
  <2> QED
    BY <1>1, <2>1, <2>2 DEF PalmIds, Distinct
<1> QED
  BY <1>1, <1>2, <1>3 DEF Finished, AgreesAll, Agree

(* ... or nobody misses what the Palm has.                                 *)
LEMMA PartedFinished ==
    ASSUME Parted'
    PROVE  \A p \in Recs(palm') : p.id = rem'.id => Finished(p)'
  BY DEF Parted, Finished, AgreesAll, Agree

(* What every step of a plan in the first phase can rely on.               *)
LEMMA AtFirstPhase ==
    ASSUME Calm, pc = "remote", plan # <<>>
    PROVE  /\ FirstPhase /\ RemotePlan /\ rem.id # 0 /\ rem.id \in Nat /\ host \in Hosts
           /\ online /\ ~ opened /\ ListsDecent
           /\ Localrec = localdb[li]
           /\ Ours => li \in DOMAIN localdb /\ Localrec \in Record /\ Localrec \in Recs(localdb)
           /\ Head(plan) # DeleteLocal => Distinct(localdb)
           /\ Tail(plan) # <<>> => Distinct(localdb)
<1>1. FirstPhase /\ ListsDecent /\ online /\ ~ opened
  BY DEF Calm, Edits
<1>2. RemotePlan /\ rem.id # 0
  BY <1>1 DEF FirstPhase
<1>3. host \in Hosts
  BY DEF Calm, Inductive, SessionInv
<1>4. (Head(plan) # DeleteLocal => Distinct(localdb)) /\ (Tail(plan) # <<>> => Distinct(localdb))
  <2>1. Plain \/ Replacing \/ Bringing => Distinct(localdb)
    BY DEF Plain, Replacing, Bringing
  <2> QED
    BY <2>1, AtStepIds DEF Calm
<1>5. Ours => li \in DOMAIN localdb /\ Localrec \in Record /\ Localrec \in Recs(localdb)
  BY CalmFacts, ListFacts DEF Ours, Localrec
<1>6. rem.id \in Nat
  BY CalmFacts, RecordFacts
<1> QED
  BY <1>1, <1>2, <1>3, <1>4, <1>5, <1>6 DEF Localrec

(* In a step in which nothing fails no call of the Palm goes wrong.                  *)
LEMMA NoneFails ==
    ASSUME Calm, NoFault
    PROVE  /\ \A kind : ~ Fault(kind)
           /\ online /\ ~ opened => /\ ~ Refused /\ ~ NotWritable
                                   /\ \A effect \in BOOLEAN : ~ Lost(effect)
<1>1. faults \in Nat /\ faults' = faults
  BY DEF Calm, Inductive, TypeOK, NoFault
<1>2. \A kind : ~ Fault(kind)
  BY <1>1 DEF Fault
<1> QED
  BY <1>2 DEF Refused, NotWritable, Lost

(* archive_record, in the first phase.                                     *)
LEMMA DoArchiveRemotePhase == ASSUME Calm, NoFault, pc = "remote", DoArchive PROVE Edits'
<1>1. /\ plan # <<>> /\ plan' = Tail(plan)
      /\ UNCHANGED <<palm, nextId, lastSyncPC, backup, sessVars, wanted, edits, localdb, remotedb, seen, rem, li>>
      /\ \/ Head(plan) = ArchiveLocal /\ archive' = [archive EXCEPT ![host] = @ \cup {Localrec.data}]
         \/ Head(plan) = ArchiveRemote /\ archive' = [archive EXCEPT ![host] = @ \cup {rem.data}]
  BY NoneFails DEF DoArchive, Step, NextStep, ArchiveRecord, palmVars, userVars, Localrec
<1>2. /\ FirstPhase /\ RemotePlan /\ host \in Hosts /\ ListsDecent
      /\ archive \in [Hosts -> SUBSET Nat]
  BY <1>1, AtFirstPhase DEF Calm, Inductive, TypeOK
<1>3. /\ Growing
      /\ Head(plan) = ArchiveLocal => Settled(Localrec.data)'
      /\ Head(plan) = ArchiveRemote => Settled(rem.data)'
  <2>1. ArchiveLocal # ArchiveRemote
    BY DEF ArchiveLocal, ArchiveRemote
  <2> QED
    BY <1>1, <1>2, <2>1 DEF Growing, Settled, Localrec
<1>4. SameSession /\ PalmElse
  BY <1>1, SamePalm DEF SameSession, sessVars
<1>5. \A r \in Recs(palm') \cup Recs(localdb') : Decent(r)
  BY <1>1, <1>2 DEF ListsDecent
<1>6. ASSUME AtArchiveLocal, Settled(Localrec.data)' PROVE plan' # <<>> /\ RemotePlan'
  <2>1. CASE plan = <<ArchiveLocal, ArchiveRemote, DeleteRemote, DeleteLocal>> /\ Ours /\ OnHand
    <3>1. plan' = <<ArchiveRemote, DeleteRemote, DeleteLocal>> /\ plan' # <<>>
      BY <1>1, <2>1, Tails
    <3>2. AtArchiveRemote'
      BY <1>1, <1>3, <1>6, <2>1, <3>1, FactsStay DEF AtArchiveRemote
    <3> QED
      BY <3>1, <3>2 DEF RemotePlan
  <2>2. CASE plan = <<ArchiveLocal, DeleteRemote, DeleteLocal>> /\ Twin /\ OnHand
    <3>1. plan' = <<DeleteRemote, DeleteLocal>> /\ plan' # <<>>
      BY <1>1, <2>2, Tails
    <3>2. Ours' /\ Settled(rem.data)'
      BY <1>1, <1>3, <1>6, <2>2, FactsStay DEF Twin, Localrec
    <3>3. AtDeleteRemote'
      BY <1>1, <1>6, <2>2, <3>1, <3>2, InHand DEF AtDeleteRemote
    <3> QED
      BY <3>1, <3>3 DEF RemotePlan
  <2>3. CASE plan = <<ArchiveLocal, DeleteLocal>> /\ Ours /\ Parted
    <3>1. plan' = <<DeleteLocal>> /\ plan' # <<>>
      BY <1>1, <2>3, Tails
    <3>2. AtDeleteLocal'
      BY <1>1, <1>3, <1>6, <2>3, <3>1, FactsStay DEF AtDeleteLocal, Good
    <3> QED
      BY <3>1, <3>2 DEF RemotePlan
  <2>4. CASE plan = <<ArchiveLocal, DeleteLocal, AppendUnclean>> /\ Ours /\ Fresh
    <3>1. plan' = <<DeleteLocal, AppendUnclean>> /\ plan' # <<>>
      BY <1>1, <2>4, Tails
    <3>2. AtDeleteLocal'
      BY <1>1, <1>3, <1>6, <2>4, <3>1, FactsStay DEF AtDeleteLocal
    <3> QED
      BY <3>1, <3>2 DEF RemotePlan
  <2>5. CASE plan = <<ArchiveLocal, DeleteLocal, DeleteRemote>> /\ Twin /\ OnHand
    <3>1. plan' = <<DeleteLocal, DeleteRemote>> /\ plan' # <<>>
      BY <1>1, <2>5, Tails
    <3>2. Ours' /\ Settled(rem.data)'
      BY <1>1, <1>3, <1>6, <2>5, FactsStay DEF Twin, Localrec
    <3>3. AtDeleteLocal'
      BY <1>1, <1>6, <2>5, <3>1, <3>2, InHand DEF AtDeleteLocal
    <3> QED
      BY <3>1, <3>3 DEF RemotePlan
  <2> QED
    BY <1>6, <2>1, <2>2, <2>3, <2>4, <2>5 DEF AtArchiveLocal
<1>7. ASSUME AtArchiveRemote, Settled(rem.data)'
      PROVE  /\ plan' # <<>> => RemotePlan'
             /\ plan' = <<>> => Parted' /\ li = 0
  <2>0. OnHand /\ Parted'
    BY <1>1, <1>7, InHand DEF AtArchiveRemote
  <2>1. CASE plan = <<ArchiveRemote, DeleteRemote, DeleteLocal>> /\ Ours /\ OnHand /\ Settled(Localrec.data)
    <3>1. plan' = <<DeleteRemote, DeleteLocal>> /\ plan' # <<>>
      BY <1>1, <2>1, Tails
    <3>2. AtDeleteRemote'
      BY <1>1, <1>3, <2>0, <2>1, <3>1, FactsStay DEF AtDeleteRemote
    <3> QED
      BY <3>1, <3>2 DEF RemotePlan
  <2>2. CASE plan = <<ArchiveRemote, ClearLocal, UploadLocal>> /\ Ours /\ OnHand
    <3>1. plan' = <<ClearLocal, UploadLocal>> /\ plan' # <<>>
      BY <1>1, <2>2, Tails
    <3>2. Takes'
      <4>1. Ours'
        BY <1>1, <1>3, <2>2, FactsStay
      <4> QED
        BY <2>0, <4>1 DEF Takes, Ours, Parted, Agree, Localrec
    <3>3. AtClearLocal'
      BY <3>1, <3>2 DEF AtClearLocal
    <3> QED
      BY <3>1, <3>3 DEF RemotePlan
  <2>3. CASE plan = <<ArchiveRemote, DeleteLocal>> /\ Ours /\ OnHand /\ Good(Localrec)
    <3>1. plan' = <<DeleteLocal>> /\ plan' # <<>>
      BY <1>1, <2>3, Tails
    <3>2. AtDeleteLocal'
      BY <1>1, <1>3, <2>0, <2>3, <3>1, FactsStay DEF AtDeleteLocal
    <3> QED
      BY <3>1, <3>2 DEF RemotePlan
  <2>4. CASE plan = <<ArchiveRemote>> /\ OnHand /\ Alone
    BY <1>1, <2>0, <2>4, Tails DEF Alone
  <2> QED
    BY <1>7, <2>1, <2>2, <2>3, <2>4 DEF AtArchiveRemote
<1>8. (plan' # <<>> => RemotePlan') /\ (plan' = <<>> => Parted' /\ li = 0)
  BY <1>1, <1>2, <1>3, <1>6, <1>7, RemoteHead
<1>9. ListElse
  <2>1. 0 \notin DOMAIN localdb
    BY CalmFacts, ListFacts
  <2> QED
    BY <1>1, <1>3, <1>4, <1>8, <2>1, SameList DEF PalmElse
<1>10. plan' = <<>> => \A p \in Recs(palm') : p.id = rem.id => Finished(p)'
  BY <1>1, <1>8, PartedFinished
<1> QED
  BY <1>1, <1>3, <1>4, <1>5, <1>8, <1>9, <1>10, FirstPhaseStep

(* Cleared, a record keeps its ID and its contents.                        *)
LEMMA ClearedRecs ==
    ASSUME localdb \in Seq(Record), li \in DOMAIN localdb, localdb' = ClearStatusFlags(localdb, li)
    PROVE  \E r \in Record :
              /\ r.id = Localrec.id /\ r.data = Localrec.data /\ r.flags = {}
              /\ DOMAIN localdb' = DOMAIN localdb /\ localdb'[li] = r
              /\ \A j \in DOMAIN localdb : j # li => localdb'[j] = localdb[j]
              /\ Recs(localdb') = {localdb[j] : j \in DOMAIN localdb \ {li}} \cup {r}
<1>1. Localrec = localdb[li] /\ Localrec \in Record /\ localdb \in Seq(Record)
  BY ListFacts DEF Localrec
<1>2. PICK r \in Record : /\ r = [Localrec EXCEPT !.flags = {}]
                          /\ r.id = Localrec.id /\ r.data = Localrec.data /\ r.flags = {}
  <2>1. [Localrec EXCEPT !.flags = {}] \in Record
    BY <1>1 DEF Record
  <2> QED
    BY <1>1, <2>1 DEF Record
<1>3. localdb' = [localdb EXCEPT ![li] = r]
  BY <1>1, <1>2 DEF ClearStatusFlags
<1>4. /\ DOMAIN localdb' = DOMAIN localdb /\ localdb'[li] = r
      /\ \A j \in DOMAIN localdb : j # li => localdb'[j] = localdb[j]
      /\ Recs(localdb') = {localdb[j] : j \in DOMAIN localdb \ {li}} \cup {r}
  <2>1. LET new == [localdb EXCEPT ![li] = r] IN
        /\ DOMAIN new = DOMAIN localdb /\ new[li] = r
        /\ \A j \in DOMAIN localdb : j # li => new[j] = localdb[j]
        /\ Recs(new) = {localdb[j] : j \in DOMAIN localdb \ {li}} \cup {r}
    BY <1>1, ChangeRecs
  <2> QED
    BY <1>3, <2>1
<1> QED
  BY <1>2, <1>4

(* CLEAR_STATUS_FLAGS, in the first phase.                                 *)
LEMMA DoClearLocalRemotePhase == ASSUME Calm, pc = "remote", DoClearLocal PROVE Edits'
<1>1. /\ plan # <<>> /\ plan' = Tail(plan) /\ Head(plan) = ClearLocal
      /\ localdb' = ClearStatusFlags(localdb, li)
      /\ UNCHANGED <<palm, nextId, lastSyncPC, backup, archive, sessVars, wanted, edits, remotedb, seen, rem, li>>
  BY DEF DoClearLocal, Step, NextStep, palmVars, fileVars, userVars
<1>2. FirstPhase /\ RemotePlan /\ ListsDecent /\ AtClearLocal /\ Distinct(localdb)
  <2>1. ClearLocal # DeleteLocal
    BY DEF ClearLocal, DeleteLocal
  <2> QED
    BY <1>1, <2>1, AtFirstPhase, RemoteHead
<1>3. Ours /\ li \in DOMAIN localdb /\ Localrec = localdb[li] /\ Localrec \in Recs(localdb)
  <2>1. Ours
    BY <1>2 DEF AtClearLocal, Takes, Twin
  <2> QED
    BY <1>1, <2>1, AtFirstPhase
<1>4. PICK r \in Record :
              /\ r.id = Localrec.id /\ r.data = Localrec.data /\ r.flags = {}
              /\ DOMAIN localdb' = DOMAIN localdb /\ localdb'[li] = r
              /\ \A j \in DOMAIN localdb : j # li => localdb'[j] = localdb[j]
              /\ Recs(localdb') = {localdb[j] : j \in DOMAIN localdb \ {li}} \cup {r}
  BY <1>1, <1>3, CalmFacts, ClearedRecs
<1>5. Growing /\ SameSession /\ PalmElse
  BY <1>1, SamePalm DEF SameSession, sessVars, Growing
<1>6. \A x \in Recs(palm') \cup Recs(localdb') : Decent(x)
  <2>1. Decent(r)
    BY <1>2, <1>3, <1>4 DEF ListsDecent, Decent
  <2>2. \A x \in Recs(localdb') : x \in Recs(localdb) \/ x = r
    BY <1>4 DEF Recs
  <2> QED
    BY <1>1, <1>2, <2>1, <2>2 DEF ListsDecent
<1>7. /\ Ours' /\ (Twin => Twin') /\ (Fresh => Fresh') /\ (Parted => Parted')
      /\ (OnHand => OnHand') /\ (Takes => Takes')
  <2>1. Localrec' = r
    BY <1>1, <1>4 DEF Localrec
  <2>2. Ours' /\ (Twin => Twin')
    BY <1>1, <1>3, <1>4, <2>1 DEF Ours, Twin, Localrec
  <2>3. (Fresh => Fresh') /\ (Parted => Parted') /\ (OnHand => OnHand')
    BY <1>1 DEF Fresh, Parted, OnHand, Settled
  <2>4. Takes => Takes'
    BY <1>1, <1>4, <2>1, <2>2 DEF Takes, Agree, Settled
  <2> QED
    BY <2>2, <2>3, <2>4
<1>8. /\ plan' # <<>> => RemotePlan'
      /\ plan' = <<>> => Twin /\ Fresh
  <2>1. CASE plan = <<ClearLocal, UploadLocal>> /\ Takes
    <3>1. plan' = <<UploadLocal>> /\ plan' # <<>>
      BY <1>1, <2>1, Tails
    <3>2. AtUpload'
      BY <1>7, <2>1, <3>1 DEF AtUpload
    <3> QED
      BY <3>1, <3>2 DEF RemotePlan
  <2>2. CASE plan = <<ClearLocal, ArchiveLocal, DeleteLocal>> /\ Ours /\ Parted
    <3>1. plan' = <<ArchiveLocal, DeleteLocal>> /\ plan' # <<>>
      BY <1>1, <2>2, Tails
    <3>2. AtArchiveLocal'
      BY <1>7, <2>2, <3>1 DEF AtArchiveLocal
    <3> QED
      BY <3>1, <3>2 DEF RemotePlan
  <2>3. CASE plan = <<ClearLocal, ArchiveLocal, DeleteLocal, AppendUnclean>> /\ Ours /\ Fresh
    <3>1. plan' = <<ArchiveLocal, DeleteLocal, AppendUnclean>> /\ plan' # <<>>
      BY <1>1, <2>3, Tails
    <3>2. AtArchiveLocal'
      BY <1>7, <2>3, <3>1 DEF AtArchiveLocal
    <3> QED
      BY <3>1, <3>2 DEF RemotePlan
  <2>4. CASE plan = <<ClearLocal, UploadAsNew, InsertRemote>> /\ Ours /\ Fresh
    <3>1. plan' = <<UploadAsNew, InsertRemote>> /\ plan' # <<>>
      BY <1>1, <2>4, Tails
    <3>2. AtUpload'
      BY <1>7, <2>4, <3>1 DEF AtUpload
    <3> QED
      BY <3>1, <3>2 DEF RemotePlan
  <2>5. CASE plan = <<ClearLocal, ArchiveLocal, DeleteLocal, DeleteRemote>> /\ Twin /\ OnHand
    <3>1. plan' = <<ArchiveLocal, DeleteLocal, DeleteRemote>> /\ plan' # <<>>
      BY <1>1, <2>5, Tails
    <3>2. AtArchiveLocal'
      BY <1>7, <2>5, <3>1 DEF AtArchiveLocal
    <3> QED
      BY <3>1, <3>2 DEF RemotePlan
  <2>6. CASE plan = <<ClearLocal>> /\ Twin /\ Fresh
    BY <1>1, <2>6, Tails
  <2> QED
    BY <1>2, <2>1, <2>2, <2>3, <2>4, <2>5, <2>6 DEF AtClearLocal
<1>9. ListElse
  <2>1. \A x \in Recs(localdb') : \E s \in Recs(localdb) : s.id = x.id /\ s.data = x.data
    BY <1>3, <1>4 DEF Recs
  <2>2. \A s \in Recs(localdb) : \E x \in Recs(localdb') : s.data = x.data
    BY <1>3, <1>4 DEF Recs
  <2>3. \A s \in Recs(localdb) : Covered(s.data)'
    BY <2>2 DEF Covered
  <2>4. ASSUME Twin, Fresh PROVE Good(localdb[li])'
    <3>1. \E p \in Recs(palm') : p.id = rem.id /\ p.data = rem.data
      BY <1>1, <2>4 DEF Fresh, OnHand
    <3>2. localdb'[li'].id = rem.id /\ localdb'[li'].data = rem.data
      BY <1>1, <1>3, <1>4, <2>4 DEF Twin, Ours, Localrec
    <3> QED
      BY <3>1, <3>2 DEF Good, OnPalm
  <2>5. ASSUME NEW j \in DOMAIN localdb', j # li PROVE \E k \in DOMAIN localdb \ {li} : localdb'[j] = localdb[k]
    BY <1>4, <2>5
  <2>6. ASSUME NEW j \in DOMAIN localdb', j = li PROVE (j = li' /\ plan' # <<>>) \/ Good(localdb[j])'
    BY <1>1, <1>8, <2>4, <2>6
  <2> QED
    BY <2>1, <2>3, <2>5, <2>6 DEF ListElse
<1>10. plan' = <<>> => \A p \in Recs(palm') : p.id = rem.id => Finished(p)'
  <2> SUFFICES ASSUME Twin, Fresh PROVE \A p \in Recs(palm') : p.id = rem'.id => Finished(p)'
    BY <1>1, <1>8
  <2>1. palm' \in Seq(Record) /\ PalmIds' /\ Fresh'
    BY <1>7 DEF Calm, Inductive, TypeOK, IdsInv
  <2>2. \A x \in Recs(localdb') : x.id = rem'.id => x.data = rem'.data
    <3>1. \A j \in DOMAIN localdb : localdb[j].id = rem.id => j = li
      BY <1>1, <1>2, <1>3, AtFirstPhase DEF Distinct, Ours
    <3>2. r.data = rem.data
      BY <1>4 DEF Twin
    <3> QED
      BY <1>1, <1>4, <3>1, <3>2 DEF Recs
  <2> QED
    BY <2>1, <2>2, FreshFinished
<1> QED
  BY <1>1, <1>5, <1>6, <1>8, <1>9, <1>10, FirstPhaseStep

(* pdb_DeleteRecordByID, in the first phase, unlinks localrec itself.      *)
LEMMA UnlinkRemotePhase ==
    ASSUME Calm, Ours, rem.id # 0, rem.id \in Nat, Distinct(localdb) \/ Doubled,
           localdb' = DeleteRecordByID(localdb, localdb[li].id)
    PROVE  /\ \A j \in DOMAIN localdb' : \E k \in DOMAIN localdb \ {li} : localdb'[j] = localdb[k]
           /\ \A k \in DOMAIN localdb \ {li} : \E j \in DOMAIN localdb' : localdb'[j] = localdb[k]
<1>1. localdb \in Seq(Record) /\ li \in DOMAIN localdb /\ localdb[li].id = rem.id
  BY CalmFacts DEF Ours
<1>2. PICK k : k = FindRecordByID(localdb, rem.id)
  OBVIOUS
<1>3. /\ k = 0 => Lacks(localdb, rem.id)
      /\ k # 0 => /\ k \in DOMAIN localdb /\ localdb[k].id = rem.id
                  /\ DeleteRecordByID(localdb, rem.id) = Without(localdb, k)
  BY <1>1, <1>2, FindFacts
<1>4. k # 0
  BY <1>1, <1>3 DEF Lacks
<1>5. k = li
  BY <1>1, <1>2, <1>3, <1>4 DEF Distinct, Doubled
<1>6. localdb' = Without(localdb, li)
  BY <1>1, <1>3, <1>4, <1>5
<1> QED
  BY <1>1, <1>6, WithoutRecs

LEMMA DoDeleteLocalRemotePhase == ASSUME Calm, pc = "remote", DoDeleteLocal PROVE Edits'
<1>1. /\ plan # <<>> /\ plan' = Tail(plan) /\ Head(plan) = DeleteLocal
      /\ localdb' = DeleteRecordByID(localdb, localdb[li].id) /\ li' = 0
      /\ UNCHANGED <<palm, nextId, lastSyncPC, backup, archive, sessVars, wanted, edits, remotedb, seen, rem>>
  BY DEF DoDeleteLocal, Unlink, Step, NextStep, palmVars, fileVars, userVars
<1>2. FirstPhase /\ RemotePlan /\ ListsDecent /\ AtDeleteLocal
  BY <1>1, AtFirstPhase, RemoteHead
<1>3. /\ Ours /\ li \in DOMAIN localdb /\ Localrec = localdb[li] /\ Localrec \in Recs(localdb)
      /\ rem.id # 0 /\ rem.id \in Nat /\ Good(Localrec)
      /\ Distinct(localdb) \/ Doubled
  <2>1. Ours /\ Good(Localrec)
    BY <1>2 DEF AtDeleteLocal, Good
  <2>2. Distinct(localdb) \/ Doubled
    BY DEF Calm, IdsInv, PlanIds, Plain, Replacing, Bringing
  <2> QED
    BY <1>1, <2>1, <2>2, AtFirstPhase
<1>4. /\ \A j \in DOMAIN localdb' : \E k \in DOMAIN localdb \ {li} : localdb'[j] = localdb[k]
      /\ \A k \in DOMAIN localdb \ {li} : \E j \in DOMAIN localdb' : localdb'[j] = localdb[k]
  BY <1>1, <1>3, UnlinkRemotePhase
<1>5. Growing /\ SameSession /\ PalmElse
  BY <1>1, SamePalm DEF SameSession, sessVars, Growing
<1>6. /\ \A x \in Recs(localdb') : x \in Recs(localdb)
      /\ \A x \in Recs(localdb) : x \in Recs(localdb') \/ x = Localrec
  BY <1>3, <1>4 DEF Recs
<1>7. \A x \in Recs(palm') \cup Recs(localdb') : Decent(x)
  BY <1>1, <1>2, <1>6 DEF ListsDecent
<1>8. ListElse
  <2>1. PICK old : old = Localrec
    OBVIOUS
  <2>2. Covered(old.data)'
    <3>1. CASE Settled(old.data)
      BY <1>5, <3>1, SettledStays DEF Covered
    <3>2. CASE OnPalm(old)
      BY <1>1, <3>2 DEF OnPalm, Covered
    <3> QED
      BY <1>3, <2>1, <3>1, <3>2 DEF Good
  <2>3. \A r \in Recs(localdb) : Covered(r.data)'
    BY <1>6, <2>1, <2>2 DEF Covered
  <2>4. \A r \in Recs(localdb') : \E s \in Recs(localdb) : s.id = r.id /\ s.data = r.data
    BY <1>6
  <2> QED
    BY <1>4, <2>3, <2>4 DEF ListElse
<1>9. (Parted => Parted') /\ (Fresh => Fresh')
  BY <1>1 DEF Fresh, Parted, OnHand, Settled
<1>10. Tail(plan) # <<>> => Alone'
  <2> SUFFICES ASSUME Distinct(localdb) PROVE Alone'
    BY <1>1, AtFirstPhase
  <2>1. \A k \in DOMAIN localdb \ {li} : localdb[k].id # rem.id
    BY <1>3 DEF Distinct, Ours
  <2>2. Lacks(localdb', rem.id)
    BY <1>4, <2>1 DEF Lacks
  <2> QED
    BY <1>1, <2>2 DEF Alone
<1>11. /\ plan' # <<>> => RemotePlan'
       /\ plan' = <<>> => \A p \in Recs(palm') : p.id = rem'.id => Finished(p)'
  <2>1. CASE plan = <<DeleteLocal>> /\ Ours /\ Parted /\ Good(Localrec)
    BY <1>1, <1>9, <2>1, Tails, PartedFinished
  <2>2. CASE /\ plan = <<DeleteLocal>> /\ Ours /\ Fresh /\ Good(Localrec)
             /\ \A j \in DOMAIN localdb : j # li /\ localdb[j].id = rem.id => localdb[j].data = rem.data
    <3>1. palm' \in Seq(Record) /\ PalmIds' /\ Fresh'
      BY <1>9, <2>2 DEF Calm, Inductive, TypeOK, IdsInv
    <3>2. \A x \in Recs(localdb') : x.id = rem'.id => x.data = rem'.data
      BY <1>1, <1>4, <2>2 DEF Recs
    <3> QED
      BY <1>1, <2>2, <3>1, <3>2, Tails, FreshFinished
  <2>3. CASE plan = <<DeleteLocal, AppendUnclean>> /\ Ours /\ Fresh /\ Settled(Localrec.data)
    <3>1. plan' = <<AppendUnclean>> /\ plan' # <<>>
      BY <1>1, <2>3, Tails
    <3>2. AtBring'
      BY <1>1, <1>9, <1>10, <2>3, <3>1 DEF AtBring
    <3> QED
      BY <3>1, <3>2 DEF RemotePlan
  <2>4. CASE plan = <<DeleteLocal, AppendRemote>> /\ Ours /\ Fresh /\ Settled(Localrec.data)
    <3>1. plan' = <<AppendRemote>> /\ plan' # <<>>
      BY <1>1, <2>4, Tails
    <3>2. AtBring'
      BY <1>1, <1>9, <1>10, <2>4, <3>1 DEF AtBring
    <3> QED
      BY <3>1, <3>2 DEF RemotePlan
  <2>5. CASE plan = <<DeleteLocal, DeleteRemote>> /\ Ours /\ Parted /\ Settled(Localrec.data)
    <3>1. plan' = <<DeleteRemote>> /\ plan' # <<>>
      BY <1>1, <2>5, Tails
    <3>2. AtDeleteRemote'
      BY <1>1, <1>9, <1>10, <2>5, <3>1 DEF AtDeleteRemote
    <3> QED
      BY <3>1, <3>2 DEF RemotePlan
  <2> QED
    BY <1>2, <2>1, <2>2, <2>3, <2>4, <2>5 DEF AtDeleteLocal
<1> QED
  BY <1>1, <1>5, <1>7, <1>8, <1>11, FirstPhaseStep

(* DlpDeleteRecord, in the first phase: nobody misses what is deleted.     *)
(* A refusal does no harm.                                                 *)
LEMMA DoDeleteRemoteRemotePhase ==
    ASSUME Calm, NoFault \/ Refused, pc = "remote", DoDeleteRemote PROVE Edits'
<1>1. online /\ ~ opened /\ plan # <<>> /\ Head(plan) = DeleteRemote
  <2>1. plan # <<>> /\ Head(plan) = DeleteRemote
    BY DEF DoDeleteRemote, Step
  <2> QED
    BY <2>1, AtFirstPhase
<1>2. /\ plan' = Tail(plan) /\ (Remove(rem.id) \/ palm' = palm)
      /\ UNCHANGED <<nextId, lastSyncPC, backup, archive, sessVars, wanted, edits, localdb, remotedb, seen, rem, li>>
  <2>1. ~ NotWritable /\ ~ Lost(Remove(rem.id) /\ UNCHANGED nextId)
    <3>1. CASE NoFault
      BY <1>1, <3>1, NoneFails
    <3>2. CASE Refused
      BY <1>1, <3>2 DEF Refused, NotWritable, Lost
    <3> QED
      BY <3>1, <3>2
  <2>2. NextStep /\ (Remove(rem.id) \/ palm' = palm) /\ UNCHANGED <<nextId, online, pc, failed>>
    BY <2>1 DEF DoDeleteRemote, Refused
  <2> QED
    BY <2>2 DEF DoDeleteRemote, NextStep, fileVars, userVars, sessVars
<1>3. FirstPhase /\ RemotePlan /\ ListsDecent /\ AtDeleteRemote /\ rem.id \in Nat
  BY <1>1, AtFirstPhase, RemoteHead
<1>4. /\ \A p \in Recs(palm') : p \in Recs(palm)
      /\ \A p \in Recs(palm) : p.id # rem.id => p \in Recs(palm')
  <2>1. CASE Remove(rem.id)
    <3>1. Recs(palm') = {p \in Recs(palm) : p.id # rem.id}
      BY <1>3, <2>1, CalmFacts, RemoveRecs DEF Calm, IdsInv
    <3> QED
      BY <3>1
  <2> QED
    BY <1>2, <2>1
<1>5. Growing /\ SameSession /\ Parted
  BY <1>2, <1>3 DEF SameSession, sessVars, Growing, AtDeleteRemote
<1>6. PalmElse
  <2>1. ASSUME NEW p \in Recs(palm) PROVE Settled(p.data)' \/ p \in Recs(palm')
    BY <1>4, <1>5, SettledStays DEF Parted
  <2>2. PalmKeeps
    BY <2>1 DEF PalmKeeps
  <2> QED
    BY <1>2, <1>4, <2>2 DEF PalmElse
<1>7. \A x \in Recs(palm') \cup Recs(localdb') : Decent(x)
  BY <1>2, <1>3, <1>4 DEF ListsDecent
<1>8. Parted'
  BY <1>2, <1>4, <1>5, SettledStays DEF Parted
<1>9. /\ plan' # <<>> => RemotePlan'
      /\ plan' = <<>> => li = 0
  <2>1. CASE plan = <<DeleteRemote, DeleteLocal>> /\ Ours /\ Parted /\ Settled(Localrec.data)
    <3>1. plan' = <<DeleteLocal>> /\ plan' # <<>>
      BY <1>2, <2>1, Tails
    <3>2. Ours' /\ Good(Localrec)'
      BY <1>2, <2>1 DEF Ours, Good, Localrec, Settled
    <3>3. AtDeleteLocal'
      BY <1>8, <3>1, <3>2 DEF AtDeleteLocal
    <3> QED
      BY <3>1, <3>3 DEF RemotePlan
  <2>2. CASE plan = <<DeleteRemote, ClearLocal, UploadLocal>> /\ Ours /\ Parted
    <3>1. plan' = <<ClearLocal, UploadLocal>> /\ plan' # <<>>
      BY <1>2, <2>2, Tails
    <3>2. Takes'
      <4>1. \A p \in Recs(palm') : Agree(p, Localrec)
        BY <1>4, <2>2 DEF Parted, Ours, Agree, Localrec
      <4>2. PICK r : r = Localrec /\ r = Localrec'
        BY <1>2 DEF Localrec
      <4>3. \A p \in Recs(palm') : Agree(p, r)'
        BY <1>5, <4>1, <4>2, SettledStays
      <4> QED
        BY <1>2, <2>2, <4>2, <4>3 DEF Takes, Ours, Localrec
    <3>3. AtClearLocal'
      BY <3>1, <3>2 DEF AtClearLocal
    <3> QED
      BY <3>1, <3>3 DEF RemotePlan
  <2>3. CASE plan = <<DeleteRemote>> /\ Parted /\ Alone
    BY <1>2, <2>3, Tails DEF Alone
  <2> QED
    BY <1>3, <2>1, <2>2, <2>3 DEF AtDeleteRemote
<1>10. ListElse
  <2>1. 0 \notin DOMAIN localdb
    BY CalmFacts, ListFacts
  <2> QED
    BY <1>2, <1>5, <1>6, <1>9, <2>1, SameList DEF PalmElse
<1>11. plan' = <<>> => \A p \in Recs(palm') : p.id = rem.id => Finished(p)'
  BY <1>2, <1>8, PartedFinished
<1> QED
  BY <1>1, <1>5, <1>6, <1>7, <1>9, <1>10, <1>11, FirstPhaseStep

(* The new copy of a remote record that the local list lacks.              *)
LEMMA DoAppendRemoteRemotePhase == ASSUME Calm, pc = "remote", DoAppendRemote PROVE Edits'
<1>1. PICK flags \in SUBSET rem.flags :
        /\ plan # <<>> /\ plan' = Tail(plan) /\ Head(plan) \in {AppendRemote, AppendUnclean}
        /\ localdb' = Append(localdb, Rec(rem.id, flags, rem.data))
        /\ UNCHANGED <<palm, nextId, lastSyncPC, backup, archive, sessVars, wanted, edits, remotedb, seen, rem, li>>
  BY DEF DoAppendRemote, Step, NextStep, palmVars, fileVars, userVars, AppendRecord
<1>2. FirstPhase /\ RemotePlan /\ ListsDecent /\ AtBring /\ rem.id \in Nat
  BY <1>1, AtFirstPhase, RemoteHead
<1>3. Fresh /\ Alone /\ plan' = <<>>
  <2>1. InsertRemote \notin {AppendRemote, AppendUnclean}
    BY DEF InsertRemote, AppendRemote, AppendUnclean
  <2>2. Head(<<InsertRemote>>) = InsertRemote /\ Head(<<InsertRemote, DeleteLocal>>) = InsertRemote
    BY Tails
  <2>3. Tail(<<AppendRemote>>) = <<>> /\ Tail(<<AppendUnclean>>) = <<>>
    BY Tails
  <2>4. Head(plan) # InsertRemote /\ plan' = Tail(plan)
    BY <1>1, <2>1
  <2>5. Fresh /\ Alone /\ (plan = <<AppendRemote>> \/ plan = <<AppendUnclean>>)
    BY <1>2, <2>2, <2>4 DEF AtBring
  <2> QED
    BY <2>3, <2>4, <2>5
<1>4. rem.flags \subseteq {DIRTY} /\ OnHand
  BY <1>3 DEF Fresh
<1>5. PICK new \in Record : /\ new = Rec(rem.id, flags, rem.data)
                            /\ new.id = rem.id /\ new.data = rem.data /\ new.flags \subseteq {DIRTY}
  <2>1. rem \in Record /\ rem.id \in Nat /\ rem.data \in Nat /\ flags \subseteq Flags
    BY CalmFacts, RecordFacts
  <2>2. Rec(rem.id, flags, rem.data) \in Record
    BY <2>1 DEF Rec, Record
  <2> QED
    BY <1>4, <2>2 DEF Rec
<1>6. /\ Recs(localdb') = Recs(localdb) \cup {new}
      /\ \A j \in DOMAIN localdb' : (j \in DOMAIN localdb /\ localdb'[j] = localdb[j]) \/ localdb'[j] = new
  BY <1>1, <1>5, CalmFacts, AppendRecs
<1>7. Growing /\ SameSession /\ PalmElse
  BY <1>1, SamePalm DEF SameSession, sessVars, Growing
<1>8. \A x \in Recs(palm') \cup Recs(localdb') : Decent(x)
  <2>1. Decent(new)
    BY <1>2, <1>5 DEF ListsDecent, Decent
  <2> QED
    BY <1>1, <1>2, <1>6, <2>1 DEF ListsDecent
<1>9. ListElse
  <2>1. \E p \in Recs(palm') : p.id = new.id /\ p.data = new.data
    BY <1>1, <1>4, <1>5 DEF OnHand
  <2>2. \A j \in DOMAIN localdb' : localdb'[j] = new => Good(localdb[j])'
    BY <2>1 DEF Good, OnPalm
  <2>3. li \notin DOMAIN localdb
    BY <1>3, CalmFacts, ListFacts DEF Alone
  <2>4. \A j \in DOMAIN localdb' : (\E k \in DOMAIN localdb \ {li} : localdb'[j] = localdb[k]) \/ Good(localdb[j])'
    BY <1>6, <2>2, <2>3
  <2>5. \A r \in Recs(localdb) : Covered(r.data)'
    BY <1>6 DEF Covered
  <2> QED
    BY <1>5, <1>6, <2>4, <2>5 DEF ListElse
<1>10. \A p \in Recs(palm') : p.id = rem'.id => Finished(p)'
  <2>1. palm' \in Seq(Record) /\ PalmIds' /\ Fresh'
    BY <1>1, <1>3 DEF Calm, Inductive, TypeOK, IdsInv, Fresh, OnHand
  <2>2. \A x \in Recs(localdb') : x.id = rem'.id => x.data = rem'.data
    <3>1. \A x \in Recs(localdb) : x.id # rem.id
      BY <1>3, CalmFacts, ListFacts DEF Alone, Lacks
    <3> QED
      BY <1>1, <1>5, <1>6, <3>1
  <2> QED
    BY <2>1, <2>2, FreshFinished
<1> QED
  BY <1>1, <1>3, <1>7, <1>8, <1>9, <1>10, FirstPhaseStep

(* ... or that is inserted behind localrec.                                *)
LEMMA DoInsertRemoteRemotePhase == ASSUME Calm, pc = "remote", DoInsertRemote PROVE Edits'
<1>1. /\ plan # <<>> /\ plan' = Tail(plan) /\ Head(plan) = InsertRemote
      /\ localdb' = InsertRecord(localdb, li, Rec(rem.id, {}, rem.data))
      /\ UNCHANGED <<palm, nextId, lastSyncPC, backup, archive, sessVars, wanted, edits, remotedb, seen, rem, li>>
  BY DEF DoInsertRemote, Step, NextStep, palmVars, fileVars, userVars
<1>2. FirstPhase /\ RemotePlan /\ ListsDecent /\ AtBring /\ rem.id \in Nat /\ rem.id # 0 /\ Distinct(localdb)
  <2>1. InsertRemote # DeleteLocal
    BY DEF InsertRemote, DeleteLocal
  <2> QED
    BY <1>1, <2>1, AtFirstPhase, RemoteHead
<1>3. \/ plan = <<InsertRemote>> /\ Fresh /\ Good(Localrec) /\ Lacks(localdb, rem.id)
      \/ plan = <<InsertRemote, DeleteLocal>> /\ Ours /\ Fresh /\ Good(Localrec)
  <2>1. InsertRemote \notin {AppendRemote, AppendUnclean}
    BY DEF InsertRemote, AppendRemote, AppendUnclean
  <2> QED
    BY <1>1, <1>2, <2>1, Tails DEF AtBring
<1>4. li \in DOMAIN localdb /\ localdb[li] = Localrec
  <2>1. Head(plan) \in LocalrecSteps
    BY <1>1 DEF LocalrecSteps
  <2>2. plan \in Seq(Steps) /\ LocalrecLive
    BY DEF Calm, Inductive, TypeOK
  <2>3. 1 \in DOMAIN plan /\ Head(plan) = plan[1]
    BY <1>1, <2>2
  <2> QED
    BY <2>1, <2>2, <2>3 DEF LocalrecLive, Localrec
<1>5. rem.flags \subseteq {DIRTY} /\ OnHand /\ Fresh /\ Good(Localrec)
  BY <1>3 DEF Fresh
<1>6. PICK new \in Record : /\ new = Rec(rem.id, {}, rem.data)
                            /\ new.id = rem.id /\ new.data = rem.data /\ new.flags = {}
  <2>1. rem \in Record /\ rem.id \in Nat /\ rem.data \in Nat
    BY CalmFacts, RecordFacts
  <2>2. Rec(rem.id, {}, rem.data) \in Record
    BY <2>1 DEF Rec, Record
  <2> QED
    BY <2>2 DEF Rec
<1>7. /\ li \in DOMAIN localdb' /\ localdb'[li] = localdb[li]
      /\ \A j \in DOMAIN localdb : \E k \in DOMAIN localdb' : localdb'[k] = localdb[j]
      /\ \A j \in DOMAIN localdb' : \/ j = li
                                    \/ localdb'[j] = new
                                    \/ \E k \in DOMAIN localdb \ {li} : localdb'[j] = localdb[k]
  <2>1. PICK db : db = InsertRecord(localdb, li, new)
    OBVIOUS
  <2>2. /\ li \in DOMAIN db /\ db[li] = localdb[li]
        /\ \A j \in DOMAIN localdb : \E k \in DOMAIN db : db[k] = localdb[j]
        /\ \A j \in DOMAIN db : \/ j = li
                                \/ db[j] = new
                                \/ \E k \in DOMAIN localdb \ {li} : db[j] = localdb[k]
    BY <1>4, <2>1, CalmFacts, InsertRecs
  <2> QED
    BY <1>1, <1>6, <2>1, <2>2
<1>8. /\ \A x \in Recs(localdb') : x \in Recs(localdb) \/ x = new
      /\ \A x \in Recs(localdb) : x \in Recs(localdb')
  BY <1>4, <1>7 DEF Recs
<1>9. Growing /\ SameSession /\ PalmElse
  BY <1>1, SamePalm DEF SameSession, sessVars, Growing
<1>10. \A x \in Recs(palm') \cup Recs(localdb') : Decent(x)
  <2>1. Decent(new)
    BY <1>2, <1>6 DEF ListsDecent, Decent
  <2> QED
    BY <1>1, <1>2, <1>8, <2>1 DEF ListsDecent
<1>11. Localrec' = Localrec /\ Fresh' /\ Good(Localrec)'
  <2>1. Localrec' = Localrec
    BY <1>1, <1>4, <1>7 DEF Localrec
  <2>2. Good(Localrec)'
    BY <1>1, <1>5, <2>1 DEF Good, Settled, OnPalm
  <2> QED
    BY <1>1, <1>5, <2>1, <2>2 DEF Fresh, OnHand
<1>12. ListElse
  <2>1. \E p \in Recs(palm') : p.id = new.id /\ p.data = new.data
    BY <1>1, <1>5, <1>6 DEF OnHand
  <2>2. \A j \in DOMAIN localdb' : localdb'[j] = new => Good(localdb[j])'
    BY <2>1 DEF Good, OnPalm
  <2>3. Good(localdb[li])'
    BY <1>1, <1>11 DEF Localrec
  <2>4. \A j \in DOMAIN localdb' : (\E k \in DOMAIN localdb \ {li} : localdb'[j] = localdb[k]) \/ Good(localdb[j])'
    BY <1>1, <1>7, <2>2, <2>3
  <2>5. \A r \in Recs(localdb) : Covered(r.data)'
    BY <1>8 DEF Covered
  <2> QED
    BY <1>6, <1>8, <2>4, <2>5 DEF ListElse
<1>13. /\ plan' # <<>> => RemotePlan'
       /\ plan' = <<>> => \A p \in Recs(palm') : p.id = rem'.id => Finished(p)'
  <2>1. CASE plan = <<InsertRemote>> /\ Lacks(localdb, rem.id)
    <3>1. plan' = <<>>
      BY <1>1, <2>1, Tails
    <3>2. palm' \in Seq(Record) /\ PalmIds' /\ Fresh'
      BY <1>11 DEF Calm, Inductive, TypeOK, IdsInv
    <3>3. \A x \in Recs(localdb') : x.id = rem'.id => x.data = rem'.data
      <4>1. \A x \in Recs(localdb) : x.id # rem.id
        BY <2>1, CalmFacts, ListFacts DEF Lacks
      <4> QED
        BY <1>1, <1>6, <1>8, <4>1
    <3> QED
      BY <3>1, <3>2, <3>3, FreshFinished
  <2>2. CASE plan = <<InsertRemote, DeleteLocal>> /\ Ours
    <3>1. plan' = <<DeleteLocal>> /\ plan' # <<>>
      BY <1>1, <2>2, Tails
    <3>2. Ours'
      BY <1>1, <1>7, <2>2 DEF Ours
    <3>3. \A j \in DOMAIN localdb' : j # li' /\ localdb'[j].id = rem'.id => localdb'[j].data = rem'.data
      <4>1. \A k \in DOMAIN localdb \ {li} : localdb[k].id # rem.id
        BY <1>2, <2>2 DEF Distinct, Ours
      <4> QED
        BY <1>1, <1>6, <1>7, <4>1
    <3>4. AtDeleteLocal'
      BY <1>11, <3>1, <3>2, <3>3 DEF AtDeleteLocal
    <3> QED
      BY <3>1, <3>4 DEF RemotePlan
  <2> QED
    BY <1>3, <2>1, <2>2
<1> QED
  BY <1>1, <1>9, <1>10, <1>12, <1>13, FirstPhaseStep

(* DlpWriteRecord, in the first phase: localrec goes to the Palm, in the   *)
(* place of a record that nobody misses, or under a new ID.                *)
LEMMA UploadEffect ==
    ASSUME Calm, NoFault, pc \in {"remote", "local"}, DoUpload
    PROVE  /\ plan # <<>> /\ plan' = Tail(plan) /\ li \in DOMAIN localdb /\ Localrec \in Record
           /\ UNCHANGED <<lastSyncPC, backup, archive, sessVars, wanted, edits, remotedb, seen, rem, li>>
           /\ \E id \in Nat, newID \in Nat, q \in Record :
                 /\ \/ Head(plan) = UploadLocal /\ id = Localrec.id
                    \/ Head(plan) = UploadAsNew /\ id = 0
                 /\ localdb' = [localdb EXCEPT ![li] = [Localrec EXCEPT !.id = newID]]
                 /\ q.id = newID /\ q.data = Localrec.data /\ q.flags \subseteq {DIRTY}
                 /\ Recs(palm') = {p \in Recs(palm) : p.id # newID} \cup {q}
                 /\ newID = id \/ (newID = nextId /\ \A p \in Recs(palm) : p.id # id)
                 /\ newID # 0 /\ nextId # 0
<1>1. /\ plan # <<>>
      /\ UNCHANGED <<lastSyncPC, backup, archive, host, mode, opened, wanted, edits, remotedb, seen, rem, li>>
  BY DEF DoUpload, Step, fileVars, userVars
<1>2. plan \in Seq(Steps) /\ LocalrecLive /\ pc # "idle"
  BY DEF Calm, Inductive, TypeOK
<1>3. li \in DOMAIN localdb
  <2>1. Head(plan) \in LocalrecSteps
    BY DEF DoUpload, Step, LocalrecSteps
  <2>2. 1 \in DOMAIN plan /\ Head(plan) = plan[1]
    BY <1>1, <1>2
  <2> QED
    BY <1>2, <2>1, <2>2 DEF LocalrecLive
<1>4. /\ Localrec \in Record /\ Localrec = localdb[li] /\ Localrec.id \in Nat /\ Localrec.data \in Nat
      /\ Localrec.id < nextId /\ nextId \in Nat
  BY <1>3, CalmFacts, ListFacts, RecordFacts DEF Localrec
<1>5. online /\ ~ opened
  BY <1>2 DEF Calm, Edits
<1>6. PICK id \in Nat : /\ \/ Head(plan) = UploadLocal /\ id = Localrec.id
                           \/ Head(plan) = UploadAsNew /\ id = 0
                        /\ Upload(id)
  BY <1>4 DEF DoUpload, Step
<1>7. ~ Refused /\ ~ NotWritable /\ ~ Lost(Stored(id, Localrec.data))
  <2>1. Stored(id, Localrec.data) \in BOOLEAN
    BY DEF Stored
  <2> QED
    BY <1>5, <2>1, NoneFails
<1>8. PICK newID \in {id, nextId} :
        /\ Store(id, Localrec.data, newID) /\ plan' = Tail(plan) /\ UNCHANGED <<online, pc, failed>>
        /\ localdb' = [localdb EXCEPT ![li].id = newID]
  BY <1>4, <1>6, <1>7 DEF Upload, NextStep
<1>9. localdb' = [localdb EXCEPT ![li] = [Localrec EXCEPT !.id = newID]]
  BY <1>4, <1>8
<1>10. PICK q \in Record :
         /\ q.id = newID /\ q.data = Localrec.data /\ q.flags \subseteq {DIRTY}
         /\ Recs(palm') = {p \in Recs(palm) : p.id # newID} \cup {q}
         /\ newID = id \/ (newID = nextId /\ \A p \in Recs(palm) : p.id # id)
  <2>1. OrdinaryUse /\ palm \in Seq(Record) /\ nextId \in Nat /\ PalmIds
    BY CalmFacts DEF Calm, IdsInv
  <2>2. Localrec.data \in Nat /\ newID \in Nat /\ Store(id, Localrec.data, newID)
    BY <1>4, <1>8
  <2>3. \E q \in Record :
          /\ q.id = newID /\ q.data = Localrec.data /\ q.flags \subseteq {DIRTY} /\ q.flags \in WriteMarks
          /\ Recs(palm') = {p \in Recs(palm) : p.id # newID} \cup {q}
          /\ newID = id \/ (newID = nextId /\ \A p \in Recs(palm) : p.id # id)
    BY <2>1, <2>2, StoreRecs
  <2> QED
    BY <2>3
<1>11. id < nextId \/ (id = 0 /\ nextId = 0)
  BY <1>4, <1>6
<1>12. nextId # 0
  BY <1>4
<1>13. (newID = id /\ id # 0) \/ newID = nextId
  BY <1>4, <1>6, <1>8, <1>11, <1>12, CalmFacts, StoreIds DEF Calm, IdsInv
<1>14. UNCHANGED sessVars
  BY <1>1, <1>8 DEF sessVars
<1>15. newID \in Nat /\ newID # 0
  BY <1>4, <1>8, <1>12, <1>13
<1>16. /\ plan # <<>> /\ plan' = Tail(plan) /\ li \in DOMAIN localdb /\ Localrec \in Record
       /\ UNCHANGED <<lastSyncPC, backup, archive, sessVars, wanted, edits, remotedb, seen, rem, li>>
  BY <1>1, <1>3, <1>4, <1>8, <1>14
<1> HIDE DEF Localrec
<1> QED
  BY <1>6, <1>9, <1>10, <1>12, <1>15, <1>16

(* The local list afterwards.                                              *)
LEMMA RenamedRecs ==
    ASSUME NEW db \in Seq(Record), NEW i \in DOMAIN db, NEW id \in Nat
    PROVE  LET new == [db EXCEPT ![i] = [db[i] EXCEPT !.id = id]] IN
           /\ DOMAIN new = DOMAIN db /\ \A j \in DOMAIN db : j # i => new[j] = db[j]
           /\ new[i].id = id /\ new[i].data = db[i].data /\ new[i].flags = db[i].flags
           /\ new[i] \in Record
<1>1. PICK r \in Record : r = db[i]
  BY ListFacts
<1>2. PICK s \in Record : /\ s = [r EXCEPT !.id = id]
                          /\ s.id = id /\ s.data = r.data /\ s.flags = r.flags
  <2>1. [r EXCEPT !.id = id] \in Record
    BY DEF Record
  <2>2. /\ [r EXCEPT !.id = id].id = id /\ [r EXCEPT !.id = id].data = r.data
        /\ [r EXCEPT !.id = id].flags = r.flags
    BY DEF Record
  <2> QED
    BY <2>1, <2>2
<1> QED
  BY <1>1, <1>2

LEMMA DoUploadRemotePhase == ASSUME Calm, NoFault, pc = "remote", DoUpload PROVE Edits'
<1>1. /\ plan # <<>> /\ plan' = Tail(plan) /\ li \in DOMAIN localdb /\ Localrec \in Record
      /\ UNCHANGED <<lastSyncPC, backup, archive, sessVars, wanted, edits, remotedb, seen, rem, li>>
  BY UploadEffect
<1>2. PICK id \in Nat, newID \in Nat, q \in Record :
        /\ \/ Head(plan) = UploadLocal /\ id = Localrec.id
           \/ Head(plan) = UploadAsNew /\ id = 0
        /\ localdb' = [localdb EXCEPT ![li] = [Localrec EXCEPT !.id = newID]]
        /\ q.id = newID /\ q.data = Localrec.data /\ q.flags \subseteq {DIRTY}
        /\ Recs(palm') = {p \in Recs(palm) : p.id # newID} \cup {q}
        /\ newID = id \/ (newID = nextId /\ \A p \in Recs(palm) : p.id # id)
        /\ newID # 0 /\ nextId # 0
  BY UploadEffect
<1>3. UploadLocal # UploadAsNew /\ DeleteLocal \notin {UploadLocal, UploadAsNew}
  BY DEF UploadLocal, UploadAsNew, DeleteLocal
<1>4. /\ FirstPhase /\ RemotePlan /\ ListsDecent /\ AtUpload /\ rem.id # 0 /\ rem.id \in Nat
      /\ Distinct(localdb) /\ nextId \in Nat /\ rem.id < nextId
  BY <1>1, <1>2, <1>3, AtFirstPhase, RemoteHead, CalmFacts DEF Calm, IdsInv
<1>5. /\ Ours /\ localdb[li].id = rem.id /\ Localrec = localdb[li] /\ Localrec.id = rem.id
      /\ Localrec \in Recs(localdb)
  BY <1>1, <1>4, AtFirstPhase DEF AtUpload, Takes, Ours, Localrec
<1>6. \/ plan = <<UploadLocal>> /\ Takes /\ id = rem.id
      \/ plan = <<UploadAsNew, InsertRemote>> /\ Fresh /\ id = 0
  BY <1>2, <1>3, <1>4, <1>5, Tails DEF AtUpload
<1>7. newID \in {rem.id, nextId} /\ (newID = rem.id => Takes)
  BY <1>2, <1>4, <1>6
<1>8. /\ DOMAIN localdb' = DOMAIN localdb /\ \A j \in DOMAIN localdb : j # li => localdb'[j] = localdb[j]
      /\ localdb'[li].id = newID /\ localdb'[li].data = Localrec.data
      /\ localdb'[li].flags = Localrec.flags /\ localdb'[li] \in Record
  BY <1>1, <1>2, <1>5, CalmFacts, RenamedRecs
<1>9. Growing /\ SameSession
  BY <1>1 DEF SameSession, sessVars, Growing
<1>10. PalmKeeps
  <2> SUFFICES ASSUME NEW p \in Recs(palm), ~ Settled(p.data)'
               PROVE  \E x \in Recs(palm') : x.id = p.id /\ x.data = p.data
    BY DEF PalmKeeps
  <2>1. CASE p.id # newID
    BY <1>2, <2>1
  <2>2. CASE p.id = newID
    <3>1. newID = rem.id
      BY <1>7, <2>2, CalmFacts
    <3>2. Agree(p, Localrec) /\ ~ Settled(p.data)
      BY <1>7, <1>9, <3>1, SettledStays DEF Takes
    <3>3. p.data = Localrec.data
      BY <1>5, <2>2, <3>1, <3>2 DEF Agree
    <3> QED
      BY <1>2, <2>2, <3>3
  <2> QED
    BY <2>1, <2>2
<1>11. \A r \in Recs(localdb') : /\ Decent(r)
                                 /\ r.id = newID => r.data = q.data \/ newID # nextId
                                 /\ r.id = newID \/ r \in Recs(localdb)
                                 /\ r.id = rem.id => r.data = Localrec.data
  <2> SUFFICES ASSUME NEW j \in DOMAIN localdb'
               PROVE  /\ Decent(localdb'[j])
                      /\ localdb'[j].id = newID => localdb'[j].data = q.data \/ newID # nextId
                      /\ localdb'[j].id = newID \/ localdb'[j] \in Recs(localdb)
                      /\ localdb'[j].id = rem.id => localdb'[j].data = Localrec.data
    BY DEF Recs
  <2>1. CASE j = li
    BY <1>2, <1>4, <1>5, <1>8, <2>1 DEF Decent, ListsDecent
  <2>2. CASE j # li
    <3>1. localdb'[j] = localdb[j] /\ localdb[j] \in Recs(localdb)
      BY <1>8, <2>2 DEF Recs
    <3>2. localdb[j].id # rem.id /\ localdb[j].id < nextId
      BY <1>1, <1>4, <1>5, <1>8, <2>2, <3>1, CalmFacts DEF Distinct
    <3> QED
      BY <1>4, <3>1, <3>2 DEF ListsDecent
  <2> QED
    BY <2>1, <2>2
<1>12. IsLive(q)
  BY <1>2 DEF IsLive, DIRTY, DELETED, ARCHIVE, EXPUNGED
<1>13. newID = nextId => Finished(q)'
  BY <1>2, <1>11, <1>12 DEF Finished, AgreesAll, Agree
<1>14. PalmElse
  <2>1. \A p \in Recs(palm) : p.id # rem.id => p \in Recs(palm')
    BY <1>2, <1>7, CalmFacts
  <2>2. \A x \in Recs(palm') : x.id = rem.id \/ x \in Recs(palm) \/ Finished(x)'
    BY <1>2, <1>7, <1>13
  <2> QED
    BY <1>1, <1>10, <2>1, <2>2 DEF PalmElse
<1>15. /\ Localrec' \in Recs(localdb') /\ Localrec'.id = newID /\ Localrec'.data = Localrec.data
       /\ Good(localdb[li])' /\ Good(Localrec)'
  <2>1. Localrec' = localdb'[li]
    BY <1>1 DEF Localrec
  <2>2. OnPalm(Localrec)'
    BY <1>2, <1>8, <2>1 DEF OnPalm
  <2> QED
    BY <1>1, <1>8, <2>1, <2>2 DEF Good, Localrec, Recs
<1>16. ListElse
  <2>1. \A r \in Recs(localdb') : r.id = rem.id \/ r.id = nextId \/ r \in Recs(localdb)
    BY <1>7, <1>11
  <2>2. ASSUME NEW j \in DOMAIN localdb PROVE \E s \in Recs(localdb') : s.data = localdb[j].data
    BY <1>5, <1>8 DEF Recs
  <2>3. \A r \in Recs(localdb) : Covered(r.data)'
    BY <2>2 DEF Covered, Recs
  <2>4. \A j \in DOMAIN localdb' : (\E k \in DOMAIN localdb \ {li} : localdb'[j] = localdb[k]) \/ Good(localdb[j])'
    <3> SUFFICES ASSUME NEW j \in DOMAIN localdb'
                 PROVE  (\E k \in DOMAIN localdb \ {li} : localdb'[j] = localdb[k]) \/ Good(localdb[j])'
      OBVIOUS
    <3>1. CASE j = li
      BY <1>1, <1>15, <3>1
    <3>2. CASE j # li
      BY <1>8, <3>2
    <3> QED
      BY <3>1, <3>2
  <2> QED
    BY <2>1, <2>3, <2>4 DEF ListElse
<1>17. \A x \in Recs(palm') \cup Recs(localdb') : Decent(x)
  <2>1. Decent(q)
    BY <1>2, <1>4, <1>5 DEF ListsDecent, Decent
  <2> QED
    BY <1>2, <1>4, <1>11, <2>1 DEF ListsDecent
<1>18. ASSUME plan = <<UploadLocal>>, NEW p \in Recs(palm'), p.id = rem.id PROVE Finished(p)'
  <2>1. p = q /\ newID = rem.id
    BY <1>2, <1>6, <1>7, <1>18, <1>3
  <2> QED
    BY <1>2, <1>11, <1>12, <2>1 DEF Finished, AgreesAll, Agree
<1>19. ASSUME plan = <<UploadAsNew, InsertRemote>>, Fresh, id = 0 PROVE plan' # <<>> /\ RemotePlan'
  <2>1. newID = nextId /\ plan' = <<InsertRemote>> /\ plan' # <<>>
    BY <1>1, <1>2, <1>19, Tails
  <2>2. Fresh'
    <3>1. PICK p \in Recs(palm) : p.id = rem.id /\ p.data = rem.data /\ (IsLive(rem) => IsLive(p))
      BY <1>19 DEF Fresh, OnHand
    <3>2. p \in Recs(palm')
      BY <1>2, <2>1, CalmFacts
    <3> QED
      BY <1>1, <1>19, <3>1, <3>2 DEF Fresh, OnHand
  <2>3. Lacks(localdb', rem.id)
    <3> SUFFICES ASSUME NEW j \in DOMAIN localdb PROVE localdb'[j].id # rem.id
      BY <1>8 DEF Lacks
    <3>1. CASE j = li
      BY <1>4, <1>8, <2>1, <3>1
    <3>2. CASE j # li
      BY <1>1, <1>4, <1>5, <1>8, <3>2 DEF Distinct
    <3> QED
      BY <3>1, <3>2
  <2>4. AtBring'
    BY <1>1, <1>15, <2>1, <2>2, <2>3 DEF AtBring
  <2> QED
    BY <2>1, <2>4 DEF RemotePlan
<1>20. plan = <<UploadLocal>> => plan' = <<>>
  BY <1>1, Tails
<1> QED
  BY <1>1, <1>6, <1>9, <1>14, <1>16, <1>17, <1>18, <1>19, <1>20, FirstPhaseStep

(* The record in hand is unlinked from the downloaded list.                *)
LEMMA DoDropRemoteRemotePhase == ASSUME Calm, pc = "remote", DoDropRemote PROVE Edits'
<1>1. /\ plan # <<>> /\ plan' = Tail(plan) /\ Head(plan) = DropRemote
      /\ remotedb' = DeleteRecordByID(remotedb, rem.id)
      /\ UNCHANGED <<palm, nextId, lastSyncPC, backup, archive, sessVars, wanted, edits, localdb, seen, rem, li>>
  BY DEF DoDropRemote, Step, NextStep, palmVars, fileVars, userVars
<1>2. FirstPhase /\ RemotePlan /\ ListsDecent /\ AtDrop /\ rem.id \in Nat
  BY <1>1, AtFirstPhase, RemoteHead
<1>3. Parted /\ Alone /\ plan' = <<>>
  BY <1>1, <1>2, Tails DEF AtDrop
<1>4. Growing /\ SameSession
  BY <1>1 DEF SameSession, sessVars, Growing
<1>5. /\ \A r \in Recs(remotedb') : r \in Recs(remotedb)
      /\ \A r \in Recs(remotedb) : r.id # rem.id => r \in Recs(remotedb')
  <2>1. PICK k : k = FindRecordByID(remotedb, rem.id)
    OBVIOUS
  <2>2. CASE k = 0
    BY <1>1, <1>2, <2>1, <2>2, CalmFacts, FindFacts
  <2>3. CASE k # 0
    <3>1. k \in DOMAIN remotedb /\ remotedb[k].id = rem.id /\ remotedb' = Without(remotedb, k)
      BY <1>1, <1>2, <2>1, <2>3, CalmFacts, FindFacts
    <3>2. /\ \A j \in DOMAIN remotedb' : \E i \in DOMAIN remotedb : remotedb'[j] = remotedb[i]
          /\ \A i \in DOMAIN remotedb \ {k} : \E j \in DOMAIN remotedb' : remotedb'[j] = remotedb[i]
      <4>1. PICK w : w = Without(remotedb, k)
        OBVIOUS
      <4>2. /\ \A j \in DOMAIN w : \/ j < k /\ j \in DOMAIN remotedb \ {k} /\ w[j] = remotedb[j]
                                   \/ j >= k /\ j + 1 \in DOMAIN remotedb \ {k} /\ w[j] = remotedb[j + 1]
            /\ \A j \in DOMAIN remotedb \ {k} : \/ j < k /\ j \in DOMAIN w /\ w[j] = remotedb[j]
                                                \/ j > k /\ j - 1 \in DOMAIN w /\ w[j - 1] = remotedb[j]
        BY <3>1, <4>1, CalmFacts, WithoutRecs
      <4> QED
        BY <3>1, <4>1, <4>2
    <3> QED
      BY <3>1, <3>2 DEF Recs
  <2> QED
    BY <2>2, <2>3
<1>6. PalmElse
  BY <1>1, <1>5 DEF PalmElse, PalmKeeps
<1>7. ListElse
  <2>1. 0 \notin DOMAIN localdb
    BY CalmFacts, ListFacts
  <2> QED
    BY <1>1, <1>3, <1>4, <1>6, <2>1, SameList DEF PalmElse, Alone
<1>8. Parted'
  BY <1>1, <1>3, <1>4, FactsStay
<1>9. \A x \in Recs(palm') \cup Recs(localdb') : Decent(x)
  BY <1>1, <1>2 DEF ListsDecent
<1>10. \A p \in Recs(palm') : p.id = rem.id => Finished(p)'
  BY <1>1, <1>8, PartedFinished
<1> QED
  BY <1>1, <1>3, <1>4, <1>6, <1>7, <1>9, <1>10, FirstPhaseStep

(* Every step of a plan of SyncRecord.                                     *)
LEMMA RemotePhaseSteps == ASSUME Calm, NoFault, pc = "remote", SyncRecordStep PROVE Edits'
<1>1. ~ DoPurgeLocal
  <2>1. SUFFICES ASSUME DoPurgeLocal PROVE FALSE
    OBVIOUS
  <2>2. plan # <<>> /\ Head(plan) = PurgeLocal
    BY <2>1 DEF DoPurgeLocal, Step
  <2> QED
    BY <2>2, AtFirstPhase, RemoteHead
<1> QED
  BY <1>1, DoArchiveRemotePhase, DoClearLocalRemotePhase, DoDeleteLocalRemotePhase,
     DoDeleteRemoteRemotePhase, DoAppendRemoteRemotePhase, DoInsertRemoteRemotePhase,
     DoUploadRemotePhase, DoDropRemoteRemotePhase
  DEF SyncRecordStep

(* What the four cases of SyncRecord say of a record of ordinary use.      *)
LEMMA StatusFacts ==
    ASSUME NEW r \in Record, Decent(r)
    PROVE  /\ Status(r) \in Statuses
           /\ Status(r) = "expunged" => Settled(r.data)
           /\ Status(r) = "dirty" => r.flags \subseteq {DIRTY}
           /\ Status(r) = "clean" => r.flags = {}
           /\ EXPUNGED \in r.flags => Settled(r.data)
           /\ EXPUNGED \notin r.flags /\ (ARCHIVE \notin r.flags \/ ~ ToArchive(r)) => r.flags \subseteq {DIRTY}
<1>1. /\ DIRTY # DELETED /\ DIRTY # ARCHIVE /\ DIRTY # EXPUNGED
      /\ DELETED # ARCHIVE /\ DELETED # EXPUNGED /\ ARCHIVE # EXPUNGED
  BY DEF DIRTY, DELETED, ARCHIVE, EXPUNGED
<1>2. r.flags \subseteq {DIRTY, DELETED, ARCHIVE, EXPUNGED}
  BY DEF Record, Flags
<1>3. \/ r.flags \subseteq {DIRTY}
      \/ {DELETED, ARCHIVE} \subseteq r.flags /\ EXPUNGED \notin r.flags
      \/ EXPUNGED \in r.flags /\ ARCHIVE \notin r.flags /\ r.data \notin wanted
  BY DEF Decent
<1>4. EXPUNGED \in r.flags => Settled(r.data) /\ ARCHIVE \notin r.flags
  BY <1>1, <1>3 DEF Settled
<1>5. EXPUNGED \notin r.flags /\ (ARCHIVE \notin r.flags \/ DELETED \notin r.flags) => r.flags \subseteq {DIRTY}
  BY <1>3
<1>6. Status(r) = IF r.flags \cap {DELETED, DIRTY} # {} /\ ARCHIVE \in r.flags THEN "archived"
                  ELSE IF EXPUNGED \in r.flags THEN "expunged"
                  ELSE IF DIRTY \in r.flags THEN "dirty" ELSE "clean"
  BY DEF Status
<1>7. Status(r) \in Statuses
  BY <1>6 DEF Statuses
<1>8. Status(r) = "expunged" => EXPUNGED \in r.flags
  BY <1>6
<1>9. Status(r) \in {"dirty", "clean"} => EXPUNGED \notin r.flags /\ (ARCHIVE \notin r.flags \/ DELETED \notin r.flags)
  BY <1>6
<1>10. Status(r) = "clean" => DIRTY \notin r.flags
  BY <1>6
<1>11. ARCHIVE \notin r.flags \/ ~ ToArchive(r) => ARCHIVE \notin r.flags \/ DELETED \notin r.flags
  BY DEF ToArchive
<1> QED
  BY <1>4, <1>5, <1>7, <1>8, <1>9, <1>10, <1>11

(* SlowSync's comparison only ever adds the bit `dirty'.                   *)
LEMMA DistrustFacts ==
    ASSUME NEW l \in Record, NEW r \in Record
    PROVE  LET d == DistrustClean(l, r) IN
           /\ d \in Record /\ d.id = r.id /\ d.data = r.data
           /\ Decent(r) => Decent(d)
           /\ IsLive(d) => IsLive(r)
           /\ DIRTY \notin d.flags => l.data = r.data
<1>1. CASE DIRTY \notin r.flags /\ l.data # r.data
  <2>1. PICK d : d = [r EXCEPT !.flags = r.flags \cup {DIRTY}]
    OBVIOUS
  <2>2. d \in Record /\ d.id = r.id /\ d.data = r.data /\ d.flags = r.flags \cup {DIRTY}
    BY <2>1 DEF Record, Flags
  <2>3. Decent(r) => Decent(d)
    <3>1. DIRTY # ARCHIVE /\ DIRTY # EXPUNGED
      BY DEF DIRTY, ARCHIVE, EXPUNGED
    <3>2. r.flags \subseteq {DIRTY} => d.flags \subseteq {DIRTY}
      BY <2>2
    <3>3. {DELETED, ARCHIVE} \subseteq r.flags => {DELETED, ARCHIVE} \subseteq d.flags
      BY <2>2
    <3>4. (EXPUNGED \in r.flags <=> EXPUNGED \in d.flags) /\ (ARCHIVE \in r.flags <=> ARCHIVE \in d.flags)
      BY <2>2, <3>1
    <3> QED
      BY <2>2, <3>2, <3>3, <3>4 DEF Decent
  <2>4. IsLive(d) => IsLive(r)
    BY <2>2 DEF IsLive
  <2> QED
    BY <1>1, <2>1, <2>2, <2>3, <2>4 DEF DistrustClean
<1>2. CASE ~ (DIRTY \notin r.flags /\ l.data # r.data)
  BY <1>2 DEF DistrustClean
<1> QED
  BY <1>1, <1>2

(* SyncRecord's table, entry by entry.                                     *)
LEMMA TableRows ==
    ASSUME NEW l, NEW r
    PROVE  /\ Status(r) = "archived" =>
                /\ Status(l) = "archived" => SyncRecordPlan(l, r) =
                      IF l.data = r.data THEN <<ArchiveLocal, DeleteRemote, DeleteLocal>>
                      ELSE <<ArchiveLocal, ArchiveRemote, DeleteRemote, DeleteLocal>>
                /\ Status(l) = "expunged" => SyncRecordPlan(l, r) = <<ArchiveRemote, DeleteRemote, DeleteLocal>>
                /\ Status(l) = "dirty" => SyncRecordPlan(l, r) = <<ArchiveRemote, ClearLocal, UploadLocal>>
                /\ Status(l) = "clean" => SyncRecordPlan(l, r) = <<ArchiveRemote, DeleteLocal>>
           /\ Status(r) = "expunged" =>
                /\ Status(l) = "archived" => SyncRecordPlan(l, r) = <<ClearLocal, ArchiveLocal, DeleteLocal>>
                /\ Status(l) = "expunged" => SyncRecordPlan(l, r) = <<DeleteLocal>>
                /\ Status(l) = "dirty" => SyncRecordPlan(l, r) = <<DeleteRemote, ClearLocal, UploadLocal>>
                /\ Status(l) = "clean" => SyncRecordPlan(l, r) = <<DeleteLocal>>
           /\ Status(r) = "dirty" =>
                /\ Status(l) = "archived" => SyncRecordPlan(l, r) = <<ClearLocal, ArchiveLocal, DeleteLocal, AppendUnclean>>
                /\ Status(l) = "expunged" => SyncRecordPlan(l, r) = <<DeleteLocal, AppendRemote>>
                /\ Status(l) = "dirty" => SyncRecordPlan(l, r) =
                      IF l.data = r.data THEN <<ClearLocal>> ELSE <<ClearLocal, UploadAsNew, InsertRemote>>
                /\ Status(l) = "clean" => SyncRecordPlan(l, r) = <<InsertRemote, DeleteLocal>>
           /\ Status(r) = "clean" =>
                /\ Status(l) = "archived" => SyncRecordPlan(l, r) = <<ClearLocal, ArchiveLocal, DeleteLocal, DeleteRemote>>
                /\ Status(l) = "expunged" => SyncRecordPlan(l, r) = <<DeleteLocal, DeleteRemote>>
                /\ Status(l) = "dirty" => SyncRecordPlan(l, r) = <<ClearLocal, UploadLocal>>
                /\ Status(l) = "clean" => SyncRecordPlan(l, r) = <<>>
<1> DEFINE t == Status(r)
           s == Status(l)
<1>1. SyncRecordPlan(l, r) =
        IF l.data = r.data /\ t = "archived" /\ s = "archived"
        THEN <<ArchiveLocal, DeleteRemote, DeleteLocal>>
        ELSE IF l.data = r.data /\ t = "dirty" /\ s = "dirty" THEN <<ClearLocal>>
        ELSE SyncRecordTable[t][s]
  BY DEF SyncRecordPlan
<1> HIDE DEF s, t
<1>2. t = "archived" =>
        /\ s = "archived" => SyncRecordTable[t][s] = <<ArchiveLocal, ArchiveRemote, DeleteRemote, DeleteLocal>>
        /\ s = "expunged" => SyncRecordTable[t][s] = <<ArchiveRemote, DeleteRemote, DeleteLocal>>
        /\ s = "dirty" => SyncRecordTable[t][s] = <<ArchiveRemote, ClearLocal, UploadLocal>>
        /\ s = "clean" => SyncRecordTable[t][s] = <<ArchiveRemote, DeleteLocal>>
  BY DEF SyncRecordTable, RemoteArchived
<1>3. t = "expunged" =>
        /\ s = "archived" => SyncRecordTable[t][s] = <<ClearLocal, ArchiveLocal, DeleteLocal>>
        /\ s = "expunged" => SyncRecordTable[t][s] = <<DeleteLocal>>
        /\ s = "dirty" => SyncRecordTable[t][s] = <<DeleteRemote, ClearLocal, UploadLocal>>
        /\ s = "clean" => SyncRecordTable[t][s] = <<DeleteLocal>>
  BY DEF SyncRecordTable, RemoteExpunged
<1>4. t = "dirty" =>
        /\ s = "archived" => SyncRecordTable[t][s] = <<ClearLocal, ArchiveLocal, DeleteLocal, AppendUnclean>>
        /\ s = "expunged" => SyncRecordTable[t][s] = <<DeleteLocal, AppendRemote>>
        /\ s = "dirty" => SyncRecordTable[t][s] = <<ClearLocal, UploadAsNew, InsertRemote>>
        /\ s = "clean" => SyncRecordTable[t][s] = <<InsertRemote, DeleteLocal>>
  BY DEF SyncRecordTable, RemoteDirty
<1>5. t = "clean" =>
        /\ s = "archived" => SyncRecordTable[t][s] = <<ClearLocal, ArchiveLocal, DeleteLocal, DeleteRemote>>
        /\ s = "expunged" => SyncRecordTable[t][s] = <<DeleteLocal, DeleteRemote>>
        /\ s = "dirty" => SyncRecordTable[t][s] = <<ClearLocal, UploadLocal>>
        /\ s = "clean" => SyncRecordTable[t][s] = <<>>
  BY DEF SyncRecordTable, RemoteClean
<1> QED
  BY <1>1, <1>2, <1>3, <1>4, <1>5 DEF s, t

(* It is right: for every pair of statuses, what the plan relies on holds  *)
(* when it begins.                                                         *)
LEMMA TableRight ==
    ASSUME NEW r \in Record, NEW l \in Record, rem' = r, Localrec' = l, Growing, UNCHANGED archive,
           Decent(r), Decent(l), Ours', OnHand', Settled(r.data) => Parted', l.data = r.data => Takes',
           l.flags = {} => Good(Localrec)',
           r.flags = {} => l.data = r.data,
           plan' = SyncRecordPlan(l, r)
    PROVE  \/ plan' # <<>> /\ RemotePlan'
           \/ plan' = <<>> /\ Fresh' /\ l.data = r.data
<1>1. /\ Status(r) \in Statuses /\ Status(l) \in Statuses
      /\ Status(r) = "expunged" => Parted'
      /\ Status(r) \in {"dirty", "clean"} => Fresh'
      /\ Status(r) = "clean" => l.data = r.data
      /\ Status(l) = "expunged" => Settled(l.data) /\ Settled(Localrec.data)' /\ Good(Localrec)'
      /\ Status(l) = "clean" => Good(Localrec)'
  <2>1. Settled(l.data) => Settled(Localrec.data)' /\ Good(Localrec)'
    BY DEF Settled, Growing, Good
  <2> QED
    BY <2>1, StatusFacts DEF Fresh
<1>2. l.data = r.data => Twin'
  BY DEF Twin
<1>3. CASE Status(r) = "archived"
  <2>1. CASE Status(l) = "archived"
    <3>1. \/ plan' = <<ArchiveLocal, DeleteRemote, DeleteLocal>> /\ l.data = r.data
          \/ plan' = <<ArchiveLocal, ArchiveRemote, DeleteRemote, DeleteLocal>>
      BY <1>3, <2>1, TableRows
    <3>2. AtArchiveLocal'
      BY <1>2, <3>1 DEF AtArchiveLocal
    <3> QED
      BY <3>1, <3>2, Tails DEF RemotePlan
  <2>2. CASE Status(l) = "expunged"
    <3>1. plan' = <<ArchiveRemote, DeleteRemote, DeleteLocal>>
      BY <1>3, <2>2, TableRows
    <3>2. AtArchiveRemote'
      BY <1>1, <2>2, <3>1 DEF AtArchiveRemote
    <3> QED
      BY <3>1, <3>2, Tails DEF RemotePlan
  <2>3. CASE Status(l) = "dirty"
    <3>1. plan' = <<ArchiveRemote, ClearLocal, UploadLocal>>
      BY <1>3, <2>3, TableRows
    <3>2. AtArchiveRemote'
      BY <3>1 DEF AtArchiveRemote
    <3> QED
      BY <3>1, <3>2, Tails DEF RemotePlan
  <2>4. CASE Status(l) = "clean"
    <3>1. plan' = <<ArchiveRemote, DeleteLocal>>
      BY <1>3, <2>4, TableRows
    <3>2. AtArchiveRemote'
      BY <1>1, <2>4, <3>1 DEF AtArchiveRemote
    <3> QED
      BY <3>1, <3>2, Tails DEF RemotePlan
  <2> QED
    BY <1>1, <2>1, <2>2, <2>3, <2>4 DEF Statuses
<1>4. CASE Status(r) = "expunged"
  <2>1. CASE Status(l) = "archived"
    <3>1. plan' = <<ClearLocal, ArchiveLocal, DeleteLocal>>
      BY <1>4, <2>1, TableRows
    <3>2. AtClearLocal'
      BY <1>1, <1>4, <3>1 DEF AtClearLocal
    <3> QED
      BY <3>1, <3>2, Tails DEF RemotePlan
  <2>2. CASE Status(l) \in {"expunged", "clean"}
    <3>1. plan' = <<DeleteLocal>>
      BY <1>4, <2>2, TableRows
    <3>2. AtDeleteLocal'
      BY <1>1, <1>4, <2>2, <3>1 DEF AtDeleteLocal
    <3> QED
      BY <3>1, <3>2, Tails DEF RemotePlan
  <2>3. CASE Status(l) = "dirty"
    <3>1. plan' = <<DeleteRemote, ClearLocal, UploadLocal>>
      BY <1>4, <2>3, TableRows
    <3>2. AtDeleteRemote'
      BY <1>1, <1>4, <3>1 DEF AtDeleteRemote
    <3> QED
      BY <3>1, <3>2, Tails DEF RemotePlan
  <2> QED
    BY <1>1, <2>1, <2>2, <2>3 DEF Statuses
<1>5. CASE Status(r) = "dirty"
  <2>1. CASE Status(l) = "archived"
    <3>1. plan' = <<ClearLocal, ArchiveLocal, DeleteLocal, AppendUnclean>>
      BY <1>5, <2>1, TableRows
    <3>2. AtClearLocal'
      BY <1>1, <1>5, <3>1 DEF AtClearLocal
    <3> QED
      BY <3>1, <3>2, Tails DEF RemotePlan
  <2>2. CASE Status(l) = "expunged"
    <3>1. plan' = <<DeleteLocal, AppendRemote>>
      BY <1>5, <2>2, TableRows
    <3>2. AtDeleteLocal'
      BY <1>1, <1>5, <2>2, <3>1 DEF AtDeleteLocal
    <3> QED
      BY <3>1, <3>2, Tails DEF RemotePlan
  <2>3. CASE Status(l) = "dirty"
    <3>1. \/ plan' = <<ClearLocal>> /\ l.data = r.data
          \/ plan' = <<ClearLocal, UploadAsNew, InsertRemote>>
      BY <1>5, <2>3, TableRows
    <3>2. AtClearLocal'
      BY <1>1, <1>2, <1>5, <3>1 DEF AtClearLocal
    <3> QED
      BY <3>1, <3>2, Tails DEF RemotePlan
  <2>4. CASE Status(l) = "clean"
    <3>1. plan' = <<InsertRemote, DeleteLocal>>
      BY <1>5, <2>4, TableRows
    <3>2. AtBring'
      BY <1>1, <1>5, <2>4, <3>1 DEF AtBring
    <3> QED
      BY <3>1, <3>2, Tails DEF RemotePlan
  <2> QED
    BY <1>1, <2>1, <2>2, <2>3, <2>4 DEF Statuses
<1>6. CASE Status(r) = "clean"
  <2>1. CASE Status(l) = "archived"
    <3>1. plan' = <<ClearLocal, ArchiveLocal, DeleteLocal, DeleteRemote>>
      BY <1>6, <2>1, TableRows
    <3>2. AtClearLocal'
      BY <1>1, <1>2, <1>6, <3>1 DEF AtClearLocal
    <3> QED
      BY <3>1, <3>2, Tails DEF RemotePlan
  <2>2. CASE Status(l) = "expunged"
    <3>1. plan' = <<DeleteLocal, DeleteRemote>>
      BY <1>6, <2>2, TableRows
    <3>2. Parted'
      BY <1>1, <1>6, <2>2
    <3>3. AtDeleteLocal'
      BY <1>1, <2>2, <3>1, <3>2 DEF AtDeleteLocal
    <3> QED
      BY <3>1, <3>3, Tails DEF RemotePlan
  <2>3. CASE Status(l) = "dirty"
    <3>1. plan' = <<ClearLocal, UploadLocal>>
      BY <1>6, <2>3, TableRows
    <3>2. AtClearLocal'
      BY <1>1, <1>6, <3>1 DEF AtClearLocal
    <3> QED
      BY <3>1, <3>2, Tails DEF RemotePlan
  <2>4. CASE Status(l) = "clean"
    BY <1>1, <1>6, <2>4, TableRows
  <2> QED
    BY <1>1, <2>1, <2>2, <2>3, <2>4 DEF Statuses
<1> QED
  BY <1>1, <1>3, <1>4, <1>5, <1>6 DEF Statuses

(* The next record of the Palm, and the plan for it.                       *)
LEMMA NewPlanRight ==
    ASSUME NEW r \in Record, rem' = r, Growing, UNCHANGED archive, Decent(r),
           OnHand', Alone', Settled(r.data) => Parted',
           plan' = SlowNewPlan(r) \/ plan' = FastNewPlan(r)
    PROVE  \/ plan' # <<>> /\ RemotePlan'
           \/ plan' = <<>> /\ Parted'
<1>1. /\ EXPUNGED \in r.flags => Parted'
      /\ EXPUNGED \notin r.flags /\ (ARCHIVE \notin r.flags \/ ~ ToArchive(r)) => Fresh'
  BY StatusFacts DEF Fresh
<1>2. \/ plan' = <<ArchiveRemote>>
      \/ plan' = <<DropRemote>> /\ EXPUNGED \in r.flags
      \/ plan' = <<>> /\ EXPUNGED \in r.flags
      \/ plan' = <<AppendRemote>> /\ EXPUNGED \notin r.flags /\ (ARCHIVE \notin r.flags \/ ~ ToArchive(r))
  BY DEF SlowNewPlan, FastNewPlan
<1>3. CASE plan' = <<ArchiveRemote>>
  <2>1. AtArchiveRemote'
    BY <1>3 DEF AtArchiveRemote
  <2> QED
    BY <1>3, <2>1, Tails DEF RemotePlan
<1>4. CASE plan' = <<DropRemote>> /\ EXPUNGED \in r.flags
  <2>1. AtDrop'
    BY <1>1, <1>4 DEF AtDrop
  <2> QED
    BY <1>4, <2>1, Tails DEF RemotePlan
<1>5. CASE plan' = <<AppendRemote>> /\ EXPUNGED \notin r.flags /\ (ARCHIVE \notin r.flags \/ ~ ToArchive(r))
  <2>1. AtBring'
    BY <1>1, <1>5 DEF AtBring
  <2> QED
    BY <1>5, <2>1, Tails DEF RemotePlan
<1> QED
  BY <1>1, <1>2, <1>3, <1>4, <1>5

LEMMA DecideEdits ==
    ASSUME Calm, pc = "remote", plan = <<>>, NEW new \in Recs(palm), new.id \notin seen,
           NEW newPlan, newPlan = SlowNewPlan(new) \/ newPlan = FastNewPlan(new),
           mode = "fast" => new.flags # {},
           Decide(new, newPlan),
           UNCHANGED <<palmVars, fileVars, sessVars, userVars, localdb>>,
           \A x \in Recs(remotedb') : Decent(x) /\ (x.id \notin seen' => x \in Recs(remotedb)),
           \A x \in Recs(remotedb) : \E y \in Recs(remotedb') : y.id = x.id
    PROVE  Edits'
<1>1. FirstPhase /\ ListsDecent /\ AllInPlace /\ FilesGood /\ online /\ ~ opened
  BY DEF Calm, Edits
<1>2. UNCHANGED <<palm, nextId, lastSyncPC, backup, archive, sessVars, pc, mode, host, opened, online, wanted, edits, localdb>>
  BY DEF palmVars, fileVars, sessVars, userVars
<1>3. Growing /\ PalmKeeps
  BY <1>2 DEF Growing, PalmKeeps
<1>4. /\ new \in Record /\ new.id # 0 /\ new.id \in Nat /\ Decent(new)
      /\ \A p \in Recs(palm) : p.id = new.id => p = new
  BY <1>1, CalmFacts, RecordFacts DEF ListsDecent
<1>5. PICK i : i = FindRecordByID(localdb, new.id)
  OBVIOUS
<1>6. /\ li' = i /\ seen' = seen \cup {new.id}
      /\ i = 0 => rem' = new /\ plan' = newPlan
      /\ i # 0 => /\ rem' = IF mode = "slow" THEN DistrustClean(localdb[i], new) ELSE new
                  /\ plan' = SyncRecordPlan(localdb[i], rem')
  BY <1>5 DEF Decide
<1>7. /\ i = 0 => Lacks(localdb, new.id)
      /\ i # 0 => i \in DOMAIN localdb /\ localdb[i].id = new.id /\ localdb[i] \in Record /\ localdb[i] \in Recs(localdb)
  BY <1>4, <1>5, CalmFacts, ListFacts, FindFacts
<1>8. PICK r \in Record : /\ rem' = r /\ r.id = new.id /\ r.data = new.data /\ Decent(r)
                          /\ IsLive(r) => IsLive(new)
                          /\ i = 0 => r = new
                          /\ i # 0 /\ r.flags = {} => localdb[i].data = r.data
  <2>1. CASE i # 0 /\ mode = "slow"
    <3>1. rem' = DistrustClean(localdb[i], new)
      BY <1>6, <2>1
    <3> QED
      BY <1>4, <1>7, <2>1, <3>1, DistrustFacts
  <2>2. CASE i = 0 \/ mode # "slow"
    <3>1. rem' = new /\ (i = 0 \/ mode = "fast")
      BY <1>1, <1>6, <2>2 DEF FirstPhase
    <3> QED
      BY <1>4, <3>1
  <2> QED
    BY <2>1, <2>2
<1>9. OnHand' /\ (Settled(r.data) => Parted')
  <2>1. OnHand'
    BY <1>2, <1>8 DEF OnHand
  <2>2. Settled(r.data) => Parted'
    BY <1>2, <1>4, <1>8, SettledStays, <1>3 DEF Parted
  <2> QED
    BY <2>1, <2>2
<1>10. \/ plan' # <<>> /\ RemotePlan'
       \/ plan' = <<>> /\ \A p \in Recs(palm') : p.id = new.id => Finished(p)'
  <2>1. CASE i = 0
    <3>1. Alone'
      BY <1>2, <1>6, <1>7, <1>8, <2>1 DEF Alone
    <3>2. (plan' # <<>> /\ RemotePlan') \/ (plan' = <<>> /\ Parted')
      BY <1>2, <1>3, <1>6, <1>8, <1>9, <2>1, <3>1, NewPlanRight
    <3> QED
      BY <1>8, <3>2, PartedFinished
  <2>2. CASE i # 0
    <3>1. PICK l \in Record : l = localdb[i]
      BY <1>7, <2>2
    <3>2. Localrec' = l /\ Ours' /\ Decent(l) /\ l \in Recs(localdb)
      BY <1>1, <1>2, <1>6, <1>7, <1>8, <2>2, <3>1 DEF Localrec, Ours, ListsDecent
    <3>3. l.data = r.data => Takes'
      BY <1>2, <1>4, <1>7, <1>8, <2>2, <3>1, <3>2 DEF Takes, Agree
    <3>4. l.flags = {} => Good(Localrec)'
      <4>1. l.flags = {} => Good(l)
        BY <1>1, <1>7, <2>2, <3>1 DEF FirstPhase, LocalGood
      <4> QED
        BY <1>2, <3>2, <4>1 DEF Good, OnPalm, Settled
    <3>5. plan' = SyncRecordPlan(l, r)
      BY <1>6, <1>8, <2>2, <3>1
    <3>6. (plan' # <<>> /\ RemotePlan') \/ (plan' = <<>> /\ Fresh' /\ l.data = r.data)
      BY <1>2, <1>3, <1>8, <1>9, <2>2, <3>1, <3>2, <3>3, <3>4, <3>5, TableRight
    <3>7. ASSUME Fresh', l.data = r.data PROVE \A p \in Recs(palm') : p.id = rem'.id => Finished(p)'
      <4>1. Distinct(localdb)
        <5>1. plan \notin ReplacingPlans /\ plan # <<DeleteLocal>>
          BY Tails DEF ReplacingPlans
        <5> QED
          BY <5>1 DEF Calm, IdsInv, PlanIds, Plain, Replacing, Bringing, Doubled
      <4>2. ASSUME NEW x \in Recs(localdb'), x.id = rem'.id PROVE x.data = rem'.data
        <5>1. PICK j \in DOMAIN localdb : x = localdb[j]
          BY <1>2, CalmFacts, ListFacts
        <5>2. j = i
          BY <1>4, <1>7, <1>8, <2>2, <4>1, <4>2, <5>1 DEF Distinct
        <5> QED
          BY <1>8, <3>1, <3>7, <5>1, <5>2
      <4>3. palm' \in Seq(Record) /\ PalmIds'
        BY DEF Calm, Inductive, TypeOK, IdsInv
      <4> QED
        BY <3>7, <4>2, <4>3, FreshFinished
    <3> QED
      BY <1>8, <3>6, <3>7
  <2> QED
    BY <2>1, <2>2
<1>11. ASSUME NEW p \in Recs(palm'), Reached(p)'
       PROVE  Finished(p)' \/ (plan' # <<>> /\ p.id = rem'.id)
  <2>1. CASE p.id = new.id
    BY <1>8, <1>10, <2>1
  <2>2. CASE p.id # new.id
    <3>1. Reached(p)
      <4>1. CASE mode = "slow"
        BY <1>2, <1>6, <1>11, <2>2, <4>1 DEF Reached
      <4>2. CASE mode # "slow"
        BY <1>2, <1>6, <1>11, <2>2, <4>2 DEF Reached
      <4> QED
        BY <4>1, <4>2
    <3>2. Finished(p)
      BY <1>1, <1>2, <3>1 DEF FirstPhase
    <3> QED
      BY <1>2, <1>3, <3>2, SettledStays DEF Finished, AgreesAll
  <2> QED
    BY <2>1, <2>2
<1>12. AllInPlace' /\ FilesGood'
  BY <1>1, <1>2, <1>3, PlacesStay
<1>13. ListsDecent'
  BY <1>1, <1>2, <1>3, <1>8, SettledStays DEF ListsDecent, Newest
<1>14. OldCovered'
  BY <1>1, <1>2 DEF FirstPhase, OldCovered, Covered, Settled
<1>15. LocalGood'
  <2> SUFFICES ASSUME NEW j \in DOMAIN localdb, localdb[j].flags = {} PROVE Good(localdb[j])'
    BY <1>2 DEF LocalGood
  <2>1. Good(localdb[j])
    BY <1>1 DEF FirstPhase, LocalGood
  <2> QED
    BY <1>2, <2>1 DEF Good, OnPalm, Settled
<1>16. mode' = "slow" => \A x \in Recs(remotedb') : x.id \notin seen' => x \in Recs(palm')
  BY <1>1, <1>2, <1>6 DEF FirstPhase
<1>17. FirstPhase'
  BY <1>1, <1>2, <1>4, <1>6, <1>8, <1>10, <1>11, <1>14, <1>15, <1>16 DEF FirstPhase
<1> QED
  BY <1>1, <1>2, <1>12, <1>13, <1>17 DEF Edits

LEMMA NextRemoteSlowEdits == ASSUME Calm, NextRemoteSlow PROVE Edits'
<1>1. /\ pc = "remote" /\ mode = "slow" /\ plan = <<>>
      /\ UNCHANGED <<palmVars, fileVars, sessVars, userVars, localdb>>
  BY DEF NextRemoteSlow
<1>2. PICK i \in DOMAIN remotedb : /\ remotedb[i].id \notin seen
                                   /\ Decide(remotedb[i], SlowNewPlan(remotedb[i]))
                                   /\ remotedb' = ClearStatusFlags(remotedb, i)
  BY DEF NextRemoteSlow
<1>3. PICK new : new = remotedb[i]
  OBVIOUS
<1>4. new \in Recs(remotedb) /\ new \in Record /\ FirstPhase /\ ListsDecent
  BY <1>1, <1>3, CalmFacts, ListFacts DEF Calm, Edits
<1>5. new \in Recs(palm) /\ Decent(new)
  BY <1>1, <1>2, <1>3, <1>4 DEF FirstPhase, ListsDecent
<1>6. seen' = seen \cup {new.id}
  BY <1>2, <1>3 DEF Decide
<1>7. PICK s \in Record : s.id = new.id /\ s.data = new.data /\ s.flags = {} /\ remotedb' = [remotedb EXCEPT ![i] = s]
  <2>1. PICK s : s = [new EXCEPT !.flags = {}]
    OBVIOUS
  <2>2. s \in Record /\ s.id = new.id /\ s.data = new.data /\ s.flags = {}
    BY <1>4, <2>1 DEF Record
  <2> QED
    BY <1>2, <1>3, <2>1, <2>2 DEF ClearStatusFlags
<1>8. /\ DOMAIN remotedb' = DOMAIN remotedb /\ remotedb'[i] = s
      /\ \A j \in DOMAIN remotedb : j # i => remotedb'[j] = remotedb[j]
  BY <1>7, CalmFacts, ChangeRecs
<1>9. ASSUME NEW x \in Recs(remotedb') PROVE Decent(x) /\ (x.id \notin seen' => x \in Recs(remotedb))
  <2>1. x = s \/ x \in Recs(remotedb)
    BY <1>8 DEF Recs
  <2>2. Decent(s)
    BY <1>5, <1>7 DEF Decent
  <2> QED
    BY <1>4, <1>6, <1>7, <2>1, <2>2 DEF ListsDecent
<1>10. ASSUME NEW x \in Recs(remotedb) PROVE \E y \in Recs(remotedb') : y.id = x.id
  <2>1. PICK j \in DOMAIN remotedb : x = remotedb[j]
    BY DEF Recs
  <2>2. remotedb'[j].id = x.id /\ remotedb'[j] \in Recs(remotedb')
    BY <1>3, <1>7, <1>8, <2>1 DEF Recs
  <2> QED
    BY <2>2
<1> QED
  BY <1>1, <1>2, <1>3, <1>5, <1>9, <1>10, DecideEdits

LEMMA NextRemoteFastEdits == ASSUME Calm, NextRemoteFast PROVE Edits'
<1>1. /\ pc = "remote" /\ mode = "fast" /\ plan = <<>>
      /\ UNCHANGED <<palmVars, fileVars, sessVars, userVars, localdb, remotedb>>
  BY DEF NextRemoteFast
<1>2. PICK i \in Unread : Decide(palm[i], FastNewPlan(palm[i]))
  BY DEF NextRemoteFast
<1>3. PICK new : new = palm[i] /\ new \in Recs(palm) /\ new.flags # {} /\ new.id \notin seen
  BY <1>2 DEF Unread, Recs
<1>4. ListsDecent
  BY DEF Calm, Edits
<1>5. \A x \in Recs(remotedb') : Decent(x) /\ x \in Recs(remotedb)
  BY <1>1, <1>4 DEF ListsDecent
<1> QED
  BY <1>1, <1>2, <1>3, <1>5, DecideEdits

-----------------------------------------------------------------------------
(* The Palm has no modified record left that the sync has not seen.        *)
LEMMA RemoteDoneEdits == ASSUME Calm, RemoteDone PROVE Edits'
<1>1. /\ pc = "remote" /\ plan = <<>> /\ pc' = "local" /\ li' = 0 /\ rem' = NoRec
      /\ IF mode = "fast" THEN Unread = {} ELSE \A i \in DOMAIN remotedb : remotedb[i].id \in seen
      /\ UNCHANGED <<palm, nextId, lastSyncPC, backup, archive, host, mode, opened, online, wanted, edits,
                     localdb, remotedb, plan>>
  BY DEF RemoteDone, palmVars, fileVars, userVars
<1>2. FirstPhase /\ ListsDecent /\ AllInPlace /\ FilesGood /\ online /\ ~ opened
  BY <1>1 DEF Calm, Edits
<1>3. Growing /\ PalmKeeps
  BY <1>1 DEF Growing, PalmKeeps
<1>4. ASSUME NEW p \in Recs(palm) PROVE Finished(p)
  <2>1. Reached(p)
    <3>1. CASE mode = "fast"
      BY <1>1, <3>1 DEF Reached, Unread, Recs
    <3>2. CASE mode # "fast"
      BY <1>1, <1>2, <3>2 DEF Reached, Recs, FirstPhase
    <3> QED
      BY <3>1, <3>2
  <2> QED
    BY <1>1, <1>2, <2>1 DEF FirstPhase
<1>5. AllInPlace' /\ FilesGood'
  BY <1>1, <1>2, <1>3, PlacesStay
<1>6. ListsDecent'
  <2>1. Decent(NoRec)
    <3>1. InitRecords \in Nat /\ edits \in Nat
      BY ConstantsAssumption DEF Calm, Inductive, TypeOK
    <3> QED
      BY <3>1 DEF Decent, NoRec, Rec, Newest
  <2> QED
    BY <1>1, <1>2, <1>3, <2>1, SettledStays DEF ListsDecent, Newest
<1>7. OldCovered'
  BY <1>1, <1>2 DEF FirstPhase, OldCovered, Covered, Settled
<1>8. LocalGood'
  <2> SUFFICES ASSUME NEW j \in DOMAIN localdb, localdb[j].flags = {} PROVE Good(localdb[j])'
    BY <1>1 DEF LocalGood
  <2>1. Good(localdb[j])
    BY <1>1, <1>2 DEF FirstPhase, LocalGood
  <2> QED
    BY <1>1, <2>1 DEF Good, OnPalm, Settled
<1>9. LocalPlans'
  BY <1>1 DEF LocalPlans
<1>10. \A p \in Recs(palm') : AgreesAll(p)' /\ (~ IsLive(p) => Settled(p.data)')
  BY <1>1, <1>3, <1>4, SettledStays DEF Finished, AgreesAll
<1>11. \A j \in DOMAIN localdb' : ~ (j < li') /\ j # li'
  BY <1>1, CalmFacts, ListFacts
<1>12. SecondPhase'
  BY <1>1, <1>2, <1>7, <1>8, <1>9, <1>10, <1>11 DEF SecondPhase, FirstPhase
<1> QED
  BY <1>1, <1>2, <1>5, <1>6, <1>12 DEF Edits

(* The plan for the next local record.                                     *)
LEMMA NextLocalEdits == ASSUME Calm, NextLocal PROVE Edits'
<1>1. /\ pc = "local" /\ plan = <<>> /\ li < Len(localdb) /\ li' = li + 1
      /\ plan' = LocalPlan(localdb[li + 1])
      /\ UNCHANGED <<palm, nextId, lastSyncPC, backup, archive, sessVars, pc, host, mode, opened, online, wanted, edits,
                     localdb, remotedb, seen, rem>>
  BY DEF NextLocal, palmVars, fileVars, userVars, sessVars
<1>2. /\ SecondPhase /\ ListsDecent /\ AllInPlace /\ FilesGood /\ online /\ ~ opened
      /\ mode \in {"first", "slow", "fast"}
  BY <1>1 DEF Calm, Edits, Inductive, TypeOK, SessionInv, Modes
<1>3. Growing /\ PalmKeeps
  BY <1>1 DEF Growing, PalmKeeps
<1>4. PICK l \in Record : /\ l = localdb[li + 1] /\ li \in Nat /\ li + 1 \in DOMAIN localdb /\ Decent(l)
                          /\ Localrec' = l
  BY <1>1, <1>2, CalmFacts, ListFacts DEF ListsDecent, Localrec
<1>5. /\ EXPUNGED \in l.flags => Settled(l.data)
      /\ EXPUNGED \notin l.flags /\ ~ ToArchive(l) => l.flags \subseteq {DIRTY}
  BY <1>4, StatusFacts
<1>6. AllInPlace' /\ FilesGood' /\ ListsDecent'
  BY <1>1, <1>2, <1>3, PlacesStay, SettledStays DEF ListsDecent, Newest
<1>7. OldCovered'
  BY <1>1, <1>2 DEF SecondPhase, OldCovered, Covered, Settled
<1>8. ASSUME NEW j \in DOMAIN localdb, localdb[j].flags = {} PROVE Good(localdb[j]) /\ Good(localdb[j])'
  <2>1. Good(localdb[j])
    BY <1>1, <1>2, <1>8 DEF SecondPhase, LocalGood
  <2> QED
    BY <1>1, <2>1 DEF Good, OnPalm, Settled
<1>9. LocalGood'
  BY <1>1, <1>8 DEF LocalGood
<1>10. /\ mode = "first" => \/ plan' = <<ClearLocal, ArchiveLocal>>
                            \/ plan' = <<DeleteLocal>> /\ Settled(l.data)
                            \/ plan' = <<ClearLocal>> /\ l.flags \subseteq {DIRTY}
       /\ mode # "first" => \/ plan' = <<>> /\ (l.id = 0 => Settled(l.data))
                            \/ plan' \in {<<ClearLocal, ArchiveLocal>>, <<ClearLocal, UploadLocal>>, <<ArchiveLocal, DeleteLocal>>,
                                          <<ClearLocal, ArchiveLocal, PurgeLocal>>}
                            \/ plan' \in {<<DeleteLocal>>, <<PurgeLocal>>} /\ Settled(l.data)
  <2>1. CASE mode = "first"
    <3>1. plan' = FirstSyncPlan(l)
      BY <1>1, <1>4, <2>1 DEF LocalPlan
    <3> QED
      BY <1>5, <2>1, <3>1 DEF FirstSyncPlan
  <2>2. CASE mode = "slow"
    <3>1. CASE FindRecordByID(remotedb, l.id) # 0
      <4>1. l.id \in Nat
        BY RecordFacts
      <4>2. l.id # 0
        <5>1. PICK k : k = FindRecordByID(remotedb, l.id)
          OBVIOUS
        <5>2. k \in DOMAIN remotedb /\ remotedb[k].id = l.id
          BY <3>1, <4>1, <5>1, CalmFacts, FindFacts
        <5>3. remotedb[k] \in Recs(remotedb)
          BY <5>2 DEF Recs
        <5> QED
          BY <5>2, <5>3, CalmFacts
      <4>3. plan' = <<>>
        BY <1>1, <1>4, <2>2, <3>1 DEF LocalPlan
      <4> QED
        BY <2>2, <4>2, <4>3
    <3>2. CASE FindRecordByID(remotedb, l.id) = 0
      <4>1. plan' = SlowLocalPlan(l)
        BY <1>1, <1>4, <2>2, <3>2 DEF LocalPlan
      <4> QED
        BY <1>5, <2>2, <4>1 DEF SlowLocalPlan
    <3> QED
      BY <3>1, <3>2
  <2>3. CASE mode = "fast"
    <3>1. plan' = FastLocalPlan(l)
      BY <1>1, <1>4, <2>3 DEF LocalPlan
    <3>2. CASE plan' = <<>>
      <4>1. l.flags = {}
        <5>1. ~ ToArchive(l) /\ EXPUNGED \notin l.flags /\ DIRTY \notin l.flags
          BY <3>1, <3>2 DEF FastLocalPlan
        <5> QED
          BY <1>5, <5>1
      <4>2. Good(l)
        BY <1>4, <1>8, <4>1
      <4>3. l.id = 0 => Settled(l.data)
        BY <4>2, CalmFacts DEF Good, OnPalm
      <4> QED
        BY <2>3, <3>2, <4>3
    <3>3. CASE plan' # <<>>
      BY <1>5, <2>3, <3>1, <3>3 DEF FastLocalPlan
    <3> QED
      BY <3>2, <3>3
  <2> QED
    BY <1>2, <2>1, <2>2, <2>3
<1>11. Settled(l.data) => Settled(Localrec.data)'
  BY <1>1, <1>4 DEF Settled
<1>12. LocalPlans'
  BY <1>1, <1>2, <1>10, <1>11 DEF LocalPlans
<1>13. ASSUME NEW p \in Recs(palm), ~ IsLive(p) PROVE Settled(p.data)' \/ ToCome(p)'
  <2>1. CASE Settled(p.data)
    BY <1>3, <2>1, SettledStays
  <2>2. CASE ToCome(p)
    <3>1. PICK j \in DOMAIN localdb : mode = "first" /\ j > li /\ localdb[j] = p
      BY <1>1, <2>2 DEF ToCome
    <3>2. CASE j > li + 1
      BY <1>1, <3>1, <3>2 DEF ToCome
    <3>3. CASE j = li + 1
      <4>1. p = l
        BY <1>4, <3>1, <3>3
      <4>2. CASE plan' = <<ClearLocal, ArchiveLocal>>
        BY <1>1, <1>4, <3>1, <4>1, <4>2 DEF ToCome
      <4>3. CASE Settled(l.data)
        BY <1>3, <4>1, <4>3, SettledStays
      <4>4. CASE l.flags \subseteq {DIRTY}
        BY <1>13, <4>1, <4>4 DEF IsLive, DIRTY, DELETED, ARCHIVE, EXPUNGED
      <4> QED
        BY <1>10, <3>1, <4>2, <4>3, <4>4
    <3>4. j > li + 1 \/ j = li + 1
      <4>1. j \in Nat
        BY CalmFacts, ListFacts
      <4> QED
        BY <1>4, <3>1, <4>1
    <3> QED
      BY <3>2, <3>3, <3>4
  <2> QED
    BY <1>2, <1>13, <2>1, <2>2 DEF SecondPhase
<1>14. \A p \in Recs(palm') : AgreesAll(p)' /\ (~ IsLive(p) => Settled(p.data)' \/ ToCome(p)')
  BY <1>1, <1>2, <1>3, <1>13, SettledStays DEF SecondPhase, AgreesAll
<1>15. mode' = "first" => backup'[host'] = NoFile /\ \A r \in Recs(localdb') : OnPalm(r)'
  BY <1>1, <1>2 DEF SecondPhase, OnPalm
<1>16. ASSUME NEW j \in DOMAIN localdb, j < li + 1 \/ (j = li + 1 /\ plan' = <<>>), localdb[j].id = 0
       PROVE  Settled(localdb[j].data)'
  <2>1. Settled(localdb[j].data)
    <3>1. CASE j = li + 1 /\ plan' = <<>>
      <4>1. <<ClearLocal, ArchiveLocal>> # <<>> /\ <<DeleteLocal>> # <<>> /\ <<ClearLocal>> # <<>> /\ <<PurgeLocal>> # <<>>
            /\ <<ClearLocal, UploadLocal>> # <<>> /\ <<ArchiveLocal, DeleteLocal>> # <<>>
            /\ <<ClearLocal, ArchiveLocal, PurgeLocal>> # <<>>
        OBVIOUS
      <4> QED
        BY <1>4, <1>10, <1>16, <3>1, <4>1
    <3>2. CASE j < li + 1
      <4>1. j < li \/ j = li
        BY <1>4, <3>2, CalmFacts, ListFacts
      <4> QED
        BY <1>1, <1>2, <1>16, <4>1 DEF SecondPhase
    <3> QED
      BY <1>16, <3>1, <3>2
  <2> QED
    BY <1>1, <2>1 DEF Settled
<1>17. SecondPhase'
  BY <1>1, <1>7, <1>9, <1>12, <1>14, <1>15, <1>16 DEF SecondPhase
<1> QED
  BY <1>1, <1>2, <1>6, <1>17 DEF Edits

(* The walk through the local list is over.                                *)
LEMMA LocalDoneEdits == ASSUME Calm, LocalDone PROVE Edits'
<1>1. /\ pc = "local" /\ plan = <<>> /\ li = Len(localdb) /\ pc' = "write"
      /\ UNCHANGED <<palm, nextId, lastSyncPC, backup, archive, host, mode, opened, online, wanted, edits,
                     localdb, remotedb, seen, rem, plan, li>>
  BY DEF LocalDone, palmVars, fileVars, userVars, workVars
<1>2. SecondPhase /\ ListsDecent /\ AllInPlace /\ FilesGood /\ online /\ ~ opened
  BY <1>1 DEF Calm, Edits
<1>3. Growing /\ PalmKeeps
  BY <1>1 DEF Growing, PalmKeeps
<1>4. AllInPlace' /\ FilesGood' /\ ListsDecent'
  BY <1>1, <1>2, <1>3, PlacesStay, SettledStays DEF ListsDecent, Newest
<1>5. OldCovered'
  BY <1>1, <1>2 DEF SecondPhase, OldCovered, Covered, Settled
<1>6. LocalGood'
  <2> SUFFICES ASSUME NEW j \in DOMAIN localdb, localdb[j].flags = {} PROVE Good(localdb[j])'
    BY <1>1 DEF LocalGood
  <2>1. Good(localdb[j])
    BY <1>1, <1>2 DEF SecondPhase, LocalGood
  <2> QED
    BY <1>1, <2>1 DEF Good, OnPalm, Settled
<1>7. ASSUME NEW p \in Recs(palm) PROVE Finished(p)
  <2>1. ~ ToCome(p)
    BY <1>1, CalmFacts, ListFacts DEF ToCome
  <2> QED
    BY <1>2, <2>1 DEF SecondPhase, Finished
<1>8. \A p \in Recs(palm') : Finished(p)'
  BY <1>1, <1>3, <1>7, SettledStays DEF Finished, AgreesAll
<1>9. Writing'
  BY <1>5, <1>6, <1>8 DEF Writing
<1> QED
  BY <1>1, <1>2, <1>4, <1>9 DEF Edits

-----------------------------------------------------------------------------
(* A step of a plan in the second phase does what it should if it leaves   *)
(* the session alone, takes from the Palm and the list no content that is  *)
(* still missed, and brings the plan on its way.                           *)
Behind(j) == j < li \/ (j = li /\ plan = <<>>)

LEMMA SecondPhaseStep ==
    ASSUME Calm, pc = "local", plan # <<>>, Growing, SameSession, UNCHANGED remotedb, PalmKeeps, LocalPlans',
           \A q \in Recs(palm') : q \in Recs(palm) \/ (IsLive(q) /\ AgreesAll(q)'),
           \A x \in Recs(palm') \cup Recs(localdb') : Decent(x),
           \A x \in Recs(localdb') : \/ \E s \in Recs(localdb) : s.id = x.id /\ s.data = x.data
                                     \/ x.id = nextId /\ mode # "first",
           \A r \in Recs(localdb) : Covered(r.data)',
           \A j \in DOMAIN localdb' : \/ \E k \in DOMAIN localdb \ {li} : localdb'[j] = localdb[k]
                                      \/ j = li' /\ plan' # <<>>
                                      \/ Good(localdb[j])',
           \A p \in Recs(palm) : ToCome(p) => ToCome(p)' \/ Settled(p.data)',
           \A j \in DOMAIN localdb' : Behind(j)' /\ localdb'[j].id = 0 => Settled(localdb[j].data)',
           mode = "first" => UNCHANGED palm
    PROVE  Edits'
<1>1. Edits /\ SecondPhase
  BY DEF Calm, Edits
<1>2. AllInPlace' /\ FilesGood'
  BY <1>1, PlacesStay DEF Edits, SameSession
<1>3. ListsDecent'
  BY <1>1, SettledStays DEF Edits, ListsDecent, SameSession, Growing, Newest
<1>4. OldCovered'
  BY <1>1, CoveredStays DEF SecondPhase, OldCovered, SameSession
<1>5. LocalGood'
  <2> SUFFICES ASSUME NEW j \in DOMAIN localdb', localdb'[j].flags = {}, j # li' \/ plan' = <<>>
               PROVE  Good(localdb[j])'
    BY DEF LocalGood
  <2>1. CASE \E k \in DOMAIN localdb \ {li} : localdb'[j] = localdb[k]
    BY <1>1, <2>1, GoodStays DEF SecondPhase, LocalGood
  <2> QED
    BY <2>1
<1>6. ASSUME NEW q \in Recs(palm')
      PROVE  AgreesAll(q)' /\ (~ IsLive(q) => Settled(q.data)' \/ ToCome(q)')
  <2>1. CASE q \in Recs(palm)
    <3>1. AgreesAll(q) /\ (~ IsLive(q) => Settled(q.data) \/ ToCome(q))
      BY <1>1, <2>1 DEF SecondPhase
    <3>2. ~ IsLive(q) => Settled(q.data)' \/ ToCome(q)'
      BY <2>1, <3>1, SettledStays
    <3>3. ASSUME NEW x \in Recs(localdb') PROVE Agree(q, x)'
      <4>1. CASE \E s \in Recs(localdb) : s.id = x.id /\ s.data = x.data
        <5>1. PICK s \in Recs(localdb) : s.id = x.id /\ s.data = x.data
          BY <4>1
        <5>2. Agree(q, s)
          BY <3>1 DEF AgreesAll
        <5> QED
          BY <5>1, <5>2, SettledStays DEF Agree
      <4>2. CASE x.id = nextId
        <5>1. q.id # nextId
          BY <2>1, CalmFacts
        <5> QED
          BY <4>2, <5>1 DEF Agree
      <4> QED
        BY <4>1, <4>2
    <3> QED
      BY <3>2, <3>3 DEF AgreesAll
  <2> QED
    BY <2>1
<1>7. mode' = "first" => backup'[host'] = NoFile /\ \A x \in Recs(localdb') : OnPalm(x)'
  <2> SUFFICES ASSUME mode = "first" PROVE backup[host] = NoFile /\ \A x \in Recs(localdb') : OnPalm(x)'
    BY DEF SameSession
  <2>1. backup[host] = NoFile /\ \A r \in Recs(localdb) : OnPalm(r)
    BY <1>1 DEF SecondPhase
  <2>2. \A x \in Recs(localdb') : \E p \in Recs(palm') : p.id = x.id /\ p.data = x.data
    BY <2>1 DEF OnPalm
  <2> QED
    BY <2>1, <2>2 DEF OnPalm
<1>8. SecondPhase'
  BY <1>4, <1>5, <1>6, <1>7 DEF SecondPhase, Behind
<1>9. pc' = "local" /\ online' /\ ~ opened'
  BY <1>1 DEF Edits, SameSession
<1> QED
  BY <1>2, <1>3, <1>8, <1>9 DEF Edits

(* Which plans the second phase makes, by their first step.                *)
LEMMA LocalHead ==
    ASSUME LocalPlans, plan # <<>>
    PROVE  /\ Head(plan) \in {ClearLocal, ArchiveLocal, DeleteLocal, PurgeLocal, UploadLocal}
           /\ Head(plan) = ClearLocal =>
                 \/ plan = <<ClearLocal, ArchiveLocal>>
                 \/ plan = <<ClearLocal>> /\ mode = "first"
                 \/ plan \in {<<ClearLocal, UploadLocal>>, <<ClearLocal, ArchiveLocal, PurgeLocal>>} /\ mode # "first"
           /\ Head(plan) = ArchiveLocal =>
                 \/ plan = <<ArchiveLocal>>
                 \/ plan \in {<<ArchiveLocal, DeleteLocal>>, <<ArchiveLocal, PurgeLocal>>} /\ mode # "first"
           /\ Head(plan) = DeleteLocal => plan = <<DeleteLocal>> /\ Settled(Localrec.data)
           /\ Head(plan) = PurgeLocal => plan = <<PurgeLocal>> /\ mode # "first" /\ Settled(Localrec.data)
           /\ Head(plan) = UploadLocal => plan = <<UploadLocal>> /\ mode # "first"
           /\ Head(plan) # ClearLocal /\ Head(plan) # ArchiveLocal => Tail(plan) = <<>>
<1>1. /\ Head(<<ClearLocal, ArchiveLocal>>) = ClearLocal /\ Head(<<ArchiveLocal>>) = ArchiveLocal
      /\ Head(<<DeleteLocal>>) = DeleteLocal /\ Head(<<ClearLocal>>) = ClearLocal
      /\ Head(<<ClearLocal, UploadLocal>>) = ClearLocal /\ Head(<<UploadLocal>>) = UploadLocal
      /\ Head(<<ArchiveLocal, DeleteLocal>>) = ArchiveLocal
      /\ Head(<<ClearLocal, ArchiveLocal, PurgeLocal>>) = ClearLocal
      /\ Head(<<ArchiveLocal, PurgeLocal>>) = ArchiveLocal /\ Head(<<PurgeLocal>>) = PurgeLocal
      /\ Tail(<<DeleteLocal>>) = <<>> /\ Tail(<<PurgeLocal>>) = <<>> /\ Tail(<<UploadLocal>>) = <<>>
  BY Tails
<1>2. \/ plan = <<ClearLocal, ArchiveLocal>> /\ Head(plan) = ClearLocal
      \/ plan = <<ArchiveLocal>> /\ Head(plan) = ArchiveLocal
      \/ plan = <<DeleteLocal>> /\ Head(plan) = DeleteLocal /\ Settled(Localrec.data) /\ Tail(plan) = <<>>
      \/ plan = <<ClearLocal>> /\ Head(plan) = ClearLocal /\ mode = "first"
      \/ plan = <<ClearLocal, UploadLocal>> /\ Head(plan) = ClearLocal /\ mode # "first"
      \/ plan = <<UploadLocal>> /\ Head(plan) = UploadLocal /\ mode # "first" /\ Tail(plan) = <<>>
      \/ plan = <<ArchiveLocal, DeleteLocal>> /\ Head(plan) = ArchiveLocal /\ mode # "first"
      \/ plan = <<ClearLocal, ArchiveLocal, PurgeLocal>> /\ Head(plan) = ClearLocal /\ mode # "first"
      \/ plan = <<ArchiveLocal, PurgeLocal>> /\ Head(plan) = ArchiveLocal /\ mode # "first"
      \/ plan = <<PurgeLocal>> /\ Head(plan) = PurgeLocal /\ mode # "first" /\ Settled(Localrec.data) /\ Tail(plan) = <<>>
  BY <1>1 DEF LocalPlans
<1>3. PICK h : h = Head(plan)
  OBVIOUS
<1> HIDE DEF LocalPlans
<1> QED
  BY <1>2, <1>3 DEF ClearLocal, ArchiveLocal, DeleteLocal, PurgeLocal, UploadLocal

(* What every step of a plan in the second phase can rely on.              *)
LEMMA AtSecondPhase ==
    ASSUME Calm, pc = "local", plan # <<>>
    PROVE  /\ SecondPhase /\ LocalPlans /\ ListsDecent /\ host \in Hosts /\ online /\ ~ opened
           /\ li \in DOMAIN localdb /\ li # 0 /\ Localrec = localdb[li]
           /\ Localrec \in Record /\ Localrec \in Recs(localdb)
           /\ Localrec.id \in Nat
           /\ Head(plan) # DeleteLocal => Distinct(localdb)
           /\ Distinct(localdb) \/ Doubled
<1>1. SecondPhase /\ LocalPlans /\ ListsDecent /\ online /\ ~ opened
  BY DEF Calm, Edits, SecondPhase
<1>2. host \in Hosts
  BY DEF Calm, Inductive, SessionInv
<1>3. (Head(plan) # DeleteLocal => Distinct(localdb)) /\ (Distinct(localdb) \/ Doubled)
  <2>1. Plain \/ Replacing \/ Bringing => Distinct(localdb)
    BY DEF Plain, Replacing, Bringing
  <2> QED
    BY <2>1, AtStepIds DEF Calm
<1>4. Head(plan) \in LocalrecSteps
  BY <1>1, LocalHead DEF LocalrecSteps
<1>5. li \in DOMAIN localdb /\ li # 0
  BY <1>4, AtStep, CalmFacts, ListFacts DEF Calm
<1> QED
  BY <1>1, <1>2, <1>3, <1>5, CalmFacts, ListFacts, RecordFacts DEF Localrec

(* archive_record, in the second phase.                                    *)
LEMMA DoArchiveLocalPhase == ASSUME Calm, NoFault, pc = "local", DoArchive PROVE Edits'
<1>1. /\ plan # <<>> /\ plan' = Tail(plan)
      /\ UNCHANGED <<palm, nextId, lastSyncPC, backup, sessVars, wanted, edits, localdb, remotedb, seen, rem, li>>
      /\ \/ Head(plan) = ArchiveLocal /\ archive' = [archive EXCEPT ![host] = @ \cup {Localrec.data}]
         \/ Head(plan) = ArchiveRemote /\ archive' = [archive EXCEPT ![host] = @ \cup {rem.data}]
  BY NoneFails DEF DoArchive, Step, NextStep, ArchiveRecord, palmVars, userVars, Localrec
<1>2. SecondPhase /\ LocalPlans /\ ListsDecent /\ host \in Hosts /\ archive \in [Hosts -> SUBSET Nat] /\ li \in DOMAIN localdb
  BY <1>1, AtSecondPhase DEF Calm, Inductive, TypeOK
<1>3. Head(plan) = ArchiveLocal /\ archive' = [archive EXCEPT ![host] = @ \cup {Localrec.data}]
  <2>1. ArchiveRemote \notin {ClearLocal, ArchiveLocal, DeleteLocal, PurgeLocal, UploadLocal}
    BY DEF ArchiveRemote, ClearLocal, ArchiveLocal, DeleteLocal, PurgeLocal, UploadLocal
  <2> QED
    BY <1>1, <1>2, <2>1, LocalHead
<1>4. Growing /\ SameSession /\ PalmKeeps /\ Settled(Localrec.data)'
  BY <1>1, <1>2, <1>3 DEF Growing, SameSession, sessVars, PalmKeeps, Settled, Localrec
<1>5. \/ plan' = <<>>
      \/ plan' \in {<<DeleteLocal>>, <<PurgeLocal>>} /\ mode # "first"
  <2>1. CASE plan = <<ArchiveLocal>>
    BY <1>1, <2>1, Tails
  <2>2. CASE plan = <<ArchiveLocal, DeleteLocal>> /\ mode # "first"
    BY <1>1, <2>2, Tails
  <2>3. CASE plan = <<ArchiveLocal, PurgeLocal>> /\ mode # "first"
    BY <1>1, <2>3, Tails
  <2> QED
    BY <1>1, <1>2, <1>3, <2>1, <2>2, <2>3, LocalHead
<1>6. LocalPlans'
  BY <1>1, <1>4, <1>5 DEF LocalPlans, sessVars
<1>7. Localrec' = localdb[li] /\ Localrec = localdb[li] /\ Good(Localrec)'
  BY <1>1, <1>4 DEF Localrec, Good
<1>8. \A j \in DOMAIN localdb' : (\E k \in DOMAIN localdb \ {li} : localdb'[j] = localdb[k]) \/ Good(localdb[j])'
  <2> SUFFICES ASSUME NEW j \in DOMAIN localdb
               PROVE  (\E k \in DOMAIN localdb \ {li} : localdb'[j] = localdb[k]) \/ Good(localdb[j])'
    BY <1>1
  <2>1. CASE j = li
    BY <1>1, <1>7, <2>1 DEF Localrec
  <2> QED
    BY <1>1, <2>1
<1>9. ASSUME NEW p \in Recs(palm), ToCome(p) PROVE ToCome(p)' \/ Settled(p.data)'
  <2>1. CASE \E j \in DOMAIN localdb : j > li /\ localdb[j] = p
    BY <1>1, <1>9, <2>1 DEF ToCome, sessVars
  <2>2. CASE Localrec.data = p.data
    BY <1>4, <1>7, <2>2
  <2> QED
    BY <1>9, <2>1, <2>2 DEF ToCome
<1>10. ASSUME NEW j \in DOMAIN localdb', Behind(j)', localdb'[j].id = 0 PROVE Settled(localdb[j].data)'
  <2>1. CASE j < li
    BY <1>1, <1>2, <1>4, <1>10, <2>1, SettledStays DEF SecondPhase
  <2>2. CASE j = li
    BY <1>1, <1>4, <2>2 DEF Localrec
  <2> QED
    BY <1>1, <1>10, <2>1, <2>2 DEF Behind
<1>11. \A x \in Recs(localdb') : \E s \in Recs(localdb) : s.id = x.id /\ s.data = x.data
  BY <1>1
<1>12. \A r \in Recs(localdb) : Covered(r.data)'
  BY <1>1 DEF Covered
<1>13. \A x \in Recs(palm') \cup Recs(localdb') : Decent(x)
  BY <1>1, <1>2 DEF ListsDecent
<1> QED
  BY <1>1, <1>4, <1>6, <1>8, <1>9, <1>10, <1>11, <1>12, <1>13, SecondPhaseStep

(* CLEAR_STATUS_FLAGS, in the second phase.                                *)
LEMMA DoClearLocalLocalPhase == ASSUME Calm, pc = "local", DoClearLocal PROVE Edits'
<1>1. /\ plan # <<>> /\ plan' = Tail(plan) /\ Head(plan) = ClearLocal
      /\ localdb' = ClearStatusFlags(localdb, li)
      /\ UNCHANGED <<palm, nextId, lastSyncPC, backup, archive, sessVars, wanted, edits, remotedb, seen, rem, li>>
  BY DEF DoClearLocal, Step, NextStep, palmVars, fileVars, userVars
<1>2. SecondPhase /\ LocalPlans /\ ListsDecent /\ li \in DOMAIN localdb /\ Localrec \in Recs(localdb)
  BY <1>1, AtSecondPhase
<1>3. PICK r \in Record : /\ r.id = Localrec.id /\ r.data = Localrec.data /\ r.flags = {}
                          /\ DOMAIN localdb' = DOMAIN localdb /\ localdb'[li] = r
                          /\ \A j \in DOMAIN localdb : j # li => localdb'[j] = localdb[j]
                          /\ Recs(localdb') = {localdb[j] : j \in DOMAIN localdb \ {li}} \cup {r}
  BY <1>1, <1>2, CalmFacts, ClearedRecs
<1>4. Growing /\ SameSession /\ PalmKeeps
  BY <1>1 DEF Growing, SameSession, sessVars, PalmKeeps
<1>5. \/ plan = <<ClearLocal, ArchiveLocal>> /\ plan' = <<ArchiveLocal>> /\ plan' # <<>>
      \/ plan' = <<>> /\ mode = "first" /\ plan = <<ClearLocal>>
      \/ plan = <<ClearLocal, UploadLocal>> /\ plan' = <<UploadLocal>> /\ mode # "first" /\ plan' # <<>>
      \/ plan = <<ClearLocal, ArchiveLocal, PurgeLocal>> /\ plan' = <<ArchiveLocal, PurgeLocal>> /\ mode # "first" /\ plan' # <<>>
  <2>1. CASE plan = <<ClearLocal, ArchiveLocal>>
    BY <1>1, <2>1, Tails
  <2>2. CASE plan = <<ClearLocal>> /\ mode = "first"
    BY <1>1, <2>2, Tails
  <2>3. CASE plan = <<ClearLocal, UploadLocal>> /\ mode # "first"
    BY <1>1, <2>3, Tails
  <2>4. CASE plan = <<ClearLocal, ArchiveLocal, PurgeLocal>> /\ mode # "first"
    BY <1>1, <2>4, Tails
  <2> QED
    BY <1>1, <1>2, <2>1, <2>2, <2>3, <2>4, LocalHead
<1>6. LocalPlans'
  BY <1>1, <1>5 DEF LocalPlans, sessVars
<1>7. mode = "first" => Localrec.id # 0 /\ Good(localdb[li])'
  <2>1. mode = "first" => \E p \in Recs(palm) : p.id = Localrec.id /\ p.data = Localrec.data
    BY <1>2 DEF SecondPhase, OnPalm
  <2> QED
    BY <1>1, <1>3, <2>1, CalmFacts DEF Good, OnPalm
<1>8. \A j \in DOMAIN localdb' : \/ \E k \in DOMAIN localdb \ {li} : localdb'[j] = localdb[k]
                                 \/ j = li' /\ plan' # <<>>
                                 \/ Good(localdb[j])'
  <2> SUFFICES ASSUME NEW j \in DOMAIN localdb
               PROVE  \/ \E k \in DOMAIN localdb \ {li} : localdb'[j] = localdb[k]
                      \/ j = li /\ plan' # <<>>
                      \/ Good(localdb[j])'
    BY <1>1, <1>3
  <2>1. CASE j = li
    BY <1>1, <1>5, <1>7, <2>1
  <2>2. CASE j # li
    BY <1>3, <2>2
  <2> QED
    BY <2>1, <2>2
<1>9. ASSUME NEW p \in Recs(palm), ToCome(p) PROVE ToCome(p)'
  <2>1. CASE \E j \in DOMAIN localdb : j > li /\ localdb[j] = p
    <3>1. PICK j \in DOMAIN localdb : j > li /\ localdb[j] = p
      BY <2>1
    <3>2. j # li
      BY <3>1, CalmFacts
    <3>3. j \in DOMAIN localdb' /\ j > li' /\ localdb'[j] = p
      BY <1>1, <1>3, <3>1, <3>2
    <3> QED
      BY <1>1, <1>9, <3>3 DEF ToCome, sessVars
  <2>2. CASE plan \in {<<ClearLocal, ArchiveLocal>>, <<ArchiveLocal>>} /\ Localrec.data = p.data
    <3>1. plan = <<ClearLocal, ArchiveLocal>>
      <4>1. ArchiveLocal # ClearLocal
        BY DEF ArchiveLocal, ClearLocal
      <4> QED
        BY <1>1, <2>2, <4>1, Tails
    <3>2. plan' = <<ArchiveLocal>>
      BY <1>1, <3>1, Tails
    <3>3. li' \in DOMAIN localdb' /\ Localrec'.data = p.data
      BY <1>1, <1>2, <1>3, <2>2 DEF Localrec
    <3> QED
      BY <1>1, <1>9, <3>2, <3>3 DEF ToCome, sessVars
  <2> QED
    BY <1>9, <2>1, <2>2 DEF ToCome
<1>10. ASSUME NEW j \in DOMAIN localdb', Behind(j)', localdb'[j].id = 0 PROVE Settled(localdb[j].data)'
  <2>1. CASE j < li
    <3>1. j # li /\ localdb'[j] = localdb[j] /\ j \in DOMAIN localdb
      <4>1. j # li
        BY <2>1, CalmFacts
      <4> QED
        BY <1>3, <4>1
    <3> QED
      BY <1>2, <1>4, <1>10, <2>1, <3>1, SettledStays DEF SecondPhase
  <2>2. CASE j = li /\ plan' = <<>>
    BY <1>3, <1>5, <1>7, <1>10, <2>2
  <2> QED
    BY <1>1, <1>10, <2>1, <2>2 DEF Behind
<1>11. \A x \in Recs(localdb') : \E s \in Recs(localdb) : s.id = x.id /\ s.data = x.data
  BY <1>2, <1>3 DEF Recs
<1>12. ASSUME NEW s \in Recs(localdb) PROVE Covered(s.data)'
  <2>1. \E x \in Recs(localdb') : x.data = s.data
    BY <1>2, <1>3 DEF Recs, Localrec
  <2> QED
    BY <2>1 DEF Covered
<1>13. \A x \in Recs(palm') \cup Recs(localdb') : Decent(x)
  <2>1. Decent(r)
    BY <1>2, <1>3 DEF ListsDecent, Decent
  <2> QED
    BY <1>1, <1>2, <1>3, <2>1 DEF ListsDecent, Recs
<1> QED
  BY <1>1, <1>4, <1>6, <1>8, <1>9, <1>10, <1>11, <1>12, <1>13, SecondPhaseStep

(* pdb_DeleteRecordByID, in the second phase.  It may not be localrec that *)
(* is unlinked: of the records with no ID yet it is the first.  But those  *)
(* before localrec have been uploaded, or nobody misses them.              *)
LEMMA UnlinkLocalPhase ==
    ASSUME Calm, pc = "local", plan # <<>>, Settled(Localrec.data), Unlink
    PROVE  /\ li' = li - 1
           /\ \A j \in DOMAIN localdb' :
                 \E k \in DOMAIN localdb : localdb'[j] = localdb[k] /\ (j <= li' => k <= li)
           /\ \A k \in DOMAIN localdb : k > li => \E j \in DOMAIN localdb' : j > li' /\ localdb'[j] = localdb[k]
           /\ \A k \in DOMAIN localdb : Settled(localdb[k].data) \/ \E j \in DOMAIN localdb' : localdb'[j] = localdb[k]
<1>1. /\ SecondPhase /\ li \in DOMAIN localdb /\ Localrec = localdb[li] /\ Localrec.id \in Nat
      /\ Distinct(localdb) \/ Doubled
  BY AtSecondPhase
<1>2. li' = li - 1 /\ localdb' = DeleteRecordByID(localdb, localdb[li].id)
  BY DEF Unlink
<1>3. PICK k : k = FindRecordByID(localdb, Localrec.id)
  OBVIOUS
<1>4. /\ k \in DOMAIN localdb /\ localdb[k].id = Localrec.id /\ k <= li
      /\ localdb' = Without(localdb, k)
  <2>1. k # 0
    BY <1>1, <1>3, CalmFacts, FindFacts DEF Lacks
  <2> QED
    BY <1>1, <1>2, <1>3, <2>1, CalmFacts, FindFacts
<1>5. PICK n \in Nat : n = Len(localdb) /\ DOMAIN localdb = 1 .. n /\ k \in 1 .. n /\ li \in 1 .. n
  <2>1. Len(localdb) \in Nat /\ DOMAIN localdb = 1 .. Len(localdb)
    BY CalmFacts, ListFacts
  <2> QED
    BY <1>1, <1>4, <2>1
<1>6. Settled(localdb[k].data)
  <2>1. CASE k = li
    BY <1>1, <2>1
  <2>2. CASE k # li
    <3>1. k < li
      BY <1>4, <1>5, <2>2
    <3>2. localdb[k].id = 0
      BY <1>1, <1>3, <1>4, <2>2 DEF Distinct, Doubled
    <3> QED
      BY <1>1, <1>4, <3>1, <3>2 DEF SecondPhase
  <2> QED
    BY <2>1, <2>2
<1>7. PICK w : w = localdb'
  OBVIOUS
<1>8. /\ \A j \in DOMAIN w : \/ j < k /\ j \in DOMAIN localdb \ {k} /\ w[j] = localdb[j]
                             \/ j >= k /\ j + 1 \in DOMAIN localdb \ {k} /\ w[j] = localdb[j + 1]
      /\ \A j \in DOMAIN localdb \ {k} : \/ j < k /\ j \in DOMAIN w /\ w[j] = localdb[j]
                                         \/ j > k /\ j - 1 \in DOMAIN w /\ w[j - 1] = localdb[j]
  BY <1>4, <1>7, CalmFacts, WithoutRecs
<1>9. w \in Seq(Record)
  BY <1>7, CalmFacts
<1>10. ASSUME NEW j \in DOMAIN w
       PROVE  \E i \in DOMAIN localdb : w[j] = localdb[i] /\ (j <= li - 1 => i <= li)
  <2>1. j \in Nat
    BY <1>9, ListFacts
  <2>2. CASE j < k /\ j \in DOMAIN localdb \ {k} /\ w[j] = localdb[j]
    BY <1>4, <1>5, <2>1, <2>2
  <2>3. CASE j >= k /\ j + 1 \in DOMAIN localdb \ {k} /\ w[j] = localdb[j + 1]
    <3>1. j <= li - 1 => j + 1 <= li
      BY <1>5, <2>1
    <3> QED
      BY <2>3, <3>1
  <2> QED
    BY <1>8, <2>2, <2>3
<1>11. ASSUME NEW i \in DOMAIN localdb, i > li
       PROVE  \E j \in DOMAIN w : j > li - 1 /\ w[j] = localdb[i]
  <2>1. i \in Nat /\ i > k /\ i # k /\ i - 1 > li - 1
    BY <1>4, <1>5, <1>11
  <2>2. ~ (i < k)
    BY <1>5, <2>1
  <2>3. i - 1 \in DOMAIN w /\ w[i - 1] = localdb[i]
    BY <1>8, <2>1, <2>2
  <2> QED
    BY <2>1, <2>3
<1>12. ASSUME NEW i \in DOMAIN localdb
       PROVE  Settled(localdb[i].data) \/ \E j \in DOMAIN w : w[j] = localdb[i]
  BY <1>6, <1>8
<1> QED
  BY <1>2, <1>7, <1>10, <1>11, <1>12

(* What that means for the second phase.                                   *)
LEMMA UnlinkedEdits ==
    ASSUME Calm, pc = "local", plan # <<>>, plan' = <<>>, Head(plan) \in {DeleteLocal, PurgeLocal},
           Growing, SameSession, UNCHANGED <<remotedb, archive>>, PalmKeeps,
           Settled(Localrec.data), Unlink,
           \A q \in Recs(palm') : q \in Recs(palm), mode = "first" => UNCHANGED palm
    PROVE  Edits'
<1>1. /\ SecondPhase /\ LocalPlans /\ ListsDecent /\ li \in DOMAIN localdb /\ li \in Nat /\ Localrec = localdb[li]
  BY AtSecondPhase, CalmFacts
<1>2. /\ li' = li - 1
      /\ \A j \in DOMAIN localdb' :
            \E k \in DOMAIN localdb : localdb'[j] = localdb[k] /\ (j <= li' => k <= li)
      /\ \A k \in DOMAIN localdb : k > li => \E j \in DOMAIN localdb' : j > li' /\ localdb'[j] = localdb[k]
      /\ \A k \in DOMAIN localdb : Settled(localdb[k].data) \/ \E j \in DOMAIN localdb' : localdb'[j] = localdb[k]
  BY UnlinkLocalPhase
<1>3. LocalPlans'
  BY DEF LocalPlans
<1>4. ASSUME NEW j \in DOMAIN localdb'
      PROVE  (\E k \in DOMAIN localdb \ {li} : localdb'[j] = localdb[k]) \/ Good(localdb[j])'
  <2>1. PICK k \in DOMAIN localdb : localdb'[j] = localdb[k]
    BY <1>2
  <2>2. CASE k = li
    <3>1. Settled(localdb'[j].data)
      BY <1>1, <2>1, <2>2
    <3>2. PICK r : r = localdb'[j]
      OBVIOUS
    <3>3. Settled(r.data)'
      BY <3>1, <3>2, SettledStays
    <3> QED
      BY <3>2, <3>3 DEF Good, Settled
  <2> QED
    BY <2>1, <2>2
<1>5. ASSUME NEW p \in Recs(palm), ToCome(p) PROVE ToCome(p)'
  <2>1. plan \notin {<<ClearLocal, ArchiveLocal>>, <<ArchiveLocal>>}
    <3>1. ClearLocal \notin {DeleteLocal, PurgeLocal} /\ ArchiveLocal \notin {DeleteLocal, PurgeLocal}
      BY DEF ClearLocal, ArchiveLocal, DeleteLocal, PurgeLocal
    <3> QED
      BY <3>1, Tails
  <2> QED
    BY <1>2, <1>5, <2>1 DEF ToCome, SameSession
<1>6. ASSUME NEW j \in DOMAIN localdb', Behind(j)', localdb'[j].id = 0 PROVE Settled(localdb[j].data)'
  <2>1. j <= li'
    <3>1. j \in Nat /\ li' \in Nat
      BY CalmFacts, ListFacts DEF Calm, Inductive, TypeOK
    <3> QED
      BY <1>6, <3>1 DEF Behind
  <2>2. PICK k \in DOMAIN localdb : localdb'[j] = localdb[k] /\ k <= li
    BY <1>2, <2>1
  <2>3. Settled(localdb[k].data)
    <3>1. CASE k = li
      BY <1>1, <3>1
    <3>2. CASE k < li
      BY <1>1, <1>6, <2>2, <3>2 DEF SecondPhase
    <3>3. k \in Nat
      BY CalmFacts, ListFacts
    <3> QED
      BY <1>1, <2>2, <3>1, <3>2, <3>3
  <2> QED
    BY <2>2, <2>3 DEF Settled, Growing
<1>7. \A x \in Recs(localdb') : x \in Recs(localdb)
  BY <1>2 DEF Recs
<1>8. ASSUME NEW s \in Recs(localdb) PROVE Covered(s.data)'
  <2>1. Settled(s.data) \/ s \in Recs(localdb')
    BY <1>2 DEF Recs
  <2> QED
    BY <2>1, SettledStays DEF Covered
<1>9. \A x \in Recs(palm') \cup Recs(localdb') : Decent(x)
  BY <1>1, <1>7 DEF ListsDecent
<1> QED
  BY <1>3, <1>4, <1>5, <1>6, <1>7, <1>8, <1>9, SecondPhaseStep

LEMMA DoDeleteLocalLocalPhase == ASSUME Calm, pc = "local", DoDeleteLocal PROVE Edits'
<1>1. /\ plan # <<>> /\ plan' = Tail(plan) /\ Head(plan) = DeleteLocal /\ Unlink
      /\ UNCHANGED <<palm, nextId, lastSyncPC, backup, archive, sessVars, wanted, edits, remotedb, seen, rem>>
  BY DEF DoDeleteLocal, Step, NextStep, palmVars, fileVars, userVars
<1>2. plan' = <<>> /\ Settled(Localrec.data)
  <2>1. DeleteLocal \notin {ClearLocal, ArchiveLocal}
    BY DEF DeleteLocal, ClearLocal, ArchiveLocal
  <2> QED
    BY <1>1, <2>1, AtSecondPhase, LocalHead
<1>3. Growing /\ SameSession /\ PalmKeeps
  BY <1>1 DEF Growing, SameSession, sessVars, PalmKeeps
<1> QED
  BY <1>1, <1>2, <1>3, UnlinkedEdits

(* DlpDeleteRecord, in FastSync's second phase: the Palm has the content   *)
(* that has just been archived, or another that nobody misses.             *)
LEMMA DoPurgeLocalLocalPhase == ASSUME Calm, NoFault, pc = "local", DoPurgeLocal PROVE Edits'
<1>1. plan # <<>> /\ Head(plan) = PurgeLocal
  BY DEF DoPurgeLocal, Step
<1>2. /\ SecondPhase /\ LocalPlans /\ online /\ ~ opened /\ li \in DOMAIN localdb /\ Localrec = localdb[li]
      /\ Localrec.id \in Nat /\ Localrec \in Recs(localdb)
  BY <1>1, AtSecondPhase
<1>3. /\ plan' = Tail(plan) /\ Unlink /\ Remove(Localrec.id)
      /\ UNCHANGED <<nextId, lastSyncPC, backup, archive, sessVars, wanted, edits, remotedb, seen, rem>>
  <2>1. ~ Refused /\ ~ NotWritable /\ ~ Lost(Remove(localdb[li].id) /\ UNCHANGED nextId)
    BY <1>2, NoneFails
  <2>2. Remove(localdb[li].id) /\ Unlink /\ NextStep /\ UNCHANGED <<nextId, online, pc, failed>>
    BY <2>1 DEF DoPurgeLocal
  <2> QED
    BY <1>2, <2>2 DEF DoPurgeLocal, NextStep, fileVars, userVars, sessVars
<1>4. plan' = <<>> /\ Settled(Localrec.data) /\ mode # "first"
  <2>1. PurgeLocal \notin {ClearLocal, ArchiveLocal}
    BY DEF PurgeLocal, ClearLocal, ArchiveLocal
  <2> QED
    BY <1>1, <1>2, <1>3, <2>1, LocalHead
<1>5. Recs(palm') = {p \in Recs(palm) : p.id # Localrec.id}
  BY <1>2, <1>3, CalmFacts, RemoveRecs DEF Calm, IdsInv
<1>6. Growing /\ SameSession
  BY <1>3 DEF Growing, SameSession, sessVars
<1>7. PalmKeeps
  <2> SUFFICES ASSUME NEW p \in Recs(palm), p.id = Localrec.id PROVE Settled(p.data)'
    BY <1>5 DEF PalmKeeps
  <2>1. Agree(p, Localrec)
    BY <1>2 DEF SecondPhase, AgreesAll
  <2>2. Settled(p.data)
    BY <1>4, <2>1 DEF Agree
  <2> QED
    BY <1>6, <2>2, SettledStays
<1> QED
  BY <1>1, <1>3, <1>4, <1>5, <1>6, <1>7, UnlinkedEdits

(* A refusal leaves the record where it is, on both sides.                 *)
LEMMA RefusedPurgeEdits ==
    ASSUME Calm, Refused, pc = "local", DoPurgeLocal PROVE Edits'
<1>1. plan # <<>> /\ Head(plan) = PurgeLocal
  BY DEF DoPurgeLocal, Step
<1>2. /\ SecondPhase /\ LocalPlans /\ online /\ ~ opened /\ li \in DOMAIN localdb /\ Localrec = localdb[li]
      /\ Localrec.id \in Nat /\ Localrec \in Recs(localdb) /\ ListsDecent
  BY <1>1, AtSecondPhase
<1>3. /\ plan' = Tail(plan)
      /\ UNCHANGED <<palm, nextId, lastSyncPC, backup, archive, sessVars, wanted, edits, localdb, remotedb, seen, rem, li>>
  <2>1. NextStep /\ UNCHANGED <<palm, nextId, online, pc, failed, localdb, li>>
    <3>1. ~ NoFault /\ ~ Lost(Remove(localdb[li].id) /\ UNCHANGED nextId)
      <4>1. faults \in Nat /\ faults' = faults + 1 /\ online'
        BY <1>2 DEF Calm, Inductive, TypeOK, Refused, Fault
      <4> QED
        BY <1>2, <4>1 DEF NoFault, Lost
    <3> QED
      BY <3>1 DEF DoPurgeLocal, Refused, NotWritable
  <2> QED
    BY <2>1 DEF DoPurgeLocal, NextStep, fileVars, userVars, sessVars
<1>4. plan' = <<>> /\ Settled(Localrec.data) /\ mode # "first"
  <2>1. PurgeLocal \notin {ClearLocal, ArchiveLocal}
    BY DEF PurgeLocal, ClearLocal, ArchiveLocal
  <2> QED
    BY <1>1, <1>2, <1>3, <2>1, LocalHead
<1>5. Growing /\ SameSession /\ PalmKeeps
  BY <1>3 DEF Growing, SameSession, sessVars, PalmKeeps
<1>6. LocalPlans'
  BY <1>4 DEF LocalPlans
<1>7. \A r \in Recs(localdb) : Covered(r.data)'
  BY <1>3 DEF Covered
<1>8. ASSUME NEW j \in DOMAIN localdb
      PROVE  (\E k \in DOMAIN localdb \ {li} : localdb'[j] = localdb[k]) \/ Good(localdb[j])'
  <2>1. CASE j = li
    <3>1. PICK r : r = localdb[li] /\ r = localdb'[j] /\ r = Localrec
      BY <1>2, <1>3, <2>1
    <3>2. Settled(r.data)'
      BY <1>4, <1>5, <3>1, SettledStays
    <3> QED
      BY <3>1, <3>2 DEF Good, Settled
  <2> QED
    BY <1>3, <2>1
<1>9. ASSUME NEW j \in DOMAIN localdb', Behind(j)', localdb'[j].id = 0 PROVE Settled(localdb[j].data)'
  <2>1. PICK d : d = localdb[j].data /\ d = localdb'[j].data
    BY <1>3
  <2>2. Settled(d)
    <3>1. j < li \/ j = li
      BY <1>3, <1>9 DEF Behind
    <3>2. j = li => Settled(d)
      BY <1>2, <1>4, <2>1
    <3>3. j < li => Settled(d)
      BY <1>2, <1>3, <1>9, <2>1 DEF SecondPhase
    <3> QED
      BY <3>1, <3>2, <3>3
  <2> QED
    BY <1>5, <2>1, <2>2, SettledStays DEF Settled
<1>10. \A p \in Recs(palm) : ~ ToCome(p)
  BY <1>4 DEF ToCome
<1>11. \A x \in Recs(palm') \cup Recs(localdb') : Decent(x)
  BY <1>2, <1>3 DEF ListsDecent
<1> QED
  BY <1>1, <1>3, <1>4, <1>5, <1>6, <1>7, <1>8, <1>9, <1>10, <1>11, SecondPhaseStep

(* DlpWriteRecord, in the second phase.                                    *)
LEMMA DoUploadLocalPhase == ASSUME Calm, NoFault, pc = "local", DoUpload PROVE Edits'
<1>1. /\ plan # <<>> /\ plan' = Tail(plan) /\ li \in DOMAIN localdb /\ Localrec \in Record
      /\ UNCHANGED <<lastSyncPC, backup, archive, sessVars, wanted, edits, remotedb, seen, rem, li>>
  BY UploadEffect
<1>2. PICK id \in Nat, newID \in Nat, q \in Record :
        /\ \/ Head(plan) = UploadLocal /\ id = Localrec.id
           \/ Head(plan) = UploadAsNew /\ id = 0
        /\ localdb' = [localdb EXCEPT ![li] = [Localrec EXCEPT !.id = newID]]
        /\ q.id = newID /\ q.data = Localrec.data /\ q.flags \subseteq {DIRTY}
        /\ Recs(palm') = {p \in Recs(palm) : p.id # newID} \cup {q}
        /\ newID = id \/ (newID = nextId /\ \A p \in Recs(palm) : p.id # id)
        /\ newID # 0 /\ nextId # 0
  BY UploadEffect
<1>3. /\ UploadAsNew \notin {ClearLocal, ArchiveLocal, DeleteLocal, PurgeLocal, UploadLocal}
      /\ UploadLocal \notin {ClearLocal, ArchiveLocal, DeleteLocal}
  BY DEF UploadLocal, UploadAsNew, DeleteLocal, ClearLocal, ArchiveLocal, PurgeLocal
<1>4. /\ SecondPhase /\ LocalPlans /\ ListsDecent /\ Localrec = localdb[li] /\ Localrec \in Recs(localdb)
  BY <1>1, AtSecondPhase
<1>5. /\ Head(plan) = UploadLocal /\ id = Localrec.id /\ mode # "first" /\ plan' = <<>>
      /\ Distinct(localdb)
  BY <1>1, <1>2, <1>3, <1>4, LocalHead, AtSecondPhase
<1>6. /\ DOMAIN localdb' = DOMAIN localdb /\ \A j \in DOMAIN localdb : j # li => localdb'[j] = localdb[j]
      /\ localdb'[li].id = newID /\ localdb'[li].data = Localrec.data
      /\ localdb'[li].flags = Localrec.flags /\ localdb'[li] \in Record
  BY <1>1, <1>2, <1>4, CalmFacts, RenamedRecs
<1>7. Growing /\ SameSession /\ LocalPlans'
  BY <1>1, <1>5 DEF SameSession, sessVars, Growing, LocalPlans
<1>8. PalmKeeps
  <2> SUFFICES ASSUME NEW p \in Recs(palm), ~ Settled(p.data)'
               PROVE  \E x \in Recs(palm') : x.id = p.id /\ x.data = p.data
    BY DEF PalmKeeps
  <2>1. CASE p.id # newID
    BY <1>2, <2>1
  <2>2. CASE p.id = newID
    <3>1. newID = Localrec.id
      BY <1>2, <1>5, <2>2, CalmFacts
    <3>2. Agree(p, Localrec) /\ ~ Settled(p.data)
      BY <1>4, <1>7, SettledStays DEF SecondPhase, AgreesAll
    <3>3. p.data = Localrec.data
      BY <2>2, <3>1, <3>2 DEF Agree
    <3> QED
      BY <1>2, <2>2, <3>3
  <2> QED
    BY <2>1, <2>2
<1>9. ASSUME NEW x \in Recs(localdb')
      PROVE  /\ Decent(x)
             /\ x.id = newID => x.data = q.data
             /\ x.id = nextId \/ \E s \in Recs(localdb) : s.id = x.id /\ s.data = x.data
  <2>1. PICK j \in DOMAIN localdb : x = localdb'[j]
    BY <1>6 DEF Recs
  <2>2. CASE j = li
    BY <1>2, <1>4, <1>5, <1>6, <2>1, <2>2 DEF Decent, ListsDecent
  <2>3. CASE j # li
    <3>1. x = localdb[j] /\ x \in Recs(localdb)
      BY <1>6, <2>1, <2>3 DEF Recs
    <3>2. x.id # newID
      BY <1>1, <1>2, <1>4, <1>5, <2>3, <3>1, CalmFacts DEF Distinct
    <3> QED
      BY <1>4, <3>1, <3>2 DEF ListsDecent
  <2> QED
    BY <2>2, <2>3
<1>10. \A y \in Recs(palm') : y \in Recs(palm) \/ (IsLive(y) /\ AgreesAll(y)')
  <2>1. IsLive(q)
    BY <1>2 DEF IsLive, DIRTY, DELETED, ARCHIVE, EXPUNGED
  <2>2. AgreesAll(q)'
    BY <1>2, <1>9 DEF AgreesAll, Agree
  <2> QED
    BY <1>2, <2>1, <2>2
<1>11. Good(localdb[li])'
  BY <1>1, <1>2, <1>6 DEF Good, OnPalm
<1>12. \A j \in DOMAIN localdb' : (\E k \in DOMAIN localdb \ {li} : localdb'[j] = localdb[k]) \/ Good(localdb[j])'
  <2> SUFFICES ASSUME NEW j \in DOMAIN localdb
               PROVE  (\E k \in DOMAIN localdb \ {li} : localdb'[j] = localdb[k]) \/ Good(localdb[j])'
    BY <1>6
  <2>1. CASE j = li
    BY <1>1, <1>11, <2>1
  <2>2. CASE j # li
    BY <1>6, <2>2
  <2> QED
    BY <2>1, <2>2
<1>13. ASSUME NEW j \in DOMAIN localdb', Behind(j)', localdb'[j].id = 0 PROVE Settled(localdb[j].data)'
  <2>1. j # li
    BY <1>2, <1>6, <1>13
  <2>2. j < li /\ localdb'[j] = localdb[j] /\ j \in DOMAIN localdb
    BY <1>1, <1>6, <1>13, <2>1 DEF Behind
  <2> QED
    BY <1>4, <1>7, <1>13, <2>2, SettledStays DEF SecondPhase
<1>14. ASSUME NEW s \in Recs(localdb) PROVE Covered(s.data)'
  <2>1. \E x \in Recs(localdb') : x.data = s.data
    BY <1>4, <1>6 DEF Recs
  <2> QED
    BY <2>1 DEF Covered
<1>15. \A x \in Recs(palm') \cup Recs(localdb') : Decent(x)
  <2>1. Decent(q)
    BY <1>2, <1>4 DEF ListsDecent, Decent
  <2> QED
    BY <1>2, <1>4, <1>9, <2>1 DEF ListsDecent
<1>16. \A p \in Recs(palm) : ~ ToCome(p)
  BY <1>5 DEF ToCome
<1> QED
  BY <1>1, <1>5, <1>7, <1>8, <1>9, <1>10, <1>12, <1>13, <1>14, <1>15, <1>16, SecondPhaseStep

(* Every step of a plan of the second phase.                               *)
LEMMA LocalPhaseSteps == ASSUME Calm, NoFault, pc = "local", SyncRecordStep PROVE Edits'
<1>1. ASSUME plan # <<>>
      PROVE  Head(plan) \in {ClearLocal, ArchiveLocal, DeleteLocal, PurgeLocal, UploadLocal}
  BY <1>1, AtSecondPhase, LocalHead
<1>2. ~ DoAppendRemote /\ ~ DoInsertRemote /\ ~ DoDropRemote /\ ~ DoDeleteRemote
  <2>1. {AppendRemote, AppendUnclean, InsertRemote, DropRemote, DeleteRemote}
          \cap {ClearLocal, ArchiveLocal, DeleteLocal, PurgeLocal, UploadLocal} = {}
    BY DEF AppendRemote, AppendUnclean, InsertRemote, DropRemote, DeleteRemote, ClearLocal, ArchiveLocal,
           DeleteLocal, PurgeLocal, UploadLocal
  <2> QED
    BY <1>1, <2>1 DEF DoAppendRemote, DoInsertRemote, DoDropRemote, DoDeleteRemote, Step
<1> QED
  BY <1>2, DoArchiveLocalPhase, DoClearLocalLocalPhase, DoDeleteLocalLocalPhase,
     DoPurgeLocalLocalPhase, DoUploadLocalPhase
  DEF SyncRecordStep

-----------------------------------------------------------------------------
(* The sync ends: what the next one relies on has to be there.             *)
LEMMA NoRecDecent == ASSUME Calm PROVE Decent(NoRec)
<1>1. InitRecords \in Nat /\ edits \in Nat
  BY ConstantsAssumption DEF Calm, Inductive, TypeOK
<1> QED
  BY <1>1 DEF Decent, NoRec, Rec, Newest

LEMMA EndSessionEdits ==
    ASSUME Calm, EndSession, UNCHANGED <<palm, nextId, fileVars, userVars>>,
           lastSyncPC' \in Hosts => Trust(lastSyncPC')
    PROVE  Edits'
<1>1. /\ pc' = "idle" /\ localdb' = <<>> /\ remotedb' = <<>> /\ seen' = {} /\ rem' = NoRec /\ li' = 0 /\ plan' = <<>>
      /\ UNCHANGED <<palm, backup, archive, wanted, edits>>
  BY DEF EndSession, fileVars, userVars
<1>2. ListsDecent /\ AllInPlace /\ FilesGood
  BY DEF Calm, Edits
<1>3. Growing /\ PalmKeeps
  BY <1>1 DEF Growing, PalmKeeps
<1>4. AllInPlace' /\ FilesGood'
  BY <1>1, <1>2, <1>3, PlacesStay
<1>5. Recs(<<>>) = {}
  BY DEF Recs
<1>6. ListsDecent'
  BY <1>1, <1>2, <1>3, <1>5, NoRecDecent, SettledStays DEF ListsDecent, Newest
<1>7. BetweenSyncs'
  <2>1. lastSyncPC' \in Hosts => Trust(lastSyncPC)'
    BY <1>1, <1>3, SettledStays DEF Trust
  <2> QED
    BY <1>1, <2>1 DEF BetweenSyncs
<1> QED
  BY <1>1, <1>4, <1>6, <1>7 DEF Edits

LEMMA CancelEdits == ASSUME Calm, Cancel PROVE Edits'
<1>1. pc = "open" /\ EndSession /\ UNCHANGED <<palm, nextId, lastSyncPC, fileVars, userVars>>
  BY DEF Cancel, palmVars
<1>2. lastSyncPC \in Hosts => Trust(lastSyncPC)
  BY <1>1 DEF Calm, Edits, BetweenSyncs
<1> QED
  BY <1>1, <1>2, EndSessionEdits

(* The Palm's user info names the host that has the same records.          *)
LEMMA UpdateUserInfoEdits == ASSUME Calm, NoFault, UpdateUserInfo PROVE Edits'
<1>1. pc = "userinfo" /\ EndSession /\ UNCHANGED <<palm, nextId, fileVars, userVars>>
  BY DEF UpdateUserInfo
<1>2. online /\ FileAgrees
  BY <1>1 DEF Calm, Edits
<1>3. lastSyncPC' = host
  BY <1>2, NoneFails DEF UpdateUserInfo
<1>4. Trust(host)
  BY <1>2 DEF FileAgrees, Trust
<1> QED
  BY <1>1, <1>3, <1>4, EndSessionEdits

(* A sync begins.  Without -FF it is a fast one only at the host that the  *)
(* Palm was last synced with.                                              *)
LEMMA StartSyncEdits == ASSUME Calm, NEW h \in Hosts, StartSync(h) PROVE Edits'
<1>1. /\ pc = "idle" /\ pc' = "open" /\ host' = h /\ online' = TRUE /\ opened' \in OpenOnPalm
      /\ mode' = IF backup[h] = NoFile THEN "first"
                 ELSE IF (lastSyncPC # h \/ "slow" \in Forced) /\ "fast" \notin Forced
                 THEN "slow" ELSE "fast"
      /\ UNCHANGED <<palm, nextId, lastSyncPC, backup, archive, localdb, remotedb, seen, rem, li, plan, wanted, edits>>
  BY DEF StartSync, palmVars, fileVars, workVars, userVars
<1>2. BetweenSyncs /\ ListsDecent /\ AllInPlace /\ FilesGood
  BY <1>1 DEF Calm, Edits
<1>3. Growing /\ PalmKeeps
  BY <1>1 DEF Growing, PalmKeeps
<1>4. AllInPlace' /\ FilesGood' /\ ListsDecent'
  BY <1>1, <1>2, <1>3, PlacesStay, SettledStays DEF ListsDecent, Newest
<1>5. opened' = FALSE
  BY <1>1, ConstantsAssumption DEF Calm, OrdinaryUse
<1>6. (mode' = "fast" => host' = lastSyncPC') /\ (mode' = "first" => backup'[host'] = NoFile)
  BY <1>1 DEF Calm, OrdinaryUse
<1>7. BetweenSyncs'
  <2>1. lastSyncPC' \in Hosts => Trust(lastSyncPC)'
    BY <1>1, <1>2, <1>3, SettledStays DEF Trust, BetweenSyncs
  <2> QED
    BY <1>1, <1>2, <1>6, <2>1 DEF BetweenSyncs
<1> QED
  BY <1>1, <1>4, <1>5, <1>7 DEF Edits

(* The backup file is read, and the Palm's database.                       *)
LEMMA OpenEdits == ASSUME Calm, Open PROVE Edits'
<1>1. /\ pc = "open"
      /\ UNCHANGED <<palm, nextId, lastSyncPC, backup, archive, wanted, edits, host, mode, opened, online, seen, rem, li, plan>>
  BY DEF Open, palmVars, fileVars, userVars
<1>2. mode \in {"first", "slow", "fast"} /\ host \in Hosts /\ (mode # "first" => backup[host] # NoFile)
  BY <1>1 DEF Calm, Inductive, TypeOK, SessionInv, Modes
<1>3. \/ mode = "first" /\ pc' = "local" /\ localdb' = palm /\ remotedb' = <<>>
      \/ mode = "slow" /\ pc' = "remote" /\ localdb' = backup[host] /\ remotedb' = palm
      \/ mode = "fast" /\ pc' = "remote" /\ localdb' = backup[host] /\ remotedb' = <<>>
  BY <1>2 DEF Open
<1>4. BetweenSyncs /\ ListsDecent /\ AllInPlace /\ FilesGood /\ online /\ ~ opened
  BY <1>1 DEF Calm, Edits
<1>5. Growing /\ PalmKeeps
  BY <1>1 DEF Growing, PalmKeeps
<1>6. AllInPlace' /\ FilesGood'
  BY <1>1, <1>4, <1>5, PlacesStay
<1>7. Recs(<<>>) = {}
  BY DEF Recs
<1>8. ListsDecent'
  BY <1>1, <1>2, <1>3, <1>4, <1>5, <1>7, SettledStays DEF ListsDecent, Newest
<1>9. plan = <<>> /\ seen = {} /\ li = 0
  BY <1>4 DEF BetweenSyncs
<1>10. 0 \notin DOMAIN localdb' /\ \A j \in DOMAIN localdb' : j > 0 /\ ~ (j < 0)
  BY CalmFacts, ListFacts
<1>11. CASE mode = "first" /\ pc' = "local" /\ localdb' = palm
  <2>1. backup[host] = NoFile
    BY <1>1, <1>4, <1>11 DEF BetweenSyncs
  <2>2. \A r \in Recs(localdb') : OnPalm(r)'
    BY <1>1, <1>11 DEF OnPalm
  <2>3. LocalGood'
    BY <2>2 DEF LocalGood, Good, Recs
  <2>4. \A p \in Recs(palm') : AgreesAll(p)'
    BY <1>1, <1>11, CalmFacts DEF AgreesAll, Agree
  <2>5. \A p \in Recs(palm') : ToCome(p)'
    BY <1>1, <1>9, <1>10, <1>11 DEF ToCome, Recs
  <2>6. SecondPhase'
    BY <1>1, <1>9, <1>10, <1>11, <2>1, <2>2, <2>3, <2>4, <2>5 DEF SecondPhase, OldCovered, LocalPlans
  <2> QED
    BY <1>1, <1>4, <1>6, <1>8, <1>11, <2>6 DEF Edits
<1>12. CASE pc' = "remote" /\ localdb' = backup[host] /\ mode # "first"
  <2>1. OldCovered'
    BY <1>1, <1>12 DEF OldCovered, Covered
  <2>2. LocalGood'
    BY <1>1, <1>2, <1>6, <1>12 DEF LocalGood, FilesGood, Recs
  <2>3. ASSUME NEW p \in Recs(palm'), Reached(p)' PROVE Finished(p)'
    <3>1. CASE mode = "slow"
      <4>1. remotedb' = palm
        BY <1>2, <1>3, <3>1
      <4> QED
        BY <1>1, <1>9, <2>3, <3>1, <4>1 DEF Reached
    <3>2. CASE mode = "fast"
      <4>1. p.flags = {} /\ p \in Recs(palm)
        BY <1>1, <1>9, <2>3, <3>2 DEF Reached
      <4>2. IsLive(p)
        BY <4>1 DEF IsLive
      <4>3. Trust(host)
        BY <1>1, <1>2, <1>4, <3>2 DEF BetweenSyncs
      <4>4. \A r \in Recs(localdb') : Agree(p, r)
        BY <1>2, <1>12, <4>1, <4>3 DEF Trust
      <4> QED
        BY <1>5, <4>2, <4>4, SettledStays DEF Finished, AgreesAll
    <3> QED
      BY <1>2, <1>12, <3>1, <3>2
  <2>4. mode = "slow" => \A r \in Recs(remotedb') : r \in Recs(palm')
    BY <1>1, <1>3
  <2>5. FirstPhase'
    BY <1>1, <1>2, <1>9, <1>12, <2>1, <2>2, <2>3, <2>4 DEF FirstPhase
  <2> QED
    BY <1>1, <1>4, <1>6, <1>8, <1>12, <2>5 DEF Edits
<1> QED
  BY <1>3, <1>11, <1>12

(* The new backup file takes the place of the old one.                     *)
LEMMA WriteBackupEdits == ASSUME Calm, NoFault, WriteBackup PROVE Edits'
<1>1. /\ pc = "write" /\ pc' = "cleanup" /\ backup' = [backup EXCEPT ![host] = localdb]
      /\ UNCHANGED <<palm, nextId, lastSyncPC, archive, host, mode, opened, online, wanted, edits, localdb, remotedb, seen, rem, li, plan>>
  BY NoneFails DEF WriteBackup, palmVars, userVars, workVars
<1>2. /\ Writing /\ ListsDecent /\ AllInPlace /\ FilesGood /\ online /\ ~ opened
      /\ host \in Hosts /\ plan = <<>> /\ localdb # NoFile /\ backup \in [Hosts -> Seq(Record) \cup {NoFile}]
  BY <1>1, ConstantsAssumption DEF Calm, Edits, Inductive, TypeOK, SessionInv
<1>3. Growing /\ PalmKeeps
  BY <1>1 DEF Growing, PalmKeeps
<1>4. backup'[host] = localdb /\ \A h \in Hosts : h # host => backup'[h] = backup[h]
  BY <1>1, <1>2
<1>5. ASSUME NEW d \in wanted PROVE InPlace(d)'
  <2>1. CASE Settled(d)
    BY <1>3, <2>1, SettledStays DEF InPlace
  <2>2. CASE \E p \in Recs(palm) : p.data = d
    BY <1>1, <2>2 DEF InPlace
  <2>3. ASSUME NEW h \in Hosts, backup[h] # NoFile, NEW r \in Recs(backup[h]), r.data = d PROVE InPlace(d)'
    <3>1. CASE h # host
      BY <1>4, <2>3, <3>1 DEF InPlace
    <3>2. CASE h = host
      <4>1. Covered(d)
        BY <1>2, <2>3, <3>2 DEF Writing, OldCovered
      <4>2. CASE \E s \in Recs(localdb) : s.data = d
        BY <1>2, <1>4, <4>2 DEF InPlace
      <4> QED
        BY <2>1, <2>2, <4>1, <4>2 DEF Covered
    <3> QED
      BY <3>1, <3>2
  <2> QED
    BY <1>2, <2>1, <2>2, <2>3 DEF AllInPlace, InPlace
<1>6. AllInPlace'
  BY <1>1, <1>5 DEF AllInPlace
<1>7. FilesGood'
  <2> SUFFICES ASSUME NEW h \in Hosts, backup'[h] # NoFile, NEW r \in Recs(backup'[h]), r.flags = {}
               PROVE  Good(r)'
    BY DEF FilesGood
  <2>1. Good(r)
    <3>1. CASE h # host
      BY <1>2, <1>4, <3>1 DEF FilesGood
    <3>2. CASE h = host
      BY <1>2, <1>4, <3>2 DEF Writing, LocalGood, Recs
    <3> QED
      BY <3>1, <3>2
  <2> QED
    BY <1>3, <2>1, GoodStays
<1>8. ListsDecent'
  <2>1. \A h \in Hosts : backup'[h] # NoFile => \A r \in Recs(backup'[h]) : Decent(r)
    BY <1>2, <1>4 DEF ListsDecent
  <2> QED
    BY <1>1, <1>2, <1>3, <2>1, SettledStays DEF ListsDecent, Newest
<1>9. ASSUME NEW p \in Recs(palm') PROVE (~ IsLive(p) => Settled(p.data)') /\ \A r \in Recs(localdb) : Agree(p, r)'
  BY <1>1, <1>2, <1>3, SettledStays DEF Writing, Finished, AgreesAll
<1>10. FileAgrees' /\ DeadSettled'
  BY <1>1, <1>2, <1>4, <1>9 DEF FileAgrees, DeadSettled
<1> QED
  BY <1>1, <1>2, <1>6, <1>7, <1>8, <1>10 DEF Edits

(* DlpCleanUpDatabase takes from the Palm what nobody misses.              *)
LEMMA CleanUpDatabaseEdits == ASSUME Calm, NoFault, CleanUpDatabase PROVE Edits'
<1>1. /\ pc = "cleanup"
      /\ UNCHANGED <<lastSyncPC, backup, archive, host, mode, opened, wanted, edits, localdb, remotedb, seen, rem, li, plan>>
  BY DEF CleanUpDatabase, fileVars, userVars, workVars
<1>2. FileAgrees /\ DeadSettled /\ ListsDecent /\ AllInPlace /\ FilesGood /\ online /\ ~ opened
  BY <1>1 DEF Calm, Edits
<1>3. pc' = "reset" /\ CleanUp /\ UNCHANGED <<online, failed>>
  <2>1. ~ Refused /\ ~ NotWritable /\ ~ Lost(CleanUp /\ UNCHANGED nextId)
    BY <1>2, NoneFails
  <2> QED
    BY <2>1 DEF CleanUpDatabase
<1>4. Recs(palm') = {p \in Recs(palm) : IsLive(p)}
  BY <1>3, CalmFacts, PurgedRecs DEF CleanUp
<1>5. Growing
  BY <1>1 DEF Growing
<1>6. PalmKeeps
  BY <1>2, <1>4, <1>5, SettledStays DEF PalmKeeps, DeadSettled
<1>7. AllInPlace' /\ FilesGood'
  BY <1>1, <1>2, <1>5, <1>6, PlacesStay
<1>8. ListsDecent'
  BY <1>1, <1>2, <1>4, <1>5, SettledStays DEF ListsDecent, Newest
<1>9. FileAgrees'
  BY <1>1, <1>2, <1>4, <1>5, SettledStays DEF FileAgrees
<1> QED
  BY <1>1, <1>2, <1>3, <1>7, <1>8, <1>9 DEF Edits

(* DlpResetSyncFlags takes only the `dirty' bits.                          *)
LEMMA ResetSyncFlagsEdits == ASSUME Calm, NoFault, ResetSyncFlags PROVE Edits'
<1>1. /\ pc = "reset"
      /\ UNCHANGED <<lastSyncPC, backup, archive, host, mode, opened, wanted, edits, localdb, remotedb, seen, rem, li, plan>>
  BY DEF ResetSyncFlags, fileVars, userVars, workVars
<1>2. FileAgrees /\ ListsDecent /\ AllInPlace /\ FilesGood /\ online /\ ~ opened
  BY <1>1 DEF Calm, Edits
<1>3. pc' = "userinfo" /\ ResetFlags /\ UNCHANGED <<online, failed>>
  <2>1. ~ Refused /\ ~ Lost(ResetFlags /\ UNCHANGED nextId)
    BY <1>2, NoneFails
  <2> QED
    BY <1>2, <2>1 DEF ResetSyncFlags
<1>4. /\ \A q \in Recs(palm') : \E p \in Recs(palm) :
            q.id = p.id /\ q.data = p.data /\ q.flags = p.flags \ {DIRTY}
      /\ \A p \in Recs(palm) : \E q \in Recs(palm') : q.id = p.id /\ q.data = p.data
  BY <1>3, CalmFacts, ResetRecs
<1>5. Growing /\ PalmKeeps
  BY <1>1, <1>4 DEF Growing, PalmKeeps
<1>6. AllInPlace' /\ FilesGood'
  BY <1>1, <1>2, <1>5, PlacesStay
<1>7. ASSUME NEW q \in Recs(palm') PROVE Decent(q)
  <2>1. PICK p \in Recs(palm) : q.id = p.id /\ q.data = p.data /\ q.flags = p.flags \ {DIRTY}
    BY <1>4
  <2>2. Decent(p)
    BY <1>2 DEF ListsDecent
  <2>3. DIRTY \notin {DELETED, ARCHIVE, EXPUNGED}
    BY DEF DIRTY, DELETED, ARCHIVE, EXPUNGED
  <2>4. p.flags \subseteq {DIRTY} => q.flags \subseteq {DIRTY}
    BY <2>1
  <2>5. /\ DELETED \in p.flags => DELETED \in q.flags
        /\ ARCHIVE \in p.flags <=> ARCHIVE \in q.flags
        /\ EXPUNGED \in p.flags <=> EXPUNGED \in q.flags
    BY <2>1, <2>3
  <2> QED
    BY <2>1, <2>2, <2>4, <2>5 DEF Decent
<1>8. ListsDecent'
  BY <1>1, <1>2, <1>5, <1>7, SettledStays DEF ListsDecent, Newest
<1>9. FileAgrees'
  <2>1. ASSUME NEW q \in Recs(palm'), NEW r \in Recs(backup[host]) PROVE Agree(q, r)'
    <3>1. PICK p \in Recs(palm) : q.id = p.id /\ q.data = p.data
      BY <1>4
    <3>2. Agree(p, r)'
      BY <1>2, <1>5, SettledStays DEF FileAgrees
    <3> QED
      BY <3>1, <3>2 DEF Agree
  <2> QED
    BY <1>1, <1>2, <2>1 DEF FileAgrees
<1> QED
  BY <1>1, <1>2, <1>3, <1>6, <1>8, <1>9 DEF Edits

-----------------------------------------------------------------------------
(* The user's edits, between syncs.                                        *)

(* An edit makes at most one new content, one that no record has had.      *)
Edited ==
    /\ pc = "idle" /\ pc' = "idle" /\ edits' = edits + 1
    /\ UNCHANGED <<archive, lastSyncPC, localdb, remotedb, seen, rem, li, plan>>
    /\ wanted' \subseteq wanted \cup {Version}

(* It spoils no file for the next sync.                                    *)
TrustStays ==
    \A h \in Hosts :
        /\ Trust(h) => Trust(h)'
        /\ Paired(h) => Paired(h)'
        /\ backup[h] # NoFile => backup'[h] # NoFile

LEMMA EditedFacts ==
    ASSUME Calm, Edited
    PROVE  /\ Newest \in Nat /\ Version = Newest + 1 /\ Newest' = Version
           /\ \A d \in Nat : d <= Newest /\ Settled(d) => Settled(d)'
           /\ \A r \in Record : Decent(r) => Decent(r)'
           /\ \A p \in Record : \A r : Decent(p) /\ Agree(p, r) => Agree(p, r)'
           /\ \A d : d \notin wanted' => Settled(d)'
<1>1. Newest \in Nat /\ Version = Newest + 1 /\ Newest' = Version
  BY ConstantsAssumption DEF Calm, Inductive, TypeOK, Newest, Version, Edited
<1>2. \A d \in Nat : d <= Newest => d # Version
  BY <1>1
<1>3. \A d \in Nat : d <= Newest /\ d \notin wanted => d \notin wanted'
  BY <1>2 DEF Edited
<1>4. \A d \in Nat : d <= Newest /\ Settled(d) => Settled(d)'
  BY <1>3 DEF Settled, Edited
<1>5. \A r \in Record : r.data \in Nat
  BY RecordFacts
<1>6. ASSUME NEW r \in Record, Decent(r) PROVE Decent(r)'
  <2>1. r.data \in Nat /\ r.data <= Newest
    BY <1>5, <1>6 DEF Decent
  <2>2. r.data <= Newest'
    BY <1>1, <2>1
  <2> QED
    BY <1>3, <1>6, <2>1, <2>2 DEF Decent
<1>7. ASSUME NEW p \in Record, NEW r, Decent(p), Agree(p, r) PROVE Agree(p, r)'
  BY <1>4, <1>5, <1>7 DEF Agree, Decent
<1> QED
  BY <1>1, <1>4, <1>6, <1>7 DEF Settled

(* What the lists of a session, which are not in use, and the record in    *)
(* hand are after an edit.                                                 *)
LEMMA EditedDecent ==
    ASSUME Calm, Edited,
           \A p \in Recs(palm') : Decent(p)',
           \A h \in Hosts : backup'[h] # NoFile => \A r \in Recs(backup'[h]) : Decent(r)'
    PROVE  ListsDecent'
<1>1. ListsDecent
  BY DEF Calm, Edits
<1>2. \A r \in Recs(localdb) \cup Recs(remotedb) : Decent(r)'
  BY <1>1, EditedFacts, CalmFacts DEF ListsDecent
<1>3. Decent(rem)'
  <2>1. \A r \in Record : Decent(r) => Decent(r)'
    BY EditedFacts
  <2>2. PICK r \in Record : r = rem /\ Decent(r)
    BY <1>1, CalmFacts DEF ListsDecent
  <2>3. Decent(r)' /\ rem' = r
    BY <2>1, <2>2 DEF Edited
  <2> QED
    BY <2>3 DEF Decent
<1>4. wanted' \subseteq 1 .. Newest'
  <2>1. wanted \subseteq 1 .. Newest
    BY <1>1 DEF ListsDecent
  <2>2. PICK n \in Nat : n = Newest /\ Version = n + 1 /\ Newest' = n + 1
    BY EditedFacts
  <2>3. \A d \in 1 .. n : d \in 1 .. (n + 1)
    OBVIOUS
  <2>4. n + 1 \in 1 .. (n + 1)
    OBVIOUS
  <2> QED
    BY <2>1, <2>2, <2>3, <2>4 DEF Edited
<1>5. localdb' = localdb /\ remotedb' = remotedb
  BY DEF Edited
<1> QED
  BY <1>2, <1>3, <1>4, <1>5 DEF ListsDecent

(* The records of the files, all but changed ones.                         *)
LEMMA FileRecords ==
    ASSUME Calm, NEW h \in Hosts, backup[h] # NoFile
    PROVE  backup[h] \in Seq(Record) /\ \A r \in Recs(backup[h]) : r \in Record /\ r.data \in Nat /\ Decent(r)
<1>1. backup[h] \in Seq(Record)
  BY DEF Calm, Inductive, TypeOK
<1>2. \A r \in Recs(backup[h]) : r \in Record
  BY <1>1, ListFacts
<1>3. \A r \in Recs(backup[h]) : Decent(r)
  BY DEF Calm, Edits, ListsDecent
<1> QED
  BY <1>1, <1>2, <1>3, RecordFacts

(* The Palm: one record is new, or takes the place of one with its ID, and *)
(* has a status bit.                                                       *)
LEMMA PalmEdited ==
    ASSUME Calm, Edited, UNCHANGED backup, NEW q \in Record, q.flags # {}, Decent(q)',
           Recs(palm') = {p \in Recs(palm) : p.id # q.id} \cup {q},
           \A p \in Recs(palm) : p.id = q.id => p.data = q.data \/ p.data \notin wanted',
           wanted' \subseteq wanted \cup {q.data}
    PROVE  Edits' /\ TrustStays
<1>1. ListsDecent /\ AllInPlace /\ FilesGood /\ BetweenSyncs
  BY DEF Calm, Edits, Edited
<1>2. \A p \in Recs(palm) : p \in Record /\ p.data \in Nat /\ Decent(p)
  BY <1>1, CalmFacts, RecordFacts DEF ListsDecent
<1>3. ListsDecent'
  <2>1. \A p \in Recs(palm') : Decent(p)'
    BY <1>2, EditedFacts
  <2>2. ASSUME NEW h \in Hosts, backup'[h] # NoFile, NEW r \in Recs(backup'[h]) PROVE Decent(r)'
    BY <2>2, FileRecords, EditedFacts
  <2> QED
    BY <2>1, <2>2, EditedDecent
<1>4. ASSUME NEW d \in wanted' PROVE InPlace(d)'
  <2>1. CASE d = q.data
    BY <2>1 DEF InPlace
  <2>2. CASE d \in wanted
    <3>1. d \in Nat /\ d <= Newest
      BY <1>1, <2>2, EditedFacts DEF ListsDecent
    <3>2. InPlace(d)
      BY <1>1, <2>2 DEF AllInPlace
    <3>3. CASE Settled(d)
      BY <3>1, <3>3, EditedFacts DEF InPlace
    <3>4. ASSUME NEW p \in Recs(palm), p.data = d PROVE InPlace(d)'
      <4>1. CASE p.id = q.id
        BY <1>4, <2>1, <3>4, <4>1
      <4>2. CASE p.id # q.id
        BY <3>4, <4>2 DEF InPlace
      <4> QED
        BY <4>1, <4>2
    <3>5. CASE \E h \in Hosts : backup[h] # NoFile /\ \E r \in Recs(backup[h]) : r.data = d
      BY <3>5 DEF InPlace
    <3> QED
      BY <3>2, <3>3, <3>4, <3>5 DEF InPlace
  <2> QED
    BY <2>1, <2>2
<1>5. ASSUME NEW h \in Hosts, backup[h] # NoFile, NEW r \in Recs(backup[h]), r.flags = {} PROVE Good(r)'
  <2>1. Good(r) /\ r.data \in Nat /\ r.data <= Newest
    BY <1>1, <1>5, FileRecords DEF FilesGood, Decent
  <2>2. CASE Settled(r.data)
    BY <2>1, <2>2, EditedFacts DEF Good
  <2>3. ASSUME NEW p \in Recs(palm), p.id = r.id, p.data = r.data PROVE Good(r)'
    <3>1. CASE p.id # q.id
      BY <2>3, <3>1 DEF Good, OnPalm
    <3>2. CASE p.data = q.data /\ p.id = q.id
      BY <2>3, <3>2 DEF Good, OnPalm
    <3>3. CASE p.data \notin wanted'
      BY <2>3, <3>3, EditedFacts DEF Good
    <3> QED
      BY <3>1, <3>2, <3>3
  <2> QED
    BY <2>1, <2>2, <2>3 DEF Good, OnPalm
<1>6. ASSUME NEW h \in Hosts, Trust(h) PROVE Trust(h)'
  <2> SUFFICES ASSUME backup[h] # NoFile, NEW p \in Recs(palm'), NEW r \in Recs(backup[h]), p.flags = {}
               PROVE  Agree(p, r)'
    BY DEF Trust
  <2>1. p \in Recs(palm)
    OBVIOUS
  <2> QED
    BY <1>2, <1>6, <2>1, EditedFacts DEF Trust
<1>7. BetweenSyncs'
  <2>1. lastSyncPC' \in Hosts => Trust(lastSyncPC)'
    BY <1>1, <1>6 DEF BetweenSyncs, Edited, Trust
  <2> QED
    BY <1>1, <2>1 DEF BetweenSyncs, Edited
<1>8. ASSUME NEW h \in Hosts, Paired(h) PROVE Paired(h)'
  <2>1. \A p \in Recs(palm') : p.flags = {} => p \in Recs(palm)
    OBVIOUS
  <2>2. ASSUME NEW p \in Recs(palm)
        PROVE  \E x \in Recs(palm') : x.id = p.id /\ (x.flags = {} => x = p)
    <3>1. CASE p.id = q.id
      BY <3>1
    <3>2. CASE p.id # q.id
      BY <3>2
    <3> QED
      BY <3>1, <3>2
  <2> QED
    BY <1>8, <2>1, <2>2 DEF Paired
<1> QED
  BY <1>3, <1>4, <1>5, <1>6, <1>7, <1>8 DEF Edits, AllInPlace, FilesGood, Edited, TrustStays

(* A backup file: the same.                                                *)
LEMMA FileEdited ==
    ASSUME Calm, Edited, UNCHANGED palm, NEW h \in Hosts, backup[h] # NoFile,
           NEW file \in Seq(Record), backup' = [backup EXCEPT ![h] = file],
           NEW q \in Record, q.flags # {}, Decent(q)', q \in Recs(file),
           \A r \in Recs(file) : r = q \/ r \in Recs(backup[h]),
           \A r \in Recs(backup[h]) : r \in Recs(file) \/ r.data = q.data \/ r.data \notin wanted',
           \A r \in Recs(backup[h]) : \E s \in Recs(file) : s.id = r.id,
           \/ q.id = 0
           \/ \E old \in Recs(backup[h]) : q.id = old.id /\ (old.data = q.data \/ old.data \notin wanted'),
           wanted' \subseteq wanted \cup {q.data}
    PROVE  Edits' /\ TrustStays
<1>1. ListsDecent /\ AllInPlace /\ FilesGood /\ BetweenSyncs
  BY DEF Calm, Edits, Edited
<1>2. \A p \in Recs(palm) : p \in Record /\ p.data \in Nat /\ Decent(p) /\ p.id # 0
  BY <1>1, CalmFacts, RecordFacts DEF ListsDecent
<1>3. file # NoFile /\ backup'[h] = file /\ \A g \in Hosts : g # h => backup'[g] = backup[g]
  BY ConstantsAssumption DEF Calm, Inductive, TypeOK
<1>4. ListsDecent'
  <2>1. \A p \in Recs(palm') : Decent(p)'
    BY <1>2, EditedFacts
  <2>2. ASSUME NEW g \in Hosts, backup'[g] # NoFile, NEW r \in Recs(backup'[g]) PROVE Decent(r)'
    <3>1. CASE g # h
      BY <1>3, <2>2, <3>1, FileRecords, EditedFacts
    <3>2. CASE g = h
      BY <1>3, <2>2, <3>2, FileRecords, EditedFacts
    <3> QED
      BY <3>1, <3>2
  <2> QED
    BY <2>1, <2>2, EditedDecent
<1>5. ASSUME NEW d \in wanted' PROVE InPlace(d)'
  <2>1. CASE d = q.data
    BY <1>3, <2>1 DEF InPlace
  <2>2. CASE d \in wanted
    <3>1. d \in Nat /\ d <= Newest
      BY <1>1, <2>2, EditedFacts DEF ListsDecent
    <3>2. InPlace(d)
      BY <1>1, <2>2 DEF AllInPlace
    <3>3. CASE Settled(d)
      BY <3>1, <3>3, EditedFacts DEF InPlace
    <3>4. CASE \E p \in Recs(palm) : p.data = d
      BY <3>4 DEF InPlace
    <3>5. ASSUME NEW g \in Hosts, backup[g] # NoFile, NEW r \in Recs(backup[g]), r.data = d PROVE InPlace(d)'
      <4>1. CASE g # h
        BY <1>3, <3>5, <4>1 DEF InPlace
      <4>2. CASE g = h
        <5>1. r \in Recs(file) \/ r.data = q.data
          BY <1>5, <3>5, <4>2
        <5> QED
          BY <1>3, <3>5, <5>1 DEF InPlace
      <4> QED
        BY <4>1, <4>2
    <3> QED
      BY <3>2, <3>3, <3>4, <3>5 DEF InPlace
  <2> QED
    BY <2>1, <2>2
<1>6. ASSUME NEW g \in Hosts, backup'[g] # NoFile, NEW r \in Recs(backup'[g]), r.flags = {} PROVE Good(r)'
  <2>1. backup[g] # NoFile /\ r \in Recs(backup[g])
    BY <1>3, <1>6
  <2>2. Good(r) /\ r.data \in Nat /\ r.data <= Newest
    BY <1>1, <1>6, <2>1, FileRecords DEF FilesGood, Decent
  <2> QED
    BY <2>2, EditedFacts DEF Good, OnPalm
<1>7. ASSUME NEW g \in Hosts, Trust(g) PROVE Trust(g)'
  <2> SUFFICES ASSUME backup'[g] # NoFile, NEW p \in Recs(palm), NEW r \in Recs(backup'[g]), p.flags = {}
               PROVE  Agree(p, r)'
    BY DEF Trust
  <2>1. CASE backup[g] # NoFile /\ r \in Recs(backup[g])
    BY <1>2, <1>7, <2>1, EditedFacts DEF Trust
  <2>2. CASE g = h /\ r = q
    <3>1. CASE q.id = 0
      BY <1>2, <2>2, <3>1 DEF Agree
    <3>2. ASSUME NEW old \in Recs(backup[h]), q.id = old.id, old.data = q.data \/ old.data \notin wanted'
          PROVE  Agree(p, r)'
      <4>1. Agree(p, old)'
        BY <1>2, <1>7, <2>2, EditedFacts DEF Trust
      <4> QED
        BY <2>2, <3>2, <4>1, EditedFacts DEF Agree
    <3> QED
      BY <3>1, <3>2
  <2> QED
    BY <1>3, <2>1, <2>2
<1>8. BetweenSyncs'
  <2>1. lastSyncPC' \in Hosts => Trust(lastSyncPC)'
    BY <1>1, <1>7 DEF BetweenSyncs, Edited, Trust
  <2> QED
    BY <1>1, <2>1 DEF BetweenSyncs, Edited
<1>9. ASSUME NEW g \in Hosts, Paired(g) PROVE Paired(g)'
  <2>1. ASSUME g = h, backup[h] # NoFile PROVE Paired(g)'
    <3>1. \A r \in Recs(file) : r.flags = {} => r \in Recs(backup[h])
      OBVIOUS
    <3> QED
      BY <1>3, <1>9, <2>1, <3>1 DEF Paired
  <2>2. ASSUME g # h PROVE Paired(g)'
    BY <1>3, <1>9, <2>2 DEF Paired
  <2> QED
    BY <2>1, <2>2
<1>10. Edits'
  BY <1>4, <1>5, <1>6, <1>8 DEF Edits, AllInPlace, FilesGood, Edited
<1> QED
  BY <1>3, <1>7, <1>9, <1>10 DEF TrustStays

(* What an edit makes of a live record.                                    *)
LEMMA LiveFlags ==
    ASSUME Calm, Edited, NEW old \in Record, Decent(old), IsLive(old)
    PROVE  /\ old.flags \cup {DIRTY} \subseteq {DIRTY}
           /\ \A marks \in ArchiveMarks \cup {{DELETED, ARCHIVE}} :
                 {DELETED, ARCHIVE} \subseteq old.flags \cup marks /\ EXPUNGED \notin old.flags \cup marks
           /\ \A marks \in ExpungeMarks \cup {{DELETED, EXPUNGED}} :
                 EXPUNGED \in old.flags \cup marks /\ ARCHIVE \notin old.flags \cup marks
           /\ \A marks \in ArchiveMarks \cup ExpungeMarks : old.flags \cup marks \subseteq Flags
           /\ {DIRTY, DELETED, ARCHIVE, EXPUNGED} \subseteq Flags /\ old.flags \subseteq Flags
           /\ old.id \in Nat /\ old.data \in Nat /\ old.data <= Newest' /\ old.data # Version
<1>1. old.flags \subseteq {DIRTY}
  BY DEF Decent, IsLive
<1>2. old.id \in Nat /\ old.data \in Nat /\ old.flags \subseteq Flags /\ old.data <= Newest
  BY RecordFacts DEF Decent
<1>3. old.data <= Newest' /\ old.data # Version
  BY <1>2, EditedFacts
<1>4. DIRTY \notin {DELETED, ARCHIVE, EXPUNGED} /\ ARCHIVE # EXPUNGED /\ DELETED \notin {EXPUNGED, ARCHIVE}
  BY DEF DIRTY, DELETED, ARCHIVE, EXPUNGED
<1>5. {DIRTY, DELETED, ARCHIVE, EXPUNGED} \subseteq Flags
  BY DEF Flags
<1>6. /\ \A marks \in ArchiveMarks : {DELETED, ARCHIVE} \subseteq marks /\ EXPUNGED \notin marks /\ marks \subseteq Flags
      /\ \A marks \in ExpungeMarks : EXPUNGED \in marks /\ ARCHIVE \notin marks /\ marks \subseteq Flags
  BY ConstantsAssumption DEF Calm, OrdinaryUse
<1>7. \A marks \in ArchiveMarks \cup {{DELETED, ARCHIVE}} :
          {DELETED, ARCHIVE} \subseteq old.flags \cup marks /\ EXPUNGED \notin old.flags \cup marks
  BY <1>1, <1>4, <1>6
<1>8. \A marks \in ExpungeMarks \cup {{DELETED, EXPUNGED}} :
          EXPUNGED \in old.flags \cup marks /\ ARCHIVE \notin old.flags \cup marks
  BY <1>1, <1>4, <1>6
<1>9. \A marks \in ArchiveMarks \cup ExpungeMarks : old.flags \cup marks \subseteq Flags
  BY <1>2, <1>6
<1> QED
  BY <1>1, <1>2, <1>3, <1>5, <1>7, <1>8, <1>9

(* A record of the Palm that is changed in place.                          *)
LEMMA PalmChanged ==
    ASSUME palm \in Seq(Record), PalmIds, NEW i \in DOMAIN palm, NEW q \in Record, q.id = palm[i].id,
           palm' = [palm EXCEPT ![i] = q]
    PROVE  /\ Recs(palm') = {p \in Recs(palm) : p.id # q.id} \cup {q}
           /\ \A p \in Recs(palm) : p.id = q.id => p = palm[i]
<1>1. palm[i] \in Recs(palm) /\ palm[i].id # 0
  BY ListFacts DEF PalmIds, Assigned
<1>2. \A p \in Recs(palm) : p.id = q.id => p = palm[i]
  BY <1>1 DEF PalmIds, Distinct, Recs
<1>3. PICK new : new = [palm EXCEPT ![i] = q]
  OBVIOUS
<1>4. Recs(new) = {palm[j] : j \in DOMAIN palm \ {i}} \cup {q}
  BY <1>3, ChangeRecs
<1>5. \A j \in DOMAIN palm \ {i} : palm[j].id # q.id
  BY <1>1 DEF PalmIds, Distinct
<1>6. Recs(new) = {p \in Recs(palm) : p.id # q.id} \cup {q}
  <2>1. ASSUME NEW p \in Recs(palm), p.id # q.id PROVE p \in Recs(new)
    BY <1>4, <2>1 DEF Recs
  <2>2. ASSUME NEW p \in Recs(new), p # q PROVE p \in Recs(palm) /\ p.id # q.id
    BY <1>4, <1>5, <2>2 DEF Recs
  <2>3. q \in Recs(new)
    BY <1>4
  <2> QED
    BY <2>1, <2>2, <2>3
<1> QED
  BY <1>2, <1>3, <1>6

(* ... and one of a backup file.                                           *)
LEMMA FileChanged ==
    ASSUME Calm, Edited, UNCHANGED palm, NEW h \in Hosts, backup[h] # NoFile,
           NEW i \in DOMAIN backup[h], NEW q \in Record, q.id = backup[h][i].id,
           backup' = [backup EXCEPT ![h] = [backup[h] EXCEPT ![i] = q]], q.flags # {}, Decent(q)',
           q.data = backup[h][i].data \/ backup[h][i].data \notin wanted',
           wanted' \subseteq wanted \cup {q.data}
    PROVE  Edits' /\ TrustStays
<1>1. PICK db \in Seq(Record) : db = backup[h]
  BY FileRecords
<1>2. PICK file : file = [db EXCEPT ![i] = q]
  OBVIOUS
<1>3. file \in Seq(Record)
  BY <1>1, <1>2, ExceptSeq
<1>4. db[i] \in Recs(db)
  BY <1>1, ListFacts
<1>5. Recs(file) = {db[j] : j \in DOMAIN db \ {i}} \cup {q}
  BY <1>1, <1>2, ChangeRecs
<1>6. \A r \in Recs(file) : r = q \/ r \in Recs(db)
  BY <1>5 DEF Recs
<1>7. \A r \in Recs(db) : r \in Recs(file) \/ r = db[i]
  BY <1>5 DEF Recs
<1>8. q \in Recs(file)
  BY <1>5
<1>9. \A r \in Recs(db) : \E s \in Recs(file) : s.id = r.id
  BY <1>1, <1>7, <1>8
<1>10. /\ \A r \in Recs(file) : r = q \/ r \in Recs(backup[h])
       /\ \A r \in Recs(backup[h]) : r \in Recs(file) \/ r.data = q.data \/ r.data \notin wanted'
       /\ \A r \in Recs(backup[h]) : \E s \in Recs(file) : s.id = r.id
       /\ \E old \in Recs(backup[h]) : q.id = old.id /\ (old.data = q.data \/ old.data \notin wanted')
       /\ backup' = [backup EXCEPT ![h] = file]
  BY <1>1, <1>2, <1>4, <1>6, <1>7, <1>9
<1> QED
  BY <1>3, <1>8, <1>10, FileEdited

LEMMA NewMarks ==
    \A old \in Record, f \in SUBSET Flags : \E q \in Record :
        q = [old EXCEPT !.flags = f] /\ q.id = old.id /\ q.data = old.data /\ q.flags = f
<1> SUFFICES ASSUME NEW old \in Record, NEW f \in SUBSET Flags
             PROVE  \E q \in Record : /\ q = [old EXCEPT !.flags = f]
                                      /\ q.id = old.id /\ q.data = old.data /\ q.flags = f
  OBVIOUS
<1>1. [old EXCEPT !.flags = f] \in Record
  BY DEF Record
<1> QED
  BY <1>1 DEF Record

LEMMA PalmEditEdits == ASSUME Calm, NEW i \in DOMAIN palm, PalmEdit(i) PROVE Edits' /\ TrustStays
<1>1. PICK old \in Record : old = palm[i] /\ old \in Recs(palm) /\ Decent(old) /\ IsLive(old)
  <2>1. palm[i] \in Record /\ palm[i] \in Recs(palm)
    BY CalmFacts, ListFacts
  <2> QED
    BY <2>1 DEF PalmEdit, Calm, Edits, ListsDecent
<1>2. /\ Edited /\ UNCHANGED backup
      /\ wanted' = (wanted \ {old.data}) \cup {Version}
  BY <1>1 DEF PalmEdit, NewEdit, UserChanges, Edited, fileVars, sessVars, workVars
<1>3. PICK v \in Nat : v = Version /\ v = Newest'
  BY <1>2, EditedFacts
<1>4. PICK f \in SUBSET Flags : f = old.flags \cup {DIRTY} /\ f \subseteq {DIRTY} /\ f # {} /\ old.data # Version
  <2>1. old.flags \cup {DIRTY} \subseteq {DIRTY} /\ {DIRTY} \subseteq Flags /\ old.data # Version
    BY <1>1, <1>2, LiveFlags
  <2>2. old.flags \cup {DIRTY} \in SUBSET Flags
    BY <2>1
  <2> QED
    BY <2>1, <2>2
<1>5. PICK q \in Record : q = [old EXCEPT !.data = v, !.flags = f] /\ q.id = old.id /\ q.data = v /\ q.flags = f
  <2>1. [old EXCEPT !.data = v, !.flags = f] \in Record
    BY DEF Record
  <2> QED
    BY <2>1 DEF Record
<1>6. palm' = [palm EXCEPT ![i] = q]
  BY <1>1, <1>3, <1>4, <1>5 DEF PalmEdit
<1>7. Decent(q)'
  BY <1>3, <1>4, <1>5 DEF Decent
<1>8. /\ Recs(palm') = {p \in Recs(palm) : p.id # q.id} \cup {q}
      /\ \A p \in Recs(palm) : p.id = q.id => p = old
  BY <1>1, <1>5, <1>6, CalmFacts, PalmChanged DEF Calm, IdsInv
<1>9. old.data \notin wanted' /\ wanted' \subseteq wanted \cup {q.data}
  BY <1>2, <1>3, <1>4, <1>5
<1> QED
  BY <1>2, <1>4, <1>5, <1>7, <1>8, <1>9, PalmEdited

LEMMA PalmNewEdits == ASSUME Calm, PalmNew PROVE Edits' /\ TrustStays
<1>1. Edited /\ UNCHANGED backup /\ wanted' = wanted \cup {Version} /\ palm' = Append(palm, Rec(nextId, {DIRTY}, Version))
  BY DEF PalmNew, NewEdit, UserChanges, Edited, AppendRecord, fileVars, sessVars, workVars
<1>2. PICK v \in Nat : v = Version /\ v = Newest'
  BY <1>1, EditedFacts
<1>3. PICK q \in Record : q = Rec(nextId, {DIRTY}, v) /\ q.id = nextId /\ q.data = v /\ q.flags = {DIRTY}
  <2>1. Rec(nextId, {DIRTY}, v) \in Record
    BY CalmFacts DEF Rec, Record, Flags
  <2> QED
    BY <2>1 DEF Rec
<1>4. Recs(palm') = Recs(palm) \cup {q}
  <2>1. PICK a : a = Append(palm, q)
    OBVIOUS
  <2>2. Recs(a) = Recs(palm) \cup {q}
    BY <2>1, CalmFacts, AppendRecs
  <2> QED
    BY <1>1, <1>2, <1>3, <2>1, <2>2
<1>5. \A p \in Recs(palm) : p.id # q.id
  BY <1>3, CalmFacts, RecordFacts
<1>6. Recs(palm') = {p \in Recs(palm) : p.id # q.id} \cup {q}
  BY <1>4, <1>5
<1>7. Decent(q)'
  BY <1>2, <1>3 DEF Decent
<1> QED
  BY <1>1, <1>2, <1>3, <1>5, <1>6, <1>7, PalmEdited

LEMMA PalmArchiveEdits == ASSUME Calm, NEW i \in DOMAIN palm, PalmArchive(i) PROVE Edits' /\ TrustStays
<1>1. PICK old \in Record : old = palm[i] /\ old \in Recs(palm) /\ Decent(old) /\ IsLive(old)
  <2>1. palm[i] \in Record /\ palm[i] \in Recs(palm)
    BY CalmFacts, ListFacts
  <2> QED
    BY <2>1 DEF PalmArchive, Calm, Edits, ListsDecent
<1>2. Edited /\ UNCHANGED <<backup, wanted>>
  BY DEF PalmArchive, NewEdit, Edited, fileVars, sessVars, workVars
<1>3. PICK marks \in ArchiveMarks : palm' = [palm EXCEPT ![i] = [old EXCEPT !.flags = old.flags \cup marks]]
  BY <1>1 DEF PalmArchive
<1>4. PICK f \in SUBSET Flags : /\ f = old.flags \cup marks
                                /\ {DELETED, ARCHIVE} \subseteq f /\ EXPUNGED \notin f /\ old.data <= Newest'
  <2>1. /\ {DELETED, ARCHIVE} \subseteq old.flags \cup marks /\ EXPUNGED \notin old.flags \cup marks
        /\ old.flags \cup marks \in SUBSET Flags /\ old.data <= Newest'
    BY <1>1, <1>2, LiveFlags
  <2> QED
    BY <2>1
<1>5. PICK q \in Record : q = [old EXCEPT !.flags = f] /\ q.id = old.id /\ q.data = old.data /\ q.flags = f
  BY NewMarks
<1>6. Decent(q)'
  BY <1>4, <1>5 DEF Decent
<1>7. /\ Recs(palm') = {p \in Recs(palm) : p.id # q.id} \cup {q}
      /\ \A p \in Recs(palm) : p.id = q.id => p = old
  <2>1. palm \in Seq(Record) /\ PalmIds
    BY CalmFacts DEF Calm, IdsInv
  <2>2. palm' = [palm EXCEPT ![i] = q]
    BY <1>3, <1>4, <1>5
  <2>3. q \in Record /\ q.id = palm[i].id /\ old = palm[i]
    BY <1>1, <1>5
  <2> QED
    BY <2>1, <2>2, <2>3, PalmChanged
<1> QED
  BY <1>2, <1>4, <1>5, <1>6, <1>7, PalmEdited

LEMMA PalmExpungeEdits == ASSUME Calm, NEW i \in DOMAIN palm, PalmExpunge(i) PROVE Edits' /\ TrustStays
<1>1. PICK old \in Record : old = palm[i] /\ old \in Recs(palm) /\ Decent(old) /\ IsLive(old)
  <2>1. palm[i] \in Record /\ palm[i] \in Recs(palm)
    BY CalmFacts, ListFacts
  <2> QED
    BY <2>1 DEF PalmExpunge, Calm, Edits, ListsDecent
<1>2. Edited /\ UNCHANGED backup /\ wanted' = wanted \ {old.data}
  BY <1>1 DEF PalmExpunge, NewEdit, UserChanges, Edited, fileVars, sessVars, workVars
<1>3. PICK marks \in ExpungeMarks :
        palm' = [palm EXCEPT ![i] = [old EXCEPT !.data = 0, !.flags = old.flags \cup marks]]
  BY <1>1 DEF PalmExpunge
<1>4. PICK f \in SUBSET Flags : f = old.flags \cup marks /\ EXPUNGED \in f /\ ARCHIVE \notin f
  <2>1. /\ EXPUNGED \in old.flags \cup marks /\ ARCHIVE \notin old.flags \cup marks
        /\ old.flags \cup marks \in SUBSET Flags
    BY <1>1, <1>2, LiveFlags
  <2> QED
    BY <2>1
<1>5. PICK q \in Record : q = [old EXCEPT !.data = 0, !.flags = f] /\ q.id = old.id /\ q.data = 0 /\ q.flags = f
  <2>1. [old EXCEPT !.data = 0, !.flags = f] \in Record
    BY DEF Record
  <2> QED
    BY <2>1 DEF Record
<1>6. Decent(q)'
  <2>1. 0 \notin wanted
    BY EditedFacts DEF Calm, Edits, ListsDecent
  <2>2. 0 <= Newest'
    BY <1>2, EditedFacts
  <2> QED
    BY <1>2, <1>4, <1>5, <2>1, <2>2 DEF Decent
<1>7. /\ Recs(palm') = {p \in Recs(palm) : p.id # q.id} \cup {q}
      /\ \A p \in Recs(palm) : p.id = q.id => p = old
  <2>1. palm \in Seq(Record) /\ PalmIds
    BY CalmFacts DEF Calm, IdsInv
  <2>2. palm' = [palm EXCEPT ![i] = q]
    BY <1>3, <1>4, <1>5
  <2>3. q \in Record /\ q.id = palm[i].id /\ old = palm[i]
    BY <1>1, <1>5
  <2> QED
    BY <2>1, <2>2, <2>3, PalmChanged
<1> QED
  BY <1>2, <1>4, <1>5, <1>6, <1>7, PalmEdited

LEMMA DesktopEditEdits ==
    ASSUME Calm, NEW h \in Hosts, backup[h] # NoFile, NEW i \in DOMAIN backup[h], DesktopEdit(h, i)
    PROVE  Edits' /\ TrustStays
<1>1. PICK db \in Seq(Record) : db = backup[h]
  BY FileRecords
<1>2. PICK old \in Record : old = db[i] /\ Decent(old) /\ IsLive(old)
  <2>1. db[i] \in Record /\ db[i] \in Recs(db)
    BY <1>1, ListFacts
  <2> QED
    BY <1>1, <2>1, FileRecords DEF DesktopEdit
<1>3. /\ Edited /\ UNCHANGED palm
      /\ wanted' = (wanted \ {old.data}) \cup {Version}
  BY <1>1, <1>2 DEF DesktopEdit, NewEdit, UserChanges, Edited, palmVars, sessVars, workVars
<1>4. PICK v \in Nat : v = Version /\ v = Newest'
  BY <1>3, EditedFacts
<1>5. PICK f \in SUBSET Flags : f = old.flags \cup {DIRTY} /\ f \subseteq {DIRTY} /\ f # {} /\ old.data # Version
  <2>1. old.flags \cup {DIRTY} \subseteq {DIRTY} /\ {DIRTY} \subseteq Flags /\ old.data # Version
    BY <1>2, <1>3, LiveFlags
  <2>2. old.flags \cup {DIRTY} \in SUBSET Flags
    BY <2>1
  <2> QED
    BY <2>1, <2>2
<1>6. PICK q \in Record : q = [old EXCEPT !.data = v, !.flags = f] /\ q.id = old.id /\ q.data = v /\ q.flags = f
  <2>1. [old EXCEPT !.data = v, !.flags = f] \in Record
    BY DEF Record
  <2> QED
    BY <2>1 DEF Record
<1>7. backup' = [backup EXCEPT ![h] = [db EXCEPT ![i] = q]]
  BY <1>1, <1>2, <1>4, <1>5, <1>6 DEF DesktopEdit
<1>8. Decent(q)'
  BY <1>4, <1>5, <1>6 DEF Decent
<1>9. old.data \notin wanted' /\ wanted' \subseteq wanted \cup {q.data}
  BY <1>3, <1>4, <1>5, <1>6
<1> QED
  BY <1>1, <1>2, <1>3, <1>5, <1>6, <1>7, <1>8, <1>9, FileChanged

LEMMA DesktopArchiveEdits ==
    ASSUME Calm, NEW h \in Hosts, backup[h] # NoFile, NEW i \in DOMAIN backup[h], DesktopArchive(h, i)
    PROVE  Edits' /\ TrustStays
<1>1. PICK db \in Seq(Record) : db = backup[h]
  BY FileRecords
<1>2. PICK old \in Record : old = db[i] /\ Decent(old) /\ IsLive(old)
  <2>1. db[i] \in Record /\ db[i] \in Recs(db)
    BY <1>1, ListFacts
  <2> QED
    BY <1>1, <2>1, FileRecords DEF DesktopArchive
<1>3. Edited /\ UNCHANGED <<palm, wanted>>
  BY DEF DesktopArchive, NewEdit, Edited, palmVars, sessVars, workVars
<1>4. PICK f \in SUBSET Flags : /\ f = old.flags \cup {DELETED, ARCHIVE}
                                /\ {DELETED, ARCHIVE} \subseteq f /\ EXPUNGED \notin f /\ old.data <= Newest'
  <2>1. /\ {DELETED, ARCHIVE} \subseteq old.flags \cup {DELETED, ARCHIVE}
        /\ EXPUNGED \notin old.flags \cup {DELETED, ARCHIVE} /\ old.data <= Newest'
        /\ old.flags \subseteq Flags /\ {DELETED, ARCHIVE} \subseteq Flags
    BY <1>2, <1>3, LiveFlags
  <2>2. old.flags \cup {DELETED, ARCHIVE} \in SUBSET Flags
    BY <2>1
  <2> QED
    BY <2>1, <2>2
<1>5. PICK q \in Record : q = [old EXCEPT !.flags = f] /\ q.id = old.id /\ q.data = old.data /\ q.flags = f
  BY NewMarks
<1>6. backup' = [backup EXCEPT ![h] = [db EXCEPT ![i] = q]]
  BY <1>1, <1>2, <1>4, <1>5 DEF DesktopArchive
<1>7. Decent(q)'
  BY <1>4, <1>5 DEF Decent
<1> QED
  BY <1>1, <1>2, <1>3, <1>4, <1>5, <1>6, <1>7, FileChanged

LEMMA DesktopExpungeEdits ==
    ASSUME Calm, NEW h \in Hosts, backup[h] # NoFile, NEW i \in DOMAIN backup[h], DesktopExpunge(h, i)
    PROVE  Edits' /\ TrustStays
<1>1. PICK db \in Seq(Record) : db = backup[h]
  BY FileRecords
<1>2. PICK old \in Record : old = db[i] /\ Decent(old) /\ IsLive(old)
  <2>1. db[i] \in Record /\ db[i] \in Recs(db)
    BY <1>1, ListFacts
  <2> QED
    BY <1>1, <2>1, FileRecords DEF DesktopExpunge
<1>3. Edited /\ UNCHANGED palm /\ wanted' = wanted \ {old.data}
  BY <1>1, <1>2 DEF DesktopExpunge, NewEdit, UserChanges, Edited, palmVars, sessVars, workVars
<1>4. PICK f \in SUBSET Flags : /\ f = old.flags \cup {DELETED, EXPUNGED}
                                /\ EXPUNGED \in f /\ ARCHIVE \notin f /\ old.data <= Newest'
  <2>1. /\ EXPUNGED \in old.flags \cup {DELETED, EXPUNGED}
        /\ ARCHIVE \notin old.flags \cup {DELETED, EXPUNGED} /\ old.data <= Newest'
        /\ old.flags \subseteq Flags /\ {DELETED, EXPUNGED} \subseteq Flags
    BY <1>2, <1>3, LiveFlags
  <2>2. old.flags \cup {DELETED, EXPUNGED} \in SUBSET Flags
    BY <2>1
  <2> QED
    BY <2>1, <2>2
<1>5. PICK q \in Record : q = [old EXCEPT !.flags = f] /\ q.id = old.id /\ q.data = old.data /\ q.flags = f
  BY NewMarks
<1>6. backup' = [backup EXCEPT ![h] = [db EXCEPT ![i] = q]]
  BY <1>1, <1>2, <1>4, <1>5 DEF DesktopExpunge
<1>7. Decent(q)'
  BY <1>3, <1>4, <1>5 DEF Decent
<1> QED
  BY <1>1, <1>2, <1>3, <1>4, <1>5, <1>6, <1>7, FileChanged

LEMMA DesktopNewEdits ==
    ASSUME Calm, NEW h \in Hosts, backup[h] # NoFile, DesktopNew(h)
    PROVE  Edits' /\ TrustStays
<1>1. PICK db \in Seq(Record) : db = backup[h]
  BY FileRecords
<1>2. Edited /\ UNCHANGED palm /\ wanted' = wanted \cup {Version}
  BY DEF DesktopNew, NewEdit, UserChanges, Edited, palmVars, sessVars, workVars
<1>3. PICK v \in Nat : v = Version /\ v = Newest'
  BY <1>2, EditedFacts
<1>4. PICK q \in Record : q = Rec(0, {DIRTY}, v) /\ q.id = 0 /\ q.data = v /\ q.flags = {DIRTY}
  <2>1. Rec(0, {DIRTY}, v) \in Record
    BY DEF Rec, Record, Flags
  <2> QED
    BY <2>1 DEF Rec
<1>5. PICK file \in Seq(Record) : file = Append(db, q)
  BY AppendProperties
<1>6. backup' = [backup EXCEPT ![h] = file]
  BY <1>1, <1>3, <1>4, <1>5 DEF DesktopNew, AppendRecord
<1>7. Recs(file) = Recs(db) \cup {q}
  BY <1>5, AppendRecs
<1>8. Decent(q)'
  <2>1. v <= v
    OBVIOUS
  <2>2. q.data <= Newest'
    BY <1>3, <1>4, <2>1
  <2>3. q.flags \subseteq {DIRTY}
    BY <1>4
  <2> QED
    BY <2>2, <2>3 DEF Decent
<1>9. q.flags # {} /\ wanted' \subseteq wanted \cup {q.data}
  BY <1>2, <1>3, <1>4
<1> QED
  <2>1. (\A r \in Recs(file) : r = q \/ r \in Recs(backup[h])) /\ \A r \in Recs(backup[h]) : r \in Recs(file)
    BY <1>1, <1>7
  <2>2. q \in Recs(file)
    BY <1>7
  <2> QED
    BY <1>2, <1>4, <1>6, <1>8, <1>9, <2>1, <2>2, FileEdited

LEMMA UserStepEdits == ASSUME Calm, UserStep PROVE Edits' /\ TrustStays
<1>1. ASSUME NEW i \in DOMAIN palm, PalmEdit(i) \/ PalmArchive(i) \/ PalmExpunge(i) PROVE Edits' /\ TrustStays
  BY <1>1, PalmEditEdits, PalmArchiveEdits, PalmExpungeEdits
<1>2. CASE PalmNew
  BY <1>2, PalmNewEdits
<1>3. ASSUME NEW h \in Hosts, backup[h] # NoFile, DesktopNew(h) PROVE Edits' /\ TrustStays
  BY <1>3, DesktopNewEdits
<1>4. ASSUME NEW h \in Hosts, backup[h] # NoFile, NEW i \in DOMAIN backup[h],
             DesktopEdit(h, i) \/ DesktopArchive(h, i) \/ DesktopExpunge(h, i)
      PROVE  Edits' /\ TrustStays
  BY <1>4, DesktopEditEdits, DesktopArchiveEdits, DesktopExpungeEdits
<1> QED
  BY <1>1, <1>2, <1>3, <1>4 DEF UserStep

-----------------------------------------------------------------------------
(* The invariant, and what it says of the user's edits.                    *)

LEMMA InitEdits == ASSUME OrdinaryUse, Init PROVE Edits
<1> DEFINE marks == IF InitSynced = {} THEN {DIRTY} ELSE {}
           records == [i \in 1 .. InitRecords |-> Rec(i, marks, i)]
<1>1. /\ palm = records
      /\ backup = [h \in Hosts |-> IF h \in InitSynced THEN records ELSE NoFile]
      /\ lastSyncPC \in IF InitSynced = {} THEN {NoHost} ELSE InitSynced
      /\ pc = "idle" /\ localdb = <<>> /\ remotedb = <<>> /\ seen = {} /\ rem = NoRec /\ li = 0 /\ plan = <<>>
      /\ edits = 0 /\ wanted = 1 .. InitRecords
  BY DEF Init
<1>2. marks \subseteq {DIRTY}
  OBVIOUS
<1>3. InitRecords \in Nat
  BY ConstantsAssumption
<1>4. Newest = InitRecords
  BY <1>1, <1>3 DEF Newest
<1>5. \A i \in 1 .. InitRecords : records[i].id = i /\ records[i].data = i /\ records[i].flags = marks
  BY DEF Rec
<1>6. DOMAIN records = 1 .. InitRecords
  OBVIOUS
<1> HIDE DEF records
<1>7. /\ \A r \in Recs(records) : r.data <= InitRecords /\ r.flags \subseteq {DIRTY}
      /\ \A r, s \in Recs(records) : r.id = s.id => r.data = s.data
      /\ \A d \in 1 .. InitRecords : \E r \in Recs(records) : r.data = d
  BY <1>2, <1>3, <1>5, <1>6 DEF Recs
<1>8. \A h \in Hosts : backup[h] # NoFile => backup[h] = records
  BY <1>1
<1>9. ListsDecent
  <2>1. \A r \in Recs(records) : Decent(r)
    BY <1>4, <1>7 DEF Decent
  <2>2. Decent(rem)
    BY <1>1, <1>3, <1>4 DEF Decent, NoRec, Rec
  <2>3. Recs(localdb) = {} /\ Recs(remotedb) = {}
    BY <1>1 DEF Recs
  <2> QED
    BY <1>1, <1>4, <1>8, <2>1, <2>2, <2>3 DEF ListsDecent
<1>10. AllInPlace
  BY <1>1, <1>7 DEF AllInPlace, InPlace
<1>11. FilesGood
  BY <1>1, <1>8 DEF FilesGood, Good, OnPalm
<1>12. BetweenSyncs
  BY <1>1, <1>7, <1>8 DEF BetweenSyncs, Trust, Agree
<1> QED
  BY <1>1, <1>9, <1>10, <1>11, <1>12 DEF Edits

LEMMA StutteringEdits == ASSUME Calm, UNCHANGED vars PROVE Edits'
<1>1. /\ UNCHANGED <<palm, backup, archive, wanted, edits, localdb, remotedb, rem>>
      /\ UNCHANGED <<pc, online, opened, mode, host, lastSyncPC, plan, seen, li>>
  BY DEF vars, palmVars, fileVars, userVars, workVars, sessVars
<1>2. \A d : Settled(d) <=> Settled(d)'
  BY <1>1 DEF Settled
<1>3. /\ \A r : Decent(r) <=> Decent(r)'
      /\ \A r : Good(r) <=> Good(r)'
      /\ \A p, r : Agree(p, r) <=> Agree(p, r)'
      /\ \A d : InPlace(d) <=> InPlace(d)'
      /\ \A d : Covered(d) <=> Covered(d)'
      /\ \A p : Reached(p) <=> Reached(p)'
      /\ \A p : ToCome(p) <=> ToCome(p)'
  BY <1>1, <1>2 DEF Decent, Newest, Good, OnPalm, Agree, InPlace, Covered, Reached, ToCome, Localrec
<1>4. \A p : Finished(p) <=> Finished(p)'
  BY <1>1, <1>2, <1>3 DEF Finished, AgreesAll
<1>5. /\ ListsDecent <=> ListsDecent'
      /\ AllInPlace <=> AllInPlace'
      /\ FilesGood <=> FilesGood'
      /\ OldCovered <=> OldCovered'
      /\ FileAgrees <=> FileAgrees'
      /\ DeadSettled <=> DeadSettled'
      /\ BetweenSyncs <=> BetweenSyncs'
  BY <1>1, <1>2, <1>3 DEF ListsDecent, Newest, AllInPlace, FilesGood, OldCovered, FileAgrees, DeadSettled, BetweenSyncs, Trust
<1>6. LocalGood <=> LocalGood'
  BY <1>1, <1>3 DEF LocalGood
<1>7. Writing <=> Writing'
  BY <1>1, <1>4, <1>5, <1>6 DEF Writing
<1>8. /\ Ours <=> Ours'
      /\ OnHand <=> OnHand'
      /\ Parted <=> Parted'
      /\ Fresh <=> Fresh'
      /\ Twin <=> Twin'
      /\ Takes <=> Takes'
      /\ Alone <=> Alone'
      /\ Localrec = Localrec'
  BY <1>1, <1>2, <1>3 DEF Ours, OnHand, Parted, Fresh, Twin, Takes, Alone, Localrec
<1>9. /\ Settled(Localrec.data) <=> Settled(Localrec.data)'
      /\ Good(Localrec) <=> Good(Localrec)'
  BY <1>2, <1>3, <1>8
<1>10. RemotePlan => RemotePlan'
  BY <1>1, <1>8, <1>9 DEF RemotePlan, AtArchiveLocal, AtArchiveRemote, AtClearLocal, AtDeleteLocal, AtDeleteRemote,
     AtUpload, AtBring, AtDrop
<1>11. FirstPhase => FirstPhase'
  BY <1>1, <1>3, <1>4, <1>5, <1>6, <1>10 DEF FirstPhase
<1>12. SecondPhase => SecondPhase'
  BY <1>1, <1>2, <1>3, <1>5, <1>6, <1>9 DEF SecondPhase, LocalPlans, AgreesAll, OnPalm
<1> QED
  BY <1>1, <1>5, <1>7, <1>11, <1>12 DEF Calm, Edits

LEMMA NeverWhenCalm == ASSUME Calm, NoFault, OpenFails \/ ReadFails \/ Crash PROVE FALSE
<1>1. \A kind : ~ Fault(kind)
  BY NoneFails
<1>2. CASE Crash
  BY <1>1, <1>2 DEF Crash
<1>3. CASE OpenFails \/ ReadFails
  <2>1. pc # "idle"
    BY <1>3 DEF OpenFails, ReadFails
  <2>2. online /\ ~ opened
    BY <2>1 DEF Calm, Edits
  <2>3. ~ Refused /\ ~ Lost(FALSE)
    BY <2>2, NoneFails
  <2> QED
    BY <1>1, <1>3, <2>3 DEF OpenFails, ReadFails
<1> QED
  BY <1>2, <1>3

LEMMA CalmNext == ASSUME Calm, NoFault, [Next]_vars PROVE Edits'
<1>1. CASE UserStep
  BY <1>1, UserStepEdits
<1>2. CASE \E h \in Hosts : StartSync(h)
  BY <1>2, StartSyncEdits
<1>3. CASE Cancel \/ UpdateUserInfo
  BY <1>3, CancelEdits, UpdateUserInfoEdits
<1>4. CASE OpenFails \/ ReadFails \/ Crash
  BY <1>4, NeverWhenCalm
<1>5. CASE Open \/ NextRemoteSlow \/ NextRemoteFast \/ RemoteDone
  BY <1>5, OpenEdits, NextRemoteSlowEdits, NextRemoteFastEdits, RemoteDoneEdits
<1>6. CASE NextLocal \/ LocalDone
  BY <1>6, NextLocalEdits, LocalDoneEdits
<1>7. CASE SyncRecordStep
  <2>1. plan # <<>>
    BY <1>7 DEF SyncRecordStep, DoArchive, DoClearLocal, DoDeleteLocal, DoAppendRemote, DoInsertRemote,
       DoDropRemote, DoDeleteRemote, DoPurgeLocal, DoUpload, Step
  <2>2. pc \in {"remote", "local"}
    BY <2>1, AtStep DEF Calm
  <2> QED
    BY <1>7, <2>2, RemotePhaseSteps, LocalPhaseSteps
<1>8. CASE WriteBackup \/ CleanUpDatabase \/ ResetSyncFlags
  BY <1>8, WriteBackupEdits, CleanUpDatabaseEdits, ResetSyncFlagsEdits
<1>9. CASE UNCHANGED vars
  BY <1>9, StutteringEdits
<1> QED
  BY <1>1, <1>2, <1>3, <1>4, <1>5, <1>6, <1>7, <1>8, <1>9 DEF Next, SyncStep

(* A failure is never taken back.                                          *)
LEMMA FaultsGrow == ASSUME TypeOK, [Next]_vars PROVE faults' = faults \/ (faults < MaxFaults /\ faults' = faults + 1)
<1>1. \A kind : Fault(kind) => faults < MaxFaults /\ faults' = faults + 1
  BY DEF Fault
<1>2. Refused => faults < MaxFaults /\ faults' = faults + 1
  BY <1>1 DEF Refused
<1>3. NotWritable => faults' = faults
  BY DEF NotWritable, NoFault
<1>4. \A effect \in BOOLEAN : Lost(effect) => faults' = faults \/ (faults < MaxFaults /\ faults' = faults + 1)
  BY <1>1 DEF Lost, NoFault
<1>5. CASE UserStep
  BY <1>5 DEF UserStep, PalmEdit, PalmNew, PalmArchive, PalmExpunge, DesktopEdit, DesktopNew,
     DesktopArchive, DesktopExpunge
<1>6. CASE (\E h \in Hosts : StartSync(h)) \/ Cancel \/ UNCHANGED vars
  BY <1>6 DEF StartSync, Cancel, NoFault, vars
<1>7. CASE Crash \/ UpdateUserInfo \/ WriteBackup
  BY <1>1, <1>7 DEF Crash, UpdateUserInfo, WriteBackup, NoFault
<1>8. CASE Open \/ NextRemoteSlow \/ NextRemoteFast \/ RemoteDone \/ NextLocal \/ LocalDone
  BY <1>8 DEF Open, NextRemoteSlow, NextRemoteFast, RemoteDone, NextLocal, LocalDone, NoFault
<1>9. CASE OpenFails \/ ReadFails
  <2>1. Lost(FALSE) => faults' = faults \/ (faults < MaxFaults /\ faults' = faults + 1)
    BY <1>4
  <2> QED
    BY <1>1, <1>2, <1>9, <2>1 DEF OpenFails, ReadFails
<1>10. CASE DoArchive \/ DoClearLocal \/ DoDeleteLocal \/ DoAppendRemote \/ DoInsertRemote \/ DoDropRemote
  BY <1>1, <1>10 DEF DoArchive, ArchiveRecord, DoClearLocal, DoDeleteLocal, DoAppendRemote, DoInsertRemote,
     DoDropRemote, NoFault
<1>11. CASE DoDeleteRemote
  <2>1. Lost(Remove(rem.id) /\ UNCHANGED nextId) => faults' = faults \/ (faults < MaxFaults /\ faults' = faults + 1)
    BY <1>4
  <2> QED
    BY <1>2, <1>3, <1>11, <2>1 DEF DoDeleteRemote, NoFault
<1>12. CASE DoPurgeLocal
  <2>1. Lost(Remove(localdb[li].id) /\ UNCHANGED nextId) => faults' = faults \/ (faults < MaxFaults /\ faults' = faults + 1)
    BY <1>4
  <2> QED
    BY <1>2, <1>3, <1>12, <2>1 DEF DoPurgeLocal, NoFault
<1>13. CASE DoUpload
  <2>1. \A id : Upload(id) => faults' = faults \/ (faults < MaxFaults /\ faults' = faults + 1)
    <3> SUFFICES ASSUME NEW id, Upload(id) PROVE faults' = faults \/ (faults < MaxFaults /\ faults' = faults + 1)
      OBVIOUS
    <3>1. Lost(Stored(id, localdb[li].data)) => faults' = faults \/ (faults < MaxFaults /\ faults' = faults + 1)
      BY <1>4 DEF Stored
    <3> QED
      BY <1>2, <1>3, <3>1 DEF Upload, NoFault
  <2> QED
    BY <1>13, <2>1 DEF DoUpload
<1>14. CASE CleanUpDatabase
  <2>1. Lost(CleanUp /\ UNCHANGED nextId) => faults' = faults \/ (faults < MaxFaults /\ faults' = faults + 1)
    BY <1>4
  <2> QED
    BY <1>2, <1>3, <1>14, <2>1 DEF CleanUpDatabase, NoFault
<1>15. CASE ResetSyncFlags
  <2>1. Lost(ResetFlags /\ UNCHANGED nextId) => faults' = faults \/ (faults < MaxFaults /\ faults' = faults + 1)
    BY <1>4
  <2> QED
    BY <1>2, <1>15, <2>1 DEF ResetSyncFlags, NoFault
<1> QED
  BY <1>5, <1>6, <1>7, <1>8, <1>9, <1>10, <1>11, <1>12, <1>13, <1>14, <1>15 DEF Next, SyncStep, SyncRecordStep

LEMMA EditsNext ==
    ASSUME OrdinaryUse, Inductive, IdsInv, EditsInv, [Next]_vars
    PROVE  EditsInv'
<1> SUFFICES ASSUME faults' = 0 PROVE Edits'
  BY DEF EditsInv
<1>1. faults \in Nat /\ (faults' = faults \/ faults' = faults + 1)
  BY FaultsGrow DEF Inductive, TypeOK
<1>2. faults = 0
  BY <1>1
<1>3. Inductive' /\ IdsInv'
  BY NextInductive, NextIds
<1>4. Calm /\ NoFault
  BY <1>2, <1>3 DEF Calm, EditsInv, NoFault
<1> QED
  BY <1>4, CalmNext

(* The inductive invariant: in each phase, every content that somebody     *)
(* misses has its place, and what the rest of the sync relies on holds.    *)
THEOREM EditsInvariant == OrdinaryUse /\ Spec => []EditsInv
<1>1. OrdinaryUse /\ Init => EditsInv
  BY InitEdits DEF EditsInv
<1>2. OrdinaryUse /\ Inductive /\ IdsInv /\ EditsInv /\ [Next]_vars => EditsInv'
  BY EditsNext
<1>3. OrdinaryUse => OrdinaryUse'
  BY DEF OrdinaryUse
<1> QED
  BY <1>1, <1>2, <1>3, InductiveInvariant, IdsInvariant, PTL DEF Spec

(* Every content that somebody misses is somewhere.                        *)
LEMMA InPlaceSurvives == ASSUME AllInPlace PROVE EditsSurvive
<1> DEFINE files    == UNION {Contents(backup[h]) : h \in {g \in Hosts : backup[g] # NoFile}}
           archived == UNION {archive[h] : h \in Hosts}
<1>1. \A h \in Hosts : \A d : backup[h] # NoFile /\ d \in Contents(backup[h]) => d \in files
  OBVIOUS
<1>2. \A h \in Hosts : \A d : d \in archive[h] => d \in archived
  OBVIOUS
<1>3. \A db, d : (\E r \in Recs(db) : r.data = d) => d \in Contents(db)
  BY DEF Contents, Recs
<1>4. EditsSurvive <=> wanted \subseteq Contents(palm) \cup files \cup archived
  BY DEF EditsSurvive
<1> HIDE DEF files, archived
<1>5. ASSUME NEW d \in wanted PROVE d \in Contents(palm) \cup files \cup archived
  <2>1. InPlace(d)
    BY <1>5 DEF AllInPlace
  <2>2. CASE Settled(d)
    BY <1>2, <1>5, <2>2 DEF Settled
  <2>3. CASE \E p \in Recs(palm) : p.data = d
    BY <1>3, <2>3
  <2>4. CASE \E h \in Hosts : backup[h] # NoFile /\ \E r \in Recs(backup[h]) : r.data = d
    BY <1>1, <1>3, <2>4
  <2> QED
    BY <2>1, <2>2, <2>3, <2>4 DEF InPlace
<1> QED
  BY <1>4, <1>5

(* In ordinary use, no sync in which nothing fails loses anything the user *)
(* wrote: every content that was neither replaced nor expunged stays on    *)
(* the Palm, in a backup file or in an archive file.                       *)
THEOREM NothingIsLost == OrdinaryUse /\ Spec => []FaultlessEditsSurvive
<1>1. EditsInv => FaultlessEditsSurvive
  BY InPlaceSurvives DEF EditsInv, Edits, FaultlessEditsSurvive
<1> QED
  BY <1>1, EditsInvariant, PTL
=============================================================================
