------------------------------ MODULE PdbList ------------------------------
(***************************************************************************)
(* The record list of a libpdb database (struct pdb, rec_index.rec) and    *)
(* the operations on it that the sync code uses.  The list is a sequence;  *)
(* a pointer to a record is its position.  Nothing in libpdb keeps the IDs *)
(* of a list distinct, so "the record with this ID" always means the       *)
(* first one, as it does in the code.                                      *)
(***************************************************************************)
EXTENDS Integers, Sequences, FiniteSets

(* The status bits of a record (include/pdb.h).  PDB_REC_PRIVATE, which no *)
(* decision depends on, is left out.                                       *)
DIRTY    == "dirty"
DELETED  == "deleted"
ARCHIVE  == "archive"
EXPUNGED == "expunged"

Flags == {DIRTY, DELETED, ARCHIVE, EXPUNGED}

(* A record: its ID (0 when no Palm has assigned one yet), its status bits *)
(* and its contents (category and data), of which only equality matters;   *)
(* 0 stands for the empty contents left behind by an expunged record.      *)
Record == [id : Nat, flags : SUBSET Flags, data : Nat]

Rec(id, flags, data) == [id |-> id, flags |-> flags, data |-> data]

(* The positions of the records whose ID is id.                            *)
Positions(db, id) == {i \in DOMAIN db : db[i].id = id}

(* pdb_FindRecordByID: the first record with this ID, 0 for NULL.          *)
FindRecordByID(db, id) ==
    IF Positions(db, id) = {} THEN 0
    ELSE CHOOSE i \in Positions(db, id) : \A j \in Positions(db, id) : i <= j

(* The list without its i-th record; the list itself when i is 0.          *)
Without(db, i) ==
    IF i = 0 THEN db
    ELSE [j \in 1 .. (Len(db) - 1) |-> IF j < i THEN db[j] ELSE db[j + 1]]

(* pdb_DeleteRecordByID: unlink the first record with this ID; a missing   *)
(* record is a success.                                                    *)
DeleteRecordByID(db, id) == Without(db, FindRecordByID(db, id))

(* pdb_AppendRecord.                                                       *)
AppendRecord(db, rec) == Append(db, rec)

(* pdb_InsertRecord: link rec in right after the i-th record.              *)
InsertRecord(db, i, rec) ==
    [j \in 1 .. (Len(db) + 1) |->
        IF j <= i THEN db[j] ELSE IF j = i + 1 THEN rec ELSE db[j - 1]]

(* CLEAR_STATUS_FLAGS on the i-th record.                                  *)
ClearStatusFlags(db, i) == [db EXCEPT ![i].flags = {}]

(* What a user of the list would call its contents: the records that are   *)
(* not marked as deleted in any of the three ways.                         *)
IsLive(rec) == rec.flags \cap {DELETED, ARCHIVE, EXPUNGED} = {}

(* The list without the records that are not live, in the same order: the  *)
(* k-th record that stays is the one with k - 1 others before it.          *)
Kept(db)   == {i \in DOMAIN db : IsLive(db[i])}
Nth(S, k)  == CHOOSE i \in S : Cardinality(S \cap (1 .. i)) = k
Purged(db) == [k \in 1 .. Cardinality(Kept(db)) |-> db[Nth(Kept(db), k)]]

Live(db) == {<<db[i].id, db[i].data>> : i \in Kept(db)}

Contents(db) == {db[i].data : i \in DOMAIN db}
=============================================================================
