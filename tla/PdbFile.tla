------------------------------- MODULE PdbFile -------------------------------
(***************************************************************************)
(* A database on its way to a file and back (pdb_Write and pdb_Read,       *)
(* libpdb/pdb.c).  The file is a sequence of units: the database header,   *)
(* the header of the record list, an entry of the index and the pair of    *)
(* NULs count as one unit each, and so does every byte of a block or a     *)
(* record.  Writing may stop at any unit, by a failed write or by the end  *)
(* of the process, and what is there then is read.  Resources are records  *)
(* without flags and category.                                             *)
(***************************************************************************)
EXTENDS Integers, Sequences, FiniteSets

CONSTANTS
    Word,    \* the number of values of a uword: 2^16 in the code
    IdSpan,  \* the number of IDs that fit in an index entry: 2^24
    Records, \* the records that databases are made of
    Blocks,  \* lengths of AppInfo and sort blocks
    MaxRecs  \* bound: records in a database

NULL     == -1
DELETED  == "deleted"
ARCHIVE  == "archive"
Top      == {"expunged", "dirty", DELETED, "private"}

ASSUME PdbFileAssumption ==
    /\ Word \in Nat \ {0} /\ IdSpan \in Nat \ {0} /\ MaxRecs \in Nat
    /\ Blocks \subseteq Nat
    /\ Records \subseteq
         [flags : SUBSET (Top \union {ARCHIVE}), cat : 0 .. 15, id : Nat, len : 0 .. (Word - 1)]

VARIABLES
    db,     \* the database to be written
    nuls,   \* 0 for a file of another program that leaves out the NULs, else 1
    file,   \* the units of the file
    at,     \* where pdb_Write or pdb_Read is
    i,      \* the entry or record it is at
    offset, \* pdb_Write: where the next item will go
    got     \* pdb_Read: the database so far

fileVars == <<db, nuls, file, at, i, offset, got>>

WriteSteps == {"write_header", "write_list", "write_index", "write_nuls",
               "write_app", "write_sort", "write_data"}
ReadSteps  == {"read_header", "read_list", "read_index", "read_app", "read_sort", "read_data"}

Databases ==
    [res : BOOLEAN, app : Blocks \union {NULL}, sort : Blocks \union {NULL},
     recs : UNION {[1 .. n -> Records] : n \in 0 .. MaxRecs}]

Nothing == [res |-> FALSE, n |-> 0, appOff |-> 0, sortOff |-> 0, app |-> <<>>, sort |-> <<>>,
            recs |-> <<>>]

Init ==
    /\ db \in Databases /\ nuls \in {0, 1}
    /\ file = <<>> /\ at = "write_header" /\ i = 1
    /\ offset = 2 + Len(db.recs) + nuls
    /\ got = Nothing

-----------------------------------------------------------------------------
(* The byte with flags and category in an index entry: its upper four bits *)
(* and the number in its lower ones, where PDB_REC_ARCHIVE is 8.           *)

(* A mistake: the category is kept whatever the flags are.                 *)
WrongMerge(flags, cat) == [top |-> flags \intersect Top, low |-> cat]

merge_attributes(flags, cat) ==
    [top |-> flags \intersect Top,
     low |-> IF DELETED \notin flags THEN cat ELSE IF ARCHIVE \in flags THEN 8 ELSE 0]

split_attributes(a) ==
    IF DELETED \notin a.top THEN [flags |-> a.top, cat |-> a.low]
    ELSE [flags |-> a.top \union (IF (a.low \div 8) % 2 = 1 THEN {ARCHIVE} ELSE {}), cat |-> 0]

(* The items with a place of their own in the data of a file.              *)
AppItem    == 1
SortItem   == 2
RecItem(k) == k + 2

Bytes(item, len) == [k \in 1 .. len |-> [kind |-> "byte", item |-> item, k |-> k]]
Size(b)          == IF b = NULL THEN 0 ELSE b

-----------------------------------------------------------------------------
(* pdb_Write                                                               *)
Writes(units) == file' = file \o units

(* write(2) that fails or writes less: pdb_Write returns -1.               *)
CutShort(units) ==
    /\ \E n \in 0 .. (Len(units) - 1) : Writes(SubSeq(units, 1, n))
    /\ at' = "stopped"
    /\ UNCHANGED <<db, nuls, i, offset, got>>

(* A mistake: the sort block is given the place of the AppInfo block.      *)
WrongHeader ==
    [kind |-> "header", res |-> db.res,
     app  |-> IF db.app = NULL THEN 0 ELSE offset,
     sort |-> IF db.sort = NULL THEN 0 ELSE offset]

Header ==
    [kind |-> "header", res |-> db.res,
     app  |-> IF db.app = NULL THEN 0 ELSE offset,
     sort |-> IF db.sort = NULL THEN 0 ELSE offset + Size(db.app)]

WriteHeader ==
    /\ at = "write_header"
    /\ \/ /\ Writes(<<Header>>) /\ at' = "write_list"
          /\ offset' = offset + Size(db.app) + Size(db.sort)
          /\ UNCHANGED <<db, nuls, i, got>>
       \/ CutShort(<<Header>>)

WriteList ==
    /\ at = "write_list"
    /\ LET list == <<[kind |-> "list", n |-> Len(db.recs)]>>
       IN  \/ Writes(list) /\ at' = "write_index" /\ UNCHANGED <<db, nuls, i, offset, got>>
           \/ CutShort(list)

(* A mistake: the ID is written as it is.                                  *)
WrongEntry(rec) ==
    IF db.res THEN [kind |-> "entry", off |-> offset, id |-> rec.id]
    ELSE [kind |-> "entry", off |-> offset, attr |-> merge_attributes(rec.flags, rec.cat),
          id |-> rec.id]

(* Only the lower three bytes of an ID have a place in the file.           *)
Entry(rec) ==
    IF db.res THEN [kind |-> "entry", off |-> offset, id |-> rec.id]
    ELSE [kind |-> "entry", off |-> offset, attr |-> merge_attributes(rec.flags, rec.cat),
          id |-> rec.id % IdSpan]

WriteEntry ==
    /\ at = "write_index"
    /\ IF i > Len(db.recs)
       THEN at' = "write_nuls" /\ i' = 1 /\ UNCHANGED <<db, nuls, file, offset, got>>
       ELSE \/ /\ Writes(<<Entry(db.recs[i])>>)
               /\ i' = i + 1 /\ offset' = offset + db.recs[i].len
               /\ UNCHANGED <<db, nuls, at, got>>
            \/ CutShort(<<Entry(db.recs[i])>>)

WriteNuls ==
    /\ at = "write_nuls"
    /\ LET pair == [k \in 1 .. nuls |-> [kind |-> "nuls"]]
       IN  \/ Writes(pair) /\ at' = "write_app" /\ UNCHANGED <<db, nuls, i, offset, got>>
           \/ CutShort(pair)

WriteBlock(step, item, len, next) ==
    /\ at = step
    /\ \/ Writes(Bytes(item, Size(len))) /\ at' = next /\ UNCHANGED <<db, nuls, i, offset, got>>
       \/ CutShort(Bytes(item, Size(len)))

WriteData ==
    /\ at = "write_data"
    /\ IF i > Len(db.recs)
       THEN at' = "written" /\ i' = 1 /\ UNCHANGED <<db, nuls, file, offset, got>>
       ELSE LET data == Bytes(RecItem(i), db.recs[i].len)
            IN  \/ Writes(data) /\ i' = i + 1 /\ UNCHANGED <<db, nuls, at, offset, got>>
                \/ CutShort(data)

Write ==
    \/ WriteHeader \/ WriteList \/ WriteEntry \/ WriteNuls \/ WriteData
    \/ WriteBlock("write_app", AppItem, db.app, "write_sort")
    \/ WriteBlock("write_sort", SortItem, db.sort, "write_data")

(* The process ends between two writes.                                    *)
Crash ==
    /\ at \in WriteSteps /\ at' = "stopped"
    /\ UNCHANGED <<db, nuls, file, i, offset, got>>

-----------------------------------------------------------------------------
(* pdb_Read                                                                *)
ToRead(step) == at' = step /\ UNCHANGED <<db, nuls, file, offset>>
Refuse       == ToRead("refused") /\ UNCHANGED <<i, got>>

(* get_file_length returns a uword.                                        *)
file_size == Len(file) % Word

(* read(2) of len units from offset off, 0 being the first.                *)
Readable(off, len) == len = 0 \/ (len > 0 /\ off + len <= Len(file))
Read(off, len)     == SubSeq(file, off + 1, off + len)

OpenFile ==
    /\ at \in {"stopped", "written"}
    /\ ToRead("read_header") /\ i' = 1 /\ UNCHANGED got

LoadHeader ==
    /\ at = "read_header"
    /\ IF Readable(0, 1)
       THEN /\ ToRead("read_list") /\ UNCHANGED i
            /\ got' = [got EXCEPT !.res = file[1].res, !.appOff = file[1].app,
                                  !.sortOff = file[1].sort]
       ELSE Refuse

LoadRecListHeader ==
    /\ at = "read_list"
    /\ IF Readable(1, 1)
       THEN ToRead("read_index") /\ UNCHANGED i /\ got' = [got EXCEPT !.n = file[2].n]
       ELSE Refuse

Loaded(e) ==
    IF got.res THEN [off |-> e.off, flags |-> {}, cat |-> 0, id |-> e.id, data |-> <<>>]
    ELSE LET a == split_attributes(e.attr)
         IN  [off |-> e.off, flags |-> a.flags, cat |-> a.cat, id |-> e.id, data |-> <<>>]

(* LoadRsrcIndex and LoadRecIndex.                                         *)
LoadIndex ==
    /\ at = "read_index"
    /\ CASE i > got.n -> ToRead("read_app") /\ i' = 1 /\ UNCHANGED got
         [] i <= got.n /\ Readable(i + 1, 1) ->
              /\ ToRead(at) /\ i' = i + 1
              /\ got' = [got EXCEPT !.recs = Append(@, Loaded(file[i + 2]))]
         [] OTHER -> Refuse

(* A mistake: the block is taken to end where the first record begins,     *)
(* although there may be a sort block before it.                           *)
WrongAfterApp == IF got.n > 0 THEN got.recs[1].off ELSE file_size

(* The offset of what follows the sort block, and the AppInfo block.       *)
AfterSort == IF got.n > 0 THEN got.recs[1].off ELSE file_size
AfterApp  == IF got.sortOff > 0 THEN got.sortOff ELSE AfterSort

LoadAppBlock ==
    /\ at = "read_app"
    /\ LET len == IF got.appOff = 0 THEN 0 ELSE AfterApp - got.appOff
       IN  IF Readable(got.appOff, len)
           THEN ToRead("read_sort") /\ UNCHANGED i /\ got' = [got EXCEPT !.app = Read(got.appOff, len)]
           ELSE Refuse

LoadSortBlock ==
    /\ at = "read_sort"
    /\ LET len == IF got.sortOff = 0 THEN 0 ELSE AfterSort - got.sortOff
       IN  IF Readable(got.sortOff, len)
           THEN ToRead("read_data") /\ UNCHANGED i /\ got' = [got EXCEPT !.sort = Read(got.sortOff, len)]
           ELSE Refuse

(* A mistake: what cannot be read is left out.                             *)
WrongLoadRecord(off, len) ==
    /\ ToRead(at) /\ i' = i + 1
    /\ got' = [got EXCEPT !.recs[i].data = IF Readable(off, len) THEN Read(off, len) ELSE <<>>]

LoadRecord(off, len) ==
    IF Readable(off, len)
    THEN /\ ToRead(at) /\ i' = i + 1
         /\ got' = [got EXCEPT !.recs[i].data = Read(off, len)]
    ELSE Refuse

(* LoadResources and LoadRecords: a length is a uword, so the difference   *)
(* of two offsets is right although the size of the file may not be.       *)
LoadRecords ==
    /\ at = "read_data"
    /\ IF i > got.n THEN ToRead("done") /\ UNCHANGED <<i, got>>
       ELSE LET off  == got.recs[i].off
                next == IF i = got.n THEN file_size ELSE got.recs[i + 1].off
            IN  LoadRecord(off, (next - off) % Word)

Load ==
    \/ OpenFile \/ LoadHeader \/ LoadRecListHeader \/ LoadIndex
    \/ LoadAppBlock \/ LoadSortBlock \/ LoadRecords

Next == Write \/ Crash \/ Load

Spec == Init /\ [][Next]_fileVars

-----------------------------------------------------------------------------
(* The shapes of the variables of pdb_Write and pdb_Read.                  *)
TypeOK ==
    /\ db \in Databases /\ nuls \in {0, 1}
    /\ at \in WriteSteps \union ReadSteps \union {"stopped", "written", "refused", "done"}
    /\ i \in 1 .. (MaxRecs + 1) /\ offset \in Nat
    /\ got.n \in 0 .. MaxRecs /\ Len(got.recs) <= got.n
    /\ \A k \in DOMAIN got.recs :
          got.recs[k].cat \in 0 .. 15 /\ got.recs[k].id \in Nat
          /\ (~got.res => got.recs[k].id < IdSpan)

(* Where the items of a database are to be found, by the header and the    *)
(* index in the file.                                                      *)
Place(item) ==
    CASE item = AppItem  -> file[1].app
      [] item = SortItem -> file[1].sort
      [] OTHER           -> file[item].off

(* Every byte that pdb_Write puts in the file is where the header and the  *)
(* index, which were written before it, say it is.                         *)
OffsetsRight ==
    \A p \in DOMAIN file : file[p].kind = "byte" => p = Place(file[p].item) + file[p].k

(* What a database should look like when it is back: without a block that  *)
(* has no bytes, and with as much of the flags, category and ID as there   *)
(* is room for.  A record that is not DELETED loses its ARCHIVE flag, one  *)
(* that is loses its category.                                             *)
Kept(rec) ==
    IF db.res THEN [flags |-> {}, cat |-> 0, id |-> rec.id]
    ELSE [flags |-> IF DELETED \in rec.flags THEN rec.flags ELSE rec.flags \ {ARCHIVE},
          cat   |-> IF DELETED \in rec.flags THEN 0 ELSE rec.cat,
          id    |-> rec.id % IdSpan]

SameEntry(k) ==
    /\ got.recs[k].flags = Kept(db.recs[k]).flags
    /\ got.recs[k].cat   = Kept(db.recs[k]).cat
    /\ got.recs[k].id    = Kept(db.recs[k]).id

SameData(k) == got.recs[k].data = Bytes(RecItem(k), db.recs[k].len)
SameApp     == got.app = Bytes(AppItem, Size(db.app))
SameSort    == got.sort = Bytes(SortItem, Size(db.sort))

(* The length of the file says how long a block without anything behind it *)
(* is, and it is right only for files shorter than Word.                   *)
LengthCounts == db.recs = <<>> /\ (db.app # NULL \/ db.sort # NULL)

(* The file is as long as pdb_Write has counted, so nothing is missing.    *)
Complete == Len(file) = offset
Reading  == at \in ReadSteps \union {"refused", "done"}

(* A database that was written to the end is never refused and comes back  *)
(* from pdb_Read as it was, up to what the file has no room for: whatever  *)
(* the length of the file if there are records, although get_file_length   *)
(* cuts it to a uword, and else for every file shorter than Word.          *)
RoundTrip ==
    Reading /\ Complete /\ (LengthCounts => Len(file) < Word) =>
        /\ at # "refused"
        /\ at = "done" =>
              /\ got.res = db.res /\ SameApp /\ SameSort /\ Len(got.recs) = Len(db.recs)
              /\ \A k \in DOMAIN db.recs : SameEntry(k) /\ SameData(k)

StartOf(part, whole) == part = SubSeq(whole, 1, Len(part))

(* What pdb_Read makes of a file that was cut short, or whose length it    *)
(* has wrong, is refused or differs from the database at the end of its    *)
(* last item only: every record is there, in its place, with its own data, *)
(* and no byte of one item passes for a byte of another.                   *)
OnlyTheEndIsLost ==
    at = "done" =>
        /\ got.res = db.res /\ Len(got.recs) = Len(db.recs)
        /\ \A k \in DOMAIN db.recs :
              /\ SameEntry(k)
              /\ IF k < Len(db.recs) THEN SameData(k)
                 ELSE StartOf(got.recs[k].data, Bytes(RecItem(k), db.recs[k].len))
        /\ IF db.recs # <<>> THEN SameApp /\ SameSort
           ELSE /\ StartOf(got.sort, Bytes(SortItem, Size(db.sort)))
                /\ IF db.sort # NULL THEN SameApp
                   ELSE StartOf(got.app, Bytes(AppItem, Size(db.app)))

(* get_file_length: "Return the length of a file, in bytes."               *)
LengthIsRight == Reading => file_size = Len(file)
=============================================================================
