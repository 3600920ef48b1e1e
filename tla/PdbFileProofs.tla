---------------------------- MODULE PdbFileProofs ----------------------------
(***************************************************************************)
(* What holds of pdb_Write and pdb_Read for every database: any number of  *)
(* records, of any lengths, flags and IDs, with any blocks, and a writing  *)
(* that may be cut short anywhere.                                         *)
(***************************************************************************)
EXTENDS PdbFile, SequenceTheorems, TLAPS

-----------------------------------------------------------------------------
(* The shape of a file                                                     *)

Attr == [top : SUBSET Top, low : 0 .. 15]

HeaderUnit == [kind : {"header"}, res : BOOLEAN, app : Nat, sort : Nat]
ListUnit   == [kind : {"list"}, n : Nat]
RsrcEntry  == [kind : {"entry"}, off : Nat, id : Nat]
RecEntry   == [kind : {"entry"}, off : Nat, attr : Attr, id : Nat]
NulsUnit   == [kind : {"nuls"}]
ByteUnit   == [kind : {"byte"}, item : Nat, k : Nat]

Unit == HeaderUnit \union ListUnit \union RsrcEntry \union RecEntry \union NulsUnit
        \union ByteUnit

N         == Len(db.recs)
HeadLen   == 2 + N + nuls
DataStart == HeadLen + Size(db.app) + Size(db.sort)

Items == 1 .. (N + 2)
ItemLen(item) ==
    IF item = AppItem THEN Size(db.app)
    ELSE IF item = SortItem THEN Size(db.sort) ELSE db.recs[item - 2].len

(* Place, in a file f.                                                     *)
PlaceIn(f, item) ==
    IF item = AppItem THEN f[1].app
    ELSE IF item = SortItem THEN f[1].sort ELSE f[item].off

TheHeader ==
    [kind |-> "header", res |-> db.res,
     app  |-> IF db.app = NULL THEN 0 ELSE HeadLen,
     sort |-> IF db.sort = NULL THEN 0 ELSE HeadLen + Size(db.app)]

TheEntry(k, off) ==
    IF db.res THEN [kind |-> "entry", off |-> off, id |-> db.recs[k].id]
    ELSE [kind |-> "entry", off |-> off,
          attr |-> merge_attributes(db.recs[k].flags, db.recs[k].cat),
          id |-> db.recs[k].id % IdSpan]

(* The entries that are in the file give their records places one after    *)
(* the other, the first behind the blocks.                                 *)
IndexOK(f) ==
    /\ \A k \in 1 .. N : k + 2 <= Len(f) =>
          f[k + 2].off \in Nat /\ f[k + 2] = TheEntry(k, f[k + 2].off)
    /\ N > 0 /\ 3 <= Len(f) => f[3].off = DataStart
    /\ \A k \in 1 .. N : k < N /\ k + 3 <= Len(f) => f[k + 3].off = f[k + 2].off + db.recs[k].len
    /\ \A j, k \in 1 .. N : j < k /\ k + 2 <= Len(f) => f[j + 2].off + db.recs[j].len <= f[k + 2].off

(* The bytes that are in the file are where header and index say, and what *)
(* they say is there.                                                      *)
DataOK(f) ==
    /\ \A p \in 1 .. Len(f) : f[p].kind = "byte" =>
          /\ p > HeadLen /\ f[p].item \in Items /\ f[p].k \in 1 .. ItemLen(f[p].item)
          /\ p = PlaceIn(f, f[p].item) + f[p].k
    /\ \A item \in Items : \A j \in 1 .. ItemLen(item) :
          2 + N <= Len(f) /\ PlaceIn(f, item) + j <= Len(f) =>
              f[PlaceIn(f, item) + j] = [kind |-> "byte", item |-> item, k |-> j]

HeadOK(f) ==
    /\ f \in Seq(Unit)
    /\ 1 <= Len(f) => f[1] = TheHeader
    /\ 2 <= Len(f) => f[2] = [kind |-> "list", n |-> N]
    /\ IndexOK(f)

(* Where the last item ends; nothing is behind it.                         *)
EndIn(f) == IF N = 0 THEN DataStart ELSE f[N + 2].off + db.recs[N].len
SizeOK(f) == 2 + N <= Len(f) => Len(f) <= EndIn(f)

FileOK(f) == HeadOK(f) /\ DataOK(f) /\ SizeOK(f)

(* Where the file ends when m records of the index, or of the data, are    *)
(* written.                                                                *)
EndOf(m) == IF m = 0 THEN DataStart ELSE file[m + 2].off + db.recs[m].len

(* How far pdb_Write has come.                                             *)
Written ==
    /\ at = "write_header" => file = <<>> /\ offset = HeadLen /\ i = 1
    /\ at = "write_list"   => Len(file) = 1 /\ offset = DataStart /\ i = 1
    /\ at = "write_index"  => Len(file) = i + 1 /\ i \in 1 .. (N + 1) /\ offset = EndOf(i - 1)
    /\ at = "write_nuls"   => Len(file) = 2 + N /\ i = 1
    /\ at = "write_app"    => Len(file) = HeadLen /\ i = 1
    /\ at = "write_sort"   => Len(file) = HeadLen + Size(db.app) /\ i = 1
    /\ at = "write_data"   => /\ Len(file) = EndOf(i - 1) /\ i \in 1 .. (N + 1)
                              /\ Len(file) >= DataStart
    /\ at \in {"write_nuls", "write_app", "write_sort", "write_data"} => offset = EndOf(N)

WriteInv == db \in Databases /\ nuls \in {0, 1} /\ FileOK(file) /\ Written

-----------------------------------------------------------------------------
(* What a database is made of.                                             *)
LEMMA DbFacts ==
    ASSUME db \in Databases, nuls \in {0, 1}
    PROVE  /\ db.res \in BOOLEAN /\ N \in 0 .. MaxRecs /\ db.recs \in Seq(Records)
           /\ db.app = NULL \/ db.app \in Nat
           /\ db.sort = NULL \/ db.sort \in Nat
           /\ Size(db.app) \in Nat /\ Size(db.sort) \in Nat
           /\ HeadLen \in Nat /\ DataStart \in Nat /\ DataStart >= HeadLen /\ HeadLen >= 2 + N
           /\ \A k \in 1 .. N :
                 /\ db.recs[k] \in Records
                 /\ db.recs[k].flags \in SUBSET (Top \union {ARCHIVE}) /\ db.recs[k].cat \in 0 .. 15
                 /\ db.recs[k].id \in Nat /\ db.recs[k].len \in Nat /\ db.recs[k].len < Word
           /\ \A item \in Items : ItemLen(item) \in Nat
<1>1. db.res \in BOOLEAN /\ db.app \in Blocks \union {NULL} /\ db.sort \in Blocks \union {NULL}
      /\ db.recs \in UNION {[1 .. n -> Records] : n \in 0 .. MaxRecs}
  BY DEF Databases
<1>2. PICK n \in 0 .. MaxRecs : db.recs \in [1 .. n -> Records]
  BY <1>1
<1>3. db.recs \in Seq(Records) /\ Len(db.recs) = n
  <2>1. db.recs \in Seq(Records)
    BY <1>2, SeqDef, PdbFileAssumption
  <2>2. DOMAIN db.recs = 1 .. Len(db.recs) /\ DOMAIN db.recs = 1 .. n /\ Len(db.recs) \in Nat
    BY <2>1, <1>2, LenProperties, PdbFileAssumption
  <2> QED
    BY <2>1, <2>2
<1>4. \A k \in 1 .. N :
         /\ db.recs[k] \in Records
         /\ db.recs[k].flags \in SUBSET (Top \union {ARCHIVE}) /\ db.recs[k].cat \in 0 .. 15
         /\ db.recs[k].id \in Nat /\ db.recs[k].len \in Nat /\ db.recs[k].len < Word
  <2> SUFFICES ASSUME NEW k \in 1 .. N
      PROVE /\ db.recs[k] \in Records
            /\ db.recs[k].flags \in SUBSET (Top \union {ARCHIVE}) /\ db.recs[k].cat \in 0 .. 15
            /\ db.recs[k].id \in Nat /\ db.recs[k].len \in Nat /\ db.recs[k].len < Word
    OBVIOUS
  <2>1. db.recs[k] \in Records
    BY <1>2, <1>3 DEF N
  <2>2. db.recs[k] \in [flags : SUBSET (Top \union {ARCHIVE}), cat : 0 .. 15, id : Nat,
                        len : 0 .. (Word - 1)]
    BY <2>1, PdbFileAssumption
  <2> QED
    BY <2>1, <2>2, PdbFileAssumption
<1>5. /\ db.app = NULL \/ db.app \in Nat
      /\ db.sort = NULL \/ db.sort \in Nat
      /\ Size(db.app) \in Nat /\ Size(db.sort) \in Nat
  BY <1>1, PdbFileAssumption DEF Size, NULL
<1>6. HeadLen \in Nat /\ DataStart \in Nat /\ DataStart >= HeadLen /\ HeadLen >= 2 + N
  BY <1>3, <1>5 DEF HeadLen, DataStart, N
<1>7. \A item \in Items : ItemLen(item) \in Nat
  BY <1>3, <1>4, <1>5 DEF ItemLen, Items, AppItem, SortItem, N
<1> QED
  BY <1>1, <1>3, <1>4, <1>5, <1>6, <1>7 DEF N

(* A file that is all right is so up to any place.                         *)
LEMMA PrefixOK ==
    ASSUME db \in Databases, nuls \in {0, 1}, NEW f, FileOK(f), NEW m \in 0 .. Len(f)
    PROVE  FileOK(SubSeq(f, 1, m))
<1> DEFINE g == SubSeq(f, 1, m)
<1>1. f \in Seq(Unit) /\ Len(f) \in Nat
  BY LenProperties DEF FileOK, HeadOK
<1>2. g \in Seq(Unit) /\ Len(g) = m /\ \A p \in 1 .. m : g[p] = f[p]
  BY <1>1, SubSeqProperties
<1> HIDE DEF g
<1>3. N \in Nat /\ HeadLen \in Nat
  BY DbFacts
<1>4. IndexOK(g)
  <2>1. IndexOK(f)
    BY DEF FileOK, HeadOK
  <2>2. \A k \in 1 .. N : k + 2 <= m => g[k + 2] = f[k + 2] /\ k + 2 <= Len(f)
    BY <1>1, <1>2, <1>3
  <2>3. \A k \in 1 .. N : k + 2 <= m => g[k + 2].off \in Nat /\ g[k + 2] = TheEntry(k, g[k + 2].off)
    BY <2>1, <2>2 DEF IndexOK
  <2>4. N > 0 /\ 3 <= m => g[3].off = DataStart
    BY <1>1, <1>2, <1>3, <2>1 DEF IndexOK
  <2>5. \A k \in 1 .. N : k < N /\ k + 3 <= m => g[k + 3].off = g[k + 2].off + db.recs[k].len
    <3>1. \A k \in 1 .. N : k < N /\ k + 3 <= m =>
             g[k + 3] = f[k + 3] /\ g[k + 2] = f[k + 2] /\ k + 3 <= Len(f)
      BY <1>1, <1>2, <1>3
    <3> QED
      BY <2>1, <3>1 DEF IndexOK
  <2>6. \A j, k \in 1 .. N : j < k /\ k + 2 <= m => g[j + 2].off + db.recs[j].len <= g[k + 2].off
    <3>1. \A j, k \in 1 .. N : j < k /\ k + 2 <= m => g[j + 2] = f[j + 2] /\ g[k + 2] = f[k + 2]
      BY <1>1, <1>2, <1>3
    <3> QED
      BY <2>1, <2>2, <3>1 DEF IndexOK
  <2> QED
    BY <1>2, <2>3, <2>4, <2>5, <2>6 DEF IndexOK
<1>5. \A item \in Items : 2 + N <= m => PlaceIn(g, item) = PlaceIn(f, item)
  BY <1>1, <1>2, <1>3 DEF PlaceIn, Items, AppItem, SortItem
<1>6. DataOK(g)
  <2>1. ASSUME NEW p \in 1 .. m, g[p].kind = "byte"
        PROVE  /\ p > HeadLen /\ g[p].item \in Items /\ g[p].k \in 1 .. ItemLen(g[p].item)
               /\ p = PlaceIn(g, g[p].item) + g[p].k
    <3>1. /\ p > HeadLen /\ f[p].item \in Items /\ f[p].k \in 1 .. ItemLen(f[p].item)
          /\ p = PlaceIn(f, f[p].item) + f[p].k
      BY <1>1, <1>2, <2>1 DEF FileOK, HeadOK, DataOK
    <3>2. 2 + N <= m
      BY <3>1, <1>3, DbFacts
    <3> QED
      BY <1>2, <1>5, <3>1, <3>2
  <2>2. ASSUME NEW item \in Items, NEW j \in 1 .. ItemLen(item), 2 + N <= m,
               PlaceIn(g, item) + j <= m
        PROVE  g[PlaceIn(g, item) + j] = [kind |-> "byte", item |-> item, k |-> j]
    <3>1. PlaceIn(g, item) = PlaceIn(f, item) /\ PlaceIn(f, item) \in Nat
      <4>1. CASE item \in {1, 2}
        <5>1. f[1] = TheHeader
          BY <1>1, <1>3, <2>2 DEF FileOK, HeadOK
        <5> QED
          BY <4>1, <5>1, <1>5, <2>2, DbFacts DEF PlaceIn, AppItem, SortItem, TheHeader
      <4>2. CASE item \notin {1, 2}
        <5>1. item - 2 \in 1 .. N /\ item - 2 + 2 = item
          BY <4>2, <1>3 DEF Items
        <5>2. f[item].off \in Nat
          BY <5>1, <1>1, <1>3, <2>2 DEF FileOK, HeadOK, IndexOK
        <5> QED
          BY <4>2, <5>2, <1>5, <2>2 DEF PlaceIn, AppItem, SortItem
      <4> QED
        BY <4>1, <4>2
    <3>2. ItemLen(item) \in Nat
      BY DbFacts
    <3>3. f[PlaceIn(f, item) + j] = [kind |-> "byte", item |-> item, k |-> j]
      <4>1. DataOK(f)
        BY DEF FileOK, HeadOK
      <4>2. 2 + N <= Len(f) /\ PlaceIn(f, item) + j <= Len(f)
        BY <1>1, <1>3, <2>2, <3>1, <3>2
      <4> QED
        BY <4>1, <4>2 DEF DataOK
    <3> QED
      BY <1>2, <2>2, <3>1, <3>2, <3>3
  <2> QED
    BY <1>2, <2>1, <2>2 DEF DataOK
<1>7. 1 <= Len(g) => g[1] = TheHeader
  BY <1>1, <1>2 DEF FileOK, HeadOK
<1>8. 2 <= Len(g) => g[2] = [kind |-> "list", n |-> N]
  BY <1>1, <1>2 DEF FileOK, HeadOK
<1>9. SizeOK(g)
  <2>1. SizeOK(f)
    BY DEF FileOK
  <2>2. CASE 2 + N <= m
    <3>1. N > 0 => g[N + 2] = f[N + 2]
      BY <1>1, <1>2, <1>3, <2>2
    <3>2. EndIn(g) = EndIn(f)
      BY <1>3, <3>1 DEF EndIn
    <3>3. EndIn(f) \in Nat
      <4>1. CASE N = 0
        BY <4>1, DbFacts DEF EndIn
      <4>2. CASE N # 0
        <5>1. N \in 1 .. N /\ N + 2 <= Len(f)
          BY <1>1, <1>3, <2>2, <4>2
        <5>2. f[N + 2].off \in Nat /\ db.recs[N].len \in Nat
          BY <5>1, DbFacts DEF FileOK, HeadOK, IndexOK
        <5>3. f[N + 2].off + db.recs[N].len \in Nat
          <6>1. PICK a \in Nat, b \in Nat : a = f[N + 2].off /\ b = db.recs[N].len
            BY <5>2
          <6>2. a + b \in Nat
            OBVIOUS
          <6> QED
            BY <6>1, <6>2
        <5> QED
          BY <4>2, <5>3 DEF EndIn
      <4> QED
        BY <4>1, <4>2
    <3> QED
      BY <1>1, <1>2, <1>3, <2>1, <2>2, <3>2, <3>3 DEF SizeOK
  <2> QED
    BY <1>2, <2>2 DEF SizeOK
<1> QED
  BY <1>2, <1>4, <1>6, <1>7, <1>8, <1>9 DEF FileOK, HeadOK, g

(* Header and index, once they are there, have all data behind them, item  *)
(* after item.                                                             *)
LEMMA PlacesApart ==
    ASSUME db \in Databases, nuls \in {0, 1}, NEW f, HeadOK(f), 2 + N <= Len(f)
    PROVE  /\ \A item \in Items : PlaceIn(f, item) \in Nat
           /\ \A item \in Items : ItemLen(item) > 0 => PlaceIn(f, item) >= HeadLen
           /\ \A a, b \in Items : a < b /\ ItemLen(a) > 0 /\ ItemLen(b) > 0 =>
                 PlaceIn(f, a) + ItemLen(a) <= PlaceIn(f, b)
<1>1. Len(f) \in Nat /\ N \in Nat /\ IndexOK(f) /\ f[1] = TheHeader
  BY DbFacts, LenProperties DEF HeadOK
<1>2. \A k \in 1 .. N : f[k + 2].off \in Nat /\ f[k + 2].off >= DataStart
  <2> SUFFICES ASSUME NEW k \in 1 .. N PROVE f[k + 2].off \in Nat /\ f[k + 2].off >= DataStart
    OBVIOUS
  <2>1. f[k + 2].off \in Nat /\ f[1 + 2].off = DataStart
    <3>1. k + 2 <= Len(f) /\ 3 <= Len(f) /\ N > 0 /\ 1 + 2 = 3
      BY <1>1
    <3> QED
      BY <1>1, <3>1 DEF IndexOK
  <2>2. CASE k = 1
    BY <2>1, <2>2, DbFacts
  <2>3. CASE k > 1
    <3>1. 1 \in 1 .. N /\ 1 < k /\ k + 2 <= Len(f)
      BY <1>1, <2>3
    <3>2. f[1 + 2].off + db.recs[1].len <= f[k + 2].off
      BY <1>1, <3>1 DEF IndexOK
    <3>3. db.recs[1].len \in Nat /\ DataStart \in Nat
      BY <3>1, DbFacts
    <3> QED
      BY <2>1, <3>2, <3>3
  <2> QED
    BY <2>2, <2>3
<1>3. /\ PlaceIn(f, 1) \in Nat /\ PlaceIn(f, 2) \in Nat
      /\ ItemLen(1) > 0 => PlaceIn(f, 1) = HeadLen
      /\ ItemLen(2) > 0 => PlaceIn(f, 2) = HeadLen + Size(db.app)
      /\ ItemLen(1) = Size(db.app) /\ ItemLen(2) = Size(db.sort)
  BY <1>1, DbFacts DEF PlaceIn, AppItem, SortItem, TheHeader, ItemLen, Size
<1>4. \A item \in Items : item > 2 =>
         /\ PlaceIn(f, item) = f[item].off /\ ItemLen(item) = db.recs[item - 2].len
         /\ PlaceIn(f, item) \in Nat /\ PlaceIn(f, item) >= DataStart
  <2> SUFFICES ASSUME NEW item \in Items, item > 2
      PROVE /\ PlaceIn(f, item) = f[item].off /\ ItemLen(item) = db.recs[item - 2].len
            /\ PlaceIn(f, item) \in Nat /\ PlaceIn(f, item) >= DataStart
    OBVIOUS
  <2>1. item - 2 \in 1 .. N /\ item - 2 + 2 = item
    BY <1>1 DEF Items
  <2>2. f[item].off \in Nat /\ f[item].off >= DataStart
    BY <2>1, <1>2
  <2> QED
    BY <2>2 DEF PlaceIn, ItemLen, AppItem, SortItem, Items
<1>5. \A item \in Items : item \in Nat /\ (item = 1 \/ item = 2 \/ item > 2)
  BY <1>1 DEF Items
<1>6. ASSUME NEW a \in Items, NEW b \in Items, a < b, ItemLen(a) > 0, ItemLen(b) > 0
      PROVE  PlaceIn(f, a) + ItemLen(a) <= PlaceIn(f, b)
  <2>1. CASE a > 2
    <3>1. a - 2 \in 1 .. N /\ b - 2 \in 1 .. N /\ a - 2 < b - 2 /\ b > 2
          /\ a - 2 + 2 = a /\ b - 2 + 2 = b
      BY <1>1, <2>1, <1>6 DEF Items
    <3>2. \A j, k \in 1 .. N : j < k /\ k + 2 <= Len(f) => f[j + 2].off + db.recs[j].len <= f[k + 2].off
      BY <1>1 DEF IndexOK
    <3>3. PICK j \in 1 .. N, k \in 1 .. N : j = a - 2 /\ k = b - 2
      BY <3>1
    <3>4. j < k /\ k + 2 <= Len(f) /\ j + 2 = a /\ k + 2 = b
      BY <1>1, <3>1, <3>3
    <3>5. f[a].off + db.recs[a - 2].len <= f[b].off
      BY <3>2, <3>3, <3>4
    <3> QED
      BY <3>1, <3>5, <1>4, <2>1
  <2>2. CASE a \in {1, 2} /\ b > 2
    <3>1. /\ PlaceIn(f, b) \in Nat /\ PlaceIn(f, b) >= DataStart /\ HeadLen \in Nat
          /\ Size(db.app) \in Nat /\ Size(db.sort) \in Nat
      BY <2>2, <1>4, DbFacts
    <3> QED
      BY <2>2, <3>1, <1>3, <1>6 DEF DataStart
  <2>3. CASE a = 1 /\ b = 2
    BY <2>3, <1>3, <1>6, DbFacts
  <2> QED
    BY <1>5, <1>6, <2>1, <2>2, <2>3
<1>7. \A item \in Items : PlaceIn(f, item) \in Nat
  BY <1>3, <1>4, <1>5
<1>8. ASSUME NEW item \in Items, ItemLen(item) > 0 PROVE PlaceIn(f, item) >= HeadLen
  <2>1. HeadLen \in Nat /\ Size(db.app) \in Nat /\ DataStart \in Nat /\ DataStart >= HeadLen
    BY DbFacts
  <2>2. CASE item \in {1, 2}
    BY <2>1, <2>2, <1>3, <1>8
  <2>3. CASE item > 2
    BY <2>1, <2>3, <1>4
  <2> QED
    BY <1>5, <2>2, <2>3
<1> QED
  BY <1>6, <1>7, <1>8

LEMMA PlacesInside ==
    ASSUME db \in Databases, nuls \in {0, 1}, NEW f, HeadOK(f), 2 + N <= Len(f)
    PROVE  /\ EndIn(f) \in Nat /\ EndIn(f) >= DataStart
           /\ \A item \in Items : ItemLen(item) > 0 => PlaceIn(f, item) + ItemLen(item) <= EndIn(f)
<1>1. Len(f) \in Nat /\ N \in Nat /\ IndexOK(f) /\ f[1] = TheHeader /\ DataStart \in Nat
      /\ HeadLen \in Nat /\ Size(db.app) \in Nat /\ Size(db.sort) \in Nat
  BY DbFacts, LenProperties DEF HeadOK
<1>2. ASSUME N > 0
      PROVE  /\ N \in 1 .. N /\ f[N + 2].off \in Nat /\ db.recs[N].len \in Nat
             /\ f[N + 2].off >= DataStart /\ EndIn(f) = f[N + 2].off + db.recs[N].len
  <2>1. N \in 1 .. N /\ N + 2 <= Len(f) /\ 1 \in 1 .. N /\ 3 <= Len(f)
    BY <1>1, <1>2
  <2>2. f[N + 2].off \in Nat /\ f[3].off = DataStart
    BY <1>1, <1>2, <2>1 DEF IndexOK
  <2>3. db.recs[N].len \in Nat /\ db.recs[1].len \in Nat
    BY <2>1, DbFacts
  <2>4. N > 1 => f[1 + 2].off + db.recs[1].len <= f[N + 2].off
    BY <1>1, <2>1 DEF IndexOK
  <2>5. f[N + 2].off >= DataStart
    <3>1. CASE N = 1
      BY <2>2, <3>1, <1>1
    <3>2. CASE N > 1
      <4>1. f[1 + 2].off = DataStart
        BY <2>2
      <4> QED
        <5>1. PICK a \in Nat, b \in Nat, c \in Nat :
                 a = DataStart /\ b = db.recs[1].len /\ c = f[N + 2].off
          BY <1>1, <2>2, <2>3
        <5>2. a + b <= c
          BY <2>4, <3>2, <4>1, <5>1
        <5>3. c >= a
          BY <5>2
        <5> QED
          BY <5>1, <5>3
    <3> QED
      BY <1>1, <1>2, <3>1, <3>2
  <2> QED
    BY <1>1, <1>2, <2>1, <2>2, <2>3, <2>5 DEF EndIn
<1>3. EndIn(f) \in Nat /\ EndIn(f) >= DataStart
  <2>1. CASE N = 0
    BY <1>1, <2>1 DEF EndIn
  <2>2. CASE N > 0
    BY <1>1, <1>2, <2>2
  <2> QED
    BY <1>1, <2>1, <2>2
<1>4. ASSUME NEW item \in Items, ItemLen(item) > 0
      PROVE  PlaceIn(f, item) + ItemLen(item) <= EndIn(f)
  <2>1. CASE item \in {1, 2}
    <3>1. PlaceIn(f, item) + ItemLen(item) <= DataStart
      BY <1>1, <1>4, <2>1 DEF PlaceIn, ItemLen, AppItem, SortItem, TheHeader, Size, DataStart
    <3>2. PlaceIn(f, item) + ItemLen(item) \in Nat
      BY <1>4, DbFacts, PlacesApart
    <3> QED
      BY <1>1, <1>3, <3>1, <3>2
  <2>2. CASE item > 2
    <3>1. item - 2 \in 1 .. N /\ item - 2 + 2 = item /\ N > 0 /\ item - 2 + 2 <= Len(f)
      BY <1>1, <2>2 DEF Items
    <3>2. PlaceIn(f, item) = f[item].off /\ ItemLen(item) = db.recs[item - 2].len
      BY <2>2 DEF PlaceIn, ItemLen, AppItem, SortItem, Items
    <3>3. f[item].off \in Nat /\ db.recs[item - 2].len \in Nat
      BY <1>1, <3>1, DbFacts DEF IndexOK
    <3>4. CASE item - 2 = N
      <4>1. item = N + 2
        BY <1>1, <3>1, <3>4
      <4> QED
        BY <1>2, <3>1, <3>2, <3>4, <4>1
    <3>5. CASE item - 2 < N
      <4>1. N \in 1 .. N /\ N + 2 <= Len(f)
        BY <1>1, <1>2, <3>1
      <4>2. f[item - 2 + 2].off + db.recs[item - 2].len <= f[N + 2].off
        BY <1>1, <3>1, <3>5, <4>1 DEF IndexOK
      <4>3. PICK a \in Nat, b \in Nat, c \in Nat, d \in Nat :
               /\ a = f[item].off /\ b = db.recs[item - 2].len
               /\ c = f[N + 2].off /\ d = db.recs[N].len
        BY <1>2, <3>1, <3>3
      <4>4. a + b <= c
        BY <3>1, <4>2, <4>3
      <4>5. a + b <= c + d
        BY <4>4
      <4>6. EndIn(f) = c + d /\ PlaceIn(f, item) + ItemLen(item) = a + b
        BY <1>2, <3>1, <3>2, <4>3
      <4> QED
        BY <4>5, <4>6
    <3> QED
      BY <1>1, <3>1, <3>4, <3>5
  <2> QED
    BY <1>1, <2>1, <2>2 DEF Items
<1> QED
  BY <1>3, <1>4

(* Until the data begin there are none.                                    *)
LEMMA NoDataYet ==
    ASSUME db \in Databases, nuls \in {0, 1}, NEW f, HeadOK(f), Len(f) <= HeadLen,
           \A p \in 1 .. Len(f) : f[p].kind # "byte"
    PROVE  DataOK(f)
<1>1. Len(f) \in Nat /\ HeadLen \in Nat
  BY DbFacts, LenProperties DEF HeadOK
<1>2. ASSUME NEW item \in Items, NEW j \in 1 .. ItemLen(item), 2 + N <= Len(f)
      PROVE  PlaceIn(f, item) + j > Len(f)
  <2>1. ItemLen(item) \in Nat
    BY DbFacts
  <2>2. PlaceIn(f, item) \in Nat /\ (ItemLen(item) > 0 => PlaceIn(f, item) >= HeadLen)
    BY PlacesApart, <1>2
  <2> QED
    BY <1>1, <2>1, <2>2
<1>3. \A item \in Items : \A j \in 1 .. ItemLen(item) :
         2 + N <= Len(f) => PlaceIn(f, item) \in Nat /\ ItemLen(item) \in Nat
  BY PlacesApart, DbFacts
<1> QED
  BY <1>1, <1>2, <1>3 DEF DataOK

(* While the head is written there are no bytes in the file.               *)
LEMMA HeadHasNoBytes ==
    ASSUME db \in Databases, nuls \in {0, 1}, FileOK(file), Len(file) <= HeadLen
    PROVE  \A p \in 1 .. Len(file) : file[p].kind # "byte"
<1>1. Len(file) \in Nat /\ HeadLen \in Nat /\ DataOK(file)
  BY DbFacts, LenProperties DEF FileOK, HeadOK
<1> QED
  BY <1>1 DEF DataOK

-----------------------------------------------------------------------------
(* Adding to the file                                                      *)

(* Nothing in the shape of a file depends on more than the database.       *)
LEMMA SameShape ==
    ASSUME UNCHANGED <<db, nuls>>, FileOK(file')
    PROVE  FileOK(file)'
BY DEF FileOK, HeadOK, IndexOK, DataOK, SizeOK, EndIn, N, HeadLen, DataStart, Items, ItemLen, PlaceIn, TheHeader,
       TheEntry, Size, merge_attributes

LEMMA Added ==
    ASSUME FileOK(file), NEW units \in Seq(Unit)
    PROVE  /\ file \in Seq(Unit) /\ Len(file) \in Nat /\ Len(units) \in Nat
           /\ file \o units \in Seq(Unit) /\ Len(file \o units) = Len(file) + Len(units)
           /\ \A p \in 1 .. Len(file) : (file \o units)[p] = file[p]
           /\ \A p \in 1 .. Len(units) : (file \o units)[Len(file) + p] = units[p]
<1>1. file \in Seq(Unit) /\ Len(file) \in Nat /\ Len(units) \in Nat
  BY LenProperties DEF FileOK, HeadOK
<1> QED
  BY <1>1, ConcatProperties

LEMMA OneUnit ==
    ASSUME NEW u \in Unit
    PROVE  <<u>> \in Seq(Unit) /\ Len(<<u>>) = 1 /\ <<u>>[1] = u
OBVIOUS

LEMMA AddedOne ==
    ASSUME FileOK(file), NEW u \in Unit
    PROVE  /\ file \in Seq(Unit) /\ Len(file) \in Nat /\ <<u>> \in Seq(Unit)
           /\ file \o <<u>> \in Seq(Unit) /\ Len(file \o <<u>>) = Len(file) + 1
           /\ \A p \in 1 .. Len(file) : (file \o <<u>>)[p] = file[p]
           /\ (file \o <<u>>)[Len(file) + 1] = u
<1>1. <<u>> \in Seq(Unit) /\ Len(<<u>>) = 1 /\ <<u>>[1] = u /\ 1 \in 1 .. 1
  BY OneUnit
<1> HIDE DEF Unit
<1> QED
  BY <1>1, Added

(* Writing that stops early leaves a part of the file.                     *)
LEMMA CutShortOK ==
    ASSUME WriteInv, NEW units \in Seq(Unit), FileOK(file \o units), CutShort(units)
    PROVE  WriteInv'
<1> DEFINE g == file \o units
<1>1. PICK m \in 0 .. (Len(units) - 1) : file' = file \o SubSeq(units, 1, m)
  BY DEF CutShort, Writes
<1>2. FileOK(file) /\ UNCHANGED <<db, nuls>> /\ at' = "stopped"
  BY DEF WriteInv, CutShort
<1>3. /\ file \in Seq(Unit) /\ Len(file) \in Nat /\ Len(units) \in Nat
      /\ g \in Seq(Unit) /\ Len(g) = Len(file) + Len(units)
      /\ \A p \in 1 .. Len(file) : g[p] = file[p]
      /\ \A p \in 1 .. Len(units) : g[Len(file) + p] = units[p]
  BY <1>2, Added
<1> HIDE DEF g
<1>4. /\ SubSeq(units, 1, m) \in Seq(Unit) /\ Len(SubSeq(units, 1, m)) = m
      /\ \A p \in 1 .. m : SubSeq(units, 1, m)[p] = units[p]
  BY <1>1, <1>3, SubSeqProperties
<1>5. /\ file' \in Seq(Unit) /\ Len(file') = Len(file) + m
      /\ \A p \in 1 .. Len(file) : file'[p] = file[p]
      /\ \A p \in 1 .. m : file'[Len(file) + p] = units[p]
  BY <1>1, <1>2, <1>4, Added
<1>6. Len(file) + m \in 0 .. Len(g)
  BY <1>1, <1>3
<1>7. /\ SubSeq(g, 1, Len(file) + m) \in Seq(Unit) /\ Len(SubSeq(g, 1, Len(file) + m)) = Len(file) + m
      /\ \A p \in 1 .. Len(file) + m : SubSeq(g, 1, Len(file) + m)[p] = g[p]
  BY <1>3, <1>6, SubSeqProperties
<1>8. \A p \in 1 .. Len(file) + m : file'[p] = g[p]
  <2> SUFFICES ASSUME NEW p \in 1 .. Len(file) + m PROVE file'[p] = g[p]
    OBVIOUS
  <2>1. CASE p <= Len(file)
    BY <2>1, <1>3, <1>5
  <2>2. CASE p > Len(file)
    <3>1. p - Len(file) \in 1 .. m /\ p - Len(file) \in 1 .. Len(units) /\ Len(file) + (p - Len(file)) = p
      BY <2>2, <1>1, <1>3
    <3> QED
      BY <3>1, <1>3, <1>5
  <2> QED
    BY <2>1, <2>2, <1>1, <1>3
<1>9. file' = SubSeq(g, 1, Len(file) + m)
  BY <1>5, <1>7, <1>8, SeqEqual
<1>10. FileOK(file')
  BY <1>6, <1>9, PrefixOK DEF WriteInv, g
<1>11. FileOK(file)'
  BY <1>2, <1>10, SameShape
<1> QED
  BY <1>2, <1>11 DEF WriteInv, Written

(* The bytes of an item go to its place: then they are where header and    *)
(* index say, and no other item is there.                                  *)
LEMMA DataAdded ==
    ASSUME WriteInv, NEW item \in Items, HeadLen <= Len(file),
           ItemLen(item) > 0 => PlaceIn(file, item) = Len(file)
    PROVE  /\ Bytes(item, ItemLen(item)) \in Seq(Unit)
           /\ Len(Bytes(item, ItemLen(item))) = ItemLen(item)
           /\ FileOK(file \o Bytes(item, ItemLen(item)))
<1> DEFINE len   == ItemLen(item)
           units == Bytes(item, len)
           g     == file \o units
<1>1. db \in Databases /\ nuls \in {0, 1} /\ FileOK(file)
  BY DEF WriteInv
<1>2. len \in Nat /\ N \in Nat /\ HeadLen \in Nat /\ HeadLen >= 2 + N /\ item \in Nat
  BY <1>1, DbFacts DEF Items
<1>3. \A k \in 1 .. len : [kind |-> "byte", item |-> item, k |-> k] \in Unit
  BY <1>2 DEF Unit, ByteUnit
<1>4. units \in Seq(Unit) /\ Len(units) = len /\ \A k \in 1 .. len : units[k] = [kind |-> "byte", item |-> item, k |-> k]
  <2>1. units \in [1 .. len -> Unit]
    BY <1>3 DEF Bytes
  <2>2. units \in Seq(Unit) /\ Len(units) = len
    BY <1>2, <2>1, SeqDef, LenProperties
  <2> QED
    BY <2>2 DEF Bytes
<1> HIDE DEF units, len
<1>5. /\ file \in Seq(Unit) /\ Len(file) \in Nat
      /\ g \in Seq(Unit) /\ Len(g) = Len(file) + len
      /\ \A p \in 1 .. Len(file) : g[p] = file[p]
      /\ \A p \in 1 .. len : g[Len(file) + p] = [kind |-> "byte", item |-> item, k |-> p]
  BY <1>1, <1>4, Added
<1> HIDE DEF g
<1>6. HeadOK(g)
  <2>1. \A p \in 1 .. 2 + N : g[p] = file[p] /\ p <= Len(file)
    BY <1>2, <1>5
  <2>2. g[1] = TheHeader /\ g[2] = [kind |-> "list", n |-> N]
    BY <1>1, <1>2, <1>5, <2>1 DEF FileOK, HeadOK
  <2>3. IndexOK(g)
    <3>1. IndexOK(file)
      BY <1>1 DEF FileOK, HeadOK
    <3>2. \A k \in 1 .. N : g[k + 2] = file[k + 2] /\ k + 2 <= Len(file)
      BY <1>2, <2>1
    <3>3. \A k \in 1 .. N : g[k + 2].off \in Nat /\ g[k + 2] = TheEntry(k, g[k + 2].off)
      BY <3>1, <3>2 DEF IndexOK
    <3>4. N > 0 => g[3].off = DataStart
      <4> SUFFICES ASSUME N > 0 PROVE g[3].off = DataStart
        OBVIOUS
      <4>1. 1 \in 1 .. N /\ 1 + 2 = 3
        BY <1>2
      <4>2. g[3] = file[3] /\ 3 <= Len(file)
        BY <4>1, <3>2
      <4> QED
        BY <3>1, <4>2 DEF IndexOK
    <3>5. \A k \in 1 .. N : k < N => g[k + 3].off = g[k + 2].off + db.recs[k].len
      <4>1. \A k \in 1 .. N : k < N => g[k + 3] = file[k + 3] /\ k + 3 <= Len(file)
        BY <1>2, <2>1
      <4> QED
        BY <3>1, <3>2, <4>1 DEF IndexOK
    <3>6. \A j, k \in 1 .. N : j < k => g[j + 2].off + db.recs[j].len <= g[k + 2].off
      BY <3>1, <3>2 DEF IndexOK
    <3> QED
      BY <3>3, <3>4, <3>5, <3>6 DEF IndexOK
  <2> QED
    BY <1>5, <2>2, <2>3 DEF HeadOK
<1>7. \A a \in Items : PlaceIn(g, a) = PlaceIn(file, a) /\ a \in Nat
  BY <1>2, <1>5 DEF PlaceIn, Items, AppItem, SortItem
<1>8. 2 + N <= Len(g) /\ 2 + N <= Len(file) /\ DataOK(file)
  BY <1>1, <1>2, <1>5 DEF FileOK
<1>9. ASSUME NEW p \in 1 .. Len(g), g[p].kind = "byte"
      PROVE  /\ p > HeadLen /\ g[p].item \in Items /\ g[p].k \in 1 .. ItemLen(g[p].item)
             /\ p = PlaceIn(g, g[p].item) + g[p].k
  <2>1. CASE p <= Len(file)
    <3>1. p \in 1 .. Len(file) /\ g[p] = file[p]
      BY <2>1, <1>5
    <3> QED
      BY <1>7, <1>8, <1>9, <3>1 DEF DataOK
  <2>2. CASE p > Len(file)
    <3>1. p - Len(file) \in 1 .. len /\ Len(file) + (p - Len(file)) = p
      BY <2>2, <1>2, <1>5
    <3>2. g[p] = [kind |-> "byte", item |-> item, k |-> p - Len(file)]
      BY <1>5, <3>1
    <3>3. PlaceIn(g, item) = Len(file)
      BY <1>2, <1>7, <3>1 DEF len
    <3>4. g[p].item = item /\ g[p].k = p - Len(file) /\ p > HeadLen
      BY <1>2, <1>5, <2>2, <3>2
    <3> QED
      BY <1>5, <3>1, <3>3, <3>4 DEF len
  <2> QED
    BY <2>1, <2>2, <1>5
<1>10. ASSUME NEW a \in Items, NEW j \in 1 .. ItemLen(a), PlaceIn(g, a) + j <= Len(g)
       PROVE  g[PlaceIn(g, a) + j] = [kind |-> "byte", item |-> a, k |-> j]
  <2>1. ItemLen(a) \in Nat /\ PlaceIn(g, a) \in Nat /\ ItemLen(a) > 0
    BY <1>1, <1>6, <1>8, <1>10, DbFacts, PlacesApart
  <2>2. CASE PlaceIn(g, a) + j <= Len(file)
    <3>1. file[PlaceIn(file, a) + j] = [kind |-> "byte", item |-> a, k |-> j]
      BY <1>7, <1>8, <2>2 DEF DataOK
    <3> QED
      BY <1>5, <1>7, <2>1, <2>2, <3>1
  <2>3. CASE PlaceIn(g, a) + j > Len(file)
    <3>1. len > 0 /\ PlaceIn(g, item) = Len(file)
      BY <1>2, <1>5, <1>7, <1>10, <2>1, <2>3 DEF len
    <3>2. ~(a < item)
      <4>1. a < item => PlaceIn(g, a) + ItemLen(a) <= PlaceIn(g, item)
        BY <1>1, <1>6, <1>8, <2>1, <3>1, PlacesApart DEF len
      <4> QED
        BY <4>1, <2>1, <2>3, <3>1, <1>5
    <3>3. ~(item < a)
      <4>1. item < a => PlaceIn(g, item) + len <= PlaceIn(g, a)
        BY <1>1, <1>6, <1>8, <2>1, <3>1, PlacesApart DEF len
      <4> QED
        BY <4>1, <2>1, <3>1, <1>2, <1>5, <1>10
    <3>4. a = item
      BY <3>2, <3>3, <1>7, <1>2
    <3> QED
      BY <3>1, <3>4, <1>2, <1>5, <2>1 DEF len
  <2> QED
    BY <2>1, <2>2, <2>3, <1>5
<1>11. DataOK(g)
  BY <1>9, <1>10 DEF DataOK
<1>12. SizeOK(g)
  <2>1. EndIn(g) = EndIn(file)
    <3>1. N > 0 => g[N + 2] = file[N + 2]
      BY <1>2, <1>5, <1>8
    <3> QED
      BY <1>2, <3>1 DEF EndIn
  <2>2. Len(file) <= EndIn(file)
    BY <1>1, <1>8 DEF FileOK, SizeOK
  <2>3. CASE len = 0
    BY <1>5, <2>1, <2>2, <2>3 DEF SizeOK
  <2>4. CASE len > 0
    <3>1. PlaceIn(g, item) + len <= EndIn(g) /\ PlaceIn(g, item) = Len(file)
      BY <1>1, <1>6, <1>7, <1>8, <2>4, PlacesInside DEF len
    <3> QED
      BY <1>5, <3>1 DEF SizeOK
  <2> QED
    BY <1>2, <2>3, <2>4
<1> QED
  BY <1>4, <1>6, <1>11, <1>12 DEF FileOK, g, units, len

(* A unit of the head leaves the file without data.                        *)
LEMMA HeadAdded ==
    ASSUME WriteInv, NEW u \in Unit, u.kind # "byte", Len(file) < HeadLen, HeadOK(file \o <<u>>)
    PROVE  FileOK(file \o <<u>>)
<1> DEFINE g == file \o <<u>>
<1>1. db \in Databases /\ nuls \in {0, 1} /\ FileOK(file) /\ HeadLen \in Nat
  BY DbFacts DEF WriteInv
<1>2. <<u>> \in Seq(Unit) /\ Len(<<u>>) = 1 /\ <<u>>[1] = u
  BY OneUnit
<1>3. /\ Len(file) \in Nat /\ Len(g) = Len(file) + 1
      /\ \A p \in 1 .. Len(file) : g[p] = file[p]
      /\ g[Len(file) + 1] = u
  BY <1>1, <1>2, Added
<1> HIDE DEF g
<1>4. \A p \in 1 .. Len(file) : file[p].kind # "byte"
  BY <1>1, <1>3, HeadHasNoBytes
<1>5. \A p \in 1 .. Len(g) : g[p].kind # "byte"
  <2> SUFFICES ASSUME NEW p \in 1 .. Len(g) PROVE g[p].kind # "byte"
    OBVIOUS
  <2>1. p \in 1 .. Len(file) \/ p = Len(file) + 1
    BY <1>3
  <2> QED
    BY <2>1, <1>3, <1>4
<1>6. HeadOK(g) /\ Len(g) <= HeadLen
  BY <1>1, <1>3 DEF g
<1>7. DataOK(g)
  BY <1>1, <1>5, <1>6, NoDataYet
<1>8. SizeOK(g)
  <2>1. DataStart \in Nat /\ HeadLen <= DataStart
    BY <1>1, DbFacts
  <2>2. 2 + N <= Len(g) => EndIn(g) \in Nat /\ EndIn(g) >= DataStart
    BY <1>1, <1>6, PlacesInside
  <2> QED
    BY <1>1, <1>3, <1>6, <2>1, <2>2 DEF SizeOK
<1> QED
  BY <1>6, <1>7, <1>8 DEF FileOK, g

-----------------------------------------------------------------------------
(* The steps of pdb_Write                                                  *)

LEMMA HeaderStep == ASSUME WriteInv, WriteHeader PROVE WriteInv'
<1>1. /\ db \in Databases /\ nuls \in {0, 1} /\ FileOK(file)
      /\ file = <<>> /\ Len(file) = 0 /\ offset = HeadLen /\ i = 1
  BY DEF WriteInv, Written, WriteHeader
<1>2. Header = TheHeader
  BY <1>1 DEF Header, TheHeader
<1>3. TheHeader \in Unit /\ TheHeader.kind = "header"
  <2>1. db.res \in BOOLEAN /\ HeadLen \in Nat /\ Size(db.app) \in Nat
    BY <1>1, DbFacts
  <2> QED
    BY <2>1 DEF TheHeader, Unit, HeaderUnit
<1>4. <<TheHeader>> \in Seq(Unit) /\ Len(<<TheHeader>>) = 1 /\ <<TheHeader>>[1] = TheHeader
  BY <1>3, OneUnit
<1>5. file \o <<TheHeader>> = <<TheHeader>>
  BY <1>1, <1>4, ConcatEmptySeq
<1>6. N \in Nat /\ HeadLen \in Nat /\ HeadLen >= 2
  BY <1>1, DbFacts
<1>7. HeadOK(<<TheHeader>>)
  BY <1>4, <1>6 DEF HeadOK, IndexOK
<1>8. FileOK(file \o <<TheHeader>>)
  BY <1>1, <1>3, <1>5, <1>6, <1>7, HeadAdded
<1>9. CASE CutShort(<<Header>>)
  BY <1>2, <1>4, <1>8, <1>9, CutShortOK
<1>10. CASE /\ Writes(<<Header>>) /\ at' = "write_list"
            /\ offset' = offset + Size(db.app) + Size(db.sort) /\ UNCHANGED <<db, nuls, i, got>>
  <2>1. file' = file \o <<TheHeader>> /\ Len(file') = 1
    BY <1>2, <1>4, <1>5, <1>10 DEF Writes
  <2>2. FileOK(file)'
    BY <2>1, <1>8, <1>10, SameShape
  <2>3. offset' = DataStart /\ DataStart' = DataStart
    BY <1>1, <1>10 DEF DataStart, HeadLen, N, Size
  <2> QED
    BY <1>1, <1>10, <2>1, <2>2, <2>3 DEF WriteInv, Written
<1> QED
  BY <1>9, <1>10 DEF WriteHeader

LEMMA ListStep == ASSUME WriteInv, WriteList PROVE WriteInv'
<1> DEFINE u == [kind |-> "list", n |-> N]
<1>1. /\ db \in Databases /\ nuls \in {0, 1} /\ FileOK(file)
      /\ Len(file) = 1 /\ offset = DataStart /\ i = 1
  BY DEF WriteInv, Written, WriteList
<1>2. N \in Nat /\ HeadLen \in Nat /\ HeadLen >= 2 + N
  BY <1>1, DbFacts
<1>3. u \in Unit /\ u.kind # "byte"
  BY <1>2 DEF Unit, ListUnit
<1> HIDE DEF u
<1>4. <<u>> \in Seq(Unit)
  BY <1>3, OneUnit
<1>5. /\ file \o <<u>> \in Seq(Unit) /\ Len(file \o <<u>>) = 2
      /\ (file \o <<u>>)[1] = file[1] /\ (file \o <<u>>)[2] = u
  BY <1>1, <1>3, AddedOne
<1>6. HeadOK(file \o <<u>>)
  <2>1. file[1] = TheHeader
    BY <1>1 DEF FileOK, HeadOK
  <2>2. IndexOK(file \o <<u>>)
    BY <1>2, <1>5 DEF IndexOK
  <2> QED
    BY <1>5, <2>1, <2>2 DEF HeadOK, u
<1>7. FileOK(file \o <<u>>)
  BY <1>1, <1>2, <1>3, <1>6, HeadAdded
<1>8. \/ Writes(<<u>>) /\ at' = "write_index" /\ UNCHANGED <<db, nuls, i, offset, got>>
      \/ CutShort(<<u>>)
  BY DEF WriteList, N, u
<1>9. CASE CutShort(<<u>>)
  BY <1>4, <1>7, <1>9, CutShortOK
<1>10. CASE Writes(<<u>>) /\ at' = "write_index" /\ UNCHANGED <<db, nuls, i, offset, got>>
  <2>1. file' = file \o <<u>> /\ Len(file') = 2
    BY <1>5, <1>10 DEF Writes
  <2>2. FileOK(file)'
    BY <2>1, <1>7, <1>10, SameShape
  <2>3. EndOf(0)' = DataStart' /\ DataStart' = DataStart /\ N' = N
    BY <1>10 DEF EndOf, DataStart, HeadLen, N, Size
  <2>4. (EndOf(i - 1))' = DataStart
    BY <1>1, <1>10, <2>3 DEF EndOf
  <2> QED
    BY <1>1, <1>2, <1>10, <2>1, <2>2, <2>3, <2>4 DEF WriteInv, Written
<1> QED
  BY <1>8, <1>9, <1>10

(* An entry of the index is what it should be.                             *)
LEMMA EntryFacts ==
    ASSUME db \in Databases, nuls \in {0, 1}, NEW k \in 1 .. N, NEW off \in Nat
    PROVE  TheEntry(k, off) \in Unit /\ TheEntry(k, off).kind = "entry" /\ TheEntry(k, off).off = off
<1>1. /\ db.res \in BOOLEAN
      /\ db.recs[k].flags \in SUBSET (Top \union {ARCHIVE}) /\ db.recs[k].cat \in 0 .. 15
      /\ db.recs[k].id \in Nat
  BY DbFacts
<1>2. merge_attributes(db.recs[k].flags, db.recs[k].cat) \in Attr
  BY <1>1 DEF merge_attributes, Attr
<1>3. db.recs[k].id % IdSpan \in Nat
  BY <1>1, PdbFileAssumption
<1> QED
  BY <1>1, <1>2, <1>3 DEF TheEntry, Unit, RsrcEntry, RecEntry

LEMMA IndexStep == ASSUME WriteInv, WriteEntry PROVE WriteInv'
<1>1. /\ db \in Databases /\ nuls \in {0, 1} /\ FileOK(file) /\ at = "write_index"
      /\ Len(file) = i + 1 /\ i \in 1 .. (N + 1) /\ offset = EndOf(i - 1)
  BY DEF WriteInv, Written, WriteEntry
<1>2. N \in Nat /\ HeadLen \in Nat /\ HeadLen >= 2 + N /\ N = Len(db.recs) /\ DataStart \in Nat
  BY <1>1, DbFacts DEF N
<1>3. IndexOK(file) /\ file[1] = TheHeader /\ file[2] = [kind |-> "list", n |-> N]
  BY <1>1, <1>2 DEF FileOK, HeadOK
<1>4. CASE i > N
  <2>1. at' = "write_nuls" /\ i' = 1 /\ UNCHANGED <<db, nuls, file, offset, got>>
    BY <1>2, <1>4 DEF WriteEntry
  <2>2. FileOK(file)' /\ (EndOf(N))' = EndOf(N) /\ N' = N
    BY <1>1, <2>1, SameShape DEF EndOf, DataStart, HeadLen, N, Size
  <2>3. i - 1 = N
    BY <1>1, <1>2, <1>4
  <2> QED
    BY <1>1, <1>2, <2>1, <2>2, <2>3 DEF WriteInv, Written
<1>5. CASE i <= N
  <2> DEFINE u == TheEntry(i, offset)
             g == file \o <<u>>
  <2>1. i \in 1 .. N /\ i \in Nat
    BY <1>1, <1>2, <1>5
  <2>2. ASSUME NEW k \in 1 .. N, k < i
        PROVE  /\ file[k + 2].off \in Nat /\ k + 2 <= Len(file) /\ db.recs[k].len \in Nat
               /\ file[k + 2] = TheEntry(k, file[k + 2].off)
    <3>1. k + 2 <= Len(file)
      BY <1>1, <1>2, <2>1, <2>2
    <3>2. file[k + 2].off \in Nat /\ file[k + 2] = TheEntry(k, file[k + 2].off)
      BY <1>3, <3>1 DEF IndexOK
    <3>3. db.recs[k].len \in Nat
      BY <1>1, DbFacts
    <3> QED
      BY <3>1, <3>2, <3>3
  <2>3. /\ i = 1 => offset = DataStart
        /\ i > 1 => i - 1 \in 1 .. N /\ offset = file[i + 1].off + db.recs[i - 1].len
    <3>1. i - 1 + 2 = i + 1 /\ (i > 1 => i - 1 # 0 /\ i - 1 \in 1 .. N)
      BY <1>2, <2>1
    <3> QED
      BY <1>1, <2>1, <3>1 DEF EndOf
  <2>4. offset \in Nat
    <3>1. CASE i = 1
      BY <1>2, <2>3, <3>1
    <3>2. CASE i > 1
      <4>1. i - 1 \in 1 .. N /\ i - 1 < i /\ i - 1 + 2 = i + 1
        BY <2>1, <2>3, <3>2
      <4>2. file[i + 1].off \in Nat /\ db.recs[i - 1].len \in Nat
        BY <4>1, <2>2
      <4> QED
        BY <4>2, <2>3, <3>2
    <3> QED
      BY <2>1, <3>1, <3>2
  <2>5. Entry(db.recs[i]) = u
    BY DEF Entry, TheEntry
  <2>6. u \in Unit /\ u.kind = "entry" /\ u.off = offset
    BY <1>1, <2>1, <2>4, EntryFacts
  <2> HIDE DEF u
  <2>7. <<u>> \in Seq(Unit)
    BY <2>6, OneUnit
  <2>8. /\ g \in Seq(Unit) /\ Len(g) = i + 2 /\ g[i + 2] = u
        /\ \A p \in 1 .. i + 1 : g[p] = file[p]
    <3>1. /\ g \in Seq(Unit) /\ Len(g) = Len(file) + 1
          /\ \A p \in 1 .. Len(file) : g[p] = file[p]
          /\ g[Len(file) + 1] = u
      BY <1>1, <2>6, AddedOne
    <3>2. Len(file) = i + 1 /\ i + 1 + 1 = i + 2
      BY <1>1, <2>1
    <3> QED
      BY <3>1, <3>2
  <2> HIDE DEF g
  <2>9. \A k \in 1 .. N : k < i => g[k + 2] = file[k + 2]
    BY <2>1, <2>8
  <2>10. IndexOK(g)
    <3>1. ASSUME NEW k \in 1 .. N, k + 2 <= Len(g)
          PROVE  g[k + 2].off \in Nat /\ g[k + 2] = TheEntry(k, g[k + 2].off)
      <4>1. k < i \/ k = i
        BY <2>1, <2>8, <3>1
      <4>2. CASE k < i
        BY <2>2, <2>9, <4>2
      <4>3. CASE k = i
        BY <2>4, <2>6, <2>8, <4>3 DEF u
      <4> QED
        BY <4>1, <4>2, <4>3
    <3>2. N > 0 => g[3].off = DataStart
      <4>1. CASE i = 1
        BY <2>3, <2>6, <2>8, <4>1
      <4>2. CASE i > 1
        <5>1. g[3] = file[3] /\ 3 <= Len(file)
          BY <1>1, <2>1, <2>8, <4>2
        <5> QED
          BY <5>1, <1>3 DEF IndexOK
      <4> QED
        BY <2>1, <4>1, <4>2
    <3>3. ASSUME NEW k \in 1 .. N, k < N, k + 3 <= Len(g)
          PROVE  g[k + 3].off = g[k + 2].off + db.recs[k].len
      <4>1. CASE k + 3 = i + 2
        <5>1. k = i - 1 /\ i > 1 /\ k + 2 = i + 1
          BY <4>1, <2>1
        <5> QED
          BY <4>1, <5>1, <2>1, <2>3, <2>6, <2>8
      <4>2. CASE k + 3 < i + 2
        <5>1. k + 3 <= Len(file) /\ g[k + 3] = file[k + 3] /\ g[k + 2] = file[k + 2]
          BY <1>1, <2>1, <2>8, <4>2
        <5> QED
          BY <3>3, <5>1, <1>3 DEF IndexOK
      <4> QED
        BY <2>1, <2>8, <3>3, <4>1, <4>2
    <3>4. ASSUME NEW j \in 1 .. N, NEW k \in 1 .. N, j < k, k + 2 <= Len(g)
          PROVE  g[j + 2].off + db.recs[j].len <= g[k + 2].off
      <4>1. k <= i /\ j < i /\ g[j + 2] = file[j + 2]
        BY <2>1, <2>8, <2>9, <3>4
      <4>2. CASE k < i
        <5>1. g[k + 2] = file[k + 2] /\ k + 2 <= Len(file)
          BY <2>2, <2>9, <4>2
        <5> QED
          BY <1>3, <3>4, <4>1, <5>1 DEF IndexOK
      <4>3. CASE k = i
        <5>1. i > 1 /\ i - 1 \in 1 .. N /\ i - 1 < i /\ i - 1 + 2 = i + 1
          BY <1>2, <2>1, <3>4, <4>3
        <5>5. g[k + 2].off = offset
          BY <2>6, <2>8, <4>3
        <5>2. /\ file[i + 1].off \in Nat /\ i + 1 <= Len(file) /\ db.recs[i - 1].len \in Nat
              /\ file[j + 2].off \in Nat /\ db.recs[j].len \in Nat
          BY <2>2, <4>1, <5>1
        <5>3. CASE j = i - 1
          <6>1. j + 2 = i + 1
            BY <5>1, <5>3
          <6> QED
            BY <2>3, <2>4, <4>1, <5>1, <5>2, <5>3, <5>5, <6>1
        <5>4. CASE j < i - 1
          <6>1. file[j + 2].off + db.recs[j].len <= file[i + 1].off
            <7>1. i - 1 + 2 <= Len(file)
              BY <5>1, <5>2
            <7>2. file[j + 2].off + db.recs[j].len <= file[i - 1 + 2].off
              BY <1>3, <5>1, <5>4, <7>1 DEF IndexOK
            <7> QED
              BY <5>1, <7>2
          <6> QED
            <7>1. offset = file[i + 1].off + db.recs[i - 1].len
              BY <2>3, <5>1
            <7>2. PICK a \in Nat, b \in Nat, c \in Nat, d \in Nat :
                     /\ a = file[j + 2].off /\ b = db.recs[j].len
                     /\ c = file[i + 1].off /\ d = db.recs[i - 1].len
              BY <5>2
            <7>3. a + b <= c
              BY <6>1, <7>2
            <7>4. a + b <= c + d
              BY <7>3
            <7>5. file[j + 2].off + db.recs[j].len <= offset
              BY <7>1, <7>2, <7>4
            <7> QED
              BY <4>1, <5>5, <7>5
        <5> QED
          BY <2>1, <3>4, <4>3, <5>3, <5>4
      <4> QED
        BY <2>1, <4>1, <4>2, <4>3
    <3> QED
      BY <2>8, <3>1, <3>2, <3>3, <3>4 DEF IndexOK
  <2>11. HeadOK(g)
    <3>1. g[1] = TheHeader /\ g[2] = [kind |-> "list", n |-> N]
      BY <1>3, <2>1, <2>8
    <3> QED
      BY <2>8, <2>10, <3>1 DEF HeadOK
  <2>12. FileOK(g)
    BY <1>1, <1>2, <2>1, <2>6, <2>11, HeadAdded DEF g
  <2>13. CASE CutShort(<<u>>)
    BY <2>7, <2>12, <2>13, CutShortOK DEF g
  <2>14. CASE /\ Writes(<<u>>) /\ i' = i + 1 /\ offset' = offset + db.recs[i].len
              /\ UNCHANGED <<db, nuls, at, got>>
    <3>1. file' = g /\ Len(file') = i' + 1
      BY <2>1, <2>8, <2>14 DEF Writes, g
    <3>2. FileOK(file)' /\ N' = N
      BY <3>1, <2>12, <2>14, SameShape DEF N
    <3>3. (EndOf(i - 1))' = offset'
      <4>1. i' - 1 = i /\ i # 0
        BY <2>1, <2>14
      <4> QED
        BY <2>6, <2>8, <2>14, <3>1, <4>1 DEF EndOf
    <3>4. i' \in 1 .. (N' + 1)
      BY <1>2, <2>1, <2>14, <3>2
    <3> QED
      BY <1>1, <2>14, <3>1, <3>2, <3>3, <3>4 DEF WriteInv, Written
  <2>15. \/ /\ Writes(<<u>>) /\ i' = i + 1 /\ offset' = offset + db.recs[i].len
            /\ UNCHANGED <<db, nuls, at, got>>
         \/ CutShort(<<u>>)
    BY <1>2, <1>5, <2>1, <2>5 DEF WriteEntry
  <2> QED
    BY <2>13, <2>14, <2>15
<1> QED
  BY <1>1, <1>2, <1>4, <1>5

(* A step that leaves the file alone, and the invariant with it.           *)
LEMMA SameFile ==
    ASSUME WriteInv, UNCHANGED <<db, nuls, file>>
    PROVE  /\ db' \in Databases /\ nuls' \in {0, 1} /\ FileOK(file)' /\ N' = N /\ HeadLen' = HeadLen
           /\ DataStart' = DataStart /\ \A m \in 0 .. N : EndOf(m)' = EndOf(m)
<1>1. FileOK(file')
  BY DEF WriteInv
<1>2. FileOK(file)'
  BY <1>1, SameShape
<1> QED
  BY <1>2 DEF WriteInv, N, HeadLen, DataStart, Size, EndOf

(* Data that are added leave the head as it was.                           *)
LEMMA SameHead ==
    ASSUME WriteInv, UNCHANGED <<db, nuls>>, NEW units \in Seq(Unit), FileOK(file \o units),
           file' = file \o units, 2 + N <= Len(file)
    PROVE  /\ db' \in Databases /\ nuls' \in {0, 1} /\ FileOK(file)' /\ N' = N /\ HeadLen' = HeadLen
           /\ Size(db.app)' = Size(db.app) /\ Size(db.sort)' = Size(db.sort)
           /\ DataStart' = DataStart /\ \A m \in 0 .. N : EndOf(m)' = EndOf(m)
           /\ Len(file') = Len(file) + Len(units)
<1>1. FileOK(file)'
  BY SameShape
<1>2. FileOK(file) /\ N \in Nat
  BY DbFacts DEF WriteInv
<1>3. Len(file') = Len(file) + Len(units) /\ \A p \in 1 .. Len(file) : file'[p] = file[p]
  BY <1>2, Added
<1>4. \A m \in 0 .. N : m # 0 => file'[m + 2] = file[m + 2]
  BY <1>2, <1>3, Added
<1>5. N' = N /\ HeadLen' = HeadLen /\ DataStart' = DataStart /\ db' = db
      /\ Size(db.app)' = Size(db.app) /\ Size(db.sort)' = Size(db.sort)
  BY DEF N, HeadLen, DataStart, Size
<1>6. \A m \in 0 .. N : EndOf(m)' = EndOf(m)
  BY <1>4, <1>5 DEF EndOf
<1> QED
  BY <1>1, <1>3, <1>5, <1>6 DEF WriteInv

LEMMA NulsStep == ASSUME WriteInv, WriteNuls PROVE WriteInv'
<1> DEFINE pair == [k \in 1 .. nuls |-> [kind |-> "nuls"]]
<1>1. /\ db \in Databases /\ nuls \in {0, 1} /\ FileOK(file) /\ at = "write_nuls"
      /\ Len(file) = 2 + N /\ i = 1 /\ offset = EndOf(N)
  BY DEF WriteInv, Written, WriteNuls
<1>2. N \in Nat /\ HeadLen = 2 + N + nuls /\ HeadLen \in Nat
  BY <1>1, DbFacts DEF HeadLen
<1>3. pair \in Seq(Unit) /\ Len(pair) = nuls /\ FileOK(file \o pair)
  <2>1. CASE nuls = 0
    <3>1. pair = <<>>
      BY <2>1
    <3>2. file \o <<>> = file
      BY <1>1, ConcatEmptySeq DEF FileOK, HeadOK
    <3> QED
      BY <1>1, <2>1, <3>1, <3>2
  <2>2. CASE nuls = 1
    <3> DEFINE u == [kind |-> "nuls"]
    <3>1. pair = <<u>>
      <4>1. DOMAIN pair = 1 .. 1 /\ DOMAIN <<u>> = 1 .. 1 /\ pair[1] = u /\ <<u>>[1] = u
        BY <2>2
      <4> QED
        BY <4>1, <2>2
    <3>2. u \in Unit /\ u.kind # "byte"
      BY DEF Unit, NulsUnit
    <3> HIDE DEF u, pair
    <3>3. <<u>> \in Seq(Unit) /\ Len(<<u>>) = 1
      BY <3>2, OneUnit
    <3>4. /\ file \o <<u>> \in Seq(Unit) /\ Len(file \o <<u>>) = 3 + N
          /\ \A p \in 1 .. 2 + N : (file \o <<u>>)[p] = file[p]
      BY <1>1, <1>2, <3>2, AddedOne
    <3>5. HeadOK(file \o <<u>>)
      <4>1. FileOK(file) /\ IndexOK(file) /\ file[1] = TheHeader
            /\ file[2] = [kind |-> "list", n |-> N]
        BY <1>1, <1>2 DEF FileOK, HeadOK
      <4>2. \A k \in 1 .. N : (file \o <<u>>)[k + 2] = file[k + 2] /\ k + 2 <= Len(file)
        BY <1>1, <1>2, <3>4
      <4>3. \A k \in 1 .. N : k < N => (file \o <<u>>)[k + 3] = file[k + 3] /\ k + 3 <= Len(file)
        BY <1>1, <1>2, <3>4
      <4>4. N > 0 => (file \o <<u>>)[3] = file[3] /\ 3 <= Len(file)
        BY <1>1, <1>2, <3>4
      <4>5. (file \o <<u>>)[1] = file[1] /\ (file \o <<u>>)[2] = file[2]
        BY <1>2, <3>4
      <4>6. IndexOK(file \o <<u>>)
        <5>1. \A k \in 1 .. N : (file \o <<u>>)[k + 2].off \in Nat
                 /\ (file \o <<u>>)[k + 2] = TheEntry(k, (file \o <<u>>)[k + 2].off)
          BY <4>1, <4>2 DEF IndexOK
        <5>2. N > 0 => (file \o <<u>>)[3].off = DataStart
          BY <4>1, <4>4 DEF IndexOK
        <5>3. \A k \in 1 .. N : k < N => (file \o <<u>>)[k + 3].off = (file \o <<u>>)[k + 2].off + db.recs[k].len
          BY <4>1, <4>2, <4>3 DEF IndexOK
        <5>4. \A j, k \in 1 .. N : j < k => (file \o <<u>>)[j + 2].off + db.recs[j].len <= (file \o <<u>>)[k + 2].off
          BY <4>1, <4>2 DEF IndexOK
        <5> QED
          BY <5>1, <5>2, <5>3, <5>4 DEF IndexOK
      <4> QED
        BY <3>4, <4>1, <4>5, <4>6 DEF HeadOK
    <3>6. FileOK(file \o <<u>>)
      BY <1>1, <1>2, <2>2, <3>2, <3>5, HeadAdded
    <3> QED
      BY <2>2, <3>1, <3>3, <3>6
  <2> QED
    BY <1>1, <2>1, <2>2
<1>4. \/ Writes(pair) /\ at' = "write_app" /\ UNCHANGED <<db, nuls, i, offset, got>>
      \/ CutShort(pair)
  BY DEF WriteNuls
<1> HIDE DEF pair
<1>5. CASE CutShort(pair)
  BY <1>3, <1>5, CutShortOK
<1>6. CASE Writes(pair) /\ at' = "write_app" /\ UNCHANGED <<db, nuls, i, offset, got>>
  <2>1. file' = file \o pair
    BY <1>6 DEF Writes
  <2>2. /\ db' \in Databases /\ nuls' \in {0, 1} /\ FileOK(file)' /\ N' = N /\ HeadLen' = HeadLen
        /\ (EndOf(N))' = EndOf(N) /\ Len(file') = Len(file) + Len(pair)
    <3>1. 2 + N <= Len(file)
      BY <1>1, <1>2
    <3>2. /\ db' \in Databases /\ nuls' \in {0, 1} /\ FileOK(file)' /\ N' = N /\ HeadLen' = HeadLen
          /\ \A m \in 0 .. N : EndOf(m)' = EndOf(m)
          /\ Len(file') = Len(file) + Len(pair)
      BY <1>3, <1>6, <2>1, <3>1, SameHead
    <3> QED
      BY <1>2, <3>2 DEF EndOf
  <2> QED
    BY <1>1, <1>2, <1>3, <1>6, <2>2 DEF WriteInv, Written
<1> QED
  BY <1>4, <1>5, <1>6

(* Where the item is to go that is written next.                           *)
LEMMA NextPlace ==
    ASSUME WriteInv, 2 + N <= Len(file)
    PROVE  /\ ItemLen(AppItem) = Size(db.app) /\ ItemLen(SortItem) = Size(db.sort)
           /\ ItemLen(AppItem) > 0 => PlaceIn(file, AppItem) = HeadLen
           /\ ItemLen(SortItem) > 0 => PlaceIn(file, SortItem) = HeadLen + Size(db.app)
           /\ \A k \in 1 .. N : /\ RecItem(k) \in Items /\ ItemLen(RecItem(k)) = db.recs[k].len
                                 /\ PlaceIn(file, RecItem(k)) = EndOf(k - 1)
                                 /\ EndOf(k - 1) \in Nat
                                 /\ EndOf(k) = EndOf(k - 1) + db.recs[k].len
           /\ AppItem \in Items /\ SortItem \in Items /\ EndOf(0) = DataStart
<1>1. /\ db \in Databases /\ nuls \in {0, 1} /\ N \in Nat /\ Len(file) \in Nat
      /\ file[1] = TheHeader /\ IndexOK(file)
  <2>1. db \in Databases /\ nuls \in {0, 1} /\ FileOK(file)
    BY DEF WriteInv
  <2>2. N \in Nat /\ file \in Seq(Unit)
    BY <2>1, DbFacts DEF FileOK, HeadOK
  <2>3. Len(file) \in Nat
    BY <2>2, LenProperties
  <2> QED
    BY <2>1, <2>2, <2>3 DEF FileOK, HeadOK
<1>2. db.app = NULL \/ db.app \in Nat
  BY <1>1, DbFacts
<1>3. db.sort = NULL \/ db.sort \in Nat
  BY <1>1, DbFacts
<1>4. /\ ItemLen(AppItem) = Size(db.app) /\ ItemLen(SortItem) = Size(db.sort)
      /\ ItemLen(AppItem) > 0 => PlaceIn(file, AppItem) = HeadLen
      /\ ItemLen(SortItem) > 0 => PlaceIn(file, SortItem) = HeadLen + Size(db.app)
  BY <1>1, <1>2, <1>3 DEF ItemLen, PlaceIn, AppItem, SortItem, TheHeader, Size
<1>5. AppItem \in Items /\ SortItem \in Items /\ EndOf(0) = DataStart
  BY <1>1 DEF AppItem, SortItem, Items, EndOf
<1>6. ASSUME NEW k \in 1 .. N
      PROVE  /\ RecItem(k) \in Items /\ ItemLen(RecItem(k)) = db.recs[k].len
             /\ PlaceIn(file, RecItem(k)) = EndOf(k - 1)
             /\ EndOf(k - 1) \in Nat
             /\ EndOf(k) = EndOf(k - 1) + db.recs[k].len
  <2>1. RecItem(k) = k + 2 /\ k + 2 \in Items /\ k + 2 # 1 /\ k + 2 # 2 /\ k + 2 - 2 = k /\ k # 0
    BY <1>1 DEF RecItem, Items
  <2>2. ItemLen(k + 2) = db.recs[k].len /\ PlaceIn(file, k + 2) = file[k + 2].off
    BY <2>1 DEF ItemLen, PlaceIn, AppItem, SortItem
  <2>3. EndOf(k) = file[k + 2].off + db.recs[k].len /\ file[k + 2].off \in Nat
    BY <1>1, <2>1 DEF EndOf, IndexOK
  <2>4. EndOf(k - 1) = file[k + 2].off
    <3>1. CASE k = 1
      <4>1. file[3].off = DataStart
        BY <1>1, <3>1 DEF IndexOK
      <4> QED
        BY <3>1, <4>1, <1>5
    <3>2. CASE k > 1
      <4>1. k - 1 \in 1 .. N /\ k - 1 < N /\ k - 1 + 3 = k + 2 /\ k - 1 + 2 = k + 1 /\ k - 1 + 3 <= Len(file)
            /\ k - 1 # 0
        BY <1>1, <3>2
      <4>2. file[k - 1 + 3].off = file[k - 1 + 2].off + db.recs[k - 1].len
        BY <1>1, <4>1 DEF IndexOK
      <4> QED
        BY <4>1, <4>2 DEF EndOf
    <3> QED
      BY <3>1, <3>2
  <2> QED
    BY <2>1, <2>2, <2>3, <2>4
<1> QED
  BY <1>4, <1>5, <1>6

(* The AppInfo block and the sort block.                                   *)
LEMMA AppStep ==
    ASSUME WriteInv, WriteBlock("write_app", AppItem, db.app, "write_sort")
    PROVE  WriteInv'
<1> DEFINE units == Bytes(AppItem, Size(db.app))
<1>1. /\ db \in Databases /\ nuls \in {0, 1} /\ FileOK(file) /\ at = "write_app"
      /\ Len(file) = HeadLen /\ i = 1 /\ offset = EndOf(N)
  BY DEF WriteInv, Written, WriteBlock
<1>2. N \in Nat /\ HeadLen \in Nat /\ HeadLen >= 2 + N /\ Size(db.app) \in Nat
  BY <1>1, DbFacts
<1>3. 2 + N <= Len(file) /\ HeadLen <= Len(file)
  BY <1>1, <1>2
<1>4. units \in Seq(Unit) /\ Len(units) = Size(db.app) /\ FileOK(file \o units)
  <2>1. /\ AppItem \in Items /\ ItemLen(AppItem) = Size(db.app)
        /\ ItemLen(AppItem) > 0 => PlaceIn(file, AppItem) = Len(file)
    BY <1>1, <1>3, NextPlace
  <2> QED
    BY <1>3, <2>1, DataAdded
<1>5. \/ Writes(units) /\ at' = "write_sort" /\ UNCHANGED <<db, nuls, i, offset, got>>
      \/ CutShort(units)
  BY DEF WriteBlock
<1> HIDE DEF units
<1>6. CASE CutShort(units)
  BY <1>4, <1>6, CutShortOK
<1>7. CASE Writes(units) /\ at' = "write_sort" /\ UNCHANGED <<db, nuls, i, offset, got>>
  <2>1. /\ db' \in Databases /\ nuls' \in {0, 1} /\ FileOK(file)' /\ N' = N /\ HeadLen' = HeadLen
        /\ Size(db.app)' = Size(db.app)
        /\ \A m \in 0 .. N : EndOf(m)' = EndOf(m)
        /\ Len(file') = Len(file) + Len(units)
    BY <1>3, <1>4, <1>7, SameHead DEF Writes
  <2>2. EndOf(N)' = EndOf(N)
    BY <1>2, <2>1 DEF EndOf
  <2>3. (EndOf(N))' = offset' /\ Len(file') = HeadLen' + Size(db.app)'
    BY <1>1, <1>4, <1>7, <2>1, <2>2
  <2> QED
    BY <1>1, <1>7, <2>1, <2>3 DEF WriteInv, Written
<1> QED
  BY <1>5, <1>6, <1>7

LEMMA SortStep ==
    ASSUME WriteInv, WriteBlock("write_sort", SortItem, db.sort, "write_data")
    PROVE  WriteInv'
<1> DEFINE units == Bytes(SortItem, Size(db.sort))
<1>1. /\ db \in Databases /\ nuls \in {0, 1} /\ FileOK(file) /\ at = "write_sort"
      /\ Len(file) = HeadLen + Size(db.app) /\ i = 1 /\ offset = EndOf(N)
  BY DEF WriteInv, Written, WriteBlock
<1>2. /\ N \in Nat /\ HeadLen \in Nat /\ HeadLen >= 2 + N /\ Size(db.app) \in Nat
      /\ Size(db.sort) \in Nat
  BY <1>1, DbFacts
<1>3. 2 + N <= Len(file) /\ HeadLen <= Len(file)
  BY <1>1, <1>2
<1>4. units \in Seq(Unit) /\ Len(units) = Size(db.sort) /\ FileOK(file \o units)
  <2>1. /\ SortItem \in Items /\ ItemLen(SortItem) = Size(db.sort)
        /\ ItemLen(SortItem) > 0 => PlaceIn(file, SortItem) = Len(file)
    BY <1>1, <1>3, NextPlace
  <2> QED
    BY <1>3, <2>1, DataAdded
<1>5. \/ Writes(units) /\ at' = "write_data" /\ UNCHANGED <<db, nuls, i, offset, got>>
      \/ CutShort(units)
  BY DEF WriteBlock
<1> HIDE DEF units
<1>6. CASE CutShort(units)
  BY <1>4, <1>6, CutShortOK
<1>7. CASE Writes(units) /\ at' = "write_data" /\ UNCHANGED <<db, nuls, i, offset, got>>
  <2>1. /\ db' \in Databases /\ nuls' \in {0, 1} /\ FileOK(file)' /\ N' = N
        /\ \A m \in 0 .. N : EndOf(m)' = EndOf(m)
        /\ Len(file') = Len(file) + Len(units)
    BY <1>3, <1>4, <1>7, SameHead DEF Writes
  <2>2. EndOf(N)' = EndOf(N) /\ EndOf(0)' = EndOf(0) /\ EndOf(0) = DataStart /\ DataStart' = DataStart
    <3>1. EndOf(0) = DataStart
      BY DEF EndOf
    <3>2. DataStart' = DataStart
      BY <1>7 DEF DataStart, HeadLen, N, Size
    <3> QED
      BY <1>2, <2>1, <3>1, <3>2 DEF EndOf
  <2>3. (EndOf(N))' = offset' /\ (EndOf(i - 1))' = EndOf(0)
    <3>1. i' - 1 = 0
      BY <1>1, <1>7
    <3> QED
      BY <1>1, <1>7, <2>1, <2>2, <3>1 DEF EndOf
  <2>4. Len(file') = EndOf(0)
    BY <1>1, <1>2, <1>4, <2>1, <2>2 DEF DataStart
  <2> QED
    BY <1>1, <1>2, <1>7, <2>1, <2>2, <2>3, <2>4 DEF WriteInv, Written
<1> QED
  BY <1>5, <1>6, <1>7

LEMMA DataStep == ASSUME WriteInv, WriteData PROVE WriteInv'
<1>1. /\ db \in Databases /\ nuls \in {0, 1} /\ FileOK(file) /\ at = "write_data"
      /\ Len(file) = EndOf(i - 1) /\ i \in 1 .. (N + 1) /\ offset = EndOf(N)
      /\ Len(file) >= DataStart
  BY DEF WriteInv, Written, WriteData
<1>2. /\ N \in Nat /\ HeadLen \in Nat /\ HeadLen >= 2 + N /\ DataStart \in Nat
      /\ DataStart >= HeadLen /\ N = Len(db.recs) /\ Len(file) \in Nat
  BY <1>1, DbFacts, LenProperties DEF FileOK, HeadOK, N
<1>3. CASE i > N
  <2>1. at' = "written" /\ UNCHANGED <<db, nuls, file>>
    BY <1>2, <1>3 DEF WriteData
  <2> QED
    BY <2>1, SameFile DEF WriteInv, Written
<1>4. CASE i <= N
  <2> DEFINE units == Bytes(RecItem(i), db.recs[i].len)
  <2>1. i \in 1 .. N
    BY <1>1, <1>2, <1>4
  <2>2. Len(file) >= DataStart
    BY <1>1
  <2>3. 2 + N <= Len(file) /\ HeadLen <= Len(file)
    BY <1>2, <2>2
  <2>4. units \in Seq(Unit) /\ Len(units) = db.recs[i].len /\ FileOK(file \o units)
    <3>1. /\ RecItem(i) \in Items /\ ItemLen(RecItem(i)) = db.recs[i].len
          /\ PlaceIn(file, RecItem(i)) = Len(file)
      BY <1>1, <2>1, <2>3, NextPlace
    <3> QED
      BY <2>3, <3>1, DataAdded
  <2>5. \/ Writes(units) /\ i' = i + 1 /\ UNCHANGED <<db, nuls, at, offset, got>>
        \/ CutShort(units)
    BY <1>2, <1>4, <2>1 DEF WriteData
  <2> HIDE DEF units
  <2>6. CASE CutShort(units)
    BY <2>4, <2>6, CutShortOK
  <2>7. CASE Writes(units) /\ i' = i + 1 /\ UNCHANGED <<db, nuls, at, offset, got>>
    <3>1. /\ db' \in Databases /\ nuls' \in {0, 1} /\ FileOK(file)' /\ N' = N
          /\ \A m \in 0 .. N : EndOf(m)' = EndOf(m)
          /\ Len(file') = Len(file) + Len(units)
      BY <2>3, <2>4, <2>7, SameHead DEF Writes
    <3>2. EndOf(N)' = EndOf(N)
      BY <1>2, <3>1 DEF EndOf
    <3>3. (EndOf(N))' = offset'
      BY <1>1, <2>7, <3>1, <3>2
    <3>4. Len(file') = EndOf(i)
      BY <1>1, <2>1, <2>3, <2>4, <3>1, NextPlace
    <3>5. i' - 1 = i /\ i' \in 1 .. (N' + 1)
      BY <1>2, <2>1, <2>7, <3>1
    <3>6. (EndOf(i - 1))' = EndOf(i)
      <4>1. PICK m \in 0 .. N : m = i
        BY <1>2, <2>1
      <4>2. EndOf(m)' = EndOf(m)
        BY <3>1
      <4> QED
        BY <3>5, <4>1, <4>2 DEF EndOf
    <3>7. Len(file') >= DataStart /\ DataStart' = DataStart
      <4>1. db.recs[i].len \in Nat
        BY <1>1, <2>1, DbFacts
      <4>2. DataStart' = DataStart
        BY <2>7 DEF DataStart, HeadLen, N, Size
      <4> QED
        BY <1>1, <1>2, <2>4, <3>1, <4>1, <4>2
    <3> QED
      BY <1>1, <2>7, <3>1, <3>3, <3>4, <3>5, <3>6, <3>7 DEF WriteInv, Written
  <2> QED
    BY <2>5, <2>6, <2>7
<1> QED
  BY <1>1, <1>2, <1>3, <1>4

-----------------------------------------------------------------------------
(* pdb_Read leaves the file alone.                                         *)
LEMMA ReadKeepsFile ==
    ASSUME Load
    PROVE  /\ UNCHANGED <<db, nuls, file, offset>>
           /\ at' \in ReadSteps \union {"refused", "done"}
BY DEF Load, OpenFile, LoadHeader, LoadRecListHeader, LoadIndex, LoadAppBlock, LoadSortBlock,
       LoadRecords, LoadRecord, Refuse, ToRead, ReadSteps

LEMMA WriteInvStep == ASSUME WriteInv, [Next]_fileVars PROVE WriteInv'
<1>1. CASE Write
  <2>1. CASE WriteBlock("write_app", AppItem, db.app, "write_sort")
    BY <2>1, AppStep
  <2>2. CASE WriteBlock("write_sort", SortItem, db.sort, "write_data")
    BY <2>2, SortStep
  <2> QED
    BY <1>1, <2>1, <2>2, HeaderStep, ListStep, IndexStep, NulsStep, DataStep DEF Write
<1>2. CASE Crash
  <2>1. UNCHANGED <<db, nuls, file>> /\ at' = "stopped"
    BY <1>2 DEF Crash
  <2> QED
    BY <2>1, SameFile DEF WriteInv, Written
<1>3. CASE Load
  <2>1. UNCHANGED <<db, nuls, file>> /\ at' \in ReadSteps \union {"refused", "done"}
    BY <1>3, ReadKeepsFile
  <2> QED
    BY <2>1, SameFile DEF WriteInv, Written, ReadSteps
<1>4. CASE UNCHANGED fileVars
  <2>1. UNCHANGED <<db, nuls, file, at, i, offset>>
    BY <1>4 DEF fileVars
  <2>2. FileOK(file)'
    BY <2>1, SameShape DEF WriteInv
  <2> QED
    BY <2>1, <2>2 DEF WriteInv, Written, EndOf, N, HeadLen, DataStart, Size
<1> QED
  BY <1>1, <1>2, <1>3, <1>4 DEF Next

LEMMA WriteInvInit == ASSUME Init PROVE WriteInv
<1>1. db \in Databases /\ nuls \in {0, 1} /\ file = <<>> /\ at = "write_header" /\ i = 1
      /\ offset = 2 + Len(db.recs) + nuls
  BY DEF Init
<1>2. N \in Nat /\ offset = HeadLen
  BY <1>1, DbFacts DEF HeadLen, N
<1>3. file \in Seq(Unit) /\ Len(file) = 0
  BY <1>1
<1>4. IndexOK(file) /\ DataOK(file) /\ SizeOK(file)
  BY <1>2, <1>3 DEF IndexOK, DataOK, SizeOK
<1>5. FileOK(file)
  BY <1>3, <1>4 DEF FileOK, HeadOK
<1> QED
  BY <1>1, <1>2, <1>5 DEF WriteInv, Written

(* At every moment the file holds a beginning of header, index and data    *)
(* that agree with the database, whatever was written when writing ended.  *)
THEOREM FileInvariant == Spec => []WriteInv
<1>1. Init => WriteInv
  BY WriteInvInit
<1>2. WriteInv /\ [Next]_fileVars => WriteInv'
  BY WriteInvStep
<1> QED
  BY <1>1, <1>2, PTL DEF Spec

LEMMA OffsetsFollow == ASSUME WriteInv PROVE OffsetsRight
<1>1. FileOK(file) /\ DOMAIN file = 1 .. Len(file)
  BY LenProperties DEF WriteInv, FileOK, HeadOK
<1> SUFFICES ASSUME NEW p \in DOMAIN file, file[p].kind = "byte"
    PROVE p = Place(file[p].item) + file[p].k
  BY DEF OffsetsRight
<1>2. p = PlaceIn(file, file[p].item) + file[p].k
  BY <1>1 DEF FileOK, DataOK
<1>3. PlaceIn(file, file[p].item) = Place(file[p].item)
  BY DEF PlaceIn, Place, AppItem, SortItem
<1> QED
  BY <1>2, <1>3

(* Every byte that pdb_Write puts into a file is where the header and the  *)
(* index say.                                                              *)
THEOREM BytesAreWhereTheIndexSays == Spec => []OffsetsRight
BY FileInvariant, OffsetsFollow, PTL

-----------------------------------------------------------------------------
(***************************************************************************)
(* What pdb_Read makes of a file that pdb_Write has written, wholly or in  *)
(* part: for every database, every place where the writing ended and every *)
(* width of the length that get_file_length returns.  ReadInv follows      *)
(* pdb_Read through any such file; WholeInv adds what holds of a complete  *)
(* one, whose length pdb_Write has counted.                                *)
(***************************************************************************)
(* The width of a uword.                                                   *)

LEMMA ModOf ==
    ASSUME NEW x \in Int
    PROVE  \E q, p \in Int : \E r \in 0 .. (Word - 1) :
              r = x % Word /\ p = Word * q /\ x = p + r
<1>1. Word \in Nat \ {0}
  BY PdbFileAssumption
<1>2. x % Word \in 0 .. (Word - 1)
  BY <1>1
<1>3. PICK q \in Int, p \in Int, r \in 0 .. (Word - 1) :
         q = x \div Word /\ p = Word * q /\ r = x % Word
  BY <1>1, <1>2
<1>4. x % Word = x - Word * q
  BY <1>1, <1>3
<1>5. r = x - p
  BY <1>3, <1>4
<1>6. x = p + r
  BY <1>1, <1>5
<1> QED
  BY <1>3, <1>6

LEMMA ModUnique ==
    ASSUME NEW r \in 0 .. (Word - 1), NEW q \in Int, NEW x \in Int, x = Word * q + r
    PROVE  x % Word = r
BY PdbFileAssumption

(* get_file_length is never too long, and right for files shorter than a   *)
(* uword can tell.                                                         *)
LEMMA FileSize ==
    ASSUME Len(file) \in Nat
    PROVE  /\ file_size \in Nat /\ file_size <= Len(file)
           /\ Len(file) < Word => file_size = Len(file)
<1>1. Word \in Nat \ {0}
  BY PdbFileAssumption
<1>2. Len(file) % Word \in 0 .. (Word - 1)
  BY <1>1
<1>3. Len(file) < Word => Len(file) % Word = Len(file)
  <2> SUFFICES ASSUME Len(file) < Word PROVE Len(file) % Word = Len(file)
    OBVIOUS
  <2>1. Len(file) \in 0 .. (Word - 1) /\ Len(file) = Word * 0 + Len(file)
    BY <1>1
  <2> QED
    BY <2>1, ModUnique
<1>4. CASE Len(file) < Word
  BY <1>2, <1>3, <1>4 DEF file_size
<1>5. CASE Len(file) >= Word
  BY <1>1, <1>2, <1>5 DEF file_size
<1> QED
  BY <1>1, <1>4, <1>5

(* The difference of the length of the file and an offset is right in a    *)
(* uword if there is so much left, although the length may not be.         *)
LEMMA LengthLeft ==
    ASSUME Len(file) \in Nat, NEW off \in Nat, NEW len \in 0 .. (Word - 1), Len(file) = off + len
    PROVE  (file_size - off) % Word = len
<1>1. Word \in Nat \ {0} /\ len \in Int
  BY PdbFileAssumption
<1>2. PICK q \in Int, p \in Int, m \in 0 .. (Word - 1) :
         m = Len(file) % Word /\ p = Word * q /\ Len(file) = p + m
  BY ModOf
<1>3. PICK r \in Int : r = Word * (0 - q) /\ r = 0 - p
  BY <1>1, <1>2
<1>4. m - off = r + len
  BY <1>1, <1>2, <1>3
<1>5. file_size = m
  BY <1>2 DEF file_size
<1>6. file_size - off = Word * (0 - q) + len /\ file_size - off \in Int /\ 0 - q \in Int
  BY <1>1, <1>2, <1>3, <1>4, <1>5
<1> QED
  BY <1>6, ModUnique

LEMMA LengthBetween ==
    ASSUME NEW off \in Nat, NEW len \in 0 .. (Word - 1)
    PROVE  (off + len - off) % Word = len
<1>1. Word \in Nat \ {0} /\ off + len - off = len /\ len \in Int /\ len = Word * 0 + len
  BY PdbFileAssumption
<1> QED
  BY <1>1, ModUnique

-----------------------------------------------------------------------------
LEMMA BytesTyped ==
    ASSUME NEW item \in Nat, NEW len \in Nat
    PROVE  Bytes(item, len) \in Seq(Unit) /\ Len(Bytes(item, len)) = len
<1>1. \A k \in 1 .. len : [kind |-> "byte", item |-> item, k |-> k] \in Unit
  BY DEF ByteUnit, Unit
<1> QED
  BY <1>1 DEF Bytes

(* What read(2) finds at the place of an item is a beginning of the item.  *)
LEMMA ReadsItem ==
    ASSUME db \in Databases, nuls \in {0, 1}, FileOK(file), 2 + N <= Len(file),
           NEW item \in Items, NEW len \in 0 .. ItemLen(item), Readable(PlaceIn(file, item), len)
    PROVE  /\ Read(PlaceIn(file, item), len) = Bytes(item, len)
           /\ StartOf(Bytes(item, len), Bytes(item, ItemLen(item)))
<1> DEFINE off == PlaceIn(file, item)
<1>1. off \in Nat /\ ItemLen(item) \in Nat /\ len \in Nat /\ len <= ItemLen(item)
  BY DbFacts, PlacesApart DEF FileOK
<1>2. file \in Seq(Unit) /\ Len(file) \in Nat /\ DataOK(file)
  BY LenProperties DEF FileOK, HeadOK
<1>3. Len(Bytes(item, len)) = len /\ Bytes(item, len) \in Seq(ByteUnit)
  <2>1. \A k \in 1 .. len : [kind |-> "byte", item |-> item, k |-> k] \in ByteUnit
    BY <1>1, DbFacts DEF ByteUnit, Items
  <2> QED
    BY <1>1, <2>1 DEF Bytes
<1>4. StartOf(Bytes(item, len), Bytes(item, ItemLen(item)))
  BY <1>1, <1>3 DEF StartOf, Bytes
<1>5. Read(off, len) = Bytes(item, len)
  <2>1. CASE len = 0
    BY <1>1, <1>2, <2>1 DEF Read, Bytes
  <2>2. CASE len > 0
    <3>1. off + len <= Len(file)
      BY <2>2, <1>1 DEF Readable
    <3>2. \A k \in 1 .. len : file[off + k] = [kind |-> "byte", item |-> item, k |-> k]
      BY <1>1, <1>2, <3>1 DEF DataOK
    <3>3. /\ Read(off, len) \in Seq(Unit) /\ Len(Read(off, len)) = len
          /\ \A k \in 1 .. len : Read(off, len)[k] = file[off + k]
      <4>1. PICK f \in Seq(Unit), a \in Nat, n \in Nat : f = file /\ a = off /\ n = len
        BY <1>1, <1>2
      <4>2. a + n <= Len(f) /\ Len(f) \in Nat /\ a + n \in Nat /\ a + 1 \in Nat
        BY <1>2, <3>1, <4>1
      <4>3. /\ SubSeq(f, a + 1, a + n) \in Seq(Unit) /\ Len(SubSeq(f, a + 1, a + n)) = n
            /\ \A k \in 1 .. n : SubSeq(f, a + 1, a + n)[k] = f[a + k]
        BY <4>2
      <4> QED
        BY <4>1, <4>3 DEF Read
    <3>4. /\ Bytes(item, len) \in Seq(Unit)
          /\ \A k \in 1 .. len : Bytes(item, len)[k] = [kind |-> "byte", item |-> item, k |-> k]
      BY <1>3 DEF Bytes, Unit
    <3> HIDE DEF off
    <3> QED
      BY <1>1, <1>3, <3>2, <3>3, <3>4, SeqEqual
  <2> QED
    BY <1>1, <2>1, <2>2
<1> QED
  BY <1>4, <1>5

(* Flags and category come back from their byte.                           *)
LEMMA AttributesComeBack ==
    ASSUME NEW flags \in SUBSET (Top \union {ARCHIVE}), NEW cat \in 0 .. 15
    PROVE  LET a == split_attributes(merge_attributes(flags, cat))
           IN  /\ a.flags = IF DELETED \in flags THEN flags ELSE flags \ {ARCHIVE}
               /\ a.cat = IF DELETED \in flags THEN 0 ELSE cat
<1>1. ARCHIVE \notin Top /\ DELETED \in Top
  BY DEF ARCHIVE, Top, DELETED
<1>2. (8 \div 8) % 2 = 1 /\ (0 \div 8) % 2 = 0
  OBVIOUS
<1>3. CASE DELETED \notin flags
  <2>1. flags \intersect Top = flags \ {ARCHIVE}
    BY <1>1
  <2> QED
    BY <1>1, <1>3, <2>1 DEF split_attributes, merge_attributes
<1>4. CASE DELETED \in flags /\ ARCHIVE \in flags
  <2>1. (flags \intersect Top) \union {ARCHIVE} = flags
    BY <1>1, <1>4
  <2> QED
    BY <1>1, <1>2, <1>4, <2>1 DEF split_attributes, merge_attributes
<1>5. CASE DELETED \in flags /\ ARCHIVE \notin flags
  <2>1. (flags \intersect Top) \union {} = flags
    BY <1>1, <1>5
  <2> QED
    BY <1>1, <1>2, <1>5, <2>1 DEF split_attributes, merge_attributes
<1> QED
  BY <1>3, <1>4, <1>5

-----------------------------------------------------------------------------
(* What pdb_Read has of the file, step by step.                            *)

GotRec == [off : Nat, flags : SUBSET (Top \union {ARCHIVE}), cat : 0 .. 15, id : Nat,
           data : Seq(Unit)]
GotType == [res : BOOLEAN, n : Nat, appOff : Nat, sortOff : Nat, app : Seq(Unit),
            sort : Seq(Unit), recs : Seq(GotRec)]

PastSort   == {"read_data", "done"}
PastApp    == {"read_sort"} \union PastSort
PastIndex  == {"read_app"} \union PastApp
PastList   == {"read_index"} \union PastIndex
PastHeader == {"read_list"} \union PastList

HeaderRead ==
    /\ Len(file) >= 1
    /\ got.res = db.res /\ got.appOff = TheHeader.app /\ got.sortOff = TheHeader.sort
ListRead     == Len(file) >= 2 /\ got.n = N
EntryRead(k) == got.recs[k].off = file[k + 2].off /\ SameEntry(k)

(* m entries have been read.                                               *)
EntriesRead(m) == Len(got.recs) = m /\ Len(file) >= m + 2 /\ \A k \in 1 .. m : EntryRead(k)

AppRead ==
    IF N > 0 \/ db.sort # NULL THEN SameApp
    ELSE StartOf(got.app, Bytes(AppItem, Size(db.app)))
SortRead == IF N > 0 THEN SameSort ELSE StartOf(got.sort, Bytes(SortItem, Size(db.sort)))
DataRead(k) ==
    IF k < N THEN SameData(k)
    ELSE StartOf(got.recs[k].data, Bytes(RecItem(k), db.recs[k].len))

ReadInv ==
    /\ got \in GotType
    /\ at \notin PastHeader \union {"refused"} => got = Nothing
    /\ at \in {"read_header", "read_list"} => i = 1 /\ got.recs = <<>>
    /\ at \in PastHeader   => HeaderRead
    /\ at \in PastList     => ListRead
    /\ at = "read_index"   => i \in 1 .. (N + 1) /\ EntriesRead(i - 1)
    /\ at \in PastIndex    => EntriesRead(N)
    /\ at \in {"read_app", "read_sort"} => i = 1
    /\ at \in PastApp      => AppRead
    /\ at \in PastSort     => SortRead
    /\ at = "read_data"    => i \in 1 .. (N + 1) /\ \A k \in 1 .. (i - 1) : DataRead(k)
    /\ at = "done"         => \A k \in 1 .. N : DataRead(k)

(* What has been read stays so while the rest is read.                     *)
LEMMA HeaderStays ==
    ASSUME UNCHANGED <<db, nuls, file>>, HeaderRead,
           got'.res = got.res, got'.appOff = got.appOff, got'.sortOff = got.sortOff
    PROVE  HeaderRead'
BY DEF HeaderRead, TheHeader, HeadLen, N, Size

LEMMA ListStays ==
    ASSUME UNCHANGED <<db, nuls, file>>, ListRead, got'.n = got.n
    PROVE  ListRead'
BY DEF ListRead, N

LEMMA EntryStays ==
    ASSUME UNCHANGED <<db, nuls, file>>, NEW k, EntryRead(k),
           got'.recs[k].off = got.recs[k].off, got'.recs[k].flags = got.recs[k].flags,
           got'.recs[k].cat = got.recs[k].cat, got'.recs[k].id = got.recs[k].id
    PROVE  EntryRead(k)'
BY DEF EntryRead, SameEntry, Kept

LEMMA EntriesStay ==
    ASSUME UNCHANGED <<db, nuls, file>>, NEW m, EntriesRead(m), Len(got'.recs) = Len(got.recs),
           \A k \in 1 .. m :
              /\ got'.recs[k].off = got.recs[k].off /\ got'.recs[k].flags = got.recs[k].flags
              /\ got'.recs[k].cat = got.recs[k].cat /\ got'.recs[k].id = got.recs[k].id
    PROVE  EntriesRead(m)'
<1>1. \A k \in 1 .. m : EntryRead(k)'
  BY EntryStays DEF EntriesRead
<1> QED
  BY <1>1 DEF EntriesRead

LEMMA AppStays ==
    ASSUME UNCHANGED <<db, nuls, file>>, AppRead, got'.app = got.app
    PROVE  AppRead'
BY DEF AppRead, SameApp, StartOf, N, Bytes, Size

LEMMA SortStays ==
    ASSUME UNCHANGED <<db, nuls, file>>, SortRead, got'.sort = got.sort
    PROVE  SortRead'
BY DEF SortRead, SameSort, StartOf, N, Bytes, Size

LEMMA DataStays ==
    ASSUME UNCHANGED <<db, nuls, file>>, NEW k, DataRead(k),
           got'.recs[k].data = got.recs[k].data
    PROVE  DataRead(k)'
BY DEF DataRead, SameData, StartOf, N, Bytes, RecItem

(* A step that changes nothing of what has been read.                      *)
LEMMA GotStays ==
    ASSUME ReadInv, UNCHANGED got
    PROVE  (got \in GotType)'
BY DEF ReadInv, GotType, GotRec, Unit, HeaderUnit, ListUnit, RsrcEntry, RecEntry, NulsUnit,
       ByteUnit, Attr

LEMMA ReadFacts ==
    ASSUME WriteInv
    PROVE  /\ db \in Databases /\ nuls \in {0, 1} /\ FileOK(file) /\ N \in Nat
           /\ file \in Seq(Unit) /\ Len(file) \in Nat
BY DbFacts, LenProperties DEF WriteInv, FileOK, HeadOK

LEMMA NothingRead == Nothing \in GotType /\ Nothing.recs = <<>>
BY DEF Nothing, GotType

(* Nothing is read while the file is written, nor when it is refused.      *)
LEMMA NotReading ==
    ASSUME ReadInv, at' \in WriteSteps \union {"stopped", "written"}, UNCHANGED got,
           at \in WriteSteps \union {"stopped", "written"}
    PROVE  ReadInv'
<1>1. at \notin PastHeader \union {"refused"}
  BY DEF WriteSteps, PastHeader, PastList, PastIndex, PastApp, PastSort
<1>2. got = Nothing
  BY <1>1 DEF ReadInv
<1>3. got' = Nothing /\ (got \in GotType)'
  BY <1>2, NothingRead DEF GotType, GotRec, Unit, HeaderUnit, ListUnit, RsrcEntry, RecEntry,
     NulsUnit, ByteUnit, Attr
<1>4. /\ at' \notin PastHeader /\ at' \notin PastList /\ at' \notin PastIndex /\ at' \notin PastApp
      /\ at' \notin PastSort
      /\ at' \notin {"read_header", "read_list", "read_index", "read_app", "read_sort",
                     "read_data", "done"}
  BY DEF WriteSteps, PastHeader, PastList, PastIndex, PastApp, PastSort
<1> QED
  BY <1>3, <1>4 DEF ReadInv, PastHeader, PastList, PastIndex, PastApp, PastSort, Nothing

LEMMA Refused == ASSUME ReadInv, Refuse PROVE ReadInv'
<1>1. at' = "refused" /\ got' = got /\ got \in GotType
  BY DEF Refuse, ToRead, ReadInv
<1>2. (got \in GotType)'
  BY <1>1 DEF GotType, GotRec, Unit, HeaderUnit, ListUnit, RsrcEntry, RecEntry, NulsUnit,
     ByteUnit, Attr
<1>3. /\ at' \notin PastHeader /\ at' \notin PastList /\ at' \notin PastIndex /\ at' \notin PastApp
      /\ at' \notin PastSort
  BY <1>1 DEF PastHeader, PastList, PastIndex, PastApp, PastSort
<1> QED
  BY <1>1, <1>2, <1>3 DEF ReadInv, PastHeader, PastList, PastIndex, PastApp, PastSort

LEMMA OpenStep == ASSUME ReadInv, OpenFile PROVE ReadInv'
<1>1. at \in {"stopped", "written"} /\ at' = "read_header" /\ i' = 1 /\ got' = got
  BY DEF OpenFile, ToRead
<1>2. at \notin PastHeader \union {"refused"}
  BY <1>1 DEF PastHeader, PastList, PastIndex, PastApp, PastSort
<1>3. got = Nothing
  BY <1>2 DEF ReadInv
<1>4. got' = Nothing /\ (got \in GotType)' /\ got'.recs = <<>>
  BY <1>1, <1>3, NothingRead DEF GotType, GotRec, Unit, HeaderUnit, ListUnit, RsrcEntry, RecEntry,
     NulsUnit, ByteUnit, Attr
<1>5. /\ at' \notin PastHeader /\ at' \notin PastList /\ at' \notin PastIndex /\ at' \notin PastApp
      /\ at' \notin PastSort
  BY <1>1 DEF PastHeader, PastList, PastIndex, PastApp, PastSort
<1> QED
  BY <1>1, <1>4, <1>5 DEF ReadInv, PastHeader, PastList, PastIndex, PastApp, PastSort, Nothing

LEMMA LoadHeaderStep == ASSUME WriteInv, ReadInv, LoadHeader PROVE ReadInv'
<1>1. CASE Refuse
  BY <1>1, Refused
<1>2. CASE ~Refuse
  <2>1. /\ at = "read_header" /\ Readable(0, 1) /\ at' = "read_list" /\ i' = i
        /\ UNCHANGED <<db, nuls, file>>
        /\ got' = [got EXCEPT !.res = file[1].res, !.appOff = file[1].app,
                              !.sortOff = file[1].sort]
    BY <1>2 DEF LoadHeader, ToRead
  <2>2. Len(file) >= 1 /\ file[1] = TheHeader
    BY <2>1, ReadFacts DEF Readable, FileOK, HeadOK
  <2>3. TheHeader.res = db.res /\ TheHeader.res \in BOOLEAN /\ TheHeader.app \in Nat
        /\ TheHeader.sort \in Nat
    <3>1. db.res \in BOOLEAN /\ HeadLen \in Nat /\ Size(db.app) \in Nat
      BY ReadFacts, DbFacts
    <3> QED
      BY <3>1 DEF TheHeader
  <2>4. got \in GotType /\ i = 1 /\ got.recs = <<>>
    BY <2>1 DEF ReadInv
  <2>5. /\ got' \in GotType /\ got'.recs = <<>>
        /\ got'.res = db.res /\ got'.appOff = TheHeader.app /\ got'.sortOff = TheHeader.sort
    BY <2>1, <2>2, <2>3, <2>4 DEF GotType
  <2>6. HeaderRead'
    <3>1. db' = db /\ file' = file /\ TheHeader' = TheHeader
      BY <2>1 DEF TheHeader, HeadLen, N, Size
    <3> QED
      BY <2>2, <2>5, <3>1 DEF HeaderRead
  <2>7. (got \in GotType)'
    BY <2>5 DEF GotType, GotRec, Unit, HeaderUnit, ListUnit, RsrcEntry, RecEntry, NulsUnit,
       ByteUnit, Attr
  <2>8. /\ at' \in PastHeader /\ at' \notin PastList /\ at' \notin PastIndex /\ at' \notin PastApp
        /\ at' \notin PastSort
    BY <2>1 DEF PastHeader, PastList, PastIndex, PastApp, PastSort
  <2> QED
    BY <2>1, <2>4, <2>5, <2>6, <2>7, <2>8
       DEF ReadInv, PastHeader, PastList, PastIndex, PastApp, PastSort
<1> QED
  BY <1>1, <1>2

LEMMA LoadListStep == ASSUME WriteInv, ReadInv, LoadRecListHeader PROVE ReadInv'
<1>1. CASE Refuse
  BY <1>1, Refused
<1>2. CASE ~Refuse
  <2>1. /\ at = "read_list" /\ Readable(1, 1) /\ at' = "read_index" /\ i' = i
        /\ UNCHANGED <<db, nuls, file>>
        /\ got' = [got EXCEPT !.n = file[2].n]
    BY <1>2 DEF LoadRecListHeader, ToRead
  <2>2. Len(file) >= 2 /\ file[2].n = N /\ N \in Nat
    BY <2>1, ReadFacts DEF Readable, FileOK, HeadOK
  <2>3. got \in GotType /\ i = 1 /\ got.recs = <<>> /\ HeaderRead
    BY <2>1 DEF ReadInv, PastHeader
  <2>4. /\ got' \in GotType /\ got'.recs = <<>> /\ got'.n = N
        /\ got'.res = got.res /\ got'.appOff = got.appOff /\ got'.sortOff = got.sortOff
    BY <2>1, <2>2, <2>3 DEF GotType
  <2>5. HeaderRead'
    BY <2>1, <2>3, <2>4, HeaderStays
  <2>6. N' = N /\ ListRead'
    BY <2>1, <2>2, <2>4 DEF ListRead, N
  <2>7. EntriesRead(i - 1)' /\ i' \in 1 .. (N' + 1)
    <3>1. i' - 1 = 0 /\ Len(got'.recs) = 0 /\ Len(file') >= 2
      BY <2>1, <2>2, <2>3, <2>4
    <3> QED
      BY <2>1, <2>2, <2>3, <2>6, <3>1 DEF EntriesRead
  <2>8. (got \in GotType)'
    BY <2>4 DEF GotType, GotRec, Unit, HeaderUnit, ListUnit, RsrcEntry, RecEntry, NulsUnit,
       ByteUnit, Attr
  <2>9. /\ at' \in PastHeader /\ at' \in PastList /\ at' \notin PastIndex /\ at' \notin PastApp
        /\ at' \notin PastSort
    BY <2>1 DEF PastHeader, PastList, PastIndex, PastApp, PastSort
  <2> QED
    BY <2>1, <2>5, <2>6, <2>7, <2>8, <2>9
       DEF ReadInv, PastHeader, PastList, PastIndex, PastApp, PastSort
<1> QED
  BY <1>1, <1>2

(* An entry comes back as the format has room for.                         *)
LEMMA EntryComesBack ==
    ASSUME WriteInv, NEW k \in 1 .. N, k + 2 <= Len(file), got.res = db.res
    PROVE  LET rec == Loaded(file[k + 2])
           IN  /\ rec \in GotRec /\ rec.off = file[k + 2].off /\ rec.data = <<>>
               /\ rec.flags = Kept(db.recs[k]).flags /\ rec.cat = Kept(db.recs[k]).cat
               /\ rec.id = Kept(db.recs[k]).id
<1>1. /\ file[k + 2].off \in Nat /\ file[k + 2] = TheEntry(k, file[k + 2].off)
      /\ db.res \in BOOLEAN
  BY ReadFacts, DbFacts DEF FileOK, HeadOK, IndexOK
<1>2. /\ db.recs[k].flags \in SUBSET (Top \union {ARCHIVE}) /\ db.recs[k].cat \in 0 .. 15
      /\ db.recs[k].id \in Nat /\ db.recs[k].id % IdSpan \in Nat
  <2>1. /\ db.recs[k].flags \in SUBSET (Top \union {ARCHIVE}) /\ db.recs[k].cat \in 0 .. 15
        /\ db.recs[k].id \in Nat
    BY ReadFacts, DbFacts
  <2> QED
    BY <2>1, PdbFileAssumption
<1> DEFINE e == file[k + 2]
           flags == db.recs[k].flags
           cat == db.recs[k].cat
           a == split_attributes(merge_attributes(flags, cat))
<1>3. CASE db.res
  <2>1. /\ Loaded(e) = [off |-> e.off, flags |-> {}, cat |-> 0, id |-> db.recs[k].id, data |-> <<>>]
        /\ Kept(db.recs[k]) = [flags |-> {}, cat |-> 0, id |-> db.recs[k].id]
    <3>1. e.id = db.recs[k].id
      BY <1>1, <1>3 DEF TheEntry
    <3> QED
      BY <1>3, <3>1 DEF Loaded, Kept
  <2>2. Loaded(e) \in GotRec
    BY <1>1, <1>2, <2>1 DEF GotRec
  <2> QED
    BY <2>1, <2>2
<1>4. CASE ~db.res
  <2>1. e.id = db.recs[k].id % IdSpan /\ e.attr = merge_attributes(flags, cat)
    BY <1>1, <1>4 DEF TheEntry
  <2>2. /\ a.flags = IF DELETED \in flags THEN flags ELSE flags \ {ARCHIVE}
        /\ a.cat = IF DELETED \in flags THEN 0 ELSE cat
    BY <1>2, AttributesComeBack
  <2>3. a.flags \in SUBSET (Top \union {ARCHIVE}) /\ a.cat \in 0 .. 15
    BY <1>2, <2>2
  <2> HIDE DEF a
  <2>4. Loaded(e) = [off |-> e.off, flags |-> a.flags, cat |-> a.cat, id |-> e.id, data |-> <<>>]
    BY <1>4, <2>1 DEF Loaded, a
  <2>5. /\ Kept(db.recs[k]).flags = a.flags /\ Kept(db.recs[k]).cat = a.cat
        /\ Kept(db.recs[k]).id = e.id
    BY <1>4, <2>1, <2>2 DEF Kept
  <2>6. Loaded(e) \in GotRec
    BY <1>1, <1>2, <2>1, <2>3, <2>4 DEF GotRec
  <2> QED
    BY <2>4, <2>5, <2>6
<1> QED
  BY <1>3, <1>4

LEMMA LoadIndexStep == ASSUME WriteInv, ReadInv, LoadIndex PROVE ReadInv'
<1>1. /\ at = "read_index" /\ got \in GotType /\ HeaderRead /\ ListRead
      /\ i \in 1 .. (N + 1) /\ EntriesRead(i - 1) /\ got.n = N
      /\ N \in Nat /\ Len(file) \in Nat
  BY ReadFacts DEF LoadIndex, ReadInv, PastHeader, PastList, ListRead
<1>2. CASE i > got.n
  <2>1. at' = "read_app" /\ i' = 1 /\ UNCHANGED <<db, nuls, file, got>>
    BY <1>1, <1>2 DEF LoadIndex, ToRead
  <2>2. EntriesRead(N)
    <3>1. i - 1 = N
      BY <1>1, <1>2
    <3> QED
      BY <1>1, <3>1
  <2>3. (got \in GotType)' /\ HeaderRead' /\ ListRead'
    BY <1>1, <2>1, GotStays, HeaderStays, ListStays
  <2>4. /\ at' \in PastHeader /\ at' \in PastList /\ at' \in PastIndex /\ at' \notin PastApp
        /\ at' \notin PastSort
    BY <2>1 DEF PastHeader, PastList, PastIndex, PastApp, PastSort
  <2>5. EntriesRead(N)'
    <3>1. N' = N
      BY <2>1 DEF N
    <3>2. PICK m \in Nat : m = N
      BY <1>1
    <3>3. EntriesRead(m)'
      BY <2>1, <2>2, <3>2, EntriesStay
    <3> QED
      BY <3>1, <3>2, <3>3 DEF EntriesRead
  <2> QED
    BY <2>1, <2>3, <2>4, <2>5 DEF ReadInv, PastHeader, PastList, PastIndex, PastApp, PastSort
<1>3. CASE i <= got.n /\ Readable(i + 1, 1)
  <2>1. /\ at' = "read_index" /\ i' = i + 1 /\ UNCHANGED <<db, nuls, file>>
        /\ got' = [got EXCEPT !.recs = Append(@, Loaded(file[i + 2]))]
    BY <1>1, <1>3 DEF LoadIndex, ToRead
  <2>2. i \in 1 .. N /\ i + 2 <= Len(file) /\ got.res = db.res
    BY <1>1, <1>3 DEF Readable, HeaderRead
  <2> DEFINE rec == Loaded(file[i + 2])
  <2>3. /\ rec \in GotRec /\ rec.off = file[i + 2].off
        /\ rec.flags = Kept(db.recs[i]).flags /\ rec.cat = Kept(db.recs[i]).cat
        /\ rec.id = Kept(db.recs[i]).id
    BY <2>2, EntryComesBack
  <2> HIDE DEF rec
  <2>4. /\ got' \in GotType /\ got'.n = got.n /\ got'.res = got.res /\ got'.appOff = got.appOff
        /\ got'.sortOff = got.sortOff /\ got'.recs = Append(got.recs, rec)
        /\ got.recs \in Seq(GotRec)
    <3>1. got.recs \in Seq(GotRec) /\ Append(got.recs, rec) \in Seq(GotRec)
      BY <1>1, <2>3, AppendProperties DEF GotType
    <3>2. got' = [got EXCEPT !.recs = Append(got.recs, rec)]
      BY <2>1 DEF rec
    <3> QED
      BY <1>1, <3>1, <3>2 DEF GotType
  <2>5. /\ Len(got.recs) = i - 1 /\ Len(got'.recs) = i /\ got'.recs[i] = rec
        /\ \A k \in 1 .. (i - 1) : got'.recs[k] = got.recs[k]
    BY <1>1, <2>2, <2>3, <2>4, AppendProperties DEF EntriesRead
  <2>6. \A k \in 1 .. i : EntryRead(k)'
    <3>1. ASSUME NEW k \in 1 .. (i - 1) PROVE EntryRead(k)'
      BY <1>1, <2>1, <2>5, <3>1, EntryStays DEF EntriesRead
    <3>2. ASSUME NEW k, k = i PROVE EntryRead(k)'
      BY <2>1, <2>3, <2>5, <3>2 DEF EntryRead, SameEntry, Kept
    <3> QED
      BY <2>2, <3>1, <3>2
  <2>7. EntriesRead(i - 1)' /\ i' \in 1 .. (N' + 1)
    <3>1. i' - 1 = i /\ N' = N
      BY <2>1, <2>2 DEF N
    <3> QED
      BY <1>1, <2>1, <2>2, <2>5, <2>6, <3>1 DEF EntriesRead
  <2>8. HeaderRead' /\ ListRead'
    BY <1>1, <2>1, <2>4, HeaderStays, ListStays
  <2>9. (got \in GotType)'
    BY <2>4 DEF GotType, GotRec, Unit, HeaderUnit, ListUnit, RsrcEntry, RecEntry, NulsUnit,
       ByteUnit, Attr
  <2>10. /\ at' \in PastHeader /\ at' \in PastList /\ at' \notin PastIndex /\ at' \notin PastApp
         /\ at' \notin PastSort
    BY <2>1 DEF PastHeader, PastList, PastIndex, PastApp, PastSort
  <2> QED
    BY <2>1, <2>7, <2>8, <2>9, <2>10
       DEF ReadInv, PastHeader, PastList, PastIndex, PastApp, PastSort
<1>4. CASE ~(i > got.n) /\ ~(i <= got.n /\ Readable(i + 1, 1))
  <2>1. Refuse
    BY <1>1, <1>4 DEF LoadIndex
  <2> QED
    BY <2>1, Refused
<1> QED
  BY <1>2, <1>3, <1>4

(* Where pdb_Read takes a block to end: where it does, unless the length of*)
(* the file has to tell, and never behind it.                              *)
LEMMA AppLength ==
    ASSUME WriteInv, HeaderRead, ListRead, EntriesRead(N)
    PROVE  LET len == IF got.appOff = 0 THEN 0 ELSE AfterApp - got.appOff
           IN  /\ len \in Int /\ len <= Size(db.app) /\ got.appOff = PlaceIn(file, AppItem)
               /\ N > 0 \/ db.sort # NULL \/ db.app = NULL => len = Size(db.app)
               /\ N = 0 /\ Len(file) = DataStart /\ Len(file) < Word => len = Size(db.app)
<1> DEFINE len == IF got.appOff = 0 THEN 0 ELSE AfterApp - got.appOff
<1>1. /\ N \in Nat /\ Len(file) \in Nat /\ HeadLen \in Nat /\ HeadLen > 0
      /\ Size(db.app) \in Nat /\ Size(db.sort) \in Nat
      /\ DataStart = HeadLen + Size(db.app) + Size(db.sort)
      /\ file[1] = TheHeader /\ 2 + N <= Len(file) /\ IndexOK(file) /\ SizeOK(file)
  BY ReadFacts, DbFacts DEF EntriesRead, FileOK, HeadOK, DataStart
<1>2. /\ got.appOff = IF db.app = NULL THEN 0 ELSE HeadLen
      /\ got.sortOff = IF db.sort = NULL THEN 0 ELSE HeadLen + Size(db.app)
      /\ got.n = N
  BY DEF HeaderRead, ListRead, TheHeader
<1>3. got.appOff = PlaceIn(file, AppItem)
  BY <1>1 DEF HeaderRead, PlaceIn, AppItem
<1>4. N > 0 => got.recs[1].off = DataStart
  <2> SUFFICES ASSUME N > 0 PROVE got.recs[1].off = DataStart
    OBVIOUS
  <2>1. 1 \in 1 .. N /\ 1 + 2 = 3 /\ 3 <= Len(file)
    BY <1>1
  <2> QED
    BY <1>1, <2>1 DEF EntriesRead, EntryRead, IndexOK
<1>5. file_size \in Nat /\ file_size <= Len(file) /\ (Len(file) < Word => file_size = Len(file))
  BY <1>1, FileSize
<1>6. N = 0 => Len(file) <= DataStart
  BY <1>1 DEF SizeOK, EndIn
<1>7. CASE db.app = NULL
  BY <1>1, <1>2, <1>3, <1>7 DEF Size
<1>8. CASE db.app # NULL /\ db.sort # NULL
  <2>1. got.appOff = HeadLen /\ AfterApp = HeadLen + Size(db.app)
    BY <1>1, <1>2, <1>8 DEF AfterApp
  <2>2. len = Size(db.app)
    BY <1>1, <2>1
  <2> QED
    BY <1>1, <1>3, <2>2
<1>9. CASE db.app # NULL /\ db.sort = NULL
  <2>1. got.appOff = HeadLen /\ got.sortOff = 0 /\ Size(db.sort) = 0
    BY <1>2, <1>9 DEF Size
  <2>2. AfterApp = IF N > 0 THEN DataStart ELSE file_size
    BY <1>2, <1>4, <2>1 DEF AfterApp, AfterSort
  <2>3. CASE N > 0
    <3>1. len = Size(db.app)
      BY <1>1, <2>1, <2>2, <2>3
    <3> QED
      BY <1>1, <1>3, <2>3, <3>1
  <2>4. CASE N = 0
    <3>1. len = file_size - HeadLen /\ DataStart = HeadLen + Size(db.app)
      BY <1>1, <2>1, <2>2, <2>4
    <3>2. len \in Int /\ len <= Size(db.app)
      BY <1>1, <1>5, <1>6, <2>4, <3>1
    <3>3. Len(file) = DataStart /\ Len(file) < Word => len = Size(db.app)
      BY <1>1, <1>5, <3>1
    <3> QED
      BY <1>3, <1>9, <2>4, <3>2, <3>3
  <2> QED
    BY <1>1, <2>3, <2>4
<1> QED
  BY <1>7, <1>8, <1>9

LEMMA SortLength ==
    ASSUME WriteInv, HeaderRead, ListRead, EntriesRead(N)
    PROVE  LET len == IF got.sortOff = 0 THEN 0 ELSE AfterSort - got.sortOff
           IN  /\ len \in Int /\ len <= Size(db.sort) /\ got.sortOff = PlaceIn(file, SortItem)
               /\ N > 0 \/ db.sort = NULL => len = Size(db.sort)
               /\ N = 0 /\ Len(file) = DataStart /\ Len(file) < Word => len = Size(db.sort)
<1> DEFINE len == IF got.sortOff = 0 THEN 0 ELSE AfterSort - got.sortOff
<1>1. /\ N \in Nat /\ Len(file) \in Nat /\ HeadLen \in Nat /\ HeadLen > 0
      /\ Size(db.app) \in Nat /\ Size(db.sort) \in Nat
      /\ DataStart = HeadLen + Size(db.app) + Size(db.sort)
      /\ file[1] = TheHeader /\ 2 + N <= Len(file) /\ IndexOK(file) /\ SizeOK(file)
  BY ReadFacts, DbFacts DEF EntriesRead, FileOK, HeadOK, DataStart
<1>2. /\ got.sortOff = IF db.sort = NULL THEN 0 ELSE HeadLen + Size(db.app)
      /\ got.n = N
  BY DEF HeaderRead, ListRead, TheHeader
<1>3. got.sortOff = PlaceIn(file, SortItem)
  BY <1>1 DEF HeaderRead, PlaceIn, AppItem, SortItem
<1>4. N > 0 => got.recs[1].off = DataStart
  <2> SUFFICES ASSUME N > 0 PROVE got.recs[1].off = DataStart
    OBVIOUS
  <2>1. 1 \in 1 .. N /\ 1 + 2 = 3 /\ 3 <= Len(file)
    BY <1>1
  <2> QED
    BY <1>1, <2>1 DEF EntriesRead, EntryRead, IndexOK
<1>5. file_size \in Nat /\ file_size <= Len(file) /\ (Len(file) < Word => file_size = Len(file))
  BY <1>1, FileSize
<1>6. N = 0 => Len(file) <= DataStart
  BY <1>1 DEF SizeOK, EndIn
<1>7. CASE db.sort = NULL
  BY <1>1, <1>2, <1>3, <1>7 DEF Size
<1>8. CASE db.sort # NULL /\ N > 0
  <2>1. len = Size(db.sort)
    BY <1>1, <1>2, <1>4, <1>8 DEF AfterSort
  <2> QED
    BY <1>1, <1>3, <1>8, <2>1
<1>9. CASE db.sort # NULL /\ N = 0
  <2>1. len = file_size - (HeadLen + Size(db.app))
    BY <1>1, <1>2, <1>9 DEF AfterSort
  <2>2. len \in Int /\ len <= Size(db.sort)
    BY <1>1, <1>5, <1>6, <1>9, <2>1
  <2>3. Len(file) = DataStart /\ Len(file) < Word => len = Size(db.sort)
    BY <1>1, <1>5, <2>1
  <2> QED
    BY <1>3, <1>9, <2>2, <2>3
<1> QED
  BY <1>1, <1>7, <1>8, <1>9

LEMMA LoadAppStep == ASSUME WriteInv, ReadInv, LoadAppBlock PROVE ReadInv'
<1> DEFINE len == IF got.appOff = 0 THEN 0 ELSE AfterApp - got.appOff
<1>1. /\ at = "read_app" /\ got \in GotType /\ HeaderRead /\ ListRead /\ EntriesRead(N) /\ i = 1
      /\ N \in Nat /\ 2 + N <= Len(file)
  BY ReadFacts DEF LoadAppBlock, ReadInv, PastHeader, PastList, PastIndex, EntriesRead
<1>2. CASE ~Readable(got.appOff, len)
  <2>1. Refuse
    BY <1>2 DEF LoadAppBlock
  <2> QED
    BY <2>1, Refused
<1>3. CASE Readable(got.appOff, len)
  <2>1. /\ at' = "read_sort" /\ i' = i /\ UNCHANGED <<db, nuls, file>>
        /\ got' = [got EXCEPT !.app = Read(got.appOff, len)]
    BY <1>3 DEF LoadAppBlock, ToRead
  <2>2. /\ len \in Int /\ len <= Size(db.app) /\ got.appOff = PlaceIn(file, AppItem)
        /\ (N > 0 \/ db.sort # NULL => len = Size(db.app))
    BY <1>1, AppLength
  <2> HIDE DEF len
  <2>3. AppItem \in Items /\ ItemLen(AppItem) = Size(db.app) /\ Size(db.app) \in Nat
    BY <1>1, ReadFacts, DbFacts DEF AppItem, Items, ItemLen
  <2>4. len \in 0 .. ItemLen(AppItem)
    BY <1>3, <2>2, <2>3 DEF Readable
  <2>5. /\ Read(got.appOff, len) = Bytes(AppItem, len)
        /\ StartOf(Bytes(AppItem, len), Bytes(AppItem, Size(db.app)))
    BY <1>1, <1>3, <2>2, <2>3, <2>4, ReadFacts, ReadsItem
  <2>6. Bytes(AppItem, len) \in Seq(Unit)
    BY <2>3, <2>4, BytesTyped DEF AppItem
  <2>7. /\ got' \in GotType /\ got'.app = Bytes(AppItem, len)
        /\ got'.res = got.res /\ got'.appOff = got.appOff /\ got'.sortOff = got.sortOff
        /\ got'.n = got.n /\ got'.recs = got.recs
    BY <1>1, <2>1, <2>5, <2>6 DEF GotType
  <2>8. AppRead'
    <3>1. N' = N /\ db' = db
      BY <2>1 DEF N
    <3>2. CASE N > 0 \/ db.sort # NULL
      BY <2>2, <2>7, <3>1, <3>2 DEF AppRead, SameApp, Bytes, Size
    <3>3. CASE ~(N > 0 \/ db.sort # NULL)
      BY <2>5, <2>7, <3>1, <3>3 DEF AppRead, StartOf, Bytes, Size
    <3> QED
      BY <3>2, <3>3
  <2>9. HeaderRead' /\ ListRead' /\ EntriesRead(N)'
    <3>1. N' = N
      BY <2>1 DEF N
    <3>2. HeaderRead' /\ ListRead'
      BY <1>1, <2>1, <2>7, HeaderStays, ListStays
    <3>3. PICK m \in Nat : m = N
      BY <1>1
    <3>4. EntriesRead(m)'
      BY <1>1, <2>1, <2>7, <3>3, EntriesStay
    <3> QED
      BY <3>1, <3>2, <3>3, <3>4 DEF EntriesRead
  <2>10. (got \in GotType)'
    BY <2>7 DEF GotType, GotRec, Unit, HeaderUnit, ListUnit, RsrcEntry, RecEntry, NulsUnit,
       ByteUnit, Attr
  <2>11. /\ at' \in PastHeader /\ at' \in PastList /\ at' \in PastIndex /\ at' \in PastApp
         /\ at' \notin PastSort
    BY <2>1 DEF PastHeader, PastList, PastIndex, PastApp, PastSort
  <2> QED
    BY <1>1, <2>1, <2>8, <2>9, <2>10, <2>11
       DEF ReadInv, PastHeader, PastList, PastIndex, PastApp, PastSort
<1> QED
  BY <1>2, <1>3

LEMMA LoadSortStep == ASSUME WriteInv, ReadInv, LoadSortBlock PROVE ReadInv'
<1> DEFINE len == IF got.sortOff = 0 THEN 0 ELSE AfterSort - got.sortOff
<1>1. /\ at = "read_sort" /\ got \in GotType /\ HeaderRead /\ ListRead /\ EntriesRead(N) /\ i = 1
      /\ AppRead /\ N \in Nat /\ 2 + N <= Len(file)
  BY ReadFacts DEF LoadSortBlock, ReadInv, PastHeader, PastList, PastIndex, PastApp, EntriesRead
<1>2. CASE ~Readable(got.sortOff, len)
  <2>1. Refuse
    BY <1>2 DEF LoadSortBlock
  <2> QED
    BY <2>1, Refused
<1>3. CASE Readable(got.sortOff, len)
  <2>1. /\ at' = "read_data" /\ i' = i /\ UNCHANGED <<db, nuls, file>>
        /\ got' = [got EXCEPT !.sort = Read(got.sortOff, len)]
    BY <1>3 DEF LoadSortBlock, ToRead
  <2>2. /\ len \in Int /\ len <= Size(db.sort) /\ got.sortOff = PlaceIn(file, SortItem)
        /\ (N > 0 => len = Size(db.sort))
    BY <1>1, SortLength
  <2> HIDE DEF len
  <2>3. SortItem \in Items /\ ItemLen(SortItem) = Size(db.sort) /\ Size(db.sort) \in Nat
    BY <1>1, ReadFacts, DbFacts DEF AppItem, SortItem, Items, ItemLen
  <2>4. len \in 0 .. ItemLen(SortItem)
    BY <1>3, <2>2, <2>3 DEF Readable
  <2>5. /\ Read(got.sortOff, len) = Bytes(SortItem, len)
        /\ StartOf(Bytes(SortItem, len), Bytes(SortItem, Size(db.sort)))
    BY <1>1, <1>3, <2>2, <2>3, <2>4, ReadFacts, ReadsItem
  <2>6. Bytes(SortItem, len) \in Seq(Unit)
    BY <2>3, <2>4, BytesTyped DEF SortItem
  <2>7. /\ got' \in GotType /\ got'.sort = Bytes(SortItem, len) /\ got'.app = got.app
        /\ got'.res = got.res /\ got'.appOff = got.appOff /\ got'.sortOff = got.sortOff
        /\ got'.n = got.n /\ got'.recs = got.recs
    BY <1>1, <2>1, <2>5, <2>6 DEF GotType
  <2>8. SortRead'
    <3>1. N' = N /\ db' = db
      BY <2>1 DEF N
    <3>2. CASE N > 0
      BY <2>2, <2>7, <3>1, <3>2 DEF SortRead, SameSort, Bytes, Size
    <3>3. CASE ~(N > 0)
      BY <2>5, <2>7, <3>1, <3>3 DEF SortRead, StartOf, Bytes, Size
    <3> QED
      BY <3>2, <3>3
  <2>9. HeaderRead' /\ ListRead' /\ EntriesRead(N)' /\ AppRead'
    <3>1. N' = N
      BY <2>1 DEF N
    <3>2. HeaderRead' /\ ListRead' /\ AppRead'
      BY <1>1, <2>1, <2>7, HeaderStays, ListStays, AppStays
    <3>3. PICK m \in Nat : m = N
      BY <1>1
    <3>4. EntriesRead(m)'
      BY <1>1, <2>1, <2>7, <3>3, EntriesStay
    <3> QED
      BY <3>1, <3>2, <3>3, <3>4 DEF EntriesRead
  <2>10. (got \in GotType)'
    BY <2>7 DEF GotType, GotRec, Unit, HeaderUnit, ListUnit, RsrcEntry, RecEntry, NulsUnit,
       ByteUnit, Attr
  <2>11. /\ at' \in PastHeader /\ at' \in PastList /\ at' \in PastIndex /\ at' \in PastApp
         /\ at' \in PastSort
    BY <2>1 DEF PastHeader, PastList, PastIndex, PastApp, PastSort
  <2>12. i' \in 1 .. (N' + 1) /\ 1 .. (i' - 1) = {}
    <3>1. N' = N /\ i' = 1
      BY <1>1, <2>1 DEF N
    <3> QED
      BY <1>1, <3>1
  <2> QED
    BY <2>1, <2>8, <2>9, <2>10, <2>11, <2>12
       DEF ReadInv, PastHeader, PastList, PastIndex, PastApp, PastSort
<1> QED
  BY <1>2, <1>3

(* The length that pdb_Read computes for a record: right for all but the   *)
(* last, and for that one no longer than the record if it can be read.     *)
LEMMA RecordLength ==
    ASSUME WriteInv, HeaderRead, ListRead, EntriesRead(N), NEW k \in 1 .. N,
           NEW off, off = got.recs[k].off,
           NEW next, next = IF k = got.n THEN file_size ELSE got.recs[k + 1].off,
           NEW len, len = (next - off) % Word
    PROVE  /\ off = PlaceIn(file, RecItem(k)) /\ off \in Nat
           /\ RecItem(k) \in Items /\ ItemLen(RecItem(k)) = db.recs[k].len
           /\ k < N => len = db.recs[k].len
           /\ Readable(off, len) => len \in 0 .. db.recs[k].len
           /\ k = N /\ Len(file) = off + db.recs[k].len => len = db.recs[k].len
<1>1. /\ N \in Nat /\ Len(file) \in Nat /\ 2 + N <= Len(file) /\ IndexOK(file) /\ SizeOK(file)
      /\ got.n = N /\ db.recs[k].len \in Nat /\ db.recs[k].len < Word /\ Word \in Nat \ {0}
  <2>1. N \in Nat /\ Len(file) \in Nat /\ FileOK(file) /\ db \in Databases /\ nuls \in {0, 1}
    BY ReadFacts
  <2>2. db.recs[k].len \in Nat /\ db.recs[k].len < Word /\ Word \in Nat \ {0}
    BY <2>1, DbFacts, PdbFileAssumption
  <2>3. 2 + N <= Len(file) /\ got.n = N
    BY <2>1 DEF EntriesRead, ListRead
  <2> QED
    BY <2>1, <2>2, <2>3 DEF FileOK, HeadOK
<1>2. off = file[k + 2].off /\ off \in Nat
  <2>1. k + 2 <= Len(file)
    BY <1>1
  <2> QED
    BY <1>1, <2>1 DEF EntriesRead, EntryRead, IndexOK
<1>3. off = PlaceIn(file, RecItem(k)) /\ RecItem(k) \in Items /\ ItemLen(RecItem(k)) = db.recs[k].len
  <2>1. /\ RecItem(k) = k + 2 /\ k + 2 # 1 /\ k + 2 # 2 /\ k + 2 - 2 = k /\ k + 2 \in 1 .. (N + 2)
    BY <1>1 DEF RecItem
  <2> QED
    BY <1>2, <2>1 DEF PlaceIn, ItemLen, AppItem, SortItem, Items
<1>4. db.recs[k].len \in 0 .. (Word - 1)
  BY <1>1
<1>5. CASE k < N
  <2>1. k + 1 \in 1 .. N /\ k + 1 + 2 = k + 3 /\ k + 3 <= Len(file) /\ k # got.n
    BY <1>1, <1>5
  <2>2. got.recs[k + 1].off = file[k + 3].off
    BY <2>1 DEF EntriesRead, EntryRead
  <2>3. file[k + 3].off = file[k + 2].off + db.recs[k].len
    BY <1>1, <1>5, <2>1 DEF IndexOK
  <2>4. next = off + db.recs[k].len
    BY <1>2, <2>1, <2>2, <2>3
  <2>5. len = db.recs[k].len
    BY <1>2, <1>4, <2>4, LengthBetween
  <2> QED
    BY <1>1, <1>2, <1>3, <1>5, <2>5
<1>6. CASE k = N
  <2>1. next = file_size /\ next \in Nat
    BY <1>1, <1>6, FileSize
  <2>2. len \in 0 .. (Word - 1)
    <3>1. PICK gap \in Int : gap = next - off
      BY <1>2, <2>1
    <3>2. gap % Word \in 0 .. (Word - 1)
      BY ModOf
    <3> QED
      BY <3>1, <3>2
  <2>3. Len(file) <= off + db.recs[k].len
    BY <1>1, <1>2, <1>6 DEF SizeOK, EndIn
  <2>4. Len(file) = off + db.recs[k].len => len = db.recs[k].len
    BY <1>1, <1>2, <1>4, <2>1, LengthLeft
  <2>5. Readable(off, len) => len \in 0 .. db.recs[k].len
    BY <1>1, <1>2, <2>2, <2>3 DEF Readable
  <2> QED
    BY <1>1, <1>2, <1>3, <1>6, <2>4, <2>5
<1> QED
  BY <1>1, <1>5, <1>6

(* A record is read, or pdb_Read is done with all of them.                 *)
LEMMA LoadRecordsStep == ASSUME WriteInv, ReadInv, LoadRecords PROVE ReadInv'
<1>1. /\ at = "read_data" /\ got \in GotType /\ HeaderRead /\ ListRead /\ EntriesRead(N)
      /\ AppRead /\ SortRead /\ i \in 1 .. (N + 1) /\ (\A k \in 1 .. (i - 1) : DataRead(k))
      /\ N \in Nat /\ 2 + N <= Len(file) /\ got.n = N
  BY ReadFacts DEF LoadRecords, ReadInv, PastHeader, PastList, PastIndex, PastApp, PastSort,
     EntriesRead, ListRead
<1>2. CASE i > got.n
  <2>1. at' = "done" /\ UNCHANGED <<db, nuls, file, got>>
    BY <1>2 DEF LoadRecords, ToRead
  <2>2. i - 1 = N
    BY <1>1, <1>2
  <2>3. \A k \in 1 .. N : DataRead(k)'
    <3>1. \A k \in 1 .. N : DataRead(k)
      BY <1>1, <2>2
    <3>2. \A k : DataRead(k) => DataRead(k)'
      BY <2>1, DataStays
    <3> QED
      BY <3>1, <3>2
  <2>4. /\ (got \in GotType)' /\ HeaderRead' /\ ListRead' /\ EntriesRead(N)' /\ AppRead'
        /\ SortRead' /\ N' = N
    <3>1. (got \in GotType)' /\ N' = N /\ (HeaderRead => HeaderRead') /\ (ListRead => ListRead')
      BY <2>1, GotStays, HeaderStays, ListStays DEF N
    <3>2. EntriesRead(N) => EntriesRead(N)'
      <4>1. PICK m \in Nat : m = N
        BY <1>1
      <4>2. EntriesRead(m) => EntriesRead(m)'
        BY <2>1, EntriesStay
      <4> QED
        BY <3>1, <4>1, <4>2 DEF EntriesRead
    <3>3. (AppRead => AppRead') /\ (SortRead => SortRead')
      BY <2>1, AppStays, SortStays
    <3> QED
      BY <1>1, <3>1, <3>2, <3>3
  <2>5. /\ at' \in PastHeader /\ at' \in PastList /\ at' \in PastIndex /\ at' \in PastApp
        /\ at' \in PastSort
    BY <2>1 DEF PastHeader, PastList, PastIndex, PastApp, PastSort
  <2> QED
    BY <2>1, <2>3, <2>4, <2>5
       DEF ReadInv, PastHeader, PastList, PastIndex, PastApp, PastSort
<1>3. CASE i <= got.n
  <2>1. PICK off, next, len :
          /\ off = got.recs[i].off
          /\ next = IF i = got.n THEN file_size ELSE got.recs[i + 1].off
          /\ len = (next - off) % Word
    OBVIOUS
  <2>2. LoadRecord(off, len)
    BY <1>1, <1>3, <2>1 DEF LoadRecords
  <2>3. i \in 1 .. N
    BY <1>1, <1>3
  <2>4. CASE ~Readable(off, len)
    BY <2>2, <2>4, Refused DEF LoadRecord
  <2>5. CASE Readable(off, len)
    <3>1. /\ at' = "read_data" /\ i' = i + 1 /\ UNCHANGED <<db, nuls, file>>
          /\ got' = [got EXCEPT !.recs[i].data = Read(off, len)]
      BY <1>1, <2>2, <2>5 DEF LoadRecord, ToRead
    <3>2. /\ off = PlaceIn(file, RecItem(i)) /\ off \in Nat
          /\ RecItem(i) \in Items /\ ItemLen(RecItem(i)) = db.recs[i].len
          /\ i < N => len = db.recs[i].len
          /\ len \in 0 .. db.recs[i].len
      BY <1>1, <2>1, <2>3, <2>5, RecordLength
    <3>3. /\ Read(off, len) = Bytes(RecItem(i), len)
          /\ StartOf(Bytes(RecItem(i), len), Bytes(RecItem(i), db.recs[i].len))
      BY <1>1, <2>5, <3>2, ReadFacts, ReadsItem
    <3>4. Bytes(RecItem(i), len) \in Seq(Unit)
      <4>1. RecItem(i) \in Nat /\ db.recs[i].len \in Nat
        BY <2>3, ReadFacts, DbFacts DEF RecItem
      <4> QED
        BY <3>2, <4>1, BytesTyped
    <3>5. /\ Len(got.recs) = N /\ got.recs \in Seq(GotRec) /\ got.recs[i] \in GotRec
      BY <1>1, <2>3, ElementOfSeq DEF EntriesRead, GotType
    <3> DEFINE rec == [got.recs[i] EXCEPT !.data = Bytes(RecItem(i), len)]
               recs == [got.recs EXCEPT ![i] = rec]
    <3>6. rec \in GotRec /\ rec.data = Bytes(RecItem(i), len) /\ rec.off = got.recs[i].off
          /\ rec.flags = got.recs[i].flags /\ rec.cat = got.recs[i].cat /\ rec.id = got.recs[i].id
      BY <3>4, <3>5 DEF GotRec
    <3>7. got' = [got EXCEPT !.recs = recs]
      BY <1>1, <3>1, <3>3, <3>5 DEF GotType
    <3> HIDE DEF rec
    <3>8. /\ recs \in Seq(GotRec) /\ Len(recs) = N /\ recs[i] = rec
          /\ \A k \in 1 .. N : k # i => recs[k] = got.recs[k]
      BY <1>1, <2>3, <3>5, <3>6, ExceptSeq
    <3> HIDE DEF recs
    <3>9. /\ got' \in GotType /\ got'.recs = recs /\ got'.sort = got.sort /\ got'.app = got.app
          /\ got'.res = got.res /\ got'.appOff = got.appOff /\ got'.sortOff = got.sortOff
          /\ got'.n = got.n
      BY <1>1, <3>7, <3>8 DEF GotType
    <3>10. \A k \in 1 .. N :
              /\ got'.recs[k].off = got.recs[k].off /\ got'.recs[k].flags = got.recs[k].flags
              /\ got'.recs[k].cat = got.recs[k].cat /\ got'.recs[k].id = got.recs[k].id
      BY <3>6, <3>8, <3>9
    <3>11. \A k \in 1 .. i : DataRead(k)'
      <4>1. ASSUME NEW k \in 1 .. N, k < i PROVE DataRead(k)'
        BY <1>1, <2>3, <3>1, <3>8, <3>9, <4>1, DataStays
      <4>2. ASSUME NEW k \in 1 .. N, k = i PROVE DataRead(k)'
        <5>1. got'.recs[k].data = Bytes(RecItem(k), len) /\ N' = N /\ db' = db
          BY <3>1, <3>6, <3>8, <3>9, <4>2 DEF N
        <5>2. /\ k < N => len = db.recs[k].len
              /\ StartOf(Bytes(RecItem(k), len), Bytes(RecItem(k), db.recs[k].len))
          BY <3>2, <3>3, <4>2
        <5> QED
          BY <5>1, <5>2 DEF DataRead, SameData, StartOf, Bytes, RecItem
      <4> QED
        BY <1>1, <2>3, <4>1, <4>2
    <3>12. i' \in 1 .. (N' + 1) /\ 1 .. (i' - 1) = 1 .. i
      <4>1. N' = N
        BY <3>1 DEF N
      <4> QED
        BY <1>1, <2>3, <3>1, <4>1
    <3>13. HeaderRead' /\ ListRead' /\ AppRead' /\ SortRead' /\ EntriesRead(N)'
      <4>1. N' = N
        BY <3>1 DEF N
      <4>2. HeaderRead' /\ ListRead' /\ AppRead' /\ SortRead'
        BY <1>1, <3>1, <3>9, HeaderStays, ListStays, AppStays, SortStays
      <4>3. PICK m \in Nat : m = N
        BY <1>1
      <4>4. EntriesRead(m)'
        BY <1>1, <3>1, <3>5, <3>8, <3>9, <3>10, <4>3, EntriesStay
      <4> QED
        BY <4>1, <4>2, <4>3, <4>4 DEF EntriesRead
    <3>14. (got \in GotType)'
      BY <3>9 DEF GotType, GotRec, Unit, HeaderUnit, ListUnit, RsrcEntry, RecEntry, NulsUnit,
         ByteUnit, Attr
    <3>15. /\ at' \in PastHeader /\ at' \in PastList /\ at' \in PastIndex /\ at' \in PastApp
           /\ at' \in PastSort
      BY <3>1 DEF PastHeader, PastList, PastIndex, PastApp, PastSort
    <3> QED
      BY <3>1, <3>11, <3>12, <3>13, <3>14, <3>15
         DEF ReadInv, PastHeader, PastList, PastIndex, PastApp, PastSort
  <2> QED
    BY <2>4, <2>5
<1> QED
  BY <1>1, <1>2, <1>3

LEMMA ReadInvStep == ASSUME WriteInv, ReadInv, [Next]_fileVars PROVE ReadInv'
<1>1. CASE Write \/ Crash
  <2>1. at \in WriteSteps /\ at' \in WriteSteps \union {"stopped", "written"} /\ got' = got
    BY <1>1 DEF Write, Crash, WriteHeader, WriteList, WriteEntry, WriteNuls, WriteBlock, WriteData,
       CutShort, WriteSteps
  <2> QED
    BY <2>1, NotReading
<1>2. CASE Load
  BY <1>2, OpenStep, LoadHeaderStep, LoadListStep, LoadIndexStep, LoadAppStep, LoadSortStep,
     LoadRecordsStep DEF Load
<1>3. CASE UNCHANGED fileVars
  <2>1. UNCHANGED <<db, nuls, file, got>> /\ at' = at /\ i' = i
    BY <1>3 DEF fileVars
  <2>2. /\ (got \in GotType)' /\ N' = N /\ (HeaderRead => HeaderRead') /\ (ListRead => ListRead')
        /\ (got = Nothing => (got = Nothing)')
    <3>1. (got \in GotType)'
      BY <2>1, GotStays
    <3>2. N' = N /\ (HeaderRead => HeaderRead') /\ (ListRead => ListRead')
      BY <2>1, HeaderStays, ListStays DEF N
    <3>3. got = Nothing => (got = Nothing)'
      BY <2>1 DEF Nothing
    <3> QED
      BY <3>1, <3>2, <3>3
  <2>3. \A m : EntriesRead(m) => EntriesRead(m)'
    BY <2>1, EntriesStay
  <2>4. (AppRead => AppRead') /\ (SortRead => SortRead')
    BY <2>1, AppStays, SortStays
  <2>5. \A k : DataRead(k) => DataRead(k)'
    BY <2>1, DataStays
  <2>6. (EntriesRead(N) => EntriesRead(N)') /\ (EntriesRead(i - 1) => EntriesRead(i - 1)')
    BY <2>1, <2>2, <2>3 DEF EntriesRead
  <2> QED
    BY <2>1, <2>2, <2>4, <2>5, <2>6
       DEF ReadInv, PastHeader, PastList, PastIndex, PastApp, PastSort
<1> QED
  BY <1>1, <1>2, <1>3 DEF Next

LEMMA ReadInvInit == ASSUME Init PROVE ReadInv
<1>1. at = "write_header" /\ got = Nothing
  BY DEF Init
<1>2. at \notin PastHeader
  BY <1>1 DEF PastHeader, PastList, PastIndex, PastApp, PastSort
<1> QED
  BY <1>1, <1>2, NothingRead DEF ReadInv, PastHeader, PastList, PastIndex, PastApp, PastSort

(* At every step of pdb_Read what it has is what the database was, up to   *)
(* the end of the last item, however much of the file was written.         *)
THEOREM ReadInvariant == Spec => []ReadInv
<1>1. Init => ReadInv
  BY ReadInvInit
<1>2. WriteInv /\ ReadInv /\ [Next]_fileVars => ReadInv'
  BY ReadInvStep
<1>3. Spec => []WriteInv
  BY FileInvariant
<1> QED
  BY <1>1, <1>2, <1>3, PTL DEF Spec

LEMMA OnlyTheEnd == ASSUME WriteInv, ReadInv PROVE OnlyTheEndIsLost
<1> SUFFICES ASSUME at = "done"
    PROVE  /\ got.res = db.res /\ Len(got.recs) = Len(db.recs)
           /\ \A k \in DOMAIN db.recs :
                 /\ SameEntry(k)
                 /\ IF k < Len(db.recs) THEN SameData(k)
                    ELSE StartOf(got.recs[k].data, Bytes(RecItem(k), db.recs[k].len))
           /\ IF db.recs # <<>> THEN SameApp /\ SameSort
              ELSE /\ StartOf(got.sort, Bytes(SortItem, Size(db.sort)))
                   /\ IF db.sort # NULL THEN SameApp
                      ELSE StartOf(got.app, Bytes(AppItem, Size(db.app)))
  BY DEF OnlyTheEndIsLost
<1>1. /\ HeaderRead /\ EntriesRead(N) /\ AppRead /\ SortRead /\ (\A k \in 1 .. N : DataRead(k))
  BY DEF ReadInv, PastHeader, PastList, PastIndex, PastApp, PastSort
<1>2. N = Len(db.recs) /\ N \in Nat /\ DOMAIN db.recs = 1 .. N /\ db.recs \in Seq(Records)
  BY ReadFacts, DbFacts, LenProperties DEF N
<1>3. (db.recs # <<>>) <=> N > 0
  BY <1>2
<1>4. \A k \in 1 .. N : SameEntry(k)
  BY <1>1 DEF EntriesRead, EntryRead
<1>5. got.res = db.res /\ Len(got.recs) = Len(db.recs)
  BY <1>1, <1>2 DEF HeaderRead, EntriesRead
<1> QED
  BY <1>1, <1>2, <1>3, <1>4, <1>5 DEF AppRead, SortRead, DataRead

(* Of a file of any length, cut short anywhere, pdb_Read makes a database  *)
(* that lacks no more than the end of its last item, if it makes any.      *)
THEOREM OnlyTheEndGetsLost == Spec => []OnlyTheEndIsLost
<1>1. WriteInv /\ ReadInv => OnlyTheEndIsLost
  BY OnlyTheEnd
<1> QED
  BY <1>1, FileInvariant, ReadInvariant, PTL

-----------------------------------------------------------------------------
(* What pdb_Write counts, and what a complete file has.                    *)

(* Until the index is there more has been counted than written.            *)
Counted == IF 2 + N <= Len(file) THEN offset = EndOf(N) ELSE offset >= 2 + N

(* The end of a record is behind the blocks and not behind the last one's. *)
LEMMA Ends ==
    ASSUME WriteInv, NEW k \in 1 .. N, k + 2 <= Len(file)
    PROVE  /\ file[k + 2].off \in Nat /\ file[k + 2].off >= DataStart
           /\ EndOf(k) = file[k + 2].off + db.recs[k].len /\ EndOf(k) \in Nat
           /\ EndOf(k) >= DataStart
           /\ 2 + N <= Len(file) => EndOf(k) <= EndOf(N)
<1>1. /\ N \in Nat /\ Len(file) \in Nat /\ IndexOK(file) /\ DataStart \in Nat
      /\ \A j \in 1 .. N : db.recs[j].len \in Nat
  <2>1. N \in Nat /\ Len(file) \in Nat /\ FileOK(file) /\ db \in Databases /\ nuls \in {0, 1}
    BY ReadFacts
  <2> QED
    BY <2>1, DbFacts DEF FileOK, HeadOK
<1>2. \A j \in 1 .. N : j + 2 <= Len(file) => file[j + 2].off \in Nat
  BY <1>1 DEF IndexOK
<1>3. file[k + 2].off >= DataStart
  <2>1. 3 <= Len(file) /\ N > 0 /\ 1 + 2 = 3 /\ 1 \in 1 .. N
    BY <1>1
  <2>2. file[3].off = DataStart
    BY <1>1, <2>1 DEF IndexOK
  <2>3. CASE k = 1
    BY <1>1, <2>2, <2>3
  <2>4. CASE k > 1
    <3>1. file[1 + 2].off + db.recs[1].len <= file[k + 2].off
      BY <1>1, <2>1, <2>4 DEF IndexOK
    <3> QED
      BY <1>1, <1>2, <2>1, <2>2, <3>1
  <2> QED
    BY <2>3, <2>4
<1>4. EndOf(k) = file[k + 2].off + db.recs[k].len
  BY <1>1 DEF EndOf
<1>5. 2 + N <= Len(file) => EndOf(k) <= EndOf(N)
  <2> SUFFICES ASSUME 2 + N <= Len(file), k < N PROVE EndOf(k) <= EndOf(N)
    BY <1>1, <1>2, <1>4
  <2>1. N \in 1 .. N /\ N + 2 <= Len(file) /\ N # 0
    BY <1>1
  <2>2. file[k + 2].off + db.recs[k].len <= file[N + 2].off
    BY <1>1, <2>1 DEF IndexOK
  <2>3. EndOf(N) = file[N + 2].off + db.recs[N].len
    BY <2>1 DEF EndOf
  <2> QED
    BY <1>1, <1>2, <1>4, <2>1, <2>2, <2>3
<1> QED
  BY <1>1, <1>2, <1>3, <1>4, <1>5

LEMMA CountedWriting == ASSUME WriteInv, at \in WriteSteps PROVE Counted
<1>1. /\ N \in Nat /\ Len(file) \in Nat /\ HeadLen \in Nat /\ HeadLen >= 2 + N
      /\ DataStart \in Nat /\ DataStart >= HeadLen /\ Size(db.app) \in Nat
  <2>1. N \in Nat /\ Len(file) \in Nat /\ db \in Databases /\ nuls \in {0, 1}
    BY ReadFacts
  <2> QED
    BY <2>1, DbFacts
<1>2. CASE at = "write_header"
  <2>1. Len(file) = 0 /\ offset = HeadLen
    BY <1>2 DEF WriteInv, Written
  <2> QED
    BY <1>1, <2>1 DEF Counted
<1>3. CASE at = "write_list"
  <2>1. Len(file) = 1 /\ offset = DataStart
    BY <1>3 DEF WriteInv, Written
  <2> QED
    BY <1>1, <2>1 DEF Counted
<1>4. CASE at = "write_index"
  <2>1. Len(file) = i + 1 /\ i \in 1 .. (N + 1) /\ offset = EndOf(i - 1)
    BY <1>4 DEF WriteInv, Written
  <2>2. CASE i = N + 1
    <3>1. i - 1 = N
      BY <1>1, <2>2
    <3> QED
      BY <1>1, <2>1, <2>2, <3>1 DEF Counted
  <2>3. CASE i # N + 1
    <3>1. ~(2 + N <= Len(file))
      BY <1>1, <2>1, <2>3
    <3>2. offset >= DataStart
      <4>1. CASE i = 1
        BY <1>1, <2>1, <4>1 DEF EndOf
      <4>2. CASE i # 1
        <5>1. i - 1 \in 1 .. N /\ i - 1 + 2 <= Len(file)
          BY <1>1, <2>1, <4>2
        <5> QED
          BY <2>1, <5>1, Ends
      <4> QED
        BY <4>1, <4>2
    <3>3. offset \in Int
      <4>1. CASE i = 1
        BY <1>1, <2>1, <4>1 DEF EndOf
      <4>2. CASE i # 1
        <5>1. i - 1 \in 1 .. N /\ i - 1 + 2 <= Len(file)
          BY <1>1, <2>1, <4>2
        <5> QED
          BY <2>1, <5>1, Ends
      <4> QED
        BY <4>1, <4>2
    <3> QED
      BY <1>1, <3>1, <3>2, <3>3 DEF Counted
  <2> QED
    BY <2>2, <2>3
<1>5. CASE at \in {"write_nuls", "write_app", "write_sort", "write_data"}
  <2>1. offset = EndOf(N) /\ 2 + N <= Len(file)
    BY <1>1, <1>5 DEF WriteInv, Written
  <2> QED
    BY <2>1 DEF Counted
<1> QED
  BY <1>2, <1>3, <1>4, <1>5 DEF WriteSteps

(* What happens to the file in the step that ends the writing.             *)
LEMMA CutOne ==
    ASSUME NEW x, CutShort(<<x>>), file \in Seq(Unit)
    PROVE  file' = file /\ UNCHANGED <<db, nuls, offset>>
<1>1. Len(<<x>>) = 1
  OBVIOUS
<1>2. PICK n \in 0 .. (Len(<<x>>) - 1) : file' = file \o SubSeq(<<x>>, 1, n)
  BY DEF CutShort, Writes
<1>3. n = 0 /\ SubSeq(<<x>>, 1, 0) = <<>>
  BY <1>1, <1>2
<1>4. file' = file
  BY <1>2, <1>3
<1> QED
  BY <1>4 DEF CutShort

LEMMA CutMore ==
    ASSUME WriteInv, Counted, 2 + N <= Len(file), NEW units \in Seq(Unit), CutShort(units)
    PROVE  Counted'
<1>1. PICK n \in 0 .. (Len(units) - 1) : file' = file \o SubSeq(units, 1, n)
  BY DEF CutShort, Writes
<1>2. UNCHANGED <<db, nuls, offset>>
  BY DEF CutShort
<1>3. FileOK(file) /\ N \in Nat /\ Len(units) \in Nat
  BY ReadFacts, LenProperties
<1>4. SubSeq(units, 1, n) \in Seq(Unit)
  BY <1>1, <1>3, SubSeqProperties
<1>5. /\ Len(file') >= Len(file) /\ Len(file) \in Nat /\ Len(file') \in Nat
      /\ \A p \in 1 .. Len(file) : file'[p] = file[p]
  <2>1. /\ Len(file') = Len(file) + Len(SubSeq(units, 1, n)) /\ Len(file) \in Nat
        /\ Len(SubSeq(units, 1, n)) \in Nat
        /\ \A p \in 1 .. Len(file) : file'[p] = file[p]
    BY <1>1, <1>3, <1>4, Added
  <2> QED
    BY <2>1
<1>6. N' = N /\ DataStart' = DataStart
  BY <1>2 DEF N, DataStart, HeadLen, Size
<1>7. N # 0 => file'[N + 2] = file[N + 2]
  BY <1>3, <1>5
<1>8. EndOf(N)' = EndOf(N)
  BY <1>2, <1>6, <1>7 DEF EndOf
<1>9. offset = EndOf(N)
  BY DEF Counted
<1> QED
  BY <1>2, <1>3, <1>5, <1>6, <1>8, <1>9 DEF Counted

LEMMA CountedSame == ASSUME Counted, UNCHANGED <<db, nuls, file, offset>> PROVE Counted'
BY DEF Counted, EndOf, N, DataStart, HeadLen, Size

LEMMA CountedStep ==
    ASSUME WriteInv, Counted, [Next]_fileVars, at' \notin WriteSteps
    PROVE  Counted'
<1>1. /\ N \in Nat /\ Len(file) \in Nat /\ file \in Seq(Unit) /\ db \in Databases /\ nuls \in {0, 1}
      /\ HeadLen \in Nat /\ HeadLen >= 2 + N /\ Size(db.app) \in Nat /\ Size(db.sort) \in Nat
      /\ DataStart \in Nat /\ DataStart >= HeadLen
  <2>1. /\ N \in Nat /\ Len(file) \in Nat /\ file \in Seq(Unit) /\ db \in Databases
        /\ nuls \in {0, 1}
    BY ReadFacts
  <2> QED
    BY <2>1, DbFacts
<1>2. CASE WriteHeader
  <2>1. CutShort(<<Header>>)
    BY <1>2 DEF WriteHeader, WriteSteps
  <2> QED
    BY <1>1, <2>1, CutOne, CountedSame
<1>3. CASE WriteList
  <2>1. CutShort(<<[kind |-> "list", n |-> Len(db.recs)]>>)
    BY <1>3 DEF WriteList, WriteSteps
  <2> QED
    BY <1>1, <2>1, CutOne, CountedSame
<1>4. CASE WriteEntry
  <2>1. CutShort(<<Entry(db.recs[i])>>)
    BY <1>4 DEF WriteEntry, WriteSteps
  <2> QED
    BY <1>1, <2>1, CutOne, CountedSame
<1>5. CASE WriteNuls
  <2> DEFINE pair == [k \in 1 .. nuls |-> [kind |-> "nuls"]]
  <2>1. CutShort(pair)
    BY <1>5 DEF WriteNuls, WriteSteps
  <2>2. pair \in Seq(Unit)
    <3>1. [kind |-> "nuls"] \in Unit
      BY DEF Unit, NulsUnit
    <3>2. nuls \in Nat
      BY <1>1
    <3> QED
      BY <3>1, <3>2
  <2>3. 2 + N <= Len(file)
    BY <1>1, <1>5 DEF WriteNuls, WriteInv, Written
  <2> HIDE DEF pair
  <2> QED
    BY <2>1, <2>2, <2>3, CutMore
<1>6. CASE WriteBlock("write_app", AppItem, db.app, "write_sort")
  <2>1. CutShort(Bytes(AppItem, Size(db.app)))
    BY <1>6 DEF WriteBlock, WriteSteps
  <2>2. Bytes(AppItem, Size(db.app)) \in Seq(Unit)
    BY <1>1, BytesTyped DEF AppItem
  <2>3. 2 + N <= Len(file)
    BY <1>1, <1>6 DEF WriteBlock, WriteInv, Written
  <2> QED
    BY <2>1, <2>2, <2>3, CutMore
<1>7. CASE WriteBlock("write_sort", SortItem, db.sort, "write_data")
  <2>1. CutShort(Bytes(SortItem, Size(db.sort)))
    BY <1>7 DEF WriteBlock, WriteSteps
  <2>2. Bytes(SortItem, Size(db.sort)) \in Seq(Unit)
    BY <1>1, BytesTyped DEF SortItem
  <2>3. 2 + N <= Len(file)
    BY <1>1, <1>7 DEF WriteBlock, WriteInv, Written
  <2> QED
    BY <2>1, <2>2, <2>3, CutMore
<1>8. CASE WriteData
  <2>1. 2 + N <= Len(file) /\ i \in 1 .. (N + 1) /\ N = Len(db.recs)
    BY <1>1, <1>8 DEF WriteData, WriteInv, Written, N
  <2>2. CASE i > N
    <3>1. UNCHANGED <<db, nuls, file, offset>>
      BY <1>8, <2>1, <2>2 DEF WriteData
    <3> QED
      BY <3>1, CountedSame
  <2>3. CASE ~(i > N)
    <3>1. i \in 1 .. N
      BY <1>1, <2>1, <2>3
    <3>2. CutShort(Bytes(RecItem(i), db.recs[i].len))
      BY <1>8, <2>1, <2>3 DEF WriteData, WriteSteps
    <3>3. Bytes(RecItem(i), db.recs[i].len) \in Seq(Unit)
      <4>1. RecItem(i) \in Nat /\ db.recs[i].len \in Nat
        BY <1>1, <3>1, DbFacts DEF RecItem
      <4> QED
        BY <4>1, BytesTyped
    <3> QED
      BY <2>1, <3>2, <3>3, CutMore
  <2> QED
    BY <2>2, <2>3
<1>9. CASE Crash
  BY <1>9, CountedSame DEF Crash
<1>10. CASE Load
  BY <1>10, ReadKeepsFile, CountedSame
<1>11. CASE UNCHANGED fileVars
  BY <1>11, CountedSame DEF fileVars
<1> QED
  BY <1>2, <1>3, <1>4, <1>5, <1>6, <1>7, <1>8, <1>9, <1>10, <1>11 DEF Next, Write

Intact == Complete /\ (LengthCounts => Len(file) < Word)

(* A file that is complete is read without a refusal and without a loss.   *)
Whole ==
    /\ at # "refused"
    /\ at \in PastApp  => SameApp
    /\ at \in PastSort => SameSort
    /\ at = "read_data" => \A k \in 1 .. (i - 1) : SameData(k)
    /\ at = "done"      => \A k \in 1 .. N : SameData(k)

WholeInv == at \notin WriteSteps => Counted /\ (Intact => Whole)

LEMMA CompleteFile ==
    ASSUME WriteInv, Counted, Complete
    PROVE  /\ Len(file) \in Nat /\ 2 + N <= Len(file) /\ Len(file) = EndOf(N)
           /\ Len(file) >= DataStart /\ (N = 0 => Len(file) = DataStart)
           /\ DataStart = HeadLen + Size(db.app) + Size(db.sort)
           /\ HeadLen \in Nat /\ HeadLen > 0 /\ Size(db.app) \in Nat /\ Size(db.sort) \in Nat
           /\ N \in Nat
<1>1. /\ N \in Nat /\ Len(file) \in Nat /\ HeadLen \in Nat /\ HeadLen > 0
      /\ Size(db.app) \in Nat /\ Size(db.sort) \in Nat
      /\ DataStart = HeadLen + Size(db.app) + Size(db.sort)
  <2>1. N \in Nat /\ Len(file) \in Nat /\ db \in Databases /\ nuls \in {0, 1}
    BY ReadFacts
  <2> QED
    BY <2>1, DbFacts DEF DataStart
<1>2. 2 + N <= Len(file) /\ Len(file) = EndOf(N)
  BY <1>1 DEF Counted, Complete
<1>3. Len(file) >= DataStart /\ (N = 0 => Len(file) = DataStart)
  <2>1. CASE N = 0
    BY <1>1, <1>2, <2>1 DEF EndOf
  <2>2. CASE N # 0
    <3>1. N \in 1 .. N /\ N + 2 <= Len(file)
      BY <1>1, <1>2, <2>2
    <3> QED
      BY <1>2, <2>2, <3>1, Ends
  <2> QED
    BY <2>1, <2>2
<1> QED
  BY <1>1, <1>2, <1>3

LEMMA NoRecords == ASSUME WriteInv, N = 0 PROVE db.recs = <<>>
<1>1. db.recs \in Seq(Records) /\ Len(db.recs) = 0
  BY ReadFacts, DbFacts DEF N
<1> QED
  BY <1>1

LEMMA AppWhole ==
    ASSUME WriteInv, Counted, Intact, HeaderRead, ListRead, EntriesRead(N),
           NEW len, len = IF got.appOff = 0 THEN 0 ELSE AfterApp - got.appOff
    PROVE  len = Size(db.app) /\ Readable(got.appOff, len)
<1>1. /\ Len(file) \in Nat /\ Len(file) >= DataStart /\ (N = 0 => Len(file) = DataStart)
      /\ DataStart = HeadLen + Size(db.app) + Size(db.sort)
      /\ HeadLen \in Nat /\ HeadLen > 0 /\ Size(db.app) \in Nat /\ Size(db.sort) \in Nat
      /\ N \in Nat /\ 2 + N <= Len(file)
  BY CompleteFile DEF Intact
<1>2. /\ len \in Int /\ got.appOff = PlaceIn(file, AppItem)
      /\ (N > 0 \/ db.sort # NULL \/ db.app = NULL => len = Size(db.app))
      /\ (N = 0 /\ Len(file) = DataStart /\ Len(file) < Word => len = Size(db.app))
  BY AppLength
<1>3. len = Size(db.app)
  <2>1. CASE N > 0 \/ db.app = NULL
    BY <1>2, <2>1
  <2>2. CASE N = 0 /\ db.app # NULL
    <3>1. Len(file) < Word
      BY <2>2, NoRecords DEF Intact, LengthCounts
    <3> QED
      BY <1>1, <1>2, <2>2, <3>1
  <2> QED
    BY <1>1, <2>1, <2>2
<1>4. Readable(got.appOff, len)
  <2>1. CASE len = 0
    BY <2>1 DEF Readable
  <2>2. CASE len # 0
    <3>1. len > 0 /\ ItemLen(AppItem) > 0
      BY <1>1, <1>3, <2>2 DEF ItemLen
    <3>2. got.appOff = HeadLen
      BY <1>1, <1>2, <3>1, NextPlace
    <3> QED
      BY <1>1, <1>3, <3>1, <3>2 DEF Readable
  <2> QED
    BY <2>1, <2>2
<1> QED
  BY <1>3, <1>4

LEMMA SortWhole ==
    ASSUME WriteInv, Counted, Intact, HeaderRead, ListRead, EntriesRead(N),
           NEW len, len = IF got.sortOff = 0 THEN 0 ELSE AfterSort - got.sortOff
    PROVE  len = Size(db.sort) /\ Readable(got.sortOff, len)
<1>1. /\ Len(file) \in Nat /\ Len(file) >= DataStart /\ (N = 0 => Len(file) = DataStart)
      /\ DataStart = HeadLen + Size(db.app) + Size(db.sort)
      /\ HeadLen \in Nat /\ HeadLen > 0 /\ Size(db.app) \in Nat /\ Size(db.sort) \in Nat
      /\ N \in Nat /\ 2 + N <= Len(file)
  BY CompleteFile DEF Intact
<1>2. /\ len \in Int /\ got.sortOff = PlaceIn(file, SortItem)
      /\ (N > 0 \/ db.sort = NULL => len = Size(db.sort))
      /\ (N = 0 /\ Len(file) = DataStart /\ Len(file) < Word => len = Size(db.sort))
  BY SortLength
<1>3. len = Size(db.sort)
  <2>1. CASE N > 0 \/ db.sort = NULL
    BY <1>2, <2>1
  <2>2. CASE N = 0 /\ db.sort # NULL
    <3>1. Len(file) < Word
      BY <2>2, NoRecords DEF Intact, LengthCounts
    <3> QED
      BY <1>1, <1>2, <2>2, <3>1
  <2> QED
    BY <1>1, <2>1, <2>2
<1>4. Readable(got.sortOff, len)
  <2>1. CASE len = 0
    BY <2>1 DEF Readable
  <2>2. CASE len # 0
    <3>1. len > 0 /\ ItemLen(SortItem) > 0
      BY <1>1, <1>3, <2>2 DEF ItemLen, AppItem, SortItem
    <3>2. got.sortOff = HeadLen + Size(db.app)
      BY <1>1, <1>2, <3>1, NextPlace
    <3> QED
      BY <1>1, <1>3, <3>1, <3>2 DEF Readable
  <2> QED
    BY <2>1, <2>2
<1> QED
  BY <1>3, <1>4

LEMMA RecordWhole ==
    ASSUME WriteInv, Counted, Intact, HeaderRead, ListRead, EntriesRead(N), NEW k \in 1 .. N,
           NEW off, off = got.recs[k].off,
           NEW next, next = IF k = got.n THEN file_size ELSE got.recs[k + 1].off,
           NEW len, len = (next - off) % Word
    PROVE  len = db.recs[k].len /\ Readable(off, len)
<1>1. /\ Len(file) \in Nat /\ Len(file) = EndOf(N) /\ N \in Nat /\ 2 + N <= Len(file)
  BY CompleteFile DEF Intact
<1>2. /\ off \in Nat
      /\ (k < N => len = db.recs[k].len)
      /\ (k = N /\ Len(file) = off + db.recs[k].len => len = db.recs[k].len)
  BY RecordLength
<1>3. /\ off = file[k + 2].off /\ EndOf(k) = off + db.recs[k].len /\ EndOf(k) <= EndOf(N)
      /\ EndOf(k) \in Nat /\ db.recs[k].len \in Nat
  <2>1. k + 2 <= Len(file)
    BY <1>1
  <2>2. off = file[k + 2].off
    BY DEF EntriesRead, EntryRead
  <2> QED
    BY <1>1, <2>1, <2>2, Ends, ReadFacts, DbFacts
<1>4. len = db.recs[k].len
  BY <1>1, <1>2, <1>3
<1>5. Readable(off, len)
  BY <1>1, <1>2, <1>3, <1>4 DEF Readable
<1> QED
  BY <1>4, <1>5

LEMMA SameStays ==
    ASSUME UNCHANGED db
    PROVE  /\ SameApp /\ got'.app = got.app => SameApp'
           /\ SameSort /\ got'.sort = got.sort => SameSort'
           /\ \A k : SameData(k) /\ got'.recs[k].data = got.recs[k].data => SameData(k)'
BY DEF SameApp, SameSort, SameData, Bytes, Size, RecItem

LEMMA EarlyWhole ==
    ASSUME at' \in {"stopped", "written", "read_header", "read_list", "read_index", "read_app"}
    PROVE  Whole'
<1>1. at' \notin PastApp /\ at' \notin PastSort /\ at' \notin {"refused", "read_data", "done"}
  BY DEF PastApp, PastSort
<1> QED
  BY <1>1 DEF Whole, PastApp, PastSort

LEMMA IndexWhole ==
    ASSUME WriteInv, ReadInv, Counted, Intact,
           OpenFile \/ LoadHeader \/ LoadRecListHeader \/ LoadIndex
    PROVE  Whole'
<1>1. Len(file) \in Nat /\ 2 + N <= Len(file) /\ N \in Nat
  BY CompleteFile DEF Intact
<1>2. CASE OpenFile
  BY <1>2, EarlyWhole DEF OpenFile, ToRead
<1>3. CASE LoadHeader
  <2>1. Readable(0, 1)
    BY <1>1 DEF Readable
  <2> QED
    BY <1>3, <2>1, EarlyWhole DEF LoadHeader, ToRead
<1>4. CASE LoadRecListHeader
  <2>1. Readable(1, 1)
    BY <1>1 DEF Readable
  <2> QED
    BY <1>4, <2>1, EarlyWhole DEF LoadRecListHeader, ToRead
<1>5. CASE LoadIndex
  <2>1. at = "read_index" /\ i \in 1 .. (N + 1) /\ got.n = N
    BY <1>5 DEF LoadIndex, ReadInv, PastList, ListRead
  <2>2. CASE i > got.n
    BY <1>5, <2>2, EarlyWhole DEF LoadIndex, ToRead
  <2>3. CASE i <= got.n
    <3>1. Readable(i + 1, 1) /\ ~(i > got.n)
      BY <1>1, <2>1, <2>3 DEF Readable
    <3>2. at' = at
      BY <1>5, <2>3, <3>1 DEF LoadIndex, ToRead
    <3> QED
      BY <2>1, <3>2, EarlyWhole
  <2> QED
    BY <1>1, <2>1, <2>2, <2>3
<1> QED
  BY <1>2, <1>3, <1>4, <1>5

LEMMA AppBlockWhole ==
    ASSUME WriteInv, ReadInv, Counted, Intact, LoadAppBlock
    PROVE  Whole'
<1>1. /\ at = "read_app" /\ got \in GotType /\ HeaderRead /\ ListRead /\ EntriesRead(N)
      /\ 2 + N <= Len(file)
  BY CompleteFile DEF LoadAppBlock, ReadInv, PastHeader, PastList, PastIndex, Intact
<1>2. PICK len : len = IF got.appOff = 0 THEN 0 ELSE AfterApp - got.appOff
  OBVIOUS
<1>3. len = Size(db.app) /\ Readable(got.appOff, len)
  BY <1>1, <1>2, AppWhole
<1>4. /\ at' = "read_sort" /\ UNCHANGED <<db, file>>
      /\ got' = [got EXCEPT !.app = Read(got.appOff, len)]
  BY <1>2, <1>3 DEF LoadAppBlock, ToRead
<1>5. Read(got.appOff, len) = Bytes(AppItem, len)
  <2>1. AppItem \in Items /\ ItemLen(AppItem) = Size(db.app) /\ got.appOff = PlaceIn(file, AppItem)
    BY <1>1, AppLength, NextPlace
  <2>2. len \in 0 .. ItemLen(AppItem)
    BY <1>3, <2>1, ReadFacts, DbFacts
  <2> QED
    BY <1>1, <1>3, <2>1, <2>2, ReadFacts, ReadsItem
<1>6. got'.app = Bytes(AppItem, Size(db.app))
  BY <1>1, <1>3, <1>4, <1>5 DEF GotType
<1>7. SameApp'
  BY <1>4, <1>6 DEF SameApp, Bytes, Size
<1>8. at' \notin PastSort /\ at' \notin {"refused", "read_data", "done"}
  BY <1>4 DEF PastSort
<1> QED
  BY <1>7, <1>8 DEF Whole, PastApp, PastSort

LEMMA SortBlockWhole ==
    ASSUME WriteInv, ReadInv, Counted, Intact, Whole, LoadSortBlock
    PROVE  Whole'
<1>1. /\ at = "read_sort" /\ got \in GotType /\ HeaderRead /\ ListRead /\ EntriesRead(N)
      /\ 2 + N <= Len(file) /\ i = 1 /\ SameApp
  BY CompleteFile DEF LoadSortBlock, ReadInv, PastHeader, PastList, PastIndex, PastApp, Intact, Whole
<1>2. PICK len : len = IF got.sortOff = 0 THEN 0 ELSE AfterSort - got.sortOff
  OBVIOUS
<1>3. len = Size(db.sort) /\ Readable(got.sortOff, len)
  BY <1>1, <1>2, SortWhole
<1>4. /\ at' = "read_data" /\ i' = i /\ UNCHANGED <<db, file>>
      /\ got' = [got EXCEPT !.sort = Read(got.sortOff, len)]
  BY <1>2, <1>3 DEF LoadSortBlock, ToRead
<1>5. Read(got.sortOff, len) = Bytes(SortItem, len)
  <2>1. /\ SortItem \in Items /\ ItemLen(SortItem) = Size(db.sort)
        /\ got.sortOff = PlaceIn(file, SortItem)
    BY <1>1, SortLength, NextPlace
  <2>2. len \in 0 .. ItemLen(SortItem)
    BY <1>3, <2>1, ReadFacts, DbFacts
  <2> QED
    BY <1>1, <1>3, <2>1, <2>2, ReadFacts, ReadsItem
<1>6. got'.sort = Bytes(SortItem, Size(db.sort)) /\ got'.app = got.app
  BY <1>1, <1>3, <1>4, <1>5 DEF GotType
<1>7. SameSort' /\ SameApp'
  BY <1>1, <1>4, <1>6, SameStays DEF SameSort, Bytes, Size
<1>8. at' \notin {"refused", "done"} /\ 1 .. (i' - 1) = {}
  BY <1>1, <1>4
<1> QED
  BY <1>7, <1>8 DEF Whole, PastApp, PastSort

LEMMA RecordsWhole ==
    ASSUME WriteInv, ReadInv, Counted, Intact, Whole, LoadRecords
    PROVE  Whole'
<1>1. /\ at = "read_data" /\ got \in GotType /\ HeaderRead /\ ListRead /\ EntriesRead(N)
      /\ 2 + N <= Len(file) /\ i \in 1 .. (N + 1) /\ SameApp /\ SameSort /\ N \in Nat
      /\ got.n = N /\ \A k \in 1 .. (i - 1) : SameData(k)
  <2>1. 2 + N <= Len(file) /\ N \in Nat
    BY CompleteFile DEF Intact
  <2> QED
    BY <2>1 DEF LoadRecords, ReadInv, PastHeader, PastList, PastIndex, PastApp, PastSort, Whole,
       ListRead
<1>2. CASE i > got.n
  <2>1. at' = "done" /\ UNCHANGED <<db, got>>
    BY <1>2 DEF LoadRecords, ToRead
  <2>2. \A k \in 1 .. N : SameData(k)
    BY <1>1, <1>2
  <2>3. SameApp' /\ SameSort' /\ (\A k \in 1 .. N : SameData(k)') /\ N' = N
    BY <1>1, <2>1, <2>2, SameStays DEF N
  <2> QED
    BY <2>1, <2>3 DEF Whole, PastApp, PastSort
<1>3. CASE i <= got.n
  <2>1. PICK off, next, len :
          /\ off = got.recs[i].off
          /\ next = IF i = got.n THEN file_size ELSE got.recs[i + 1].off
          /\ len = (next - off) % Word
    OBVIOUS
  <2>2. LoadRecord(off, len)
    BY <1>1, <1>3, <2>1 DEF LoadRecords
  <2>3. i \in 1 .. N
    BY <1>1, <1>3
  <2>4. len = db.recs[i].len /\ Readable(off, len)
    BY <1>1, <2>1, <2>3, RecordWhole
  <2>5. /\ at' = "read_data" /\ i' = i + 1 /\ UNCHANGED <<db, file>>
        /\ got' = [got EXCEPT !.recs[i].data = Read(off, len)]
    BY <1>1, <2>2, <2>4 DEF LoadRecord, ToRead
  <2>6. Read(off, len) = Bytes(RecItem(i), db.recs[i].len)
    <3>1. /\ off = PlaceIn(file, RecItem(i)) /\ RecItem(i) \in Items
          /\ ItemLen(RecItem(i)) = db.recs[i].len /\ len \in 0 .. ItemLen(RecItem(i))
      BY <1>1, <2>1, <2>3, <2>4, RecordLength
    <3> QED
      BY <1>1, <2>4, <3>1, ReadFacts, ReadsItem
  <2>7. /\ got.recs \in Seq(GotRec) /\ Len(got.recs) = N /\ got.recs[i] \in GotRec
    BY <1>1, <2>3, ElementOfSeq DEF EntriesRead, GotType
  <2>8. /\ got'.app = got.app /\ got'.sort = got.sort
        /\ got'.recs[i].data = Bytes(RecItem(i), db.recs[i].len)
        /\ \A k \in 1 .. N : k # i => got'.recs[k] = got.recs[k]
    <3>1. got'.app = got.app /\ got'.sort = got.sort
      BY <1>1, <2>5 DEF GotType
    <3>2. got'.recs = [got.recs EXCEPT ![i] = [got.recs[i] EXCEPT !.data = Read(off, len)]]
      BY <1>1, <2>5, <2>7 DEF GotType
    <3>3. DOMAIN got.recs = 1 .. N
      BY <2>7, LenProperties
    <3>4. [got.recs[i] EXCEPT !.data = Read(off, len)].data = Read(off, len)
      BY <2>7 DEF GotRec
    <3> QED
      BY <2>3, <2>6, <3>1, <3>2, <3>3, <3>4
  <2>9. SameApp' /\ SameSort'
    BY <1>1, <2>5, <2>8, SameStays
  <2>10. \A k \in 1 .. i : SameData(k)'
    <3>1. ASSUME NEW k \in 1 .. N, k < i PROVE SameData(k)'
      <4>1. k \in 1 .. (i - 1)
        BY <1>1, <2>3, <3>1
      <4>2. got'.recs[k].data = got.recs[k].data
        BY <1>1, <2>3, <2>8, <3>1
      <4> QED
        BY <1>1, <2>5, <4>1, <4>2, SameStays
    <3>2. ASSUME NEW k \in 1 .. N, k = i PROVE SameData(k)'
      BY <2>5, <2>8, <3>2 DEF SameData, Bytes, RecItem
    <3> QED
      BY <1>1, <2>3, <3>1, <3>2
  <2>11. 1 .. (i' - 1) = 1 .. i
    BY <1>1, <2>3, <2>5
  <2> QED
    BY <2>5, <2>9, <2>10, <2>11 DEF Whole, PastApp, PastSort
<1> QED
  BY <1>1, <1>2, <1>3

LEMMA WholeInvStep ==
    ASSUME WriteInv, ReadInv, WholeInv, [Next]_fileVars
    PROVE  WholeInv'
<1> SUFFICES ASSUME at' \notin WriteSteps
    PROVE Counted' /\ (Intact' => Whole')
  <2>1. WriteSteps' = WriteSteps
    BY DEF WriteSteps
  <2> QED
    BY <2>1 DEF WholeInv
<1>1. Counted
  <2>1. CASE at \in WriteSteps
    BY <2>1, CountedWriting
  <2>2. CASE at \notin WriteSteps
    BY <2>2 DEF WholeInv
  <2> QED
    BY <2>1, <2>2
<1>2. Counted'
  BY <1>1, CountedStep
<1>3. CASE Write \/ Crash
  <2>1. at' \in {"stopped", "written"}
    BY <1>3 DEF Write, Crash, WriteHeader, WriteList, WriteEntry, WriteNuls, WriteBlock, WriteData,
       CutShort, WriteSteps
  <2> QED
    BY <1>2, <2>1, EarlyWhole
<1>4. CASE Load
  <2>1. UNCHANGED <<db, nuls, file, offset>>
    BY <1>4, ReadKeepsFile
  <2>2. Intact' => Intact
    BY <2>1 DEF Intact, Complete, LengthCounts
  <2>3. at \notin WriteSteps
    BY <1>4 DEF Load, OpenFile, LoadHeader, LoadRecListHeader, LoadIndex, LoadAppBlock,
       LoadSortBlock, LoadRecords, WriteSteps
  <2>4. Intact => Whole
    BY <2>3 DEF WholeInv
  <2>5. Intact => Whole'
    BY <1>1, <1>4, <2>4, IndexWhole, AppBlockWhole, SortBlockWhole, RecordsWhole DEF Load
  <2> QED
    BY <1>2, <2>2, <2>5
<1>5. CASE UNCHANGED fileVars
  <2>1. at' = at /\ i' = i /\ UNCHANGED <<db, nuls, file, offset, got>> /\ at \notin WriteSteps
    BY <1>5 DEF fileVars
  <2>2. (Intact' => Intact) /\ (Intact => Whole) /\ N' = N
    BY <2>1 DEF Intact, Complete, LengthCounts, WholeInv, N
  <2>3. Whole => Whole'
    BY <2>1, <2>2, SameStays DEF Whole, PastApp, PastSort
  <2> QED
    BY <1>2, <2>2, <2>3
<1> QED
  BY <1>3, <1>4, <1>5 DEF Next

LEMMA WholeInvInit == ASSUME Init PROVE WholeInv
BY DEF Init, WholeInv, WriteSteps

LEMMA ComesBack == ASSUME WriteInv, ReadInv, WholeInv PROVE RoundTrip
<1> SUFFICES ASSUME Reading, Intact
    PROVE  /\ at # "refused"
           /\ at = "done" =>
                 /\ got.res = db.res /\ SameApp /\ SameSort /\ Len(got.recs) = Len(db.recs)
                 /\ \A k \in DOMAIN db.recs : SameEntry(k) /\ SameData(k)
  BY DEF RoundTrip, Intact
<1>1. Whole
  BY DEF WholeInv, Reading, ReadSteps, WriteSteps
<1>2. N = Len(db.recs) /\ DOMAIN db.recs = 1 .. N
  <2>1. db.recs \in Seq(Records)
    BY ReadFacts, DbFacts
  <2> QED
    BY <2>1, LenProperties DEF N
<1>3. at = "done" => HeaderRead /\ EntriesRead(N)
  BY DEF ReadInv, PastHeader, PastList, PastIndex, PastApp, PastSort
<1>4. at = "done" => SameApp /\ SameSort /\ \A k \in 1 .. N : SameData(k)
  BY <1>1 DEF Whole, PastApp, PastSort
<1> QED
  BY <1>1, <1>2, <1>3, <1>4 DEF Whole, HeaderRead, EntriesRead, EntryRead

(* A database of any records that was written to the end is never refused  *)
(* and comes back as it was, up to what the format has no room for.        *)
THEOREM WhatIsWrittenComesBack == Spec => []RoundTrip
<1>1. Init => WholeInv
  BY WholeInvInit
<1>2. WriteInv /\ ReadInv /\ WholeInv /\ [Next]_fileVars => WholeInv'
  BY WholeInvStep
<1>3. WriteInv /\ ReadInv /\ WholeInv => RoundTrip
  BY ComesBack
<1> QED
  BY <1>1, <1>2, <1>3, FileInvariant, ReadInvariant, PTL DEF Spec

-----------------------------------------------------------------------------
(* Types                                                                   *)
Steps == WriteSteps \union ReadSteps \union {"stopped", "written", "refused", "done"}

GotFits ==
    /\ got.n \in 0 .. MaxRecs /\ Len(got.recs) <= got.n
    /\ \A k \in 1 .. Len(got.recs) : ~got.res => got.recs[k].id < IdSpan

Fits == at \in Steps /\ i \in 1 .. (MaxRecs + 1) /\ offset \in Nat /\ GotFits

(* What changes of i and of the offset.                                    *)
LEMMA CountsFit ==
    ASSUME WriteInv, ReadInv, Fits, [Next]_fileVars
    PROVE  at' \in Steps /\ i' \in 1 .. (MaxRecs + 1) /\ offset' \in Nat
<1>1. /\ N = Len(db.recs) /\ N \in 0 .. MaxRecs /\ MaxRecs \in Nat
      /\ Size(db.app) \in Nat /\ Size(db.sort) \in Nat
      /\ (\A k \in 1 .. N : db.recs[k].len \in Nat)
  <2>1. db \in Databases /\ nuls \in {0, 1}
    BY ReadFacts
  <2> QED
    BY <2>1, DbFacts, PdbFileAssumption DEF N
<1>2. /\ at \in Steps /\ i \in 1 .. (MaxRecs + 1) /\ offset \in Nat /\ got.n \in 0 .. MaxRecs
  BY DEF Fits, GotFits
<1>3. CASE Write
  <2>1. at' \in Steps
    BY <1>2, <1>3 DEF Write, WriteHeader, WriteList, WriteEntry, WriteNuls, WriteBlock, WriteData,
       CutShort, WriteSteps, Steps
  <2>2. CASE WriteHeader
    BY <1>1, <1>2, <2>1, <2>2 DEF WriteHeader, CutShort
  <2>3. CASE WriteList \/ WriteNuls
    BY <1>2, <2>1, <2>3 DEF WriteList, WriteNuls, CutShort
  <2>4. CASE WriteEntry
    <3>1. CASE i > Len(db.recs)
      BY <1>1, <1>2, <2>1, <2>4, <3>1 DEF WriteEntry
    <3>2. CASE ~(i > Len(db.recs))
      <4>1. i \in 1 .. N /\ db.recs[i].len \in Nat
        BY <1>1, <1>2, <3>2
      <4>2. \/ i' = i + 1 /\ offset' = offset + db.recs[i].len
            \/ CutShort(<<Entry(db.recs[i])>>)
        BY <2>4, <3>2 DEF WriteEntry
      <4>3. CutShort(<<Entry(db.recs[i])>>) => i' = i /\ offset' = offset
        BY DEF CutShort
      <4>4. i' \in {i, i + 1} /\ offset' \in {offset, offset + db.recs[i].len}
        BY <4>2, <4>3
      <4>5. i + 1 \in 1 .. (MaxRecs + 1) /\ offset + db.recs[i].len \in Nat
        BY <1>1, <1>2, <4>1
      <4> QED
        BY <1>2, <2>1, <4>4, <4>5
    <3> QED
      BY <3>1, <3>2
  <2>5. CASE WriteBlock("write_app", AppItem, db.app, "write_sort")
             \/ WriteBlock("write_sort", SortItem, db.sort, "write_data")
    BY <1>2, <2>1, <2>5 DEF WriteBlock, CutShort
  <2>6. CASE WriteData
    BY <1>1, <1>2, <2>1, <2>6 DEF WriteData, CutShort
  <2> QED
    BY <1>3, <2>2, <2>3, <2>4, <2>5, <2>6 DEF Write
<1>4. CASE Crash
  BY <1>2, <1>4 DEF Crash, Steps
<1>5. CASE Load
  <2>1. at' \in Steps /\ offset' \in Nat
    BY <1>2, <1>5, ReadKeepsFile DEF Steps
  <2>2. i' = i \/ i' = 1 \/ (i' = i + 1 /\ i <= got.n)
    <3>1. CASE OpenFile \/ LoadHeader \/ LoadRecListHeader \/ LoadAppBlock \/ LoadSortBlock
      BY <3>1 DEF OpenFile, LoadHeader, LoadRecListHeader, LoadAppBlock, LoadSortBlock, Refuse
    <3>2. CASE LoadIndex
      BY <1>2, <3>2 DEF LoadIndex, Refuse
    <3>3. CASE LoadRecords
      <4>1. CASE i > got.n
        BY <3>3, <4>1 DEF LoadRecords
      <4>2. CASE ~(i > got.n)
        <5>1. \E off, len : LoadRecord(off, len)
          BY <3>3, <4>2 DEF LoadRecords
        <5> QED
          BY <1>2, <4>2, <5>1 DEF LoadRecord, Refuse
      <4> QED
        BY <4>1, <4>2
    <3> QED
      BY <1>5, <3>1, <3>2, <3>3 DEF Load
  <2> QED
    BY <1>1, <1>2, <2>1, <2>2
<1>6. CASE UNCHANGED fileVars
  BY <1>2, <1>6 DEF fileVars, Steps
<1> QED
  BY <1>3, <1>4, <1>5, <1>6 DEF Next

(* What pdb_Read adds to the database that it builds.                      *)
LEMMA GotStaysFit ==
    ASSUME GotFits, got'.n = got.n, got'.res = got.res, Len(got'.recs) = Len(got.recs),
           \A k \in 1 .. Len(got.recs) : got'.recs[k].id = got.recs[k].id
    PROVE  GotFits'
BY DEF GotFits

LEMMA GotFitsStep ==
    ASSUME WriteInv, ReadInv, Fits, [Next]_fileVars
    PROVE  GotFits'
<1>1. GotFits /\ got \in GotType /\ got.recs \in Seq(GotRec) /\ MaxRecs \in Nat /\ IdSpan \in Nat \ {0}
  BY PdbFileAssumption DEF Fits, ReadInv, GotType
<1>2. Len(got.recs) \in Nat /\ DOMAIN got.recs = 1 .. Len(got.recs)
  BY <1>1, LenProperties
<1>3. CASE UNCHANGED got
  BY <1>1, <1>3, GotStaysFit
<1>4. CASE LoadHeader /\ ~(UNCHANGED got)
  <2>1. /\ at = "read_header" /\ got' = [got EXCEPT !.res = file[1].res, !.appOff = file[1].app,
                                                   !.sortOff = file[1].sort]
    BY <1>4 DEF LoadHeader, Refuse
  <2>2. got.recs = <<>> /\ got'.recs = got.recs /\ got'.n = got.n
    BY <1>1, <2>1 DEF ReadInv, GotType
  <2> QED
    BY <1>1, <2>2 DEF GotFits
<1>5. CASE LoadRecListHeader /\ ~(UNCHANGED got)
  <2>1. at = "read_list" /\ Readable(1, 1) /\ got' = [got EXCEPT !.n = file[2].n]
    BY <1>5 DEF LoadRecListHeader, Refuse
  <2>2. file[2].n = N /\ N \in 0 .. MaxRecs
    <3>1. /\ Len(file) \in Nat /\ FileOK(file) /\ db \in Databases /\ nuls \in {0, 1}
      BY ReadFacts
    <3>2. 2 <= Len(file)
      BY <2>1, <3>1 DEF Readable
    <3> QED
      BY <3>1, <3>2, DbFacts DEF FileOK, HeadOK
  <2>3. got.recs = <<>> /\ got'.recs = got.recs /\ got'.n = N
    BY <1>1, <2>1, <2>2 DEF ReadInv, GotType
  <2> QED
    BY <2>2, <2>3 DEF GotFits
<1>6. CASE LoadIndex /\ ~(UNCHANGED got)
  <2>1. /\ at = "read_index" /\ i <= got.n /\ Readable(i + 1, 1)
        /\ got' = [got EXCEPT !.recs = Append(@, Loaded(file[i + 2]))]
    BY <1>6 DEF LoadIndex, Refuse
  <2>2. /\ HeaderRead /\ ListRead /\ i \in 1 .. (N + 1) /\ EntriesRead(i - 1)
        /\ N \in Nat /\ Len(file) \in Nat
    BY <2>1, ReadFacts DEF ReadInv, PastHeader, PastList
  <2>3. i \in 1 .. N /\ i + 2 <= Len(file) /\ got.res = db.res
    BY <2>1, <2>2 DEF Readable, HeaderRead, ListRead
  <2>4. PICK rec \in GotRec : rec = Loaded(file[i + 2]) /\ rec.id = Kept(db.recs[i]).id
    BY <2>2, <2>3, EntryComesBack
  <2>5. ~got.res => rec.id < IdSpan
    <3>1. db.recs[i].id \in Nat
      BY <2>3, ReadFacts, DbFacts
    <3> QED
      BY <1>1, <2>3, <2>4, <3>1 DEF Kept
  <2>6. got'.recs = Append(got.recs, rec) /\ got'.n = got.n /\ got'.res = got.res
    BY <1>1, <2>1, <2>4 DEF GotType
  <2>7. Len(got.recs) = i - 1 /\ Len(got'.recs) = i /\ got'.recs[i] = rec
        /\ \A k \in 1 .. (i - 1) : got'.recs[k] = got.recs[k]
    BY <1>1, <2>2, <2>3, <2>4, <2>6, AppendProperties DEF EntriesRead
  <2>8. ASSUME NEW k \in 1 .. i, ~got.res PROVE got'.recs[k].id < IdSpan
    <3>1. CASE k = i
      BY <2>5, <2>7, <2>8, <3>1
    <3>2. CASE k \in 1 .. (i - 1)
      <4>1. got'.recs[k] = got.recs[k] /\ k \in 1 .. Len(got.recs)
        BY <2>7, <3>2
      <4> QED
        BY <1>1, <2>8, <4>1 DEF GotFits
    <3> QED
      BY <2>3, <2>8, <3>1, <3>2
  <2>9. got'.n \in 0 .. MaxRecs /\ Len(got'.recs) <= got'.n
    BY <1>1, <2>1, <2>6, <2>7 DEF GotFits
  <2> QED
    BY <2>6, <2>7, <2>8, <2>9 DEF GotFits
<1>7. CASE (LoadAppBlock \/ LoadSortBlock) /\ ~(UNCHANGED got)
  <2>1. \E units : got' = [got EXCEPT !.app = units] \/ got' = [got EXCEPT !.sort = units]
    BY <1>7 DEF LoadAppBlock, LoadSortBlock, Refuse
  <2>2. got'.n = got.n /\ got'.res = got.res /\ got'.recs = got.recs
    BY <1>1, <2>1 DEF GotType
  <2> QED
    BY <1>1, <2>2, GotStaysFit
<1>8. CASE LoadRecords /\ ~(UNCHANGED got)
  <2>1. PICK units : got' = [got EXCEPT !.recs[i].data = units]
    BY <1>8 DEF LoadRecords, LoadRecord, Refuse
  <2>2. /\ got'.n = got.n /\ got'.res = got.res
        /\ got'.recs = [got.recs EXCEPT ![i] = [got.recs[i] EXCEPT !.data = units]]
    BY <1>1, <2>1 DEF GotType
  <2>3. DOMAIN got'.recs = DOMAIN got.recs /\ Len(got'.recs) = Len(got.recs)
    BY <1>1, <1>2, <2>2
  <2>4. ASSUME NEW k \in 1 .. Len(got.recs) PROVE got'.recs[k].id = got.recs[k].id
    <3>1. got.recs[k] \in GotRec
      BY <1>1, ElementOfSeq
    <3>2. CASE k = i
      BY <1>2, <2>2, <3>1, <3>2 DEF GotRec
    <3>3. CASE k # i
      BY <1>2, <2>2, <3>3
    <3> QED
      BY <3>2, <3>3
  <2> QED
    BY <1>1, <2>2, <2>3, <2>4, GotStaysFit
<1>9. CASE Write \/ Crash \/ OpenFile
  <2>1. UNCHANGED got
    BY <1>9 DEF Write, Crash, OpenFile, WriteHeader, WriteList, WriteEntry, WriteNuls, WriteBlock,
       WriteData, CutShort
  <2> QED
    BY <2>1, <1>3
<1>10. CASE UNCHANGED fileVars
  BY <1>3, <1>10 DEF fileVars
<1> QED
  BY <1>3, <1>4, <1>5, <1>6, <1>7, <1>8, <1>9, <1>10 DEF Next, Load

LEMMA FitsInit == ASSUME Init PROVE Fits
<1>1. /\ at = "write_header" /\ i = 1 /\ offset = 2 + Len(db.recs) + nuls /\ got = Nothing
      /\ db \in Databases /\ nuls \in {0, 1}
  BY DEF Init
<1>2. N \in Nat /\ offset = HeadLen /\ HeadLen \in Nat
  BY <1>1, DbFacts DEF HeadLen, N
<1>3. MaxRecs \in Nat
  BY PdbFileAssumption
<1>4. got.n = 0 /\ got.recs = <<>>
  BY <1>1 DEF Nothing
<1> QED
  BY <1>1, <1>2, <1>3, <1>4 DEF Fits, GotFits, Steps, WriteSteps

(* Neither pdb_Write nor pdb_Read leaves the types of its variables.       *)
THEOREM TypeCorrect == Spec => []TypeOK
<1>1. Init => Fits
  BY FitsInit
<1>2. WriteInv /\ ReadInv /\ Fits /\ [Next]_fileVars => Fits'
  <2> SUFFICES ASSUME WriteInv, ReadInv, Fits, [Next]_fileVars PROVE Fits'
    OBVIOUS
  <2>1. Steps' = Steps
    BY DEF Steps, WriteSteps, ReadSteps
  <2> QED
    BY <2>1, CountsFit, GotFitsStep DEF Fits
<1>3. WriteInv /\ ReadInv /\ Fits => TypeOK
  <2> SUFFICES ASSUME WriteInv, ReadInv, Fits PROVE TypeOK
    OBVIOUS
  <2>1. got.recs \in Seq(GotRec) /\ DOMAIN got.recs = 1 .. Len(got.recs)
    BY LenProperties DEF ReadInv, GotType
  <2>2. \A k \in DOMAIN got.recs : got.recs[k].cat \in 0 .. 15 /\ got.recs[k].id \in Nat
    <3> SUFFICES ASSUME NEW k \in 1 .. Len(got.recs)
        PROVE got.recs[k].cat \in 0 .. 15 /\ got.recs[k].id \in Nat
      BY <2>1
    <3>1. got.recs[k] \in GotRec
      BY <2>1, ElementOfSeq
    <3> QED
      BY <3>1 DEF GotRec
  <2> QED
    BY <2>1, <2>2 DEF TypeOK, Fits, GotFits, Steps, WriteInv
<1> QED
  BY <1>1, <1>2, <1>3, FileInvariant, ReadInvariant, PTL DEF Spec
=============================================================================
