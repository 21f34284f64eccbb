----------------------------- MODULE BcacheProofs -----------------------------
(***************************************************************************)
(* Proofs about Bcache, for any number of blocks, descriptors and buffers, *)
(* and any mixture of writes that succeed and fail.                        *)
(***************************************************************************)
EXTENDS Bcache, FiniteSetTheorems, FunctionTheorems, TLAPS

Elements(s) == {s[i] : i \in DOMAIN s}

Distinct(s) == \A i, j \in DOMAIN s : s[i] = s[j] => i = j

\* The types of the variables, without what TypeOK says about order and req.
Typed ==
  /\ cnt \in Cnts
  /\ disk \in [Blocks -> Values] /\ last \in [Blocks -> Values]
  /\ bufs \in [Blocks -> BufRecords]
  /\ order \in Seq(Blocks) /\ dirty_list \in Seq(Blocks)
  /\ write_back \in Nat
  /\ held \in [Users -> Blocks \cup {NoBlock}]
  /\ lost \subseteq Blocks

\* Only what is valid is dirty, and a block without a buffer is the same in every way.
BufOK(r) == /\ r.dirty => r.uptodate
            /\ ~r.cached => r = NoBuf

\* What waits to be flushed is in no one's use, and can be flushed.
Ready(r) == r.cached /\ r.refctr = 0 /\ Flushes(r)

\* The two lists and the tree refer to the same buffers.
Linked ==
  /\ Distinct(order) /\ Distinct(dirty_list)
  /\ \A b \in Blocks : /\ BufOK(bufs[b])
                       /\ b \in Elements(order) <=> bufs[b].cached
                       /\ b \in Listed => Ready(bufs[b])

Holders(b) == {u \in Users : held[u] = b}

Counted == \A b \in Blocks : bufs[b].refctr = Cardinality(Holders(b))

\* What a call that goes on relies on.
CallOK ==
  /\ pc \in {"idle", "shake", "invalidate", "flush", "cleanup"}
  /\ req \in [user : Users \cup {"none"}, lba : Nat, upto : Nat, read : BOOLEAN]
  /\ pc = "shake" => req.user \in Users /\ req.lba \in Blocks /\ held[req.user] = NoBlock
  /\ pc = "cleanup" => \A u \in Users : held[u] = NoBlock

Inv == Typed /\ Linked /\ Counted /\ CallOK

\* What a reader of a block gets, from its buffer r or from the device.
View(r, v) == IF r.cached /\ r.uptodate THEN r.data ELSE v

\* What is valid and not dirty is what the device holds.
Clean(r, v) == r.cached /\ r.uptodate /\ ~r.dirty => r.data = v

DataInv == \A b \in Blocks : /\ Clean(bufs[b], disk[b])
                             /\ b \notin lost => last[b] = View(bufs[b], disk[b])

-----------------------------------------------------------------------------
(* Sequences without repetition *)

\* Removing a place of a list without repetition removes just that element.
LEMMA RemoveAtFacts ==
  ASSUME NEW S, NEW s \in Seq(S), Distinct(s), NEW k \in 1..Len(s)
  PROVE  /\ RemoveAt(s, k) \in Seq(S)
         /\ Distinct(RemoveAt(s, k))
         /\ Elements(RemoveAt(s, k)) = Elements(s) \ {s[k]}
<1> DEFINE t == RemoveAt(s, k)
<1>1. /\ DOMAIN t = 1..(Len(s) - 1) /\ Len(s) \in Nat \ {0}
      /\ \A i \in 1..(Len(s) - 1) : t[i] = IF i < k THEN s[i] ELSE s[i + 1]
  BY DEF RemoveAt
<1>2. DOMAIN s = 1..Len(s)
  OBVIOUS
<1>t. t \in Seq(S)
  BY <1>2 DEF RemoveAt
<1> HIDE DEF t
<1>3. Distinct(t)
  BY <1>1, <1>2 DEF Distinct
<1>4. ASSUME NEW x \in Elements(t) PROVE x \in Elements(s) /\ x # s[k]
  BY <1>1, <1>2 DEF Elements, Distinct
<1>5. ASSUME NEW x \in Elements(s), x # s[k] PROVE x \in Elements(t)
  <2>1. PICK i \in 1..Len(s) : x = s[i]
    BY <1>2 DEF Elements
  <2>2. CASE i < k
    BY <1>1, <2>1, <2>2 DEF Elements
  <2>3. CASE i > k
    <3>1. i - 1 \in 1..(Len(s) - 1) /\ t[i - 1] = x
      BY <1>1, <2>1, <2>3
    <3> QED BY <1>1, <3>1 DEF Elements
  <2> QED BY <1>5, <2>1, <2>2, <2>3
<1> QED BY <1>t, <1>3, <1>4, <1>5 DEF t

\* SLIST_REMOVE: the list is left without b and nothing else changes about it.
LEMMA WithoutFacts ==
  ASSUME NEW S, NEW s \in Seq(S), Distinct(s), NEW b
  PROVE  /\ Without(s, b) \in Seq(S)
         /\ Distinct(Without(s, b))
         /\ Elements(Without(s, b)) = Elements(s) \ {b}
<1>1. CASE \E i \in DOMAIN s : s[i] = b
  <2> DEFINE k == CHOOSE i \in DOMAIN s : s[i] = b
  <2>1. k \in 1..Len(s) /\ s[k] = b
    BY <1>1
  <2> HIDE DEF k
  <2>2. Without(s, b) = RemoveAt(s, k)
    BY <1>1 DEF Without, k
  <2> QED BY <2>1, <2>2, RemoveAtFacts
<1>2. CASE ~ \E i \in DOMAIN s : s[i] = b
  BY <1>2 DEF Without, Elements
<1> QED BY <1>1, <1>2

\* A block that is new at the end is added once.
LEMMA AppendFacts ==
  ASSUME NEW S, NEW s \in Seq(S), Distinct(s), NEW b \in S, b \notin Elements(s)
  PROVE  /\ Append(s, b) \in Seq(S)
         /\ Distinct(Append(s, b))
         /\ Elements(Append(s, b)) = Elements(s) \cup {b}
<1>1. /\ Append(s, b) \in Seq(S) /\ DOMAIN Append(s, b) = 1..(Len(s) + 1)
      /\ \A i \in 1..Len(s) : Append(s, b)[i] = s[i]
      /\ Append(s, b)[Len(s) + 1] = b /\ DOMAIN s = 1..Len(s)
  OBVIOUS
<1> DEFINE t == Append(s, b)
<1>2. Distinct(t)
  BY <1>1 DEF Distinct, Elements
<1>3. Elements(t) = Elements(s) \cup {b}
  BY <1>1 DEF Elements
<1> QED BY <1>1, <1>2, <1>3

\* ext4_bcache_insert_dirty_node never lists a buffer twice.
LEMMA InsertFacts ==
  ASSUME NEW S, NEW s \in Seq(S), Distinct(s), NEW b \in S
  PROVE  /\ Insert(s, b) \in Seq(S)
         /\ Distinct(Insert(s, b))
         /\ Elements(Insert(s, b)) = Elements(s) \cup {b}
<1>1. CASE b \in Elements(s)
  BY <1>1 DEF Insert, Elements
<1>2. CASE b \notin Elements(s)
  <2> DEFINE t == <<b>> \o s
  <2>1. Insert(s, b) = t
    BY <1>2 DEF Insert, Elements
  <2>2. /\ t \in Seq(S) /\ DOMAIN t = 1..(Len(s) + 1) /\ DOMAIN s = 1..Len(s)
        /\ t[1] = b /\ \A i \in 2..(Len(s) + 1) : t[i] = s[i - 1]
    OBVIOUS
  <2>3. \A i \in 1..Len(s) : i + 1 \in DOMAIN t /\ t[i + 1] = s[i]
    BY <2>2
  <2> HIDE DEF t
  <2>4. Distinct(t)
    <3>1. \A i \in 2..(Len(s) + 1) : t[i] \in Elements(s)
      BY <2>2 DEF Elements
    <3>2. SUFFICES ASSUME NEW i \in 1..(Len(s) + 1), NEW j \in 1..(Len(s) + 1), t[i] = t[j]
                   PROVE  i = j
      BY <2>2 DEF Distinct
    <3>3. CASE i = 1 \/ j = 1
      BY <1>2, <2>2, <3>1, <3>2, <3>3
    <3>4. CASE i # 1 /\ j # 1
      BY <2>2, <3>2, <3>4 DEF Distinct
    <3> QED BY <3>3, <3>4
  <2>5. Elements(t) = Elements(s) \cup {b}
    <3>1. \A x \in Elements(t) : x \in Elements(s) \cup {b}
      BY <2>2 DEF Elements
    <3>2. \A x \in Elements(s) \cup {b} : x \in Elements(t)
      BY <2>2, <2>3 DEF Elements
    <3> QED BY <3>1, <3>2
  <2> QED BY <2>1, <2>2, <2>4, <2>5
<1> QED BY <1>1, <1>2

\* The length of a sequence without repetition.
LEMMA DistinctLength ==
  ASSUME NEW S, NEW s \in Seq(S), Distinct(s)
  PROVE  /\ IsFiniteSet(Elements(s)) /\ Cardinality(Elements(s)) = Len(s)
<1>1. /\ Len(s) \in Nat /\ DOMAIN s = 1..Len(s)
      /\ s \in [1..Len(s) -> Elements(s)]
  BY DEF Elements
<1>2. s \in Bijection(1..Len(s), Elements(s))
  <2>1. \A i, j \in 1..Len(s) : s[i] = s[j] => i = j
    BY <1>1 DEF Distinct
  <2>2. \A x \in Elements(s) : \E i \in 1..Len(s) : s[i] = x
    BY <1>1 DEF Elements
  <2> QED BY <1>1, <2>1, <2>2, Fun_IsBij
<1>3. ExistsBijection(1..Len(s), Elements(s))
  BY <1>2, Fun_ExistsBij
<1>4. IsFiniteSet(1..Len(s)) /\ Cardinality(1..Len(s)) = Len(s)
  BY <1>1, FS_Interval
<1> QED BY <1>3, <1>4, FS_Bijection

-----------------------------------------------------------------------------
(* Parts of the calls *)

\* What the assumption says about the constants, in the form the proofs use.
LEMMA Constants ==
  /\ NoBlock \notin Blocks /\ Blocks \subseteq Nat
  /\ IsFiniteSet(Blocks) /\ IsFiniteSet(Users)
  /\ WriteOutcomes \subseteq {"written", "failed", "skipped"}
  /\ Flags \subseteq {"flush", "tmp"} /\ Cnts \subseteq Nat
  BY BcacheAssumption DEF NoBlock

\* A buffer that was just allocated, and none, are buffers.
LEMMA BufTypes ==
  /\ \A v \in Values : NewBuf(v) \in BufRecords
  /\ NoBuf \in BufRecords
  /\ ~NoBuf.cached /\ ~NoBuf.dirty /\ ~NoBuf.uptodate /\ NoBuf.refctr = 0
<1>1. (CHOOSE v \in Values : TRUE) \in Values
  BY BcacheAssumption
<1> QED BY <1>1 DEF NewBuf, NoBuf, BufRecords

\* A write changes its own block at most, and that only when it is done.
LEMMA DiskType ==
  ASSUME NEW d \in [Blocks -> Values], NEW b \in Blocks, NEW v \in Values, NEW o
  PROVE  /\ DiskAfter(d, b, v, o) \in [Blocks -> Values]
         /\ \A c \in Blocks \ {b} : DiskAfter(d, b, v, o)[c] = d[c]
         /\ DiskAfter(d, b, v, o)[b] = IF o = "written" THEN v ELSE d[b]
  BY DEF DiskAfter

\* A buffer after an attempt to flush it.
LEMMA FlushFacts ==
  ASSUME NEW r \in BufRecords, r.dirty => r.uptodate, NEW o
  PROVE  /\ BufAfter(r, o) \in BufRecords
         /\ BufAfter(r, o).cached = r.cached /\ BufAfter(r, o).data = r.data
         /\ BufAfter(r, o).refctr = r.refctr /\ BufAfter(r, o).uptodate = r.uptodate
         /\ BufAfter(r, o).tmp = r.tmp
         /\ BufAfter(r, o).dirty <=> (r.dirty /\ o = "failed")
         /\ Flushes(r) <=> r.dirty
  BY DEF BufAfter, Flushes, BufRecords

\* A flush takes its buffer off the dirty list, unless it fails or there is nothing to flush.
LEMMA ListFacts ==
  ASSUME NEW l \in Seq(Blocks), Distinct(l), NEW b, NEW r, NEW o
  PROVE  /\ ListAfter(l, b, r, o) \in Seq(Blocks) /\ Distinct(ListAfter(l, b, r, o))
         /\ Flushes(r) /\ o # "failed" => Elements(ListAfter(l, b, r, o)) = Elements(l) \ {b}
         /\ ~(Flushes(r) /\ o # "failed") => ListAfter(l, b, r, o) = l
  BY WithoutFacts DEF ListAfter

\* An attempt to flush a buffer keeps what a reader gets; if the buffer is not dirty
\* afterwards, the device holds it.
LEMMA FlushData ==
  ASSUME NEW b \in Blocks, NEW r \in BufRecords, r.cached, r.dirty => r.uptodate,
         NEW d \in [Blocks -> Values], NEW o \in WriteOutcomes, NEW e,
         e = IF Flushes(r) THEN DiskAfter(d, b, r.data, o) ELSE d
  PROVE  /\ e \in [Blocks -> Values] /\ \A c \in Blocks \ {b} : e[c] = d[c]
         /\ o # "skipped" /\ Clean(r, d[b]) =>
              /\ Clean(BufAfter(r, o), e[b])
              /\ View(BufAfter(r, o), e[b]) = View(r, d[b])
              /\ ~BufAfter(r, o).dirty => e[b] = View(r, d[b])
<1>1. r.data \in Values /\ (Flushes(r) <=> r.dirty)
  BY DEF BufRecords, Flushes
<1>2. /\ e \in [Blocks -> Values] /\ \A c \in Blocks \ {b} : e[c] = d[c]
      /\ e[b] = IF r.dirty /\ o = "written" THEN r.data ELSE d[b]
  BY <1>1, DiskType
<1> DEFINE q == BufAfter(r, o)
<1>3. /\ q \in BufRecords /\ q.cached /\ q.data = r.data /\ q.uptodate = r.uptodate
      /\ q.dirty <=> (r.dirty /\ o = "failed")
  BY FlushFacts
<1> HIDE DEF q
<1>4. ASSUME o # "skipped", Clean(r, d[b])
      PROVE  /\ Clean(q, e[b])
             /\ View(q, e[b]) = View(r, d[b])
             /\ ~q.dirty => e[b] = View(r, d[b])
  <2>1. o = "written" \/ o = "failed"
    BY <1>4, Constants
  <2> QED BY <1>2, <1>3, <1>4, <2>1 DEF Clean, View
<1> QED BY <1>2, <1>4 DEF q

\* A list l, and an order ord, that differ from dirty_list and order at most by b.
ListFor(l, b) ==
  /\ l \in Seq(Blocks) /\ Distinct(l)
  /\ \A c \in Blocks \ {b} : c \in Elements(l) => c \in Listed

OrderFor(ord, b) ==
  /\ ord \in Seq(Blocks) /\ Distinct(ord)
  /\ \A c \in Blocks \ {b} : c \in Elements(ord) <=> c \in Elements(order)

\* What a step leaves that touches no other buffer than b's.
Touches(b) ==
  /\ bufs' \in [Blocks -> BufRecords]
  /\ \A c \in Blocks \ {b} : bufs'[c] = bufs[c]
  /\ ListFor(dirty_list', b) /\ OrderFor(order', b)
  /\ BufOK(bufs'[b])
  /\ b \in Elements(order') <=> bufs'[b].cached
  /\ b \in Elements(dirty_list') => Ready(bufs'[b])

\* A step that touches one buffer keeps order, dirty list and tree together.
LEMMA TouchLinked ==
  ASSUME Linked, NEW b \in Blocks, Touches(b)
  PROVE  Linked'
<1>1. /\ Distinct(order') /\ Distinct(dirty_list')
  BY DEF Touches, ListFor, OrderFor
<1>2. Listed' = Elements(dirty_list') /\ Listed = Elements(dirty_list)
  BY DEF Listed, Elements
<1>3. ASSUME NEW c \in Blocks
      PROVE  /\ BufOK(bufs'[c])
             /\ c \in Elements(order') <=> bufs'[c].cached
             /\ c \in Listed' => Ready(bufs'[c])
  BY <1>2 DEF Touches, ListFor, OrderFor, Linked
<1>4. Linked' = /\ Distinct(order') /\ Distinct(dirty_list')
                /\ \A c \in Blocks : /\ BufOK(bufs'[c])
                                     /\ c \in Elements(order') <=> bufs'[c].cached
                                     /\ c \in Listed' => Ready(bufs'[c])
  BY DEF Linked, Distinct, Elements, BufOK, Ready, Flushes
<1> QED BY <1>1, <1>3, <1>4

\* ext4_bcache_drop_buf takes the buffer out of all three.
LEMMA DropTouches ==
  ASSUME Typed, Linked, NEW b \in Blocks, NEW r, NEW l, NEW ord,
         ListFor(l, b), OrderFor(ord, b), b \in Elements(l) => r.dirty, Drop(b, r, l, ord)
  PROVE  Touches(b) /\ bufs'[b] = NoBuf
<1>1. /\ bufs' \in [Blocks -> BufRecords] /\ bufs'[b] = NoBuf
      /\ \A c \in Blocks \ {b} : bufs'[c] = bufs[c]
  BY BufTypes DEF Drop, Typed
<1>2. BufOK(bufs'[b]) /\ ~bufs'[b].cached
  BY <1>1, BufTypes DEF BufOK
<1>3. ListFor(dirty_list', b) /\ b \notin Elements(dirty_list')
  BY WithoutFacts DEF Drop, ListFor
<1>4. OrderFor(order', b) /\ b \notin Elements(order')
  BY WithoutFacts DEF Drop, OrderFor
<1> QED BY <1>1, <1>2, <1>3, <1>4 DEF Touches

\* ext4_bcache_free, of a buffer that is not on the dirty list.
LEMMA ReleaseTouches ==
  ASSUME Typed, Linked, NEW b \in Blocks,
         NEW r \in BufRecords, r.cached, r.dirty => r.uptodate,
         NEW d \in [Blocks -> Values], NEW l, NEW ord, NEW o \in WriteOutcomes,
         ListFor(l, b), b \notin Elements(l), OrderFor(ord, b), b \in Elements(ord),
         Release(b, r, d, l, ord, o)
  PROVE  /\ Touches(b) /\ bufs'[b].refctr = r.refctr
         /\ disk' \in [Blocks -> Values] /\ \A c \in Blocks \ {b} : disk'[c] = d[c]
         /\ lost \subseteq lost' /\ lost' \subseteq Blocks
         /\ o # "skipped" /\ Clean(r, d[b]) =>
              /\ Clean(bufs'[b], disk'[b])
              /\ b \notin lost' => View(bufs'[b], disk'[b]) = View(r, d[b])
<1> DEFINE unused == r.refctr = 0
           later  == unused /\ Flushes(r) /\ write_back > 0 /\ ~r.flush /\ ~r.tmp
           now    == unused /\ Flushes(r) /\ ~later
           after  == IF now THEN [BufAfter(r, o) EXCEPT !.flush = FALSE] ELSE r
           list   == CASE later -> Insert(l, b) [] now -> ListAfter(l, b, r, o) [] OTHER -> l
           gone   == unused /\ (~after.uptodate \/ after.tmp)
<1>1. /\ disk' = IF now THEN DiskAfter(d, b, r.data, o) ELSE d
      /\ gone => /\ Drop(b, after, list, ord)
                 /\ lost' = IF after.dirty THEN lost \cup {b} ELSE lost
      /\ ~gone => /\ bufs' = [bufs EXCEPT ![b] = after]
                  /\ order' = ord /\ dirty_list' = list /\ lost' = lost
  BY DEF Release
<1>2. /\ after \in BufRecords /\ after.cached /\ after.data = r.data
      /\ after.refctr = r.refctr /\ after.uptodate = r.uptodate
      /\ after.dirty <=> (r.dirty /\ (now => o = "failed"))
      /\ after.dirty => after.uptodate
  <2>1. CASE now
    <3> DEFINE f == BufAfter(r, o)
    <3>1. /\ f \in BufRecords /\ f.cached = r.cached /\ f.data = r.data
          /\ f.refctr = r.refctr /\ f.uptodate = r.uptodate /\ f.tmp = r.tmp
          /\ f.dirty <=> (r.dirty /\ o = "failed")
      BY FlushFacts
    <3>2. after = [f EXCEPT !.flush = FALSE]
      BY <2>1
    <3> HIDE DEF f, now, after
    <3> QED BY <2>1, <3>1, <3>2 DEF BufRecords
  <2>2. CASE ~now
    <3>1. after = r
      BY <2>2
    <3> HIDE DEF now, after
    <3> QED BY <2>2, <3>1
  <2> QED BY <2>1, <2>2
<1>3. ListFor(list, b) /\ (b \in Elements(list) => later)
  <2>1. CASE later
    BY <2>1, InsertFacts DEF ListFor
  <2>2. CASE now
    BY <2>2, ListFacts DEF ListFor
  <2>3. CASE ~later /\ ~now
    BY <2>3 
  <2> QED BY <2>1, <2>2, <2>3
<1>4. later => Ready(after) /\ after.dirty
  BY <1>2, FlushFacts DEF Ready, Flushes
<1>5. disk' \in [Blocks -> Values] /\ \A c \in Blocks \ {b} : disk'[c] = d[c]
  BY <1>1, DiskType DEF BufRecords
<1>6. disk'[b] = IF now /\ o = "written" THEN r.data ELSE d[b]
  BY <1>1, DiskType DEF BufRecords
<1> HIDE DEF later, now, after, list
<1>7. CASE gone
  <2>1. Touches(b) /\ bufs'[b] = NoBuf
    BY <1>1, <1>3, <1>4, <1>7, DropTouches
  <2>2. lost' = IF after.dirty THEN lost \cup {b} ELSE lost
    BY <1>1, <1>7
  <2>3. bufs'[b].refctr = r.refctr
    BY <1>2, <1>7, <2>1, BufTypes
  <2>4. lost \subseteq lost' /\ lost' \subseteq Blocks
    BY <2>2 DEF Typed
  <2>5. Clean(bufs'[b], disk'[b])
    BY <2>1, BufTypes DEF Clean
  <2>6. ASSUME o # "skipped", Clean(r, d[b]), b \notin lost'
        PROVE  View(bufs'[b], disk'[b]) = View(r, d[b])
    <3>1. ~after.dirty
      BY <2>2, <2>6
    <3>2. CASE r.dirty
      <4>1. now /\ o = "written"
        BY <1>2, <2>6, <3>1, <3>2, Constants DEF now
      <4> QED BY <1>6, <2>1, <3>2, <4>1, BufTypes DEF View
    <3>3. CASE ~r.dirty
      <4>1. ~now
        BY <3>3, FlushFacts DEF now
      <4> QED BY <1>6, <2>1, <2>6, <3>3, <4>1, BufTypes DEF View, Clean
    <3> QED BY <3>2, <3>3
  <2> QED BY <1>5, <2>1, <2>3, <2>4, <2>5, <2>6
<1>8. CASE ~gone
  <2>1. /\ bufs' = [bufs EXCEPT ![b] = after] /\ order' = ord /\ dirty_list' = list
        /\ lost' = lost
    BY <1>1, <1>8
  <2>2. /\ bufs' \in [Blocks -> BufRecords] /\ bufs'[b] = after
        /\ \A c \in Blocks \ {b} : bufs'[c] = bufs[c]
    BY <1>2, <2>1 DEF Typed
  <2>3. Touches(b)
    BY <1>2, <1>3, <1>4, <2>1, <2>2 DEF Touches, BufOK
  <2>4. ASSUME o # "skipped", Clean(r, d[b])
        PROVE  /\ Clean(bufs'[b], disk'[b])
               /\ View(bufs'[b], disk'[b]) = View(r, d[b])
    <3>1. now => r.uptodate /\ r.dirty
      BY DEF now, Flushes
    <3>2. o = "written" \/ o = "failed"
      BY <2>4, Constants
    <3>3. CASE now /\ o = "written"
      BY <1>2, <1>6, <2>2, <3>1, <3>3 DEF Clean, View
    <3>4. CASE ~(now /\ o = "written")
      <4>1. disk'[b] = d[b] /\ (after.dirty <=> r.dirty)
        BY <1>2, <1>6, <3>2, <3>4 DEF BufRecords
      <4> QED BY <1>2, <2>2, <2>4, <4>1 DEF Clean, View
    <3> QED BY <3>3, <3>4
  <2> QED
    BY <1>2, <1>5, <2>1, <2>2, <2>3, <2>4 DEF Typed
<1> QED BY <1>7, <1>8

\* A step that touches one buffer has to answer for the data of that block only.
LEMMA TouchData ==
  ASSUME DataInv, NEW b \in Blocks, Touches(b), lost \subseteq lost' \cup {b},
         \A c \in Blocks \ {b} : disk'[c] = disk[c] /\ last'[c] = last[c],
         Clean(bufs'[b], disk'[b]), b \notin lost' => last'[b] = View(bufs'[b], disk'[b])
  PROVE  DataInv'
<1>1. ASSUME NEW c \in Blocks
      PROVE  /\ Clean(bufs'[c], disk'[c])
             /\ c \notin lost' => last'[c] = View(bufs'[c], disk'[c])
  BY DEF Touches, DataInv
<1> QED BY <1>1 DEF DataInv, Clean, View

\* References stay counted when neither they nor the descriptors change.
LEMMA HoldersSame ==
  ASSUME Counted, UNCHANGED held, \A c \in Blocks : bufs'[c].refctr = bufs[c].refctr
  PROVE  Counted'
  BY DEF Counted, Holders

\* ... and when one buffer is touched but not its references.
LEMMA TouchCounted ==
  ASSUME Counted, NEW b \in Blocks, Touches(b), UNCHANGED held, bufs'[b].refctr = bufs[b].refctr
  PROVE  Counted'
  BY HoldersSame DEF Touches

\* One more descriptor refers to b.
LEMMA HeldMore ==
  ASSUME Typed, Counted, NEW b \in Blocks, NEW u \in Users, Touches(b),
         held[u] = NoBlock, held' = [held EXCEPT ![u] = b],
         bufs'[b].refctr = bufs[b].refctr + 1
  PROVE  Counted'
<1>1. \A c \in Blocks : Holders(c)' = IF c = b THEN Holders(b) \cup {u} ELSE Holders(c)
  BY Constants DEF Holders, Typed
<1>2. IsFiniteSet(Holders(b)) /\ u \notin Holders(b)
  BY Constants, FS_Subset DEF Holders
<1>3. Cardinality(Holders(b) \cup {u}) = Cardinality(Holders(b)) + 1
  BY <1>2, FS_AddElement
<1> QED BY <1>1, <1>3 DEF Counted, Touches

\* A descriptor that referred to b gives it back.
LEMMA HeldLess ==
  ASSUME Typed, Counted, NEW b \in Blocks, NEW u \in Users, Touches(b),
         held[u] = b, held' = [held EXCEPT ![u] = NoBlock],
         bufs'[b].refctr = bufs[b].refctr - 1
  PROVE  Counted'
<1>1. \A c \in Blocks : Holders(c)' = IF c = b THEN Holders(b) \ {u} ELSE Holders(c)
  BY Constants DEF Holders, Typed
<1>2. IsFiniteSet(Holders(b)) /\ u \in Holders(b)
  BY Constants, FS_Subset DEF Holders
<1>3. Cardinality(Holders(b) \ {u}) = Cardinality(Holders(b)) - 1
  BY <1>2, FS_RemoveElement
<1> QED BY <1>1, <1>3 DEF Counted, Touches

\* A buffer that a descriptor refers to is there, and not on the dirty list.
LEMMA HeldFacts ==
  ASSUME Inv, NEW u \in Users, held[u] # NoBlock
  PROVE  /\ held[u] \in Blocks /\ bufs[held[u]].refctr \in Nat \ {0}
         /\ bufs[held[u]].cached /\ held[u] \notin Listed
<1>1. held[u] \in Blocks
  BY DEF Inv, Typed
<1>2. IsFiniteSet(Holders(held[u])) /\ u \in Holders(held[u])
  BY Constants, FS_Subset DEF Holders
<1>3. Cardinality(Holders(held[u])) # 0
  BY <1>2, FS_EmptySet
<1>4. bufs[held[u]].refctr \in Nat \ {0}
  BY <1>1, <1>3 DEF Inv, Typed, Counted, BufRecords
<1>5. bufs[held[u]].cached
  BY <1>1, <1>4, BufTypes DEF Inv, Linked, BufOK
<1> QED BY <1>1, <1>4, <1>5 DEF Inv, Linked, Ready

\* The two lists as they are differ from themselves in no block.
LEMMA SelfFor ==
  ASSUME Typed, Linked, NEW b \in Blocks
  PROVE  ListFor(dirty_list, b) /\ OrderFor(order, b) /\ Listed = Elements(dirty_list)
  BY DEF Typed, Linked, ListFor, OrderFor, Listed, Elements

-----------------------------------------------------------------------------
(* The calls. Each of them keeps the structure and, where no write is skipped, the
   contents. *)

Kept == Inv' /\ ("skipped" \notin WriteOutcomes /\ DataInv => DataInv')

\* A call that changes nothing but where it is.
LEMMA OnlyControl ==
  ASSUME Inv, UNCHANGED <<cnt, cacheVars, held, last>>, write_back' \in Nat, CallOK'
  PROVE  Kept
<1>1. UNCHANGED <<cnt, disk, bufs, order, dirty_list, lost, held, last>>
  BY DEF cacheVars
<1>2. Typed' /\ Linked' /\ Counted'
  BY <1>1 DEF Inv, Typed, Linked, Counted, Holders, Listed
<1>3. DataInv => DataInv'
  BY <1>1 DEF DataInv
<1> QED BY <1>2, <1>3 DEF Kept, Inv

\* ext4_block_get changes nothing before it makes room.
LEMMA BeginGetKept ==
  ASSUME Inv, UNCHANGED cnt, NEW u \in Users, NEW b \in Blocks, NEW read \in BOOLEAN, BeginGet(u, b, read)
  PROVE  Kept
<1>1. req' \in [user : Users \cup {"none"}, lba : Nat, upto : Nat, read : BOOLEAN]
      /\ req'.user = u /\ req'.lba = b /\ pc' = "shake" /\ held' = held
  BY Constants DEF BeginGet, NoReq, NoBlock
<1>2. CallOK'
  BY <1>1 DEF CallOK, BeginGet
<1> QED BY <1>2, OnlyControl DEF BeginGet, Inv, Typed

\* ext4_block_cache_write_back changes its count only.
LEMMA WriteBackKept ==
  ASSUME Inv, UNCHANGED cnt, WriteBackOn \/ WriteBackOff
  PROVE  Kept
<1>1. write_back' \in Nat /\ pc' \in {"idle", "flush"} /\ req' = req
  BY DEF WriteBackOn, WriteBackOff, Inv, Typed
<1>2. CallOK'
  BY <1>1 DEF CallOK, Inv
<1> QED BY <1>1, <1>2, OnlyControl DEF WriteBackOn, WriteBackOff

\* ext4_umount begins the clean-up when no block is in use.
LEMMA BeginCleanupKept ==
  ASSUME Inv, UNCHANGED cnt, BeginCleanup
  PROVE  Kept
<1>1. CallOK'
  BY DEF CallOK, Inv, BeginCleanup
<1> QED BY <1>1, OnlyControl DEF BeginCleanup, Inv, Typed

\* A call that returned leaves nothing to rely on.
LEMMA ReturnOK ==
  ASSUME Inv, Return
  PROVE  CallOK'
  BY DEF Return, CallOK, NoReq, NoBlock

\* A failed ext4_malloc leaves the cache alone.
LEMMA AllocFailsKept ==
  ASSUME Inv, UNCHANGED cnt, AllocFails
  PROVE  Kept
  BY OnlyControl, ReturnOK DEF AllocFails, Inv, Typed

\* What is common to the calls that touch one buffer.
LEMMA TouchKept ==
  ASSUME Inv, NEW b \in Blocks, Touches(b), UNCHANGED <<cnt, write_back>>,
         disk' \in [Blocks -> Values], last' \in [Blocks -> Values],
         held' \in [Users -> Blocks \cup {NoBlock}], lost' \subseteq Blocks,
         \A c \in Blocks \ {b} : disk'[c] = disk[c] /\ last'[c] = last[c],
         lost \subseteq lost' \cup {b},
         Counted', CallOK',
         "skipped" \notin WriteOutcomes /\ DataInv =>
           /\ Clean(bufs'[b], disk'[b])
           /\ b \notin lost' => last'[b] = View(bufs'[b], disk'[b])
  PROVE  Kept
<1>1. Typed'
  BY DEF Inv, Typed, Touches, ListFor, OrderFor
<1>2. Linked'
  BY TouchLinked DEF Inv
<1>3. "skipped" \notin WriteOutcomes /\ DataInv => DataInv'
  BY TouchData
<1> QED BY <1>1, <1>2, <1>3 DEF Kept, Inv

\* A user who writes makes the buffer dirty while it is in use, so it is not on the list.
LEMMA ModifyKept ==
  ASSUME Inv, UNCHANGED cnt, NEW u \in Users, NEW v \in Values, Modify(u, v)
  PROVE  Kept
<1> DEFINE b == held[u]
           r == [bufs[b] EXCEPT !.data = v, !.uptodate = TRUE, !.dirty = TRUE]
<1>1. /\ b \in Blocks /\ bufs[b].refctr \in Nat \ {0} /\ bufs[b].cached /\ b \notin Listed
  BY HeldFacts DEF Modify
<1>2. /\ r \in BufRecords /\ r.cached /\ r.uptodate /\ r.dirty /\ r.data = v
      /\ r.refctr = bufs[b].refctr
  BY <1>1 DEF Inv, Typed, BufRecords
<1>3. /\ bufs' = [bufs EXCEPT ![b] = r]
      /\ last' = [last EXCEPT ![b] = v] /\ lost' = lost \ {b}
      /\ UNCHANGED <<disk, order, dirty_list, write_back, held, pc, req>>
  BY DEF Modify
<1> HIDE DEF r, b
<1>4. /\ bufs' \in [Blocks -> BufRecords] /\ bufs'[b] = r
      /\ \A c \in Blocks \ {b} : bufs'[c] = bufs[c]
  BY <1>1, <1>2, <1>3 DEF Inv, Typed
<1>5. Touches(b)
  <2>1. ListFor(dirty_list, b) /\ OrderFor(order, b) /\ Listed = Elements(dirty_list)
    BY <1>1, SelfFor DEF Inv
  <2>2. b \in Elements(order)
    BY <1>1 DEF Inv, Linked
  <2> QED BY <1>1, <1>2, <1>3, <1>4, <2>1, <2>2 DEF Touches, BufOK
<1>6. Counted'
  BY <1>1, <1>2, <1>3, <1>4, <1>5, TouchCounted DEF Inv
<1>7. CallOK'
  BY <1>3 DEF Inv, CallOK
<1>8. last' \in [Blocks -> Values] /\ last'[b] = v
      /\ \A c \in Blocks \ {b} : disk'[c] = disk[c] /\ last'[c] = last[c]
  BY <1>1, <1>3 DEF Inv, Typed
<1>9. Clean(bufs'[b], disk'[b]) /\ last'[b] = View(bufs'[b], disk'[b])
  BY <1>2, <1>4, <1>8 DEF Clean, View
<1> QED BY <1>1, <1>3, <1>5, <1>6, <1>7, <1>8, <1>9, TouchKept DEF Inv, Typed

\* The flags of the journal change neither references nor data.
LEMMA SetFlagKept ==
  ASSUME Inv, UNCHANGED cnt, NEW u \in Users, NEW f \in Flags, SetFlag(u, f)
  PROVE  Kept
<1> DEFINE b == held[u]
           r == [bufs[b] EXCEPT ![f] = TRUE]
<1>1. /\ b \in Blocks /\ bufs[b].refctr \in Nat \ {0} /\ bufs[b].cached /\ b \notin Listed
  BY HeldFacts DEF SetFlag
<1>2. /\ r \in BufRecords /\ r.cached /\ r.uptodate = bufs[b].uptodate
      /\ r.dirty = bufs[b].dirty /\ r.data = bufs[b].data /\ r.refctr = bufs[b].refctr
  <2>1. f = "flush" \/ f = "tmp"
    BY Constants
  <2>2. bufs[b] \in BufRecords
    BY <1>1 DEF Inv, Typed
  <2> HIDE DEF b
  <2>3. CASE f = "flush"
    BY <1>1, <2>2, <2>3 DEF BufRecords
  <2>4. CASE f = "tmp"
    BY <1>1, <2>2, <2>4 DEF BufRecords
  <2> QED BY <2>1, <2>3, <2>4
<1>3. /\ bufs' = [bufs EXCEPT ![b] = r]
      /\ UNCHANGED <<disk, order, dirty_list, lost, write_back, held, pc, req, last>>
  BY DEF SetFlag
<1> HIDE DEF r, b
<1>4. /\ bufs' \in [Blocks -> BufRecords] /\ bufs'[b] = r
      /\ \A c \in Blocks \ {b} : bufs'[c] = bufs[c]
  BY <1>1, <1>2, <1>3 DEF Inv, Typed
<1>5. Touches(b)
  <2>1. ListFor(dirty_list, b) /\ OrderFor(order, b) /\ Listed = Elements(dirty_list)
    BY <1>1, SelfFor DEF Inv
  <2>2. b \in Elements(order) /\ BufOK(bufs[b])
    BY <1>1 DEF Inv, Linked
  <2> QED BY <1>1, <1>2, <1>3, <1>4, <2>1, <2>2 DEF Touches, BufOK
<1>6. Counted'
  BY <1>1, <1>2, <1>3, <1>4, <1>5, TouchCounted DEF Inv
<1>7. CallOK'
  BY <1>3 DEF Inv, CallOK
<1>9. DataInv => /\ Clean(bufs'[b], disk'[b])
                 /\ b \notin lost' => last'[b] = View(bufs'[b], disk'[b])
  BY <1>1, <1>2, <1>3, <1>4 DEF DataInv, Clean, View
<1> QED BY <1>1, <1>3, <1>5, <1>6, <1>7, <1>9, TouchKept DEF Inv, Typed

\* ext4_block_set: the last user makes the buffer ready, flushes it or drops it.
LEMMA PutKept ==
  ASSUME Inv, UNCHANGED cnt, NEW u \in Users, Put(u)
  PROVE  Kept
<1> DEFINE b == held[u]
           r == [bufs[b] EXCEPT !.refctr = @ - 1]
<1>1. /\ b \in Blocks /\ bufs[b].refctr \in Nat \ {0} /\ bufs[b].cached /\ b \notin Listed
  BY HeldFacts DEF Put
<1>2. /\ r \in BufRecords /\ r.cached /\ r.uptodate = bufs[b].uptodate
      /\ r.dirty = bufs[b].dirty /\ r.data = bufs[b].data
      /\ r.refctr = bufs[b].refctr - 1
  <2>1. bufs[b] \in BufRecords
    BY <1>1 DEF Inv, Typed
  <2> HIDE DEF b
  <2> QED BY <1>1, <2>1 DEF BufRecords
<1>3. PICK o \in WriteOutcomes : Release(b, r, disk, dirty_list, order, o)
  BY DEF Put
<1>4. /\ held' = [held EXCEPT ![u] = NoBlock]
      /\ UNCHANGED <<write_back, pc, req, last>> /\ pc = "idle"
  BY DEF Put
<1> HIDE DEF r
<1>5. /\ ListFor(dirty_list, b) /\ OrderFor(order, b) /\ b \notin Elements(dirty_list)
      /\ b \in Elements(order) /\ (r.dirty => r.uptodate)
  BY <1>1, <1>2, SelfFor DEF Inv, Linked, BufOK
<1>6. /\ Touches(b) /\ bufs'[b].refctr = r.refctr
      /\ disk' \in [Blocks -> Values] /\ \A c \in Blocks \ {b} : disk'[c] = disk[c]
      /\ lost \subseteq lost' /\ lost' \subseteq Blocks
      /\ o # "skipped" /\ Clean(r, disk[b]) =>
           /\ Clean(bufs'[b], disk'[b])
           /\ b \notin lost' => View(bufs'[b], disk'[b]) = View(r, disk[b])
  <2>1. Typed /\ Linked /\ disk \in [Blocks -> Values]
    BY DEF Inv, Typed
  <2> HIDE DEF b
  <2> QED BY <1>1, <1>2, <1>3, <1>5, <2>1, ReleaseTouches
<1>7. Counted'
  BY <1>1, <1>2, <1>4, <1>6, HeldLess DEF Inv
<1>8. held' \in [Users -> Blocks \cup {NoBlock}]
  BY <1>4 DEF Inv, Typed
<1>9. CallOK'
  BY <1>4 DEF Inv, CallOK
<1>10. "skipped" \notin WriteOutcomes /\ DataInv =>
         /\ Clean(bufs'[b], disk'[b])
         /\ b \notin lost' => last'[b] = View(bufs'[b], disk'[b])
  BY <1>1, <1>2, <1>3, <1>4, <1>6 DEF DataInv, Clean, View
<1> HIDE DEF b
<1> QED BY <1>1, <1>4, <1>6, <1>7, <1>8, <1>9, <1>10, TouchKept DEF Inv, Typed

\* The list and the order after ext4_bcache_find_get: b is not on the list.
LEMMA GetFacts ==
  ASSUME Inv, NEW b \in Blocks, bufs[b].cached
  PROVE  /\ ListFor(ListAfterGet(b), b) /\ b \notin Elements(ListAfterGet(b))
         /\ OrderFor(OrderAfterGet(b), b) /\ b \in Elements(OrderAfterGet(b))
<1>1. /\ ListFor(dirty_list, b) /\ OrderFor(order, b) /\ Listed = Elements(dirty_list)
      /\ b \in Elements(order)
      /\ b \in Listed => bufs[b].refctr = 0 /\ bufs[b].dirty
  BY SelfFor DEF Inv, Linked, Ready, Flushes
<1>2. ListFor(ListAfterGet(b), b) /\ b \notin Elements(ListAfterGet(b))
  BY <1>1, WithoutFacts DEF ListAfterGet, ListFor
<1>3. CASE bufs[b].refctr = 0
  <2> DEFINE ord == Without(order, b)
  <2>1. /\ ord \in Seq(Blocks) /\ Distinct(ord) /\ Elements(ord) = Elements(order) \ {b}
    BY <1>1, WithoutFacts DEF OrderFor
  <2> HIDE DEF ord
  <2>2. /\ Append(ord, b) \in Seq(Blocks) /\ Distinct(Append(ord, b))
        /\ Elements(Append(ord, b)) = Elements(ord) \cup {b}
    BY <2>1, AppendFacts
  <2>3. OrderAfterGet(b) = Append(ord, b)
    BY <1>3 DEF OrderAfterGet, ord
  <2> QED BY <1>1, <1>2, <2>1, <2>2, <2>3 DEF OrderFor
<1>4. CASE bufs[b].refctr # 0
  BY <1>1, <1>2, <1>4 DEF OrderAfterGet
<1> QED BY <1>3, <1>4

\* ext4_block_flush_lba, whatever its one or two writes do.
LEMMA FlushLbaKept ==
  ASSUME Inv, UNCHANGED cnt, NEW b \in Blocks, FlushLba(b)
  PROVE  Kept
<1> DEFINE r == bufs[b]
<1>1. PICK first \in WriteOutcomes, second \in WriteOutcomes :
        Release(b, BufAfter(r, first),
                IF Flushes(r) THEN DiskAfter(disk, b, r.data, first) ELSE disk,
                ListAfter(ListAfterGet(b), b, r, first), OrderAfterGet(b), second)
  BY DEF FlushLba
<1> DEFINE d == IF Flushes(r) THEN DiskAfter(disk, b, r.data, first) ELSE disk
           l == ListAfter(ListAfterGet(b), b, r, first)
           q == BufAfter(r, first)
<1>2. r \in BufRecords /\ r.cached /\ (r.dirty => r.uptodate)
  BY DEF FlushLba, Inv, Typed, Linked, BufOK
<1>3. UNCHANGED <<write_back, held, pc, req, last>>
  BY DEF FlushLba
<1>4. /\ q \in BufRecords /\ q.cached /\ q.data = r.data
      /\ q.refctr = r.refctr /\ q.uptodate = r.uptodate
      /\ q.dirty <=> (r.dirty /\ first = "failed")
      /\ q.dirty => q.uptodate
  BY <1>2, FlushFacts
<1>5. /\ ListFor(l, b) /\ b \notin Elements(l)
      /\ OrderFor(OrderAfterGet(b), b) /\ b \in Elements(OrderAfterGet(b))
  <2>1. /\ ListFor(ListAfterGet(b), b) /\ b \notin Elements(ListAfterGet(b))
        /\ OrderFor(OrderAfterGet(b), b) /\ b \in Elements(OrderAfterGet(b))
    BY <1>2, GetFacts
  <2> QED BY <2>1, ListFacts DEF ListFor
<1>6. /\ d \in [Blocks -> Values] /\ \A c \in Blocks \ {b} : d[c] = disk[c]
      /\ first # "skipped" /\ Clean(r, disk[b]) =>
           Clean(q, d[b]) /\ View(q, d[b]) = View(r, disk[b])
  <2>1. disk \in [Blocks -> Values]
    BY DEF Inv, Typed
  <2> QED BY <1>2, <2>1, FlushData
<1>7. Release(b, q, d, l, OrderAfterGet(b), second)
  BY <1>1
<1> HIDE DEF d, l, q
<1>8. /\ Touches(b) /\ bufs'[b].refctr = q.refctr
      /\ disk' \in [Blocks -> Values] /\ \A c \in Blocks \ {b} : disk'[c] = d[c]
      /\ lost \subseteq lost' /\ lost' \subseteq Blocks
      /\ second # "skipped" /\ Clean(q, d[b]) =>
           /\ Clean(bufs'[b], disk'[b])
           /\ b \notin lost' => View(bufs'[b], disk'[b]) = View(q, d[b])
  BY <1>4, <1>5, <1>6, <1>7, ReleaseTouches DEF Inv
<1>9. Counted'
  BY <1>3, <1>4, <1>8, TouchCounted DEF Inv
<1>10. CallOK'
  BY <1>3 DEF Inv, CallOK
<1>11. ASSUME "skipped" \notin WriteOutcomes, DataInv
       PROVE  /\ Clean(bufs'[b], disk'[b])
              /\ b \notin lost' => last'[b] = View(bufs'[b], disk'[b])
  <2>1. /\ Clean(r, disk[b])
        /\ b \notin lost => last[b] = View(r, disk[b])
    BY <1>11 DEF DataInv
  <2>2. Clean(q, d[b]) /\ View(q, d[b]) = View(r, disk[b])
    BY <1>6, <1>11, <2>1
  <2> QED BY <1>3, <1>8, <1>11, <2>1, <2>2
<1> QED BY <1>3, <1>6, <1>8, <1>9, <1>10, <1>11, TouchKept DEF Inv, Typed

\* ext4_bcache_invalidate_buf: the buffer leaves the dirty list as it gets clean.
LEMMA InvalidateKept ==
  ASSUME Inv, UNCHANGED cnt, NEW b \in Blocks, bufs[b].cached, NEW to \in Nat, Invalidate(b, to)
  PROVE  Kept
<1> DEFINE r == [bufs[b] EXCEPT !.uptodate = FALSE, !.dirty = FALSE]
<1>1. bufs[b] \in BufRecords
  BY DEF Inv, Typed
<1>2. /\ r \in BufRecords /\ r.cached /\ ~r.uptodate /\ ~r.dirty
      /\ r.refctr = bufs[b].refctr
  BY <1>1 DEF BufRecords
<1>3. /\ bufs' = [bufs EXCEPT ![b] = r]
      /\ dirty_list' = IF bufs[b].dirty THEN Without(dirty_list, b) ELSE dirty_list
      /\ last' = [last EXCEPT ![b] = disk[b]] /\ lost' = lost \ {b}
      /\ UNCHANGED <<disk, order, write_back, held>>
  BY DEF Invalidate
<1> HIDE DEF r
<1>4. /\ bufs' \in [Blocks -> BufRecords] /\ bufs'[b] = r
      /\ \A c \in Blocks \ {b} : bufs'[c] = bufs[c]
  BY <1>2, <1>3 DEF Inv, Typed
<1>5. Touches(b)
  <2>1. /\ ListFor(dirty_list, b) /\ OrderFor(order, b) /\ Listed = Elements(dirty_list)
        /\ b \in Elements(order) /\ (b \in Listed => bufs[b].dirty)
    BY SelfFor DEF Inv, Linked, Ready, Flushes
  <2>2. ListFor(dirty_list', b) /\ b \notin Elements(dirty_list')
    BY <1>3, <2>1, WithoutFacts DEF ListFor
  <2> QED BY <1>2, <1>3, <1>4, <2>1, <2>2 DEF Touches, BufOK
<1>6. Counted'
  BY <1>2, <1>3, <1>4, <1>5, TouchCounted DEF Inv
<1>7. CallOK'
  <2>1. CASE Return
    BY <2>1, ReturnOK
  <2>2. CASE ~Return
    <3>1. pc' = "invalidate" /\ req' = [NoReq EXCEPT !.lba = b + 1, !.upto = to]
      BY <2>2, Zenon DEF Invalidate
    <3>2. b + 1 \in Nat
      BY Constants
    <3> QED BY <3>1, <3>2 DEF CallOK, NoReq, NoBlock
  <2> QED BY <2>1, <2>2
<1>8. last' \in [Blocks -> Values] /\ last'[b] = disk[b]
      /\ \A c \in Blocks \ {b} : disk'[c] = disk[c] /\ last'[c] = last[c]
  BY <1>3 DEF Inv, Typed
<1>9. Clean(bufs'[b], disk'[b]) /\ last'[b] = View(bufs'[b], disk'[b])
  BY <1>2, <1>3, <1>4, <1>8 DEF Clean, View
<1> QED BY <1>3, <1>5, <1>6, <1>7, <1>8, <1>9, TouchKept DEF Inv, Typed

\* ... and so does every later turn of ext4_bcache_invalidate_lba.
LEMMA InvalidateNextKept ==
  ASSUME Inv, UNCHANGED cnt, InvalidateNext
  PROVE  Kept
<1>1. PICK b \in Blocks : bufs[b].cached /\ Invalidate(b, req.upto)
  BY DEF InvalidateNext, Left, Cached
<1>2. req.upto \in Nat
  BY DEF Inv, CallOK
<1> QED BY <1>1, <1>2, InvalidateKept

\* The buffer that the flush or the eviction is about: what happens to its data.
LEMMA CachedFacts ==
  ASSUME Inv, NEW b \in Blocks, bufs[b].cached
  PROVE  /\ bufs[b] \in BufRecords /\ (bufs[b].dirty => bufs[b].uptodate)
         /\ b \in Elements(order) /\ disk \in [Blocks -> Values]
         /\ ListFor(dirty_list, b) /\ OrderFor(order, b) /\ Listed = Elements(dirty_list)
         /\ b \in Listed => bufs[b].refctr = 0 /\ bufs[b].dirty
  BY SelfFor DEF Inv, Typed, Linked, BufOK, Ready, Flushes

\* A buffer without users is flushed and dropped as one touch.
LEMMA FlushDropTouches ==
  ASSUME Inv, NEW b \in Blocks, bufs[b].cached, bufs[b].refctr = 0,
         NEW o \in WriteOutcomes,
         Drop(b, BufAfter(bufs[b], o), ListAfter(dirty_list, b, bufs[b], o), order)
  PROVE  Touches(b) /\ bufs'[b] = NoBuf
<1>1. /\ bufs[b] \in BufRecords /\ (bufs[b].dirty => bufs[b].uptodate)
      /\ ListFor(dirty_list, b) /\ OrderFor(order, b) /\ Listed = Elements(dirty_list)
      /\ b \in Listed => bufs[b].dirty
  BY CachedFacts
<1> DEFINE l == ListAfter(dirty_list, b, bufs[b], o)
<1>2. ListFor(l, b) /\ Elements(l) = IF Flushes(bufs[b]) /\ o # "failed" THEN Listed \ {b} ELSE Listed
  <2>1. dirty_list \in Seq(Blocks) /\ Distinct(dirty_list)
    BY <1>1 DEF ListFor
  <2>2. /\ l \in Seq(Blocks) /\ Distinct(l)
        /\ Flushes(bufs[b]) /\ o # "failed" => Elements(l) = Elements(dirty_list) \ {b}
        /\ ~(Flushes(bufs[b]) /\ o # "failed") => l = dirty_list
    BY <2>1, ListFacts
  <2> HIDE DEF l
  <2> QED BY <1>1, <2>2 DEF ListFor
<1>3. /\ BufAfter(bufs[b], o).dirty <=> (bufs[b].dirty /\ o = "failed")
      /\ Flushes(bufs[b]) <=> bufs[b].dirty
  BY <1>1, FlushFacts
<1>4. b \in Elements(l) => BufAfter(bufs[b], o).dirty
  BY <1>1, <1>2, <1>3
<1> HIDE DEF l
<1> QED BY <1>1, <1>2, <1>4, DropTouches DEF l, Inv

\* ext4_block_cache_shake evicts only what is on the device, and no one uses.
LEMMA ShakeKept ==
  ASSUME Inv, UNCHANGED cnt, Shake
  PROVE  Kept
<1>1. PICK o \in WriteOutcomes, i \in DOMAIN order :
        /\ ext4_buf_lowest_lru(i)
        /\ IF bufs[order[i]].dirty /\ Flushes(bufs[order[i]]) /\ o = "failed"
           THEN Return /\ UNCHANGED cacheVars
           ELSE /\ disk' = IF Flushes(bufs[order[i]])
                           THEN DiskAfter(disk, order[i], bufs[order[i]].data, o) ELSE disk
                /\ Drop(order[i], BufAfter(bufs[order[i]], o),
                        ListAfter(dirty_list, order[i], bufs[order[i]], o), order)
                /\ UNCHANGED <<lost, pc, req>>
  BY DEF Shake
<1>2. UNCHANGED <<write_back, held, last>>
  BY DEF Shake
<1> DEFINE b == order[i]
           r == bufs[b]
<1>3. b \in Blocks /\ b \in Elements(order)
  BY DEF Inv, Typed, Elements
<1>4. r.cached /\ r.refctr = 0
  BY <1>1, <1>3 DEF Inv, Linked, ext4_buf_lowest_lru
<1>5. CASE r.dirty /\ Flushes(r) /\ o = "failed"
  <2>1. Return /\ UNCHANGED cacheVars
    BY <1>1, <1>5
  <2> QED BY <1>2, <2>1, ReturnOK, OnlyControl DEF Inv, Typed
<1>6. CASE ~(r.dirty /\ Flushes(r) /\ o = "failed")
  <2>1. /\ disk' = IF Flushes(r) THEN DiskAfter(disk, b, r.data, o) ELSE disk
        /\ Drop(b, BufAfter(r, o), ListAfter(dirty_list, b, r, o), order)
        /\ UNCHANGED <<lost, pc, req>>
    BY <1>1, <1>6
  <2> HIDE DEF b
  <2>2. Touches(b) /\ bufs'[b] = NoBuf
    BY <1>3, <1>4, <2>1, FlushDropTouches
  <2>3. r \in BufRecords /\ (r.dirty => r.uptodate) /\ disk \in [Blocks -> Values]
    BY <1>3, <1>4, CachedFacts
  <2>4. /\ disk' \in [Blocks -> Values] /\ \A c \in Blocks \ {b} : disk'[c] = disk[c]
        /\ o # "skipped" /\ Clean(r, disk[b]) /\ ~BufAfter(r, o).dirty =>
             disk'[b] = View(r, disk[b])
    BY <1>3, <1>4, <2>1, <2>3, FlushData
  <2>5. ~BufAfter(r, o).dirty
    BY <1>6, <2>3, FlushFacts
  <2>6. Counted'
    BY <1>2, <1>3, <1>4, <2>2, BufTypes, TouchCounted DEF Inv
  <2>7. CallOK'
    BY <1>2, <2>1 DEF Inv, CallOK
  <2>8. ASSUME "skipped" \notin WriteOutcomes, DataInv
        PROVE  /\ Clean(bufs'[b], disk'[b])
               /\ b \notin lost' => last'[b] = View(bufs'[b], disk'[b])
    BY <1>2, <1>3, <2>1, <2>2, <2>4, <2>5, <2>8, BufTypes DEF DataInv, Clean, View
  <2> QED BY <1>2, <1>3, <2>1, <2>2, <2>4, <2>6, <2>7, <2>8, TouchKept DEF Inv, Typed
<1> QED BY <1>5, <1>6

\* A turn of ext4_bcache_cleanup drops one buffer, and records a write it gives up.
LEMMA CleanupNextKept ==
  ASSUME Inv, UNCHANGED cnt, CleanupNext
  PROVE  Kept
<1>1. UNCHANGED <<write_back, held, req, last>> /\ pc = "cleanup"
  BY DEF CleanupNext
<1>2. CASE Cached = {}
  <2>1. pc' = "idle" /\ UNCHANGED cacheVars
    BY <1>2 DEF CleanupNext
  <2>2. CallOK'
    BY <1>1, <2>1 DEF CallOK, Inv
  <2> QED BY <1>1, <2>1, <2>2, OnlyControl DEF Inv, Typed
<1>3. CASE Cached # {}
  <2>1. PICK o \in WriteOutcomes, b \in Cached :
          /\ disk' = IF Flushes(bufs[b]) THEN DiskAfter(disk, b, bufs[b].data, o) ELSE disk
          /\ Drop(b, BufAfter(bufs[b], o), ListAfter(dirty_list, b, bufs[b], o), order)
          /\ lost' = IF BufAfter(bufs[b], o).dirty THEN lost \cup {b} ELSE lost
          /\ UNCHANGED pc
    BY <1>3 DEF CleanupNext
  <2> DEFINE r == bufs[b]
  <2>2. b \in Blocks /\ r.cached
    BY DEF Cached
  <2>3. r.refctr = 0
    <3>1. Holders(b) = {}
      BY <1>1, <2>2, Constants DEF Holders, Inv, CallOK
    <3> QED BY <2>2, <3>1, FS_EmptySet DEF Inv, Counted
  <2>4. Touches(b) /\ bufs'[b] = NoBuf
    BY <2>1, <2>2, <2>3, FlushDropTouches
  <2>5. r \in BufRecords /\ (r.dirty => r.uptodate) /\ disk \in [Blocks -> Values]
    BY <2>2, CachedFacts
  <2>6. /\ disk' \in [Blocks -> Values] /\ \A c \in Blocks \ {b} : disk'[c] = disk[c]
        /\ o # "skipped" /\ Clean(r, disk[b]) /\ ~BufAfter(r, o).dirty =>
             disk'[b] = View(r, disk[b])
    BY <2>1, <2>2, <2>5, FlushData
  <2>7. Counted'
    BY <1>1, <2>2, <2>3, <2>4, BufTypes, TouchCounted DEF Inv
  <2>8. CallOK'
    BY <1>1, <2>1 DEF Inv, CallOK
  <2>9. lost \subseteq lost' /\ lost' \subseteq Blocks /\ (b \notin lost' => ~BufAfter(r, o).dirty)
    BY <2>1, <2>2 DEF Inv, Typed
  <2>10. ASSUME "skipped" \notin WriteOutcomes, DataInv
         PROVE  /\ Clean(bufs'[b], disk'[b])
                /\ b \notin lost' => last'[b] = View(bufs'[b], disk'[b])
    BY <1>1, <2>2, <2>4, <2>6, <2>9, <2>10, BufTypes DEF DataInv, Clean, View
  <2> QED BY <1>1, <2>2, <2>4, <2>6, <2>7, <2>8, <2>9, <2>10, TouchKept DEF Inv, Typed
<1> QED BY <1>2, <1>3

\* A turn of ext4_block_cache_flush takes the head of the list off it, or ends.
LEMMA FlushNextKept ==
  ASSUME Inv, UNCHANGED cnt, FlushNext
  PROVE  Kept
<1>1. UNCHANGED <<write_back, held, req, last>> /\ pc = "flush"
  BY DEF FlushNext
<1>2. CASE dirty_list = <<>>
  <2>1. pc' = "idle" /\ UNCHANGED cacheVars
    BY <1>2 DEF FlushNext
  <2>2. CallOK'
    BY <1>1, <2>1 DEF CallOK, Inv
  <2> QED BY <1>1, <2>1, <2>2, OnlyControl DEF Inv, Typed
<1>3. CASE dirty_list # <<>>
  <2> DEFINE b == Head(dirty_list)
             r == bufs[b]
  <2>1. PICK o \in WriteOutcomes :
          /\ disk' = IF Flushes(r) THEN DiskAfter(disk, b, r.data, o) ELSE disk
          /\ bufs' = [bufs EXCEPT ![b] = BufAfter(r, o)]
          /\ dirty_list' = ListAfter(dirty_list, b, r, o)
          /\ pc' = IF Flushes(r) /\ o = "failed" THEN "idle" ELSE "flush"
          /\ UNCHANGED <<order, lost>>
    BY <1>3 DEF FlushNext
  <2>2. b \in Blocks /\ b \in Listed
    BY <1>3 DEF Inv, Typed, Listed
  <2> HIDE DEF b
  <2>3. r.cached
    BY <2>2 DEF Inv, Linked, Ready
  <2>4. /\ r \in BufRecords /\ (r.dirty => r.uptodate) /\ disk \in [Blocks -> Values]
        /\ ListFor(dirty_list, b) /\ OrderFor(order, b) /\ Listed = Elements(dirty_list)
        /\ b \in Elements(order) /\ r.refctr = 0 /\ r.dirty
    BY <2>2, <2>3, CachedFacts
  <2> DEFINE q == BufAfter(r, o)
  <2>5. /\ q \in BufRecords /\ q.cached /\ q.uptodate /\ q.refctr = r.refctr
        /\ q.dirty <=> (r.dirty /\ o = "failed")
        /\ Flushes(r)
    BY <2>3, <2>4, FlushFacts
  <2>6. /\ disk' \in [Blocks -> Values] /\ \A c \in Blocks \ {b} : disk'[c] = disk[c]
        /\ o # "skipped" /\ Clean(r, disk[b]) =>
             Clean(q, disk'[b]) /\ View(q, disk'[b]) = View(r, disk[b])
    BY <2>1, <2>2, <2>3, <2>4, FlushData
  <2>7. /\ bufs' \in [Blocks -> BufRecords] /\ bufs'[b] = q
        /\ \A c \in Blocks \ {b} : bufs'[c] = bufs[c]
    BY <2>1, <2>2, <2>5 DEF Inv, Typed
  <2> HIDE DEF q
  <2>8. ListFor(dirty_list', b) /\ (b \in Elements(dirty_list') => q.dirty)
    <3>1. /\ dirty_list' \in Seq(Blocks) /\ Distinct(dirty_list')
          /\ o # "failed" => Elements(dirty_list') = Elements(dirty_list) \ {b}
          /\ ~(o # "failed") => dirty_list' = dirty_list
      <4>1. dirty_list \in Seq(Blocks) /\ Distinct(dirty_list)
        BY <2>4 DEF ListFor
      <4> QED BY <2>1, <2>5, <4>1, ListFacts
    <3> QED BY <2>4, <2>5, <3>1 DEF ListFor
  <2>9. Touches(b)
    BY <2>1, <2>4, <2>5, <2>7, <2>8 DEF Touches, BufOK, Ready, Flushes
  <2>10. Counted'
    BY <1>1, <2>2, <2>5, <2>7, <2>9, TouchCounted DEF Inv
  <2>11. CallOK'
    BY <1>1, <2>1 DEF Inv, CallOK
  <2>12. ASSUME "skipped" \notin WriteOutcomes, DataInv
         PROVE  /\ Clean(bufs'[b], disk'[b])
                /\ b \notin lost' => last'[b] = View(bufs'[b], disk'[b])
    BY <1>1, <2>1, <2>2, <2>6, <2>7, <2>12 DEF DataInv
  <2> QED BY <1>1, <2>1, <2>2, <2>6, <2>9, <2>10, <2>11, <2>12, TouchKept DEF Inv, Typed
<1> QED BY <1>2, <1>3

\* ext4_bcache_alloc and the read that follows it, also when that fails.
LEMMA AllocKept ==
  ASSUME Inv, UNCHANGED cnt, Alloc
  PROVE  Kept
<1> DEFINE b     == req.lba
           ord   == IF bufs[b].cached THEN OrderAfterGet(b) ELSE Append(order, b)
           list  == IF bufs[b].cached THEN ListAfterGet(b) ELSE dirty_list
           found(junk) == IF bufs[b].cached THEN bufs[b] ELSE NewBuf(junk)
<1>1. PICK junk \in Values, ok \in BOOLEAN, o \in WriteOutcomes :
        IF req.read /\ ~found(junk).uptodate /\ ~ok
        THEN Release(b, found(junk), disk, list, ord, o) /\ UNCHANGED held
        ELSE /\ bufs' = [bufs EXCEPT ![b] =
                  [found(junk) EXCEPT !.refctr = @ + 1,
                     !.data = IF req.read /\ ~found(junk).uptodate THEN disk[b] ELSE @,
                     !.uptodate = @ \/ req.read]]
             /\ order' = ord /\ dirty_list' = list
             /\ held' = [held EXCEPT ![req.user] = b]
             /\ UNCHANGED <<disk, lost>>
  BY DEF Alloc
<1>2. Return /\ UNCHANGED <<write_back, last>> /\ pc = "shake"
  BY DEF Alloc
<1>3. /\ b \in Blocks /\ req.user \in Users /\ held[req.user] = NoBlock
      /\ req.read \in BOOLEAN /\ disk \in [Blocks -> Values]
  BY <1>2 DEF Inv, CallOK, Typed
<1> DEFINE f == found(junk)
           q == [f EXCEPT !.refctr = @ + 1,
                   !.data = IF req.read /\ ~f.uptodate THEN disk[b] ELSE @,
                   !.uptodate = @ \/ req.read]
<1>4. /\ f \in BufRecords /\ f.cached /\ (f.dirty => f.uptodate)
      /\ f.refctr = bufs[b].refctr
      /\ Clean(bufs[b], disk[b]) => Clean(f, disk[b])
      /\ View(f, disk[b]) = View(bufs[b], disk[b])
  <2>1. CASE bufs[b].cached
    BY <1>3, <2>1 DEF Inv, Typed, Linked, BufOK
  <2>2. CASE ~bufs[b].cached
    <3>1. f = NewBuf(junk) /\ bufs[b] = NoBuf
      BY <1>3, <2>2 DEF Inv, Linked, BufOK
    <3>2. /\ f \in BufRecords /\ f.cached /\ ~f.dirty /\ ~f.uptodate /\ f.refctr = 0
      BY <3>1, BufTypes DEF NewBuf
    <3> QED BY <3>1, <3>2, BufTypes DEF Clean, View
  <2> QED BY <2>1, <2>2
<1>5. /\ ListFor(list, b) /\ b \notin Elements(list)
      /\ OrderFor(ord, b) /\ b \in Elements(ord)
  <2>1. CASE bufs[b].cached
    BY <1>3, <2>1, GetFacts
  <2>2. CASE ~bufs[b].cached
    <3>1. /\ ListFor(dirty_list, b) /\ OrderFor(order, b) /\ Listed = Elements(dirty_list)
          /\ b \notin Elements(order) /\ b \notin Listed
      BY <1>3, <2>2, SelfFor DEF Inv, Linked, Ready
    <3>2. /\ Append(order, b) \in Seq(Blocks) /\ Distinct(Append(order, b))
          /\ Elements(Append(order, b)) = Elements(order) \cup {b}
      BY <1>3, <3>1, AppendFacts DEF OrderFor
    <3> QED BY <2>2, <3>1, <3>2 DEF OrderFor
  <2> QED BY <2>1, <2>2
<1>6. CallOK'
  BY <1>2, ReturnOK
<1> HIDE DEF ord, list, b, f, found
<1>7. CASE req.read /\ ~f.uptodate /\ ~ok
  <2>1. Release(b, f, disk, list, ord, o) /\ UNCHANGED held
    BY <1>1, <1>7 DEF f
  <2>2. /\ Touches(b) /\ bufs'[b].refctr = f.refctr
        /\ disk' \in [Blocks -> Values] /\ \A c \in Blocks \ {b} : disk'[c] = disk[c]
        /\ lost \subseteq lost' /\ lost' \subseteq Blocks
        /\ o # "skipped" /\ Clean(f, disk[b]) =>
             /\ Clean(bufs'[b], disk'[b])
             /\ b \notin lost' => View(bufs'[b], disk'[b]) = View(f, disk[b])
    BY <1>3, <1>4, <1>5, <2>1, ReleaseTouches DEF Inv
  <2>3. Counted'
    BY <1>3, <1>4, <2>1, <2>2, TouchCounted DEF Inv
  <2>4. ASSUME "skipped" \notin WriteOutcomes, DataInv
        PROVE  /\ Clean(bufs'[b], disk'[b])
               /\ b \notin lost' => last'[b] = View(bufs'[b], disk'[b])
    BY <1>2, <1>3, <1>4, <2>2, <2>4 DEF DataInv
  <2> QED BY <1>2, <1>3, <1>6, <2>1, <2>2, <2>3, <2>4, TouchKept DEF Inv, Typed
<1>8. CASE ~(req.read /\ ~f.uptodate /\ ~ok)
  <2>1. /\ bufs' = [bufs EXCEPT ![b] = q]
        /\ order' = ord /\ dirty_list' = list
        /\ held' = [held EXCEPT ![req.user] = b]
        /\ UNCHANGED <<disk, lost>>
    BY <1>1, <1>8 DEF f
  <2>2. /\ q \in BufRecords /\ q.cached /\ q.refctr = f.refctr + 1
        /\ q.data = (IF req.read /\ ~f.uptodate THEN disk[b] ELSE f.data)
        /\ q.uptodate <=> (f.uptodate \/ req.read)
        /\ q.dirty <=> f.dirty
    <3> DEFINE v  == IF req.read /\ ~f.uptodate THEN disk[b] ELSE f.data
               up == f.uptodate \/ req.read
    <3>1. v \in Values /\ up \in BOOLEAN /\ f.refctr + 1 \in Nat
      BY <1>3, <1>4 DEF BufRecords
    <3>2. q = [f EXCEPT !.refctr = f.refctr + 1, !.data = v, !.uptodate = up]
      OBVIOUS
    <3> HIDE DEF v, up, q
    <3>3. /\ q \in BufRecords /\ q.cached /\ q.refctr = f.refctr + 1
          /\ q.data = v /\ q.uptodate = up /\ q.dirty = f.dirty
      BY <1>4, <3>1, <3>2 DEF BufRecords
    <3> QED BY <3>3 DEF v, up
  <2> HIDE DEF q
  <2>3. /\ bufs' \in [Blocks -> BufRecords] /\ bufs'[b] = q
        /\ \A c \in Blocks \ {b} : bufs'[c] = bufs[c]
    BY <1>3, <2>1, <2>2 DEF Inv, Typed
  <2>4. Touches(b)
    BY <1>4, <1>5, <2>1, <2>2, <2>3 DEF Touches, BufOK
  <2>5. Counted'
    BY <1>3, <1>4, <2>1, <2>2, <2>3, <2>4, HeldMore DEF Inv
  <2>6. ASSUME DataInv
        PROVE  /\ Clean(bufs'[b], disk'[b])
               /\ b \notin lost' => last'[b] = View(bufs'[b], disk'[b])
    BY <1>2, <1>3, <1>4, <2>1, <2>2, <2>3, <2>6 DEF DataInv, Clean, View
  <2>7. held' \in [Users -> Blocks \cup {NoBlock}]
    BY <1>3, <2>1 DEF Inv, Typed
  <2> QED BY <1>2, <1>3, <1>6, <2>1, <2>4, <2>5, <2>6, <2>7, TouchKept DEF Inv, Typed
<1> QED BY <1>7, <1>8

-----------------------------------------------------------------------------
(* The theorems *)

\* An empty cache satisfies the invariant.
LEMMA InitInv ==
  ASSUME Init
  PROVE  Inv /\ DataInv
<1>1. /\ \A b \in Blocks : bufs[b] = NoBuf
      /\ bufs \in [Blocks -> BufRecords]
  BY BufTypes DEF Init
<1>2. Typed
  BY <1>1 DEF Init, Typed
<1>3. Linked
  BY <1>1, BufTypes DEF Init, Linked, Distinct, Elements, Listed, BufOK
<1>4. Counted
  <2>1. \A b \in Blocks : Holders(b) = {}
    BY Constants DEF Init, Holders
  <2> QED BY <1>1, <2>1, BufTypes, FS_EmptySet DEF Counted
<1>5. CallOK
  BY DEF Init, CallOK, NoReq, NoBlock
<1>6. DataInv
  BY <1>1, BufTypes DEF Init, DataInv, Clean, View
<1> QED BY <1>2, <1>3, <1>4, <1>5, <1>6 DEF Inv

\* Every step keeps the invariant, and the data on an honest device.
LEMMA NextKept ==
  ASSUME Inv, [Next]_vars
  PROVE  Kept
<1>1. CASE Begin /\ UNCHANGED cnt
  <2>1. ASSUME NEW from \in Blocks, NEW to \in Blocks, InvalidateLba(from, to)
        PROVE  Kept
    BY <1>1, <2>1, InvalidateKept, Constants DEF InvalidateLba
  <2> QED
    BY <1>1, <2>1, BeginGetKept, ModifyKept, SetFlagKept, PutKept, FlushLbaKept,
       WriteBackKept, BeginCleanupKept DEF Begin
<1>2. CASE Continue
  BY <1>2, ShakeKept, AllocKept, AllocFailsKept, InvalidateNextKept, FlushNextKept,
     CleanupNextKept DEF Continue
<1>3. CASE UNCHANGED vars
  <2>1. UNCHANGED <<cnt, cacheVars, write_back, held, pc, req, last>>
    BY <1>3 DEF vars
  <2>2. CallOK' /\ write_back' \in Nat
    BY <2>1 DEF Inv, CallOK, Typed
  <2> QED BY <2>1, <2>2, OnlyControl
<1> QED BY <1>1, <1>2, <1>3 DEF Next

\* The structure holds in every reachable state.
LEMMA InvAlways == Spec => []Inv
<1>1. Init => Inv
  BY InitInv
<1>2. Inv /\ [Next]_vars => Inv'
  BY NextKept DEF Kept
<1> QED BY <1>1, <1>2, PTL DEF Spec

\* As many buffers are cached as the order has places.
LEMMA CachedIsOrdered ==
  ASSUME Inv
  PROVE  /\ Cached = Elements(order)
         /\ IsFiniteSet(Cached) /\ Cardinality(Cached) = Len(order)
<1>1. Cached = Elements(order)
  <2>1. Elements(order) \subseteq Blocks
    BY DEF Inv, Typed, Elements
  <2> QED BY <2>1 DEF Inv, Linked, Cached
<1> QED BY <1>1, DistinctLength DEF Inv, Typed, Linked

\* However the buffers are got, evicted, flushed and dropped, by any number of users
\* with any number of failures, the order by lru_id lists each buffer of the tree
\* (lba_root) exactly once.
THEOREM TypeCorrect == Spec => []TypeOK
<1>1. Inv => TypeOK
  <2> SUFFICES ASSUME Inv PROVE TypeOK
    OBVIOUS
  <2>1. {order[i] : i \in DOMAIN order} = Cached /\ Len(order) = Cardinality(Cached)
    BY CachedIsOrdered DEF Elements
  <2> QED BY <2>1 DEF Inv, Typed, CallOK, TypeOK
<1> QED BY <1>1, InvAlways, PTL

\* A buffer is never freed while a descriptor refers to it, its refctr never loses
\* count of the descriptors, and the dirty list holds only buffers that nobody uses and
\* that the loop of ext4_block_cache_flush can take off it.
THEOREM InUse == Spec => []InUseIsKept
<1>1. Inv => InUseIsKept
  <2> SUFFICES ASSUME Inv PROVE InUseIsKept
    OBVIOUS
  <2>1. ASSUME NEW b \in Blocks
        PROVE  /\ bufs[b].refctr = Cardinality({u \in Users : held[u] = b})
               /\ bufs[b].refctr > 0 => bufs[b].cached
    BY BufTypes DEF Inv, Counted, Holders, Linked, BufOK
  <2>2. Listed \subseteq Blocks
    BY DEF Inv, Typed, Listed
  <2>3. ListIsReady
    BY <2>2 DEF Inv, Linked, Distinct, Ready, ListIsReady
  <2> QED BY <2>1, <2>3 DEF InUseIsKept
<1> QED BY <1>1, InvAlways, PTL

\* If the device reports every write truthfully (a write succeeds or fails), whatever was
\* written to a block last is what the next ext4_block_get of it returns, unless the
\* library gave the block up after a failed write.
THEOREM LastWriteRead ==
  ASSUME "skipped" \notin WriteOutcomes
  PROVE  Spec => []ReadsLastWrite
<1>1. Init => Inv /\ DataInv
  BY InitInv
<1>2. Inv /\ DataInv /\ [Next]_vars => (Inv /\ DataInv)'
  BY NextKept DEF Kept
<1>3. DataInv => ReadsLastWrite
  BY DEF DataInv, ReadsLastWrite, View
<1> QED BY <1>1, <1>2, <1>3, PTL DEF Spec

-----------------------------------------------------------------------------
(* The size of the cache *)

\* ext4_bcache_free changes one buffer.
LEMMA ReleaseBufs ==
  ASSUME NEW b, NEW r, NEW d, NEW l, NEW ord, NEW o, Release(b, r, d, l, ord, o)
  PROVE  \E x : bufs' = [bufs EXCEPT ![b] = x]
  BY DEF Release, Drop

\* So does a turn of ext4_bcache_invalidate_lba.
LEMMA InvalidateBufs ==
  ASSUME NEW b \in Blocks, NEW to, Invalidate(b, to)
  PROVE  \E x : bufs' = [bufs EXCEPT ![b] = x]
<1>1. bufs' = [bufs EXCEPT ![b] = [bufs[b] EXCEPT !.uptodate = FALSE, !.dirty = FALSE]]
  BY DEF Invalidate
<1> QED BY <1>1

\* When one buffer changes, no other block is cached newly.
LEMMA Replaced ==
  ASSUME Inv, NEW b \in Blocks, NEW x, bufs' = [bufs EXCEPT ![b] = x]
  PROVE  Cached' \subseteq Cached \cup {b}
  BY DEF Cached, Inv, Typed

\* Only ext4_bcache_alloc adds a buffer.
LEMMA OthersAddNone ==
  ASSUME Inv, Next, ~Alloc
  PROVE  Cached' \subseteq Cached
<1>1. CASE UNCHANGED bufs
  BY <1>1 DEF Cached
<1>2. ASSUME NEW b \in Blocks, bufs[b].cached, NEW x, bufs' = [bufs EXCEPT ![b] = x]
      PROVE  Cached' \subseteq Cached
  BY <1>2, Replaced DEF Cached
<1>3. ASSUME NEW u \in Users, held[u] # NoBlock
      PROVE  held[u] \in Blocks /\ bufs[held[u]].cached
  BY <1>3, HeldFacts
<1>4. CASE Begin
  <2>1. ASSUME NEW u \in Users, NEW v \in Values, Modify(u, v)
        PROVE  Cached' \subseteq Cached
    BY <1>2, <1>3, <2>1 DEF Modify
  <2>2. ASSUME NEW u \in Users, NEW f \in Flags, SetFlag(u, f)
        PROVE  Cached' \subseteq Cached
    BY <1>2, <1>3, <2>2 DEF SetFlag
  <2>3. ASSUME NEW u \in Users, Put(u)
        PROVE  Cached' \subseteq Cached
    BY <1>2, <1>3, <2>3, ReleaseBufs DEF Put
  <2>4. ASSUME NEW b \in Blocks, FlushLba(b)
        PROVE  Cached' \subseteq Cached
    BY <1>2, <2>4, ReleaseBufs DEF FlushLba
  <2>5. ASSUME NEW from \in Blocks, NEW to \in Blocks, InvalidateLba(from, to)
        PROVE  Cached' \subseteq Cached
    BY <1>2, <2>5, InvalidateBufs DEF InvalidateLba
  <2>6. CASE UNCHANGED cacheVars
    BY <1>1, <2>6 DEF cacheVars
  <2> QED
    BY <1>4, <2>1, <2>2, <2>3, <2>4, <2>5, <2>6
       DEF Begin, BeginGet, WriteBackOn, WriteBackOff, BeginCleanup
<1>5. CASE Shake
  <2>1. CASE UNCHANGED cacheVars
    BY <1>1, <2>1 DEF cacheVars
  <2>2. CASE ~(UNCHANGED cacheVars)
    <3>1. PICK i \in DOMAIN order : bufs' = [bufs EXCEPT ![order[i]] = NoBuf]
      BY <1>5, <2>2 DEF Shake, Drop
    <3>2. order[i] \in Blocks /\ bufs[order[i]].cached
      BY DEF Inv, Typed, Linked, Elements
    <3> QED BY <1>2, <3>1, <3>2
  <2> QED BY <2>1, <2>2
<1>6. CASE AllocFails
  BY <1>1, <1>6 DEF AllocFails, cacheVars
<1>7. CASE InvalidateNext
  BY <1>2, <1>7, InvalidateBufs DEF InvalidateNext, Left, Cached
<1>8. CASE FlushNext
  <2>1. CASE dirty_list = <<>>
    BY <1>1, <1>8, <2>1 DEF FlushNext, cacheVars
  <2>2. CASE dirty_list # <<>>
    <3>1. Head(dirty_list) \in Blocks /\ bufs[Head(dirty_list)].cached
      BY <2>2 DEF Inv, Typed, Linked, Listed, Ready
    <3>2. \E x : bufs' = [bufs EXCEPT ![Head(dirty_list)] = x]
      BY <1>8, <2>2 DEF FlushNext
    <3> QED BY <1>2, <3>1, <3>2
  <2> QED BY <2>1, <2>2
<1>9. CASE CleanupNext
  <2>1. CASE Cached = {}
    BY <1>1, <1>9, <2>1 DEF CleanupNext, cacheVars
  <2>2. CASE Cached # {}
    BY <1>2, <1>9, <2>2 DEF CleanupNext, Drop, Cached
  <2> QED BY <2>1, <2>2
<1> QED BY <1>4, <1>5, <1>6, <1>7, <1>8, <1>9 DEF Next, Continue

\* ext4_bcache_alloc adds one buffer at most.
LEMMA AllocAddsOne ==
  ASSUME Inv, Inv', Alloc
  PROVE  \E b \in Blocks : Cached' \subseteq Cached \cup {b}
<1>1. req.lba \in Blocks
  BY DEF Alloc, Inv, CallOK
<1>2. \E x : bufs' = [bufs EXCEPT ![req.lba] = x]
  BY ReleaseBufs DEF Alloc
<1> QED BY <1>1, <1>2, Replaced

\* The cache grows beyond its size (bc->cnt) only when every buffer is in use:
\* ext4_block_cache_shake evicts all it may before a buffer is added.
THEOREM GrowsWhenPinned == Spec => GrowsOnlyWhenPinned
<1>1. ASSUME Inv, Inv', [Next]_vars
      PROVE  [Cached' \ Cached # {} =>
                Cardinality(Cached') <= cnt \/ \A b \in Cached : bufs[b].refctr > 0]_vars
  <2>1. CASE UNCHANGED vars
    BY <2>1
  <2>2. CASE Next /\ ~Alloc
    BY <1>1, <2>2, OthersAddNone
  <2>3. CASE Alloc
    <3>1. PICK b \in Blocks : Cached' \subseteq Cached \cup {b}
      BY <1>1, <2>3, AllocAddsOne
    <3>2. /\ IsFiniteSet(Cached) /\ IsFiniteSet(Cached')
          /\ Cardinality(Cached) \in Nat /\ Cardinality(Cached') \in Nat
      BY <1>1, CachedIsOrdered, Constants, FS_Subset, FS_CardinalityType DEF Cached
    <3>3. Cardinality(Cached') <= Cardinality(Cached) + 1
      <4>1. /\ IsFiniteSet(Cached \cup {b})
            /\ Cardinality(Cached \cup {b}) =
                 IF b \in Cached THEN Cardinality(Cached) ELSE Cardinality(Cached) + 1
        BY <3>2, FS_AddElement
      <4>2. Cardinality(Cached') <= Cardinality(Cached \cup {b})
        BY <3>1, <4>1, FS_Subset
      <4>3. Cardinality(Cached \cup {b}) \in Nat
        BY <4>1, FS_CardinalityType
      <4> QED BY <3>2, <4>1, <4>2, <4>3
    <3>4. CASE ~Full
      <4>1. cnt \in Nat /\ Cardinality(Cached) < cnt
        BY <1>1, <3>2, <3>4, Constants DEF Full, Inv, Typed
      <4> QED BY <3>2, <3>3, <4>1
    <3>5. CASE Unreferenced = {}
      <4>1. \A c \in Cached : bufs[c].refctr \in Nat
        BY <1>1 DEF Inv, Typed, BufRecords, Cached
      <4> QED BY <3>5, <4>1 DEF Unreferenced
    <3> QED BY <2>3, <3>4, <3>5 DEF Alloc
  <2> QED BY <1>1, <2>1, <2>2, <2>3
<1> QED BY <1>1, InvAlways, PTL DEF Spec, GrowsOnlyWhenPinned

=============================================================================
