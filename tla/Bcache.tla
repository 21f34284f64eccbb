-------------------------------- MODULE Bcache --------------------------------
(***************************************************************************)
(* The block cache of lwext4 between its users and a block device          *)
(* (src/lwext4/src/ext4_bcache.c, ext4_blockdev.c). The library runs in    *)
(* one thread, so a call is not interrupted; the loops that evict, flush,  *)
(* invalidate and clean up are taken turn by turn, under pc.               *)
(*                                                                         *)
(* A buffer's lru_id matters only by its order: order lists the buffers    *)
(* from the lowest lru_id to the highest. The end_write callbacks of the   *)
(* journal are left out.                                                   *)
(***************************************************************************)
EXTENDS Integers, Sequences, FiniteSets

CONSTANTS
  Blocks,         \* logical block addresses
  Values,         \* contents of a block
  Users,          \* struct ext4_block descriptors in the library's functions
  Cnts,           \* how many buffers a cache may be meant to hold
  Flags,          \* which of BC_FLUSH and BC_TMP the journal sets
  MaxWriteBack,   \* bound on nested requests for write-back mode
  WriteOutcomes   \* what bwrite of the device does: see DiskAfter

NoBlock == 0

ASSUME BcacheAssumption ==
  /\ Blocks \subseteq Nat \ {NoBlock} /\ IsFiniteSet(Blocks) /\ IsFiniteSet(Users)
  /\ Values # {} /\ Flags \subseteq {"flush", "tmp"}
  /\ Cnts \subseteq Nat \ {0} /\ MaxWriteBack \in Nat
  /\ WriteOutcomes \subseteq {"written", "failed", "skipped"} /\ WriteOutcomes # {}

VARIABLES
  cnt,          \* bc->cnt, buffers that this cache is meant to hold
  disk,         \* contents of the device
  bufs,         \* the buffer of each block, if it has one (lba_root)
  order,        \* cached blocks by rising lru_id
  dirty_list,   \* head first
  write_back,   \* cache_write_back
  held,         \* the block each descriptor refers to
  pc, req,      \* the call being executed and the block it is about
  last,         \* history: the contents each block was given last
  lost          \* history: blocks whose write failed and was given up

cacheVars == <<disk, bufs, order, dirty_list, lost>>
vars == <<cnt, cacheVars, write_back, held, pc, req, last>>

BufRecords == [cached : BOOLEAN, data : Values, refctr : Nat, uptodate : BOOLEAN,
               dirty : BOOLEAN, flush : BOOLEAN, tmp : BOOLEAN]

NewBuf(v) == [cached |-> TRUE, data |-> v, refctr |-> 0, uptodate |-> FALSE,
              dirty |-> FALSE, flush |-> FALSE, tmp |-> FALSE]

NoBuf == [NewBuf(CHOOSE v \in Values : TRUE) EXCEPT !.cached = FALSE]

Cached == {b \in Blocks : bufs[b].cached}

\* The buffers of lru_root.
Unreferenced == {b \in Cached : bufs[b].refctr = 0}

Listed == {dirty_list[i] : i \in DOMAIN dirty_list}

\* s without its element at place k; s without b, which it holds at most once.
RemoveAt(s, k) == [i \in 1..(Len(s) - 1) |-> IF i < k THEN s[i] ELSE s[i + 1]]

Without(s, b) ==
  IF \E i \in DOMAIN s : s[i] = b THEN RemoveAt(s, CHOOSE i \in DOMAIN s : s[i] = b) ELSE s

NoReq == [user |-> "none", lba |-> NoBlock, upto |-> NoBlock, read |-> FALSE]

\* The call returns.
Return == pc' = "idle" /\ req' = NoReq

Init ==
  /\ cnt \in Cnts
  /\ disk \in [Blocks -> Values]
  /\ bufs = [b \in Blocks |-> NoBuf]
  /\ order = <<>> /\ dirty_list = <<>> /\ write_back = 0
  /\ held = [u \in Users |-> NoBlock]
  /\ pc = "idle" /\ req = NoReq
  /\ last = disk /\ lost = {}

-----------------------------------------------------------------------------
(* Parts of the calls *)

\* Mutant: off by one.
FullLate == cnt < Cardinality(Cached)

\* ext4_bcache_is_full
Full == cnt <= Cardinality(Cached)

\* Mutant: a buffer in use may be chosen.
ext4_buf_lowest_lru_any(i) == i = 1

\* The buffer at place i of order is the first of lru_root.
ext4_buf_lowest_lru(i) ==
  /\ bufs[order[i]].refctr = 0
  /\ \A j \in 1..(i - 1) : bufs[order[j]].refctr > 0

\* bwrite puts the data on the device, fails, or reports success and does nothing.
DiskAfter(d, b, v, o) == IF o = "written" THEN [d EXCEPT ![b] = v] ELSE d

\* A buffer, and the dirty list, after ext4_block_flush_buf.
Flushes(r) == r.dirty /\ r.uptodate
BufAfter(r, o) == IF Flushes(r) /\ o # "failed" THEN [r EXCEPT !.dirty = FALSE] ELSE r

\* Mutant: the buffer stays on the list.
ListAfterKept(l, b, r, o) == l

ListAfter(l, b, r, o) == IF Flushes(r) /\ o # "failed" THEN Without(l, b) ELSE l

\* ext4_bcache_insert_dirty_node
Insert(l, b) == IF \E i \in DOMAIN l : l[i] = b THEN l ELSE <<b>> \o l

\* The list after ext4_bcache_find_get: a buffer in use is not ready to be flushed.
ListAfterGet(b) ==
  IF bufs[b].refctr = 0 /\ bufs[b].dirty THEN Without(dirty_list, b) ELSE dirty_list

\* The order after it: a buffer not in use gets a new lru_id.
OrderAfterGet(b) == IF bufs[b].refctr = 0 THEN Append(Without(order, b), b) ELSE order

\* Mutant: the buffer stays in lru_root.
DropFromLba(b, r, l, ord) ==
  /\ bufs' = [bufs EXCEPT ![b] = NoBuf]
  /\ order' = ord
  /\ dirty_list' = IF r.dirty THEN Without(l, b) ELSE l

\* ext4_bcache_drop_buf
Drop(b, r, l, ord) ==
  /\ bufs' = [bufs EXCEPT ![b] = NoBuf]
  /\ order' = Without(ord, b)
  /\ dirty_list' = IF r.dirty THEN Without(l, b) ELSE l

\* ext4_bcache_free, where r is the buffer with one reference less, and d, l and
\* ord the device, the dirty list and the order so far. The last user makes the
\* buffer ready to be flushed, or flushes it, and drops it if it is not valid.
Release(b, r, d, l, ord, o) ==
  LET unused == r.refctr = 0
      later  == unused /\ Flushes(r) /\ write_back > 0 /\ ~r.flush /\ ~r.tmp
      now    == unused /\ Flushes(r) /\ ~later
      after  == IF now THEN [BufAfter(r, o) EXCEPT !.flush = FALSE] ELSE r
      list   == CASE later -> Insert(l, b) [] now -> ListAfter(l, b, r, o) [] OTHER -> l
  IN /\ disk' = IF now THEN DiskAfter(d, b, r.data, o) ELSE d
     /\ IF unused /\ (~after.uptodate \/ after.tmp)
        THEN /\ Drop(b, after, list, ord)
             /\ lost' = IF after.dirty THEN lost \cup {b} ELSE lost
        ELSE /\ bufs' = [bufs EXCEPT ![b] = after]
             /\ order' = ord /\ dirty_list' = list /\ UNCHANGED lost

-----------------------------------------------------------------------------
(* The calls *)

\* ext4_block_get (read) and ext4_block_get_noread.
BeginGet(u, b, read) ==
  /\ pc = "idle" /\ held[u] = NoBlock
  /\ pc' = "shake" /\ req' = [NoReq EXCEPT !.user = u, !.lba = b, !.read = read]
  /\ UNCHANGED <<cacheVars, write_back, held, last>>

\* Mutant: the buffer is not flushed before it is dropped.
ShakeNoFlush ==
  /\ pc = "shake" /\ Full
  /\ \E i \in DOMAIN order :
       /\ ext4_buf_lowest_lru(i)
       /\ Drop(order[i], bufs[order[i]], dirty_list, order)
  /\ UNCHANGED <<disk, lost, pc, req, write_back, held, last>>

\* One turn of ext4_block_cache_shake: the buffer least recently got is flushed and
\* dropped. When it cannot be written, the call fails and the buffer stays.
Shake ==
  /\ pc = "shake" /\ Full
  /\ \E o \in WriteOutcomes, i \in DOMAIN order :
       LET b == order[i]
           r == bufs[b]
       IN /\ ext4_buf_lowest_lru(i)
          /\ IF r.dirty /\ Flushes(r) /\ o = "failed"
             THEN Return /\ UNCHANGED cacheVars
             ELSE /\ disk' = IF Flushes(r) THEN DiskAfter(disk, b, r.data, o) ELSE disk
                  /\ Drop(b, BufAfter(r, o), ListAfter(dirty_list, b, r, o), order)
                  /\ UNCHANGED <<lost, pc, req>>
  /\ UNCHANGED <<write_back, held, last>>

\* ext4_bcache_alloc finds the buffer or makes one, with what malloc left in it;
\* data that are not up to date are read. A failed read gives the buffer back.
Alloc ==
  /\ pc = "shake" /\ (Unreferenced = {} \/ ~Full)
  /\ Return
  /\ \E junk \in Values, ok \in BOOLEAN, o \in WriteOutcomes :
       LET b     == req.lba
           found == IF bufs[b].cached THEN bufs[b] ELSE NewBuf(junk)
           ord   == IF bufs[b].cached THEN OrderAfterGet(b) ELSE Append(order, b)
           list  == IF bufs[b].cached THEN ListAfterGet(b) ELSE dirty_list
       IN IF req.read /\ ~found.uptodate /\ ~ok
          THEN Release(b, found, disk, list, ord, o) /\ UNCHANGED held
          ELSE /\ bufs' = [bufs EXCEPT ![b] =
                    [found EXCEPT !.refctr = @ + 1,
                                  !.data = IF req.read /\ ~found.uptodate THEN disk[b] ELSE @,
                                  !.uptodate = @ \/ req.read]]
               /\ order' = ord /\ dirty_list' = list
               /\ held' = [held EXCEPT ![req.user] = b]
               /\ UNCHANGED <<disk, lost>>
  /\ UNCHANGED <<write_back, last>>

\* ext4_malloc fails: so does the call.
AllocFails ==
  /\ pc = "shake" /\ (Unreferenced = {} \/ ~Full)
  /\ ~bufs[req.lba].cached
  /\ Return
  /\ UNCHANGED <<cacheVars, write_back, held, last>>

\* A user writes to b->data and calls ext4_bcache_set_dirty.
Modify(u, v) ==
  /\ pc = "idle" /\ held[u] # NoBlock
  /\ bufs' = [bufs EXCEPT ![held[u]] =
                [@ EXCEPT !.data = v, !.uptodate = TRUE, !.dirty = TRUE]]
  /\ last' = [last EXCEPT ![held[u]] = v]
  /\ lost' = lost \ {held[u]}
  /\ UNCHANGED <<disk, order, dirty_list, write_back, held, pc, req>>

\* The journal sets BC_FLUSH and BC_TMP on the blocks it has got.
SetFlag(u, f) ==
  /\ pc = "idle" /\ held[u] # NoBlock
  /\ bufs' = [bufs EXCEPT ![held[u]][f] = TRUE]
  /\ UNCHANGED <<disk, order, dirty_list, lost, write_back, held, pc, req, last>>

\* ext4_block_set
Put(u) ==
  /\ pc = "idle" /\ held[u] # NoBlock
  /\ \E o \in WriteOutcomes, b \in {held[u]} :
       Release(b, [bufs[b] EXCEPT !.refctr = @ - 1], disk, dirty_list, order, o)
  /\ held' = [held EXCEPT ![u] = NoBlock]
  /\ UNCHANGED <<write_back, pc, req, last>>

\* ext4_block_flush_lba gets the buffer, flushes it and gives it back; when the
\* write failed, giving it back may write again.
FlushLba(b) ==
  /\ pc = "idle" /\ bufs[b].cached
  /\ \E first, second \in WriteOutcomes :
       LET r == bufs[b]
       IN Release(b, BufAfter(r, first),
                  IF Flushes(r) THEN DiskAfter(disk, b, r.data, first) ELSE disk,
                  ListAfter(ListAfterGet(b), b, r, first), OrderAfterGet(b), second)
  /\ UNCHANGED <<write_back, held, pc, req, last>>

\* The buffers that ext4_bcache_invalidate_lba has before it.
Left(from, to) == {b \in Cached : b \in from..to}

\* One turn of it: ext4_bcache_invalidate_buf gives up on purpose what is in b's buffer.
Invalidate(b, to) ==
  /\ bufs' = [bufs EXCEPT ![b].uptodate = FALSE, ![b].dirty = FALSE]
  /\ dirty_list' = IF bufs[b].dirty THEN Without(dirty_list, b) ELSE dirty_list
  /\ last' = [last EXCEPT ![b] = disk[b]]
  /\ lost' = lost \ {b}
  /\ IF Left(b + 1, to) = {}
     THEN Return
     ELSE pc' = "invalidate" /\ req' = [NoReq EXCEPT !.lba = b + 1, !.upto = to]
  /\ UNCHANGED <<disk, order, write_back, held>>

\* It starts at the buffer of the first block, if there is one.
InvalidateLba(from, to) ==
  /\ pc = "idle" /\ from <= to /\ bufs[from].cached
  /\ Invalidate(from, to)

InvalidateNext ==
  /\ pc = "invalidate"
  /\ \E b \in Left(req.lba, req.upto) :
       /\ \A c \in Left(req.lba, req.upto) : b <= c
       /\ Invalidate(b, req.upto)

\* ext4_block_cache_write_back
WriteBackOn ==
  /\ pc = "idle" /\ write_back < MaxWriteBack
  /\ write_back' = write_back + 1
  /\ UNCHANGED <<cacheVars, held, pc, req, last>>

WriteBackOff ==
  /\ pc = "idle"
  /\ write_back' = IF write_back > 0 THEN write_back - 1 ELSE 0
  /\ pc' = IF write_back' > 0 THEN "idle" ELSE "flush"
  /\ UNCHANGED <<cacheVars, held, req, last>>

\* One turn of ext4_block_cache_flush, or its end.
FlushNext ==
  /\ pc = "flush"
  /\ IF dirty_list = <<>>
     THEN pc' = "idle" /\ UNCHANGED cacheVars
     ELSE \E o \in WriteOutcomes, b \in {Head(dirty_list)} :
            LET r == bufs[b]
            IN /\ disk' = IF Flushes(r) THEN DiskAfter(disk, b, r.data, o) ELSE disk
               /\ bufs' = [bufs EXCEPT ![b] = BufAfter(r, o)]
               /\ dirty_list' = ListAfter(dirty_list, b, r, o)
               /\ pc' = IF Flushes(r) /\ o = "failed" THEN "idle" ELSE "flush"
               /\ UNCHANGED <<order, lost>>
  /\ UNCHANGED <<write_back, held, req, last>>

\* ext4_umount, when every block has been given back.
BeginCleanup ==
  /\ pc = "idle" /\ \A u \in Users : held[u] = NoBlock
  /\ Cached # {}
  /\ pc' = "cleanup"
  /\ UNCHANGED <<cacheVars, write_back, held, req, last>>

\* One turn of ext4_bcache_cleanup, by rising lba: what cannot be written is dropped
\* all the same.
CleanupNext ==
  /\ pc = "cleanup"
  /\ IF Cached = {}
     THEN pc' = "idle" /\ UNCHANGED cacheVars
     ELSE \E o \in WriteOutcomes, b \in Cached :
            LET r == bufs[b]
            IN /\ \A c \in Cached : b <= c
               /\ disk' = IF Flushes(r) THEN DiskAfter(disk, b, r.data, o) ELSE disk
               /\ Drop(b, BufAfter(r, o), ListAfter(dirty_list, b, r, o), order)
               /\ lost' = IF BufAfter(r, o).dirty THEN lost \cup {b} ELSE lost
               /\ UNCHANGED pc
  /\ UNCHANGED <<write_back, held, req, last>>

\* A call comes.
Begin ==
  \/ \E u \in Users, b \in Blocks, read \in BOOLEAN : BeginGet(u, b, read)
  \/ \E u \in Users, v \in Values : Modify(u, v)
  \/ \E u \in Users, f \in Flags : SetFlag(u, f)
  \/ \E u \in Users : Put(u)
  \/ \E b \in Blocks : FlushLba(b)
  \/ \E from, to \in Blocks : InvalidateLba(from, to)
  \/ WriteBackOn \/ WriteBackOff \/ BeginCleanup

\* A call goes on.
Continue ==
  /\ Shake \/ Alloc \/ AllocFails \/ InvalidateNext \/ FlushNext \/ CleanupNext
  /\ UNCHANGED cnt

Next == (Begin /\ UNCHANGED cnt) \/ Continue

\* A call that has begun runs on.
Spec == Init /\ [][Next]_vars /\ WF_vars(Continue)

-----------------------------------------------------------------------------

\* The type invariant: order lists each buffer of lba_root once.
TypeOK ==
  /\ cnt \in Cnts
  /\ disk \in [Blocks -> Values] /\ last \in [Blocks -> Values]
  /\ bufs \in [Blocks -> BufRecords]
  /\ order \in Seq(Blocks) /\ dirty_list \in Seq(Blocks)
  /\ {order[i] : i \in DOMAIN order} = Cached /\ Len(order) = Cardinality(Cached)
  /\ write_back \in Nat
  /\ held \in [Users -> Blocks \cup {NoBlock}]
  /\ pc \in {"idle", "shake", "invalidate", "flush", "cleanup"}
  /\ req \in [user : Users \cup {"none"}, lba : Nat, upto : Nat, read : BOOLEAN]
  /\ pc = "shake" => req.user \in Users /\ req.lba \in Blocks
  /\ lost \subseteq Blocks

\* What was written to a block last is in its buffer or on the device, through every
\* eviction, flush and failed write: only a failed write that ext4_bcache_free of a
\* BC_TMP buffer or ext4_bcache_cleanup gives up is lost. A later ext4_block_get
\* returns it.
ReadsLastWrite ==
  \A b \in Blocks \ lost :
    last[b] = IF bufs[b].cached /\ bufs[b].uptodate THEN bufs[b].data ELSE disk[b]

\* Whatever is on the dirty list is there once, in no one's use, and can be flushed:
\* ext4_block_cache_flush relies on it to come to an end.
ListIsReady ==
  /\ \A i, j \in DOMAIN dirty_list : dirty_list[i] = dirty_list[j] => i = j
  /\ \A b \in Listed : bufs[b].cached /\ bufs[b].refctr = 0 /\ Flushes(bufs[b])

\* A buffer stays in the cache as long as a descriptor refers to it, and its refctr
\* is the number of those descriptors; what waits to be flushed is in no one's use.
InUseIsKept ==
  /\ \A b \in Blocks :
       /\ bufs[b].refctr = Cardinality({u \in Users : held[u] = b})
       /\ bufs[b].refctr > 0 => bufs[b].cached
  /\ ListIsReady

\* A buffer is added beyond bc->cnt only when all the others are in use.
GrowsOnlyWhenPinned ==
  [][Cached' \ Cached # {} =>
       Cardinality(Cached') <= cnt \/ \A b \in Cached : bufs[b].refctr > 0]_vars

\* The loops of ext4_block_cache_shake, ext4_block_cache_flush and
\* ext4_bcache_cleanup end, also when writes fail.
CallsReturn == pc # "idle" ~> pc = "idle"

=============================================================================
