------------------------------- MODULE Journal -------------------------------
(***************************************************************************)
(* The journal of lwext4 (src/lwext4/src/ext4_journal.c, ext4_trans.c) on  *)
(* a disk that keeps what was written to it, under a program that may stop *)
(* between any two writes.                                                 *)
(*                                                                         *)
(* On the disk: home, the blocks in their places; log, the journal's       *)
(* blocks; jsb, the journal's superblock. Everything else is memory and is *)
(* gone after a crash. m holds what the functions of ext4_journal.c pass   *)
(* around; they call each other, so they are operators from one m to the   *)
(* next. A jbd_buf is named by its transaction and its block, a            *)
(* transaction by its trans_id, which for the open one is alloc_trans_id.  *)
(* Disk writes are steps of their own: home and log are written one block  *)
(* at a time, the superblock's writes wait in m.sbq.                       *)
(*                                                                         *)
(* Left out: checksums (no write is torn), the flag RECOVER, the ext4      *)
(* superblock's own block, and a block that is used again by the           *)
(* transaction that gives it up.                                           *)
(***************************************************************************)
EXTENDS Integers, Sequences, SequencesExt, FiniteSets

CONSTANTS
  Blocks,        \* file system blocks
  Values,        \* contents of a block
  Magic,         \* the contents that begin with JBD_MAGIC_NUMBER
  Free,          \* a block given up
  MaxLen,        \* maxlen of the journal; its blocks are First .. MaxLen - 1
  TagsPerBlock,  \* block tags a descriptor block holds
  RevokesPerBlock,
  Profiles,      \* a behaviour uses one of these sets of optional operations: "abort" (and a
                 \* commit that fails), "free", "refree" (a block the transaction changed),
                 \* "stop", "restart" (a session after one that was stopped)
  MaxTrans, MaxCrashes, MaxErrs

First == 1
None == 0

ASSUME JournalAssumption ==
  /\ Values \subseteq Nat \ {0} /\ Magic \subseteq Values /\ Free \notin Int
  /\ MaxLen \in Nat /\ TagsPerBlock \in Nat \ {0} /\ RevokesPerBlock \in Nat \ {0}

VARIABLES
  home, log, jsb,   \* the disk
  m,                \* the journal, its transactions and the buffers, in memory
  pc,               \* where the library is
  w,                \* the commit under way: see NoWork
  replay,           \* what jbd_recover has yet to write
  profile,
  count,            \* transactions, crashes and failures so far
  txn,              \* history: what the open transaction changes
  committed,        \* history: what the committed transactions made of the blocks
  use               \* history: "meta", "data" or "free" for each block

disk == <<home, log, jsb>>
ghost == <<txn, committed, use>>
vars == <<disk, m, pc, w, replay, profile, count, ghost>>

\* Mutant: one block too late.
wrap_late(i) == IF i > MaxLen THEN i - (MaxLen - First) ELSE i

\* wrap
wrap(i) == IF i >= MaxLen THEN i - (MaxLen - First) ELSE i

\* The escaped form of contents that begin with the magic number: the number is zeroed.
Escaped(v) == IF v \in Magic THEN -v ELSE v

-----------------------------------------------------------------------------
(* The journal's blocks *)

NoBlock == [type |-> "none"]
Descriptor(t, tags) == [type |-> "descriptor", seq |-> t, tags |-> tags]
Data(v) == [type |-> "data", val |-> Escaped(v)]
Revoke(t, S) == [type |-> "revoke", seq |-> t, blocks |-> S]
CommitBlock(t) == [type |-> "commit", seq |-> t]

\* F(e), with e evaluated once and for all.
Strict(F(_), e) == CHOOSE y \in {F(x) : x \in {e}} : TRUE

\* The contents of a journal block, 0 when a header is taken for them.
Content(r) == IF r.type = "data" THEN r.val ELSE 0

HasHeader(r) == r.type \in {"descriptor", "revoke", "commit"}

-----------------------------------------------------------------------------
(* Recovery: jbd_iterate_log in its three passes, over log and jsb *)

\* A pass goes on from block p.at, where transaction p.seq is expected, until there is another
\* or none, or it is back at the start. seen lists the blocks it went through.
RECURSIVE jbd_iterate_log(_, _, _)
jbd_iterate_log(l, start, p) ==
  LET Turn(r, at) ==
        IF ~HasHeader(r) THEN p
        ELSE IF r.seq # p.seq THEN p
        ELSE Strict(LAMBDA q : IF at = start THEN q ELSE jbd_iterate_log(l, start, q),
                    [at |-> at, seq |-> IF r.type = "commit" THEN p.seq + 1 ELSE p.seq,
                     seen |-> Append(p.seen, [at |-> p.at, blk |-> r])])
      After(r) == wrap(IF r.type = "descriptor" THEN wrap(p.at + Len(r.tags)) + 1 ELSE p.at + 1)
  IN Strict(LAMBDA r : Turn(r, After(r)), l[p.at])

\* The revoke tree: the last transaction that revokes b, 0 if none does.
RevokedBy(seen, b) ==
  LET S == {i \in DOMAIN seen : seen[i].blk.type = "revoke" /\ b \in seen[i].blk.blocks}
  IN IF S = {} THEN 0 ELSE seen[CHOOSE i \in S : \A j \in S : j <= i].blk.seq

\* jbd_replay_block_tags: the data of tag k of the descriptor block at place i, if it is not revoked.
ReplayTag(l, seen, i, r, k) ==
  LET Value(v) == IF r.tags[k].esc THEN -v ELSE v
  IN IF r.seq > RevokedBy(seen, r.tags[k].blk)
     THEN <<[blk |-> r.tags[k].blk, val |-> Value(Content(l[wrap(i + k)]))]>> ELSE <<>>

ReplayTags(l, seen, d) ==
  FoldLeft(LAMBDA q, k : q \o ReplayTag(l, seen, d.at, d.blk, k), <<>>,
           [k \in 1..(IF d.blk.type = "descriptor" THEN Len(d.blk.tags) ELSE 0) |-> k])

\* What jbd_recover writes, in order, and the last complete transaction.
Recovery(l, sb) ==
  LET Replay(seen) == FoldLeft(LAMBDA q, d : q \o ReplayTags(l, seen, d), <<>>, seen)
      Passes(scan) ==
        [last |-> IF scan.seq > sb.seq THEN scan.seq - 1 ELSE scan.seq,
         writes |-> Strict(Replay, SelectSeq(scan.seen, LAMBDA x : x.blk.seq < scan.seq))]
  IN IF sb.start = 0 THEN [last |-> sb.seq, writes |-> <<>>]
     ELSE Strict(Passes, jbd_iterate_log(l, sb.start, [at |-> sb.start, seq |-> sb.seq, seen |-> <<>>]))

Apply(h, writes) ==
  FoldLeft(LAMBDA x, y : [x EXCEPT ![y.blk] = y.val], h, writes)

-----------------------------------------------------------------------------
(* The journal in memory *)

NoRec == [owner |-> None, q |-> <<>>]
NoBuf == [st |-> "none", val |-> 0, ew |-> None]
NewTrans == [start |-> 0, alloc |-> 0, cnt |-> 0, written |-> 0,
             bufs |-> <<>>, at |-> [b \in Blocks |-> 0], revoke |-> {}]

NoJournal ==
  [start |-> 0, last |-> 0, tid |-> 0, next |-> 0, sb |-> [start |-> 0, seq |-> 0],
   dirty |-> FALSE, cpq |-> <<>>, tr |-> <<>>, rec |-> [b \in Blocks |-> NoRec],
   buf |-> [b \in Blocks |-> NoBuf], sbq |-> <<>>]

\* The commit under way: the jbd_bufs and revocations yet to be written, the descriptor block,
\* the block allocated and what it is for, whether the log is being emptied, and journal->last
\* as it was.
NoWork == [todo |-> <<>>, rev |-> {}, desc |-> 0, tags |-> <<>>, got |-> 0,
           purge |-> FALSE, last |-> 0]

InQueue(x, t) == \E i \in DOMAIN x.cpq : x.cpq[i] = t

\* jbd_journal_write_sb
jbd_journal_write_sb(x) ==
  [x EXCEPT !.sb = [start |-> x.start, seq |-> x.tid], !.dirty = TRUE]

\* jbd_write_sb
jbd_write_sb(x) ==
  IF x.dirty THEN [x EXCEPT !.dirty = FALSE, !.sbq = Append(@, x.sb)] ELSE x

\* The tail of the log moves past transaction t.
ShiftPast(x, t) ==
  [x EXCEPT !.start = wrap(x.tr[t].start + x.tr[t].alloc), !.tid = t + 1]

\* jbd_journal_free_trans without abort: its block records go with it.
FreeTrans(x, t) ==
  [x EXCEPT !.tr = [s \in DOMAIN x.tr \ {t} |-> x.tr[s]],
            !.rec = [b \in Blocks |-> IF x.rec[b].owner = t THEN NoRec ELSE x.rec[b]]]

\* The first transaction of the checkpoint queue is done with.
Retire(x) ==
  LET t == Head(x.cpq)
  IN jbd_journal_write_sb(FreeTrans(ShiftPast([x EXCEPT !.cpq = Tail(@)], t), t))

\* jbd_journal_purge_cp_trans(journal, false, true)
PurgeOnce(x) ==
  IF x.cpq = <<>> THEN x
  ELSE LET t == Head(x.cpq)
       IN IF x.tr[t].cnt = x.tr[t].written THEN Retire(x)
          ELSE jbd_journal_write_sb([x EXCEPT !.start = wrap(x.tr[t].start), !.tid = t])

\* jbd_trans_end_write of the jbd_buf of transaction t and block b; has: with the buffer.
\* jbd_trans_finish_callback is the fold: older jbd_bufs of the block are written, too.
RECURSIVE jbd_trans_end_write(_, _, _, _)
jbd_trans_end_write(x, t, b, has) ==
  LET first == x.cpq # <<>> /\ Head(x.cpq) = t
      x1 == [x EXCEPT !.tr[t].bufs = Remove(@, b), !.rec[b].q = Remove(@, t)]
      x2 == IF x1.rec[b].owner # t THEN x1
            ELSE FoldLeft(LAMBDA y, s : jbd_trans_end_write(y, s, b, FALSE), x1, x1.rec[b].q)
      x3 == IF x2.rec[b].owner = t /\ has THEN [x2 EXCEPT !.buf[b].ew = None] ELSE x2
      x4 == [x3 EXCEPT !.tr[t].written = @ + 1]
      x5 == FreeTrans(ShiftPast([x4 EXCEPT !.cpq = Tail(@)], t), t)
  IN IF first /\ x4.tr[t].written = x4.tr[t].cnt
     THEN jbd_write_sb(jbd_journal_write_sb(PurgeOnce(x5)))
     ELSE x4

\* Mutant: the contents are not restored.
FinishAbortedKept(x, t, b, revoke) ==
  IF x.rec[b].owner # t \/ x.rec[b].q = <<>> THEN x ELSE [x EXCEPT !.rec[b].owner = Last(x.rec[b].q)]

\* jbd_trans_finish_callback with abort, for a block that t no longer holds: the block goes
\* back to the transaction before it, with its contents unless it is revoked.
FinishAborted(x, t, b, revoke) ==
  LET q == x.rec[b].q
      s == Last(q)
  IN IF x.rec[b].owner # t \/ q = <<>> THEN x
     ELSE IF revoke THEN [x EXCEPT !.rec[b].owner = s]
     ELSE [x EXCEPT !.rec[b].owner = s,
                    !.buf[b] = [st |-> "dirty", val |-> Content(log[x.tr[s].at[b]]), ew |-> s]]

\* jbd_trans_remove_block_rec
RemoveRec(x, t, b) == IF x.rec[b].owner = t THEN [x EXCEPT !.rec[b] = NoRec] ELSE x

\* jbd_journal_free_trans with abort.
AbortTrans(x, t) ==
  LET Back(y, b) ==
        FinishAborted([y EXCEPT !.rec[b].q = Remove(@, t), !.buf[b] = NoBuf], t, b, FALSE)
  IN FreeTrans(FoldLeft(Back, x, x.tr[t].bufs), t)

-----------------------------------------------------------------------------
(* Sessions *)

Init ==
  /\ home = [b \in Blocks |-> CHOOSE v \in Values \ Magic : TRUE]
  /\ log = [i \in First..(MaxLen - 1) |-> NoBlock]
  /\ jsb = [start |-> 0, seq |-> 1]
  /\ m = NoJournal /\ pc = "mounted" /\ w = NoWork /\ replay = <<>>
  /\ profile \in Profiles /\ count = [trans |-> 0, crashes |-> 0, errs |-> 0]
  /\ txn = <<>> /\ committed = home /\ use = [b \in Blocks |-> "meta"]

\* Mutant: the transactions of the session before are counted over again.
jbd_journal_start_same ==
  /\ pc = "mounted"
  /\ m' = jbd_write_sb(jbd_journal_write_sb(
            [NoJournal EXCEPT !.start = First, !.last = First, !.tid = jsb.seq, !.next = jsb.seq]))
  /\ pc' = "idle"
  /\ UNCHANGED <<disk, w, replay, profile, count, ghost>>

\* jbd_get_fs, jbd_journal_start
jbd_journal_start ==
  /\ pc = "mounted" /\ (jsb.seq = 0 => "restart" \in profile)
  /\ m' = jbd_write_sb(jbd_journal_write_sb(
            [NoJournal EXCEPT !.start = First, !.last = First,
                              !.tid = jsb.seq + 1, !.next = jsb.seq + 1]))
  /\ pc' = "idle"
  /\ UNCHANGED <<disk, w, replay, profile, count, ghost>>

\* jbd_journal_stop: the log is emptied first.
jbd_journal_stop ==
  /\ pc = "idle" /\ m.sbq = <<>> /\ "stop" \in profile
  /\ pc' = "stopping" /\ w' = [NoWork EXCEPT !.purge = TRUE]
  /\ UNCHANGED <<disk, m, replay, profile, count, ghost>>

Stopped ==
  /\ pc = "stopping" /\ ~w.purge /\ m.sbq = <<>>
  /\ m' = jbd_write_sb(jbd_journal_write_sb([m EXCEPT !.start = 0, !.tid = 0]))
  /\ pc' = "stopped"
  /\ UNCHANGED <<disk, w, replay, profile, count, ghost>>

\* jbd_put_fs, umount: buffers that are still dirty are written by ext4_bcache_cleanup.
Unmount ==
  /\ pc = "stopped" /\ m.sbq = <<>>
  /\ \A b \in Blocks : m.buf[b].st # "dirty"
  /\ m' = NoJournal /\ pc' = "mounted"
  /\ UNCHANGED <<disk, w, replay, profile, count, ghost>>

\* The program ends, or the power fails. Without a journal under way nothing is at stake.
Crash ==
  /\ pc # "mounted" /\ count.crashes < MaxCrashes
  /\ m' = NoJournal /\ pc' = "down" /\ w' = NoWork /\ replay' = <<>>
  /\ count' = [count EXCEPT !.crashes = @ + 1]
  /\ txn' = <<>>
  /\ UNCHANGED <<disk, profile, committed, use>>

\* jbd_recover: the log is read ...
jbd_recover ==
  /\ pc = "down"
  /\ replay' = Recovery(log, jsb).writes
  /\ pc' = "replay"
  /\ UNCHANGED <<disk, m, w, profile, count, ghost>>

\* ... the blocks are written one after the other, for the cache is not yet in write-back mode ...
ReplayBlock ==
  /\ pc = "replay" /\ replay # <<>>
  /\ home' = Apply(home, <<Head(replay)>>)
  /\ replay' = Tail(replay)
  /\ UNCHANGED <<log, jsb, m, pc, w, profile, count, ghost>>

\* ... and the journal is marked empty.
Recovered ==
  /\ pc = "replay" /\ replay = <<>>
  /\ jsb' = IF jsb.start = 0 THEN jsb ELSE [start |-> 0, seq |-> Recovery(log, jsb).last]
  /\ pc' = "mounted"
  /\ UNCHANGED <<home, log, m, w, replay, profile, count, ghost>>

\* A write of the journal's superblock reaches the disk.
WriteSb ==
  /\ m.sbq # <<>>
  /\ jsb' = Head(m.sbq)
  /\ m' = [m EXCEPT !.sbq = Tail(@)]
  /\ UNCHANGED <<home, log, pc, w, replay, profile, count, ghost>>

-----------------------------------------------------------------------------
(* Transactions *)

Ready == m.sbq = <<>> /\ ~w.purge

cur == m.next
Pinned == IF cur \in DOMAIN m.tr THEN ToSet(m.tr[cur].bufs) ELSE {}

\* ext4_trans_start, jbd_journal_new_trans
jbd_journal_new_trans ==
  /\ pc = "idle" /\ Ready /\ count.trans < MaxTrans
  /\ m' = [m EXCEPT !.tr = [t \in DOMAIN @ \cup {cur} |-> IF t = cur THEN NewTrans ELSE @[t]]]
  /\ pc' = "open" /\ count' = [count EXCEPT !.trans = @ + 1]
  /\ UNCHANGED <<disk, w, replay, profile, ghost>>

\* A jbd_buf for block b in the open transaction, as jbd_trans_set_block_dirty makes it.
AddBuf(x, b) ==
  [x EXCEPT !.rec[b] = [owner |-> cur, q |-> Append(@.q, cur)],
            !.tr[cur].bufs = <<b>> \o @, !.tr[cur].cnt = @ + 1,
            !.tr[cur].revoke = @ \ {b}, !.buf[b].ew = cur]

Change(b, v) == [c \in DOMAIN txn \cup {b} |-> IF c = b THEN v ELSE txn[c]]

\* The caller gets a block, changes it and calls jbd_trans_set_block_dirty.
jbd_trans_set_block_dirty(b, v) ==
  /\ pc = "open" /\ Ready
  /\ IF b \in DOMAIN txn THEN txn[b] \notin {Free, v} ELSE use[b] # "data" /\ committed[b] # v
  /\ LET x == [m EXCEPT !.buf[b].val = v, !.buf[b].st = "dirty"]
     IN m' = IF m.buf[b].ew = cur THEN x ELSE AddBuf(x, b)
  /\ txn' = Change(b, v)
  /\ UNCHANGED <<disk, pc, w, replay, profile, count, committed, use>>

\* Mutant: the block is never revoked.
MustRevokeNever(b) == FALSE

\* jbd_trans_try_revoke_block: the block has a record, and other jbd_bufs than this transaction's.
MustRevoke(b) ==
  /\ m.rec[b].owner # None
  /\ m.rec[b].owner = cur => m.rec[b].q # <<>> /\ Head(m.rec[b].q) # Last(m.rec[b].q)

\* ext4_balloc_free_block: the block is revoked and its buffer invalidated.
FreeBlock(b) ==
  /\ pc = "open" /\ Ready /\ "free" \in profile
  /\ IF b \in DOMAIN txn THEN txn[b] # Free /\ "refree" \in profile ELSE use[b] # "free"
  /\ m' = [m EXCEPT !.tr[cur].revoke = IF MustRevoke(b) THEN @ \cup {b} ELSE @,
                    !.buf[b] = IF b \in Pinned THEN [@ EXCEPT !.st = "invalid", !.ew = None] ELSE NoBuf]
  /\ txn' = Change(b, Free)
  /\ UNCHANGED <<disk, pc, w, replay, profile, count, committed, use>>

\* A free block becomes a file's and is written without the journal (ext4_blocks_set_direct).
WriteDirect(b, v) ==
  /\ pc = "idle" /\ Ready /\ use[b] = "free"
  /\ home' = [home EXCEPT ![b] = v]
  /\ committed' = [committed EXCEPT ![b] = v] /\ use' = [use EXCEPT ![b] = "data"]
  /\ UNCHANGED <<log, jsb, m, pc, w, replay, profile, count, txn>>

\* ext4_trans_abort
Abort ==
  /\ pc = "open" /\ Ready /\ "abort" \in profile
  /\ m' = AbortTrans(m, cur) /\ pc' = "idle" /\ txn' = <<>>
  /\ UNCHANGED <<disk, w, replay, profile, count, committed, use>>

\* A buffer that nobody uses is written, and dropped or not: ext4_block_cache_shake,
\* ext4_block_cache_flush, ext4_bcache_free.
FlushBuf(b, drop) ==
  /\ pc \notin {"down", "replay", "mounted"} /\ Ready
  /\ b \notin Pinned /\ m.buf[b].st = "dirty"
  /\ home' = [home EXCEPT ![b] = m.buf[b].val]
  /\ LET x == [m EXCEPT !.buf[b].st = "clean"]
         y == IF m.buf[b].ew = None THEN x ELSE jbd_trans_end_write(x, m.buf[b].ew, b, TRUE)
     IN m' = IF drop THEN [y EXCEPT !.buf[b] = NoBuf] ELSE y
  /\ UNCHANGED <<log, jsb, pc, w, replay, profile, count, ghost>>

\* A reader gets a block that is not cached.
ReadBlock(b) ==
  /\ pc = "idle" /\ Ready /\ m.buf[b].st = "none" /\ use[b] = "meta"
  /\ m' = [m EXCEPT !.buf[b] = [st |-> "clean", val |-> home[b], ew |-> None]]
  /\ UNCHANGED <<disk, pc, w, replay, profile, count, ghost>>

\* jbd_journal_purge_cp_trans(journal, true, false), a turn: the first transaction is retired,
\* or the next block of it is written, from its buffer if that is still the transaction's and
\* from the journal otherwise (jbd_journal_flush_trans).
PurgeTurn ==
  /\ w.purge /\ m.sbq = <<>>
  /\ IF m.cpq = <<>> THEN w' = [w EXCEPT !.purge = FALSE] /\ UNCHANGED <<home, m>>
     ELSE LET t == Head(m.cpq)
              b == Head(m.tr[t].bufs)
              cached == m.buf[b].st \in {"clean", "dirty"} /\ m.rec[b].owner = t
          IN /\ UNCHANGED w
             /\ \/ m.tr[t].cnt = m.tr[t].written /\ m' = Retire(m) /\ UNCHANGED home
                \/ /\ m.tr[t].cnt # m.tr[t].written /\ ~cached
                   /\ home' = [home EXCEPT ![b] = Content(log[m.tr[t].at[b]])]
                   /\ m' = jbd_trans_end_write(m, t, b, m.buf[b].st # "none")
                \/ /\ m.tr[t].cnt # m.tr[t].written /\ cached /\ m.buf[b].st = "dirty"
                   /\ home' = [home EXCEPT ![b] = m.buf[b].val]
                   /\ m' = jbd_trans_end_write([m EXCEPT !.buf[b].st = "clean"], m.buf[b].ew, b, TRUE)
  /\ UNCHANGED <<log, jsb, pc, replay, profile, count, ghost>>

-----------------------------------------------------------------------------
(* __jbd_journal_commit_trans *)

Trans == m.tr[cur]

\* jbd_journal_alloc_block: the log is emptied when it is full.
Alloc ==
  LET last == wrap(m.last + 1)
  IN /\ m' = [m EXCEPT !.last = last, !.tr[cur].alloc = @ + 1,
                       !.tr[cur].start = IF @ = 0 THEN m.last ELSE @]
     /\ w' = [w EXCEPT !.got = m.last, !.purge = last = m.start]

\* The jbd_bufs whose buffers are no longer dirty are let go, the tail first.
DropClean(x) ==
  LET clean == SelectSeq(Reverse(x.tr[cur].bufs), LAMBDA b : x.buf[b].st # "dirty")
      Let(y, b) ==
        LET y1 == [y EXCEPT !.rec[b].q = Remove(@, cur), !.buf[b] = NoBuf,
                            !.tr[cur].bufs = Remove(@, b), !.tr[cur].cnt = @ - 1]
        IN RemoveRec(FinishAborted(y1, cur, b, b \in y.tr[cur].revoke), cur, b)
  IN FoldLeft(Let, x, clean)

\* ext4_trans_stop: a transaction without changes is freed, any other is written to the log. One
\* that gives up a block changes another, the bitmap.
jbd_journal_commit_trans ==
  /\ pc = "open" /\ Ready
  /\ (\E b \in DOMAIN txn : txn[b] = Free) => \E b \in DOMAIN txn : txn[b] # Free
  /\ LET x == DropClean(m)
         t == x.tr[cur]
     IN IF t.bufs = <<>> /\ t.revoke = {}
        THEN m' = FreeTrans(x, cur) /\ pc' = "idle" /\ UNCHANGED <<w, ghost>>
        ELSE /\ m' = x /\ pc' = "data"
             /\ w' = [NoWork EXCEPT !.todo = t.bufs, !.rev = t.revoke, !.last = m.last]
             /\ UNCHANGED ghost
  /\ UNCHANGED <<disk, replay, profile, count>>

Committing(s) == pc = s /\ Ready
Log(i, r) == log' = [log EXCEPT ![i] = r]

\* jbd_journal_prepare: a descriptor block is allocated, ...
AllocDescriptor ==
  /\ Committing("data") /\ w.todo # <<>> /\ w.desc = 0
  /\ LET last == wrap(m.last + 1)
     IN /\ m' = [m EXCEPT !.last = last, !.tr[cur].alloc = @ + 1,
                          !.tr[cur].start = IF @ = 0 THEN m.last ELSE @]
        /\ w' = [w EXCEPT !.desc = m.last, !.tags = <<>>, !.purge = last = m.start]
  /\ UNCHANGED <<disk, pc, replay, profile, count, ghost>>

\* Mutant: the last one, which is not full, is forgotten.
WriteDescriptorFull ==
  /\ Committing("data") /\ w.desc # 0 /\ w.got = 0 /\ Len(w.tags) = TagsPerBlock
  /\ Log(w.desc, Descriptor(cur, w.tags))
  /\ w' = [w EXCEPT !.desc = 0, !.tags = <<>>]
  /\ UNCHANGED <<home, jsb, m, pc, replay, profile, count, ghost>>

\* ... written when it is full or when all is said, ...
WriteDescriptor ==
  /\ Committing("data") /\ w.desc # 0 /\ w.got = 0
  /\ w.todo = <<>> \/ Len(w.tags) = TagsPerBlock
  /\ Log(w.desc, Descriptor(cur, w.tags))
  /\ w' = [w EXCEPT !.desc = 0, !.tags = <<>>]
  /\ UNCHANGED <<home, jsb, m, pc, replay, profile, count, ghost>>

AllocData ==
  /\ Committing("data") /\ w.todo # <<>> /\ w.desc # 0 /\ w.got = 0
  /\ Len(w.tags) < TagsPerBlock
  /\ Alloc
  /\ UNCHANGED <<disk, pc, replay, profile, count, ghost>>

\* ... and each block is copied to the log.
WriteData ==
  /\ Committing("data") /\ w.got # 0
  /\ LET b == Head(w.todo)
         v == m.buf[b].val
     IN /\ Log(w.got, Data(v))
        /\ m' = [m EXCEPT !.tr[cur].at[b] = w.got]
        /\ w' = [w EXCEPT !.todo = Tail(@), !.got = 0,
                          !.tags = Append(@, [blk |-> b, esc |-> v \in Magic])]
  /\ UNCHANGED <<home, jsb, pc, replay, profile, count, ghost>>

\* jbd_journal_prepare_revoke
AllocRevoke ==
  /\ Committing("data") /\ w.todo = <<>> /\ w.desc = 0 /\ w.rev # {} /\ w.got = 0
  /\ Alloc /\ pc' = "revoke"
  /\ UNCHANGED <<disk, replay, profile, count, ghost>>

WriteRevoke ==
  /\ Committing("revoke")
  /\ \E S \in SUBSET w.rev :
       /\ Cardinality(S) = RevokesPerBlock \/ (S = w.rev /\ Cardinality(S) < RevokesPerBlock)
       /\ Log(w.got, Revoke(cur, S))
       /\ w' = [w EXCEPT !.rev = @ \ S, !.got = 0]
  /\ pc' = "data"
  /\ UNCHANGED <<home, jsb, m, replay, profile, count, ghost>>

\* jbd_trans_write_commit_block
AllocCommit ==
  /\ Committing("data") /\ w.todo = <<>> /\ w.desc = 0 /\ w.rev = {} /\ w.got = 0
  /\ Alloc /\ pc' = "commit"
  /\ UNCHANGED <<disk, replay, profile, count, ghost>>

WriteCommit ==
  /\ Committing("commit")
  /\ Log(w.got, CommitBlock(cur))
  /\ pc' = "finish" /\ w' = NoWork
  /\ txn' = <<>>
  /\ committed' = [b \in Blocks |-> IF b \in DOMAIN txn THEN txn[b] ELSE committed[b]]
  /\ use' = [b \in Blocks |-> IF b \notin DOMAIN txn THEN use[b]
                              ELSE IF txn[b] = Free THEN "free" ELSE "meta"]
  /\ UNCHANGED <<home, jsb, m, replay, profile, count>>

\* The checkpoint of the revoked blocks is complete; the transaction waits for its own.
Finish ==
  /\ Committing("finish")
  /\ LET Complete(x, b) ==
           IF x.rec[b].q = <<>> THEN x
           ELSE jbd_trans_end_write(x, Last(x.rec[b].q), b, x.buf[b].st # "none")
         x == FoldLeft(Complete, m, SetToSeq(Trans.revoke))
         y == IF x.cpq # <<>> THEN [x EXCEPT !.cpq = Append(@, cur)]
              ELSE IF Trans.cnt > 0
                   THEN LET z == [x EXCEPT !.start = wrap(Trans.start), !.tid = cur]
                        IN [jbd_write_sb(jbd_journal_write_sb(z)) EXCEPT !.cpq = <<cur>>]
                   ELSE FreeTrans(jbd_journal_write_sb(ShiftPast(x, cur)), cur)
     IN m' = [y EXCEPT !.next = @ + 1]
  /\ pc' = "idle"
  /\ UNCHANGED <<disk, w, replay, profile, count, ghost>>

\* A block of the journal cannot be had (jbd_block_get_noread): journal->last is set back and
\* the transaction aborted.
CommitFails ==
  /\ pc \in {"data", "revoke", "commit"} /\ Ready /\ count.errs < MaxErrs /\ "abort" \in profile
  /\ w.got # 0 \/ (w.desc # 0 /\ w.tags = <<>>)
  /\ m' = [AbortTrans(m, cur) EXCEPT !.last = w.last]
  /\ pc' = "idle" /\ w' = NoWork /\ txn' = <<>>
  /\ count' = [count EXCEPT !.errs = @ + 1]
  /\ UNCHANGED <<disk, replay, profile, committed, use>>

-----------------------------------------------------------------------------
Session ==
  \/ jbd_journal_start \/ jbd_journal_stop \/ Stopped \/ Unmount
  \/ Crash \/ jbd_recover \/ ReplayBlock \/ Recovered

Use ==
  \/ jbd_journal_new_trans \/ Abort
  \/ \E b \in Blocks, v \in Values : jbd_trans_set_block_dirty(b, v) \/ WriteDirect(b, v)
  \/ \E b \in Blocks : FreeBlock(b) \/ ReadBlock(b)
  \/ \E b \in Blocks, drop \in BOOLEAN : FlushBuf(b, drop)
  \/ jbd_journal_commit_trans

Commit ==
  \/ AllocDescriptor \/ WriteDescriptor \/ AllocData \/ WriteData
  \/ AllocRevoke \/ WriteRevoke \/ AllocCommit \/ WriteCommit \/ Finish \/ CommitFails

Next == Session \/ Use \/ Commit \/ PurgeTurn \/ WriteSb

\* A call that has begun runs on.
Fairness == WF_vars(WriteSb \/ PurgeTurn \/ Commit)

Spec == Init /\ [][Next]_vars /\ Fairness

-----------------------------------------------------------------------------
(* Properties *)

\* What a crash now would leave after recovery.
View ==
  Strict(LAMBDA h : [b \in Blocks |-> IF use[b] = "free" THEN Free ELSE h[b]],
         Apply(home, Recovery(log, jsb).writes))

Atomic == INSTANCE AtomicStore WITH store <- View

\* Every step of the journal changes what recovery would find by a whole transaction or not at
\* all, and the open transaction is lost only by an abort or a crash: ext4_journal.c implements
\* an atomic store.
ImplementsAtomicStore == Atomic!Spec

\* Recovery restores the committed transactions and no others, wherever the program is stopped:
\* jbd_recover, against the order of the writes in __jbd_journal_commit_trans and jbd_trans_end_write.
Durable == View = committed

\* Outside of transactions a reader is given what was committed last, be it from the cache, the
\* journal or the disk: jbd_journal_free_trans rolls an aborted block back.
ReadsCommitted ==
  \A b \in Blocks :
    (pc \in {"idle", "open"} /\ use[b] = "meta" /\ b \notin DOMAIN txn) =>
      committed[b] = IF m.buf[b].st \in {"clean", "dirty"} THEN m.buf[b].val ELSE home[b]

\* A commit returns, also when it has to empty the log first (jbd_journal_purge_cp_trans).
CommitReturns == (pc \in {"data", "revoke", "commit", "finish"}) ~> (pc \in {"idle", "down"})

\* The type invariant: every pointer into the log (journal->start, journal->last, the blocks a
\* transaction has there, s_start) stays inside the journal however often it wraps.
TypeOK ==
  /\ home \in [Blocks -> Int] /\ DOMAIN log = First..(MaxLen - 1)
  /\ jsb \in [start : 0..(MaxLen - 1), seq : Nat]
  /\ {m.start, m.last, w.got, w.desc} \subseteq 0..(MaxLen - 1)
  /\ \A t \in DOMAIN m.tr : m.tr[t].start < MaxLen /\ \A b \in Blocks : m.tr[t].at[b] < MaxLen
  /\ pc \in {"mounted", "idle", "open", "data", "revoke", "commit", "finish",
             "stopping", "stopped", "down", "replay"}
  /\ profile \in Profiles
=============================================================================
