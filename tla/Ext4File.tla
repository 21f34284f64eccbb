------------------------------ MODULE Ext4File ------------------------------
(***************************************************************************)
(* One open file of lwext4 (src/lwext4/src/ext4.c, ext4_fs.c) on top of    *)
(* its extent tree and of the block allocator: ext4_fread, ext4_fwrite,    *)
(* ext4_fseek and ext4_ftruncate. The record fs holds the file system      *)
(* (see Balloc and Extents; isize is the size in the i-node, data the      *)
(* bytes of every block), the handle (fpos, fsize) and what a call works   *)
(* with: the bytes still to be written (buf) or to be read (left), those   *)
(* read (got), and the run of blocks to be moved at once (start, cnt; fblk *)
(* is the block mapped last and idx the next block of the file). ref is    *)
(* what the file should hold, a Hole where nothing was ever written.       *)
(***************************************************************************)
EXTENDS Extents

CONSTANTS
  BS, MAX_TRUNCATE_SIZE,  \* bytes of a block, and truncated in one transaction
  Images,                 \* what the file system may hold at the start
  WriteSizes, ReadSizes, Offsets, TruncateSizes,
  MaxOps,                 \* bound: writes and truncations
  MaxErrs, MaxFuse        \* bound: failing calls, and accesses before the failure

ASSUME FileAssumption ==
  /\ {BS, MAX_TRUNCATE_SIZE} \subseteq Nat \ {0} /\ MAX_TRUNCATE_SIZE % BS = 0
  /\ {MaxOps, MaxErrs, MaxFuse} \subseteq Nat
  /\ WriteSizes \cup ReadSizes \subseteq Nat \ {0}
  /\ Offsets \cup TruncateSizes \subseteq Nat

VARIABLES
  fs,      \* the file system and the handle
  ref,     \* the bytes that the file should hold
  call,    \* the last call: what it was asked for and what it did
  ops, errs,
  hurt     \* a call failed half-way: the device failed, or a hole could not be filled

vars == <<fs, ref, call, ops, errs, hurt>>

Hole == 0
NoFailure == 1000
NoCall == [op |-> "none", at |-> 0, n |-> 0, got |-> <<>>, ok |-> TRUE]

BlocksOf(size) == (size + BS - 1) \div BS
Bytes(s, b, off, n) == SubSeq(s.data[b], off + 1, off + n)

\* The first n bytes of buf go to block b at off.
PutBytes(s, b, off, n) ==
  [s EXCEPT !.data[b] = [i \in 1..BS |-> IF i - off \in 1..n THEN s.buf[i - off] ELSE @[i]],
            !.buf = SubSeq(@, n + 1, Len(@)), !.fpos = @ + n]

-----------------------------------------------------------------------------
(* Blocks of the file *)

\* The block of the device for block idx of the file, in s.val. None for the blocks that the file
\* has: ext4_fs_get_inode_dblk_idx. Else idx is one of those, which is made when it is missing
\* (ext4_fs_init_inode_dblk_idx), or the next block is appended, by which the file grows
\* (ext4_fs_append_inode_dblk).
dblk(s, file_blocks) ==
  LET create == file_blocks # None
      append == create /\ s.idx >= file_blocks
      i == IF append THEN BlocksOf(s.isize) ELSE s.idx
      Grow(t) == IF append THEN [t EXCEPT !.isize = @ + BS] ELSE t
  IN IfOk(get_blocks([s EXCEPT !.idx = i], i, create), Grow)

\* The inner loop of ext4_fread and of ext4_fwrite: the blocks that follow each other.
RECURSIVE Gather(_, _, _)
Gather(s, last, old) ==
  LET Joined(t, start) ==
        LET u == [t EXCEPT !.idx = @ + 1, !.start = start, !.fblk = t.val]
        IN IF start + t.cnt # t.val THEN u ELSE Gather([u EXCEPT !.cnt = @ + 1], last, old)
      Mapped(t) == Joined(t, IF t.start = 0 THEN t.val ELSE t.start)
  IN IF s.idx >= last THEN Result(s, "OK") ELSE IfOk(dblk(s, old), Mapped)

\* The run was moved; the next one starts with the block that did not follow.
NextRun(s) == [s EXCEPT !.start = s.fblk, !.cnt = 1]

-----------------------------------------------------------------------------
(* Reading *)

Took(s, bytes) ==
  [s EXCEPT !.got = @ \o bytes, !.left = @ - Len(bytes), !.fpos = @ + Len(bytes)]

ReadHead(s) ==
  LET unalg == s.fpos % BS
      len == Min({s.left, BS - unalg})
      Zeros == [i \in 1..len |-> 0]
      Next1(t) == [t EXCEPT !.idx = @ + 1]
      Mapped(t) == IF t.val = 0 THEN Next1(Took(t, Zeros))
                   ELSE IfOk(Fetch(t), LAMBDA u : Next1(Took(u, Bytes(u, u.val, unalg, len))))
  IN IF unalg = 0 THEN s ELSE IfOk(dblk(s, None), Mapped)

\* ext4_blocks_get_direct of the run.
ReadRun(s) ==
  NextRun(Took(s, FlattenSeq([k \in 1..s.cnt |-> s.data[s.start + k - 1]])))

RECURSIVE ReadBlocks(_, _)
ReadBlocks(s, last) ==
  LET Again(t) == ReadBlocks(t, last)
      Direct(t) == IfOk(Fetch(t), LAMBDA u : Again(ReadRun(u)))
  IN IF s.left < BS THEN s ELSE IfOk(Gather(s, last, None), Direct)

ReadTail(s) ==
  LET Mapped(t) == IfOk(Fetch(t), LAMBDA u : Took(u, Bytes(u, u.val, 0, u.left)))
  IN IF s.left = 0 THEN s ELSE IfOk(dblk(s, None), Mapped)

\* Mutant: the position is not taken into account when the size is limited.
Limit_end(s, n) == Min({n, s.fsize})

Limit(s, n) == Min({n, s.fsize - s.fpos})

\* ext4_fread; a failure leaves what was read before it.
fread(s, n) ==
  LET Sync(t) == [t EXCEPT !.fsize = t.isize]
      Start(t) == [t EXCEPT !.left = Limit(t, n), !.idx = t.fpos \div BS, !.start = 0, !.cnt = 0]
      Read(t, last) == IfOk(IfOk(ReadHead(t), LAMBDA u : ReadBlocks(u, last)), ReadTail)
      Run(t) == Read(t, (t.fpos + t.left) \div BS)
  IN IfOk(Fetch(s), LAMBDA t : Run(Start(Sync(t))))

-----------------------------------------------------------------------------
(* Writing *)

WriteHead(s) ==
  LET unalg == s.fpos % BS
      len == Min({Len(s.buf), BS - unalg})
      Mapped(t) == IfOk(Fetch(t), LAMBDA u : [PutBytes(u, u.val, unalg, len) EXCEPT !.idx = @ + 1])
  IN IF unalg = 0 THEN s ELSE IfOk(dblk(s, s.idx + 1), Mapped)

\* ext4_blocks_set_direct of the run.
RECURSIVE PutRun(_, _, _)
PutRun(s, b, cnt) == IF cnt = 0 THEN s ELSE PutRun(PutBytes(s, b, 0, BS), b + 1, cnt - 1)
WriteRun(s) == NextRun(PutRun(s, s.start, s.cnt))

out_fsize(s) == IF s.fpos > s.fsize THEN [s EXCEPT !.fsize = s.fpos, !.isize = s.fpos] ELSE s

\* The result "FULL" stands for a block that could not be appended: what is there is still
\* written, and the size is set.
Full(s) == Result(s, "FULL")

\* The loop over whole blocks.
RECURSIVE WriteBlocks(_, _, _)
WriteBlocks(s, last, old) ==
  LET Again(t) == WriteBlocks(t, last, old)
      Direct(t) == IfOk(Fetch(t), LAMBDA u : Again(WriteRun(u)))
      Short(t) == IfOk(Fetch(t), LAMBDA u : Full(WriteRun(u)))
      Gathered(t) == IF t.res # "OK" /\ t.idx >= old THEN Short(t) ELSE IfOk(t, Direct)
  IN IF Len(s.buf) < BS THEN s ELSE Gathered(Gather(s, last, old))

WriteTail(s, old) ==
  LET Mapped(t) == IfOk(Fetch(t), LAMBDA u : PutBytes(u, u.val, 0, Len(u.buf)))
      Tried(t) == IF t.res # "OK" /\ t.idx >= old THEN Full(t) ELSE IfOk(t, Mapped)
  IN IF s.buf = <<>> THEN s ELSE Tried(dblk(s, old))

\* ext4_fwrite, whose result is that of ext4_fs_put_inode_ref at the end.
fwrite(s, buf) ==
  LET Sync(t) == [t EXCEPT !.fsize = t.isize]
      Start(t) == [t EXCEPT !.buf = buf, !.idx = t.fpos \div BS, !.start = 0, !.cnt = 0]
      End(t) == IF t.res \in {"OK", "FULL"} THEN out_fsize(t) ELSE t
      Write(t, last, old) ==
        End(IfOk(IfOk(WriteHead(t), LAMBDA u : WriteBlocks(u, last, old)), LAMBDA u : WriteTail(u, old)))
      Run(t) == Write(t, (t.fpos + Len(buf)) \div BS, BlocksOf(t.fsize))
  IN IfOk(Fetch(s), LAMBDA t : Run(Start(Sync(t))))

-----------------------------------------------------------------------------
(* Seeking and truncating *)

fseek(s, offset, origin) ==
  LET to == CASE origin = "SET" -> offset
              [] origin = "CUR" -> offset + s.fpos
              [] origin = "END" -> s.fsize - offset
  IN IF to \in 0..s.fsize THEN [s EXCEPT !.fpos = to] ELSE Result(s, "EINVAL")

\* ext4_fs_truncate_inode
truncate_inode(s, size) ==
  LET Sized(t) == [t EXCEPT !.isize = size]
      blocks == BlocksOf(size)
  IN IfOk(IF blocks = BlocksOf(s.isize) THEN s ELSE remove_space(s, blocks), Sized)

\* ext4_trunc_inode: from the end, in pieces that fit a transaction; when the i-node
\* cannot be got for a piece, the rest is tried at once.
RECURSIVE trunc_inode(_, _, _)
trunc_inode(s, inode_size, new_size) ==
  LET piece == inode_size - MAX_TRUNCATE_SIZE
      Piece(t) == IfOk(truncate_inode(t, piece), LAMBDA u : trunc_inode(u, piece, new_size))
      Rest(t) == IfOk(Fetch(t), LAMBDA u : truncate_inode(u, new_size))
      Got(t) == IF t.res = "OK" THEN Piece(t) ELSE Rest(t)
  IN IF piece > new_size THEN Got(Fetch(s))
     ELSE IF inode_size > new_size THEN Rest(s)
     ELSE s

Shrunk(s, size) == [s EXCEPT !.fsize = size, !.fpos = Min({@, size})]

\* ext4_ftruncate_no_lock
ftruncate(s, size) ==
  LET Sync(t) == [t EXCEPT !.fsize = t.isize]
      Handle(t) == Shrunk(t, size)
      Shrink(t) == IF t.fsize <= size THEN t
                   ELSE IfOk(trunc_inode(t, t.isize, size), Handle)
  IN IfOk(Fetch(s), LAMBDA t : Shrink(Sync(t)))

-----------------------------------------------------------------------------
(* The actions *)

Init ==
  /\ \E i \in Images :
       /\ fs = [i.fs EXCEPT !.fpos = 0, !.fsize = i.fs.isize]
       /\ ref = i.ref
  /\ call = NoCall /\ ops = 0 /\ errs = 0 /\ hurt = FALSE

\* How many accesses of the device succeed in a call.
Fuses == {NoFailure} \cup IF errs < MaxErrs THEN 0..MaxFuse ELSE {}
Fused(f) == [fs EXCEPT !.fuse = f]
Failed(t) == t.fuse = None

\* A truncation that fails after its first piece leaves the position after the end of the file,
\* and the unsigned differences that ext4_fread and ext4_fwrite take then wrap: what they do
\* from there on is not modelled.
Inside == fs.fpos <= fs.isize

\* What a call worked with is gone when it returns. A fuse that held is the call without failure.
Returned(t, f) ==
  /\ f = NoFailure \/ Failed(t)
  /\ errs' = errs + IF Failed(t) THEN 1 ELSE 0
  /\ fs' = [t EXCEPT !.res = "OK", !.val = 0, !.fuse = 0, !.path = <<>>, !.buf = <<>>, !.left = 0,
                     !.got = <<>>, !.start = 0, !.cnt = 0, !.fblk = 0, !.idx = 0]

Fread(n) ==
  /\ Inside
  /\ \E f \in Fuses : \E t \in {fread(Fused(f), n)} :
       /\ Returned(t, f)
       /\ call' = [op |-> "read", at |-> fs.fpos, n |-> n, got |-> t.got, ok |-> t.res = "OK"]
  /\ UNCHANGED <<ref, ops, hurt>>

\* The byte that write number ops + 1 puts at an offset.
Written(o) == 100 * (ops + 1) + o

\* The file after the bytes from at on were written.
Overwritten(at, bytes) ==
  [o \in 1..Max({at + Len(bytes), Len(ref)}) |->
     IF o - at \in 1..Len(bytes) THEN bytes[o - at] ELSE ref[o]]

Fwrite(n) ==
  LET buf == [i \in 1..n |-> Written(fs.fpos + i - 1)]
  IN /\ Inside /\ ops < MaxOps /\ ops' = ops + 1
     /\ \E f \in Fuses : \E t \in {fwrite(Fused(f), buf)} :
          LET done == SubSeq(buf, 1, n - Len(t.buf))
          IN /\ Returned(t, f)
             /\ call' = [op |-> "write", at |-> fs.fpos, n |-> n, got |-> done, ok |-> t.res = "OK"]
             /\ ref' = IF hurt THEN ref ELSE Overwritten(fs.fpos, done)
             /\ hurt' = (hurt \/ Failed(t) \/ (t.buf # <<>> /\ t.fpos < fs.isize))

Fseek(offset, origin) ==
  /\ \E t \in {fseek(fs, offset, origin)} : fs' = Result(t, "OK")
  /\ call' = NoCall
  /\ UNCHANGED <<ref, ops, errs, hurt>>

Ftruncate(size) ==
  /\ ops < MaxOps /\ ops' = ops + 1
  /\ \E f \in Fuses : \E t \in {ftruncate(Fused(f), size)} :
       /\ Returned(t, f)
       /\ ref' = IF hurt THEN ref ELSE SubSeq(ref, 1, Min({size, Len(ref)}))
       /\ hurt' = (hurt \/ Failed(t))
  /\ call' = NoCall

Next ==
  \/ \E n \in ReadSizes : Fread(n)
  \/ \E n \in WriteSizes : Fwrite(n)
  \/ \E o \in Offsets, origin \in {"SET", "CUR", "END"} : Fseek(o, origin)
  \/ \E n \in TruncateSizes : Ftruncate(n)

Spec == Init /\ [][Next]_vars

-----------------------------------------------------------------------------
(* What should hold *)

\* Every node of the tree that the root leads to, as blocks, and where an index may lead.
RECURSIVE Below(_, _)
Below(s, b) ==
  {b} \cup UNION {Below(s, e.pb) : e \in IF NodeAt(s, b).depth = 0 THEN {} ELSE Range(NodeAt(s, b).ents)}

ExtentsBelow(s, b) == UNION {Range(NodeAt(s, c).ents) : c \in {x \in Below(s, b) : NodeAt(s, x).depth = 0}}
Tree(s) == Below(s, 0)
TreeExtents(s) == ExtentsBelow(s, 0)
DataBlocks(e) == e.pb..(e.pb + e.len - 1)
FileBlocks(e) == e.lb..(e.lb + e.len - 1)

\* The block of the device that holds block i of the file.
MappedTo(s, i) == {e.pb + i - e.lb : e \in {x \in TreeExtents(s) : i \in FileBlocks(x)}}

\* A sound tree: all leaves have the same depth, no node but the root is empty or holds too much,
\* the entries are in order, an index leads to the extents between it and the next one, and no
\* block of the file is mapped twice.
TreeSound ==
  /\ \A b \in Tree(fs) :
       LET n == NodeAt(fs, b)
           k == Len(n.ents)
       IN /\ k <= n.max /\ (b # 0 => k > 0)
          /\ \A i \in 2..k : n.ents[i - 1].lb < n.ents[i].lb
          /\ n.depth > 0 => \A i \in 1..k :
               /\ NodeAt(fs, n.ents[i].pb).depth = n.depth - 1
               /\ \A e \in ExtentsBelow(fs, n.ents[i].pb) :
                    n.ents[i].lb <= e.lb /\ (i < k => e.lb + e.len <= n.ents[i + 1].lb)
  /\ \A e \in TreeExtents(fs) :
       e.len > 0 /\ \A x \in TreeExtents(fs) : x = e \/ FileBlocks(x) \cap FileBlocks(e) = {}

\* A block is used for one thing only, and what the bitmaps and the three counters say is what
\* is used; after a failure of the device blocks may be lost but none is used twice.
BlocksOwned ==
  LET others == fs.others
      nodes == Tree(fs) \ {0}
      own == nodes \cup UNION {DataBlocks(e) : e \in TreeExtents(fs)}
      n == Cardinality(own)
  IN /\ own \cap others = {} /\ own \subseteq fs.used
     /\ n = Cardinality(nodes) + FoldSet(LAMBDA e, m : e.len + m, 0, TreeExtents(fs))
     /\ ~hurt => /\ fs.used = own \cup others /\ fs.iblocks = n
                 /\ fs.sbfree = NBlocks - Cardinality(fs.used)
                 /\ \A g \in Groups : fs.gfree[g] = BPG - Cardinality(Bits(fs, g))

\* The byte of block b that is byte o of the file, counted from 1.
ByteAt(b, o) == fs.data[b][((o - 1) % BS) + 1]

\* What was written is where the tree says, whatever was written elsewhere and cut off since; the
\* handle agrees with the i-node on the size, and its position is inside the file.
ContentsKept ==
  ~hurt => /\ fs.isize = Len(ref) /\ fs.fsize = fs.isize /\ fs.fpos \in 0..fs.fsize
           /\ \A o \in 1..Len(ref) :
                ref[o] # Hole => {ByteAt(b, o) : b \in MappedTo(fs, (o - 1) \div BS)} = {ref[o]}

\* ext4_fread gives as many bytes as the file has and was asked for, fewer only when it fails, and
\* those bytes that were written.
ReadsContents ==
  call.op = "read" /\ ~hurt =>
    /\ call.ok => Len(call.got) = Min({call.n, Len(ref) - call.at})
    /\ \A i \in 1..Len(call.got) : ref[call.at + i] \in {Hole, call.got[i]}

\* ext4_fwrite comes short only when the free blocks are not enough for another block of the
\* file with the nodes that may have to be split for it.
ShortOnlyWhenFull ==
  call.op = "write" /\ ~hurt /\ Len(call.got) < call.n => fs.sbfree <= ext_depth(fs) + 1

\* The comment in ext4_fread on a block that is not there: it is read as zeros.
HolesReadZero ==
  call.op = "read" /\ ~hurt =>
    \A i \in 1..Len(call.got) : ref[call.at + i] = Hole => call.got[i] = 0
=============================================================================
