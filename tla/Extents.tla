------------------------------ MODULE Extents ------------------------------
(***************************************************************************)
(* The extent tree of a file in lwext4 (src/lwext4/src/ext4_extent.c). A   *)
(* node is [depth, max, ents]; the root, block 0, is in the i-node, the    *)
(* others are blocks of the device. An entry of a leaf maps len blocks of  *)
(* the file from lb on to blocks of the device from pb on, one of an index *)
(* leads to the node at pb. s.path is the path that a search leaves, a     *)
(* sequence of [blk, pos] from the root down; pos 0 is a null pointer.     *)
(* s.npath holds the nodes that a split made, likewise.                     *)
(***************************************************************************)
EXTENDS Balloc, SequencesExt

CONSTANTS
  SPACE_ROOT, SPACE_BLOCK,   \* entries of the root and of a block
  INIT_MAX_LEN,              \* blocks of the longest extent
  InodeGoal                  \* ext4_fs_inode_to_goal_block

ASSUME ExtentsAssumption ==
  /\ SPACE_ROOT \in Nat \ {0} /\ SPACE_BLOCK \in Nat /\ SPACE_ROOT < SPACE_BLOCK
  /\ INIT_MAX_LEN \in Nat \ {0} /\ InodeGoal \in Nat

Extent(lb, pb, len) == [lb |-> lb, pb |-> pb, len |-> len]
Index(lb, pb) == [lb |-> lb, pb |-> pb, len |-> 0]
Node(depth, max, ents) == [depth |-> depth, max |-> max, ents |-> ents]
NoNode == Node(None, 0, <<>>)

\* ext4_extent_tree_init
EmptyRoot == Node(0, SPACE_ROOT, <<>>)

NodeAt(s, b) == IF b = 0 THEN s.root ELSE s.nodes[b]
SetNode(s, b, n) == IF b = 0 THEN [s EXCEPT !.root = n] ELSE [s EXCEPT !.nodes[b] = n]

ext_depth(s) == s.root.depth

\* The node, and the entry, that the path holds at a level.
Step(s, i) == s.path[i + 1]
NodeOn(s, i) == NodeAt(s, Step(s, i).blk)
EntryOn(s, i) == NodeOn(s, i).ents[Step(s, i).pos]
SetEnts(s, i, ents) == SetNode(s, Step(s, i).blk, [NodeOn(s, i) EXCEPT !.ents = ents])
SetFirst(s, i, lb) == SetEnts(s, i, [NodeOn(s, i).ents EXCEPT ![Step(s, i).pos].lb = lb])

\* ext4_ext_free_blocks, whose callers do not learn of errors.
Release(s, b, count) == Result(free_blocks(s, b, count), s.res)

-----------------------------------------------------------------------------
(* Searching *)

\* The loop of ext4_ext_binsearch and ext4_ext_binsearch_idx.
RECURSIVE Bisect(_, _, _, _)
Bisect(ents, block, l, r) ==
  LET m == l + (r - l) \div 2
  IN IF l > r THEN l - 1
     ELSE IF block < ents[m].lb THEN Bisect(ents, block, l, m - 1)
     ELSE Bisect(ents, block, m + 1, r)

\* Mutant: the first entry is skipped when there are two.
binsearch_past(ents, block) == IF ents = <<>> THEN 0 ELSE Bisect(ents, block + 1, 2, Len(ents))

binsearch(ents, block) == IF ents = <<>> THEN 0 ELSE Bisect(ents, block, 2, Len(ents))

\* read_extent_tree_block with ext4_ext_check.
read_extent_tree_block(s, b, depth) ==
  LET Check(t) == LET n == NodeAt(t, b)
                  IN IF n.depth = depth /\ n.max # 0 /\ Len(n.ents) <= n.max THEN t ELSE Result(t, "EIO")
  IN IfOk(Fetch(s), Check)

\* ext4_find_extent from the node at b, i levels above the leaves, on.
RECURSIVE Descend(_, _, _, _)
Descend(s, block, b, i) ==
  LET pos == binsearch(NodeAt(s, b).ents, block)
      t == [s EXCEPT !.path = Append(@, [blk |-> b, pos |-> pos])]
      child == NodeAt(s, b).ents[pos].pb
  IN IF i = 0 THEN Result(t, "OK")
     ELSE IfOk(read_extent_tree_block(t, child, i - 1), LAMBDA u : Descend(u, block, child, i - 1))

find_extent(s, block) == Descend([s EXCEPT !.path = <<>>], block, 0, ext_depth(s))

Leaf(s) == Step(s, ext_depth(s))

\* ext4_ext_find_goal
find_goal(s, block) ==
  LET e == EntryOn(s, ext_depth(s))
  IN IF Leaf(s).pos # 0 THEN e.pb + block - e.lb
     ELSE IF Leaf(s).blk # 0 THEN Leaf(s).blk
     ELSE InodeGoal

-----------------------------------------------------------------------------
(* Inserting *)

can_append(e, n) == e.pb + e.len = n.pb /\ e.len + n.len <= INIT_MAX_LEN /\ e.lb + e.len = n.lb
can_prepend(e, n) == can_append(n, e)

\* ext4_ext_correct_indexes: the indexes from level k up that lead to a first entry.
RECURSIVE CorrectFrom(_, _, _)
CorrectFrom(s, k, border) ==
  LET t == SetFirst(s, k, border)
  IN IF k > 0 /\ Step(s, k).pos = 1 THEN CorrectFrom(t, k - 1, border) ELSE t

\* Mutant: the indexes are left as they are.
correct_indexes_not(s) == s

correct_indexes(s) ==
  LET d == ext_depth(s)
  IN IF d = 0 \/ Leaf(s).pos # 1 THEN s ELSE CorrectFrom(s, d - 1, EntryOn(s, d).lb)

\* ext4_ext_insert_leaf; the result is "SPLIT" when the leaf is full. An extent that is
\* prepended leaves the first block of the device as it is.
insert_leaf(s, new) ==
  LET d == ext_depth(s)
      ents == NodeOn(s, d).ents
      p == Leaf(s).pos
      At(q) == [s EXCEPT !.path[d + 1].pos = q]
      Put(q, old) == correct_indexes(SetEnts(At(old), d, InsertAt(ents, q, new)))
      Placed(q, old) == [Put(q, old) EXCEPT !.path[d + 1].pos = q]
      Grown(e) == SetEnts(s, d, [ents EXCEPT ![p] = e])
  IN IF p # 0 /\ ents[p].lb = new.lb THEN Result(s, "EIO")
     ELSE IF p # 0 /\ can_append(ents[p], new) THEN Grown([ents[p] EXCEPT !.len = @ + new.len])
     ELSE IF p # 0 /\ can_prepend(ents[p], new)
          THEN Grown([ents[p] EXCEPT !.lb = new.lb, !.len = @ + new.len])
     ELSE IF Len(ents) = NodeOn(s, d).max THEN Result(s, "SPLIT")
     ELSE IF p = 0 THEN Placed(1, 1)
     ELSE IF new.lb > ents[p].lb THEN Placed(p + 1, p)
     ELSE Placed(p, p)

\* ext4_ext_grow_indepth: the root moves to a block of its own.
grow_indepth(s) ==
  LET goal == IF ext_depth(s) # 0 THEN s.root.ents[1].pb ELSE InodeGoal
      Move(t) == [SetNode(t, t.val, [t.root EXCEPT !.max = SPACE_BLOCK])
                    EXCEPT !.root = Node(t.root.depth + 1, SPACE_ROOT, <<Index(t.root.ents[1].lb, t.val)>>)]
  IN IfOk(alloc_block(s, goal), Move)

\* ext4_ext_insert_index at level i; the path follows when right.
insert_index(s, i, lb, pb, right) ==
  LET ents == NodeOn(s, i).ents
      p == Step(s, i).pos
      q == IF lb > ents[p].lb THEN p + 1 ELSE p
      t == SetEnts(s, i, InsertAt(ents, q, Index(lb, pb)))
  IN IF lb = ents[p].lb \/ Len(ents) = NodeOn(s, i).max THEN Result(s, "EIO")
     ELSE IF right THEN [t EXCEPT !.path[i + 1].pos = q] ELSE t

\* The cleanup of ext4_ext_split_node: the new nodes, from the leaf up.
RECURSIVE FreeNew(_)
FreeNew(s) ==
  IF s.npath = <<>> THEN s
  ELSE FreeNew([Release(s, s.npath[Len(s.npath)].blk, 1) EXCEPT !.npath = SubSeq(@, 1, Len(@) - 1)])

Cleanup(s) == IF s.res = "OK" THEN [s EXCEPT !.npath = <<>>] ELSE FreeNew(s)

\* The loop of ext4_ext_split_node, from level i up to level at, and the index of what was split
\* off, which s.npath holds.
RECURSIVE SplitUp(_, _, _, _, _)
SplitUp(s, i, at, new, lb) ==
  LET d == ext_depth(s)
      p == Step(s, i).pos
      ents == NodeOn(s, i).ents
      rest == SubSeq(ents, p + 1, Len(ents))
      moved == IF i = d THEN rest ELSE <<Index(lb, s.npath[1].blk)>> \o rest
      top == IF moved = <<>> THEN 0 ELSE 1
      Put(t) == [SetNode(SetEnts(t, i, SubSeq(ents, 1, p)), t.val, Node(d - i, SPACE_BLOCK, moved))
                   EXCEPT !.npath = <<[blk |-> t.val, pos |-> top]>> \o @]
      Split(t) == SplitUp(Put(t), i - 1, at, new, lb)
      right == new.lb >= lb
      Follow(t) == IF right THEN [t EXCEPT !.path = SubSeq(@, 1, at) \o t.npath] ELSE t
  IN IF i >= at THEN IfOk(alloc_block(s, find_goal(s, new.lb)), Split)
     ELSE IfOk(insert_index(s, at - 1, lb, s.npath[1].blk, right), Follow)

\* ext4_ext_split_node: after the extent of the path, in the nodes from level at down.
split_node(s, at, new) ==
  LET d == ext_depth(s)
      ents == NodeOn(s, d).ents
      p == Leaf(s).pos
  IN Cleanup(SplitUp(s, d, at, new, IF p # NodeOn(s, d).max THEN ents[p + 1].lb ELSE new.lb))

HasFreeIndex(s, i) == Len(NodeOn(s, i).ents) < NodeOn(s, i).max

\* ext4_ext_insert_extent: the nodes below the lowest one with a free entry are split, after the
\* tree has grown when there is none.
RECURSIVE insert_extent(_, _)
insert_extent(s, new) ==
  LET free == {i \in 0..ext_depth(s) : HasFreeIndex(s, i)}
      at == IF free # {} THEN Max(free) + 1 ELSE 2
      Room(t) == IF free # {} THEN Result(t, "OK")
                 ELSE IfOk(grow_indepth(t), LAMBDA u : find_extent(u, new.lb))
      Split(t) == IF at > ext_depth(t) THEN t ELSE split_node(t, at, new)
      Again(t) == insert_extent(t, new)
      Inserted(t) == IF t.res = "SPLIT" THEN IfOk(IfOk(Room(s), Split), Again) ELSE t
  IN Inserted(insert_leaf(s, new))

\* ext4_extent_get_blocks of one block; the block of the device is in s.val, 0 for a hole.
get_blocks(s, iblock, create) ==
  LET Covers(t) == LET e == EntryOn(t, ext_depth(t))
                   IN Leaf(t).pos # 0 /\ iblock \in e.lb..(e.lb + e.len - 1)
      Block(t) == LET e == EntryOn(t, ext_depth(t)) IN e.pb + iblock - e.lb
      Ended(t, b) == IF t.res = "OK" THEN [t EXCEPT !.val = b]
                     ELSE [Release(t, b, 1) EXCEPT !.val = 0]
      Insert(t, b) == Ended(insert_extent(t, Extent(iblock, b, 1)), b)
      Found(t) == IF Covers(t) THEN [t EXCEPT !.val = Block(t)]
                  ELSE IF ~create THEN [t EXCEPT !.val = 0]
                  ELSE IfOk(alloc_block(t, find_goal(t, iblock)), LAMBDA u : Insert(u, u.val))
      Drop(t) == [t EXCEPT !.path = <<>>]
  IN Drop(IfOk(find_extent([s EXCEPT !.val = 0], iblock), Found))

-----------------------------------------------------------------------------
(* Removing, which is always done up to the end of the file *)

\* ext4_ext_remove_idx: the entry of the path at level i goes; the path then points to the next.
RECURSIVE CorrectRemoved(_, _, _)
CorrectRemoved(s, i, lb) ==
  IF i > 0 /\ Step(s, i).pos = 1 THEN CorrectRemoved(SetFirst(s, i - 1, lb), i - 1, lb) ELSE s

remove_idx(s, i) ==
  LET ents == NodeOn(s, i).ents
      p == Step(s, i).pos
      left == RemoveAt(ents, p)
      lb == IF p <= Len(left) THEN left[p].lb ELSE ents[p].lb
  IN CorrectRemoved(Release(SetEnts(s, i, left), ents[p].pb, 1), i, lb)

\* The blocks of the extents that go.
RECURSIVE FreeExtents(_, _)
FreeExtents(s, ents) ==
  IF ents = <<>> THEN s ELSE FreeExtents(Release(s, ents[1].pb, ents[1].len), Tail(ents))

Advance(s, i) == [s EXCEPT !.path[i + 1].pos = @ + 1]

\* ext4_ext_remove_leaf: from the extent of the path on, of which the part before from stays.
remove_leaf(s, from) ==
  LET d == ext_depth(s)
      ents == NodeOn(s, d).ents
      p == Leaf(s).pos
      e == ents[p]
      cut == e.lb < from
      keep == IF cut THEN from - e.lb ELSE 0
      goes == (IF cut THEN <<Extent(from, e.pb + keep, e.len - keep)>> ELSE <<e>>)
                \o SubSeq(ents, p + 1, Len(ents))
      stays == SubSeq(ents, 1, p - 1) \o IF cut THEN <<[e EXCEPT !.len = keep]>> ELSE <<>>
      Correct(t) == IF p = 1 /\ stays # <<>> THEN correct_indexes(t) ELSE t
      Up(t) == IF stays = <<>> /\ Leaf(t).blk # 0 THEN remove_idx(t, d - 1)
               ELSE IF d > 0 THEN Advance(t, d - 1) ELSE t
  IN Up(Correct(SetEnts(FreeExtents(s, goes), d, stays)))

\* ext4_ext_more_to_rm
more_to_rm(s, i) == LET ents == NodeOn(s, i).ents IN ents # <<>> /\ Step(s, i).pos <= Len(ents)

\* The loop of ext4_extent_remove_space, at level i of the path.
RECURSIVE RemoveLoop(_, _, _)
RemoveLoop(s, i, from) ==
  LET d == ext_depth(s)
      first == NodeOn(s, d).ents[1].lb
      child == EntryOn(s, i).pb
      Down(t) == RemoveLoop([t EXCEPT !.path = SubSeq(@, 1, i + 1) \o <<[blk |-> child, pos |-> 1]>>
                                                 \o SubSeq(@, i + 3, Len(@))], i + 1, from)
      Up(t) == RemoveLoop(IF i = 0 THEN t
                          ELSE IF NodeOn(t, i).ents = <<>> THEN remove_idx(t, i - 1)
                          ELSE Advance(t, i - 1), i - 1, from)
  IN IF i < 0 THEN s
     ELSE IF i = d THEN RemoveLoop(remove_leaf(s, IF first < from THEN from ELSE first), i - 1, from)
     ELSE IF more_to_rm(s, i) THEN IfOk(read_extent_tree_block(s, child, d - i - 1), Down)
     ELSE Up(s)

\* ext4_extent_remove_space: nothing goes when from is in a hole.
remove_space(s, from) ==
  LET Flat(t) == IF t.root.ents = <<>> THEN [t EXCEPT !.root = EmptyRoot] ELSE t
      Covers(t) == LET e == EntryOn(t, ext_depth(t))
                   IN Leaf(t).pos # 0 /\ from \in e.lb..(e.lb + e.len - 1)
      Found(t) == IF Covers(t) THEN IfOk(RemoveLoop(t, ext_depth(t), from), Flat) ELSE t
      Drop(t) == [t EXCEPT !.path = <<>>]
  IN Drop(IfOk(find_extent(s, from), Found))
=============================================================================
