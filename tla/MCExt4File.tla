----------------------------- MODULE MCExt4File -----------------------------
(* Small instances of Ext4File: file systems of 24 blocks in two groups. *)
EXTENDS Ext4File

\* Bytes that no call wrote, in every block.
Junk(b) == [i \in 1..BS |-> -(b + 1)]

\* A file of the given size whose tree is root and nodes, and whose byte o, counted from 1, is o;
\* others are the blocks in use for something else.
Image(others, root, nodes, size) ==
  LET s == [root |-> root, nodes |-> [b \in 1..(NBlocks - 1) |-> IF b \in DOMAIN nodes THEN nodes[b] ELSE NoNode],
            used |-> {}, gfree |-> <<>>]
      own == (Tree(s) \ {0}) \cup UNION {DataBlocks(e) : e \in TreeExtents(s)}
      used == own \cup others
      Here(b) == {i \in 0..(BlocksOf(size) - 1) : b \in MappedTo(s, i)}
      Data(b) == IF Here(b) = {} THEN Junk(b)
                 ELSE [k \in 1..BS |-> LET o == BS * Max(Here(b)) + k IN IF o <= size THEN o ELSE -(b + 1)]
      t == [root |-> root, nodes |-> s.nodes, used |-> used, others |-> others,
            gfree |-> [g \in Groups |-> Cardinality({b \in 0..(NBlocks - 1) : bgid_of_block(b) = g} \ used)],
            sbfree |-> NBlocks - Cardinality(used), iblocks |-> Cardinality(own),
            isize |-> size, data |-> [b \in 0..(NBlocks - 1) |-> Data(b)],
            fpos |-> 0, fsize |-> size, val |-> 0, res |-> "OK", fuse |-> 0, path |-> <<>>, npath |-> <<>>,
            buf |-> <<>>, left |-> 0, got |-> <<>>, start |-> 0, cnt |-> 0, fblk |-> 0, idx |-> 0]
  IN [fs |-> t, ref |-> [o \in 1..size |-> IF MappedTo(s, (o - 1) \div BS) = {} THEN Hole ELSE o]]

NoNodes == [b \in {} |-> NoNode]
Odd == {0} \cup {b \in 0..(NBlocks - 1) : b % 2 = 1}

\* Every free block stands alone.
Scattered == Image(Odd, EmptyRoot, NoNodes, 0)
\* Five blocks are free.
NearlyFull == Image((0..23) \ {3, 4, 9, 20, 21}, EmptyRoot, NoNodes, 0)
\* One extent; the free blocks are in its group, before it.
Compact == Image((0..23) \ ((2..5) \cup (7..9)), Node(0, SPACE_ROOT, <<Extent(0, 7, 3)>>), NoNodes, 5)
\* A hole before the first extent; the block before its first block is in use.
HoleFirst == Image(Odd, Node(0, SPACE_ROOT, <<Extent(2, 8, 1)>>), NoNodes, 6)
\* Full nodes on two levels, with holes.
DeepIn(others) ==
        Image(others,
              Node(2, SPACE_ROOT, <<Index(0, 2)>>),
              (2 :> Node(1, SPACE_BLOCK, <<Index(0, 4), Index(4, 6)>>)) @@
              (4 :> Node(0, SPACE_BLOCK, <<Extent(0, 8, 1), Extent(2, 10, 1)>>)) @@
              (6 :> Node(0, SPACE_BLOCK, <<Extent(4, 12, 1), Extent(6, 14, 1)>>)), 13)
Deep == DeepIn(Odd)
\* The same with three free blocks.
DeepFull == DeepIn((0..23) \ {2, 4, 6, 8, 10, 12, 14, 16, 20, 22})

MCImages == {Scattered, NearlyFull, Compact, HoleFirst, Deep, DeepFull}
=============================================================================
