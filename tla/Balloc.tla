------------------------------- MODULE Balloc -------------------------------
(***************************************************************************)
(* The block allocator of lwext4 (src/lwext4/src/ext4_balloc.c and         *)
(* ext4_bitmap.c): one bitmap and one counter of free blocks per group,    *)
(* and the counters of the superblock and of the i-node. The functions are *)
(* operators from a record s to the next; res is the result and val what a *)
(* function returns through a pointer. fuse is the number of reads of      *)
(* metadata that succeed before the device fails; it is None from then on. *)
(***************************************************************************)
EXTENDS Integers, FiniteSetsExt

CONSTANTS
  NBlocks, BPG,   \* blocks of the device and of a group
  BYTE, NEAR      \* bits that a bitmap is scanned by: 8, and 64 near the goal

ASSUME BallocAssumption ==
  /\ {NBlocks, BPG, BYTE, NEAR} \subseteq Nat \ {0}
  /\ NEAR % BYTE = 0 /\ BPG % BYTE = 0

None == -1
NGroups == (NBlocks + BPG - 1) \div BPG
Groups == 0..(NGroups - 1)

Result(s, r) == [s EXCEPT !.res = r]

\* What is done when the call that led to s succeeded.
IfOk(s, F(_)) == IF s.res = "OK" THEN F(s) ELSE s

\* ext4_trans_block_get of a block of metadata, which may have to be read.
Fetch(s) ==
  IF s.fuse > 0 THEN [s EXCEPT !.fuse = @ - 1, !.res = "OK"] ELSE [s EXCEPT !.fuse = None, !.res = "EIO"]

bgid_of_block(b) == b \div BPG
addr_to_idx_bg(b) == b % BPG
bg_idx_to_addr(i, g) == g * BPG + i
blocks_in_group_cnt(g) == IF g = NGroups - 1 THEN NBlocks - g * BPG ELSE BPG

\* The bits of group g that are set; those after the end of the device always are.
Bits(s, g) == {i \in 0..(BPG - 1) : bg_idx_to_addr(i, g) \in s.used \/ bg_idx_to_addr(i, g) >= NBlocks}

RoundUp(i, n) == ((i + n - 1) \div n) * n

\* ext4_bmap_bit_find_clr: the bits up to the next byte are tried first; one of them that is
\* clear is reported as sbit.
bit_find_clr(bits, sbit, ebit) ==
  LET byte == RoundUp(sbit, BYTE)
      head == {i \in sbit..(ebit - 1) : i < byte /\ i \notin bits}
      rest == {i \in byte..(ebit - 1) : i \notin bits}
  IN IF head # {} THEN sbit ELSE IF rest # {} THEN Min(rest) ELSE None

\* The end of ext4_balloc_alloc_block: the bit is set and the counters follow.
Take(s, b) ==
  [s EXCEPT !.used = @ \cup {b}, !.gfree[bgid_of_block(b)] = @ - 1, !.sbfree = @ - 1,
            !.iblocks = @ + 1, !.val = b, !.res = "OK"]

\* The loop of ext4_balloc_alloc_block over the other groups.
RECURSIVE OtherGroups(_, _, _)
OtherGroups(s, g, count) ==
  LET On(t) == OtherGroups(t, (g + 1) % NGroups, count - 1)
      Choose(t, i) == IF i = None THEN On(t) ELSE Take(t, bg_idx_to_addr(i, g))
      Look(t) == Choose(t, bit_find_clr(Bits(t, g), 0, blocks_in_group_cnt(g)))
  IN IF count = 0 THEN [s EXCEPT !.res = "ENOSPC", !.val = 0]
     ELSE IF s.gfree[g] = 0 THEN On(s)
     ELSE IfOk(Fetch(s), Look)

\* Mutant: the search ends before it is back at the group of the goal.
AfterGoal_once(s, g) == OtherGroups(s, (g + 1) % NGroups, NGroups - 1)

\* Once round the groups, the one of the goal last.
AfterGoal(s, g) == OtherGroups(s, (g + 1) % NGroups, NGroups)

\* Mutant: the search does not look for free blocks near the goal first.
NearGoal_skipped(bits, i, cnt) == {}

\* The bits from the goal to the next multiple of NEAR that are clear.
NearGoal(bits, i, cnt) ==
  {k \in (i + 1)..(RoundUp(i, NEAR) - 1) : k < cnt /\ k \notin bits}

\* The bit that is taken in the group of the goal, None when there is none from the goal on.
InGoalGroup(bits, i, cnt) ==
  LET near == NearGoal(bits, i, cnt)
  IN IF i \notin bits THEN i ELSE IF near # {} THEN Min(near) ELSE bit_find_clr(bits, i, cnt)

\* A goal after the end of the device leads to an empty descriptor.
alloc_block(s, goal) ==
  LET g == bgid_of_block(goal)
      Look(t) == [t EXCEPT !.val = InGoalGroup(Bits(t, g), addr_to_idx_bg(goal), blocks_in_group_cnt(g))]
      Choose(t) == IF t.val = None THEN AfterGoal(t, g) ELSE Take(t, bg_idx_to_addr(t.val, g))
  IN IfOk(IF g \notin Groups \/ s.gfree[g] = 0 THEN [s EXCEPT !.val = None] ELSE IfOk(Fetch(s), Look), Choose)

\* ext4_balloc_free_blocks, group by group.
RECURSIVE free_blocks(_, _, _)
free_blocks(s, first, count) ==
  LET g == bgid_of_block(first)
      free_cnt == Min({count, BPG - addr_to_idx_bg(first)})
      Clear(t) ==
        free_blocks([t EXCEPT !.used = @ \ (first..(first + free_cnt - 1)), !.gfree[g] = @ + free_cnt,
                              !.sbfree = @ + free_cnt, !.iblocks = @ - free_cnt],
                    first + free_cnt, count - free_cnt)
  IN IF count = 0 THEN Result(s, "OK") ELSE IfOk(Fetch(s), Clear)
=============================================================================
