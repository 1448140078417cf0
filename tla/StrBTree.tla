------------------------------ MODULE StrBTree ------------------------------
(***************************************************************************)
(* The B+ tree over keys of any length (crates/btrees/src/str_btree.rs),   *)
(* as functions on a record                                                *)
(*                                                                         *)
(*   inodes   the inner nodes: packed keys and N + 1 addresses             *)
(*   leaves   packed keys, values, and the addresses of the leaf before    *)
(*            and the leaf after; a leaf without keys is a gap             *)
(*   len, nLeaves, height, root                                            *)
(*                                                                         *)
(* Addresses and positions count from 1; 0 is no address. A pointer of too *)
(* small a width is not modelled, and neither is a panic: a redistribution *)
(* that takes more keys than the node has stops the program.               *)
(***************************************************************************)
EXTENDS KeySlots, FiniteSetsExt

CONSTANTS
  N,             \* keys of a node
  KeyLenMax      \* the longest key that the lengths can say

None == 0
RebalanceDepth == 3

Gap == [keys |-> NewSlots, values |-> <<>>, prev |-> None, next |-> None]
Empty(n) == [i \in 1 .. n |-> None]
Inode(keys, ptrs) == [keys |-> keys, ptrs |-> ptrs \o Empty(N + 1 - Len(ptrs))]
NewTree ==
  [inodes |-> <<>>, leaves |-> <<Gap>>, len |-> 0, nLeaves |-> 1, height |-> 0, root |-> 1]

Child(s, a, key) == FindUpperBound(s.inodes[a].keys, key)
IsFull(node) == Count(node.keys) = N
HasRoomForTwo(node) == Count(node.keys) + 2 <= N

-----------------------------------------------------------------------------
(* Ways down: to the leaf of a key, and to the first and the last leaf.    *)

RECURSIVE LeafBelow(_, _, _, _)
LeafBelow(s, key, a, down) ==
  LET next == s.inodes[a].ptrs[Child(s, a, key)]
  IN  IF down = 0 THEN next ELSE LeafBelow(s, key, next, down - 1)
FindLeaf(s, key) == IF s.height = 0 THEN 1 ELSE LeafBelow(s, key, s.root, s.height - 1)

RECURSIVE Edge(_, _, _, _)
Edge(s, a, down, rightmost) ==
  LET next == s.inodes[a].ptrs[IF rightmost THEN Count(s.inodes[a].keys) + 1 ELSE 1]
  IN  IF down = 0 THEN next ELSE Edge(s, next, down - 1, rightmost)
DescendToLeaf(s, rightmost) ==
  IF s.height = 0 THEN 1 ELSE Edge(s, s.root, s.height - 1, rightmost)

\* The leaves in the order of their links.
RECURSIVE LinkedFrom(_, _)
LinkedFrom(s, leaf) ==
  IF leaf = None THEN <<>> ELSE <<leaf>> \o LinkedFrom(s, s.leaves[leaf].next)
LinkedLeaves(s) == LinkedFrom(s, DescendToLeaf(s, FALSE))

-----------------------------------------------------------------------------
(* relocate: the leaves are laid out in the order of their links, with a   *)
(* gap behind each (spread) or dense.                                      *)

RECURSIVE LevelBelow(_, _, _)
LevelBelow(s, level, down) ==
  IF down = 0 THEN level
  ELSE LevelBelow(s, UNION {Range(s.inodes[a].ptrs) \ {None} : a \in level}, down - 1)
BottomInodes(s) == IF s.height = 0 THEN {} ELSE LevelBelow(s, {s.root}, s.height - 1)

Relocate(s, gapful) ==
  LET order == LinkedLeaves(s)
      live == Len(order)
      SlotOf(rank) == IF rank \notin 1 .. live THEN None
                      ELSE IF gapful THEN 2 * rank - 1 ELSE rank
      to == [a \in Range(order) |-> SlotOf(CHOOSE r \in 1 .. live : order[r] = a)]
      Lay(leaves, rank) ==
        Append(leaves, [s.leaves[order[rank]] EXCEPT !.prev = SlotOf(rank - 1),
                                                     !.next = SlotOf(rank + 1)])
          \o (IF gapful THEN <<Gap>> ELSE <<>>)
      Moved(ptrs) ==
        FoldLeft(LAMBDA q, p : Append(q, IF p = None THEN None ELSE to[p]), <<>>, ptrs)
      Remap(inodes, a) == [inodes EXCEPT ![a].ptrs = Moved(@)]
  IN  [s |-> [s EXCEPT !.leaves = FoldLeft(Lay, <<>>, [r \in 1 .. live |-> r]),
                       !.inodes = FoldLeft(Remap, @, Ascending(BottomInodes(s))),
                       !.nLeaves = live],
       to |-> to]

Spread(s) == Relocate(s, TRUE)
Optimize(s) == Relocate(s, FALSE).s       \* and compact

\* The first gap behind a leaf, or else the first one before it.
ClaimSlot(s, after) ==
  LET gaps == {g \in DOMAIN s.leaves : Count(s.leaves[g].keys) = 0}
      behind == {g \in gaps : g > after}
  IN  IF behind # {} THEN Min(behind) ELSE Min({g \in gaps : g < after})

-----------------------------------------------------------------------------
(* A redistribution moves keys of a full child to a neighbour of it.       *)

RebalanceTarget(n) == (N + n) \div 2

RedistributeLeafRight(s, parent, pos) ==
  LET l == s.inodes[parent].ptrs[pos]
      r == s.inodes[parent].ptrs[pos + 1]
      keep == RebalanceTarget(Count(s.leaves[r].keys))
      d == DrainIntoFront(s.leaves[l].keys, keep, s.leaves[r].keys)
  IN  [s EXCEPT
         !.leaves[l].keys = d.src,
         !.leaves[l].values = SubSeq(@, 1, keep),
         !.leaves[r].keys = d.dst,
         !.leaves[r].values = SubSeq(s.leaves[l].values, keep + 1, Len(s.leaves[l].values)) \o @,
         !.inodes[parent].keys = UpdateKey(@, pos, KeyIn(d.dst, 1))]

RedistributeLeafLeft(s, parent, pos) ==
  LET l == s.inodes[parent].ptrs[pos]
      b == s.inodes[parent].ptrs[pos - 1]
      m == N - RebalanceTarget(Count(s.leaves[b].keys))
      d == DrainFrontInto(s.leaves[l].keys, m, s.leaves[b].keys)
  IN  [s EXCEPT
         !.leaves[l].keys = d.src,
         !.leaves[l].values = SubSeq(@, m + 1, Len(@)),
         !.leaves[b].keys = d.dst,
         !.leaves[b].values = @ \o SubSeq(s.leaves[l].values, 1, m),
         !.inodes[parent].keys = UpdateKey(@, pos - 1, KeyIn(d.src, 1))]

\* The separator comes down, and the key at the cut goes up.
RedistributeInodeRight(s, parent, pos) ==
  LET l == s.inodes[parent].ptrs[pos]
      r == s.inodes[parent].ptrs[pos + 1]
      from == s.inodes[l]
      sib  == s.inodes[r]
      keep == RebalanceTarget(Count(sib.keys))
      m    == N - keep
      d == IF m > 1 THEN DrainIntoFront(from.keys, keep + 1, sib.keys)
           ELSE [src |-> from.keys, dst |-> sib.keys]
      sep == KeyIn(s.inodes[parent].keys, pos)
  IN  [s EXCEPT
         !.inodes[l] = Inode(TakeKey(d.src, keep + 1), SubSeq(from.ptrs, 1, keep + 1)),
         !.inodes[r] = Inode(PutKey(d.dst, m, sep),
                             SubSeq(from.ptrs, keep + 2, N + 1)
                               \o SubSeq(sib.ptrs, 1, Count(sib.keys) + 1)),
         !.inodes[parent].keys = UpdateKey(@, pos, KeyIn(d.src, keep + 1))]

RedistributeInodeLeft(s, parent, pos) ==
  LET l == s.inodes[parent].ptrs[pos]
      b == s.inodes[parent].ptrs[pos - 1]
      from == s.inodes[l]
      sib  == s.inodes[b]
      m    == N - RebalanceTarget(Count(sib.keys))
      down == PushKey(sib.keys, KeyIn(s.inodes[parent].keys, pos - 1))
      d == IF m > 1 THEN DrainFrontInto(from.keys, m - 1, down)
           ELSE [src |-> from.keys, dst |-> down]
  IN  [s EXCEPT
         !.inodes[b] = Inode(d.dst, SubSeq(sib.ptrs, 1, Count(sib.keys) + 1)
                                      \o SubSeq(from.ptrs, 1, m)),
         !.inodes[l] = Inode(TakeKey(d.src, 1), SubSeq(from.ptrs, m + 1, N + 1)),
         !.inodes[parent].keys = UpdateKey(@, pos - 1, KeyIn(d.src, 1))]

-----------------------------------------------------------------------------
(* try_rebalance: the less full neighbour first. One without room is asked *)
(* to lend to a neighbour of its own before, which may be the child itself *)
(* again; what it has moved stays moved when there is no room even so.     *)

Asked(parent, pos, Size(_)) ==
  LET last == Count(parent.keys) + 1
  IN  IF last = 1 THEN <<>>
      ELSE IF pos = 1 THEN <<2>>
      ELSE IF pos = last THEN <<pos - 1>>
      ELSE IF Size(pos + 1) <= Size(pos - 1) THEN <<pos + 1, pos - 1>>
      ELSE <<pos - 1, pos + 1>>

Made(s, ok) == [s |-> s, ok |-> ok]

RedistributeLeafDir(s, parent, pos, sib) ==
  IF sib > pos THEN RedistributeLeafRight(s, parent, pos)
  ELSE RedistributeLeafLeft(s, parent, pos)
LeafAt(s, parent, pos) == s.leaves[s.inodes[parent].ptrs[pos]]
LendLeaf(room, parent, pos, sib) ==
  IF room.ok /\ HasRoomForTwo(LeafAt(room.s, parent, sib))
  THEN Made(RedistributeLeafDir(room.s, parent, pos, sib), TRUE) ELSE Made(room.s, FALSE)
RECURSIVE TryRebalanceLeaf(_, _, _, _)
TryRebalanceLeaf(s, parent, pos, depth) ==
  LET Size(p) == Count(LeafAt(s, parent, p).keys)
      Room(t, sib) == IF HasRoomForTwo(LeafAt(t, parent, sib)) THEN Made(t, TRUE)
                      ELSE IF depth = 0 THEN Made(t, FALSE)
                      ELSE TryRebalanceLeaf(t, parent, sib, depth - 1)
      Try(r, sib) == IF r.ok THEN r ELSE LendLeaf(Room(r.s, sib), parent, pos, sib)
  IN  FoldLeft(Try, Made(s, FALSE), Asked(s.inodes[parent], pos, Size))

RedistributeInodeDir(s, parent, pos, sib) ==
  IF sib > pos THEN RedistributeInodeRight(s, parent, pos)
  ELSE RedistributeInodeLeft(s, parent, pos)
InodeAt(s, parent, pos) == s.inodes[s.inodes[parent].ptrs[pos]]
LendInode(room, parent, pos, sib) ==
  IF room.ok /\ HasRoomForTwo(InodeAt(room.s, parent, sib))
  THEN Made(RedistributeInodeDir(room.s, parent, pos, sib), TRUE) ELSE Made(room.s, FALSE)
RECURSIVE TryRebalanceInode(_, _, _, _)
TryRebalanceInode(s, parent, pos, depth) ==
  LET Size(p) == Count(InodeAt(s, parent, p).keys)
      Room(t, sib) == IF HasRoomForTwo(InodeAt(t, parent, sib)) THEN Made(t, TRUE)
                      ELSE IF depth = 0 THEN Made(t, FALSE)
                      ELSE TryRebalanceInode(t, parent, sib, depth - 1)
      Try(r, sib) == IF r.ok THEN r ELSE LendInode(Room(r.s, sib), parent, pos, sib)
  IN  FoldLeft(Try, Made(s, FALSE), Asked(s.inodes[parent], pos, Size))

-----------------------------------------------------------------------------
(* walk_to_leaf: the child is looked up again only when the rebalance says *)
(* that it has moved keys. `path` has the inodes.                          *)

Rebalanced(s, a, child, down) ==
  LET here == s.inodes[a].ptrs[child]
  IN  IF down = 0
      THEN IF IsFull(s.leaves[here]) THEN TryRebalanceLeaf(s, a, child, RebalanceDepth)
           ELSE Made(s, FALSE)
      ELSE IF IsFull(s.inodes[here]) THEN TryRebalanceInode(s, a, child, RebalanceDepth)
           ELSE Made(s, FALSE)
ChildAfter(r, a, child, key) ==
  r.s.inodes[a].ptrs[IF r.ok THEN Child(r.s, a, key) ELSE child]

RECURSIVE WalkDown(_, _, _, _, _)
WalkDown(s, key, a, down, path) ==
  LET child == Child(s, a, key)
      Go(t, next) == IF down = 0 THEN [s |-> t, leaf |-> next, path |-> Append(path, a)]
                     ELSE WalkDown(t, key, next, down - 1, Append(path, a))
      Then(r) == Go(r.s, ChildAfter(r, a, child, key))
  IN  Then(Rebalanced(s, a, child, down))

WalkToLeaf(s, key) ==
  IF s.height = 0 THEN [s |-> s, leaf |-> 1, path |-> <<>>]
  ELSE WalkDown(s, key, s.root, s.height - 1, <<>>)

\* The leaf where the walk ends is the one where a lookup goes from then on.
Lands(w, key) == w.leaf = FindLeaf(w.s, key)
WalkLands(s, key) == Lands(WalkToLeaf(s, key), key)

-----------------------------------------------------------------------------
(* Splits.                                                                 *)

WithChild(inode, sep, child) ==
  LET pos == FindWithOffset(inode.keys, sep).pos
  IN  Inode(PutKey(inode.keys, pos, sep),
            SubSeq(InsertAt(inode.ptrs, pos + 1, child), 1, N + 1))

\* split_inode: the upper half, without the key in the middle, in a new inode.
SplitInode(s, a, sep, child) ==
  LET node == s.inodes[a]
      mid  == N \div 2
      d == IF mid + 1 < Count(node.keys) THEN DrainInto(node.keys, mid + 1, NewSlots)
           ELSE [src |-> node.keys, dst |-> NewSlots]
      up == KeyIn(node.keys, mid + 1)
      right == Inode(d.dst, SubSeq(node.ptrs, mid + 2, N + 1))
      left == Inode(TakeKey(d.src, mid + 1), SubSeq(node.ptrs, 1, mid + 1))
      goesRight == ~ KeyLess(sep, up)
  IN  [s  |-> [s EXCEPT !.inodes =
                 Append([@ EXCEPT ![a] = IF goesRight THEN left ELSE WithChild(left, sep, child)],
                        IF goesRight THEN WithChild(right, sep, child) ELSE right)],
       up |-> up]

RECURSIVE InsertSeparator(_, _, _, _)
InsertSeparator(s, sep, child, path) ==
  LET a == Last(path)
      split == SplitInode(s, a, sep, child)
  IN  IF path = <<>>
      THEN [s EXCEPT !.inodes = Append(@, Inode(PushKey(NewSlots, sep), <<s.root, child>>)),
                     !.root = Len(s.inodes) + 1, !.height = @ + 1]
      ELSE IF ~ IsFull(s.inodes[a])
      THEN [s EXCEPT !.inodes[a] = WithChild(@, sep, child)]
      ELSE InsertSeparator(split.s, split.up, Len(split.s.inodes), Front(path))

\* A mutant of Halved: the leaf behind still names the lower half.
HalvedOneWay(s, leaf, new) ==
  LET old == s.leaves[leaf]
      d == DrainInto(old.keys, N \div 2, NewSlots)
  IN  [s EXCEPT !.leaves[leaf] = [keys |-> d.src, values |-> SubSeq(old.values, 1, N \div 2),
                                  prev |-> old.prev, next |-> new],
                !.leaves[new] = [keys |-> d.dst,
                                 values |-> SubSeq(old.values, N \div 2 + 1, Len(old.values)),
                                 prev |-> leaf, next |-> old.next],
                !.nLeaves = @ + 1]

\* split_leaf: the upper half goes to a gap, which is linked in behind.
Halved(s, leaf, new) ==
  LET old == s.leaves[leaf]
      mid == N \div 2
      d == DrainInto(old.keys, mid, NewSlots)
      upper == [keys |-> d.dst, values |-> SubSeq(old.values, mid + 1, Len(old.values)),
                prev |-> leaf, next |-> old.next]
      lower == [keys |-> d.src, values |-> SubSeq(old.values, 1, mid),
                prev |-> old.prev, next |-> new]
      t == [s EXCEPT !.leaves[leaf] = lower, !.leaves[new] = upper, !.nLeaves = @ + 1]
  IN  IF old.next = None THEN t ELSE [t EXCEPT !.leaves[old.next].prev = new]

\* A place is a tree and the address that the leaf has in it.
Place(s, leaf) == [s |-> s, leaf |-> leaf]
SpreadAround(s, leaf) == LET r == Spread(s) IN Place(r.s, r.to[leaf])
SpreadIfFull(s, leaf) ==
  IF s.nLeaves = Len(s.leaves) THEN SpreadAround(s, leaf) ELSE Place(s, leaf)
SplitInto(s, leaf, new, path) ==
  [s |-> InsertSeparator(Halved(s, leaf, new), KeyIn(s.leaves[leaf].keys, N \div 2 + 1), new, path),
   left |-> leaf, right |-> new]
SplitInPlace(at, path) == SplitInto(at.s, at.leaf, ClaimSlot(at.s, at.leaf), path)
SplitLeaf(s, leaf, path) == SplitInPlace(SpreadIfFull(s, leaf), path)

-----------------------------------------------------------------------------
(* The operations.                                                         *)

Done(s, ok) == [s |-> s, ok |-> ok]

PutAt(s, leaf, pos, key, val) ==
  [s EXCEPT !.leaves[leaf].keys = PutKey(@, pos, key),
            !.leaves[leaf].values = InsertAt(@, pos, val),
            !.len = @ + 1]

PutInHalf(half, pos, key, val) ==
  LET mid == N \div 2
  IN  IF pos <= mid + 1 THEN PutAt(half.s, half.left, pos, key, val)
      ELSE PutAt(half.s, half.right, pos - mid, key, val)
InsertWhere(w, key, val) ==
  LET keys == w.s.leaves[w.leaf].keys
      f == FindWithOffset(keys, key)
  IN  IF f.pos <= Count(keys) /\ EqKeyAtOffset(keys, f.pos, f.off, key) THEN Done(w.s, FALSE)
      ELSE IF Len(key) > KeyLenMax THEN Done(w.s, FALSE)
      ELSE IF Count(keys) < N THEN Done(PutAt(w.s, w.leaf, f.pos, key, val), TRUE)
      ELSE Done(PutInHalf(SplitLeaf(w.s, w.leaf, w.path), f.pos, key, val), TRUE)

\* The walk has moved keys when the key is refused.
Insert(s, key, val) == InsertWhere(WalkToLeaf(s, key), key, val)

\* A cursor: a leaf, a position in it, and where the bytes of the key begin.
At(leaf, pos, off) == [leaf |-> leaf, pos |-> pos, off |-> off]
Locate(s, key) ==
  LET leaf == FindLeaf(s, key)
      f == FindWithOffset(s.leaves[leaf].keys, key)
  IN  At(leaf, f.pos, f.off)

Nothing == <<>>
Current(s, c) ==
  LET leaf == s.leaves[c.leaf]
  IN  IF c.pos > Count(leaf.keys) THEN Nothing
      ELSE <<KeyAtOffset(leaf.keys, c.pos, c.off), leaf.values[c.pos]>>
GetAt(s, c, key) ==
  LET leaf == s.leaves[c.leaf]
  IN  IF c.pos <= Count(leaf.keys) /\ EqKeyAtOffset(leaf.keys, c.pos, c.off, key)
      THEN <<key, leaf.values[c.pos]>> ELSE Nothing
Get(s, key) == GetAt(s, Locate(s, key), key)

First(s) == At(DescendToLeaf(s, FALSE), 1, 0)

\* A cursor that finds no more stays where it is.
Onward(s, c) ==
  LET leaf == s.leaves[c.leaf]
  IN  IF c.pos < Count(leaf.keys) THEN At(c.leaf, c.pos + 1, c.off + leaf.keys.lens[c.pos])
      ELSE IF leaf.next = None THEN Nothing ELSE At(leaf.next, 1, 0)
Backward(s, c) ==
  LET leaf == s.leaves[c.leaf]
      keys == s.leaves[leaf.prev].keys
  IN  IF c.pos > 1 THEN At(c.leaf, c.pos - 1, c.off - leaf.keys.lens[c.pos - 1])
      ELSE IF leaf.prev = None THEN Nothing
      ELSE At(leaf.prev, Count(keys), PackedOffset(keys, Count(keys)))

\* The place a cursor has when next finds no more.
RECURSIVE OnwardToEnd(_, _)
OnwardToEnd(s, c) == IF Onward(s, c) = Nothing THEN c ELSE OnwardToEnd(s, Onward(s, c))
Final(s) == OnwardToEnd(s, First(s))

\* The mutable cursor moves like the other one.
SetValue(s, c, val) == [s EXCEPT !.leaves[c.leaf].values[c.pos] = val]
MutOnward(s, c) == Onward(s, c)
MutBackward(s, c) == Backward(s, c)

-----------------------------------------------------------------------------
(* What the searches rely on: the separators part the keys, the links run  *)
(* through the leaves of the tree in order and back, and the rest are gaps. *)

RECURSIVE LeavesBelow(_, _, _)
LeavesBelow(s, a, down) ==
  IF down = 0 THEN <<a>>
  ELSE FoldLeft(LAMBDA q, i : q \o LeavesBelow(s, s.inodes[a].ptrs[i], down - 1), <<>>,
                [i \in 1 .. Count(s.inodes[a].keys) + 1 |-> i])

RECURSIVE Parted(_, _, _, _, _)
Parted(s, a, down, from, to) ==     \* from, to: <<key>>, or <<>> for no bound
  LET ks == IF down = 0 THEN s.leaves[a].keys ELSE s.inodes[a].keys
      n == Count(ks)
      Bound(i) == IF i = 0 THEN from ELSE IF i > n THEN to ELSE <<KeyIn(ks, i)>>
  IN  /\ n <= N
      /\ Packed(ks)
      /\ \A i \in 1 .. n - 1 : KeyLess(KeyIn(ks, i), KeyIn(ks, i + 1))
      /\ \A i \in 1 .. n : /\ from # <<>> => ~ KeyLess(KeyIn(ks, i), from[1])
                           /\ to # <<>> => KeyLess(KeyIn(ks, i), to[1])
      /\ down > 0 => \A i \in 1 .. n + 1 :
           /\ s.inodes[a].ptrs[i] # None
           /\ Parted(s, s.inodes[a].ptrs[i], down - 1, Bound(i - 1), Bound(i))

Sound(s) ==
  LET root == IF s.height = 0 THEN 1 ELSE s.root
      linked == LinkedLeaves(s)
  IN  /\ Parted(s, root, s.height, <<>>, <<>>)
      /\ LeavesBelow(s, root, s.height) = linked
      /\ s.nLeaves = Len(linked)
      /\ \A i \in 1 .. Len(linked) :
           s.leaves[linked[i]].prev = IF i = 1 THEN None ELSE linked[i - 1]
      /\ \A a \in DOMAIN s.leaves : a \notin Range(linked) => s.leaves[a] = Gap
      /\ s.len = FoldLeft(LAMBDA n, leaf : n + Len(leaf.values), 0, s.leaves)
=============================================================================
