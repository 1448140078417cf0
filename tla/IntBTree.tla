------------------------------ MODULE IntBTree ------------------------------
(***************************************************************************)
(* The B+ tree (crates/btrees/src/int_btree.rs, CTree) over byte string    *)
(* keys, as functions on a record                                          *)
(*                                                                         *)
(*   inodes   the inner nodes: n keys and n + 1 addresses                  *)
(*   leaves   the leaves in key order, with gaps (a leaf without keys)     *)
(*   buf      the bytes of the long keys (key_buf)                         *)
(*   len, nLeaves, height, root                                            *)
(*                                                                         *)
(* Addresses and positions count from 1: an address is the nonzero pointer *)
(* of the code. A stored key (KeyRef) has its bytes inline, or where they  *)
(* lie in buf. A pointer of too small a width is not modelled.             *)
(***************************************************************************)
EXTENDS ByteKeys, FiniteSetsExt, SequencesExt

CONSTANTS
  N,            \* keys of a node
  InlineMax     \* INLINE_KEY_MAX

-----------------------------------------------------------------------------
(* Stored keys and nodes.                                                  *)

Inline(key) == [inline |-> TRUE, bytes |-> key, start |-> 0, len |-> 0]
InBuf(start, len) == [inline |-> FALSE, bytes |-> <<>>, start |-> start, len |-> len]
Bytes(s, k) == IF k.inline THEN k.bytes ELSE SubSeq(s.buf, k.start + 1, k.start + k.len)

\* into_stored: a long key goes to the end of buf.
Stored(s, key) == IF Len(key) <= InlineMax THEN Inline(key) ELSE InBuf(Len(s.buf), Len(key))
BufWith(s, key) == IF Len(key) <= InlineMax THEN s.buf ELSE s.buf \o key

Gap == [keys |-> <<>>, values |-> <<>>]
Inode(keys, ptrs) == [keys |-> keys, ptrs |-> ptrs]
NewTree ==
  [inodes |-> <<>>, leaves |-> <<Gap>>, buf |-> <<>>, len |-> 0, nLeaves |-> 1,
   height |-> 0, root |-> 1]

\* The first key that is not below `key`; the first one above it.
FindPosition(s, keys, key) ==
  Min({i \in 1 .. Len(keys) : ~ KeyLess(Bytes(s, keys[i]), key)} \union {Len(keys) + 1})
FindChild(s, keys, key) ==
  Min({i \in 1 .. Len(keys) : KeyLess(key, Bytes(s, keys[i]))} \union {Len(keys) + 1})

-----------------------------------------------------------------------------
(* relocate: the leaves are laid out again, every one of them followed by  *)
(* a gap and the second half of the arena empty (spread), or dense.        *)

Live(s) == {i \in 1 .. Len(s.leaves) : s.leaves[i].keys # <<>>}

RECURSIVE LevelBelow(_, _, _)
LevelBelow(s, level, down) ==
  IF down = 0 THEN level
  ELSE LevelBelow(s, UNION {Range(s.inodes[a].ptrs) : a \in level}, down - 1)
BottomInodes(s) == IF s.height = 0 THEN {} ELSE LevelBelow(s, {s.root}, s.height - 1)

\* The addresses of leaves are at the bottom: `to` says where each one went.
RemapBottomLeafPtrs(s, to) ==
  LET bottom == BottomInodes(s)
      Moved(ptrs) == FoldLeft(LAMBDA q, p : Append(q, to[p]), <<>>, ptrs)
      Next(inodes, a) == [inodes EXCEPT ![a].ptrs = Moved(@)]
  IN  [s EXCEPT !.inodes = FoldLeft(Next, @, Ascending(bottom))]

Relocate(s, gapful) ==
  LET order == Ascending(Live(s))
      slot(rank) == IF gapful THEN 2 * rank - 1 ELSE rank
      to == [i \in Live(s) |-> slot(CHOOSE r \in DOMAIN order : order[r] = i)]
      Next(leaves, i) ==
        Append(leaves, s.leaves[i]) \o (IF gapful THEN <<Gap>> ELSE <<>>)
      laid == FoldLeft(Next, <<>>, order)
      room == IF gapful THEN 2 * Len(s.leaves) - Len(laid) ELSE 0
      Pad(leaves, i) == Append(leaves, Gap)
      t == RemapBottomLeafPtrs(s, to)
  IN  IF ~ gapful /\ s.nLeaves <= 1 THEN [s |-> s, to |-> [i \in 1 .. Len(s.leaves) |-> i]]
      ELSE [s |-> [t EXCEPT !.leaves = FoldLeft(Pad, laid, [i \in 1 .. room |-> i]),
                            !.nLeaves = Cardinality(Live(s))],
            to |-> to]

Spread(s) == Relocate(s, TRUE)
Optimize(s) == Relocate(s, FALSE).s       \* and compact

-----------------------------------------------------------------------------
(* A full child lends to the emptier of its two neighbours, when that one  *)
(* has room for two.                                                       *)

RebalanceTarget(n) == (N + n) \div 2

\* The position of the neighbour, or 0. `fill` has the sizes of the nodes.
PickRebalanceSibling(inode, pos, fill) ==
  LET last  == Len(inode.ptrs)
      size(p) == fill[inode.ptrs[p]]
      sib   == IF pos = 1 /\ pos = last THEN 0
               ELSE IF pos = last THEN pos - 1
               ELSE IF pos = 1 \/ size(pos + 1) <= size(pos - 1) THEN pos + 1
               ELSE pos - 1
  IN  IF sib = 0 \/ (sib # 0 /\ size(sib) + 2 > N) THEN 0 ELSE sib

RedistributeLeafRight(s, parent, pos) ==
  LET l == s.inodes[parent].ptrs[pos]
      r == s.inodes[parent].ptrs[pos + 1]
      leaf == s.leaves[l]
      sib  == s.leaves[r]
      keep == RebalanceTarget(Len(sib.keys))
      right == [keys |-> SubSeq(leaf.keys, keep + 1, N) \o sib.keys,
                values |-> SubSeq(leaf.values, keep + 1, N) \o sib.values]
      left == [keys |-> SubSeq(leaf.keys, 1, keep), values |-> SubSeq(leaf.values, 1, keep)]
  IN  [s EXCEPT !.leaves[l] = left, !.leaves[r] = right,
                !.inodes[parent].keys[pos] = right.keys[1]]

RedistributeLeafLeft(s, parent, pos) ==
  LET l == s.inodes[parent].ptrs[pos]
      b == s.inodes[parent].ptrs[pos - 1]
      leaf == s.leaves[l]
      sib  == s.leaves[b]
      m == N - RebalanceTarget(Len(sib.keys))
      right == [keys |-> SubSeq(leaf.keys, m + 1, N), values |-> SubSeq(leaf.values, m + 1, N)]
      left == [keys |-> sib.keys \o SubSeq(leaf.keys, 1, m),
               values |-> sib.values \o SubSeq(leaf.values, 1, m)]
  IN  [s EXCEPT !.leaves[l] = right, !.leaves[b] = left,
                !.inodes[parent].keys[pos - 1] = right.keys[1]]

TryRebalanceLeaf(s, parent, pos) ==
  LET sib == PickRebalanceSibling(s.inodes[parent], pos,
                                  [a \in DOMAIN s.leaves |-> Len(s.leaves[a].keys)])
  IN  IF sib = 0 THEN s
      ELSE IF sib > pos THEN RedistributeLeafRight(s, parent, pos)
      ELSE RedistributeLeafLeft(s, parent, pos)

\* The separator comes down, and the first key left out goes up.
RedistributeInodeRight(s, parent, pos) ==
  LET l == s.inodes[parent].ptrs[pos]
      r == s.inodes[parent].ptrs[pos + 1]
      node == s.inodes[l]
      sib  == s.inodes[r]
      keep == RebalanceTarget(Len(sib.keys))
      sep  == s.inodes[parent].keys[pos]
  IN  [s EXCEPT
         !.inodes[l] = Inode(SubSeq(node.keys, 1, keep), SubSeq(node.ptrs, 1, keep + 1)),
         !.inodes[r] = Inode(SubSeq(node.keys, keep + 2, N) \o <<sep>> \o sib.keys,
                             SubSeq(node.ptrs, keep + 2, N + 1) \o sib.ptrs),
         !.inodes[parent].keys[pos] = node.keys[keep + 1]]

RedistributeInodeLeft(s, parent, pos) ==
  LET l == s.inodes[parent].ptrs[pos]
      b == s.inodes[parent].ptrs[pos - 1]
      node == s.inodes[l]
      sib  == s.inodes[b]
      m    == N - RebalanceTarget(Len(sib.keys))
      sep  == s.inodes[parent].keys[pos - 1]
  IN  [s EXCEPT
         !.inodes[b] = Inode(sib.keys \o <<sep>> \o SubSeq(node.keys, 1, m - 1),
                             sib.ptrs \o SubSeq(node.ptrs, 1, m)),
         !.inodes[l] = Inode(SubSeq(node.keys, m + 1, N), SubSeq(node.ptrs, m + 1, N + 1)),
         !.inodes[parent].keys[pos - 1] = node.keys[m]]

TryRebalanceInode(s, parent, pos) ==
  LET sib == PickRebalanceSibling(s.inodes[parent], pos,
                                  [a \in DOMAIN s.inodes |-> Len(s.inodes[a].keys)])
  IN  IF sib = 0 THEN s
      ELSE IF sib > pos THEN RedistributeInodeRight(s, parent, pos)
      ELSE RedistributeInodeLeft(s, parent, pos)

-----------------------------------------------------------------------------
(* walk_to_leaf: the way down that an insert takes. `path` has the inodes, *)
(* each with the position of the child gone to.                            *)

WouldSplit(node) == Len(node.keys) = N

RECURSIVE WalkDown(_, _, _, _, _)
WalkDown(s, key, a, down, path) ==
  LET child(t) == FindChild(t, t.inodes[a].keys, key)
      here  == s.inodes[a].ptrs[child(s)]
      inner == IF WouldSplit(s.inodes[here]) THEN TryRebalanceInode(s, a, child(s)) ELSE s
      outer == IF WouldSplit(s.leaves[here]) THEN TryRebalanceLeaf(s, a, child(s)) ELSE s
      On(t) == Append(path, <<a, child(t)>>)
  IN  IF down = 0
      THEN [s |-> outer, leaf |-> outer.inodes[a].ptrs[child(outer)], path |-> On(outer)]
      ELSE WalkDown(inner, key, inner.inodes[a].ptrs[child(inner)], down - 1, On(inner))

WalkToLeaf(s, key) ==
  IF s.height = 0 THEN [s |-> s, leaf |-> 1, path |-> <<>>]
  ELSE WalkDown(s, key, s.root, s.height - 1, <<>>)

-----------------------------------------------------------------------------
(* remap_shift_range: the leaves from `lo` up to the gap `g` moved up by   *)
(* one. Their parents are met from the path on, to the right.              *)

RECURSIVE RightBottom(_, _)
RightBottom(s, path) ==
  IF path = <<>> THEN <<>>
  ELSE LET a == Last(path)[1]
           c == Last(path)[2] + 1
           Down(p, i) ==
             LET up == Last(p) IN Append(p, <<s.inodes[up[1]].ptrs[up[2]], 1>>)
       IN  IF c > Len(s.inodes[a].ptrs) THEN RightBottom(s, Front(path))
           ELSE FoldLeft(Down, Append(Front(path), <<a, c>>),
                         [i \in 1 .. s.height - Len(path) |-> i])

\* A mutant: the leaves of the next parents keep their old addresses.
RemapOneParent(s, path, lo, g) ==
  LET a     == Last(path)[1]
      ptrs  == s.inodes[a].ptrs
      Bump(q, i) ==
        Append(q, IF i >= Last(path)[2] /\ ptrs[i] \in lo .. g - 1 THEN ptrs[i] + 1 ELSE ptrs[i])
  IN  [s EXCEPT !.inodes[a].ptrs = FoldLeft(Bump, <<>>, [i \in 1 .. Len(ptrs) |-> i])]

RECURSIVE RemapShiftRange(_, _, _, _)
RemapShiftRange(s, path, lo, g) ==
  LET a     == Last(path)[1]
      ptrs  == s.inodes[a].ptrs
      later == Last(path)[2] .. Len(ptrs)
      ends  == {i \in later : ptrs[i] >= g}
      Bump(q, i) ==
        Append(q, IF i \in later /\ ptrs[i] \in lo .. g - 1 /\ (\A e \in ends : i < e)
                  THEN ptrs[i] + 1 ELSE ptrs[i])
      t    == [s EXCEPT !.inodes[a].ptrs =
                 FoldLeft(Bump, <<>>, [i \in 1 .. Len(ptrs) |-> i])]
      next == RightBottom(s, Front(path))
  IN  IF ends # {} \/ next = <<>> THEN t ELSE RemapShiftRange(t, next, lo, g)

-----------------------------------------------------------------------------
(* Splits.                                                                 *)

SeparatorPosition(s, keys, sep) ==
  Min({i \in 1 .. Len(keys) : ~ KeyLess(Bytes(s, keys[i]), Bytes(s, sep))}
        \union {Len(keys) + 1})
WithChild(s, inode, sep, child) ==
  LET pos == SeparatorPosition(s, inode.keys, sep)
  IN  Inode(InsertAt(inode.keys, pos, sep), InsertAt(inode.ptrs, pos + 1, child))

RECURSIVE InsertSeparator(_, _, _, _)
InsertSeparator(s, sep, child, path) ==
  LET a     == Last(path)[1]
      node  == s.inodes[a]
      mid   == N \div 2
      up    == node.keys[mid + 1]
      left  == Inode(SubSeq(node.keys, 1, mid), SubSeq(node.ptrs, 1, mid + 1))
      right == Inode(SubSeq(node.keys, mid + 2, N), SubSeq(node.ptrs, mid + 2, N + 1))
      goesRight == ~ KeyLess(Bytes(s, sep), Bytes(s, up))
      split == [s EXCEPT !.inodes =
                  Append([@ EXCEPT ![a] = IF goesRight THEN left
                                          ELSE WithChild(s, left, sep, child)],
                         IF goesRight THEN WithChild(s, right, sep, child) ELSE right)]
  IN  IF path = <<>>
      THEN [s EXCEPT !.inodes = Append(@, Inode(<<sep>>, <<s.root, child>>)),
                     !.root = Len(s.inodes) + 1, !.height = @ + 1]
      ELSE IF ~ WouldSplit(node) THEN [s EXCEPT !.inodes[a] = WithChild(s, node, sep, child)]
      ELSE InsertSeparator(split, up, Len(split.inodes), Front(path))

\* The next gap on the right of a leaf, or past the arena.
GapAfter(s, leaf) ==
  Min({g \in leaf + 1 .. Len(s.leaves) : s.leaves[g].keys = <<>>} \union {Len(s.leaves) + 1})

\* The upper half goes to a leaf of its own right behind; the leaves between
\* there and the gap make room.
SplitAt(s, leaf, g, path) ==
  LET old == s.leaves[leaf]
      mid == N \div 2
      new == [keys |-> SubSeq(old.keys, mid + 1, N), values |-> SubSeq(old.values, mid + 1, N)]
      low == [keys |-> SubSeq(old.keys, 1, mid), values |-> SubSeq(old.values, 1, mid)]
      t   == IF g = leaf + 1 THEN s
             ELSE RemapShiftRange(s, [path EXCEPT ![Len(path)][2] = @ + 1], leaf + 1, g)
      leaves == SubSeq(s.leaves, 1, leaf - 1) \o <<low, new>>
                  \o SubSeq(s.leaves, leaf + 1, g - 1)
                  \o SubSeq(s.leaves, g + 1, Len(s.leaves))
  IN  InsertSeparator([t EXCEPT !.leaves = leaves, !.nLeaves = @ + 1],
                      old.keys[mid + 1], leaf + 1, path)

\* The arena is spread when nine tenths of it are leaves, and when no gap is
\* on the right. A place is a tree and the address that the leaf has in it.
Place(s, leaf) == [s |-> s, leaf |-> leaf]
SpreadAround(s, leaf) == LET r == Spread(s) IN Place(r.s, r.to[leaf])
SpreadIfCrowded(s, leaf) ==
  IF s.nLeaves * 10 >= Len(s.leaves) * 9 THEN SpreadAround(s, leaf) ELSE Place(s, leaf)
SpreadIfNoGap(at) ==
  IF GapAfter(at.s, at.leaf) > Len(at.s.leaves) THEN SpreadAround(at.s, at.leaf) ELSE at
SplitInPlace(at, path) ==
  Place(SplitAt(at.s, at.leaf, GapAfter(at.s, at.leaf), path), at.leaf)
SplitLeaf(s, leaf, path) == SplitInPlace(SpreadIfNoGap(SpreadIfCrowded(s, leaf)), path)

-----------------------------------------------------------------------------
(* The operations.                                                         *)

Done(s, ok) == [s |-> s, ok |-> ok]

PutAt(s, leaf, pos, k, val) ==
  [s EXCEPT !.leaves[leaf] = [keys |-> InsertAt(@.keys, pos, k),
                              values |-> InsertAt(@.values, pos, val)],
            !.len = @ + 1]

PutInHalf(half, pos, k, val) ==
  LET mid == N \div 2
  IN  IF pos <= mid + 1 THEN PutAt(half.s, half.leaf, pos, k, val)
      ELSE PutAt(half.s, half.leaf + 1, pos - mid, k, val)
PutWhere(s, w, pos, k, val) ==
  IF Len(s.leaves[w.leaf].keys) < N THEN PutAt(s, w.leaf, pos, k, val)
  ELSE PutInHalf(SplitLeaf(s, w.leaf, w.path), pos, k, val)
InsertWhere(w, key, val) ==
  LET keys == w.s.leaves[w.leaf].keys
      pos  == FindPosition(w.s, keys, key)
  IN  IF pos <= Len(keys) /\ Bytes(w.s, keys[pos]) = key THEN Done(w.s, FALSE)
      ELSE Done(PutWhere([w.s EXCEPT !.buf = BufWith(w.s, key)], w, pos,
                         Stored(w.s, key), val), TRUE)
Insert(s, key, val) == InsertWhere(WalkToLeaf(s, key), key, val)

RECURSIVE LeafBelow(_, _, _, _)
LeafBelow(s, key, a, down) ==
  LET next == s.inodes[a].ptrs[FindChild(s, s.inodes[a].keys, key)]
  IN  IF down = 0 THEN next ELSE LeafBelow(s, key, next, down - 1)
FindLeaf(s, key) == IF s.height = 0 THEN 1 ELSE LeafBelow(s, key, s.root, s.height - 1)

\* A cursor: a leaf and a position in it. locate, get and cursor_at.
At(leaf, pos) == [leaf |-> leaf, pos |-> pos]
Locate(s, key) ==
  LET leaf == FindLeaf(s, key) IN At(leaf, FindPosition(s, s.leaves[leaf].keys, key))

Nothing == <<>>
Current(s, c) ==
  LET leaf == s.leaves[c.leaf]
  IN  IF c.pos > Len(leaf.keys) THEN Nothing
      ELSE <<Bytes(s, leaf.keys[c.pos]), leaf.values[c.pos]>>
Get(s, key) ==
  LET e == Current(s, Locate(s, key)) IN IF e # Nothing /\ e[1] = key THEN e ELSE Nothing

RECURSIVE Edge(_, _, _, _)
Edge(s, a, down, rightmost) ==
  LET ptrs == s.inodes[a].ptrs
      next == IF rightmost THEN Last(ptrs) ELSE ptrs[1]
  IN  IF down = 0 THEN next ELSE Edge(s, next, down - 1, rightmost)
DescendToLeaf(s, rightmost) ==
  IF s.height = 0 THEN 1 ELSE Edge(s, s.root, s.height - 1, rightmost)

First(s) == At(DescendToLeaf(s, FALSE), 1)
\* The place a cursor has when next finds no more.
Final(s) == LET leaf == DescendToLeaf(s, TRUE) IN At(leaf, Max({1, Len(s.leaves[leaf].keys)}))

\* The leaves without keys are skipped; a cursor that finds none stays.
Onward(s, c) ==
  LET later == {i \in Live(s) : i > c.leaf}
  IN  IF c.pos < Len(s.leaves[c.leaf].keys) THEN At(c.leaf, c.pos + 1)
      ELSE IF later = {} THEN Nothing ELSE At(Min(later), 1)
Backward(s, c) ==
  LET before == {i \in Live(s) : i < c.leaf}
  IN  IF c.pos > 1 THEN At(c.leaf, c.pos - 1)
      ELSE IF before = {} THEN Nothing
      ELSE At(Max(before), Len(s.leaves[Max(before)].keys))

\* The mutable cursor moves like the other one.
SetValue(s, c, val) == [s EXCEPT !.leaves[c.leaf].values[c.pos] = val]
MutOnward(s, c) == Onward(s, c)
MutBackward(s, c) == Backward(s, c)

-----------------------------------------------------------------------------
(* What the searches rely on: the leaves of the tree from left to right    *)
(* are the leaves of the arena in order, and the separators part them.     *)

RECURSIVE LeavesBelow(_, _, _)
LeavesBelow(s, a, down) ==
  IF down = 0 THEN <<a>>
  ELSE FoldLeft(LAMBDA q, p : q \o LeavesBelow(s, p, down - 1), <<>>, s.inodes[a].ptrs)

RECURSIVE Parted(_, _, _, _, _)
Parted(s, a, down, from, to) ==     \* from, to: <<key>>, or <<>> for no bound
  LET keys == IF down = 0 THEN s.leaves[a].keys ELSE s.inodes[a].keys
      Bound(i) == IF i = 0 THEN from ELSE IF i > Len(keys) THEN to ELSE <<Bytes(s, keys[i])>>
  IN  /\ Len(keys) <= N
      /\ \A i \in 1 .. Len(keys) - 1 : KeyLess(Bytes(s, keys[i]), Bytes(s, keys[i + 1]))
      /\ \A i \in 1 .. Len(keys) :
           /\ from # <<>> => ~ KeyLess(Bytes(s, keys[i]), from[1])
           /\ to # <<>> => KeyLess(Bytes(s, keys[i]), to[1])
      /\ down > 0 =>
           /\ Len(s.inodes[a].ptrs) = Len(keys) + 1
           /\ \A i \in 1 .. Len(keys) + 1 :
                Parted(s, s.inodes[a].ptrs[i], down - 1, Bound(i - 1), Bound(i))

Sound(s) ==
  /\ Parted(s, IF s.height = 0 THEN 1 ELSE s.root, s.height, <<>>, <<>>)
  /\ s.len > 0 =>
       LeavesBelow(s, IF s.height = 0 THEN 1 ELSE s.root, s.height) = Ascending(Live(s))
  /\ s.nLeaves = Max({1, Cardinality(Live(s))})
  /\ s.len = FoldLeft(LAMBDA n, leaf : n + Len(leaf.keys), 0, s.leaves)
=============================================================================
