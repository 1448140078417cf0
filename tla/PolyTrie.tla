------------------------------ MODULE PolyTrie ------------------------------
(***************************************************************************)
(* The graduated trie (crates/poly-trie/src/poly_trie.rs), as functions on *)
(* a record                                                                *)
(*                                                                         *)
(*   arena    the blocks of children (PolyArena)                           *)
(*   keys     the keys with the NUL that ends each of them                 *)
(*   values   their values                                                 *)
(*   root     a reference                                                  *)
(*   refKeys  a key below the node of each block, by the start of it       *)
(*                                                                         *)
(* A reference has the number of children of its node, the bit that they   *)
(* part at, and the block; a leaf (1 child) has a key index instead. Bits  *)
(* and indices count from 0. The widths of indices are not modelled.       *)
(***************************************************************************)
EXTENDS ByteKeys, FiniteSetsExt, SequencesExt, PolyArena

Ref(width, pos, idx) == [width |-> width, pos |-> pos, idx |-> idx]
Empty == Ref(0, 0, 0)
Leaf(pos, key) == Ref(1, pos, key)
IsLeaf(ref) == ref.width = 1
IsInternal(ref) == ref.width > 1
RadixBits(width) == CASE width = 2 -> 1 [] width = 4 -> 2 [] width = 16 -> 4

NewTrie ==
  [arena |-> NewArena, keys |-> <<>>, values |-> <<>>, root |-> Empty, refKeys |-> <<>>]

Children(s, ref) == Block(s.arena, ref.idx, ref.width)
Child(s, ref, digit) == s.arena.slots[ref.idx + digit + 1]

-----------------------------------------------------------------------------
(* Bits of a key: behind its end they are 0.                               *)

KeyBitAt(key, bit) ==
  LET at == (bit \div 8) + 1
  IN  IF at <= Len(key) THEN (key[at] \div (2 ^ (7 - (bit % 8)))) % 2 ELSE 0
DigitAt(key, bit, n) ==
  FoldLeft(LAMBDA digit, i : 2 * digit + KeyBitAt(key, bit + i - 1), 0, [i \in 1 .. n |-> i])

\* find_divergence and simd_find_divergence: from the byte of `from` on.
Duplicate == -1
FindDivergence(a, b, from) ==
  LET start == 8 * (from \div 8)
      end   == 8 * Min({Len(a), Len(b)})
      apart == {d \in start .. end - 1 : KeyBitAt(a, d) # KeyBitAt(b, d)}
  IN  IF apart # {} THEN Min(apart)
      ELSE IF Len(a) = Len(b) THEN Duplicate ELSE Max({start, end})

-----------------------------------------------------------------------------
(* Lookup.                                                                 *)

RECURSIVE GetFrom(_, _, _)
GetFrom(s, key, ref) ==
  CASE ref = Empty -> Duplicate
    [] IsLeaf(ref) -> IF s.keys[ref.idx + 1] = key THEN ref.idx ELSE Duplicate
    [] OTHER -> GetFrom(s, key, Child(s, ref, DigitAt(key, ref.pos, RadixBits(ref.width))))
\* The key index, or NoIndex.
NoIndex == Duplicate
GetIndex(s, key) == GetFrom(s, key, s.root)

-----------------------------------------------------------------------------
(* Insertion. `stack` has the nodes on the way down, each with the digit   *)
(* gone to.                                                                *)

AllocNode(s, width, refKey) ==
  LET r == AllocN(s.arena, width, Empty)
      grown == Len(r.arena.slots) - Len(s.refKeys)
      all == IF grown > 0 THEN s.refKeys \o [i \in 1 .. grown |-> 0] ELSE s.refKeys
  IN  [s |-> [s EXCEPT !.arena = r.arena, !.refKeys = ReplaceAt(all, r.start + 1, refKey)],
       start |-> r.start]

\* The child of the last node of the stack, or the root.
SetChild(s, stack, ref) ==
  IF stack = <<>> THEN [s EXCEPT !.root = ref]
  ELSE [s EXCEPT !.arena =
          WithBlock(@, Last(stack).node.idx + Last(stack).digit, <<ref>>)]

\* A full node becomes one of the next width when its bit allows it, and its
\* children are leaves or nodes like it that part right behind it. The children
\* of those become its own and their blocks are freed.
WiderWidth(width) == IF width = 2 THEN 4 ELSE 16
Graduates(s, node) ==
  /\ node.width \in {2, 4}
  /\ node.pos % RadixBits(WiderWidth(node.width)) = 0
  /\ \A i \in 1 .. node.width :
       LET c == Children(s, node)[i]
       IN  /\ c # Empty
           /\ IsInternal(c) => c.width = node.width /\ c.pos = node.pos + RadixBits(node.width)

Graduated(s, node) ==
  LET wide == WiderWidth(node.width)
      bits == RadixBits(wide)
      factor == wide \div node.width
      old  == Children(s, node)
      r    == AllocNode(s, wide, s.refKeys[node.idx + 1])
      Key(ref) == s.keys[ref.idx + 1]
      At(digit) ==      \* the child at a digit of the wider node
        LET c == old[(digit \div factor) + 1]
        IN  IF IsInternal(c) THEN Child(s, c, digit % factor)
            ELSE IF DigitAt(Key(c), node.pos, bits) = digit
            THEN Leaf(node.pos + bits, c.idx) ELSE Empty
      Fill(q, i) == Append(q, At(i - 1))
      Free(a, c) == IF IsInternal(c) THEN FreeN(a, c.idx, c.width) ELSE a
      freed == FoldLeft(Free, r.s.arena, old)
      filled == WithBlock(freed, r.start, FoldLeft(Fill, <<>>, [i \in 1 .. wide |-> i]))
  IN  [s |-> [r.s EXCEPT !.arena = FreeN(filled, node.idx, node.width)],
       ref |-> Ref(wide, node.pos, r.start)]

\* try_graduate: from the last node of the stack up.
TryGraduate(s, stack) ==
  LET n == Len(stack)
      Up(t, i) ==
        LET node == stack[n + 1 - i].node
            g == Graduated(t, node)
        IN  IF Graduates(t, node) THEN SetChild(g.s, SubSeq(stack, 1, n - i), g.ref) ELSE t
  IN  FoldLeft(Up, s, [i \in 1 .. n |-> i])

\* A new binary node at bit `d` has the new leaf and what was there before.
Split(s, key, d, refKey, before, stack) ==
  LET new == Len(s.keys) - 1
      r   == AllocNode(s, 2, refKey)
      bit == KeyBitAt(key, d)
      pair == IF bit = 0 THEN <<Leaf(d, new), before>> ELSE <<before, Leaf(d, new)>>
      node == Ref(2, d, r.start)
      t   == [r.s EXCEPT !.arena = WithBlock(@, r.start, pair)]
  IN  TryGraduate(SetChild(t, stack, node), Append(stack, [node |-> node, digit |-> bit]))

Done(s, ok) == [s |-> s, ok |-> ok]
\* A duplicate is met after the key and the value were pushed.
Unpush(s) == [s EXCEPT !.keys = Front(@), !.values = Front(@)]

RECURSIVE InsertFrom(_, _, _, _, _)
InsertFrom(s, key, ref, confirmed, stack) ==
  LET refKey == IF IsLeaf(ref) THEN ref.idx ELSE s.refKeys[ref.idx + 1]
      d      == FindDivergence(key, s.keys[refKey + 1], confirmed)
      bits   == RadixBits(ref.width)
      digit  == DigitAt(key, ref.pos, bits)
      child  == Child(s, ref, digit)
      below  == Append(stack, [node |-> ref, digit |-> digit])
      before == IF IsLeaf(ref) THEN Leaf(d, ref.idx) ELSE ref
  IN  CASE d = Duplicate -> Done(Unpush(s), FALSE)
        [] d # Duplicate /\ (IsLeaf(ref) \/ d < ref.pos) ->
             Done(Split(s, key, d, refKey, before, stack), TRUE)
        [] d # Duplicate /\ IsInternal(ref) /\ d >= ref.pos /\ child = Empty ->
             Done(TryGraduate(SetChild(s, below, Leaf(ref.pos, Len(s.keys) - 1)), below), TRUE)
        [] OTHER -> InsertFrom(s, key, child, ref.pos + bits, below)

\* The caller's key has no NUL in it, and the trie adds one.
Terminated(key) == Append(key, 0)
Insert(s, key, val) ==
  LET t == [s EXCEPT !.keys = Append(@, Terminated(key)), !.values = Append(@, val)]
  IN  IF 0 \in Range(key) THEN Done(s, FALSE)
      ELSE IF s.root = Empty THEN Done([t EXCEPT !.root = Leaf(0, Len(s.keys))], TRUE)
      ELSE InsertFrom(t, Terminated(key), s.root, 0, <<>>)

-----------------------------------------------------------------------------
(* optimize: the nodes go to a new arena breadth first.                    *)

RECURSIVE BreadthFirst(_, _)
BreadthFirst(s, queue) ==
  IF queue = <<>> THEN <<>>
  ELSE <<Head(queue)>>
         \o BreadthFirst(s, Tail(queue) \o SelectSeq(Children(s, Head(queue)), IsInternal))

Optimize(s) ==
  LET order == BreadthFirst(s, <<s.root>>)
      Place(r, node) ==
        LET new == AllocNode(r.t, node.width, s.refKeys[node.idx + 1])
        IN  [t |-> new.s, to |-> (node.idx :> new.start) @@ r.to]
      placed == FoldLeft(Place, [t |-> [s EXCEPT !.arena = NewArena, !.refKeys = <<>>],
                                 to |-> <<>>], order)
      Moved(ref) == IF IsInternal(ref) THEN [ref EXCEPT !.idx = placed.to[@]] ELSE ref
      Copy(a, node) ==
        WithBlock(a, placed.to[node.idx],
                  FoldLeft(LAMBDA q, c : Append(q, Moved(c)), <<>>, Children(s, node)))
  IN  IF ~ IsInternal(s.root) THEN s
      ELSE [placed.t EXCEPT !.arena = FoldLeft(Copy, @, order), !.root = Moved(s.root)]

-----------------------------------------------------------------------------
(* The iterator: the nodes on the way to a leaf, each with the slot taken  *)
(* and the slots that are in use. A trie of one leaf has a frame without a *)
(* node. BeforeFirst is the slot of an iterator that has not begun.        *)

BeforeFirst == -1
Frame(node, slot, mask) == [node |-> node, slot |-> slot, mask |-> mask]
Mask(s, node) == {i \in 0 .. node.width - 1 : Child(s, node, i) # Empty}
RootLeaf(slot) == <<Frame(Empty, slot, {})>>

RECURSIVE DescendFirst(_, _, _)
DescendFirst(s, node, stack) ==
  LET mask == Mask(s, node)
      child == Child(s, node, Min(mask))
      on == Append(stack, Frame(node, Min(mask), mask))
  IN  IF IsLeaf(child) THEN on ELSE DescendFirst(s, child, on)
RECURSIVE DescendLast(_, _, _)
DescendLast(s, node, stack) ==
  LET mask == Mask(s, node)
      child == Child(s, node, Max(mask))
      on == Append(stack, Frame(node, Max(mask), mask))
  IN  IF IsLeaf(child) THEN on ELSE DescendLast(s, child, on)

Start(s) ==
  IF s.root = Empty THEN <<>>
  ELSE IF IsLeaf(s.root) THEN RootLeaf(BeforeFirst)
  ELSE <<Frame(s.root, BeforeFirst, Mask(s, s.root))>>
End(s) ==
  IF s.root = Empty THEN <<>>
  ELSE IF IsLeaf(s.root) THEN RootLeaf(0) ELSE DescendLast(s, s.root, <<>>)

CurrentIndex(s, stack) ==
  IF stack = <<>> THEN NoIndex
  ELSE IF Last(stack).slot = BeforeFirst THEN NoIndex
  ELSE IF Last(stack).node = Empty THEN IF IsLeaf(s.root) THEN s.root.idx ELSE NoIndex
  ELSE LET c == Child(s, Last(stack).node, Last(stack).slot)
       IN  IF IsLeaf(c) THEN c.idx ELSE NoIndex
KeyAt(s, i) == Front(s.keys[i + 1])

\* The last frame takes another slot, and the iterator goes on below it.
Retake(s, stack, slot, Descend(_, _, _)) ==
  LET f == Last(stack)
      child == Child(s, f.node, slot)
      on == Append(Front(stack), Frame(f.node, slot, f.mask))
  IN  IF IsLeaf(child) THEN on ELSE Descend(s, child, on)

RECURSIVE AdvanceNext(_, _)
AdvanceNext(s, stack) ==
  LET f == Last(stack)
      later == {i \in f.mask : i > f.slot}
  IN  IF stack = <<>> THEN <<>>
      ELSE IF f.node = Empty THEN IF f.slot = BeforeFirst THEN RootLeaf(0) ELSE <<>>
      ELSE IF later # {} THEN Retake(s, stack, Min(later), DescendFirst)
      ELSE AdvanceNext(s, Front(stack))
RECURSIVE AdvancePrev(_, _)
AdvancePrev(s, stack) ==
  LET f == Last(stack)
      sooner == {i \in f.mask : i < f.slot}
  IN  IF stack = <<>> \/ f.node = Empty THEN <<>>
      ELSE IF sooner # {} THEN Retake(s, stack, Max(sooner), DescendLast)
      ELSE AdvancePrev(s, Front(stack))

\* seek: digit by digit; a leaf below the key, or no child, sends the iterator
\* on, and past one more leaf that is below the key.
RECURSIVE SeekFrom(_, _, _, _)
SeekFrom(s, key, node, stack) ==
  LET digit == DigitAt(key, node.pos, RadixBits(node.width))
      child == Child(s, node, digit)
      on    == Append(stack, Frame(node, digit, Mask(s, node)))
      Below(ref) == IsLeaf(ref) /\ KeyLess(s.keys[ref.idx + 1], key)
      later == {i \in Mask(s, node) : i > digit}
  IN  IF IsInternal(child) THEN SeekFrom(s, key, child, on)
      ELSE IF IsLeaf(child) /\ ~ Below(child) THEN on
      ELSE IF IsLeaf(child) /\ later # {} /\ Below(Child(s, node, Min(later)))
      THEN AdvanceNext(s, AdvanceNext(s, on))
      ELSE AdvanceNext(s, on)
Seek(s, key) ==
  IF s.root = Empty THEN <<>>
  ELSE IF IsLeaf(s.root)
  THEN IF KeyLess(s.keys[s.root.idx + 1], key) THEN <<>> ELSE RootLeaf(0)
  ELSE SeekFrom(s, key, s.root, <<>>)

-----------------------------------------------------------------------------
(* The report of the shape: how deep, how many children are empty, and how  *)
(* many nodes have each width.                                              *)

Stats(depth, empty, nodes) == [depth |-> depth, empty |-> empty, nodes |-> nodes]
NoNodes == [n \in BlockSizes |-> 0]

RECURSIVE WalkStatsRef(_, _)
WalkStatsRef(s, ref) ==
  LET With(t, child) ==
        LET below == WalkStatsRef(s, child)
        IN  IF child = Empty THEN [t EXCEPT !.empty = @ + 1]
            ELSE Stats(Max({t.depth, below.depth}), t.empty + below.empty,
                       [n \in BlockSizes |-> t.nodes[n] + below.nodes[n]])
      all == FoldLeft(With, Stats(0, 0, [NoNodes EXCEPT ![ref.width] = 1]), Children(s, ref))
  IN  IF IsInternal(ref) THEN [all EXCEPT !.depth = @ + 1] ELSE Stats(0, 0, NoNodes)

WalkStats(s) ==
  IF s.root = Empty THEN Stats(0, 0, NoNodes)
  ELSE IF IsLeaf(s.root) THEN Stats(1, 0, NoNodes)
  ELSE [WalkStatsRef(s, s.root) EXCEPT !.depth = @ + 1]

StructureReport(s) ==
  LET t == WalkStats(s)
  IN  [leaves |-> Len(s.keys), depth |-> t.depth, empty |-> t.empty, nodes |-> t.nodes,
       internal |-> t.nodes[2] + t.nodes[4] + t.nodes[16]]

-----------------------------------------------------------------------------
(* What the searches rely on, and that no block is lost or used twice.     *)

RECURSIVE LeavesOf(_, _)
LeavesOf(s, ref) ==
  IF ref = Empty THEN <<>> ELSE IF IsLeaf(ref) THEN <<ref.idx>>
  ELSE FoldLeft(LAMBDA q, c : q \o LeavesOf(s, c), <<>>, Children(s, ref))

Slots(start, n) == start .. start + n - 1
Sound(s) ==
  LET nodes == IF IsInternal(s.root) THEN BreadthFirst(s, <<s.root>>) ELSE <<>>
      leaves == LeavesOf(s, s.root)
      used  == UNION {Slots(nodes[i].idx, nodes[i].width) : i \in DOMAIN nodes}
      freed == UNION {UNION {Slots(b, n) : b \in Freed(s.arena, n)} : n \in BlockSizes}
      widths == FoldLeft(LAMBDA sum, node : sum + node.width, 0, nodes)
      report == StructureReport(s)
  IN  /\ report.internal = Len(nodes) /\ report.depth <= report.internal + 1
         \* every node but the root, and every leaf, is a child
      /\ nodes # <<>> => widths = report.empty + report.internal - 1 + report.leaves
      /\ Len(leaves) = Len(s.keys) /\ Range(leaves) = 0 .. Len(s.keys) - 1
      /\ widths = s.arena.occupied /\ widths = Cardinality(used)
      /\ used \cap freed = {} /\ used \union freed = 0 .. Len(s.arena.slots) - 1
      /\ \A i \in DOMAIN nodes :
           LET node == nodes[i]
               ref  == s.keys[s.refKeys[node.idx + 1] + 1]
           IN  /\ node.pos % RadixBits(node.width) = 0
               /\ \A digit \in 0 .. node.width - 1 :
                    LET c == Child(s, node, digit)
                    IN  /\ IsInternal(c) => c.pos >= node.pos + RadixBits(node.width)
                        /\ \A k \in Range(LeavesOf(s, c)) :
                             /\ DigitAt(s.keys[k + 1], node.pos, RadixBits(node.width)) = digit
                             /\ FindDivergence(s.keys[k + 1], ref, 0) \in
                                  {Duplicate} \union (node.pos .. 8 * Len(ref))
=============================================================================
