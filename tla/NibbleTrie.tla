----------------------------- MODULE NibbleTrie -----------------------------
(***************************************************************************)
(* The nibble trie (crates/tiny-trie/src/nibble_trie.rs), as functions on  *)
(* a record                                                                *)
(*                                                                         *)
(*   arena   the nodes, the root first; an address counts from 0           *)
(*   buf     the bytes of the keys, one dummy byte in front                *)
(*   index   the slots of the keys in key order, with gaps (NoSlot); a     *)
(*           position counts from 0, where there is always a gap           *)
(*   n       the number of keys                                            *)
(*   ptr     PTR::max_value(), the greatest address and position           *)
(*                                                                         *)
(* A node (Inode) has `kids`, from the occupied nibbles to an address or,  *)
(* for those in `leaves`, to a position. Its `leaf` is the position of the *)
(* leftmost key below it, which serves as reference key. A FlatNode        *)
(* (`flat`) packs a small subtree: its slots hold the place of the nibble, *)
(* the nibble, and the distance of the key from `base`. A key is a         *)
(* sequence of bytes. The SIMD comparisons are what the scalar ones are.   *)
(***************************************************************************)
EXTENDS ByteKeys, FiniteSetsExt, SequencesExt

CONSTANTS
  LenMax,       \* LEN::max_value()
  FnodeCap,     \* FNODE_CAP (16)
  FnodeNull     \* FNODE_OFFSET_NULL (0xFF)

-----------------------------------------------------------------------------
(* Keys as nibbles.                                                        *)

MaxNib(key) == 2 * Len(key)

\* Past the end of a key there are zeros.
NibbleAt(key, i) ==
  IF i \div 2 >= Len(key) THEN 0
  ELSE IF i % 2 = 0 THEN key[i \div 2 + 1] \div 16 ELSE key[i \div 2 + 1] % 16

Differ(a, b, from, to) == {i \in from .. to - 1 : NibbleAt(a, i) # NibbleAt(b, i)}

Same == -1

\* The scan starts at the byte of nibble `from`.
CheckPrefix(a, b, from, to) ==
  LET d == Differ(a, b, 2 * (from \div 2), to)
  IN  IF from >= to \/ d = {} THEN Same ELSE Min(d)

FindDivergence(a, b, from) ==
  LET end == Min({MaxNib(a), MaxNib(b)})
      d   == Differ(a, b, 2 * (from \div 2), end)
  IN  IF d # {} THEN Min(d) ELSE IF Len(a) = Len(b) THEN Same ELSE end

-----------------------------------------------------------------------------
(* Nodes and slots.                                                        *)

NoSlot == [off |-> 0, len |-> 0, val |-> 0]
NoFunction == [x \in {} |-> 0]

NewTrie(ptr) ==
  [arena |-> <<>>, buf |-> <<0>>, index |-> <<NoSlot>>, n |-> 0, ptr |-> ptr]

Inode(plen, kids, leaves, leaf, terminal) ==
  [flat |-> FALSE, plen |-> plen, kids |-> kids, leaves |-> leaves,
   leaf |-> leaf, terminal |-> terminal]
Fnode(base, terminal, slots) ==
  [flat |-> TRUE, base |-> base, terminal |-> terminal, slots |-> slots]

\* PTR::from_usize.
Ptr(s, i) == i % (s.ptr + 1)

NodeAt(s, a) == s.arena[a + 1]
SlotAt(s, p) == s.index[p + 1]
Taken(s, p) == SlotAt(s, p).off # 0
KeyAt(s, p) == SubSeq(s.buf, SlotAt(s, p).off + 1, SlotAt(s, p).off + SlotAt(s, p).len)

Occupied(node) == DOMAIN node.kids
WithKid(node, nib, p, isLeaf) ==
  [node EXCEPT !.kids = (nib :> p) @@ @,
               !.leaves = IF isLeaf THEN @ \union {nib} ELSE @ \ {nib}]
SetLeaf(s, a, p) == [s EXCEPT !.arena[a + 1].leaf = p]

\* FlatNode: position 0 is the base, position i + 1 is slot i.
PosKey(f, pos) == IF pos = 0 THEN f.base ELSE f.base + f.slots[pos].offset
TerminalPos(f) ==
  {i \in 1 .. Len(f.slots) : f.slots[i].offset # FnodeNull}
    \union (IF f.terminal THEN {0} ELSE {})

-----------------------------------------------------------------------------
(* NibbleIter: a walk of the tree. A frame is an address and the nibble it *)
(* went down, or a position of a FlatNode; an empty stack is past the end. *)

TerminalNib == 16
Parked == -1

Frame(a, nib) == [at |-> a, nib |-> nib]
Higher(s, a, nib) == {m \in Occupied(NodeAt(s, a)) : m >= nib}

Start(s) ==
  IF s.arena = <<>> THEN <<>>
  ELSE <<Frame(0, IF NodeAt(s, 0).terminal THEN TerminalNib ELSE Parked)>>

RECURSIVE DescendFirst(_, _, _)
DescendFirst(s, stack, a) ==
  LET node == NodeAt(s, a)
      nib  == Min(Occupied(node))
  IN  IF node.flat THEN Append(stack, Frame(a, Min(TerminalPos(node))))
      ELSE IF node.terminal THEN Append(stack, Frame(a, TerminalNib))
      ELSE IF nib \in node.leaves THEN Append(stack, Frame(a, nib))
      ELSE DescendFirst(s, Append(stack, Frame(a, nib)), node.kids[nib])

PushNextChild(s, stack, a, from) ==
  LET nib  == Min(Higher(s, a, from))
      node == NodeAt(s, a)
      next == Append(stack, Frame(a, nib))
  IN  IF nib \in node.leaves THEN next ELSE DescendFirst(s, next, node.kids[nib])

\* The stack is popped until a frame has a next child, or a next position.
RECURSIVE AdvanceNext(_, _)
AdvanceNext(s, stack) ==
  IF stack = <<>> THEN <<>>
  ELSE LET f    == Last(stack)
           rest == Front(stack)
           node == NodeAt(s, f.at)
           from == IF f.nib = TerminalNib THEN 0 ELSE f.nib + 1
           later == {i \in TerminalPos(node) : i > f.nib}
       IN  IF node.flat
           THEN IF later # {} THEN Append(rest, Frame(f.at, Min(later)))
                ELSE AdvanceNext(s, rest)
           ELSE IF Higher(s, f.at, from) # {} THEN PushNextChild(s, rest, f.at, from)
           ELSE AdvanceNext(s, rest)

RECURSIVE BacktrackToNext(_, _)
BacktrackToNext(s, stack) ==
  IF stack = <<>> THEN <<>>
  ELSE LET f == Last(stack)
       IN  IF ~ NodeAt(s, f.at).flat /\ Higher(s, f.at, f.nib + 1) # {}
           THEN PushNextChild(s, Front(stack), f.at, f.nib + 1)
           ELSE BacktrackToNext(s, Front(stack))

NoIndex == 0
CurrentIndex(s, stack) ==
  IF stack = <<>> THEN NoIndex
  ELSE LET f    == Last(stack)
           node == NodeAt(s, f.at)
       IN  IF node.flat THEN PosKey(node, f.nib)
           ELSE IF f.nib = TerminalNib THEN node.leaf
           ELSE IF f.nib \in node.leaves THEN node.kids[f.nib]
           ELSE NoIndex

\* A mutant of FnodeSeek: the key itself is passed over.
FnodeSeekPast(s, stack, a, key) ==
  LET node  == NodeAt(s, a)
      found == {i \in TerminalPos(node) : KeyLess(key, KeyAt(s, PosKey(node, i)))}
  IN  IF found # {} THEN Append(stack, Frame(a, Min(found)))
      ELSE BacktrackToNext(s, stack)

\* The first key of a FlatNode that is not below `key`, or past the node.
FnodeSeek(s, stack, a, key) ==
  LET node  == NodeAt(s, a)
      found == {i \in TerminalPos(node) : ~ KeyLess(KeyAt(s, PosKey(node, i)), key)}
  IN  IF found # {} THEN Append(stack, Frame(a, Min(found)))
      ELSE BacktrackToNext(s, stack)

\* seek: down the nibbles of `key`, to the next child where there is none.
\* The nibbles between two nodes are not compared.
RECURSIVE SeekFrom(_, _, _, _)
SeekFrom(s, key, a, stack) ==
  LET node == NodeAt(s, a)
      nib  == NibbleAt(key, node.plen)
      next == Append(stack, Frame(a, nib))
      NextChild(from) ==
        IF Higher(s, a, from) # {} THEN PushNextChild(s, stack, a, from)
        ELSE BacktrackToNext(s, stack)
  IN  IF node.plen >= MaxNib(key)
      THEN IF node.terminal /\ ~ KeyLess(KeyAt(s, node.leaf), key)
           THEN Append(stack, Frame(a, TerminalNib))
           ELSE NextChild(0)
      ELSE IF nib \notin Occupied(node) THEN NextChild(nib + 1)
      ELSE IF nib \in node.leaves
           THEN IF KeyLess(KeyAt(s, node.kids[nib]), key) THEN AdvanceNext(s, next)
                ELSE next
      ELSE IF NodeAt(s, node.kids[nib]).flat THEN FnodeSeek(s, next, node.kids[nib], key)
      ELSE SeekFrom(s, key, node.kids[nib], next)

Seek(s, key) == IF s.arena = <<>> THEN <<>> ELSE SeekFrom(s, key, 0, <<>>)

-----------------------------------------------------------------------------
(* Lookup.                                                                 *)

\* A key is compared whole where the walk ends.
Whole(s, p, key) == IF KeyAt(s, p) = key THEN p ELSE NoIndex
BaseKey(s, f, key) == IF f.terminal THEN Whole(s, f.base, key) ELSE NoIndex

\* flat_get: `depth` is the depth the scan has gone down to.
RECURSIVE FlatScan(_, _, _, _, _)
FlatScan(s, f, key, i, depth) ==
  IF i > Len(f.slots) \/ (i <= Len(f.slots) /\ f.slots[i].plen < depth)
  THEN BaseKey(s, f, key)
  ELSE LET here   == f.slots[i]
           deeper == i < Len(f.slots) /\ f.slots[i + 1].plen > here.plen
                       /\ f.slots[i + 1].plen < MaxNib(key)
       IN  IF here.plen > depth \/ NibbleAt(key, here.plen) # here.nib
           THEN FlatScan(s, f, key, i + 1, depth)
           ELSE IF deeper THEN FlatScan(s, f, key, i + 1, f.slots[i + 1].plen)
           ELSE IF here.offset = FnodeNull THEN NoIndex
           ELSE Whole(s, f.base + here.offset, key)

FlatGet(s, f, key) ==
  IF f.slots # <<>> /\ f.slots[1].plen < MaxNib(key)
  THEN FlatScan(s, f, key, 1, f.slots[1].plen)
  ELSE BaseKey(s, f, key)

RECURSIVE GetFrom(_, _, _)
GetFrom(s, key, a) ==
  LET node == NodeAt(s, a)
      nib  == NibbleAt(key, node.plen)
      kid  == node.kids[nib]
  IN  IF node.plen >= MaxNib(key)
      THEN IF node.terminal THEN Whole(s, node.leaf, key) ELSE NoIndex
      ELSE IF nib \notin Occupied(node) THEN NoIndex
      ELSE IF nib \in node.leaves THEN Whole(s, kid, key)
      ELSE IF NodeAt(s, kid).flat THEN FlatGet(s, NodeAt(s, kid), key)
      ELSE GetFrom(s, key, kid)

GetIndex(s, key) == IF s.arena = <<>> THEN NoIndex ELSE GetFrom(s, key, 0)

-----------------------------------------------------------------------------
(* The cursor and the ranges scan the index.                               *)

TakenIn(s, from, to) == {p \in from .. to : p < Len(s.index) /\ p >= 0 /\ Taken(s, p)}

\* The positions a forward cursor visits, first to last.
CursorOrder(s) == Ascending(TakenIn(s, 1, Len(s.index) - 1))

CeilingIndex(s, key) == CurrentIndex(s, Seek(s, key))

\* A mutant: a bound that is a key of the trie is not passed.
CeilingEvenIndex(s, key) == CeilingIndex(s, key)

CeilingStrictIndex(s, key) ==
  LET p == CeilingIndex(s, key)
      later == TakenIn(s, p + 1, Len(s.index) - 1)
  IN  IF p = NoIndex \/ KeyAt(s, p) # key THEN p
      ELSE IF later = {} THEN NoIndex ELSE Min(later)

\* range: the positions of the keys between two bounds, each of which has a
\* key and says whether that key is inside.
EndOf(s, p) == IF p = NoIndex THEN Len(s.index) ELSE p
LowerEnd(s, from, inside) ==
  EndOf(s, IF inside THEN CeilingIndex(s, from) ELSE CeilingStrictIndex(s, from))
UpperEnd(s, to, inside) ==
  EndOf(s, IF inside THEN CeilingStrictIndex(s, to) ELSE CeilingIndex(s, to))
RangeBetween(s, from, fromIn, to, toIn) ==
  TakenIn(s, LowerEnd(s, from, fromIn), UpperEnd(s, to, toIn) - 1)

\* The mutable cursor is a position: 0 before the first key, the length of the
\* index after the last one.
SetValue(s, p, val) == [s EXCEPT !.index[p + 1].val = val]
MutOnward(s, p) ==
  LET later == TakenIn(s, p + 1, Len(s.index) - 1)
  IN  IF later = {} THEN Len(s.index) ELSE Min(later)
MutBackward(s, p) ==
  LET before == TakenIn(s, 1, p - 1) IN IF before = {} THEN 0 ELSE Max(before)
MutFirst(s) == MutOnward(s, 0)
MutLast(s) == MutBackward(s, Len(s.index))
MutSeek(s, key) ==
  LET p == CeilingIndex(s, key) IN IF p # NoIndex /\ Taken(s, p) THEN p ELSE Len(s.index)
MutAt(s, p) == IF p \in 1 .. Len(s.index) - 1 THEN p ELSE NoIndex

-----------------------------------------------------------------------------
(* optimize: the keys in the order of the tree, at every second slot.      *)

\* `w` is the walk: the trie whose nodes are rewritten, the new buf and
\* index, and the rank of the next key. The old slots are those of `s`.
PlaceKey(s, w, p) ==
  LET slot == SlotAt(s, p)
  IN  [w EXCEPT !.buf = @ \o KeyAt(s, p),
                !.index = @ \o <<[slot EXCEPT !.off = Len(w.buf)], NoSlot>>,
                !.rank = @ + 1]
Placed(w) == 2 * (w.rank - 1) + 1

PlaceFlat(s, w, a) ==
  LET f    == NodeAt(s, a)
      w0   == PlaceKey(s, w, f.base)
      base == Placed(w0)
      Step(x, i) ==
        IF f.slots[i].offset \in {FnodeNull, 0} THEN x
        ELSE LET y == PlaceKey(s, x, f.base + f.slots[i].offset)
             IN  [y EXCEPT !.arena[a + 1].slots[i].offset = (Placed(y) - base) % 256]
  IN  FoldLeft(Step, [w0 EXCEPT !.arena[a + 1].base = base],
               [i \in 1 .. Len(f.slots) |-> i])

RECURSIVE WalkOptimize(_, _, _)
WalkOptimize(s, w, a) ==
  LET node  == NodeAt(s, a)
      first == 2 * w.rank + 1
      w0    == IF node.terminal THEN PlaceKey(s, w, node.leaf) ELSE w
      Visit(x, nib) ==
        LET kid == node.kids[nib]
        IN  IF nib \in node.leaves
            THEN LET y == PlaceKey(s, x, kid)
                 IN  [y EXCEPT !.arena[a + 1].kids[nib] = Ptr(s, Placed(y))]
            ELSE IF NodeAt(s, kid).flat THEN PlaceFlat(s, x, kid)
            ELSE WalkOptimize(s, x, kid)
  IN  [FoldLeft(Visit, w0, Ascending(Occupied(node)))
         EXCEPT !.arena[a + 1].leaf = Ptr(s, first)]

Optimize(s) ==
  IF s.arena = <<>> THEN s
  ELSE LET w == WalkOptimize(s, [arena |-> s.arena, buf |-> <<0>>, rank |-> 0,
                                 index |-> <<NoSlot>>], 0)
       IN  [s EXCEPT !.arena = w.arena, !.buf = w.buf, !.index = w.index]

-----------------------------------------------------------------------------
(* flatten: a small subtree becomes a FlatNode.                            *)

RECURSIVE CountSubtree(_, _)
CountSubtree(s, a) ==      \* <<keys, inodes>>
  LET node == NodeAt(s, a)
      kids == {CountSubtree(s, node.kids[m]) \o <<m>> : m \in Occupied(node) \ node.leaves}
      Total(i) == FoldSet(LAMBDA c, sum : c[i] + sum, 0, kids)
      own  == IF node.terminal THEN 1 ELSE 0
  IN  IF node.flat THEN <<Cardinality(TerminalPos(node)), 1>>
      ELSE <<own + Cardinality(node.leaves) + Total(1), 1 + Total(2)>>

RECURSIVE CollectFlatSlots(_, _)
CollectFlatSlots(s, a) ==
  LET node == NodeAt(s, a)
      base(nib) == [plen |-> node.plen, nib |-> nib, ki |-> 0]
      Of(slots, nib) ==
        LET kid == node.kids[nib]
        IN  slots \o
            IF nib \in node.leaves THEN <<[base(nib) EXCEPT !.ki = kid]>>
            ELSE <<[base(nib) EXCEPT !.ki =
                      IF NodeAt(s, kid).terminal THEN NodeAt(s, kid).leaf ELSE 0]>>
                 \o CollectFlatSlots(s, kid)
  IN  FoldLeft(Of, <<>>, Ascending(Occupied(node)))

RECURSIVE HasFlat(_, _)
HasFlat(s, a) ==
  LET node == NodeAt(s, a)
  IN  node.flat \/ \E m \in Occupied(node) \ node.leaves : HasFlat(s, node.kids[m])

\* build_fnode_subtree: too many slots, a distance that does not fit or a
\* FlatNode below leave the subtree as it is.
BuildFnode(s, a) ==
  LET node == NodeAt(s, a)
      raw  == IF HasFlat(s, a) THEN <<>> ELSE CollectFlatSlots(s, a)
      off(c) == IF c.ki = 0 THEN FnodeNull ELSE c.ki - node.leaf
      slots == [i \in 1 .. Len(raw) |->
                  [plen |-> raw[i].plen, nib |-> raw[i].nib, offset |-> off(raw[i])]]
      fits == /\ raw # <<>> /\ Len(raw) <= FnodeCap - 1
              /\ \A i \in 1 .. Len(raw) :
                   raw[i].ki # 0 => raw[i].ki - node.leaf < FnodeNull
  IN  [ok |-> fits, node |-> Fnode(node.leaf, node.terminal, slots)]

\* rebuild_subtree: `arena` is the arena built so far.
RECURSIVE RebuildSubtree(_, _, _)
RebuildSubtree(s, arena, a) ==
  LET node  == NodeAt(s, a)
      count == IF node.flat THEN <<0, 0>> ELSE CountSubtree(s, a)
      pack  == IF a # 0 /\ ~ node.flat /\ count[1] <= FnodeCap /\ count[2] >= 2
               THEN BuildFnode(s, a) ELSE [ok |-> FALSE, node |-> node]
      here  == Len(arena) + 1
      Kid(x, nib) ==
        [RebuildSubtree(s, x, node.kids[nib]) EXCEPT ![here].kids[nib] = Ptr(s, Len(x))]
  IN  IF node.flat \/ pack.ok THEN Append(arena, pack.node)
      ELSE FoldLeft(Kid, Append(arena, node),
                    Ascending(Occupied(node) \ node.leaves))

Flatten(s) ==
  IF s.arena = <<>> THEN s ELSE [s EXCEPT !.arena = RebuildSubtree(s, <<>>, 0)]

-----------------------------------------------------------------------------
(* Insertion: the case is found before anything changes, then a slot is    *)
(* opened at the place of the key in the index, the references to the      *)
(* shifted keys are bumped, and the new key is wired into the tree.        *)

\* A case: the node, the nibble gone down (SplitLeaf, NewLeafChild), the
\* place where the keys part, whether the new and the existing key end
\* there, and their nibbles. `path` has the ancestors, as frames.
Case(kind, a, nib, d, newEnds, oldEnds, newNib, oldNib) ==
  [kind |-> kind, at |-> a, nib |-> nib, d |-> d, newEnds |-> newEnds,
   oldEnds |-> oldEnds, newNib |-> newNib, oldNib |-> oldNib,
   leftmost |-> newEnds \/ (~ oldEnds /\ newNib < oldNib)]
Parting(kind, a, nib, key, old, d) ==
  Case(kind, a, nib, d, d >= MaxNib(key), kind = "SplitLeaf" /\ d >= MaxNib(old),
       NibbleAt(key, d), NibbleAt(old, d))
Duplicate == Case("Duplicate", 0, 0, 0, FALSE, FALSE, 0, 0)

RECURSIVE FindInsertCase(_, _, _, _, _)
FindInsertCase(s, key, a, confirmed, path) ==
  LET node == NodeAt(s, a)
      ref  == KeyAt(s, node.leaf)
      d    == CheckPrefix(key, ref, confirmed, node.plen)
      nib  == NibbleAt(key, node.plen)
      down == Append(path, Frame(a, nib))
      Found(case, p) == [case |-> case, path |-> p]
      AtLeaf(old) ==
        LET e == FindDivergence(key, old, node.plen + 1)
        IN  IF e = Same THEN Found(Duplicate, path)
            ELSE Found(Parting("SplitLeaf", a, nib, key, old, e), down)
  IN  IF d # Same THEN Found(Parting("SplitNode", a, 0, key, ref, d), path)
      ELSE IF MaxNib(key) = node.plen
           THEN IF Len(key) = Len(ref) THEN Found(Duplicate, path)
                ELSE Found(Case("Terminal", a, 0, 0, TRUE, FALSE, 0, 0), path)
      ELSE IF nib \notin Occupied(node)
           THEN Found(Case("NewLeafChild", a, nib, 0, FALSE, FALSE, 0, 0), path)
      ELSE IF nib \in node.leaves THEN AtLeaf(KeyAt(s, node.kids[nib]))
      ELSE FindInsertCase(s, key, node.kids[nib], node.plen + 1, down)

End == -1      \* the new key is the greatest

\* The leftmost key below the next child after `nib`.
LeftmostAfter(s, a, nib) ==
  LET m == Min(Higher(s, a, nib + 1))
      r == NodeAt(s, a).kids[m]
  IN  IF m \in NodeAt(s, a).leaves THEN r ELSE NodeAt(s, r).leaf

RECURSIVE SubtreeSuccessor(_, _)
SubtreeSuccessor(s, path) ==
  IF path = <<>> THEN End
  ELSE LET f == Last(path)
       IN  IF Higher(s, f.at, f.nib + 1) # {} THEN LeftmostAfter(s, f.at, f.nib)
           ELSE SubtreeSuccessor(s, Front(path))

RightAnchor(s, a, nib, path) ==
  IF Higher(s, a, nib + 1) # {} THEN LeftmostAfter(s, a, nib)
  ELSE SubtreeSuccessor(s, path)

\* compute_p: the position of the successor of the new key.
SuccessorOf(s, c, path) ==
  CASE c.kind = "Terminal" -> NodeAt(s, c.at).leaf
    [] c.kind = "NewLeafChild" -> RightAnchor(s, c.at, c.nib, path)
    [] c.kind = "SplitNode" ->
         IF c.leftmost THEN NodeAt(s, c.at).leaf ELSE SubtreeSuccessor(s, path)
    [] c.kind = "SplitLeaf" ->
         IF c.leftmost THEN NodeAt(s, c.at).kids[c.nib]
         ELSE RightAnchor(s, c.at, c.nib, path)

\* bump_walk: from the stack that stands on `lo`, the references to the
\* keys at lo .. hi go up by one. `w` is the trie and the stack.
BumpLeaf(s, a, lo, hi) ==
  IF NodeAt(s, a).leaf \in lo .. hi THEN SetLeaf(s, a, Ptr(s, NodeAt(s, a).leaf + 1))
  ELSE s

RECURSIVE BumpDescendFirst(_, _, _, _)
BumpDescendFirst(w, a, lo, hi) ==
  LET node == NodeAt(w.s, a)
      nib  == IF node.terminal THEN TerminalNib ELSE Min(Occupied(node))
      next == [s |-> BumpLeaf(w.s, a, lo, hi), stack |-> Append(w.stack, Frame(a, nib))]
  IN  IF node.terminal \/ nib \in node.leaves THEN next
      ELSE BumpDescendFirst(next, node.kids[nib], lo, hi)

BumpPushNext(w, a, from, lo, hi) ==
  LET nib  == Min(Higher(w.s, a, from))
      node == NodeAt(w.s, a)
      next == [w EXCEPT !.stack = Append(@, Frame(a, nib))]
  IN  IF nib \in node.leaves THEN next
      ELSE BumpDescendFirst(next, node.kids[nib], lo, hi)

RECURSIVE BumpAdvance(_, _, _)
BumpAdvance(w, lo, hi) ==
  IF w.stack = <<>> THEN w
  ELSE LET f    == Last(w.stack)
           rest == [w EXCEPT !.stack = Front(@)]
           from == IF f.nib = TerminalNib THEN 0 ELSE f.nib + 1
       IN  IF Higher(w.s, f.at, from) # {} THEN BumpPushNext(rest, f.at, from, lo, hi)
           ELSE BumpAdvance(rest, lo, hi)

RECURSIVE BumpRun(_, _, _, _)
BumpRun(w, left, lo, hi) ==
  LET f    == Last(w.stack)
      kid  == NodeAt(w.s, f.at).kids[f.nib]
      here == IF f.nib = TerminalNib THEN w
              ELSE [w EXCEPT !.s.arena[f.at + 1].kids[f.nib] = Ptr(w.s, kid + 1)]
      next == BumpAdvance(here, lo, hi)
  IN  IF left = 1 \/ next.stack = <<>> THEN here.s ELSE BumpRun(next, left - 1, lo, hi)

BumpWalk(s, stack, lo, hi) ==
  LET touched == FoldLeft(LAMBDA t, f : BumpLeaf(t, f.at, lo, hi), s, stack)
  IN  BumpRun([s |-> touched, stack |-> stack], hi - lo + 1, lo, hi)

\* The run of taken slots from `p` on moves up by one, for `slot` at `p`.
RunEnd(s, p) == Min({i \in p .. Len(s.index) : i = Len(s.index) \/ ~ Taken(s, i)})
ShiftSlots(s, p, e, slot) ==
  [s EXCEPT !.index = SubSeq(@, 1, p) \o <<slot>> \o SubSeq(@, p + 1, e)
                        \o SubSeq(@, e + 2, Len(@))]

\* The leftmost key goes up the spine of lowest children, up to a terminal.
RECURSIVE UpWalkLeftmost(_, _, _)
UpWalkLeftmost(s, p, path) ==
  IF path = <<>> THEN s
  ELSE LET f == Last(path)
           node == NodeAt(s, f.at)
       IN  IF node.terminal \/ f.nib # Min(Occupied(node)) THEN s
           ELSE UpWalkLeftmost(SetLeaf(s, f.at, p), p, Front(path))

ExecTerminal(s, c, p, path) ==
  UpWalkLeftmost([s EXCEPT !.arena[c.at + 1].terminal = TRUE,
                           !.arena[c.at + 1].leaf = p], p, path)

\* With update_leftmost_on_leaf_insert.
ExecNewLeafChild(s, c, p, path) ==
  LET t    == [s EXCEPT !.arena[c.at + 1] = WithKid(@, c.nib, p, TRUE)]
      node == NodeAt(t, c.at)
  IN  IF node.terminal \/ c.nib # Min(Occupied(node)) THEN t
      ELSE UpWalkLeftmost(SetLeaf(t, c.at, p), p, path)

ExecSplitNode(s, c, p, path) ==
  LET old    == NodeAt(s, c.at)
      addr   == Ptr(s, Len(s.arena))
      bare   == Inode(c.d, NoFunction, {}, IF c.leftmost THEN p ELSE old.leaf, c.newEnds)
      keyed  == IF c.newEnds THEN bare ELSE WithKid(bare, c.newNib, p, TRUE)
      parent == WithKid(keyed, c.oldNib, addr, FALSE)
      t == [s EXCEPT !.arena = Append([@ EXCEPT ![c.at + 1] = parent], old)]
  IN  IF c.leftmost THEN UpWalkLeftmost(t, p, path) ELSE t

\* The existing key is read again: the bump may have moved it.
ExecSplitLeaf(s, c, p, path) ==
  LET old   == NodeAt(s, c.at).kids[c.nib]
      addr  == Ptr(s, Len(s.arena))
      bare  == Inode(c.d, NoFunction, {}, IF c.leftmost THEN p ELSE old,
                     c.newEnds \/ c.oldEnds)
      one   == IF c.newEnds THEN bare ELSE WithKid(bare, c.newNib, p, TRUE)
      split == IF ~ c.newEnds /\ c.oldEnds THEN one ELSE WithKid(one, c.oldNib, old, TRUE)
      t == [s EXCEPT !.arena =
              Append([@ EXCEPT ![c.at + 1] = WithKid(@, c.nib, addr, FALSE)], split)]
  IN  IF c.leftmost THEN UpWalkLeftmost(t, p, path) ELSE t

ExecuteCase(s, c, p, path) ==
  CASE c.kind = "Terminal" -> ExecTerminal(s, c, p, path)
    [] c.kind = "NewLeafChild" -> ExecNewLeafChild(s, c, p, path)
    [] c.kind = "SplitNode" -> ExecSplitNode(s, c, p, path)
    [] c.kind = "SplitLeaf" -> ExecSplitLeaf(s, c, p, path)

InsertIntoEmpty(s, slot, key) ==
  LET root == IF key = <<>> THEN Inode(0, NoFunction, {}, 1, TRUE)
              ELSE WithKid(Inode(0, NoFunction, {}, 1, FALSE), NibbleAt(key, 0), 1, TRUE)
  IN  [s EXCEPT !.index = Append(@, slot), !.arena = <<root>>]

\* The slot of the new key is opened before the successor at `p`.
OpenSlot(s, p, slot) ==
  LET e == RunEnd(s, p)
      bumped == IF e > p THEN BumpWalk(s, Seek(s, KeyAt(s, p)), p, e - 1) ELSE s
  IN  ShiftSlots(bumped, p, e, slot)

Full(s) == Len(s.arena) >= s.ptr \/ Len(s.index) >= s.ptr     \* near_capacity

Done(s, ok) == [s |-> s, ok |-> ok]

InsertKey(s, key, val) ==
  LET slot == [off |-> Len(s.buf), len |-> Len(key), val |-> val]
      t    == [s EXCEPT !.buf = @ \o key, !.n = @ + 1]
      f    == FindInsertCase(t, key, 0, 0, <<>>)
      succ == SuccessorOf(t, f.case, f.path)
      p    == IF succ = End THEN Len(t.index) ELSE succ
      open == IF succ = End THEN [t EXCEPT !.index = Append(@, slot)]
              ELSE OpenSlot(t, p, slot)
  IN  IF s.arena = <<>> THEN Done(InsertIntoEmpty(t, slot, key), TRUE)
      ELSE IF f.case = Duplicate
           THEN Done([t EXCEPT !.buf = SubSeq(@, 1, slot.off), !.n = @ - 1], FALSE)
      ELSE Done(ExecuteCase(open, f.case, Ptr(s, p), f.path), TRUE)

\* `spread` is needs_optimize, which depends on the room the allocator gave
\* the vectors.
Insert(s, key, val, spread) ==
  LET t == IF spread /\ 2 * s.n < s.ptr THEN Optimize(s) ELSE s
  IN  IF Full(s) \/ MaxNib(key) > LenMax THEN Done(s, FALSE)
      ELSE IF Full(t) THEN Done(t, FALSE)
      ELSE InsertKey(t, key, val)

\* An insert runs into inode() on a FlatNode, which panics.
Writable(s) == \A a \in DOMAIN s.arena : ~ s.arena[a].flat

\* into_keys_values: the trie is taken apart.
SlotEntries(s, at) == [i \in DOMAIN at |-> <<KeyAt(s, at[i]), SlotAt(s, at[i]).val>>]
IntoKeysValues(s) == SlotEntries(s, CursorOrder(s))

-----------------------------------------------------------------------------
(* The width of the pointers.                                              *)

Promote(s, ptr) == [s EXCEPT !.ptr = ptr]
Demote(s, ptr) ==
  IF Len(s.arena) > ptr \/ Len(s.index) > ptr THEN Done(s, FALSE)
  ELSE Done([s EXCEPT !.ptr = ptr], TRUE)

\* demote of a node: whether all it points to is within the reach of `ptr`.
InodeFits(node, ptr) == node.leaf <= ptr /\ \A m \in Occupied(node) : node.kids[m] <= ptr
FlatFits(node, ptr) == node.base <= ptr
NodeFits(node, ptr) == IF node.flat THEN FlatFits(node, ptr) ELSE InodeFits(node, ptr)

-----------------------------------------------------------------------------
(* What the walks rely on. A subtree stands for a run of the index that    *)
(* starts at its `leaf`; its keys agree on the nibbles before the prefix   *)
(* length, and part there.                                                 *)

RECURSIVE PositionsBelow(_, _)
PositionsBelow(s, a) ==
  LET node == NodeAt(s, a)
  IN  IF node.flat THEN {PosKey(node, i) : i \in TerminalPos(node)}
      ELSE {node.kids[m] : m \in node.leaves}
             \union (IF node.terminal THEN {node.leaf} ELSE {})
             \union UNION {PositionsBelow(s, node.kids[m]) : m \in Occupied(node) \ node.leaves}

KidPositions(s, node, m) ==
  IF m \in node.leaves THEN {node.kids[m]} ELSE PositionsBelow(s, node.kids[m])

NodeSound(s, a) ==
  LET node == NodeAt(s, a)
      below == PositionsBelow(s, a)
      ref == KeyAt(s, Min(below))
  IN  /\ below # {}
      /\ IF node.flat THEN Min(below) = node.base \/ ~ node.terminal
         ELSE /\ node.leaf = Min(below)
              /\ node.terminal => MaxNib(ref) = node.plen
              /\ \A p \in below : Differ(KeyAt(s, p), ref, 0, node.plen) = {}
              /\ \A m \in Occupied(node) : \A p \in KidPositions(s, node, m) :
                   MaxNib(KeyAt(s, p)) > node.plen /\ NibbleAt(KeyAt(s, p), node.plen) = m

\* Every key hangs in the tree, and nothing else does.
Sound(s) ==
  /\ \A a \in 0 .. Len(s.arena) - 1 : NodeSound(s, a)
  /\ s.n = Cardinality(TakenIn(s, 0, Len(s.index) - 1))
  /\ s.arena # <<>> => PositionsBelow(s, 0) = TakenIn(s, 0, Len(s.index) - 1)
  /\ Len(s.arena) <= s.ptr /\ Len(s.index) <= s.ptr
     \* the narrowest demote that the lengths allow expects every node to fit
  /\ \A a \in 0 .. Len(s.arena) - 1 :
       NodeFits(NodeAt(s, a), Max({Len(s.arena), Len(s.index)}))
=============================================================================
