------------------------------ MODULE FixedTrie ------------------------------
(***************************************************************************)
(* The nibble trie whose keys lie in slots of one length                   *)
(* (crates/tiny-trie/src/fixed_len_nibble_trie.rs), as functions on a      *)
(* record                                                                  *)
(*                                                                         *)
(*   arena   the nodes, the root first; an address counts from 0           *)
(*   buf     one slot of maxLen bytes per key, zeros behind the key        *)
(*   lens    the lengths of the keys                                       *)
(*   values  the values; a key index counts from 0                         *)
(*   ptr     PTR::max_value(), which marks an empty child                  *)
(*   maxLen  the greatest length of a key                                  *)
(*                                                                         *)
(* A node has `kids`, from the occupied nibbles to an address or, for      *)
(* those in `leaves`, to a key index; its `leaf` is the index of some key  *)
(* below.                                                                  *)
(***************************************************************************)
EXTENDS ByteKeys, FiniteSetsExt, SequencesExt

-----------------------------------------------------------------------------
(* Keys as nibbles.                                                        *)

MaxNib(key) == 2 * Len(key)
NibbleAt(key, i) ==
  IF i \div 2 >= Len(key) THEN 0
  ELSE IF i % 2 = 0 THEN key[i \div 2 + 1] \div 16 ELSE key[i \div 2 + 1] % 16

\* The comparison starts at the byte of `from`, or where the nibbles of the
\* shorter key end.
Same == -1
FindDivergence(a, b, from) ==
  LET end == Min({MaxNib(a), MaxNib(b)})
      d   == {i \in 2 * (from \div 2) .. end - 1 : NibbleAt(a, i) # NibbleAt(b, i)}
  IN  IF d # {} THEN Min(d)
      ELSE IF Len(a) = Len(b) THEN Same ELSE Max({end, 2 * (from \div 2)})

-----------------------------------------------------------------------------
(* Nodes and slots.                                                        *)

NewTrie(ptr, maxLen) ==
  [arena |-> <<>>, buf |-> <<>>, lens |-> <<>>, values |-> <<>>, ptr |-> ptr,
   maxLen |-> maxLen]
Node(plen, leaf, terminal) ==
  [plen |-> plen, kids |-> [m \in {} |-> 0], leaves |-> {}, leaf |-> leaf,
   terminal |-> terminal]

NodeAt(s, a) == s.arena[a + 1]
Ptr(s, i) == i % (s.ptr + 1)
Occupied(node) == DOMAIN node.kids
WithLeafChild(node, nib, ki) ==
  [node EXCEPT !.kids = (nib :> ki) @@ @, !.leaves = @ \union {nib}]
WithInternalChild(node, nib, a) ==
  [node EXCEPT !.kids = (nib :> a) @@ @, !.leaves = @ \ {nib}]

Slot(s, ki) == SubSeq(s.buf, ki * s.maxLen + 1, (ki + 1) * s.maxLen)
KeyAt(s, ki) == SubSeq(Slot(s, ki), 1, s.lens[ki + 1])
Full(s) == Len(s.arena) >= s.ptr \/ Len(s.values) + 1 >= s.ptr   \* near_capacity

-----------------------------------------------------------------------------
(* Lookup.                                                                 *)

NoIndex == -1
Whole(s, ki, key) == IF KeyAt(s, ki) = key THEN ki ELSE NoIndex    \* key_matches

RECURSIVE GetFrom(_, _, _)
GetFrom(s, key, a) ==
  LET node == NodeAt(s, a)
      nib  == NibbleAt(key, node.plen)
  IN  IF node.plen >= MaxNib(key)
      THEN IF node.terminal THEN Whole(s, node.leaf, key) ELSE NoIndex
      ELSE IF nib \notin Occupied(node) THEN NoIndex
      ELSE IF nib \in node.leaves THEN Whole(s, node.kids[nib], key)
      ELSE GetFrom(s, key, node.kids[nib])
GetIndex(s, key) ==
  IF Len(key) > s.maxLen \/ s.arena = <<>> THEN NoIndex ELSE GetFrom(s, key, 0)
SetValue(s, ki, val) == [s EXCEPT !.values[ki + 1] = val]      \* get_mut

-----------------------------------------------------------------------------
(* Insertion.                                                              *)

Done(s, ok) == [s |-> s, ok |-> ok]

Pushed(s, key, val) ==
  [s EXCEPT !.buf = @ \o key \o [i \in 1 .. s.maxLen - Len(key) |-> 0],
            !.values = Append(@, val), !.lens = Append(@, Len(key))]
Rollback(s) ==
  [s EXCEPT !.buf = SubSeq(@, 1, Len(@) - s.maxLen), !.values = Front(@),
            !.lens = Front(@)]

InsertIntoEmpty(s, key, ki) ==
  [s EXCEPT !.arena =
     <<IF key = <<>> THEN Node(0, ki, TRUE)
       ELSE WithLeafChild(Node(0, ki, FALSE), NibbleAt(key, 0), ki)>>]

\* swap_arena: two nodes change places, and so do the references to them.
SwapArena(s, x, y) ==
  LET moved == [s.arena EXCEPT ![x + 1] = NodeAt(s, y), ![y + 1] = NodeAt(s, x)]
      To(c) == IF c = x THEN y ELSE IF c = y THEN x ELSE c
      Renamed(node) ==
        [node EXCEPT !.kids = [m \in Occupied(node) |->
           IF m \in node.leaves THEN node.kids[m] ELSE To(node.kids[m])]]
      Next(arena, node) == Append(arena, Renamed(node))
  IN  IF x = y THEN s ELSE [s EXCEPT !.arena = FoldLeft(Next, <<>>, moved)]

\* sort_internal_children: the newest child is passed down the later ones.
SortInternalChildren(s, a) ==
  LET node == NodeAt(s, a)
      nibs == Ascending(Occupied(node) \ node.leaves)
      ids  == [i \in 1 .. Len(nibs) |-> node.kids[nibs[i]]]
      pos  == CHOOSE i \in 1 .. Len(ids) : \A j \in 1 .. Len(ids) : ids[j] <= ids[i]
      \* After each swap the greatest address stands one place further on.
      Pass(x, i) == SwapArena(x, ids[pos], ids[i])
  IN  IF Len(ids) <= 1 THEN s
      ELSE FoldLeft(Pass, s, [i \in 1 .. Len(ids) - pos |-> pos + i])

SplitNode(s, a, d, key, ki) ==
  LET old    == NodeAt(s, a)
      ends   == d >= MaxNib(key)
      bare   == Node(d, ki, ends)
      keyed  == IF ends THEN bare ELSE WithLeafChild(bare, NibbleAt(key, d), ki)
      parent == WithInternalChild(keyed, NibbleAt(KeyAt(s, old.leaf), d), Ptr(s, Len(s.arena)))
  IN  SortInternalChildren(
        [s EXCEPT !.arena = Append([@ EXCEPT ![a + 1] = parent], old)], a)

SplitLeafChild(s, a, nib, key, ki) ==
  LET oldKi   == NodeAt(s, a).kids[nib]
      old     == KeyAt(s, oldKi)
      d       == FindDivergence(key, old, NodeAt(s, a).plen + 1)
      newEnds == d >= MaxNib(key)
      oldEnds == ~ newEnds /\ d >= MaxNib(old)
      bare    == Node(d, IF newEnds THEN ki ELSE oldKi, newEnds \/ oldEnds)
      one     == IF newEnds THEN bare ELSE WithLeafChild(bare, NibbleAt(key, d), ki)
      split   == IF oldEnds THEN one ELSE WithLeafChild(one, NibbleAt(old, d), oldKi)
      t == [s EXCEPT !.arena =
              Append([@ EXCEPT ![a + 1] = WithInternalChild(@, nib, Ptr(s, Len(s.arena)))],
                     split)]
  IN  IF d = Same THEN Done(Rollback(s), FALSE) ELSE Done(SortInternalChildren(t, a), TRUE)

RECURSIVE InsertFrom(_, _, _, _, _)
InsertFrom(s, key, ki, a, confirmed) ==
  LET node == NodeAt(s, a)
      d    == FindDivergence(key, KeyAt(s, node.leaf), confirmed)
      nib  == NibbleAt(key, node.plen)
  IN  IF d = Same THEN Done(Rollback(s), FALSE)
      ELSE IF d < node.plen THEN Done(SplitNode(s, a, d, key, ki), TRUE)
      ELSE IF MaxNib(key) <= node.plen
           THEN Done([s EXCEPT !.arena[a + 1] =
                        [@ EXCEPT !.terminal = TRUE, !.leaf = ki]], TRUE)
      ELSE IF nib \notin Occupied(node)
           THEN Done([s EXCEPT !.arena[a + 1] = WithLeafChild(@, nib, ki)], TRUE)
      ELSE IF nib \in node.leaves THEN SplitLeafChild(s, a, nib, key, ki)
      ELSE InsertFrom(s, key, ki, node.kids[nib], node.plen + 1)

Insert(s, key, val) ==
  LET t  == Pushed(s, key, val)
      ki == Ptr(s, Len(s.values))
  IN  IF Len(key) > s.maxLen \/ Full(s) THEN Done(s, FALSE)
      ELSE IF s.arena = <<>> THEN Done(InsertIntoEmpty(t, key, ki), TRUE)
      ELSE InsertFrom(t, key, ki, 0, 0)

-----------------------------------------------------------------------------
(* optimize: keys and values in the order of the tree.                     *)

RECURSIVE WalkOptimize(_, _, _)
WalkOptimize(s, order, a) ==
  LET node == NodeAt(s, a)
      Visit(x, nib) ==
        IF nib \in node.leaves THEN Append(x, node.kids[nib])
        ELSE WalkOptimize(s, x, node.kids[nib])
  IN  FoldLeft(Visit, IF node.terminal THEN Append(order, node.leaf) ELSE order,
               Ascending(Occupied(node)))

Optimize(s) ==
  LET order == WalkOptimize(s, <<>>, 0)
      rank == [ki \in Range(order) |-> (CHOOSE i \in DOMAIN order : order[i] = ki) - 1]
      Renamed(node) ==
        [node EXCEPT !.leaf = Ptr(s, rank[@]),
                     !.kids = [m \in Occupied(node) |->
                       IF m \in node.leaves THEN Ptr(s, rank[node.kids[m]])
                       ELSE node.kids[m]]]
      Node2(arena, node) == Append(arena, Renamed(node))
      Bytes(buf, ki) == buf \o Slot(s, ki)
      Length(lens, ki) == Append(lens, s.lens[ki + 1])
      Value(values, ki) == Append(values, s.values[ki + 1])
  IN  IF s.arena = <<>> THEN s
      ELSE [s EXCEPT !.arena = FoldLeft(Node2, <<>>, @),
                     !.buf = FoldLeft(Bytes, <<>>, order),
                     !.lens = FoldLeft(Length, <<>>, order),
                     !.values = FoldLeft(Value, <<>>, order)]

\* insert_auto, with maybe_optimize.
InsertAuto(s, key, val) ==
  LET r == Insert(s, key, val)
      n == Len(r.s.values)
  IN  IF r.ok /\ \E e \in 0 .. n : n = 2^e THEN Done(Optimize(r.s), TRUE) ELSE r

-----------------------------------------------------------------------------
(* The cursor: a stack of an address and the nibble gone down.             *)

TerminalNib == 16
Parked == -1
Frame(a, nib) == [at |-> a, nib |-> nib]
Higher(s, a, nib) == {m \in Occupied(NodeAt(s, a)) : m >= nib}
Lower(s, a, nib) == {m \in Occupied(NodeAt(s, a)) : m < nib}

Start(s) ==
  IF s.arena = <<>> THEN <<>>
  ELSE <<Frame(0, IF NodeAt(s, 0).terminal THEN TerminalNib ELSE Parked)>>

CurrentIndex(s, stack) ==
  IF stack = <<>> THEN NoIndex
  ELSE LET f == Last(stack)
           node == NodeAt(s, f.at)
       IN  IF f.nib = TerminalNib THEN node.leaf
           ELSE IF f.nib \in node.leaves THEN node.kids[f.nib] ELSE NoIndex

RECURSIVE DescendFirst(_, _, _)
DescendFirst(s, stack, a) ==
  LET node == NodeAt(s, a)
      nib  == IF node.terminal THEN TerminalNib ELSE Min(Occupied(node))
      next == Append(stack, Frame(a, nib))
  IN  IF node.terminal \/ nib \in node.leaves THEN next
      ELSE DescendFirst(s, next, node.kids[nib])

\* With new_last, which descends from the root.
RECURSIVE DescendLast(_, _, _)
DescendLast(s, stack, a) ==
  LET node == NodeAt(s, a)
      nib  == IF Occupied(node) = {} THEN TerminalNib ELSE Max(Occupied(node))
      next == Append(stack, Frame(a, nib))
  IN  IF nib = TerminalNib THEN IF node.terminal THEN next ELSE stack
      ELSE IF nib \in node.leaves THEN next
      ELSE DescendLast(s, next, node.kids[nib])
End(s) == IF s.arena = <<>> THEN <<>> ELSE DescendLast(s, <<>>, 0)

\* A mutant: the next child is gone down to its first child, past the key
\* that ends there.
PushNextChildPast(s, stack, a, from) ==
  LET node == NodeAt(s, a)
      nib  == Min(Higher(s, a, from))
      next == Append(stack, Frame(a, nib))
      kid  == NodeAt(s, node.kids[nib])
  IN  IF nib \in node.leaves THEN next
      ELSE IF kid.terminal /\ Min(Occupied(kid)) \in kid.leaves
           THEN Append(next, Frame(node.kids[nib], Min(Occupied(kid))))
      ELSE DescendFirst(s, next, node.kids[nib])

PushNextChild(s, stack, a, from) ==
  LET node == NodeAt(s, a)
      nib  == Min(Higher(s, a, from))
      next == Append(stack, Frame(a, nib))
  IN  IF nib \in node.leaves THEN next ELSE DescendFirst(s, next, node.kids[nib])

RECURSIVE AdvanceNext(_, _)
AdvanceNext(s, stack) ==
  IF stack = <<>> THEN <<>>
  ELSE LET f    == Last(stack)
           from == IF f.nib = TerminalNib THEN 0 ELSE f.nib + 1
       IN  IF Higher(s, f.at, from) # {} THEN PushNextChild(s, Front(stack), f.at, from)
           ELSE AdvanceNext(s, Front(stack))

RECURSIVE AdvancePrev(_, _)
AdvancePrev(s, stack) ==
  IF stack = <<>> THEN <<>>
  ELSE LET f    == Last(stack)
           rest == Front(stack)
           node == NodeAt(s, f.at)
           nib  == Max(Lower(s, f.at, f.nib))
           next == Append(rest, Frame(f.at, nib))
       IN  IF f.nib = TerminalNib THEN AdvancePrev(s, rest)
           ELSE IF Lower(s, f.at, f.nib) # {}
                THEN IF nib \in node.leaves THEN next
                     ELSE DescendLast(s, next, node.kids[nib])
           ELSE IF node.terminal THEN Append(rest, Frame(f.at, TerminalNib))
           ELSE AdvancePrev(s, rest)

RECURSIVE BacktrackToNext(_, _)
BacktrackToNext(s, stack) ==
  IF stack = <<>> THEN <<>>
  ELSE LET f == Last(stack)
       IN  IF Higher(s, f.at, f.nib + 1) # {}
           THEN PushNextChild(s, Front(stack), f.at, f.nib + 1)
           ELSE BacktrackToNext(s, Front(stack))

\* The nibbles between two nodes are not compared.
RECURSIVE SeekFrom(_, _, _, _)
SeekFrom(s, key, a, stack) ==
  LET node == NodeAt(s, a)
      nib  == NibbleAt(key, node.plen)
      next == Append(stack, Frame(a, nib))
      NextChild(from) ==
        IF Higher(s, a, from) # {} THEN PushNextChild(s, stack, a, from)
        ELSE BacktrackToNext(s, stack)
  IN  IF node.plen >= MaxNib(key)
      THEN IF node.terminal /\ ~ KeyLess(KeyAt(s, node.leaf), key)
           THEN Append(stack, Frame(a, TerminalNib))
           ELSE NextChild(0)
      ELSE IF nib \notin Occupied(node) THEN NextChild(nib + 1)
      ELSE IF nib \in node.leaves
           THEN IF KeyLess(KeyAt(s, node.kids[nib]), key) THEN AdvanceNext(s, next)
                ELSE next
      ELSE SeekFrom(s, key, node.kids[nib], next)
Seek(s, key) == IF s.arena = <<>> THEN <<>> ELSE SeekFrom(s, key, 0, <<>>)

-----------------------------------------------------------------------------
(* What the walks rely on. The keys below a node agree on the nibbles      *)
(* before its prefix length, and part there; `leaf` is one of them.        *)

RECURSIVE KeysBelow(_, _)
KeysBelow(s, a) ==
  LET node == NodeAt(s, a)
  IN  {node.kids[m] : m \in node.leaves}
        \union (IF node.terminal THEN {node.leaf} ELSE {})
        \union UNION {KeysBelow(s, node.kids[m]) : m \in Occupied(node) \ node.leaves}
KidKeys(s, node, m) ==
  IF m \in node.leaves THEN {node.kids[m]} ELSE KeysBelow(s, node.kids[m])

NodeSound(s, a) ==
  LET node == NodeAt(s, a)
      ref == KeyAt(s, node.leaf)
      Agree(key) == \A i \in 0 .. node.plen - 1 : NibbleAt(key, i) = NibbleAt(ref, i)
  IN  /\ node.leaf \in KeysBelow(s, a)
      /\ node.terminal => MaxNib(ref) = node.plen
      /\ \A ki \in KeysBelow(s, a) : Agree(KeyAt(s, ki))
      /\ \A m \in Occupied(node) : \A ki \in KidKeys(s, node, m) :
           MaxNib(KeyAt(s, ki)) > node.plen /\ NibbleAt(KeyAt(s, ki), node.plen) = m

\* Every key of the store hangs in the tree, and nothing else does.
Sound(s) ==
  /\ \A a \in 0 .. Len(s.arena) - 1 : NodeSound(s, a)
  /\ s.arena # <<>> => KeysBelow(s, 0) = 0 .. Len(s.values) - 1
  /\ Len(s.arena) <= s.ptr /\ Len(s.values) < s.ptr
=============================================================================
