------------------------------- MODULE NibTrie -------------------------------
(***************************************************************************)
(* The trie of two-bit nibs (crates/tiny-trie/src/nib_trie.rs), as         *)
(* functions on a record                                                   *)
(*                                                                         *)
(*   arena   the nodes, the root first; an address counts from 0           *)
(*   buf     the bytes of the keys, one dummy byte in front                *)
(*   index   where each key lies in buf, in the order of insertion; entry  *)
(*           0 is a dummy                                                  *)
(*   values  the value of key index i is the i-th                          *)
(*   ptr     PTR::max_value(), which marks an empty child                  *)
(*                                                                         *)
(* A node has `kids`, from the occupied nibs to an address or, for those   *)
(* in `leaves`, to a key index; its `leaf` is the index of some key below. *)
(***************************************************************************)
EXTENDS ByteKeys, FiniteSetsExt, SequencesExt

CONSTANT LenMax       \* LEN::max_value()

-----------------------------------------------------------------------------
(* Keys as nibs: four to the byte, the high bits first.                    *)

MaxNib(key) == 4 * Len(key)
NibAt(key, i) ==
  IF i \div 4 >= Len(key) THEN 0 ELSE (key[i \div 4 + 1] \div (4^(3 - (i % 4)))) % 4

Differ(a, b, from, to) == {i \in from .. to - 1 : NibAt(a, i) # NibAt(b, i)}

Same == -1
CheckPrefix(a, b, from, to) ==
  LET d == Differ(a, b, 4 * (from \div 4), to)
  IN  IF from >= to \/ d = {} THEN Same ELSE Min(d)
FindDivergence(a, b, from) ==
  LET end == Min({MaxNib(a), MaxNib(b)})
      d   == Differ(a, b, 4 * (from \div 4), end)
  IN  IF d # {} THEN Min(d) ELSE IF Len(a) = Len(b) THEN Same ELSE end

-----------------------------------------------------------------------------
(* Nodes and keys.                                                         *)

NewTrie(ptr) ==
  [arena |-> <<>>, buf |-> <<0>>, index |-> <<[off |-> 0, len |-> 0]>>,
   values |-> <<>>, ptr |-> ptr]
Node(plen, leaf, terminal) ==
  [plen |-> plen, kids |-> [m \in {} |-> 0], leaves |-> {}, leaf |-> leaf,
   terminal |-> terminal]

Ptr(s, i) == i % (s.ptr + 1)
NodeAt(s, a) == s.arena[a + 1]
Occupied(node) == DOMAIN node.kids
Child(s, node, nib) == IF nib \in Occupied(node) THEN node.kids[nib] ELSE s.ptr
WithLeafChild(node, nib, ki) ==
  [node EXCEPT !.kids = (nib :> ki) @@ @, !.leaves = @ \union {nib}]
WithInternalChild(node, nib, a) ==
  [node EXCEPT !.kids = (nib :> a) @@ @, !.leaves = @ \ {nib}]

KeyAt(s, ki) ==
  SubSeq(s.buf, s.index[ki + 1].off + 1, s.index[ki + 1].off + s.index[ki + 1].len)
Count(s) == Len(s.index) - 1

\* into_keys_values: in the order of insertion, or of the last optimize.
IntoKeysValues(s) == [i \in DOMAIN s.values |-> <<KeyAt(s, i), s.values[i]>>]

Full(s) == Len(s.arena) >= s.ptr \/ Len(s.index) >= s.ptr      \* near_capacity

-----------------------------------------------------------------------------
(* Lookup.                                                                 *)

NoIndex == 0
Whole(s, ki, key) == IF KeyAt(s, ki) = key THEN ki ELSE NoIndex

RECURSIVE GetFrom(_, _, _)
GetFrom(s, key, a) ==
  LET node == NodeAt(s, a)
      nib  == NibAt(key, node.plen)
      kid  == Child(s, node, nib)
  IN  IF node.plen >= MaxNib(key)
      THEN IF node.terminal THEN Whole(s, node.leaf, key) ELSE NoIndex
      ELSE IF kid = s.ptr THEN NoIndex
      ELSE IF nib \in node.leaves THEN Whole(s, kid, key)
      ELSE GetFrom(s, key, kid)
GetIndex(s, key) == IF s.arena = <<>> THEN NoIndex ELSE GetFrom(s, key, 0)

-----------------------------------------------------------------------------
(* Insertion: the key and the value are pushed first, and taken out again  *)
(* when the key turns out to be there.                                     *)

Done(s, ok) == [s |-> s, ok |-> ok]

RollbackLastInsert(s) ==
  [s EXCEPT !.index = Front(@), !.values = Front(@),
            !.buf = SubSeq(@, 1, Last(s.index).off)]

InsertIntoEmptyTrie(s, key, ki) ==
  [s EXCEPT !.arena =
     <<IF key = <<>> THEN Node(0, ki, TRUE)
       ELSE WithLeafChild(Node(0, ki, FALSE), NibAt(key, 0), ki)>>]

SplitNodeBeforePrefix(s, a, d, ki, key) ==
  LET old    == NodeAt(s, a)
      ends   == d >= MaxNib(key)
      bare   == Node(d, ki, ends)
      parent == IF ends THEN bare ELSE WithLeafChild(bare, NibAt(key, d), ki)
      refNib == NibAt(KeyAt(s, old.leaf), d)
  IN  [s EXCEPT !.arena =
         Append([@ EXCEPT ![a + 1] =
                   WithInternalChild(parent, refNib, Ptr(s, Len(s.arena)))], old)]

SplitLeafChild(s, a, nib, ki, key) ==
  LET oldKi   == NodeAt(s, a).kids[nib]
      old     == KeyAt(s, oldKi)
      d       == FindDivergence(key, old, NodeAt(s, a).plen + 1)
      newEnds == d >= MaxNib(key)
      oldEnds == ~ newEnds /\ d >= MaxNib(old)
      bare    == Node(d, IF newEnds THEN ki ELSE oldKi, newEnds \/ oldEnds)
      one     == IF newEnds THEN bare ELSE WithLeafChild(bare, NibAt(key, d), ki)
      split   == IF oldEnds THEN one ELSE WithLeafChild(one, NibAt(old, d), oldKi)
  IN  IF d = Same THEN Done(RollbackLastInsert(s), FALSE)
      ELSE Done([s EXCEPT !.arena =
             Append([@ EXCEPT ![a + 1] = WithInternalChild(@, nib, Ptr(s, Len(s.arena)))],
                    split)], TRUE)

RECURSIVE InsertFrom(_, _, _, _, _)
InsertFrom(s, key, ki, a, confirmed) ==
  LET node == NodeAt(s, a)
      ref  == KeyAt(s, node.leaf)
      d    == CheckPrefix(key, ref, confirmed, node.plen)
      nib  == NibAt(key, node.plen)
  IN  IF d # Same THEN Done(SplitNodeBeforePrefix(s, a, d, ki, key), TRUE)
      ELSE IF MaxNib(key) = node.plen
           THEN IF Len(key) = Len(ref) THEN Done(RollbackLastInsert(s), FALSE)
                ELSE Done([s EXCEPT !.arena[a + 1] =
                             [@ EXCEPT !.terminal = TRUE, !.leaf = ki]], TRUE)
      ELSE IF nib \notin Occupied(node)
           THEN Done([s EXCEPT !.arena[a + 1] = WithLeafChild(@, nib, ki)], TRUE)
      ELSE IF nib \in node.leaves THEN SplitLeafChild(s, a, nib, ki, key)
      ELSE InsertFrom(s, key, ki, node.kids[nib], node.plen + 1)

Insert(s, key, val) ==
  LET ki == Ptr(s, Len(s.index))
      t  == [s EXCEPT !.buf = @ \o key, !.values = Append(@, val),
                      !.index = Append(@, [off |-> Len(s.buf), len |-> Len(key)])]
  IN  IF Full(s) \/ MaxNib(key) > LenMax THEN Done(s, FALSE)
      ELSE IF s.arena = <<>> THEN Done(InsertIntoEmptyTrie(t, key, ki), TRUE)
      ELSE InsertFrom(t, key, ki, 0, 0)

-----------------------------------------------------------------------------
(* optimize: nodes, keys and values in the order of the tree.              *)

\* `w` is the walk: the new nodes, which still hold old addresses and key
\* indices; where each old node went; the new buf; the order of the keys.
CopyKey(s, w, ki) ==
  [w EXCEPT !.buf = @ \o KeyAt(s, ki), !.order = Append(@, ki),
            !.index[ki + 1].off = Len(w.buf)]

RECURSIVE WalkOptimize(_, _, _)
WalkOptimize(s, w, a) ==
  LET node == NodeAt(s, a)
      here == Len(w.arena)
      w0   == [w EXCEPT !.arena = Append(@, node), !.remap = (a :> here) @@ @]
      w1   == IF node.terminal THEN CopyKey(s, w0, node.leaf) ELSE w0
      Visit(x, nib) ==
        IF nib \in node.leaves THEN CopyKey(s, x, node.kids[nib])
        ELSE WalkOptimize(s, x, node.kids[nib])
      w2   == FoldLeft(Visit, w1, Ascending(Occupied(node)))
      m    == Min(Occupied(node))
      leaf == IF node.terminal THEN node.leaf
              ELSE IF m \in node.leaves THEN node.kids[m]
              ELSE w2.arena[w2.remap[node.kids[m]] + 1].leaf
  IN  [w2 EXCEPT !.arena[here + 1].leaf = leaf]

Remapped(node, remap, rank) ==
  [node EXCEPT !.leaf = rank[node.leaf],
               !.kids = [m \in Occupied(node) |->
                           IF m \in node.leaves THEN rank[node.kids[m]]
                           ELSE remap[node.kids[m]]]]

Optimize(s) ==
  IF s.arena = <<>> THEN s
  ELSE LET w == WalkOptimize(s, [arena |-> <<>>, remap |-> [x \in {} |-> 0],
                                 buf |-> <<0>>, index |-> s.index, order |-> <<>>], 0)
           rank == [ki \in Range(w.order) |-> CHOOSE i \in DOMAIN w.order : w.order[i] = ki]
           Node2(t, node) == Append(t, Remapped(node, w.remap, rank))
           Entry(t, ki) == Append(t, w.index[ki + 1])
           Value(t, ki) == Append(t, s.values[ki])
       IN  [s EXCEPT !.buf = w.buf,
                     !.arena = FoldLeft(Node2, <<>>, w.arena),
                     !.index = FoldLeft(Entry, <<s.index[1]>>, w.order),
                     !.values = FoldLeft(Value, <<>>, w.order)]

-----------------------------------------------------------------------------
(* The cursor: a stack of an address and the nib gone down.                *)

TerminalNib == 4
Parked == -1
Frame(a, nib) == [at |-> a, nib |-> nib]
Higher(s, a, nib) == {m \in Occupied(NodeAt(s, a)) : m >= nib}
Lower(s, a, nib) == {m \in Occupied(NodeAt(s, a)) : m < nib}

Start(s) ==
  IF s.arena = <<>> THEN <<>>
  ELSE <<Frame(0, IF NodeAt(s, 0).terminal THEN TerminalNib ELSE Parked)>>

CurrentIndex(s, stack) ==
  IF stack = <<>> THEN NoIndex
  ELSE LET f == Last(stack)
           node == NodeAt(s, f.at)
       IN  IF f.nib = TerminalNib THEN node.leaf
           ELSE IF f.nib \in node.leaves THEN node.kids[f.nib] ELSE NoIndex

RECURSIVE DescendFirst(_, _, _)
DescendFirst(s, stack, a) ==
  LET node == NodeAt(s, a)
      nib  == IF node.terminal THEN TerminalNib ELSE Min(Occupied(node))
      next == Append(stack, Frame(a, nib))
  IN  IF node.terminal \/ nib \in node.leaves THEN next
      ELSE DescendFirst(s, next, node.kids[nib])

\* With new_last, which descends from the root.
RECURSIVE DescendLast(_, _, _)
DescendLast(s, stack, a) ==
  LET node == NodeAt(s, a)
      nib  == IF Occupied(node) = {} THEN TerminalNib ELSE Max(Occupied(node))
      next == Append(stack, Frame(a, nib))
  IN  IF nib = TerminalNib THEN IF node.terminal THEN next ELSE stack
      ELSE IF nib \in node.leaves THEN next
      ELSE DescendLast(s, next, node.kids[nib])

End(s) == IF s.arena = <<>> THEN <<>> ELSE DescendLast(s, <<>>, 0)

PushNextChild(s, stack, a, from) ==
  LET nib  == Min(Higher(s, a, from))
      node == NodeAt(s, a)
      next == Append(stack, Frame(a, nib))
  IN  IF nib \in node.leaves THEN next ELSE DescendFirst(s, next, node.kids[nib])

RECURSIVE AdvanceNext(_, _)
AdvanceNext(s, stack) ==
  IF stack = <<>> THEN <<>>
  ELSE LET f    == Last(stack)
           from == IF f.nib = TerminalNib THEN 0 ELSE f.nib + 1
       IN  IF Higher(s, f.at, from) # {} THEN PushNextChild(s, Front(stack), f.at, from)
           ELSE AdvanceNext(s, Front(stack))

RECURSIVE AdvancePrev(_, _)
AdvancePrev(s, stack) ==
  IF stack = <<>> THEN <<>>
  ELSE LET f    == Last(stack)
           rest == Front(stack)
           node == NodeAt(s, f.at)
           nib  == Max(Lower(s, f.at, f.nib))
           next == Append(rest, Frame(f.at, nib))
       IN  IF f.nib = TerminalNib THEN AdvancePrev(s, rest)
           ELSE IF Lower(s, f.at, f.nib) # {}
                THEN IF nib \in node.leaves THEN next
                     ELSE DescendLast(s, next, node.kids[nib])
           ELSE IF node.terminal THEN Append(rest, Frame(f.at, TerminalNib))
           ELSE AdvancePrev(s, rest)

\* The stack is popped until a frame has a next child.
RECURSIVE BacktrackToNext(_, _)
BacktrackToNext(s, stack) ==
  IF stack = <<>> THEN <<>>
  ELSE LET f == Last(stack)
       IN  IF Higher(s, f.at, f.nib + 1) # {}
           THEN PushNextChild(s, Front(stack), f.at, f.nib + 1)
           ELSE BacktrackToNext(s, Front(stack))

\* The nibs between two nodes are not compared.
RECURSIVE SeekFrom(_, _, _, _)
SeekFrom(s, key, a, stack) ==
  LET node == NodeAt(s, a)
      nib  == NibAt(key, node.plen)
      next == Append(stack, Frame(a, nib))
      NextChild(from) ==
        IF Higher(s, a, from) # {} THEN PushNextChild(s, stack, a, from)
        ELSE BacktrackToNext(s, stack)
  IN  IF node.plen >= MaxNib(key)
      THEN IF node.terminal /\ ~ KeyLess(KeyAt(s, node.leaf), key)
           THEN Append(stack, Frame(a, TerminalNib))
           ELSE NextChild(0)
      ELSE IF nib \notin Occupied(node) THEN NextChild(nib + 1)
      ELSE IF nib \in node.leaves
           THEN IF KeyLess(KeyAt(s, node.kids[nib]), key) THEN AdvanceNext(s, next)
                ELSE next
      ELSE SeekFrom(s, key, node.kids[nib], next)
Seek(s, key) == IF s.arena = <<>> THEN <<>> ELSE SeekFrom(s, key, 0, <<>>)

-----------------------------------------------------------------------------
(* The mutable cursor has a walk of its own, which is the same; it begins  *)
(* on the first key or on the last one.                                    *)

SetValue(s, ki, val) == [s EXCEPT !.values[ki] = val]
MutOnward(s, stack) == AdvanceNext(s, stack)
MutBackward(s, stack) == AdvancePrev(s, stack)
MutFirst(s) ==
  IF s.arena = <<>> \/ (s.arena # <<>> /\ NodeAt(s, 0).terminal) THEN Start(s)
  ELSE MutOnward(s, Start(s))
MutLast(s) == End(s)
MutSeek(s, key) == Seek(s, key)
MutAt(s, stack) == CurrentIndex(s, stack)

-----------------------------------------------------------------------------
(* The width of the pointers.                                              *)

Promote(s, ptr) == [s EXCEPT !.ptr = ptr]

Fits(node, ptr) == node.leaf <= ptr /\ \A m \in Occupied(node) : node.kids[m] <= ptr
Demote(s, ptr) ==
  IF Len(s.arena) > ptr \/ Len(s.index) > ptr
       \/ \E a \in DOMAIN s.arena : ~ Fits(s.arena[a], ptr)
  THEN Done(s, FALSE)
  ELSE Done([s EXCEPT !.ptr = ptr], TRUE)

-----------------------------------------------------------------------------
(* What the walks rely on. The keys below a node agree on the nibs before  *)
(* its prefix length, and part there; `leaf` is one of them.               *)

RECURSIVE KeysBelow(_, _)
KeysBelow(s, a) ==
  LET node == NodeAt(s, a)
  IN  {node.kids[m] : m \in node.leaves}
        \union (IF node.terminal THEN {node.leaf} ELSE {})
        \union UNION {KeysBelow(s, node.kids[m]) : m \in Occupied(node) \ node.leaves}
KidKeys(s, node, m) ==
  IF m \in node.leaves THEN {node.kids[m]} ELSE KeysBelow(s, node.kids[m])

NodeSound(s, a) ==
  LET node == NodeAt(s, a)
      ref == KeyAt(s, node.leaf)
      Agree(key) == \A i \in 0 .. node.plen - 1 : NibAt(key, i) = NibAt(ref, i)
  IN  /\ node.leaf \in KeysBelow(s, a)
      /\ node.terminal => MaxNib(ref) = node.plen
      /\ \A ki \in KeysBelow(s, a) : Agree(KeyAt(s, ki))
      /\ \A m \in Occupied(node) : \A ki \in KidKeys(s, node, m) :
           MaxNib(KeyAt(s, ki)) > node.plen /\ NibAt(KeyAt(s, ki), node.plen) = m

\* Every key of the store hangs in the tree, and nothing else does.
Sound(s) ==
  /\ \A a \in 0 .. Len(s.arena) - 1 : NodeSound(s, a)
  /\ s.arena # <<>> => KeysBelow(s, 0) = 1 .. Count(s)
  /\ Len(s.arena) <= s.ptr /\ Len(s.values) < s.ptr
=============================================================================
