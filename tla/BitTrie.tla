------------------------------- MODULE BitTrie -------------------------------
(***************************************************************************)
(* The trie of bits (crates/tiny-trie/src/bit_trie.rs), as functions on a  *)
(* record                                                                  *)
(*                                                                         *)
(*   arena   the nodes, the root first; an address counts from 0           *)
(*   keys    the key store: the key of key index i is the i-th             *)
(*   values  the value of key index i is the i-th                          *)
(*   root    root_prefix_len                                               *)
(*                                                                         *)
(* A node has `kids`, from the occupied bits to an address or, for those   *)
(* in `leaves`, to a key index; `plens`, how many bits lie before each     *)
(* child's own bit; and `leaf`, the index of some key below it.            *)
(***************************************************************************)
EXTENDS ByteKeys, FiniteSetsExt, SequencesExt

-----------------------------------------------------------------------------
(* Keys as bits, the high bit of a byte first.                             *)

MaxBits(key) == 8 * Len(key)
BitAt(key, i) ==
  IF i \div 8 >= Len(key) THEN 0 ELSE (key[i \div 8 + 1] \div (2^(7 - (i % 8)))) % 2

Differ(a, b, from, to) == {i \in from .. to - 1 : BitAt(a, i) # BitAt(b, i)}

\* A comparison starts at the byte of `from`.
PrefixMatches(a, b, from, to) ==
  LET shared == {MaxBits(a), MaxBits(b), 8 * ((to + 7) \div 8)}
      d == Differ(a, b, 8 * (from \div 8), Min(shared))
  IN  /\ MaxBits(a) >= to /\ MaxBits(b) >= to
      /\ d = {} \/ Min(d) >= to

Same == -1
FindDivergence(a, b, from) ==
  LET end == Min({MaxBits(a), MaxBits(b)})
      d   == Differ(a, b, 8 * (from \div 8), end)
  IN  IF d # {} THEN Min(d) ELSE IF Len(a) = Len(b) THEN Same ELSE end

-----------------------------------------------------------------------------
(* Nodes and the key store.                                                *)

NewTrie == [arena |-> <<>>, keys |-> <<>>, values |-> <<>>, root |-> 0]
Node(leaf, terminal) ==
  [kids |-> [b \in {} |-> 0], leaves |-> {}, plens |-> [b \in {} |-> 0],
   leaf |-> leaf, terminal |-> terminal]

NodeAt(s, a) == s.arena[a + 1]
Occupied(node) == DOMAIN node.kids
WithLeafChild(node, bit, ki, plen) ==
  [node EXCEPT !.kids = (bit :> ki) @@ @, !.leaves = @ \union {bit},
               !.plens = (bit :> plen) @@ @]
WithInternalChild(node, bit, a, plen) ==
  [node EXCEPT !.kids = (bit :> a) @@ @, !.leaves = @ \ {bit},
               !.plens = (bit :> plen) @@ @]

KeyAt(s, ki) == s.keys[ki]
Push(s, key, val) ==
  [s EXCEPT !.keys = Append(@, key), !.values = Append(@, val)]
Rollback(s) == [s EXCEPT !.keys = Front(@), !.values = Front(@)]

-----------------------------------------------------------------------------
(* Lookup.                                                                 *)

NoIndex == 0
Whole(s, ki, key) == IF KeyAt(s, ki) = key THEN ki ELSE NoIndex

RECURSIVE GetFrom(_, _, _, _)
GetFrom(s, key, a, plen) ==
  LET node == NodeAt(s, a)
      bit  == BitAt(key, plen)
  IN  IF plen >= MaxBits(key)
      THEN IF node.terminal THEN Whole(s, node.leaf, key) ELSE NoIndex
      ELSE IF bit \notin Occupied(node) THEN NoIndex
      ELSE IF bit \in node.leaves THEN Whole(s, node.kids[bit], key)
      ELSE GetFrom(s, key, node.kids[bit], node.plens[bit])
GetIndex(s, key) == IF s.arena = <<>> THEN NoIndex ELSE GetFrom(s, key, 0, s.root)

-----------------------------------------------------------------------------
(* Insertion: the key and the value are pushed first.                      *)

Done(s, ok) == [s |-> s, ok |-> ok]

InsertIntoEmpty(s, key, ki) ==
  [s EXCEPT !.root = 0,
            !.arena = <<IF key = <<>> THEN Node(ki, TRUE)
                        ELSE WithLeafChild(Node(ki, FALSE), BitAt(key, 0), ki, MaxBits(key))>>]

\* The node that takes the place of a leaf child when the keys part at `d`.
SplitOf(key, ki, old, oldKi, oldPlen, d) ==
  LET newEnds == d >= MaxBits(key)
      oldEnds == ~ newEnds /\ d >= MaxBits(old)
      bare    == Node(IF newEnds THEN ki ELSE oldKi, newEnds \/ oldEnds)
      one     == IF newEnds THEN bare
                 ELSE WithLeafChild(bare, BitAt(key, d), ki, MaxBits(key))
  IN  IF oldEnds THEN one ELSE WithLeafChild(one, BitAt(old, d), oldKi, oldPlen)

SplitLeafChild(s, a, bit, key, ki, confirmed) ==
  LET node  == NodeAt(s, a)
      oldKi == node.kids[bit]
      old   == KeyAt(s, oldKi)
      d     == FindDivergence(key, old, confirmed)
      split == SplitOf(key, ki, old, oldKi, node.plens[bit], d)
  IN  IF d = Same THEN Done(Rollback(s), FALSE)
      ELSE Done([s EXCEPT !.arena =
             Append([@ EXCEPT ![a + 1] = WithInternalChild(@, bit, Len(s.arena), d)],
                    split)], TRUE)

\* A new parent at the place where the keys part takes the node's address;
\* the bits before it are told to the parent `up`, if there is one.
SplitNode(s, a, up, plen, key, ki, confirmed) ==
  LET old    == NodeAt(s, a)
      ref    == KeyAt(s, old.leaf)
      d      == FindDivergence(key, ref, confirmed)
      ends   == d >= MaxBits(key)
      bare   == Node(ki, ends)
      keyed  == IF ends THEN bare ELSE WithLeafChild(bare, BitAt(key, d), ki, MaxBits(key))
      parent == WithInternalChild(keyed, BitAt(ref, d), Len(s.arena), plen)
      t == [s EXCEPT !.arena = Append([@ EXCEPT ![a + 1] = parent], old)]
  IN  IF d = Same THEN Done(Rollback(s), FALSE)
      ELSE IF up = <<>> THEN Done([t EXCEPT !.root = d], TRUE)
      ELSE Done([t EXCEPT !.arena[up[1] + 1].plens[up[2]] = d], TRUE)

\* A key that ends at a node is not compared with the one that is there.
RECURSIVE InsertFrom(_, _, _, _, _, _, _)
InsertFrom(s, key, ki, a, up, plen, confirmed) ==
  LET node == NodeAt(s, a)
      bit  == BitAt(key, plen)
  IN  IF ~ PrefixMatches(key, KeyAt(s, node.leaf), confirmed, plen)
      THEN SplitNode(s, a, up, plen, key, ki, confirmed)
      ELSE IF MaxBits(key) <= plen
           THEN Done([s EXCEPT !.arena[a + 1] =
                        [@ EXCEPT !.terminal = TRUE, !.leaf = ki]], TRUE)
      ELSE IF bit \notin Occupied(node)
           THEN Done([s EXCEPT !.arena[a + 1] =
                        WithLeafChild(@, bit, ki, MaxBits(key))], TRUE)
      ELSE IF bit \in node.leaves THEN SplitLeafChild(s, a, bit, key, ki, confirmed)
      ELSE InsertFrom(s, key, ki, node.kids[bit], <<a, bit>>, node.plens[bit], plen + 1)

Insert(s, key, val) ==
  LET t  == Push(s, key, val)
      ki == Len(t.keys)
  IN  IF s.arena = <<>> THEN Done(InsertIntoEmpty(t, key, ki), TRUE)
      ELSE InsertFrom(t, key, ki, 0, <<>>, s.root, 0)

-----------------------------------------------------------------------------
(* The cursor: a stack of an address and the bit gone down.                *)

TerminalPos == 2
Parked == -1
Frame(a, bit) == [at |-> a, bit |-> bit]
Higher(s, a, bit) == {b \in Occupied(NodeAt(s, a)) : b >= bit}

Start(s) == IF s.arena = <<>> THEN <<>> ELSE <<Frame(0, Parked)>>

CurrentIndex(s, stack) ==
  IF stack = <<>> THEN NoIndex
  ELSE LET f == Last(stack)
           node == NodeAt(s, f.at)
       IN  IF f.bit = TerminalPos THEN node.leaf
           ELSE IF f.bit \in node.leaves THEN node.kids[f.bit] ELSE NoIndex

RECURSIVE DescendFirst(_, _, _)
DescendFirst(s, stack, a) ==
  LET node == NodeAt(s, a)
      bit  == IF node.terminal THEN TerminalPos ELSE Min(Occupied(node))
      next == Append(stack, Frame(a, bit))
  IN  IF node.terminal \/ bit \in node.leaves THEN next
      ELSE DescendFirst(s, next, node.kids[bit])

RECURSIVE DescendLast(_, _, _)
DescendLast(s, stack, a) ==
  LET node == NodeAt(s, a)
      bit  == IF Occupied(node) = {} THEN TerminalPos ELSE Max(Occupied(node))
      next == Append(stack, Frame(a, bit))
  IN  IF bit = TerminalPos THEN IF node.terminal THEN next ELSE stack
      ELSE IF bit \in node.leaves THEN next
      ELSE DescendLast(s, next, node.kids[bit])
End(s) == IF s.arena = <<>> THEN <<>> ELSE DescendLast(s, <<>>, 0)

PushNextChild(s, stack, a, from) ==
  LET node == NodeAt(s, a)
      bit  == Min(Higher(s, a, from))
      next == Append(stack, Frame(a, bit))
  IN  IF bit \in node.leaves THEN next ELSE DescendFirst(s, next, node.kids[bit])

RECURSIVE AdvanceNext(_, _)
AdvanceNext(s, stack) ==
  IF stack = <<>> THEN <<>>
  ELSE LET f    == Last(stack)
           rest == Front(stack)
           from == IF f.bit = TerminalPos THEN 0 ELSE f.bit + 1
       IN  IF f.bit = Parked /\ NodeAt(s, f.at).terminal
           THEN Append(rest, Frame(f.at, TerminalPos))
           ELSE IF Higher(s, f.at, from) # {} THEN PushNextChild(s, rest, f.at, from)
           ELSE AdvanceNext(s, rest)

\* The terminal of a node is looked at on the way back from bit 0 only.
RECURSIVE AdvancePrev(_, _)
AdvancePrev(s, stack) ==
  IF stack = <<>> THEN <<>>
  ELSE LET f    == Last(stack)
           rest == Front(stack)
           node == NodeAt(s, f.at)
           next == Append(rest, Frame(f.at, 0))
       IN  IF f.bit = 1 /\ 0 \in Occupied(node)
           THEN IF 0 \in node.leaves THEN next
                ELSE DescendLast(s, next, node.kids[0])
           ELSE IF f.bit = 0 /\ node.terminal
                THEN Append(rest, Frame(f.at, TerminalPos))
           ELSE AdvancePrev(s, rest)

\* The stack is popped until a frame has a next child.
RECURSIVE BacktrackToNext(_, _)
BacktrackToNext(s, stack) ==
  IF stack = <<>> THEN <<>>
  ELSE LET f == Last(stack)
       IN  IF f.bit = 0 /\ 1 \in Occupied(NodeAt(s, f.at))
           THEN PushNextChild(s, Front(stack), f.at, 1)
           ELSE BacktrackToNext(s, Front(stack))

\* The bits between two nodes are not compared.
RECURSIVE SeekFrom(_, _, _, _, _)
SeekFrom(s, key, a, plen, stack) ==
  LET node == NodeAt(s, a)
      bit  == BitAt(key, plen)
      next == Append(stack, Frame(a, bit))
  IN  IF plen >= MaxBits(key)
      THEN IF node.terminal THEN Append(stack, Frame(a, TerminalPos))
           ELSE PushNextChild(s, stack, a, 0)
      ELSE IF bit \in Occupied(node)
           THEN IF bit \notin node.leaves
                THEN SeekFrom(s, key, node.kids[bit], node.plens[bit], next)
                ELSE IF KeyLess(KeyAt(s, node.kids[bit]), key) THEN AdvanceNext(s, next)
                ELSE next
      ELSE IF bit = 0 THEN PushNextChild(s, stack, a, 1)
      ELSE BacktrackToNext(s, stack)
Seek(s, key) == IF s.arena = <<>> THEN <<>> ELSE SeekFrom(s, key, 0, s.root, <<>>)

-----------------------------------------------------------------------------
(* The mutable cursor has a walk of its own, which is the same; it begins  *)
(* on the first key or on the last one.                                    *)

SetValue(s, ki, val) == [s EXCEPT !.values[ki] = val]
MutOnward(s, stack) == AdvanceNext(s, stack)
MutBackward(s, stack) == AdvancePrev(s, stack)
MutFirst(s) == MutOnward(s, Start(s))
MutLast(s) == End(s)
MutSeek(s, key) == Seek(s, key)
MutAt(s, stack) == CurrentIndex(s, stack)

-----------------------------------------------------------------------------
(* What the walks rely on. The keys below a node agree on the bits before  *)
(* the `plen` its parent has for it, and part there.                       *)

RECURSIVE KeysBelow(_, _)
KeysBelow(s, a) ==
  LET node == NodeAt(s, a)
  IN  {node.kids[b] : b \in node.leaves}
        \union (IF node.terminal THEN {node.leaf} ELSE {})
        \union UNION {KeysBelow(s, node.kids[b]) : b \in Occupied(node) \ node.leaves}
KidKeys(s, node, b) ==
  IF b \in node.leaves THEN {node.kids[b]} ELSE KeysBelow(s, node.kids[b])

RECURSIVE SoundBelow(_, _, _)
SoundBelow(s, a, plen) ==
  LET node == NodeAt(s, a)
      ref == KeyAt(s, node.leaf)
  IN  /\ node.leaf \in KeysBelow(s, a)
      /\ node.terminal => MaxBits(ref) = plen
      /\ \A ki \in KeysBelow(s, a) : Differ(KeyAt(s, ki), ref, 0, plen) = {}
      /\ \A b \in Occupied(node) :
           /\ \A ki \in KidKeys(s, node, b) :
                MaxBits(KeyAt(s, ki)) > plen /\ BitAt(KeyAt(s, ki), plen) = b
           /\ b \notin node.leaves =>
                node.plens[b] > plen /\ SoundBelow(s, node.kids[b], node.plens[b])

\* Every key of the store hangs in the tree, and nothing else does.
Sound(s) ==
  s.arena # <<>> => SoundBelow(s, 0, s.root) /\ KeysBelow(s, 0) = 1 .. Len(s.keys)
=============================================================================
