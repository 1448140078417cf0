------------------------------ MODULE TreeMaps ------------------------------
(***************************************************************************)
(* Two clients of tree blocks, as the opens are meant to be used: the B+    *)
(* tree of crates/doa/examples/btree.rs, which splits full nodes on its way *)
(* down, with the bursts of several new nodes at once that tests/walker.rs  *)
(* makes of it, and the binary tree of tests/walker.rs with rotations. The  *)
(* values are left out.                                                     *)
(*                                                                          *)
(* A call is made on [t, held, ok]: held has, for every node ever put in,   *)
(* the name under which somebody else holds it; ok is cleared by a call     *)
(* that found the block exhausted.                                          *)
(***************************************************************************)
EXTENDS TreeWalk

NodeOf(id, keys, kids, up) == [id |-> id, keys |-> keys, kids |-> kids, up |-> up]

NewTree(order, pinned, keys) ==
  [order |-> order] @@ NewBlockOf(NodeOf(1, keys, <<>>, 0), pinned)

NamesOf(t) == [id \in {t.nodes[p].id : p \in DOMAIN t.nodes} |->
                 TP2A(t, CHOOSE p \in DOMAIN t.nodes : t.nodes[p].id = id)]

Session(t, held, ok) == [t |-> t, held |-> held, ok |-> ok]
NextId(t) == Occupied(t) + 1

\* fix_addr over all that is held.
HeldAfter(o, held) == [id \in DOMAIN held |-> FixAddr(o.t, o.moves, held[id])]
WithNode(m, p, node) ==
  Session(PutNode(m.t, p, node), (node.id :> TP2A(m.t, p)) @@ m.held, m.ok)

-----------------------------------------------------------------------------
(* The B+ tree: an inner node's keys[i] is the least key of its kids[i].    *)

NodeFull(t, p) ==
  LET node == t.nodes[p]
  IN  IF node.kids = <<>> THEN Len(node.keys) = Degree(t)
      ELSE Cardinality(DOMAIN node.kids) = Degree(t)

RECURSIVE ChildMin(_, _)
ChildMin(t, a) ==
  LET node == t.nodes[TA2P(t, a)]
  IN  IF node.kids = <<>> THEN Head(node.keys) ELSE ChildMin(t, node.kids[0])

\* What split keeps, and what it drains out.
LeftHalf(node) ==
  LET cc == Cardinality(DOMAIN node.kids)
  IN  IF cc = 0 THEN [node EXCEPT !.keys = SubSeq(@, 1, Len(@) \div 2)]
      ELSE [node EXCEPT !.keys = SubSeq(@, 1, cc \div 2 - 1),
                        !.kids = [i \in 0 .. cc \div 2 - 1 |-> @[i]]]
RightHalf(node, id) ==
  LET cc == Cardinality(DOMAIN node.kids)
      mid == cc \div 2
  IN  IF cc = 0 THEN NodeOf(id, SubSeq(node.keys, Len(node.keys) \div 2 + 1, Len(node.keys)),
                            <<>>, 0)
      ELSE NodeOf(id, SubSeq(node.keys, mid + 1, cc - 1),
                  [i \in 0 .. cc - mid - 1 |-> node.kids[mid + i]], 0)

\* The node at p is split, its right half put into slot q.
Drained(m, p, q) ==
  LET node == m.t.nodes[p]
  IN  WithNode([m EXCEPT !.t.nodes[p] = LeftHalf(node)], q, RightHalf(node, NextId(m.t)))

KidsWith(kids, i, a) ==
  [j \in 0 .. Cardinality(DOMAIN kids) |->
     IF j < i THEN kids[j] ELSE IF j = i THEN a ELSE kids[j - 1]]

\* A new first child moves the old one's least key into the separators.
WireChild(t, par, i, a) ==
  LET kids == t.nodes[par].kids
      sep == IF i > 0 THEN <<ChildMin(t, a)>>
             ELSE IF kids = <<>> THEN <<>> ELSE <<ChildMin(t, kids[0])>>
      at == Max({i - 1, 0})
  IN  [t EXCEPT !.nodes[par].kids = KidsWith(@, i, a),
                !.nodes[par].keys = SubSeq(@, 1, at) \o sep \o SubSeq(@, at + 1, Len(@))]

\* A fresh root at p above the old one, whose name is a.
Promoted(m, p, a) ==
  LET above == WithNode(m, p, NodeOf(NextId(m.t), <<>>, 0 :> a, 0))
  IN  [above EXCEPT !.t.root = p, !.t.height = @ + 1]

\* What a call goes on with, if its open gave slots.
Then(o, held, next(_, _)) ==
  IF o.slots = <<>> THEN Session(o.t, HeldAfter(o, held), FALSE)
  ELSE next(o, Session(o.t, HeldAfter(o, held), TRUE))
Fixed(o, t, p) == FixAddr(o.t, o.moves, TP2A(t, p))

\* A root that is a leaf: a parent before it, then the half after it.
HalfBeside(m, ra, par) ==
  LET wired(half, z) ==
        [half EXCEPT !.t = WireChild(@, TA2P(@, Fixed(z, m.t, par)), 1, TP2A(@, z.slots[1]))]
      split(z, x) ==
        wired(Drained(x, TA2P(z.t, FixAddr(z.t, z.moves, ra)), z.slots[1]), z)
  IN  Then(OpenAt(m.t, Descend(m.t, AtRoot(m.t), 0), Here(TRUE)), m.held, split)

SplitLeafRoot(m) ==
  LET halved(up, ra) == HalfBeside(up, ra, up.t.root)
      raised(x, p, ra) == halved(Promoted(x, p, ra), ra)
      above(o, x) == raised(x, o.slots[1], Fixed(o, m.t, m.t.root))
  IN  Then(OpenAt(m.t, AtRoot(m.t), Here(FALSE)), m.held, above)

\* An inner root: both slots at once, the half before its middle child.
SplitInnerRoot(m) ==
  LET w == AtRoot(m.t)
      wired(up, p, q) == [up EXCEPT !.t = WireChild(@, p, 1, TP2A(@, q))]
      split(x, ra, p, q) == wired(Promoted(Drained(x, TA2P(x.t, ra), q), p, ra), p, q)
      halved(o, x) == split(x, Fixed(o, m.t, m.t.root), o.slots[1], o.slots[2])
  IN  Then(OpenTwo(m.t, w, Here(FALSE), AtChild(ChildCount(m.t, w) \div 2, FALSE)),
           m.held, halved)

\* The full node under w, whose parent has room: its half after a leaf, and
\* before the middle child of an inner node.
SplitChild(m, w) ==
  LET parent == Last(w.path)
      cc == ChildCount(m.t, w)
      wired(half, par, q) == [half EXCEPT !.t = WireChild(@, par, parent[2] + 1, TP2A(@, q))]
      split(o, x) ==
        wired(Drained(x, TA2P(x.t, FixAddr(o.t, o.moves, m.t.nodes[parent[1]].kids[parent[2]])),
                      o.slots[1]),
              TA2P(x.t, Fixed(o, m.t, parent[1])), o.slots[1])
  IN  Then(OpenAt(m.t, w, IF cc = 0 THEN Here(TRUE) ELSE AtChild(cc \div 2, FALSE)),
           m.held, split)

SplitFull(m, w) ==
  IF w.path # <<>> THEN SplitChild(m, w)
  ELSE IF NodeAt(m.t, w).kids = <<>> THEN SplitLeafRoot(m) ELSE SplitInnerRoot(m)

\* lookup: the first separator above k.
Routed(t, w, k) ==
  Min({Cardinality({i \in DOMAIN NodeAt(t, w).keys : NodeAt(t, w).keys[i] <= k}),
       ChildCount(t, w) - 1})

RECURSIVE SearchTree(_, _, _), DownTo(_, _, _), BInsert(_, _)
SearchTree(t, w, k) ==
  IF NodeAt(t, w).kids = <<>> THEN w ELSE SearchTree(t, Descend(t, w, Routed(t, w, k)), k)

\* The first full node on the way to k, or else k's leaf.
DownTo(t, w, k) ==
  IF NodeFull(t, w.pos) \/ IsLeaf(t, w) THEN w
  ELSE DownTo(t, Descend(t, w, Routed(t, w, k)), k)

LeafWith(keys, k) ==
  SelectSeq(keys, LAMBDA x : x < k) \o <<k>> \o SelectSeq(keys, LAMBDA x : x > k)

\* Every split restarts the way down.
BInsert(m, k) ==
  LET again(split) == IF split.ok THEN BInsert(split, k) ELSE split
      at(w) == IF NodeFull(m.t, w.pos) THEN again(SplitFull(m, w))
               ELSE [m EXCEPT !.t.nodes[w.pos].keys = LeafWith(@, k)]
  IN  at(DownTo(m.t, AtRoot(m.t), k))

\* open_n: chains of the tree's height, each down to a leaf with one of the new
\* keys, in one opened range, as the root's children from `gap` on.
BurstInto(m, gap, new) ==
  LET h == m.t.height
      n == Len(new)
      cc == ChildCount(m.t, AtRoot(m.t))
      chained(from, x, i) ==
        WithNode(x, from + i,
          IF i % h = h - 1 THEN NodeOf(NextId(x.t), <<new[i \div h + 1]>>, <<>>, 0)
          ELSE NodeOf(NextId(x.t), <<>>, 0 :> TP2A(x.t, from + i + 1), 0))
      wired(from, x, i) ==
        [x EXCEPT !.t = WireChild(@, @.root, gap + i, TP2A(@, from + i * h))]
      filled(o, x) ==
        FoldLeft(LAMBDA y, i : wired(o.slots[1], y, i),
                 FoldLeft(LAMBDA y, i : chained(o.slots[1], y, i), x,
                          [i \in 1 .. n * h |-> i - 1]),
                 [i \in 1 .. n |-> i - 1])
      anchor == IF gap = 0 THEN Here(TRUE)
                ELSE IF gap < cc THEN AtChild(gap, FALSE) ELSE AtChild(cc - 1, TRUE)
  IN  Then(OpenMany(m.t, AtRoot(m.t), anchor, n * h), m.held, filled)

-----------------------------------------------------------------------------
(* The binary tree.                                                         *)

SideOf(t, w, k) == IF k > Head(NodeAt(t, w).keys) THEN 1 ELSE 0

\* The node that gains k.
RECURSIVE BesideGap(_, _, _)
BesideGap(t, w, k) ==
  LET side == SideOf(t, w, k)
  IN  IF side \in DOMAIN NodeAt(t, w).kids THEN BesideGap(t, Descend(t, w, side), k) ELSE w

\* Its nodes take a first child at slot 0.
BstTakes(t, k) ==
  LET w == BesideGap(t, AtRoot(t), k)
  IN  SideOf(t, w, k) = 0 \/ 0 \in DOMAIN NodeAt(t, w).kids

BstInsert(m, k) ==
  LET wired(x, na, side, p) ==
        [WithNode(x, p, NodeOf(NextId(m.t), <<k>>, <<>>, na)) EXCEPT
           !.t = SetKid(@, TA2P(@, na), side, <<TP2A(@, p)>>)]
      beside(w, side) ==
        Then(OpenAt(m.t, w, Here(side = 1)), m.held,
             LAMBDA o, x : wired(x, Fixed(o, m.t, w.pos), side, o.slots[1]))
      at(w) == beside(w, SideOf(m.t, w, k))
  IN  at(BesideGap(m.t, AtRoot(m.t), k))

\* The walker down to the node at p.
RECURSIVE WalkedTo(_, _, _)
WalkedTo(t, w, p) ==
  IF w.pos = p THEN w
  ELSE WalkedTo(t, Descend(t, w, SideOf(t, w, Head(t.nodes[p].keys))), p)

\* A riser to the right has children on both sides, and a pinned root stays.
MayRise(t, p, side) ==
  LET w == WalkedTo(t, AtRoot(t), p)
  IN  /\ p # t.root /\ Last(w.path)[2] = side
      /\ side = 0 => Cardinality(DOMAIN t.nodes[p].kids) = 2
      /\ t.pinned => Len(w.path) > 1

-----------------------------------------------------------------------------
(* What is there, by the nodes' entries and by the walks.                   *)

Entry(t, e) == TA2P(t, t.nodes[e[1]].kids[e[2]])
EntriesOf(t) ==
  {e \in (DOMAIN t.nodes) \X (0 .. Degree(t) - 1) : e[2] \in DOMAIN t.nodes[e[1]].kids}
Wired(t) ==
  /\ {Entry(t, e) : e \in EntriesOf(t)} = DOMAIN t.nodes \ {t.root}
  /\ Cardinality(EntriesOf(t)) = Occupied(t) - 1

RECURSIVE Onward(_, _), Backward(_, _)
Onward(t, w) == IF w = Off THEN <<>> ELSE <<w.pos>> \o Onward(t, WalkOn(t, w))
Backward(t, w) == IF w = Off THEN <<>> ELSE <<w.pos>> \o Backward(t, WalkBack(t, w))

\* Along the slots, the keys of the nodes without children.
LeafKeys(t) ==
  FoldLeft(LAMBDA keys, p : keys \o t.nodes[p].keys, <<>>,
           Ascending({p \in DOMAIN t.nodes : t.nodes[p].kids = <<>>}))
=============================================================================
