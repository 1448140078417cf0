------------------------------ MODULE TreeWalk ------------------------------
(***************************************************************************)
(* The walker of a tree block (crates/doa/src/treeblock/walker.rs and the   *)
(* Ancestry of metadata.rs): it keeps its node's position and those of the  *)
(* ancestors it came down through. Nodes name their children, and in an     *)
(* in-order block here their parent too, by the names of slots, which       *)
(* change when an open moves nodes: before the move the walker walks the    *)
(* run and rewrites, and after it corrects itself.                          *)
(*                                                                          *)
(* A node is [id, keys, kids, up]: kids maps child slots, from 0, to names; *)
(* up is the parent's name. A walker is [pos, path]: path has for every     *)
(* ancestor <<position, child slot gone down through>>, the root first.     *)
(* The order of a block is "pre" (a node before its subtrees) or "in"       *)
(* (binary: between them).                                                  *)
(***************************************************************************)
EXTENDS TreeSlots

CONSTANT BDegree    \* DEGREE of the nodes in a pre-order block

InOrderBlock(t) == t.order = "in"
Degree(t) == IF InOrderBlock(t) THEN 2 ELSE BDegree
StoresParents(t) == InOrderBlock(t)

NodeAt(t, w) == t.nodes[w.pos]
ChildCount(t, w) == Cardinality(DOMAIN NodeAt(t, w).kids)
IsLeaf(t, w) == IF InOrderBlock(t) THEN ChildCount(t, w) = 0
                ELSE Len(w.path) = t.height

AtRoot(t) == [pos |-> t.root, path |-> <<>>]
Descend(t, w, i) ==
  [pos |-> TA2P(t, NodeAt(t, w).kids[i]), path |-> Append(w.path, <<w.pos, i>>)]

\* The ancestor at a depth, and the slot below it.
AscendTo(w, depth) == [pos |-> w.path[depth + 1][1], path |-> SubSeq(w.path, 1, depth)]
Below(w, depth) == w.path[depth + 1][2]

-----------------------------------------------------------------------------
(* Walks in the order of the block. Off: past its end.                      *)

Off == [pos |-> -1, path |-> <<>>]

\* An in-order node sits between child[b - 1] and child[b].
InBoundary(t, w) == Min({ChildCount(t, w), Degree(t) \div 2})

RECURSIVE LeftmostLeaf(_, _), RightmostLeaf(_, _)
LeftmostLeaf(t, w) == IF IsLeaf(t, w) THEN w ELSE LeftmostLeaf(t, Descend(t, w, 0))
RightmostLeaf(t, w) ==
  IF IsLeaf(t, w) \/ (InOrderBlock(t) /\ InBoundary(t, w) = ChildCount(t, w)) THEN w
  ELSE RightmostLeaf(t, Descend(t, w, ChildCount(t, w) - 1))

SubtreeFirst(t, w) == IF InOrderBlock(t) THEN LeftmostLeaf(t, w) ELSE w
SubtreeLast(t, w) == RightmostLeaf(t, w)

\* The nearest ancestor of these depths; -1: none.
Deepest(depths) == IF depths = {} THEN -1 ELSE Max(depths)

WalkOn(t, w) ==
  LET from == IF InOrderBlock(t) THEN InBoundary(t, w) ELSE 0
      crossed(d) == InOrderBlock(t) /\ Below(w, d) + 1 = InBoundary(t, AscendTo(w, d))
      rising(d) == IF d = -1 THEN Off
                   ELSE IF crossed(d) THEN AscendTo(w, d)
                   ELSE SubtreeFirst(t, Descend(t, AscendTo(w, d), Below(w, d) + 1))
  IN  IF ~ IsLeaf(t, w) /\ from < ChildCount(t, w)
      THEN SubtreeFirst(t, Descend(t, w, from))
      ELSE rising(Deepest({i \in 0 .. Len(w.path) - 1 :
                             crossed(i) \/ Below(w, i) + 1 < ChildCount(t, AscendTo(w, i))}))

PreviousIn(t, w) ==
  LET crossed(d) == Below(w, d) = InBoundary(t, AscendTo(w, d))
      rising(d) == IF d = -1 THEN Off
                   ELSE IF crossed(d) THEN AscendTo(w, d)
                   ELSE SubtreeLast(t, Descend(t, AscendTo(w, d), Below(w, d) - 1))
  IN  IF ChildCount(t, w) > 0 THEN SubtreeLast(t, Descend(t, w, InBoundary(t, w) - 1))
      ELSE rising(Deepest({i \in 0 .. Len(w.path) - 1 : crossed(i) \/ Below(w, i) > 0}))

PreviousPre(t, w) ==
  LET d == Len(w.path) - 1
      x == AscendTo(w, d)
  IN  IF d = -1 THEN Off
      ELSE IF Below(w, d) = 0 THEN x
      ELSE SubtreeLast(t, Descend(t, x, Below(w, d) - 1))

WalkBack(t, w) == IF InOrderBlock(t) THEN PreviousIn(t, w) ELSE PreviousPre(t, w)

-----------------------------------------------------------------------------
(* The fixup of a pending remap, and its application. `x` is a tree and a   *)
(* walker on it.                                                            *)

On(t, w) == [t |-> t, w |-> w]
Members(t, f) == {p \in DOMAIN t.nodes : f[p] # 0}

\* The member under the walker: its parent's entry, and its own of its parent,
\* get the names that the slots to come have.
Relink(t, w, f) ==
  LET inEntry(x, up) == [x EXCEPT !.nodes[up[1]].kids[up[2]] = TP2A(t, w.pos + f[w.pos])]
      inNode(up) == IF StoresParents(t)
                    THEN [t EXCEPT !.nodes[w.pos].up = TP2A(t, up[1] + f[up[1]])] ELSE t
  IN  IF w.path = <<>> THEN t ELSE inEntry(inNode(Last(w.path)), Last(w.path))

\* The walk of the run from the anchor, which may itself be in it.
Fixup(t, w, f) ==
  LET members == Members(t, f)
      up == \E p \in members : f[p] > 0
      relinked(x, at) == On(Relink(x.t, at, f), at)
      visit(x, i) == relinked(x, IF i = 1 /\ f[w.pos] # 0 THEN x.w
                                 ELSE IF up THEN WalkOn(x.t, x.w) ELSE WalkBack(x.t, x.w))
  IN  FoldLeft(visit, On(t, w), [i \in 1 .. Cardinality(members) |-> i]).t

\* The children of every node that moved learn its name.
Reparented(t, moved) ==
  LET parents(p) == {q \in moved : \E i \in DOMAIN t.nodes[q].kids :
                                     TA2P(t, t.nodes[q].kids[i]) = p}
  IN  IF ~ StoresParents(t) THEN t
      ELSE [t EXCEPT !.nodes =
              [p \in DOMAIN @ |-> IF parents(p) = {} THEN @[p]
                                  ELSE [@[p] EXCEPT !.up = TP2A(t, Max(parents(p)))]]]

\* slide_fix, gather_fix of a walker: its node's position and its ancestors'.
Follow(w, f) ==
  [pos |-> w.pos + f[w.pos],
   path |-> [d \in DOMAIN w.path |-> <<w.path[d][1] + f[w.path[d][1]], w.path[d][2]>>]]

\* grew_fix of a walker.
Stretched(w) ==
  [pos |-> 2 * w.pos, path |-> [d \in DOMAIN w.path |-> <<2 * w.path[d][1], w.path[d][2]>>]]

\* apply_slide, apply_gather.
Apply(t, w, f) ==
  On(Reparented(Remap(Fixup(t, w, f), f), {p + f[p] : p \in Members(t, f)}), Follow(w, f))

-----------------------------------------------------------------------------
(* The opens. They consume the walker, and give the tree, the slots and the *)
(* remap that holders of names have to follow; no slots: exhausted.         *)

Here(after) == [child |-> -1, after |-> after]
AtChild(i, after) == [child |-> i, after |-> after]

WalkToAnchor(t, w, anchor) ==
  LET atEnd(x) == IF anchor.after THEN SubtreeLast(t, x) ELSE SubtreeFirst(t, x)
  IN  IF anchor.child = -1 THEN w ELSE atEnd(Descend(t, w, anchor.child))

Grew(w, found) == IF found.grew THEN Stretched(w) ELSE w
Still(t) == [p \in 0 .. t.len - 1 |-> 0]
Opening(t, slots, moves) == [t |-> t, slots |-> slots, moves |-> moves]
Exhausted(t) == Opening(t, <<>>, Still(t))

OpenAt(t, w, anchor) ==
  LET opened(found, at, slide, moves) ==
        Opening(Apply(found.t, at, moves).t, <<slide.to>>, moves)
      slid(found, at, slide) == opened(found, at, slide, SlideMoves(found.t, slide))
      tried(found, at) == IF found.found = <<>> THEN Exhausted(found.t)
                          ELSE slid(found, Grew(at, found), Head(found.found))
      from(at) == tried(FindSlot(t, at.pos, anchor.after), at)
  IN  from(WalkToAnchor(t, w, anchor))

\* Both slides are found before either moves; then each at its own anchor.
OpenTwo(t, w, a, b) ==
  LET back(x) == IF Len(x.w.path) = Len(w.path) THEN x ELSE On(x.t, AscendTo(x.w, Len(w.path)))
      each(x, anchor, moves) == Apply(x.t, WalkToAnchor(x.t, x.w, anchor), moves)
      opened(found, f, g) ==
        Opening(each(back(each(On(found.t, Grew(w, found)), a, f)), b, g).t,
                <<found.found[1].to, found.found[2].to>>, BothMoves(f, g))
      tried(found) ==
        IF found.found = <<>> THEN Exhausted(found.t)
        ELSE opened(found, SlideMoves(found.t, found.found[1]),
                           SlideMoves(found.t, found.found[2]))
  IN  tried(FindTwo(t, WalkToAnchor(t, w, a).pos, a.after, WalkToAnchor(t, w, b).pos, b.after))

\* n slots, the lowest of them first.
OpenMany(t, w, anchor, n) ==
  LET low(p) == IF anchor.after THEN p + 1 ELSE p - n
      opened(found, at, moves) ==
        Opening(Apply(found.t, at, moves).t, [i \in 1 .. n |-> low(at.pos) + i - 1], moves)
      gathered(found, at) ==
        IF found.found = {} THEN Exhausted(found.t)
        ELSE opened(found, at, GatherMoves(found.t, at.pos, anchor.after, found.found))
      from(at, found) == gathered(found, Grew(at, found))
      start(at) == from(at, FindMany(t, at.pos, anchor.after, n))
  IN  start(WalkToAnchor(t, w, anchor))

-----------------------------------------------------------------------------
(* rotate_right (side 0) and rotate_left (side 1): the walker stands on the *)
(* riser, the parent's child on that side, which rises and takes the parent *)
(* as its child on the other; its subtree there goes to the parent.         *)

SetUp(t, p, a) == [t EXCEPT !.nodes[p].up = a]
SetKid(t, p, side, kid) ==
  [t EXCEPT !.nodes[p].kids =
     IF kid = <<>> THEN [i \in DOMAIN @ \ {side} |-> @[i]] ELSE (side :> kid[1]) @@ @]

RotateUp(t, w, side) ==
  LET riser == w.pos
      parent == Last(w.path)[1]
      rest == Front(w.path)
      kids == t.nodes[riser].kids
      moved == IF 1 - side \in DOMAIN kids THEN <<kids[1 - side]>> ELSE <<>>
      hung(x) == IF rest = <<>> THEN [x EXCEPT !.root = riser]
                 ELSE SetUp(SetKid(x, Last(rest)[1], Last(rest)[2], <<TP2A(t, riser)>>),
                            riser, TP2A(t, Last(rest)[1]))
      given(x) == IF moved = <<>> THEN x ELSE SetUp(x, TA2P(t, moved[1]), TP2A(t, parent))
      swapped(x) == SetKid(SetKid(x, parent, side, moved), riser, 1 - side,
                           <<TP2A(t, parent)>>)
  IN  swapped(given(hung(SetUp(t, parent, TP2A(t, riser)))))
=============================================================================
