------------------------------ MODULE TreeSlots ------------------------------
(***************************************************************************)
(* The block under a tree (crates/doa/src/treeblock: store.rs, blocks.rs,   *)
(* metadata.rs): slots that hold nodes, a translator that names a slot by   *)
(* its position shifted left, and the searches for empty slots next to a    *)
(* node. All are functions on a record                                      *)
(*                                                                          *)
(*   len      the number of slots                                           *)
(*   shift    the translator's shift: spreading halves it                   *)
(*   nodes    position |-> node; a slot outside its domain is a hole        *)
(*   pinned   whether the root's slot may not move (mode Anchored, in order)*)
(*   root, height   the block's data: the root's position, and how many     *)
(*           levels of inner nodes there are                                *)
(*                                                                          *)
(* A remap, of a slide or of a gather, is the function that gives for each  *)
(* position by how much the node there moves.                               *)
(***************************************************************************)
EXTENDS SlotOps

TP2A(t, p) == (p * 2^t.shift) % NameCount
TA2P(t, a) == a \div 2^t.shift

Holes(t) == (0 .. t.len - 1) \ DOMAIN t.nodes
Occupied(t) == Cardinality(DOMAIN t.nodes)

\* new, insert_root: an unpinned root has the only slot, a pinned one the
\* middle name.
NewBlockOf(node, pinned) ==
  IF pinned
  THEN [len |-> 2, shift |-> Width - 1, nodes |-> 1 :> node, pinned |-> TRUE,
        root |-> 1, height |-> 0]
  ELSE [len |-> 1, shift |-> Width, nodes |-> 0 :> node, pinned |-> FALSE,
        root |-> 0, height |-> 0]

PutNode(t, p, node) == [t EXCEPT !.nodes = (p :> node) @@ @]

-----------------------------------------------------------------------------
(* Remaps.                                                                  *)

Slide(from, to) == [from |-> from, to |-> to]

\* The hole goes from `from` to `to`, what is in between one slot back.
SlideMoves(t, s) ==
  [p \in 0 .. t.len - 1 |->
     IF s.to <= p /\ p < s.from THEN 1
     ELSE IF s.from < p /\ p <= s.to THEN -1 ELSE 0]

\* The holes on one side gather at the anchor; a node on the way moves by as
\* many as cross it.
GatherMoves(t, anchor, after, holes) ==
  [p \in 0 .. t.len - 1 |->
     IF after /\ anchor < p THEN Cardinality({h \in holes : h > p})
     ELSE IF ~ after /\ p < anchor THEN 0 - Cardinality({h \in holes : h < p})
     ELSE 0]

\* two_slide: a position is in the run of one of them.
BothMoves(f, g) == [p \in DOMAIN f |-> IF f[p] # 0 THEN f[p] ELSE g[p]]

\* slide_none, gather_none: the nodes move, and the block's root with its node.
Remap(t, f) ==
  LET source(q) == CHOOSE p \in DOMAIN t.nodes : p + f[p] = q
  IN  [t EXCEPT !.nodes = [q \in {p + f[p] : p \in DOMAIN t.nodes} |-> t.nodes[source(q)]],
                !.root = @ + f[@]]

\* fix_addr: the name a holder has after the remap.
FixAddr(t, f, a) == TP2A(t, TA2P(t, a) + f[TA2P(t, a)])

-----------------------------------------------------------------------------
(* grow_and_spread: every node to twice its position, with the same name.   *)

CanSpread(t) == t.shift > 0 /\ 2 * t.len <= NameCount
SpreadOut(t) ==
  [t EXCEPT !.len = 2 * @, !.shift = @ - 1, !.root = 2 * @,
            !.nodes = [q \in {2 * p : p \in DOMAIN @} |-> @[q \div 2]]]

-----------------------------------------------------------------------------
(* The searches of the store. The window of one never has the pinned slot   *)
(* strictly inside: what is moved never crosses it.                         *)

PinPos(t) == TA2P(t, Midpoint)

\* The holes that a search from p may take.
InReach(t, p, after, budget) ==
  LET lo == Max({0, p - budget})
      hi == Min({t.len, p + budget})
      near == {h \in Holes(t) : lo <= h /\ h < hi}
  IN  IF ~ t.pinned THEN near
      ELSE IF PinPos(t) = p THEN {h \in near : after <=> h > p}
      ELSE {h \in near : h < PinPos(t) <=> p < PinPos(t)}

\* The slide that opens a slot on a side of p: the nearest hole on that side,
\* or else on the other, when p itself moves. None, or one.
FindIn(t, p, after, budget) ==
  LET nearest(up, down) ==
        IF up # {} /\ (after \/ down = {})
        THEN <<Slide(Min(up), IF after THEN p + 1 ELSE p)>>
        ELSE IF down # {} THEN <<Slide(Max(down), IF after THEN p ELSE p - 1)>>
        ELSE <<>>
      of(holes) == nearest({h \in holes : h > p}, {h \in holes : h < p})
  IN  of(InReach(t, p, after, budget))

\* Two slides that could be applied in either order.
Interfere(t, s, z, pa, pb) ==
  \/ /\ Min({s.from, s.to}) <= Max({z.from, z.to})
     /\ Min({z.from, z.to}) <= Max({s.from, s.to})
  \/ SlideMoves(t, s)[pb] # 0
  \/ SlideMoves(t, z)[pa] # 0

FindTwoWithin(t, pa, aa, pb, ab, budget) ==
  FindIn(t, pa, aa, budget) \o FindIn(t, pb, ab, budget)

\* First each in a sphere of its own, then each in the whole window.
FindTwoIn(t, pa, aa, pb, ab, budget) ==
  LET first(sphere, whole) ==
        IF Apart(pa, pb) >= 3 /\ Len(sphere) = 2 THEN sphere
        ELSE IF Len(whole) = 2 /\ ~ Interfere(t, whole[1], whole[2], pa, pb) THEN whole
        ELSE <<>>
      within(radius) == FindTwoWithin(t, pa, aa, pb, ab, radius)
  IN  first(within(Min({(Apart(pa, pb) - 1) \div 2, budget})), within(budget))

\* The nearest n holes of one side.
FindManyIn(t, p, after, n, budget) ==
  LET nearest(side) ==
        {h \in side : Cardinality({x \in side : Apart(x, p) < Apart(h, p)}) < n}
      enough(holes) == IF Cardinality(holes) = n THEN holes ELSE {}
  IN  enough(nearest({h \in InReach(t, p, after, budget) : after <=> h > p}))

-----------------------------------------------------------------------------
(* The ladders of the block: search, spread, search again. `found` is what  *)
(* the last search gave, in the block as it is then; nothing: exhausted.    *)

Finding(t, grew, found) == [t |-> t, grew |-> grew, found |-> found]

FindSlot(t, p, after) ==
  LET spread(grown, budget) == Finding(grown, TRUE, FindIn(grown, 2 * p, after, budget))
      first(near, far) ==
        IF near # <<>> THEN Finding(t, FALSE, near)
        ELSE IF far = <<>> /\ CanSpread(t) THEN spread(SpreadOut(t), 2 * t.len)
        ELSE Finding(t, FALSE, far)
  IN  IF Occupied(t) * 4 > t.len * 3 /\ CanSpread(t) THEN spread(SpreadOut(t), Width)
      ELSE first(FindIn(t, p, after, Width), FindIn(t, p, after, t.len))

\* Without a search of the whole block before it spreads.
FindTwo(t, pa, aa, pb, ab) ==
  LET spread(grown) ==
        Finding(grown, TRUE, FindTwoIn(grown, 2 * pa, aa, 2 * pb, ab, grown.len))
      first(near) == IF near = <<>> /\ CanSpread(t) THEN spread(SpreadOut(t))
                     ELSE Finding(t, FALSE, near)
  IN  first(FindTwoIn(t, pa, aa, pb, ab, Width))

FindMany(t, p, after, n) ==
  LET spread(grown) == Finding(grown, TRUE, FindManyIn(grown, 2 * p, after, n, grown.len))
      first(near, far) ==
        IF near # {} THEN Finding(t, FALSE, near)
        ELSE IF far = {} /\ CanSpread(t) THEN spread(SpreadOut(t))
        ELSE Finding(t, FALSE, far)
  IN  first(FindManyIn(t, p, after, n, Width), FindManyIn(t, p, after, n, t.len))
=============================================================================
