------------------------------ MODULE SlotSet ------------------------------
(***************************************************************************)
(* What the owners of a BlockSet (an ArenaSet, a SkipSet) use of it beyond  *)
(* `insert` and `remove` (crates/doa/src/blockset_v1.rs): lookups, also in  *)
(* a window of slots, walks in key order, the inserts at a place the owner  *)
(* has found, the swap of a key in place, and the cleave of a full block.   *)
(* All are functions on the record of SlotOps.                              *)
(***************************************************************************)
EXTENDS SlotOps

None == -1

BeforeHead(b, k) == Live(b) # {} /\ ~ Precedes(b, KeyAt(b, Min(Live(b))), k)
                                 /\ KeyAt(b, Min(Live(b))) # k

\* The name of k.
Find(b, k) ==
  IF BeyondTail(b, k) \/ BeforeHead(b, k) \/ Search(b, k) # Dup THEN None
  ELSE NameOf(b, k)

\* The walk from the window's least key: its slots in key order. Going down,
\* the first slot is the nearest below the window's end, wherever it is.
WindowWalk(b, from, to) ==
  IF ~ b.tr.rev THEN Ascending({p \in Live(b) : from <= p /\ p < to})
  ELSE LET below == {p \in Live(b) : p < to}
       IN  Descending({p \in below : p >= from \/ p = Max(below)})

FindWindow(b, k, from, to) ==
  LET walk == WindowWalk(b, from, to)
      reach == {i \in DOMAIN walk : KeyAt(b, walk[i]) >= k}
  IN  IF reach = {} \/ KeyAt(b, walk[Min(reach)]) # k THEN None
      ELSE P2A(b.tr, walk[Min(reach)])

\* iter: the keys along the slots, or against them in a reversed block.
InOrder(b) ==
  LET walk == IF b.tr.rev THEN Descending(Live(b)) ELSE Ascending(Live(b))
  IN  [i \in DOMAIN walk |-> KeyAt(b, walk[i])]

MinKeyOf(b) ==
  KeyAt(b, IF b.tr.rev THEN Max(Live(b)) ELSE Min(Live(b)))

-----------------------------------------------------------------------------
(* The cursor: a slot, or the ghost past the greatest key.                  *)

Ghost == -1
Least(S) == IF S = {} THEN Ghost ELSE Min(S)
Greatest(S) == IF S = {} THEN Ghost ELSE Max(S)

\* The first live slot at a boundary, in key order.
KeyBound(b, from) ==
  IF b.tr.rev THEN Greatest({p \in Live(b) : p < from})
  ELSE Least({p \in Live(b) : p >= from})

Seek(b, k) ==
  IF Search(b, k) = Dup THEN PosOf(b, k) ELSE KeyBound(b, Search(b, k))

SeekAfter(b, k) ==
  IF Search(b, k) = Dup
  THEN KeyBound(b, IF b.tr.rev THEN PosOf(b, k) ELSE PosOf(b, k) + 1)
  ELSE KeyBound(b, Search(b, k))

\* next yields the current slot and steps; prev steps and yields, from the
\* ghost to the greatest key, and stays at the least.
StepOn(b, p) ==
  IF b.tr.rev THEN Greatest({q \in Live(b) : q < p})
  ELSE Least({q \in Live(b) : q > p})
StepBack(b, p) ==
  IF p = Ghost THEN IF b.tr.rev THEN Least(Live(b)) ELSE Greatest(Live(b))
  ELSE IF b.tr.rev THEN Least({q \in Live(b) : q > p})
  ELSE Greatest({q \in Live(b) : q < p})

-----------------------------------------------------------------------------
(* Inserts at a place the owner names. Each gives the block and whether the *)
(* key went in.                                                             *)

Answer(b, ok) == [b |-> b, ok |-> ok]
First(b, k) == Answer(Place(PushSlots(b, 4), k, 0), TRUE)
Full(b) == Count(b) >= NameCount

InsertInto(b, k) ==
  IF Placeable(b, k) THEN Answer(Inserted(b, k), TRUE)
  ELSE Answer(Readied(b), FALSE)

\* The key's boundary is in the window from .. to - 1. It never flips.
InsertWithin(b, k, from, to) ==
  IF b.cap = 0 THEN First(b, k)
  ELSE IF Full(b) \/ SearchIn(b, k, from, to) = Dup THEN Answer(b, FALSE)
  ELSE Answer(PlaceFrom(b, k, SearchIn(b, k, from, to)), TRUE)

PushBeyond(b, k) ==
  IF b.cap = 0 THEN First(b, k)
  ELSE IF Full(b) THEN Answer(b, FALSE)
  ELSE Answer(PlaceFrom(b, k, Max(Live(b)) + 1), TRUE)

ReplaceKey(b, p, k) ==
  [b EXCEPT !.data = {c \in @ : c[1] # p} \union {<<p, k>>}]

-----------------------------------------------------------------------------
(* The cleave: the slots from `at` on become a block of their own, and keep *)
(* their names, for the translator moves with them.                         *)

Shifted(tr, at) == [tr EXCEPT !.off = (@ - at) % NameCount]

\* What is known of the inserts to come: nothing.
Seeded(b) == [b EXCEPT !.sum = (Count(b) * (Count(b) - 1)) \div 2, !.streak = 0]

CleavedLeft(b, at) == Seeded([b EXCEPT !.data = {c \in @ : c[1] < at}])

\* (mutant) the translator stays as it was.
CleavedRightUnmoved(b, at) ==
  LET right == Seeded([NewBlock EXCEPT
                 !.cap = b.cap - at,
                 !.data = {<<c[1] - at, c[2]>> : c \in {d \in b.data : d[1] >= at}},
                 !.tr = b.tr,
                 !.last = Max({0, b.last - at})])
  IN  IF right.tr.rev THEN Flipped(right) ELSE right

CleavedRight(b, at) ==
  LET right == Seeded([NewBlock EXCEPT
                 !.cap = b.cap - at,
                 !.data = {<<c[1] - at, c[2]>> : c \in {d \in b.data : d[1] >= at}},
                 !.tr = Shifted(b.tr, at),
                 !.last = Max({0, b.last - at})])
  IN  IF right.tr.rev THEN Flipped(right) ELSE right
=============================================================================
