------------------------------ MODULE SlotOps ------------------------------
(***************************************************************************)
(* The slot array of a BlockSet (crates/doa/src/blockset_v1.rs and         *)
(* translator.rs) and the ladder by which an insert opens a slot, as       *)
(* functions on a record                                                   *)
(*                                                                         *)
(*   cap     the number of slots                                           *)
(*   data    the live slots, those whose mask bit is set, as pairs of a    *)
(*           position and the key in it                                    *)
(*   tr      the translator, which names a slot                            *)
(*   sum     pos_sum, an unsigned word: a negative number stands for the   *)
(*           huge one it wraps to                                          *)
(*   last, streak   the previous insert's slot, and how long inserts have  *)
(*           landed close to each other                                    *)
(*   epoch   counts the silent moves (turns and flips)                     *)
(*   event   the pending delta event: the translator it is recorded under, *)
(*           its expansion into (from, to) positions in the order          *)
(*           `step_state` yields them, and the ranges of `slides`          *)
(*                                                                         *)
(* Keys are positive numbers. The heap that archives them is left out: all *)
(* an insert learns from it is whether the key fits.                       *)
(***************************************************************************)
EXTENDS Integers, FiniteSets, Sequences, SequencesExt

CONSTANTS
  Width,              \* A::BIT_WIDTH: there are 2^Width names
  FreeStride,         \* FREE_STRIDE (6)
  TurnNum, TurnDen,   \* TURN_NUM / TURN_DEN (5/6)
  FreeNum, FreeDen,   \* FREE_NUM / FREE_DEN (5/6)
  StreakBank,         \* STREAK_BANK (2)
  NearHole,           \* a hole this near is banked, hot or cold (64)
  Word,               \* slots per word of the mask (64)
  Chunk               \* a bank leaves a sentinel after so many holes (15)

ASSUME SlotOpsAssumption ==
  /\ {Word, StreakBank, NearHole} \subseteq Nat \ {0}
  /\ Width \in Nat /\ Width >= 2
  /\ FreeStride \in 2 .. Chunk - 1 /\ Chunk \in Nat
  /\ TurnNum \in Nat \ {0} /\ TurnDen \in Nat /\ TurnNum < TurnDen
  /\ FreeNum \in Nat \ {0} /\ FreeDen \in Nat /\ FreeNum < FreeDen

Stale == 0       \* what a set bit shows where no element was put
NameCount == 2^Width
Midpoint == 2^(Width - 1)
Names == 0 .. NameCount - 1
Apart(x, y) == IF x > y THEN x - y ELSE y - x
Ascending(S) ==
  [i \in 1 .. Cardinality(S) |->
     CHOOSE x \in S : Cardinality({y \in S : y < x}) = i - 1]
Descending(S) == Reverse(Ascending(S))

-----------------------------------------------------------------------------
(* The translator.                                                         *)

NewTranslator == [rot |-> 0, off |-> 0, rev |-> FALSE]

RotateLeft(a, r) ==
  LET x == a * 2^(r % Width) IN (x % NameCount) + (x \div NameCount)
RotateRight(a, r) == RotateLeft(a, Width - (r % Width))

\* The slot of a name, and the name of a slot.
A2P(tr, a) ==
  LET x == RotateLeft(a, tr.rot)
  IN  (IF tr.rev THEN tr.off - x ELSE x + tr.off) % NameCount
P2A(tr, p) ==
  RotateRight((IF tr.rev THEN tr.off - p ELSE p - tr.off) % NameCount, tr.rot)

Rotate(tr) == [tr EXCEPT !.rot = @ + 1, !.off = (2 * @) % NameCount]
Reversed(tr, cap) ==
  [tr EXCEPT !.off = (cap - 1 - @) % NameCount, !.rev = ~ @]

-----------------------------------------------------------------------------
(* Slots, and the order of the keys in them.                               *)

Live(b) == {c[1] : c \in b.data}
Clear(b) == (0 .. b.cap - 1) \ Live(b)
Count(b) == Cardinality(b.data)
KeysOf(b) == {c[2] : c \in b.data}
KeyAt(b, p) == (CHOOSE c \in b.data : c[1] = p)[2]
PosOf(b, k) == (CHOOSE c \in b.data : c[2] = k)[1]
NameOf(b, k) == P2A(b.tr, PosOf(b, k))

\* Position order is key order, or its reverse in a reversed block.
Precedes(b, x, k) == IF b.tr.rev THEN x > k ELSE x < k

BeyondTail(b, k) == Live(b) = {} \/ Precedes(b, KeyAt(b, Max(Live(b))), k)
NoEvent ==
  [pending |-> FALSE, tr |-> NewTranslator, pairs |-> <<>>, spans |-> {}]
Event(tr, pairs, spans) ==
  [pending |-> TRUE, tr |-> tr, pairs |-> pairs, spans |-> spans]

\* The event as the names that change, and what a holder of names does with one
\* of them: it renames the first entry of that name.
NamePairs(event) ==
  [i \in DOMAIN event.pairs |->
     <<P2A(event.tr, event.pairs[i][1]), P2A(event.tr, event.pairs[i][2])>>]

Renamed(h, pair) ==
  LET named == {k \in DOMAIN h : h[k] = pair[1]}
  IN  IF named = {} THEN h ELSE [h EXCEPT ![CHOOSE k \in named : TRUE] = pair[2]]

NewBlock ==
  [cap |-> 0, data |-> {}, tr |-> NewTranslator, sum |-> 0, last |-> 0,
   streak |-> 0, epoch |-> 0, event |-> NoEvent]

PushSlots(b, n) == [b EXCEPT !.cap = @ + n]

\* The elements move as `to` says; afterwards the bits of `mask` are set.
Relocated(data, to, mask) ==
  LET moved == {<<to[c[1]], c[2]>> : c \in data}
  IN  {c \in moved : c[1] \in mask}
        \union {<<q, Stale>> : q \in mask \ {c[1] : c \in moved}}

-----------------------------------------------------------------------------
(* Where a key belongs.                                                    *)

NoSpot == -1      \* the walk from the anchor gives no answer
Dup == -2         \* the key is there already

\* Within the window from .. to - 1.
SearchIn(b, k, from, to) ==
  LET s[w \in (0 .. b.cap) \X (0 .. b.cap)] ==
        LET lo == w[1]
            hi == w[2]
            mid == (lo + hi) \div 2
            probe == {p \in Live(b) : mid <= p /\ p < hi}
        IN  IF lo >= hi THEN lo
            ELSE IF probe = {} THEN s[<<lo, mid>>]
            ELSE IF Precedes(b, KeyAt(b, Min(probe)), k) THEN s[<<Min(probe) + 1, hi>>]
            ELSE s[<<lo, Min(probe)>>]
      spot == s[<<from, to>>]
      next == {p \in Live(b) : spot <= p /\ p < to}
  IN  IF next # {} /\ KeyAt(b, Min(next)) = k THEN Dup ELSE spot

Search(b, k) == SearchIn(b, k, 0, b.cap)

\* (mutant) going down, it answers the slot of the lesser key.
BoundaryShort(b, q, up) == IF up THEN Max({p \in Live(b) : p < q}) + 1 ELSE q

\* The boundary at the slot `q` where the walk crosses.
Boundary(b, q, up) == IF up THEN Max({p \in Live(b) : p < q}) + 1 ELSE q + 1

\* The walk over the live slots from the anchor until the keys cross k.
SpotNear(b, k) ==
  LET anchor == b.last
      up == Precedes(b, KeyAt(b, anchor), k)
      cross == {q \in Live(b) :
                  /\ IF up THEN q > anchor ELSE q < anchor
                  /\ Precedes(b, KeyAt(b, q), k) # up \/ KeyAt(b, q) = k}
      q == IF up THEN Min(cross) ELSE Max(cross)
  IN  IF anchor \in Clear(b) THEN NoSpot
      ELSE IF KeyAt(b, anchor) = k THEN Dup
      ELSE IF cross = {} \/ Apart(q, anchor) > 2 * FreeStride THEN NoSpot
      ELSE IF KeyAt(b, q) = k THEN Dup
      ELSE Boundary(b, q, up)

Spot(b, k) ==
  IF Live(b) # {} /\ BeyondTail(b, k) THEN Max(Live(b)) + 1
  ELSE LET near == IF b.streak > 0 THEN SpotNear(b, k) ELSE NoSpot
       IN  IF near # NoSpot THEN near ELSE Search(b, k)

-----------------------------------------------------------------------------
(* Silent moves: the flip and the turn.                                    *)

Log2(n) == Max({i \in 0 .. Width : 2^i <= n})

ReverseDue(b) ==
  /\ Count(b) > 4 * FreeStride
  /\ b.sum \in 0 .. Count(b) * Log2(Count(b)) - 1

Flipped(b) ==
  [b EXCEPT !.data = {<<b.cap - 1 - c[1], c[2]>> : c \in @},
            !.tr = Reversed(@, b.cap),
            !.sum = Count(b) * Count(b) - @,
            !.last = Max({0, b.cap - 1 - @}),
            !.epoch = @ + 1]

MaybeFlip(b) == IF ReverseDue(b) THEN Flipped(b) ELSE b

CanTurn(b) ==
  /\ b.cap <= Midpoint
  /\ b.tr.rot < Width
  /\ ~ (b.tr.rev /\ b.tr.off >= Midpoint)

\* (mutant) the rows are doubled, and no bit is carried into the odd ones.
RotateMaskEven(b) == {2 * p : p \in Live(b)}

\* Every bit goes to its double; in the band, one further (or one less).
RotateMask(b) ==
  LET cap == b.cap
      off == b.tr.off
      band == IF b.tr.rev THEN 2 * off + 1 .. 2 * cap - 1
              ELSE IF off <= Midpoint THEN 0 .. 2 * Min({off, cap}) - 1
              ELSE 2 * (off - Midpoint) .. 2 * cap - 1
  IN  {IF 2 * p \notin band THEN 2 * p
       ELSE IF b.tr.rev THEN 2 * p - 1 ELSE 2 * p + 1 : p \in Live(b)}

TurnedSpot(b, p) == A2P(Rotate(b.tr), P2A(b.tr, p))

\* (mutant) the epoch stays, as if a turn moved nothing.
GrowRotateUnnoticed(b) ==
  LET to == [p \in Live(b) |-> TurnedSpot(b, p)]
  IN  [b EXCEPT !.cap = 2 * @,
                !.data = Relocated(@, to, RotateMask(b)),
                !.tr = Rotate(@),
                !.sum = 2 * @,
                !.last = IF @ \in Live(b) THEN to[@] ELSE 2 * @]

GrowRotate(b) ==
  LET to == [p \in Live(b) |-> TurnedSpot(b, p)]
  IN  [b EXCEPT !.cap = 2 * @,
                !.data = Relocated(@, to, RotateMask(b)),
                !.tr = Rotate(@),
                !.sum = 2 * @,
                !.last = IF @ \in Live(b) THEN to[@] ELSE 2 * @,
                !.epoch = @ + 1]

-----------------------------------------------------------------------------
(* The rungs of the ladder. Each gives the block with the slot opened, the *)
(* slot (as `at`), and the event recorded.                                 *)

Opened(b, p) == [b |-> b, at |-> p]

\* The hole at `from` comes to `to`; the run between shifts one slot.
SlidePairs(from, to) ==
  IF from > to
  THEN [i \in 1 .. from - to |-> <<from - i, from - i + 1>>]
  ELSE [i \in 1 .. to - from |-> <<from + i, from + i - 1>>]

SlideHole(b, from, to) ==
  LET moved == [p \in 0 .. b.cap - 1 |->
                  IF to <= p /\ p < from THEN p + 1
                  ELSE IF from < p /\ p <= to THEN p - 1 ELSE p]
  IN  [b EXCEPT !.data = Relocated(@, moved,
                                   (Live(b) \union {from}) \ {to}),
                !.last = moved[@]]

RecordSlide(b, from, to) ==
  [b EXCEPT !.event = Event(b.tr, SlidePairs(from, to), {<<from, to>>})]

SlideOpen(b, hole, spot) ==
  LET open == IF hole > spot THEN spot ELSE spot - 1
  IN  Opened(RecordSlide(SlideHole(b, hole, open), hole, open), open)

\* The clear run between k's neighbours.
GapLo(b, spot) == Max({p + 1 : p \in {q \in Live(b) : q < spot}} \union {0})
GapHi(b, spot) == Min({p \in Live(b) : p >= spot} \union {b.cap})

Subdivide(b, spot) ==
  LET lo == GapLo(b, spot)
      hi == GapHi(b, spot)
      land == IF hi < b.cap THEN lo + (hi - lo) \div 2 ELSE lo
  IN  Opened(RecordSlide(b, land, land), land)

\* The nearest clear slot other than the centre; after wins a tie.
NearestOf(others, centre, d) ==
  IF centre + d \in others THEN centre + d ELSE centre - d
NearestClear(b, centre) ==
  NearestOf(Clear(b), centre, Min({Apart(p, centre) : p \in Clear(b) \ {centre}}))

-----------------------------------------------------------------------------
(* Banking. Distances are counted from `open`, away from the spot, so that *)
(* the right and the left bank read the same.                              *)

\* The holes a bank takes: nearest first, at most `want`; a run is drained,
\* and then no single hole is sought.
RunMember(b, h) == h - 1 \in Clear(b) \/ h + 1 \in Clear(b)
Wanted(b, holes, want) ==
  LET stops == {i \in DOMAIN holes :
                  /\ ~ RunMember(b, holes[i])
                  /\ \E j \in 1 .. i - 1 : RunMember(b, holes[j])}
  IN  SubSeq(holes, 1, Min({want, Len(holes)} \union {i - 1 : i \in stops}))
FetchHoles(b, spot, right, want) ==
  Wanted(b, IF right THEN Ascending({h \in Clear(b) : h >= spot})
            ELSE Descending({h \in Clear(b) : h < spot}), want)

\* `dists` are the distances of the banked holes. An element crosses the holes
\* beyond it; the first ones stay behind as sentinels.

Drag(dists) == (Cardinality(dists) - 1) \div Chunk
Sentinel(i) == (Chunk + 1) * i + Chunk
Crossed(dists, x) ==
  IF x \in 0 .. Drag(dists) - 1 THEN Sentinel(x)
  ELSE x + Cardinality({h \in dists : h >= x})

\* (mutant) no sentinel stays behind.
GatherMaskSolid(dists, bits) ==
  (bits \union dists) \ (0 .. Cardinality(dists) - 1)

GatherMask(dists, bits) ==
  ((bits \union dists) \ (0 .. Cardinality(dists) + Drag(dists) - 1))
     \union {Sentinel(i) : i \in 0 .. Drag(dists) - 1}

\* (mutant) the nearest elements first.
MoversNearFirst(dists) == Ascending((0 .. Max(dists)) \ dists)

Movers(dists) == Descending((0 .. Max(dists)) \ dists)

BankLanding(b, open, w) ==
  Min({(w - 1) \div 2, Max({0, FreeStride - Apart(open, b.last)})})

\* `far` are the distances of the elements that move, farthest first.
Gathered(b, open, right, holes, dists, far) ==
  LET at(x) == IF right THEN open + x ELSE open - x
      dist(p) == IF right THEN p - open ELSE open - p
      to == [p \in 0 .. b.cap - 1 |->
               IF dist(p) >= 0 THEN at(Crossed(dists, dist(p))) ELSE p]
  IN  [b EXCEPT
        !.data = Relocated(@, to,
          {at(x) : x \in GatherMask(dists, {dist(p) : p \in Live(b)})}),
        !.last = to[@],
        !.event = Event(b.tr,
          [i \in DOMAIN far |-> <<at(far[i]), at(Crossed(dists, far[i]))>>],
          {<<holes[i], at((i - 1) + (i - 1) \div Chunk)>> : i \in DOMAIN holes})]

\* A run gives one sentinel per Chunk holes, so it must have as many elements.
Kept(open, fetched) ==
  SubSeq(fetched, 1, Min({Len(fetched), Chunk * Apart(open, fetched[1]) + 1}))

BankHoles(b, open, right, holes) ==
  LET dists == {Apart(open, holes[i]) : i \in DOMAIN holes}
      landing == BankLanding(b, open, Len(holes))
  IN  Opened(Gathered(b, open, right, holes, dists, Movers(dists)),
             IF right THEN open + landing ELSE open - landing)

Bank(b, spot, hole) ==
  LET right == hole > spot
      open == IF right THEN spot ELSE spot - 1
      want == Apart(hole, spot) \div FreeStride
  IN  BankHoles(b, open, right, Kept(open, FetchHoles(b, spot, right, want)))

-----------------------------------------------------------------------------
(* Water-leveling: the words around the spot are absorbed until they are   *)
(* sparse enough, and their elements spread evenly with k at its rank.     *)

LiveIn(b, lo, hi) == {p \in Live(b) : lo * Word <= p /\ p < (hi + 1) * Word}

\* Where a scan can be: at the words lo..hi of a block of cap slots.
Windows(b) ==
  {s \in (0 .. NameCount) \X (0 .. NameCount) \X (0 .. NameCount) :
     s[1] <= s[2] /\ s[2] * Word < s[3] /\ b.cap <= s[3]}

\* The words lo..hi absorbed, the capacity after minting, and whether the
\* scan stopped (or gave up at the slot ceiling).
Scan(b, spot, budget) ==
  LET f[s \in Windows(b)] ==
        LET lo == s[1]
            hi == s[2]
            cap == s[3]
            live == Cardinality(LiveIn(b, lo, hi))
            span == Min({(hi + 1) * Word, cap}) - lo * Word
            aboveMean == span < budget /\ live * cap > Count(b) * span
            unworkable == live * FreeDen >= span * FreeNum
            left == lo > 0
            right == (hi + 1) * Word < cap
            lw == Cardinality(LiveIn(b, lo - 1, lo - 1))
            rw == Cardinality(LiveIn(b, hi + 1, hi + 1))
            grown == cap + (live * FreeDen) \div FreeNum + 1 - span
            stop(ok) == [lo |-> lo, hi |-> hi, cap |-> cap, ok |-> ok]
        IN  IF ~ aboveMean /\ ~ unworkable THEN stop(TRUE)
            ELSE IF unworkable /\ ~ right /\ (left => lw > 0)
                 THEN IF grown > NameCount THEN stop(FALSE)
                      ELSE f[<<lo, (grown - 1) \div Word, grown>>]
            ELSE IF ~ left /\ ~ right THEN stop(TRUE)
            ELSE IF left /\ (right => lw <= rw) THEN f[<<lo - 1, hi, cap>>]
            ELSE f[<<lo, hi + 1, cap>>]
      w == Min({spot, b.cap - 1}) \div Word
  IN  f[<<w, w, b.cap>>]

\* Rank i among the live elements, and k at rank r between them, on a lattice
\* with one hole per stride.
Lattice(i, r, stride) ==
  LET j == IF i >= r THEN i + 1 ELSE i IN j + j \div (stride - 1)

PairsOf(movers, to) == [i \in DOMAIN movers |-> <<movers[i], to[movers[i]]>>]

MinStride(live, span) ==
  Min({s \in 2 .. span + 2 : live + live \div (s - 1) < span})

\* The region base .. end-1 with its live elements, k at rank r.
Level(b, base, end, live, r, stride) ==
  LET rank(p) == Cardinality({q \in live : q < p})
      to == [p \in 0 .. b.cap - 1 |->
               IF p \in live THEN base + Lattice(rank(p), r, stride) ELSE p]
      movers == Descending({p \in live : to[p] > p})
                  \o Ascending({p \in live : to[p] < p})
  IN  Opened(
        [b EXCEPT !.data = Relocated(@, to, {to[p] : p \in Live(b)}),
                  !.last = to[@],
                  !.event = Event(b.tr, PairsOf(movers, to), {<<base, end - 1>>})],
        base + r + r \div (stride - 1))

\* No region to level: the nearest hole slides, however far; one is minted if
\* there is none.
SlideFar(b, spot) ==
  IF Clear(b) = {} THEN SlideOpen(PushSlots(b, 1), b.cap, spot)
  ELSE SlideOpen(b, NearestClear(b, spot), spot)

RebalanceRegion(b, spot, base, end, live) ==
  IF live = {} THEN Opened(RecordSlide(b, base, base), base)
  ELSE Level(b, base, end, live, Cardinality({p \in live : p < spot}),
             MinStride(Cardinality(live), end - base))

Levelled(b, spot, ok, base, end, live) ==
  IF ok /\ Cardinality(live) < end - base
  THEN RebalanceRegion(b, spot, base, end, live)
  ELSE SlideFar(b, spot)

\* The window the scan found, in the block it minted.
LevelWindow(b, spot, s) ==
  Levelled(PushSlots(b, s.cap - b.cap), spot, s.ok, s.lo * Word,
           Min({(s.hi + 1) * Word, s.cap}), LiveIn(b, s.lo, s.hi))

Rebalance(b, spot, hole) ==
  LevelWindow(b, spot, Scan(b, spot, 2 * Apart(hole, spot) + Word))

-----------------------------------------------------------------------------
(* The ladder.                                                             *)

\* A solid mask mints tail slots.
MintWant(b, spot) ==
  Min({1 + (b.cap - spot) \div FreeStride, NameCount - b.cap})

Minted(b, spot) ==
  IF Clear(b) = {} THEN PushSlots(b, MintWant(b, spot)) ELSE b
HoleFor(b, spot) ==
  IF Clear(b) = {} THEN b.cap + MintWant(b, spot) - 1 ELSE NearestClear(b, spot)

\* The fork: a near hole slides; hot or not far inserts bank; cold ones level.
Fork(b, spot, hole) ==
  IF Apart(hole, spot) <= FreeStride THEN SlideOpen(b, hole, spot)
  ELSE IF b.streak >= StreakBank \/ Apart(hole, spot) <= NearHole
       THEN Bank(b, spot, hole)
       ELSE Rebalance(b, spot, hole)

GatherSlots(b, spot) ==
  IF GapHi(b, spot) > GapLo(b, spot) THEN Subdivide(b, spot)
  ELSE Fork(Minted(b, spot), spot, HoleFor(b, spot))

SolidTail(b, spot) ==
  /\ spot < b.cap /\ b.cap - spot <= FreeStride
  /\ b.cap < NameCount
  /\ spot .. b.cap - 1 \subseteq Live(b)

TurnDue(b, spot) ==
  /\ Count(b) * TurnDen > b.cap * TurnNum
  /\ b.cap - spot > FreeStride

Turns(b, spot) == TurnDue(b, spot) /\ CanTurn(b)

Open(b, spot) ==
  IF SolidTail(b, spot) THEN SlideOpen(PushSlots(b, 1), b.cap, spot)
  ELSE GatherSlots(IF Turns(b, spot) THEN GrowRotate(b) ELSE b,
                   IF Turns(b, spot) THEN TurnedSpot(b, spot) ELSE spot)

Place(b, k, p) ==
  [b EXCEPT !.data = @ \union {<<p, k>>},
            !.sum = @ + p,
            !.streak = IF Apart(p, b.last) <= FreeStride THEN @ + 1 ELSE 0,
            !.last = p]

PlaceOpened(opened, k) == Place(opened.b, k, opened.at)

PlaceFrom(b, k, spot) ==
  IF spot = b.cap /\ b.cap < NameCount
  THEN Place(PushSlots(b, 1), k, spot)
  ELSE PlaceOpened(Open(b, spot), k)

\* What an insert does before it knows whether the key can be placed.
Readied(b) ==
  IF b.cap = 0 \/ Count(b) >= NameCount THEN b ELSE MaybeFlip(b)

Placeable(b, k) ==
  b.cap = 0 \/ (Count(b) < NameCount /\ Spot(Readied(b), k) # Dup)

InsertReadied(b, k) == PlaceFrom(b, k, Spot(b, k))

Inserted(b, k) ==
  IF b.cap = 0 THEN Place(PushSlots(b, 4), k, 0)
  ELSE InsertReadied(Readied(b), k)

Removed(b, p) == [b EXCEPT !.data = {c \in @ : c[1] # p}, !.sum = @ - p]
=============================================================================
