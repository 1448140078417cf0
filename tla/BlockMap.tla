------------------------------ MODULE BlockMap ------------------------------
(***************************************************************************)
(* A BlockMap (crates/doa/src/blockmap.rs), whose slots hold a value beside *)
(* the key, and the BlockBiMap made of two of them (blockbimap.rs), each    *)
(* holding the other's names as its values. A map is a record               *)
(*                                                                          *)
(*   b      the slots, as in SlotOps. This block keeps no last insert, no   *)
(*          streak and no epoch: they stay at 0                             *)
(*   vals   key |-> the value in its slot                                   *)
(*                                                                          *)
(* Its ladder is the older one: no banking past the spot, no leveling.      *)
(***************************************************************************)
EXTENDS SlotSet

NewMap == [b |-> NewBlock, vals |-> <<>>]

\* What the block does not keep.
Plain(b) == [b EXCEPT !.last = 0, !.streak = 0, !.epoch = 0]

-----------------------------------------------------------------------------
(* The ladder.                                                              *)

MapReverseDue(b) ==
  Count(b) > 4 * FreeStride /\ 8 * b.sum \in 0 .. Count(b) * Count(b) - 1
MapReadied(b) ==
  IF b.cap > 0 /\ Count(b) < NameCount /\ MapReverseDue(b)
  THEN Plain(Flipped(b)) ELSE b

MapSearch(b, k) == Search(b, k)     \* the same search, over keys in place
MapSpot(b, k) ==
  IF BeyondTail(b, k) /\ Live(b) # {} THEN Max(Live(b)) + 1 ELSE MapSearch(b, k)

MapCanTurn(b) == b.cap <= Midpoint /\ b.tr.rot < Width

\* The block and the spot after a turn, where it can turn.
At(b, spot) == [b |-> b, spot |-> spot]
MapTurned(b, spot) == At(Plain(GrowRotate(b)), TurnedSpot(b, spot))

MapFar(b, spot, hole) ==
  LET right == hole > spot
      open == IF right THEN spot ELSE spot - 1
      want == 1 + Apart(hole, spot) \div FreeStride
      holes == Kept(open, FetchHoles(b, spot, right, want))
      dists == {Apart(open, holes[i]) : i \in DOMAIN holes}
  IN  Opened(Gathered(b, open, right, holes, dists, Movers(dists)), open)

MapGather(b, spot) ==
  IF spot \in Clear(b) THEN Opened(RecordSlide(b, spot, spot), spot)
  ELSE LET hole == NearestClear(b, spot)
       IN  IF Apart(hole, spot) <= FreeStride THEN SlideOpen(b, hole, spot)
           ELSE MapFar(b, spot, hole)

MapTurnDue(b, spot) == TurnDue(b, spot) /\ MapCanTurn(b)

\* A mask without a hole gets one: at a tail that is near, else by a turn.
Holed(b, spot) ==
  IF Clear(b) # {} THEN At(b, spot)
  ELSE IF (b.cap - spot <= FreeStride /\ b.cap < NameCount) \/ ~ MapCanTurn(b)
       THEN At(PushSlots(b, 1), spot)
       ELSE MapTurned(b, spot)

MapOpen(b, spot) ==
  LET turned == IF MapTurnDue(b, spot) THEN MapTurned(b, spot) ELSE At(b, spot)
      holed == Holed(turned.b, turned.spot)
  IN  MapGather(holed.b, holed.spot)

MapPlace(opened, k) ==
  Plain([opened.b EXCEPT !.data = @ \union {<<opened.at, k>>}, !.sum = @ + opened.at])

MapPlaced(b, k) ==
  LET spot == MapSpot(b, k)
  IN  IF b.cap = 0 THEN MapPlace(Opened(PushSlots(b, 4), 0), k)
      ELSE IF spot = b.cap /\ b.cap < NameCount
           THEN MapPlace(Opened(PushSlots(b, 1), spot), k)
           ELSE MapPlace(MapOpen(b, spot), k)

MapAnswer(m, ok) == [m |-> m, ok |-> ok]

MapInsert(m, k, v) ==
  LET b == MapReadied(m.b)
  IN  IF b.cap > 0 /\ (Count(b) >= NameCount \/ MapSpot(b, k) = Dup)
      THEN MapAnswer([m EXCEPT !.b = b], FALSE)
      ELSE MapAnswer([b |-> MapPlaced(b, k), vals |-> (k :> v) @@ m.vals], TRUE)

-----------------------------------------------------------------------------
(* Entries by name and by key.                                              *)

LiveName(m, name) == A2P(m.b.tr, name) \in Live(m.b)
KeyNamed(m, name) == KeyAt(m.b, A2P(m.b.tr, name))

MapGet(m, name) ==
  IF LiveName(m, name)
  THEN <<KeyNamed(m, name), m.vals[KeyNamed(m, name)]>> ELSE <<>>
MapValue(m, k) == IF MapSearch(m.b, k) = Dup THEN <<m.vals[k]>> ELSE <<>>

\* The walk in key order, and the cursor: a slot, or the ghost past the greatest
\* key. They are a BlockSet's over again, and yield entries.
MapEntry(m, p) ==
  IF p = Ghost THEN <<>> ELSE <<KeyAt(m.b, p), m.vals[KeyAt(m.b, p)]>>
MapInOrder(m) ==
  LET keys == InOrder(m.b) IN [i \in DOMAIN keys |-> MapEntry(m, PosOf(m.b, keys[i]))]
MapFind(m, k) == Find(m.b, k)
MapSeek(m, k) == Seek(m.b, k)
MapSeekAfter(m, k) == SeekAfter(m.b, k)
MapOn(m, p) == StepOn(m.b, p)
MapBack(m, p) == StepBack(m.b, p)

SetValue(m, name, v) ==
  IF LiveName(m, name) THEN [m EXCEPT !.vals[KeyNamed(m, name)] = v] ELSE m

\* remove leaves the sum of the positions as it is.
MapRemove(m, name) ==
  IF LiveName(m, name)
  THEN [b |-> [m.b EXCEPT !.data = {c \in @ : c[1] # A2P(m.b.tr, name)}],
        vals |-> [k \in DOMAIN m.vals \ {KeyNamed(m, name)} |-> m.vals[k]]]
  ELSE m

\* A map clears its event when the holder has drained it.
MapDrained(m) == [m EXCEPT !.b.event = NoEvent]

-----------------------------------------------------------------------------
(* The chase pulls the pairs of an event a second time (crates/doa/src/     *)
(* blockset.rs), from the slides recorded, the nearest hole's first.        *)

SlidesOf(event) ==
  LET from == {s[1] : s \in event.spans}
      right == \E s \in event.spans : s[1] > s[2]
      order == IF right THEN Ascending(from) ELSE Descending(from)
  IN  [i \in DOMAIN order |-> CHOOSE s \in event.spans : s[1] = order[i]]

\* The elements between two holes, all by the same hop, away from the spot.
Segment(start, end, hop) ==
  [i \in 1 .. end - start |->
     LET q == IF hop > 0 THEN end - i ELSE start + i - 1 IN <<q, q + hop>>]

SegmentOf(slides, right, j) ==
  LET w == Len(slides)
      drag == (w - 1) \div Chunk
      hole(i) == slides[i + 1][1]
      spot == IF right THEN slides[1][2] ELSE slides[1][2] + 1
  IN  IF right
      THEN Segment(IF j = 0 THEN spot + drag ELSE hole(j - 1) + 1, hole(j), w - j)
      ELSE Segment(hole(j) + 1, IF j = 0 THEN spot - drag ELSE hole(j - 1), j - w)

\* The sentinels, the farthest first.
Sentinels(slides, right) ==
  LET drag == (Len(slides) - 1) \div Chunk
      open == slides[1][2]
      at(x) == IF right THEN open + x ELSE open - x
  IN  [i \in 1 .. drag |-> <<at(drag - i), at(Sentinel(drag - i))>>]

GatherPairs(slides, right) ==
  FoldLeft(LAMBDA pairs, j : SegmentOf(slides, right, j) \o pairs, <<>>,
           [i \in DOMAIN slides |-> i - 1])
    \o Sentinels(slides, right)

ChasePairs(event) ==
  LET slides == SlidesOf(event)
  IN  IF Len(slides) = 0 THEN <<>>
      ELSE IF Len(slides) = 1 THEN SlidePairs(slides[1][1], slides[1][2])
      ELSE GatherPairs(slides, slides[1][1] > slides[1][2])

\* An entry that moved names its partner, which is told the new name.
Chased(emitter, target, pair) ==
  SetValue(target, emitter.vals[KeyAt(emitter.b, pair[2])],
           P2A(emitter.b.tr, pair[2]))

\* (mutant) the last pair of an event is not pulled.
ChaseShort(emitter, target) ==
  LET pairs == ChasePairs(emitter.b.event)
  IN  FoldLeft(LAMBDA t, pair : Chased(emitter, t, pair), target,
               SubSeq(pairs, 1, Len(pairs) - 1))

Chase(emitter, target) ==
  FoldLeft(LAMBDA t, pair : Chased(emitter, t, pair), target,
           ChasePairs(emitter.b.event))

-----------------------------------------------------------------------------
(* The map of both ways.                                                    *)

NewBiMap == [keys |-> NewMap, values |-> NewMap]
BiAnswer(m, ok) == [m |-> m, ok |-> ok]
Dummy == 0     \* the value of a key until its partner has a name

\* The key is in, under `name`; `placed` answers the insert of the value. A
\* value that is there already takes the key out again.
Paired(keys, name, v, placed) ==
  IF placed.ok
  THEN BiAnswer([keys |-> SetValue(Chase(placed.m, keys), name, NameOf(placed.m.b, v)),
                 values |-> placed.m], TRUE)
  ELSE BiAnswer([keys |-> MapRemove(keys, name), values |-> placed.m], FALSE)

PairedWith(m, keys, name, v) ==
  Paired(keys, name, v, MapInsert(Chase(keys, m.values), v, name))

BiInserted(m, k, v, placed) ==
  IF placed.ok THEN PairedWith(m, placed.m, NameOf(placed.m.b, k), v)
  ELSE BiAnswer([m EXCEPT !.keys = placed.m], FALSE)

BiInsert(m, k, v) == BiInserted(m, k, v, MapInsert(m.keys, k, Dummy))

\* The pair of a key's name.
RemovePair(m, name) ==
  [values |-> MapRemove(m.values, MapGet(m.keys, name)[2]),
   keys |-> MapRemove(m.keys, name)]
RemoveByKey(m, k) == RemovePair(m, MapFind(m.keys, k))
RemoveByValue(m, v) == RemovePair(m, MapGet(m.values, MapFind(m.values, v))[2])

\* An entry of one side with the key of its partner.
Joined(side, other, entry) ==
  IF entry = <<>> THEN <<>>
  ELSE IF LiveName(other, entry[2]) THEN <<entry[1], KeyNamed(other, entry[2])>>
  ELSE <<entry[1]>>     \* the partner is gone: a panic

GetAt(m, name) == Joined(m.keys, m.values, MapGet(m.keys, name))
GetAtValue(m, name) == Joined(m.values, m.keys, MapGet(m.values, name))
GetByKey(m, k) ==
  IF MapFind(m.keys, k) = None THEN <<>> ELSE GetAt(m, MapFind(m.keys, k))
GetByValue(m, v) ==
  IF MapFind(m.values, v) = None THEN <<>> ELSE GetAtValue(m, MapFind(m.values, v))

\* A walk and the cursors of one side join each entry with the other's.
Entries(side, other) ==
  LET walk == MapInOrder(side) IN [i \in DOMAIN walk |-> Joined(side, other, walk[i])]
KeyCursor(m, p) == Joined(m.keys, m.values, MapEntry(m.keys, p))
ValueCursor(m, p) == Joined(m.values, m.keys, MapEntry(m.values, p))
\* addrs: the name of the key, then that of the value.
KeyCursorNames(m, p) == <<P2A(m.keys.b.tr, p), MapEntry(m.keys, p)[2]>>
ValueCursorNames(m, p) == <<MapEntry(m.values, p)[2], P2A(m.values.b.tr, p)>>

BiDrained(m) == [keys |-> MapDrained(m.keys), values |-> MapDrained(m.values)]
=============================================================================
