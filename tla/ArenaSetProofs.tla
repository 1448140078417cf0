------------------------------ MODULE ArenaSetProofs -------------------------
(***************************************************************************)
(* An ArenaSet and a caller of it: a key that is given is found, at the    *)
(* address the caller follows, for every width, stride and ratio, any      *)
(* number of blocks and keys, and every earlier history of the blocks.     *)
(***************************************************************************)
EXTENDS ArenaSet, BlockSetProofs

-----------------------------------------------------------------------------
(* The ends of a block, and a lookup in it.                                *)

\* The least key of a block is at its low end, which side that is.
LEMMA MinKeyIs ==
    ASSUME NEW c, Good(c), KeysOf(c) # {}
    PROVE  /\ MinKeyOf(c) \in KeysOf(c) /\ MinKeyOf(c) \in Nat
           /\ \A x \in KeysOf(c) : MinKeyOf(c) <= x
<1>. DEFINE p == IF c.tr.rev THEN Max(Live(c)) ELSE Min(Live(c))
<1>1. /\ c.cap \in Nat /\ c.tr.rev \in BOOLEAN /\ Live(c) \in SUBSET (0 .. c.cap)
      /\ Live(c) \in SUBSET Nat
  BY GoodTypes, LiveIs
<1>2. Live(c) # {}  BY KeyIs
<1>3. p \in Live(c) /\ \A q \in Live(c) : IF c.tr.rev THEN q <= p ELSE p <= q
  <2>1. CASE c.tr.rev  BY <1>1, <1>2, <2>1, MostIs
  <2>2. CASE ~c.tr.rev  BY <1>1, <1>2, <2>2, LeastIs
  <2>. QED  BY <1>1, <2>1, <2>2
<1>4. MinKeyOf(c) = KeyAt(c, p)  BY DEF MinKeyOf
<1>. HIDE DEF p
<1>5. KeyAt(c, p) \in KeysOf(c) /\ KeyAt(c, p) \in Nat  BY <1>3, SlotIs
<1>6. ASSUME NEW x \in KeysOf(c) PROVE KeyAt(c, p) <= x
  <2>. DEFINE q == PosOf(c, x)
  <2>1. q \in Live(c) /\ q \in Nat /\ KeyAt(c, q) = x /\ x \in Nat  BY KeyIs
  <2>2. p \in Nat  BY <1>1, <1>3
  <2>. HIDE DEF q
  <2>3. p < q <=> Precedes(c, KeyAt(c, p), x)  BY <1>3, <2>1, SlotOrder
  <2>4. q < p <=> Precedes(c, x, KeyAt(c, p))  BY <1>3, <2>1, SlotOrder
  <2>5. CASE c.tr.rev
    <3>1. ~(p < q)  BY <1>3, <2>1, <2>2, <2>5
    <3>. QED  BY <1>5, <2>1, <2>3, <2>5, <3>1 DEF Precedes
  <2>6. CASE ~c.tr.rev
    <3>1. ~(q < p)  BY <1>3, <2>1, <2>2, <2>6
    <3>. QED  BY <1>5, <2>1, <2>4, <2>6, <3>1 DEF Precedes
  <2>. QED  BY <1>1, <2>5, <2>6
<1>. QED  BY <1>4, <1>5, <1>6

\* A key is beyond the tail when every key of the block comes before it.
LEMMA BeyondIs ==
    ASSUME NEW c, Good(c), KeysOf(c) # {}, NEW k \in Nat
    PROVE  BeyondTail(c, k) <=> \A x \in KeysOf(c) : Precedes(c, x, k)
<1>. DEFINE p == Max(Live(c))
<1>1. c.cap \in Nat /\ Live(c) \in SUBSET (0 .. c.cap) /\ Live(c) \subseteq Nat
  BY GoodTypes, LiveIs
<1>2. Live(c) # {}  BY KeyIs
<1>3. p \in Live(c) /\ p \in Nat /\ \A q \in Live(c) : q <= p
  <2>1. p \in Live(c) /\ \A q \in Live(c) : q <= p  BY <1>1, <1>2, MostIs
  <2>. HIDE DEF p
  <2>. QED  BY <1>1, <2>1
<1>4. BeyondTail(c, k) <=> Precedes(c, KeyAt(c, p), k)  BY <1>2 DEF BeyondTail
<1>. HIDE DEF p
<1>5. KeyAt(c, p) \in KeysOf(c) /\ KeyAt(c, p) \in Nat  BY <1>3, SlotIs
<1>6. ASSUME NEW x \in KeysOf(c), Precedes(c, KeyAt(c, p), k) PROVE Precedes(c, x, k)
  <2>. DEFINE q == PosOf(c, x)
  <2>1. q \in Live(c) /\ q \in Nat /\ KeyAt(c, q) = x /\ x \in Nat  BY KeyIs
  <2>2. q <= p  BY <1>3, <2>1
  <2>. HIDE DEF q
  <2>3. q < p => Precedes(c, x, KeyAt(c, p))  BY <1>3, <2>1, SlotOrder
  <2>4. q < p => Precedes(c, x, k)  BY <1>5, <1>6, <2>1, <2>3, PrecedesIs
  <2>. QED  BY <1>3, <1>6, <2>1, <2>2, <2>4
<1>. QED  BY <1>4, <1>5, <1>6

\* A lookup in a sound block answers the name of a key that is there.
LEMMA FindIs ==
    ASSUME NEW c, Good(c), NEW k \in Nat
    PROVE  Find(c, k) = IF k \in KeysOf(c) THEN NameOf(c, k) ELSE None
<1>1. k \notin KeysOf(c) => Search(c, k) # Dup
  <2>1. ASSUME k \notin KeysOf(c) PROVE Search(c, k) # Dup
    <3>1. Search(c, k) \in 0 .. c.cap  BY <2>1, SearchIs DEF Answers, Belongs
    <3>2. c.cap \in Nat  BY GoodTypes
    <3>. QED  BY <3>1, <3>2 DEF Dup
  <2>. QED  BY <2>1
<1>2. ASSUME k \in KeysOf(c)
      PROVE  ~BeyondTail(c, k) /\ ~BeforeHead(c, k) /\ Search(c, k) = Dup
  <2>1. ~BeyondTail(c, k)  BY <1>2, BeyondIs, PrecedesIs
  <2>2. ~BeforeHead(c, k)
    <3>. DEFINE p == Min(Live(c))
                q == PosOf(c, k)
    <3>1. q \in Live(c) /\ q \in Nat /\ KeyAt(c, q) = k  BY <1>2, KeyIs
    <3>2. p \in Live(c) /\ p <= q /\ p \in Nat
      <4>1. Live(c) \in SUBSET Nat  BY LiveIs
      <4>. HIDE DEF q
      <4>. QED  BY <3>1, <4>1, LeastIs
    <3>3. BeforeHead(c, k) => ~Precedes(c, KeyAt(c, p), k) /\ KeyAt(c, p) # k
      BY DEF BeforeHead
    <3>. HIDE DEF p, q
    <3>4. p < q => Precedes(c, KeyAt(c, p), k)  BY <3>1, <3>2, SlotOrder
    <3>. QED  BY <3>1, <3>2, <3>3, <3>4
  <2>. QED  BY <1>2, <2>1, <2>2, SearchIs DEF Answers
<1>. QED  BY <1>1, <1>2 DEF Find

\* What an insert answers, of a block that holds something.
LEMMA InsertIntoIs ==
    ASSUME NEW c, Good(c), c.cap > 0, NEW k \in Nat
    PROVE  /\ InsertInto(c, k).ok => InsertInto(c, k).b = Inserted(c, k) /\ Placeable(c, k)
           /\ ~InsertInto(c, k).ok =>
                /\ InsertInto(c, k).b = Readied(c) /\ Silent(c, Readied(c))
                /\ Good(Readied(c))
                /\ k \in KeysOf(c) \/ Count(c) >= NameCount
           /\ k \notin KeysOf(c) /\ Count(c) < NameCount => Placeable(c, k)
           /\ InsertInto(c, k).ok \in BOOLEAN
<1>. DEFINE r == InsertInto(c, k)
<1>1. IF Placeable(c, k) THEN r.b = Inserted(c, k) /\ r.ok = TRUE
      ELSE r.b = Readied(c) /\ r.ok = FALSE
  <2>. DEFINE x == Inserted(c, k)
              y == Readied(c)
  <2>1. r = IF Placeable(c, k) THEN [b |-> x, ok |-> TRUE] ELSE [b |-> y, ok |-> FALSE]
    BY DEF InsertInto, Answer
  <2>. HIDE DEF r, x, y
  <2>. QED  BY <2>1 DEF x, y
<1>. HIDE DEF r
<1>2. Silent(c, Readied(c)) /\ Good(Readied(c))  BY ReadiedIs
<1>3. ASSUME k \notin KeysOf(c), Count(c) < NameCount PROVE Placeable(c, k)
  <2>1. KeysOf(Readied(c)) = KeysOf(c)  BY <1>2 DEF Silent, SameNames
  <2>2. Belongs(Readied(c), k, Spot(Readied(c), k))  BY <1>2, <1>3, <2>1, SpotIs DEF Answers
  <2>3. Readied(c).cap \in Nat  BY <1>2, GoodTypes
  <2>4. Spot(Readied(c), k) # Dup  BY <2>2, <2>3 DEF Belongs, Dup
  <2>. QED  BY <1>3, <2>4 DEF Placeable
<1>4. Count(c) \in Nat /\ NameCount \in Nat  BY LiveIs, NamesAre
<1>5. ~Placeable(c, k) => k \in KeysOf(c) \/ Count(c) >= NameCount  BY <1>3, <1>4
<1>6. r.ok \in BOOLEAN /\ (r.ok <=> Placeable(c, k))
      /\ r.b = IF Placeable(c, k) THEN Inserted(c, k) ELSE Readied(c)
  BY <1>1
<1>. QED  BY <1>2, <1>3, <1>5, <1>6 DEF r

-----------------------------------------------------------------------------
(* The halves of a cleave.                                                 *)

\* A translator shifted by a cut names a slot as it did before the cut.
LEMMA ShiftedIs ==
    ASSUME NEW tr \in Translator, NEW at \in Names, NEW p \in Names, at <= p
    PROVE  /\ Shifted(tr, at) \in Translator /\ Shifted(tr, at).rev = tr.rev
           /\ P2A(Shifted(tr, at), p - at) = P2A(tr, p)
<1>. DEFINE n == NameCount
            off == tr.off
            new == (off - at) % n
            t == Shifted(tr, at)
            q == p - at
<1>1. n \in Nat /\ n > 0 /\ Names = 0 .. n - 1  BY NamesAre DEF Names
<1>2. off \in Names /\ tr.rot \in 0 .. Width /\ tr.rev \in BOOLEAN  BY DEF Translator
<1>. HIDE DEF n
<1>3. off - at \in Int /\ new \in Names  BY <1>1, <1>2, Remainder
<1>4. t \in Translator /\ t.off = new /\ t.rot = tr.rot /\ t.rev = tr.rev
  BY <1>2, <1>3 DEF Shifted, Translator, n
<1>. HIDE DEF off, t
<1>5. (at <= off /\ new = off - at) \/ (off < at /\ new = off - at + n)
  <2>1. CASE at <= off
    <3>1. off - at \in 0 .. n - 1  BY <1>1, <1>2, <2>1
    <3>. QED  BY <1>1, <2>1, <3>1, Remainder
  <2>2. CASE off < at
    <3>1. off - at \in -n .. -1  BY <1>1, <1>2, <2>2
    <3>. QED  BY <1>1, <2>2, <3>1, Remainder
  <2>. QED  BY <1>1, <1>2, <2>1, <2>2
<1>. HIDE DEF new
<1>6. q \in Names /\ q \in Nat /\ new \in Nat /\ off \in Nat /\ at \in Nat /\ p \in Nat
      /\ n \in Nat /\ n > 0 /\ q + at = p
      /\ p < n /\ off < n /\ at < n /\ q < n /\ new < n
  BY <1>1, <1>2, <1>3
<1>. HIDE DEF q
<1>7. ((new - q) % n) = ((off - p) % n) /\ ((q - new) % n) = ((p - off) % n)
  <2>1. CASE new = off - at
    <3>1. new - q = off - p /\ q - new = p - off  BY <1>6, <2>1
    <3>. QED  BY <3>1
  <2>2. CASE off < at /\ new = off - at + n
    <3>1. /\ off - p \in -n .. -1 /\ new - q = off - p + n /\ new - q \in 0 .. n - 1
          /\ off - p \in Int /\ new - q \in Int
      BY <1>6, <2>2
    <3>2. /\ p - off \in 0 .. n - 1 /\ q - new = p - off - n /\ q - new \in -n .. -1
          /\ p - off - n + n = p - off /\ p - off \in Int /\ q - new \in Int
      BY <1>6, <2>2
    <3>3. (off - p) % n = off - p + n /\ (new - q) % n = new - q  BY <1>6, <3>1, Remainder
    <3>4. (p - off) % n = p - off /\ (q - new) % n = q - new + n  BY <1>6, <3>2, Remainder
    <3>. QED  BY <3>1, <3>2, <3>3, <3>4
  <2>. QED  BY <1>5, <2>1, <2>2
<1>8. P2A(t, q) = P2A(tr, p)
  BY <1>4, <1>7 DEF P2A, n, off
<1>. QED  BY <1>4, <1>8 DEF t, q

\* the block d holds the keys of c in S, under the names they have in c
Portion(c, d, S) ==
    /\ Good(d) /\ d.event = NoEvent /\ d.cap > 0
    /\ KeysOf(d) = S /\ Count(d) < NameCount
    /\ \A k \in S : NameOf(d, k) = NameOf(c, k)

Below(c, at) == {k \in KeysOf(c) : PosOf(c, k) < at}
From(c, at) == {k \in KeysOf(c) : ~(PosOf(c, k) < at)}

\* The low half keeps the keys below the cut, and their names.
LEMMA CleavedLeftIs ==
    ASSUME NEW c, Good(c), NEW at \in 1 .. c.cap, at < NameCount, c.event = NoEvent
    PROVE  Portion(c, CleavedLeft(c, at), Below(c, at))
<1>. DEFINE data == {x \in c.data : x[1] < at}
            e == [c EXCEPT !.data = data]
            sum == (Count(e) * (Count(e) - 1)) \div 2
            d == CleavedLeft(c, at)
<1>1. Whole(c) /\ c.cap \in Nat /\ at \in Nat /\ at >= 1  BY GoodTypes DEF Good
<1>2. d = [e EXCEPT !.sum = sum, !.streak = 0]  BY DEF CleavedLeft, Seeded
<1>. HIDE DEF d, sum, data
<1>3. d = [cap |-> c.cap, data |-> data, tr |-> c.tr, sum |-> sum, last |-> c.last,
           streak |-> 0, epoch |-> c.epoch, event |-> c.event]
  BY <1>1, <1>2 DEF Whole
<1>4. /\ Whole(d) /\ d.cap = c.cap /\ d.data = data /\ d.tr = c.tr /\ d.last = c.last
      /\ d.streak = 0 /\ d.epoch = c.epoch /\ d.event = NoEvent
  BY <1>3 DEF Whole
<1>5. Good(d)
  <2>1. data \subseteq c.data  BY DEF data
  <2>2. KeyOrder(d)  BY <1>4, <2>1 DEF Good, KeyOrder, Precedes
  <2>3. c.last \in 0 .. c.cap - 1  BY <1>1 DEF Good
  <2>. QED  BY <1>4, <2>1, <2>2, <2>3 DEF Good
<1>6. \A x \in data : x \in c.data /\ x[1] < at /\ x[2] \in KeysOf(c)
                       /\ PosOf(c, x[2]) = x[1] /\ PosOf(d, x[2]) = x[1]
  BY <1>4, <1>5, PairIs DEF data
<1>7. KeysOf(d) = Below(c, at)
  <2>1. KeysOf(d) = {x[2] : x \in data}  BY <1>4 DEF KeysOf
  <2>2. KeysOf(d) \subseteq Below(c, at)  BY <1>6, <2>1 DEF Below
  <2>3. ASSUME NEW k \in Below(c, at) PROVE k \in KeysOf(d)
    <3>1. <<PosOf(c, k), k>> \in c.data /\ PosOf(c, k) < at  BY KeyIs DEF Below
    <3>2. <<PosOf(c, k), k>> \in data  BY <3>1 DEF data
    <3>. QED  BY <2>1, <3>2
  <2>. QED  BY <2>2, <2>3
<1>8. ASSUME NEW k \in Below(c, at) PROVE NameOf(d, k) = NameOf(c, k)
  <2>1. <<PosOf(c, k), k>> \in c.data /\ PosOf(c, k) < at  BY KeyIs DEF Below
  <2>2. <<PosOf(c, k), k>> \in data  BY <2>1 DEF data
  <2>3. PosOf(d, k) = PosOf(c, k)  BY <1>6, <2>2
  <2>. QED  BY <1>4, <2>3 DEF NameOf
<1>9. Count(d) < NameCount
  <2>1. Count(d) = Cardinality(Live(d)) /\ Live(d) \subseteq Nat  BY <1>5, LiveIs
  <2>2. Live(d) \subseteq 0 .. at - 1
    <3>1. \A x \in data : x[1] < at /\ x[1] \in Live(d)  BY <1>4, <1>6 DEF Live
    <3>2. Live(d) = {x[1] : x \in data}  BY <1>4 DEF Live
    <3>3. \A p \in Live(d) : p \in Nat /\ p < at  BY <2>1, <3>1, <3>2
    <3>. QED  BY <1>1, <3>3
  <2>3. IsFiniteSet(0 .. at - 1) /\ Cardinality(0 .. at - 1) = at
    <3>1. 0 \in Int /\ at - 1 \in Int /\ ~(0 > at - 1) /\ at - 1 - 0 + 1 = at  BY <1>1
    <3>. QED  BY <3>1, FS_Interval
  <2>4. Cardinality(Live(d)) <= at  BY <2>2, <2>3, FS_Subset
  <2>5. Count(d) \in Nat  BY <1>5, LiveIs
  <2>. QED  BY <1>1, <2>1, <2>4, <2>5, NamesAre
<1>10. d.cap > 0  BY <1>1, <1>4
<1>. QED  BY <1>4, <1>5, <1>7, <1>8, <1>9, <1>10 DEF Portion, d

\* the right half before it is flipped
Moving(c, at) ==
    Seeded([NewBlock EXCEPT
              !.cap = c.cap - at,
              !.data = {<<x[1] - at, x[2]>> : x \in {y \in c.data : y[1] >= at}},
              !.tr = Shifted(c.tr, at),
              !.last = Max({0, c.last - at})])

\* The elements moved out of a block are those at the cut and beyond.
LEMMA MovingIs ==
    ASSUME NEW c, Good(c), NEW at \in 1 .. c.cap - 1
    PROVE  Portion(c, Moving(c, at), From(c, at))
<1>. DEFINE data == {<<x[1] - at, x[2]>> : x \in {y \in c.data : y[1] >= at}}
            last == Max({0, c.last - at})
            tr == Shifted(c.tr, at)
            cap == c.cap - at
            e == [NewBlock EXCEPT !.cap = cap, !.data = data, !.tr = tr, !.last = last]
            sum == (Count(e) * (Count(e) - 1)) \div 2
            d == Moving(c, at)
<1>1. /\ c.cap \in Nat /\ c.cap <= NameCount /\ NameCount \in Nat
      /\ at \in Nat /\ at >= 1 /\ cap \in Nat /\ cap >= 1 /\ cap < NameCount
      /\ cap \in 0 .. NameCount /\ c.tr \in Translator /\ c.last \in Nat
  BY GoodTypes, NamesAre
<1>2. d = [e EXCEPT !.sum = sum, !.streak = 0]  BY DEF Moving, Seeded
<1>3. \A p \in 0 .. c.cap - 1 : at <= p => P2A(tr, p - at) = P2A(c.tr, p)
  <2>1. at \in Names /\ 0 .. c.cap - 1 \subseteq Names  BY <1>1 DEF Names
  <2>. QED  BY <1>1, <2>1, ShiftedIs
<1>4. tr \in Translator /\ tr.rev = c.tr.rev
  <2>1. at \in Names /\ at <= at  BY <1>1 DEF Names
  <2>. QED  BY <1>1, <2>1, ShiftedIs
<1>5. last \in 0 .. cap - 1
  <2>. DEFINE x == c.last - at
  <2>1. c.last \in 0 .. c.cap - 1  BY <1>1 DEF Good
  <2>2. x \in Int /\ x <= cap - 1  BY <1>1, <2>1
  <2>3. CASE x >= 0
    <3>1. x \in 0 .. cap - 1  BY <1>1, <2>2, <2>3
    <3>. HIDE DEF x
    <3>2. cap - 1 \in Nat /\ {0, x} \in SUBSET (0 .. cap - 1) /\ {0, x} # {}  BY <1>1, <3>1
    <3>3. Max({0, x}) \in {0, x}  BY <3>2, MostIs
    <3>. QED  BY <3>2, <3>3 DEF x
  <2>4. CASE x < 0
    <3>. HIDE DEF x
    <3>1. 0 \in {0, x} /\ \A y \in {0, x} : 0 >= y  BY <2>2, <2>4
    <3>2. \A z \in {0, x} : (\A y \in {0, x} : z >= y) => z = 0  BY <2>2, <2>4
    <3>3. Max({0, x}) = 0  BY <3>1, <3>2 DEF Max
    <3>. QED  BY <1>1, <3>3 DEF x
  <2>. QED  BY <2>2, <2>3, <2>4
<1>. HIDE DEF d, sum, data, tr, last, cap
<1>6. d = [cap |-> cap, data |-> data, tr |-> tr, sum |-> sum, last |-> last,
           streak |-> 0, epoch |-> 0, event |-> NoEvent]
  BY <1>2 DEF NewBlock
<1>7. /\ Whole(d) /\ d.cap = cap /\ d.data = data /\ d.tr = tr /\ d.last = last
      /\ d.streak = 0 /\ d.epoch = 0 /\ d.event = NoEvent
  BY <1>6 DEF Whole
<1>8. \A x \in c.data : /\ x = <<x[1], x[2]>> /\ x[1] \in 0 .. c.cap - 1 /\ x[1] \in Nat
                        /\ x[2] \in Nat /\ x[2] \in KeysOf(c) /\ PosOf(c, x[2]) = x[1]
  BY PairIs
<1>9. ASSUME NEW y \in data
      PROVE  \E u \in c.data : u[1] >= at /\ y = <<u[1] - at, u[2]>>
  BY DEF data
<1>10. ASSUME NEW u \in c.data, u[1] >= at PROVE <<u[1] - at, u[2]>> \in data
  BY <1>10 DEF data
<1>11. Good(d)
  <2>1. ASSUME NEW y \in data PROVE y \in (0 .. cap - 1) \X Nat
    <3>1. PICK u \in c.data : u[1] >= at /\ y = <<u[1] - at, u[2]>>  BY <1>9
    <3>2. u[1] \in 0 .. c.cap - 1 /\ u[2] \in Nat  BY <1>8
    <3>3. u[1] - at \in 0 .. cap - 1  BY <1>1, <3>1, <3>2 DEF cap
    <3>. QED  BY <3>1, <3>2, <3>3
  <2>2. KeyOrder(d)
    <3>. SUFFICES ASSUME NEW x \in data, NEW y \in data, x # y
                  PROVE  x[1] < y[1] <=> Precedes(d, x[2], y[2])
      BY <1>7 DEF KeyOrder
    <3>1. PICK u \in c.data : u[1] >= at /\ x = <<u[1] - at, u[2]>>  BY <1>9
    <3>2. PICK v \in c.data : v[1] >= at /\ y = <<v[1] - at, v[2]>>  BY <1>9
    <3>3. u # v  BY <3>1, <3>2
    <3>4. u[1] < v[1] <=> Precedes(c, u[2], v[2])  BY <3>3 DEF Good, KeyOrder
    <3>5. /\ x[1] = u[1] - at /\ y[1] = v[1] - at /\ x[2] = u[2] /\ y[2] = v[2]
          /\ u[1] \in Nat /\ v[1] \in Nat
      BY <3>1, <3>2, <1>8
    <3>6. x[1] < y[1] <=> u[1] < v[1]  BY <1>1, <3>5
    <3>7. Precedes(d, u[2], v[2]) <=> Precedes(c, u[2], v[2])
      BY <1>4, <1>7 DEF Precedes
    <3>. QED  BY <3>4, <3>5, <3>6, <3>7
  <2>3. data \subseteq (0 .. cap - 1) \X Nat  BY <2>1
  <2>. QED  BY <1>1, <1>4, <1>5, <1>7, <2>2, <2>3 DEF Good
<1>12. ASSUME NEW k \in From(c, at)
       PROVE  /\ k \in KeysOf(d) /\ PosOf(d, k) = PosOf(c, k) - at
              /\ NameOf(d, k) = NameOf(c, k)
  <2>. DEFINE p == PosOf(c, k)
              y == <<p - at, k>>
  <2>1. <<p, k>> \in c.data /\ p \in 0 .. c.cap - 1 /\ p \in Nat /\ k \in KeysOf(c)
    BY KeyIs DEF From
  <2>2. at <= p  BY <1>1, <2>1 DEF From
  <2>. HIDE DEF p
  <2>3. y \in data
    <3>. DEFINE u == <<p, k>>
    <3>1. u[1] = p /\ u[2] = k /\ u \in c.data  BY <2>1
    <3>. HIDE DEF u
    <3>. QED  BY <1>1, <1>10, <2>1, <2>2, <3>1
  <2>4. y[1] = p - at /\ y[2] = k  OBVIOUS
  <2>. HIDE DEF y
  <2>5. PosOf(d, y[2]) = y[1] /\ y[2] \in KeysOf(d)  BY <1>7, <1>11, <2>3, PairIs
  <2>6. NameOf(d, k) = P2A(tr, p - at)  BY <1>7, <2>4, <2>5 DEF NameOf
  <2>. QED  BY <1>3, <2>1, <2>2, <2>4, <2>5, <2>6 DEF NameOf, p
<1>13. KeysOf(d) \subseteq From(c, at)
  <2>. SUFFICES ASSUME NEW y \in data PROVE y[2] \in From(c, at)
    BY <1>7 DEF KeysOf
  <2>1. PICK u \in c.data : u[1] >= at /\ y = <<u[1] - at, u[2]>>  BY <1>9
  <2>2. u[2] \in KeysOf(c) /\ PosOf(c, u[2]) = u[1] /\ u[1] \in Nat /\ y[2] = u[2]
    BY <1>8, <2>1
  <2>. QED  BY <1>1, <2>1, <2>2 DEF From
<1>14. KeysOf(d) = From(c, at)  BY <1>12, <1>13
<1>15. Count(d) < NameCount
  <2>1. Count(d) <= cap /\ Count(d) \in Nat  BY <1>7, <1>11, LiveIs
  <2>. QED  BY <1>1, <2>1
<1>16. d.cap > 0  BY <1>1, <1>7
<1>. QED  BY <1>7, <1>11, <1>12, <1>14, <1>15, <1>16 DEF Portion, d

\* The high half holds the keys from the cut on, by the names they had.
LEMMA CleavedRightIs ==
    ASSUME NEW c, Good(c), NEW at \in 1 .. c.cap - 1
    PROVE  Portion(c, CleavedRight(c, at), From(c, at))
<1>. DEFINE d == Moving(c, at)
            f == CleavedRight(c, at)
<1>1. Portion(c, d, From(c, at))  BY MovingIs
<1>2. f = IF d.tr.rev THEN Flipped(d) ELSE d  BY DEF CleavedRight, Moving
<1>. HIDE DEF d, f
<1>3. ASSUME f = Flipped(d) PROVE Portion(c, f, From(c, at))
  <2>1. SameNames(d, f)  BY <1>1, <1>3, FlippedIs DEF Portion
  <2>. QED  BY <1>1, <2>1 DEF Portion, SameNames
<1>. QED  BY <1>1, <1>2, <1>3 DEF f

\* the block c, full, falls into two that hold something
LEMMA HalvesAre ==
    ASSUME NEW c, Good(c), Count(c) >= NameCount, c.event = NoEvent
    PROVE  LET at == Count(c) \div 2
           IN  /\ at \in 1 .. c.cap - 1
               /\ Portion(c, CleavedLeft(c, at), Below(c, at)) /\ Below(c, at) # {}
               /\ Portion(c, CleavedRight(c, at), From(c, at)) /\ From(c, at) # {}
<1>. DEFINE at == Count(c) \div 2
<1>1. /\ NameCount \in Nat /\ Midpoint \in Nat /\ Midpoint >= 2 /\ NameCount = 2 * Midpoint
      /\ c.cap \in Nat /\ c.cap <= NameCount /\ Count(c) \in Nat /\ Count(c) <= c.cap
  BY NamesAre, GoodTypes, LiveIs
<1>2. Count(c) = NameCount /\ c.cap = NameCount  BY <1>1
<1>3. at = Midpoint
  <2>1. Divided(Count(c), 2, Midpoint, 0)  BY <1>1, <1>2 DEF Divided
  <2>. QED  BY <2>1, QuotientOf
<1>. HIDE DEF at
<1>4. at \in 1 .. c.cap - 1 /\ at \in 1 .. c.cap /\ at < NameCount /\ at \in Nat
  BY <1>1, <1>2, <1>3
<1>5. 0 .. c.cap - 1 = Live(c)
  <2>1. Live(c) \subseteq 0 .. c.cap - 1 /\ Cardinality(Live(c)) = c.cap
    BY <1>2, LiveIs
  <2>2. IsFiniteSet(0 .. c.cap - 1) /\ Cardinality(0 .. c.cap - 1) = c.cap
    <3>1. 0 \in Int /\ c.cap - 1 \in Int /\ ~(0 > c.cap - 1) /\ c.cap - 1 - 0 + 1 = c.cap
      BY <1>1, <1>2
    <3>. QED  BY <3>1, FS_Interval
  <2>. QED  BY <1>1, <2>1, <2>2, FS_Subset
<1>6. 0 \in Live(c) /\ at \in Live(c)  BY <1>1, <1>2, <1>3, <1>5
<1>7. /\ KeyAt(c, 0) \in KeysOf(c) /\ PosOf(c, KeyAt(c, 0)) = 0
      /\ KeyAt(c, at) \in KeysOf(c) /\ PosOf(c, KeyAt(c, at)) = at
  BY <1>6, SlotIs
<1>8. KeyAt(c, 0) \in Below(c, at) /\ KeyAt(c, at) \in From(c, at)
  BY <1>4, <1>7 DEF Below, From
<1>9. Portion(c, CleavedLeft(c, at), Below(c, at))  BY <1>4, CleavedLeftIs
<1>10. Portion(c, CleavedRight(c, at), From(c, at))  BY <1>4, CleavedRightIs
<1>. QED  BY <1>4, <1>8, <1>9, <1>10 DEF at

-----------------------------------------------------------------------------
(* The index and the blocks.                                               *)

Leasts(B) == {MinKeyOf(B[i]) : i \in DOMAIN B}

\* the index X leads from the least key of every block in B to its place, and
\* no other block's least key lies between the keys of a block
Housed(B, X) ==
    /\ \A i \in DOMAIN B : Good(B[i]) /\ KeysOf(B[i]) # {}
    /\ X = [m \in Leasts(B) |-> X[m]]
    /\ \A i \in DOMAIN B : X[MinKeyOf(B[i])] = i
    /\ \A i, j \in DOMAIN B : \A x \in KeysOf(B[j]) :
         MinKeyOf(B[i]) <= x => MinKeyOf(B[i]) <= MinKeyOf(B[j])

\* What the index and the blocks of a sound arena tell of each other.
LEMMA HousedIs ==
    ASSUME NEW B, NEW X, Housed(B, X)
    PROVE  /\ \A i \in DOMAIN B :
                /\ Good(B[i]) /\ MinKeyOf(B[i]) \in Nat /\ MinKeyOf(B[i]) \in KeysOf(B[i])
                /\ \A x \in KeysOf(B[i]) : x \in Nat /\ MinKeyOf(B[i]) <= x
                /\ \A j \in DOMAIN B : MinKeyOf(B[i]) = MinKeyOf(B[j]) => i = j
           /\ DOMAIN X = Leasts(B) /\ Leasts(B) \subseteq Nat
           /\ \A i \in DOMAIN B : MinKeyOf(B[i]) \in Leasts(B) /\ X[MinKeyOf(B[i])] = i
           /\ \A m \in Leasts(B) : X[m] \in DOMAIN B /\ MinKeyOf(B[X[m]]) = m
           /\ \A i, j \in DOMAIN B : \A x \in KeysOf(B[j]) :
                MinKeyOf(B[i]) <= x => MinKeyOf(B[i]) <= MinKeyOf(B[j])
<1>1. \A i \in DOMAIN B : Good(B[i]) /\ KeysOf(B[i]) # {}  BY DEF Housed
<1>2. ASSUME NEW i \in DOMAIN B
      PROVE  /\ MinKeyOf(B[i]) \in Nat /\ MinKeyOf(B[i]) \in KeysOf(B[i])
             /\ \A x \in KeysOf(B[i]) : x \in Nat /\ MinKeyOf(B[i]) <= x
  <2>. DEFINE c == B[i]
  <2>1. Good(c) /\ KeysOf(c) # {}  BY <1>1
  <2>. HIDE DEF c
  <2>2. /\ MinKeyOf(c) \in Nat /\ MinKeyOf(c) \in KeysOf(c)
        /\ \A x \in KeysOf(c) : x \in Nat /\ MinKeyOf(c) <= x
    BY <2>1, MinKeyIs, KeyIs
  <2>. QED  BY <2>2 DEF c
<1>3. \A i \in DOMAIN B : X[MinKeyOf(B[i])] = i  BY DEF Housed
<1>4. \A i, j \in DOMAIN B : MinKeyOf(B[i]) = MinKeyOf(B[j]) => i = j  BY <1>3
<1>5. DOMAIN X = Leasts(B)  BY DEF Housed
<1>6. \A i \in DOMAIN B : MinKeyOf(B[i]) \in Leasts(B)  BY DEF Leasts
<1>7. ASSUME NEW m \in Leasts(B) PROVE m \in Nat /\ X[m] \in DOMAIN B /\ MinKeyOf(B[X[m]]) = m
  <2>1. PICK i \in DOMAIN B : m = MinKeyOf(B[i])  BY DEF Leasts
  <2>2. X[m] = i  BY <1>3, <2>1
  <2>. QED  BY <1>2, <2>1, <2>2
<1>8. \A i, j \in DOMAIN B : \A x \in KeysOf(B[j]) :
        MinKeyOf(B[i]) <= x => MinKeyOf(B[i]) <= MinKeyOf(B[j])
  BY DEF Housed
<1>9. Leasts(B) \subseteq Nat  BY <1>7
<1>10. \A i \in DOMAIN B :
         /\ Good(B[i]) /\ MinKeyOf(B[i]) \in Nat /\ MinKeyOf(B[i]) \in KeysOf(B[i])
         /\ \A x \in KeysOf(B[i]) : x \in Nat /\ MinKeyOf(B[i]) <= x
         /\ \A j \in DOMAIN B : MinKeyOf(B[i]) = MinKeyOf(B[j]) => i = j
  BY <1>1, <1>2, <1>4
<1>11. \A i \in DOMAIN B : MinKeyOf(B[i]) \in Leasts(B) /\ X[MinKeyOf(B[i])] = i
  BY <1>3, <1>6
<1>12. \A m \in Leasts(B) : X[m] \in DOMAIN B /\ MinKeyOf(B[X[m]]) = m  BY <1>7
<1>. QED  BY <1>5, <1>8, <1>9, <1>10, <1>11, <1>12

\* A key is routed to the last block that starts at or below it, or to the first.
LEMMA RouteIs ==
    ASSUME NEW B, NEW X, Housed(B, X), DOMAIN B # {}, NEW k \in Nat
    PROVE  LET id == Route(X, k)
           IN  /\ id \in DOMAIN B
               /\ \A i \in DOMAIN B :
                    MinKeyOf(B[i]) <= k => MinKeyOf(B[i]) <= MinKeyOf(B[id])
               /\ \/ MinKeyOf(B[id]) <= k
                  \/ /\ Min(DOMAIN X) = MinKeyOf(B[id])
                     /\ \A i \in DOMAIN B : k < MinKeyOf(B[i])
                                            /\ MinKeyOf(B[id]) <= MinKeyOf(B[i])
<1>. DEFINE floor == {m \in DOMAIN X : m <= k}
            m0 == IF floor # {} THEN Max(floor) ELSE Min(DOMAIN X)
            L(i) == MinKeyOf(B[i])
            D == DOMAIN B
<1>1. /\ DOMAIN X = Leasts(B) /\ Leasts(B) \in SUBSET Nat
      /\ \A i \in D : L(i) \in Leasts(B) /\ L(i) \in Nat
      /\ \A m \in Leasts(B) : X[m] \in D /\ L(X[m]) = m
  BY HousedIs
<1>2. Route(X, k) = X[m0]  BY DEF Route
<1>3. Leasts(B) # {}  BY <1>1
<1>4. CASE floor # {}
  <2>1. floor \in SUBSET (0 .. k)  BY <1>1
  <2>2. Max(floor) \in floor /\ \A m \in floor : m <= Max(floor)  BY <1>4, <2>1, MostIs
  <2>3. m0 = Max(floor)  BY <1>4
  <2>4. m0 \in Leasts(B) /\ m0 <= k  BY <1>1, <2>2, <2>3
  <2>5. \A i \in D : L(i) <= k => L(i) <= m0  BY <1>1, <2>2, <2>3
  <2>. HIDE DEF m0, L, D
  <2>6. X[m0] \in D /\ L(X[m0]) = m0  BY <1>1, <2>4
  <2>7. X[m0] \in D /\ L(X[m0]) <= k /\ \A i \in D : L(i) <= k => L(i) <= L(X[m0])
    BY <2>4, <2>5, <2>6
  <2>. QED  BY <1>2, <2>7 DEF L, D
<1>5. CASE floor = {}
  <2>1. /\ Min(DOMAIN X) \in Leasts(B)
        /\ \A m \in Leasts(B) : Min(DOMAIN X) <= m
    BY <1>1, <1>3, LeastIs
  <2>2. m0 = Min(DOMAIN X)  BY <1>5
  <2>3. \A i \in D : k < L(i) /\ m0 <= L(i)
    <3>1. \A i \in D : ~(L(i) <= k)  BY <1>1, <1>5
    <3>. HIDE DEF m0, L, D, floor
    <3>. QED  BY <1>1, <2>1, <2>2, <3>1
  <2>. HIDE DEF m0, L, D
  <2>4. X[m0] \in D /\ L(X[m0]) = m0  BY <1>1, <2>1, <2>2
  <2>5. \A i \in D : ~(L(i) <= k)  BY <1>1, <2>3
  <2>6. /\ X[m0] \in D /\ Min(DOMAIN X) = L(X[m0])
        /\ \A i \in D : k < L(i) /\ L(X[m0]) <= L(i)
        /\ \A i \in D : L(i) <= k => L(i) <= L(X[m0])
    BY <2>2, <2>3, <2>4, <2>5
  <2>. QED  BY <1>2, <2>6 DEF L, D
<1>. QED  BY <1>4, <1>5

\* A key leads to the block that holds it, which is the only one.
LEMMA HomeIs ==
    ASSUME NEW B, NEW X, Housed(B, X), NEW j \in DOMAIN B, NEW k \in KeysOf(B[j])
    PROVE  /\ k \in Nat /\ Route(X, k) = j
           /\ \A i \in DOMAIN B : k \in KeysOf(B[i]) => i = j
<1>. DEFINE L(i) == MinKeyOf(B[i])
<1>1. ASSUME NEW i \in DOMAIN B, k \in KeysOf(B[i])
      PROVE  k \in Nat /\ Route(X, k) = i
  <2>. DEFINE r == Route(X, k)
  <2>1. k \in Nat /\ L(i) <= k /\ L(i) \in Nat  BY <1>1, HousedIs
  <2>2. /\ r \in DOMAIN B /\ (L(i) <= k => L(i) <= L(r))
        /\ L(r) <= k \/ k < L(i)
    BY <2>1, RouteIs
  <2>. HIDE DEF r, L
  <2>3. L(r) \in Nat  BY <2>2, HousedIs DEF L
  <2>4. L(r) <= k /\ L(i) <= L(r)  BY <2>1, <2>2, <2>3
  <2>5. L(r) <= L(i)  BY <1>1, <2>2, <2>4, HousedIs DEF L
  <2>6. L(r) = L(i)  BY <2>1, <2>3, <2>4, <2>5
  <2>7. r = i  BY <2>2, <2>6, HousedIs DEF L
  <2>. QED  BY <2>1, <2>7 DEF r
<1>. QED  BY <1>1

\* A key with none below it is the one the block reports as its least.
LEMMA LeastKeyIs ==
    ASSUME NEW c, Good(c), NEW m \in KeysOf(c), \A x \in KeysOf(c) : m <= x
    PROVE  MinKeyOf(c) = m
<1>1. MinKeyOf(c) \in KeysOf(c) /\ MinKeyOf(c) \in Nat /\ MinKeyOf(c) <= m  BY MinKeyIs
<1>2. m <= MinKeyOf(c) /\ m \in Nat  BY <1>1, KeyIs
<1>. QED  BY <1>1, <1>2

IsMap(Y) == Y = [m \in DOMAIN Y |-> Y[m]]

\* An index with some entries gone and others put in.
LEMMA ReindexedIs ==
    ASSUME NEW X, NEW gone, NEW entries
    PROVE  /\ DOMAIN Reindexed(X, gone, entries) = (DOMAIN X \ gone) \union DOMAIN entries
           /\ IsMap(Reindexed(X, gone, entries))
           /\ \A m : m \in DOMAIN Reindexed(X, gone, entries) =>
                Reindexed(X, gone, entries)[m] =
                  IF m \in DOMAIN entries THEN entries[m] ELSE X[m]
<1>. DEFINE Y == Reindexed(X, gone, entries)
            S == (DOMAIN X \ gone) \union DOMAIN entries
<1>1. Y = [m \in S |-> IF m \in DOMAIN entries THEN entries[m] ELSE X[m]]
  BY DEF Reindexed
<1>. HIDE DEF Y, S
<1>2. DOMAIN Y = S  BY <1>1
<1>3. \A m : m \in DOMAIN Y => Y[m] = IF m \in DOMAIN entries THEN entries[m] ELSE X[m]
  BY <1>1, <1>2
<1>4. IsMap(Y)  BY <1>1, <1>2 DEF IsMap
<1>. QED  BY <1>2, <1>3, <1>4 DEF Y, S

\* A block whose keys stay the same.
LEMMA StayHoused ==
    ASSUME NEW B, NEW X, Housed(B, X), NEW id \in DOMAIN B, NEW C, DOMAIN C = DOMAIN B,
           \A i \in DOMAIN B : i # id => C[i] = B[i],
           Good(C[id]), KeysOf(C[id]) = KeysOf(B[id])
    PROVE  Housed(C, X)
<1>1. MinKeyOf(C[id]) = MinKeyOf(B[id])
  <2>1. MinKeyOf(B[id]) \in KeysOf(C[id]) /\ \A x \in KeysOf(C[id]) : MinKeyOf(B[id]) <= x
    BY HousedIs
  <2>. DEFINE c == C[id]
              m == MinKeyOf(B[id])
  <2>2. Good(c) /\ m \in KeysOf(c) /\ \A x \in KeysOf(c) : m <= x  BY <2>1
  <2>. HIDE DEF c, m
  <2>3. MinKeyOf(c) = m  BY <2>2, LeastKeyIs
  <2>. QED  BY <2>3 DEF c, m
<1>2. \A i \in DOMAIN B : /\ MinKeyOf(C[i]) = MinKeyOf(B[i]) /\ KeysOf(C[i]) = KeysOf(B[i])
                          /\ Good(C[i]) /\ KeysOf(C[i]) # {}
  <2>1. \A i \in DOMAIN B : Good(B[i]) /\ KeysOf(B[i]) # {}  BY DEF Housed
  <2>. QED  BY <1>1, <2>1
<1>3. Leasts(C) = Leasts(B)  BY <1>2 DEF Leasts
<1>. QED  BY <1>2, <1>3 DEF Housed

\* the index once the block id has k
Lowered(X, k, id) ==
    IF \A m \in DOMAIN X : k < m
    THEN Reindexed(X, {Min(DOMAIN X)}, [m \in {k} |-> id]) ELSE X

\* An index whose first entry is moved down to a lower key.
LEMMA LoweredIs ==
    ASSUME NEW X, NEW k, NEW id, \A m \in DOMAIN X : k < m
    PROVE  /\ IsMap(Lowered(X, k, id))
           /\ \A m : m \in DOMAIN Lowered(X, k, id) <=>
                     (m \in DOMAIN X /\ m # Min(DOMAIN X)) \/ m = k
           /\ \A m : m \in DOMAIN Lowered(X, k, id) =>
                Lowered(X, k, id)[m] = IF m = k THEN id ELSE X[m]
<1>. DEFINE Y == Lowered(X, k, id)
            least == Min(DOMAIN X)
            gone == {least}
            E == [m \in {k} |-> id]
            S == (DOMAIN X \ gone) \union DOMAIN E
<1>1. Y = Reindexed(X, gone, E)  BY DEF Lowered
<1>2. Y = [m \in S |-> IF m \in DOMAIN E THEN E[m] ELSE X[m]]  BY <1>1 DEF Reindexed
<1>3. DOMAIN E = {k} /\ E[k] = id  OBVIOUS
<1>. HIDE DEF Y, S, E, least
<1>4. DOMAIN Y = S  BY <1>2
<1>5. \A m : m \in DOMAIN Y => Y[m] = IF m \in DOMAIN E THEN E[m] ELSE X[m]
  BY <1>2, <1>4
<1>6. IsMap(Y)  BY <1>2, <1>4 DEF IsMap
<1>7. \A m : m \in DOMAIN E <=> m = k  BY <1>3
<1>8. \A m : m \in DOMAIN Y => Y[m] = IF m = k THEN id ELSE X[m]  BY <1>3, <1>5, <1>7
<1>9. \A m : m \in DOMAIN Y <=> (m \in DOMAIN X /\ m # least) \/ m = k
  BY <1>4, <1>7 DEF S
<1>. QED  BY <1>6, <1>8, <1>9 DEF Y, least

\* A block that takes the key routed to it.
LEMMA GrowHoused ==
    ASSUME NEW B, NEW X, Housed(B, X), NEW k \in Nat, NEW id \in DOMAIN B, id = Route(X, k),
           NEW C, DOMAIN C = DOMAIN B, \A i \in DOMAIN B : i # id => C[i] = B[i],
           Good(C[id]), KeysOf(C[id]) = KeysOf(B[id]) \union {k},
           \A i \in DOMAIN B : k \notin KeysOf(B[i])
    PROVE  Housed(C, Lowered(X, k, id))
<1>. DEFINE D == DOMAIN B
            L(i) == MinKeyOf(B[i])
            K(i) == KeysOf(B[i])
            N(i) == MinKeyOf(C[i])
            below == \A m \in DOMAIN X : k < m
            Y == Lowered(X, k, id)
<1>1. /\ \A i \in D : L(i) \in Nat /\ L(i) \in K(i) /\ \A x \in K(i) : x \in Nat /\ L(i) <= x
      /\ \A i, j \in D : L(i) = L(j) => i = j
      /\ DOMAIN X = Leasts(B) /\ \A i \in D : L(i) \in Leasts(B)
      /\ \A m \in Leasts(B) : X[m] \in D /\ L(X[m]) = m
      /\ \A i \in D : X[L(i)] = i
      /\ \A i, j \in D : \A x \in K(j) : L(i) <= x => L(i) <= L(j)
  <2>1. \A i \in D : L(i) \in Nat /\ L(i) \in K(i) /\ \A x \in K(i) : x \in Nat /\ L(i) <= x
    BY HousedIs
  <2>2. \A i, j \in D : L(i) = L(j) => i = j  BY HousedIs
  <2>3. /\ DOMAIN X = Leasts(B) /\ \A i \in D : L(i) \in Leasts(B)
        /\ \A m \in Leasts(B) : X[m] \in D /\ L(X[m]) = m
        /\ \A i \in D : X[L(i)] = i
        /\ \A i, j \in D : \A x \in K(j) : L(i) <= x => L(i) <= L(j)
    BY HousedIs
  <2>. QED  BY <2>1, <2>2, <2>3
<1>2. /\ \A i \in D : L(i) <= k => L(i) <= L(id)
      /\ \/ L(id) <= k
         \/ /\ Min(DOMAIN X) = L(id)
            /\ \A i \in D : k < L(i) /\ L(id) <= L(i)
  <2>1. D # {}  OBVIOUS
  <2>. QED  BY <2>1, RouteIs
<1>3. /\ \A i \in D : Good(C[i]) /\ KeysOf(C[i]) # {}
      /\ \A i \in D : i # id => N(i) = L(i) /\ KeysOf(C[i]) = K(i)
      /\ KeysOf(C[id]) = K(id) \union {k} /\ \A i \in D : k \notin K(i)
  <2>1. \A i \in D : Good(B[i]) /\ KeysOf(B[i]) # {}  BY DEF Housed
  <2>2. KeysOf(C[id]) # {}  OBVIOUS
  <2>. QED  BY <2>1, <2>2
<1>4. ASSUME NEW m \in KeysOf(C[id]), \A x \in KeysOf(C[id]) : m <= x PROVE N(id) = m
  <2>. DEFINE c == C[id]
  <2>1. Good(c) /\ m \in KeysOf(c) /\ \A x \in KeysOf(c) : m <= x  BY <1>4
  <2>. HIDE DEF c
  <2>2. MinKeyOf(c) = m  BY <2>1, LeastKeyIs
  <2>. QED  BY <2>2 DEF c
<1>5. DOMAIN C = D /\ Y = (IF below THEN Reindexed(X, {Min(DOMAIN X)}, [m \in {k} |-> id]) ELSE X)
      /\ id \in D
  BY DEF Lowered
<1>6. Leasts(C) = {N(i) : i \in D}  BY <1>5 DEF Leasts
<1>. HIDE DEF D, L, K, N, Y
<1>7. CASE ~below
  <2>1. L(id) <= k
    <3>. SUFFICES ASSUME \A i \in D : k < L(i) PROVE FALSE  BY <1>2
    <3>1. \A m \in DOMAIN X : k < m  BY <1>1
    <3>. QED  BY <1>7, <3>1
  <2>2. N(id) = L(id)  BY <1>1, <1>3, <1>4, <1>5, <2>1
  <2>3. \A i \in D : N(i) = L(i)  BY <1>3, <2>2
  <2>4. Leasts(C) = DOMAIN X
    <3>1. Leasts(C) \subseteq Leasts(B)  BY <1>1, <1>6, <2>3
    <3>2. ASSUME NEW m \in Leasts(B) PROVE m \in Leasts(C)
      <4>1. X[m] \in D /\ N(X[m]) = m  BY <1>1, <2>3
      <4>. QED  BY <1>6, <4>1
    <3>. QED  BY <1>1, <3>1, <3>2
  <2>5. Y = X  BY <1>5, <1>7
  <2>6. X = [m \in DOMAIN X |-> X[m]]
    <3>1. X = [m \in Leasts(B) |-> X[m]]  BY DEF Housed
    <3>. QED  BY <1>1, <3>1
  <2>7. ASSUME NEW i \in D, NEW j \in D, NEW x \in KeysOf(C[j]), N(i) <= x PROVE N(i) <= N(j)
    <3>1. N(i) = L(i) /\ N(j) = L(j)  BY <2>3
    <3>2. CASE j = id /\ x = k  BY <1>2, <2>7, <3>1, <3>2
    <3>3. CASE ~(j = id /\ x = k)
      <4>1. x \in K(j)  BY <1>3, <3>3
      <4>. QED  BY <1>1, <2>7, <3>1, <4>1
    <3>. QED  BY <3>2, <3>3
  <2>8. \A i \in D : X[N(i)] = i  BY <1>1, <2>3
  <2>9. \A i \in DOMAIN C : Y[N(i)] = i  BY <1>5, <2>5, <2>8
  <2>10. Y = [m \in Leasts(C) |-> Y[m]]  BY <2>4, <2>5, <2>6
  <2>11. \A i, j \in DOMAIN C : \A x \in KeysOf(C[j]) : N(i) <= x => N(i) <= N(j)
    BY <1>5, <2>7
  <2>12. \A i \in DOMAIN C : Good(C[i]) /\ KeysOf(C[i]) # {}  BY <1>3, <1>5
  <2>. QED  BY <2>9, <2>10, <2>11, <2>12 DEF Housed, N, Y
<1>8. CASE below
  <2>1. Min(DOMAIN X) = L(id) /\ \A i \in D : k < L(i) /\ L(id) <= L(i)
    <3>1. k < L(id) /\ L(id) \in Nat  BY <1>1, <1>5, <1>8
    <3>. QED  BY <1>2, <3>1
  <2>2. N(id) = k
    <3>1. \A x \in KeysOf(C[id]) : k <= x  BY <1>1, <1>3, <1>5, <2>1
    <3>2. k \in KeysOf(C[id])  BY <1>3
    <3>. QED  BY <1>4, <3>1, <3>2
  <2>5. /\ DOMAIN Y = (Leasts(B) \ {L(id)}) \union {k} /\ Y = [m \in DOMAIN Y |-> Y[m]]
        /\ \A m \in DOMAIN Y : Y[m] = IF m = k THEN id ELSE X[m]
    <3>1. /\ IsMap(Lowered(X, k, id))
          /\ \A m : m \in DOMAIN Lowered(X, k, id) <=>
                    (m \in DOMAIN X /\ m # Min(DOMAIN X)) \/ m = k
          /\ \A m : m \in DOMAIN Lowered(X, k, id) =>
               Lowered(X, k, id)[m] = IF m = k THEN id ELSE X[m]
      BY <1>8, LoweredIs
    <3>2. /\ IsMap(Y)
          /\ \A m : m \in DOMAIN Y <=> (m \in Leasts(B) /\ m # L(id)) \/ m = k
          /\ \A m : m \in DOMAIN Y => Y[m] = IF m = k THEN id ELSE X[m]
      BY <1>1, <2>1, <3>1 DEF Y
    <3>. QED  BY <3>2 DEF IsMap
  <2>6. Leasts(C) = DOMAIN Y
    <3>1. ASSUME NEW i \in D PROVE N(i) \in DOMAIN Y
      <4>1. CASE i = id  BY <2>2, <2>5, <4>1
      <4>2. CASE i # id
        <5>1. N(i) = L(i) /\ L(i) # L(id)  BY <1>1, <1>3, <1>5, <4>2
        <5>. QED  BY <1>1, <2>5, <5>1
      <4>. QED  BY <4>1, <4>2
    <3>2. ASSUME NEW m \in Leasts(B) \ {L(id)} PROVE m \in Leasts(C)
      <4>1. X[m] \in D /\ L(X[m]) = m /\ X[m] # id  BY <1>1, <1>5
      <4>2. N(X[m]) = m  BY <1>3, <4>1
      <4>. QED  BY <1>6, <4>1, <4>2
    <3>3. k \in Leasts(C)  BY <1>5, <1>6, <2>2
    <3>4. Leasts(C) \subseteq DOMAIN Y  BY <1>6, <3>1
    <3>5. DOMAIN Y \subseteq Leasts(C)  BY <2>5, <3>2, <3>3
    <3>. QED  BY <3>4, <3>5
  <2>7. ASSUME NEW i \in D, NEW j \in D, NEW x \in KeysOf(C[j]), N(i) <= x PROVE N(i) <= N(j)
    <3>1. CASE i = id
      <4>1. CASE j = id
        <5>1. k <= k  OBVIOUS
        <5>. QED  BY <2>2, <3>1, <4>1, <5>1
      <4>2. CASE j # id
        <5>1. k < L(j) /\ L(j) \in Nat  BY <1>1, <2>1
        <5>2. k <= L(j)  BY <5>1
        <5>. QED  BY <1>3, <2>2, <3>1, <4>2, <5>2
      <4>. QED  BY <4>1, <4>2
    <3>2. CASE i # id
      <4>1. N(i) = L(i) /\ k < L(i) /\ L(i) \in Nat  BY <1>1, <1>3, <2>1, <3>2
      <4>2. x # k  BY <2>7, <4>1
      <4>3. x \in K(j)  BY <1>3, <4>2
      <4>4. L(i) <= L(j) /\ L(j) \in Nat  BY <1>1, <2>7, <4>1, <4>3
      <4>5. j # id
        <5>. SUFFICES ASSUME j = id PROVE FALSE  OBVIOUS
        <5>1. L(i) = L(id)  BY <1>1, <2>1, <4>1, <4>4
        <5>. QED  BY <1>1, <1>5, <3>2, <5>1
      <4>. QED  BY <1>3, <4>1, <4>4, <4>5
    <3>. QED  BY <3>1, <3>2
  <2>8. ASSUME NEW i \in D PROVE Y[N(i)] = i
    <3>1. CASE i = id  BY <2>2, <2>5, <3>1
    <3>2. CASE i # id
      <4>1. N(i) = L(i) /\ k < L(i) /\ L(i) \in Nat /\ L(i) # L(id)
        BY <1>1, <1>3, <1>5, <2>1, <3>2
      <4>2. N(i) \in DOMAIN Y
        <5>1. L(i) \in Leasts(B)  BY <1>1
        <5>. QED  BY <2>5, <4>1, <5>1
      <4>3. N(i) # k  BY <4>1
      <4>4. Y[N(i)] = X[N(i)]  BY <2>5, <4>2, <4>3
      <4>. QED  BY <1>1, <4>1, <4>4
    <3>. QED  BY <3>1, <3>2
  <2>9. \A i \in DOMAIN C : Y[N(i)] = i  BY <1>5, <2>8
  <2>10. Y = [m \in Leasts(C) |-> Y[m]]  BY <2>5, <2>6
  <2>11. \A i, j \in DOMAIN C : \A x \in KeysOf(C[j]) : N(i) <= x => N(i) <= N(j)
    BY <1>5, <2>7
  <2>12. \A i \in DOMAIN C : Good(C[i]) /\ KeysOf(C[i]) # {}  BY <1>3, <1>5
  <2>. QED  BY <2>9, <2>10, <2>11, <2>12 DEF Housed, N, Y
<1>. QED  BY <1>7, <1>8 DEF Y

\* the index with a new entry
Noted(X, k, to) == Reindexed(X, {}, [m \in {k} |-> to])

\* An index with one entry more.
LEMMA NotedIs ==
    ASSUME NEW X, NEW k, NEW to
    PROVE  /\ IsMap(Noted(X, k, to))
           /\ \A m : m \in DOMAIN Noted(X, k, to) <=> m \in DOMAIN X \/ m = k
           /\ \A m : m \in DOMAIN Noted(X, k, to) =>
                Noted(X, k, to)[m] = IF m = k THEN to ELSE X[m]
<1>. DEFINE Y == Noted(X, k, to)
            E == [m \in {k} |-> to]
            S == (DOMAIN X \ {}) \union DOMAIN E
<1>1. Y = [m \in S |-> IF m \in DOMAIN E THEN E[m] ELSE X[m]]  BY DEF Noted, Reindexed
<1>2. DOMAIN E = {k} /\ E[k] = to  OBVIOUS
<1>. HIDE DEF Y, S, E
<1>3. DOMAIN Y = S  BY <1>1
<1>4. \A m : m \in DOMAIN Y => Y[m] = IF m \in DOMAIN E THEN E[m] ELSE X[m]
  BY <1>1, <1>3
<1>5. IsMap(Y)  BY <1>1, <1>3 DEF IsMap
<1>6. \A m : m \in DOMAIN E <=> m = k  BY <1>2
<1>7. \A m : m \in DOMAIN Y => Y[m] = IF m = k THEN to ELSE X[m]  BY <1>2, <1>4, <1>6
<1>8. \A m : m \in DOMAIN Y <=> m \in DOMAIN X \/ m = k  BY <1>3, <1>6 DEF S
<1>. QED  BY <1>5, <1>7, <1>8 DEF Y

\* The keys of two blocks do not interleave.
LEMMA ApartIs ==
    ASSUME NEW B, NEW X, Housed(B, X), NEW i \in DOMAIN B, NEW j \in DOMAIN B, i # j,
           NEW x \in KeysOf(B[i]), NEW y \in KeysOf(B[j])
    PROVE  /\ x \in Nat /\ y \in Nat /\ x # y
           /\ MinKeyOf(B[i]) < MinKeyOf(B[j]) => x < y
           /\ MinKeyOf(B[j]) < MinKeyOf(B[i]) => y < x
           /\ MinKeyOf(B[i]) # MinKeyOf(B[j])
<1>. DEFINE L(p) == MinKeyOf(B[p])
<1>1. /\ L(i) \in Nat /\ L(j) \in Nat /\ x \in Nat /\ y \in Nat
      /\ L(i) <= x /\ L(j) <= y /\ L(i) # L(j)
  <2>1. L(i) \in Nat /\ x \in Nat /\ L(i) <= x  BY HousedIs
  <2>2. L(j) \in Nat /\ y \in Nat /\ L(j) <= y  BY HousedIs
  <2>3. L(i) # L(j)  BY HousedIs
  <2>. QED  BY <2>1, <2>2, <2>3
<1>2. (L(i) <= y => L(i) <= L(j)) /\ (L(j) <= x => L(j) <= L(i))  BY HousedIs
<1>. HIDE DEF L
<1>3. L(i) < L(j) => x < y  BY <1>1, <1>2
<1>4. L(j) < L(i) => y < x  BY <1>1, <1>2
<1>5. L(i) < L(j) \/ L(j) < L(i)  BY <1>1
<1>6. x # y  BY <1>1, <1>3, <1>4, <1>5
<1>. QED  BY <1>1, <1>3, <1>4, <1>6 DEF L

\* A new block of one key, which the block it was routed to does not span.
LEMMA SpawnHoused ==
    ASSUME NEW B, NEW X, Housed(B, X), NEW n \in Nat, DOMAIN B = 1 .. n, NEW k \in Nat,
           \A i \in DOMAIN B : k \notin KeysOf(B[i]),
           n > 0 => \/ \A x \in KeysOf(B[Route(X, k)]) : x < k
                    \/ \A x \in KeysOf(B[Route(X, k)]) : k < x,
           NEW C, DOMAIN C = 1 .. n + 1, \A i \in DOMAIN B : C[i] = B[i],
           Good(C[n + 1]), KeysOf(C[n + 1]) = {k}
    PROVE  Housed(C, Noted(X, k, n + 1))
<1>. DEFINE D == DOMAIN B
            E == DOMAIN C
            L(i) == MinKeyOf(B[i])
            K(i) == KeysOf(B[i])
            N(i) == MinKeyOf(C[i])
            M(i) == KeysOf(C[i])
            Y == Noted(X, k, n + 1)
            id == Route(X, k)
            w == n + 1
<1>1. /\ \A i \in D : L(i) \in Nat /\ L(i) \in K(i) /\ \A x \in K(i) : x \in Nat /\ L(i) <= x
      /\ \A i \in D : L(i) \in Leasts(B) /\ X[L(i)] = i
      /\ \A m \in Leasts(B) : X[m] \in D /\ L(X[m]) = m
      /\ DOMAIN X = Leasts(B)
      /\ \A i, j \in D : \A x \in K(j) : L(i) <= x => L(i) <= L(j)
  <2>1. \A i \in D : L(i) \in Nat /\ L(i) \in K(i) /\ \A x \in K(i) : x \in Nat /\ L(i) <= x
    BY HousedIs
  <2>2. /\ DOMAIN X = Leasts(B) /\ \A i \in D : L(i) \in Leasts(B) /\ X[L(i)] = i
        /\ \A m \in Leasts(B) : X[m] \in D /\ L(X[m]) = m
        /\ \A i, j \in D : \A x \in K(j) : L(i) <= x => L(i) <= L(j)
    BY HousedIs
  <2>. QED  BY <2>1, <2>2
<1>2. \A i \in D : \A j \in D : L(i) = L(j) => i = j  BY <1>1
<1>3. /\ \A i \in E : i \in D \/ i = w
      /\ w \in E /\ w \notin D /\ \A i \in D : i \in E
  OBVIOUS
<1>4. N(w) = k
  <2>. DEFINE c == C[n + 1]
  <2>1. Good(c) /\ k \in KeysOf(c) /\ \A x \in KeysOf(c) : k <= x  OBVIOUS
  <2>. HIDE DEF c
  <2>2. MinKeyOf(c) = k  BY <2>1, LeastKeyIs
  <2>. QED  BY <2>2 DEF c
<1>5. /\ \A i \in D : Good(C[i]) /\ M(i) # {} /\ N(i) = L(i) /\ M(i) = K(i)
      /\ Good(C[w]) /\ M(w) = {k}
      /\ \A i \in D : k \notin K(i)
  <2>1. \A i \in D : Good(B[i]) /\ KeysOf(B[i]) # {}  BY DEF Housed
  <2>. QED  BY <2>1
<1>6. D # {} => /\ id \in D
                /\ \A i \in D : L(i) <= k => L(i) <= L(id)
                /\ L(id) <= k \/ \A i \in D : k < L(i)
  BY RouteIs
<1>7. D # {} => (\A x \in K(id) : x < k) \/ (\A x \in K(id) : k < x)
  <2>1. D # {} => n > 0  OBVIOUS
  <2>. QED  BY <2>1
<1>8. /\ IsMap(Y) /\ \A m : m \in DOMAIN Y <=> m \in DOMAIN X \/ m = k
      /\ \A m : m \in DOMAIN Y => Y[m] = IF m = k THEN w ELSE X[m]
  BY NotedIs
<1>9. Leasts(C) = {N(i) : i \in E}  BY DEF Leasts
<1>. HIDE DEF D, E, L, K, N, M, Y, id, w
<1>10. ASSUME NEW j \in D, NEW x \in K(j), k <= x PROVE k <= L(j)
  <2>1. id \in D  BY <1>6
  <2>2. x \in Nat /\ L(j) \in Nat /\ L(j) \in K(j) /\ L(id) \in Nat /\ L(id) \in K(id)
    BY <1>1, <2>1
  <2>3. SUFFICES ASSUME L(j) < k PROVE FALSE  BY <2>2
  <2>4. L(j) <= L(id)  BY <1>6, <2>2, <2>3
  <2>5. L(id) <= k  BY <1>6, <2>2, <2>3
  <2>6. L(id) <= x  BY <1>10, <2>2, <2>5
  <2>7. L(id) <= L(j)  BY <1>1, <2>1, <2>6
  <2>8. j = id  BY <1>2, <2>1, <2>2, <2>4, <2>7
  <2>9. ~(x < k) /\ ~(k < L(id))  BY <1>10, <2>2, <2>5
  <2>. QED  BY <1>6, <1>7, <2>1, <2>2, <2>8, <2>9
<1>11. Leasts(C) = DOMAIN Y
  <2>1. ASSUME NEW i \in E PROVE N(i) \in DOMAIN Y
    <3>1. CASE i \in D
      <4>1. N(i) = L(i) /\ L(i) \in Leasts(B)  BY <1>1, <1>5, <3>1
      <4>. QED  BY <1>1, <1>8, <4>1
    <3>2. CASE i = w  BY <1>4, <1>8, <3>2
    <3>. QED  BY <1>3, <3>1, <3>2
  <2>2. ASSUME NEW m \in DOMAIN Y PROVE m \in Leasts(C)
    <3>1. CASE m \in Leasts(B)
      <4>1. X[m] \in D /\ L(X[m]) = m  BY <1>1, <3>1
      <4>2. X[m] \in E /\ N(X[m]) = m  BY <1>3, <1>5, <4>1
      <4>. QED  BY <1>9, <4>2
    <3>2. CASE m = k  BY <1>3, <1>4, <1>9, <3>2
    <3>. QED  BY <1>1, <1>8, <3>1, <3>2
  <2>3. Leasts(C) \subseteq DOMAIN Y  BY <1>9, <2>1
  <2>4. DOMAIN Y \subseteq Leasts(C)  BY <2>2
  <2>. QED  BY <2>3, <2>4
<1>12. ASSUME NEW i \in E PROVE Y[N(i)] = i
  <2>1. N(i) \in DOMAIN Y  BY <1>9, <1>11
  <2>2. CASE i = w  BY <1>4, <1>8, <2>1, <2>2
  <2>3. CASE i \in D
    <3>1. N(i) = L(i) /\ X[L(i)] = i /\ L(i) # k  BY <1>1, <1>5, <2>3
    <3>. QED  BY <1>8, <2>1, <3>1
  <2>. QED  BY <1>3, <2>2, <2>3
<1>13. ASSUME NEW i \in E, NEW j \in E, NEW x \in M(j), N(i) <= x PROVE N(i) <= N(j)
  <2>1. CASE j = w
    <3>1. x = k /\ N(j) = k  BY <1>4, <1>5, <2>1
    <3>. QED  BY <1>13, <3>1
  <2>2. CASE j \in D /\ i = w
    <3>1. x \in K(j) /\ k <= x /\ N(j) = L(j)  BY <1>4, <1>5, <1>13, <2>2
    <3>2. k <= L(j)  BY <1>10, <2>2, <3>1
    <3>. QED  BY <1>4, <2>2, <3>1, <3>2
  <2>3. CASE j \in D /\ i \in D
    <3>1. x \in K(j) /\ N(j) = L(j) /\ N(i) = L(i) /\ L(i) <= x  BY <1>5, <1>13, <2>3
    <3>2. L(i) <= L(j)  BY <1>1, <2>3, <3>1
    <3>. QED  BY <3>1, <3>2
  <2>. QED  BY <1>3, <2>1, <2>2, <2>3
<1>14. \A i \in E : Good(C[i]) /\ M(i) # {}
  <2>1. M(w) # {}  BY <1>5
  <2>. QED  BY <1>3, <1>5, <2>1
<1>15. Y = [m \in Leasts(C) |-> Y[m]]  BY <1>8, <1>11 DEF IsMap
<1>. QED  BY <1>12, <1>13, <1>14, <1>15 DEF Housed, E, N, M, Y

\* the index with two entries for the block id's
Parted(X, id, lo, hi, to) ==
    Reindexed(X, {m \in DOMAIN X : X[m] = id},
              [m \in {lo, hi} |-> IF m = lo THEN id ELSE to])

\* An index after a split: two entries in place of one.
LEMMA PartedIs ==
    ASSUME NEW X, NEW id, NEW lo, NEW hi, NEW to
    PROVE  /\ IsMap(Parted(X, id, lo, hi, to))
           /\ \A m : m \in DOMAIN Parted(X, id, lo, hi, to) <=>
                     (m \in DOMAIN X /\ X[m] # id) \/ m = lo \/ m = hi
           /\ \A m : m \in DOMAIN Parted(X, id, lo, hi, to) =>
                Parted(X, id, lo, hi, to)[m] =
                  IF m = lo THEN id ELSE IF m = hi THEN to ELSE X[m]
<1>. DEFINE Y == Parted(X, id, lo, hi, to)
            gone == {m \in DOMAIN X : X[m] = id}
            E == [m \in {lo, hi} |-> IF m = lo THEN id ELSE to]
            S == (DOMAIN X \ gone) \union DOMAIN E
<1>1. Y = [m \in S |-> IF m \in DOMAIN E THEN E[m] ELSE X[m]]  BY DEF Parted, Reindexed
<1>2. DOMAIN E = {lo, hi} /\ \A m \in {lo, hi} : E[m] = IF m = lo THEN id ELSE to  OBVIOUS
<1>3. \A m : m \in gone <=> m \in DOMAIN X /\ X[m] = id  OBVIOUS
<1>. HIDE DEF Y, S, E, gone
<1>4. DOMAIN Y = S  BY <1>1
<1>5. \A m : m \in DOMAIN Y => Y[m] = IF m \in DOMAIN E THEN E[m] ELSE X[m]
  BY <1>1, <1>4
<1>6. IsMap(Y)  BY <1>1, <1>4 DEF IsMap
<1>7. \A m : m \in DOMAIN E <=> m = lo \/ m = hi  BY <1>2
<1>8. \A m : m \in DOMAIN E => E[m] = IF m = lo THEN id ELSE to  BY <1>2
<1>9. \A m : m \in DOMAIN Y => Y[m] = IF m = lo THEN id ELSE IF m = hi THEN to ELSE X[m]
  BY <1>5, <1>7, <1>8
<1>10. \A m : m \in DOMAIN Y <=> (m \in DOMAIN X /\ X[m] # id) \/ m = lo \/ m = hi
  BY <1>3, <1>4, <1>7 DEF S
<1>. QED  BY <1>6, <1>9, <1>10 DEF Y

\* A block that falls into two, the keys of one below the keys of the other.
LEMMA CleaveHoused ==
    ASSUME NEW B, NEW X, Housed(B, X), NEW n \in Nat, DOMAIN B = 1 .. n, NEW id \in DOMAIN B,
           NEW C, DOMAIN C = 1 .. n + 1, \A i \in DOMAIN B : i # id => C[i] = B[i],
           Good(C[id]), Good(C[n + 1]), KeysOf(C[id]) # {}, KeysOf(C[n + 1]) # {},
           KeysOf(C[id]) \subseteq KeysOf(B[id]), KeysOf(C[n + 1]) \subseteq KeysOf(B[id]),
           \/ \A x \in KeysOf(C[id]), y \in KeysOf(C[n + 1]) : x < y
           \/ \A x \in KeysOf(C[id]), y \in KeysOf(C[n + 1]) : y < x
    PROVE  Housed(C, Parted(X, id, MinKeyOf(C[id]), MinKeyOf(C[n + 1]), n + 1))
<1>. DEFINE D == DOMAIN B
            E == DOMAIN C
            w == n + 1
            L(i) == MinKeyOf(B[i])
            K(i) == KeysOf(B[i])
            N(i) == MinKeyOf(C[i])
            M(i) == KeysOf(C[i])
            Y == Parted(X, id, N(id), N(w), w)
            o(i) == IF i = w THEN id ELSE i
<1>1. /\ \A i \in D : L(i) \in Nat /\ \A x \in K(i) : x \in Nat /\ L(i) <= x
      /\ \A i \in D : L(i) \in Leasts(B) /\ X[L(i)] = i
      /\ \A m \in Leasts(B) : X[m] \in D /\ L(X[m]) = m
      /\ DOMAIN X = Leasts(B)
  <2>1. \A i \in D : L(i) \in Nat /\ \A x \in K(i) : x \in Nat /\ L(i) <= x
    BY HousedIs
  <2>2. /\ DOMAIN X = Leasts(B) /\ \A i \in D : L(i) \in Leasts(B) /\ X[L(i)] = i
        /\ \A m \in Leasts(B) : X[m] \in D /\ L(X[m]) = m
    BY HousedIs
  <2>. QED  BY <2>1, <2>2
<1>2. \A i, j \in D : i # j => \A x \in K(i), y \in K(j) :
        /\ x \in Nat /\ y \in Nat /\ x # y
        /\ L(i) < L(j) => x < y
        /\ L(j) < L(i) => y < x
        /\ L(i) # L(j)
  BY ApartIs
<1>3. /\ \A i \in E : i \in D \/ i = w
      /\ w \in E /\ w \notin D /\ \A i \in D : i \in E
      /\ id \in D
  OBVIOUS
<1>4. ASSUME NEW i \in E PROVE Good(C[i]) /\ M(i) # {} /\ M(i) \subseteq K(o(i)) /\ o(i) \in D
  <2>1. \A j \in D : Good(B[j]) /\ KeysOf(B[j]) # {}  BY DEF Housed
  <2>2. CASE i = w  BY <2>2
  <2>3. CASE i = id  BY <1>3, <2>3
  <2>4. CASE i \in D /\ i # id  BY <1>3, <2>1, <2>4
  <2>. QED  BY <1>3, <2>2, <2>3, <2>4
<1>5. ASSUME NEW i \in E
      PROVE N(i) \in M(i) /\ N(i) \in Nat /\ \A x \in M(i) : N(i) <= x /\ x \in Nat
  <2>. DEFINE c == C[i]
  <2>1. Good(c) /\ KeysOf(c) # {}  BY <1>4
  <2>. HIDE DEF c
  <2>2. /\ MinKeyOf(c) \in Nat /\ MinKeyOf(c) \in KeysOf(c)
        /\ \A x \in KeysOf(c) : x \in Nat /\ MinKeyOf(c) <= x
    BY <2>1, MinKeyIs, KeyIs
  <2>. QED  BY <2>2 DEF c
<1>6. \A i \in D : i # id => N(i) = L(i) /\ M(i) = K(i)  OBVIOUS
<1>7. \/ \A x \in M(id), y \in M(w) : x < y
      \/ \A x \in M(id), y \in M(w) : y < x
  OBVIOUS
<1>8. /\ IsMap(Y) /\ \A m : m \in DOMAIN Y <=>
                       (m \in DOMAIN X /\ X[m] # id) \/ m = N(id) \/ m = N(w)
      /\ \A m : m \in DOMAIN Y =>
           Y[m] = IF m = N(id) THEN id ELSE IF m = N(w) THEN w ELSE X[m]
  BY PartedIs
<1>9. Leasts(C) = {N(i) : i \in E}  BY DEF Leasts
<1>10. \A i \in E : o(i) = IF i = w THEN id ELSE i  OBVIOUS
<1>. HIDE DEF D, E, w, L, K, N, M, Y, o
\* the blocks of C lie apart
<1>11. ASSUME NEW i \in E, NEW j \in E, i # j
       PROVE  \/ \A x \in M(i), y \in M(j) : x < y
              \/ \A x \in M(i), y \in M(j) : y < x
  <2>1. CASE o(i) = o(j)
    <3>1. (i = id /\ j = w) \/ (i = w /\ j = id)  BY <1>3, <1>10, <1>11, <2>1
    <3>. QED  BY <1>7, <3>1
  <2>2. CASE o(i) # o(j)
    <3>1. o(i) \in D /\ o(j) \in D /\ M(i) \subseteq K(o(i)) /\ M(j) \subseteq K(o(j))
      BY <1>4
    <3>2. L(o(i)) \in Nat /\ L(o(j)) \in Nat  BY <1>1, <3>1
    <3>3. PICK u \in M(i), v \in M(j) : TRUE  BY <1>4
    <3>4. L(o(i)) # L(o(j))  BY <1>2, <2>2, <3>1, <3>3
    <3>5. CASE L(o(i)) < L(o(j))  BY <1>2, <2>2, <3>1, <3>5
    <3>6. CASE L(o(j)) < L(o(i))  BY <1>2, <2>2, <3>1, <3>6
    <3>. QED  BY <3>2, <3>4, <3>5, <3>6
  <2>. QED  BY <2>1, <2>2
<1>12. ASSUME NEW i \in E, NEW j \in E, i # j PROVE N(i) # N(j)
  <2>1. N(i) \in M(i) /\ N(j) \in M(j) /\ N(i) \in Nat /\ N(j) \in Nat  BY <1>5
  <2>2. N(i) < N(j) \/ N(j) < N(i)  BY <1>11, <1>12, <2>1
  <2>. QED  BY <2>1, <2>2
<1>13. ASSUME NEW i \in E, NEW j \in E, NEW x \in M(j), N(i) <= x PROVE N(i) <= N(j)
  <2>1. N(i) \in M(i) /\ N(j) \in M(j) /\ N(i) \in Nat /\ N(j) \in Nat /\ x \in Nat  BY <1>5
  <2>2. CASE i = j  BY <2>1, <2>2
  <2>3. CASE i # j
    <3>1. ~(x < N(i))  BY <1>13, <2>1
    <3>2. N(i) < N(j)  BY <1>11, <2>1, <2>3, <3>1
    <3>. QED  BY <2>1, <3>2
  <2>. QED  BY <2>2, <2>3
<1>14. Leasts(C) = DOMAIN Y
  <2>1. ASSUME NEW i \in E PROVE N(i) \in DOMAIN Y
    <3>1. CASE i = id \/ i = w  BY <1>8, <3>1
    <3>2. CASE i \in D /\ i # id
      <4>1. N(i) = L(i) /\ L(i) \in Leasts(B) /\ X[L(i)] = i  BY <1>1, <1>6, <3>2
      <4>. QED  BY <1>1, <1>8, <3>2, <4>1
    <3>. QED  BY <1>3, <3>1, <3>2
  <2>2. ASSUME NEW m \in DOMAIN Y PROVE m \in Leasts(C)
    <3>1. CASE m \in DOMAIN X /\ X[m] # id
      <4>1. X[m] \in D /\ L(X[m]) = m  BY <1>1, <3>1
      <4>2. X[m] \in E /\ N(X[m]) = m  BY <1>3, <1>6, <3>1, <4>1
      <4>. QED  BY <1>9, <4>2
    <3>2. CASE m = N(id) \/ m = N(w)  BY <1>3, <1>9, <3>2
    <3>. QED  BY <1>8, <3>1, <3>2
  <2>3. Leasts(C) \subseteq DOMAIN Y  BY <1>9, <2>1
  <2>4. DOMAIN Y \subseteq Leasts(C)  BY <2>2
  <2>. QED  BY <2>3, <2>4
<1>15. ASSUME NEW i \in E PROVE Y[N(i)] = i
  <2>1. N(i) \in DOMAIN Y  BY <1>9, <1>14
  <2>2. CASE i = id  BY <1>8, <2>1, <2>2
  <2>3. CASE i = w
    <3>1. N(w) # N(id)  BY <1>3, <1>12
    <3>. QED  BY <1>8, <2>1, <2>3, <3>1
  <2>4. CASE i \in D /\ i # id
    <3>1. N(i) # N(id) /\ N(i) # N(w)  BY <1>3, <1>12, <2>4
    <3>2. N(i) = L(i) /\ X[L(i)] = i  BY <1>1, <1>6, <2>4
    <3>. QED  BY <1>8, <2>1, <3>1, <3>2
  <2>. QED  BY <1>3, <2>2, <2>3, <2>4
<1>16. Y = [m \in Leasts(C) |-> Y[m]]  BY <1>8, <1>14 DEF IsMap
<1>17. \A i \in E : Good(C[i]) /\ M(i) # {}  BY <1>4
<1>. QED  BY <1>13, <1>15, <1>16, <1>17 DEF Housed, E, N, M, Y, w

-----------------------------------------------------------------------------
(* The holder of addresses.                                                *)

AllKeys(B) == UNION {KeysOf(B[i]) : i \in DOMAIN B}

\* h has the address of every key in the blocks B
Held(B, h) ==
    /\ DOMAIN h = AllKeys(B) /\ IsMap(h)
    /\ \A i \in DOMAIN B : \A x \in KeysOf(B[i]) : h[x] = <<i, NameOf(B[i], x)>>

\* The address of a key is its block's and the name it has there.
LEMMA AddressIs ==
    ASSUME NEW a, Housed(a.blocks, a.index), NEW i \in DOMAIN a.blocks,
           NEW x \in KeysOf(a.blocks[i])
    PROVE  ArenaAddress(a, x) = <<i, NameOf(a.blocks[i], x)>>
<1>. DEFINE j == CHOOSE u \in DOMAIN a.blocks : x \in KeysOf(a.blocks[u])
<1>1. j \in DOMAIN a.blocks /\ x \in KeysOf(a.blocks[j])  OBVIOUS
<1>2. ArenaAddress(a, x) = <<j, NameOf(a.blocks[j], x)>>  BY DEF ArenaAddress
<1>. HIDE DEF j
<1>3. j = i  BY <1>1, HomeIs
<1>. QED  BY <1>2, <1>3

\* The addresses that the arena gives are its keys', and no two agree.
LEMMA AddressesAre ==
    ASSUME NEW a, Housed(a.blocks, a.index)
    PROVE  Held(a.blocks, ArenaAddresses(a)) /\ IsInjective(ArenaAddresses(a))
<1>. DEFINE B == a.blocks
            t == ArenaAddresses(a)
<1>1. /\ DOMAIN t = AllKeys(B) /\ IsMap(t)
      /\ \A x \in AllKeys(B) : t[x] = ArenaAddress(a, x)
  BY DEF ArenaAddresses, ArenaKeys, AllKeys, IsMap
<1>. HIDE DEF t
<1>2. \A i \in DOMAIN B : \A x \in KeysOf(B[i]) : x \in AllKeys(B)  BY DEF AllKeys
<1>3. \A i \in DOMAIN B : \A x \in KeysOf(B[i]) : t[x] = <<i, NameOf(B[i], x)>>
  BY <1>1, <1>2, AddressIs
<1>4. ASSUME NEW x \in AllKeys(B), NEW y \in AllKeys(B), t[x] = t[y] PROVE x = y
  <2>1. PICK i \in DOMAIN B : x \in KeysOf(B[i])  BY DEF AllKeys
  <2>2. PICK j \in DOMAIN B : y \in KeysOf(B[j])  BY DEF AllKeys
  <2>3. t[x] = <<i, NameOf(B[i], x)>> /\ t[y] = <<j, NameOf(B[j], y)>>  BY <1>3, <2>1, <2>2
  <2>. DEFINE p == NameOf(B[i], x)
              q == NameOf(B[j], y)
  <2>. HIDE DEF p, q
  <2>4. i = j /\ p = q
    <3>1. <<i, p>> = <<j, q>>  BY <1>4, <2>3 DEF p, q
    <3>. QED  BY <3>1
  <2>. USE DEF p, q
  <2>5. Good(B[i])  BY HousedIs
  <2>. QED  BY <2>1, <2>2, <2>4, <2>5, NameIs
<1>. QED  BY <1>1, <1>3, <1>4 DEF Held, IsInjective, t

\* An address names its block and the key's name in it.
LEMMA HeldApart ==
    ASSUME NEW B, NEW h, Held(B, h), \A i \in DOMAIN B : Good(B[i]),
           NEW x \in DOMAIN h, NEW y \in DOMAIN h, x # y
    PROVE  h[x] # h[y]
<1>1. PICK i \in DOMAIN B : x \in KeysOf(B[i])  BY DEF Held, AllKeys
<1>2. PICK j \in DOMAIN B : y \in KeysOf(B[j])  BY DEF Held, AllKeys
<1>3. h[x] = <<i, NameOf(B[i], x)>> /\ h[y] = <<j, NameOf(B[j], y)>>
  BY <1>1, <1>2 DEF Held
<1>4. SUFFICES ASSUME h[x] = h[y] PROVE FALSE  OBVIOUS
<1>5. i = j /\ NameOf(B[i], x) = NameOf(B[j], y)  BY <1>3, <1>4
<1>. QED  BY <1>1, <1>2, <1>5, NameIs

\* the arena z has the blocks of Y, with k in the one it touched
Lands(Y, k, z) ==
    /\ Housed(z.blocks, z.index)
    /\ DOMAIN Y = DOMAIN z.blocks /\ z.touched \in DOMAIN Y
    /\ \A i \in DOMAIN Y : Still(Y[i]) /\ (i # z.touched => z.blocks[i] = Y[i])
    /\ \E e, m : Silent(Y[z.touched], e) /\ Entered(e, k, z.blocks[z.touched], m)

\* The event of the block that took k brings all addresses up to date.
LEMMA LandsOwes ==
    ASSUME NEW Y, NEW k, NEW z, Lands(Y, k, z), NEW h, Held(Y, h)
    PROVE  FoldLeft(Renamed, h, AddressPairs(z)) = [x \in DOMAIN h |-> ArenaAddress(z, x)]
<1>. DEFINE Z == z.blocks
            t == z.touched
            c == Z[t]
            T == ArenaAddresses(z)
            pairs == NamePairs(c.event)
            P == AddressPairs(z)
<1>1. /\ DOMAIN Y = DOMAIN Z /\ t \in DOMAIN Y /\ Housed(Z, z.index)
      /\ \A i \in DOMAIN Y : Still(Y[i]) /\ Good(Y[i]) /\ (i # t => Z[i] = Y[i])
  BY DEF Lands, Still
<1>2. PICK e, m : Silent(Y[t], e) /\ Entered(e, k, c, m)  BY DEF Lands
<1>3. /\ Good(e) /\ KeysOf(e) = KeysOf(Y[t]) /\ e.event = NoEvent
      /\ \A x \in KeysOf(Y[t]) : NameOf(e, x) = NameOf(Y[t], x)
      /\ KeysOf(c) = KeysOf(Y[t]) \union {k} /\ k \notin KeysOf(Y[t])
  <2>. DEFINE y == Y[t]
  <2>1. Good(y) /\ y.event = NoEvent  BY <1>1 DEF Still
  <2>. HIDE DEF y
  <2>2. /\ Good(e) /\ KeysOf(e) = KeysOf(y) /\ e.event = y.event
        /\ \A x \in KeysOf(y) : NameOf(e, x) = NameOf(y, x)
    BY <1>2, <2>1, SilentNames DEF y
  <2>3. KeysOf(c) = KeysOf(e) \union {k} /\ k \notin KeysOf(e)  BY <1>2 DEF Entered
  <2>. QED  BY <2>1, <2>2, <2>3 DEF y
<1>4. Held(Z, T) /\ IsInjective(T)  BY <1>1, AddressesAre
<1>5. P = [i \in DOMAIN pairs |-> <<<<t, pairs[i][1]>>, <<t, pairs[i][2]>>>>]
  BY DEF AddressPairs
<1>. DEFINE g == [x \in KeysOf(e) |-> NameOf(e, x)]
<1>6. DOMAIN g = KeysOf(e) /\ g = [x \in DOMAIN g |-> g[x]]
      /\ \A x \in DOMAIN g : g[x] = NameOf(e, x)
  OBVIOUS
<1>. HIDE DEF Z, t, c, T, pairs, P, g
<1>7. pairs \in Seq(Names \X Names) /\ Chained(pairs) /\ Owing(c, g, pairs, 0)
  BY <1>2, <1>3, <1>6, EnteredOwes DEF pairs
<1>. DEFINE n == Len(pairs)
<1>8. /\ n \in Nat /\ DOMAIN pairs = 1 .. n
      /\ \A i \in 1 .. n : pairs[i] = <<pairs[i][1], pairs[i][2]>>
                           /\ pairs[i][1] \in Names /\ pairs[i][2] \in Names
  <2>1. n \in Nat /\ DOMAIN pairs = 1 .. n /\ \A i \in 1 .. n : pairs[i] \in Names \X Names
    BY <1>7
  <2>. HIDE DEF n
  <2>. QED  BY <2>1
<1>. HIDE DEF n
<1>9. DOMAIN P = 1 .. n /\ \A i \in 1 .. n : /\ P[i] = <<<<t, pairs[i][1]>>, <<t, pairs[i][2]>>>>
                                            /\ P[i][1] = <<t, pairs[i][1]>>
                                            /\ P[i][2] = <<t, pairs[i][2]>>
  BY <1>5, <1>8
<1>. DEFINE A == ({t} \X Names) \X ({t} \X Names)
<1>10. P \in Seq(A)
  <2>1. \A i \in 1 .. n : P[i] \in A  BY <1>8, <1>9
  <2>2. P = [i \in 1 .. n |-> P[i]]  BY <1>5, <1>8, <1>9
  <2>. HIDE DEF A
  <2>. QED  BY <1>8, <2>1, <2>2
<1>11. Chained(P)
  <2>1. \A i, j \in 1 .. n : P[i][1] = P[j][1] => i = j
    <3>1. \A i, j \in 1 .. n : pairs[i][1] = pairs[j][1] => i = j  BY <1>7, <1>8 DEF Chained
    <3>. QED  BY <1>9, <3>1
  <2>2. \A i, j \in 1 .. n : P[j][1] = P[i][2] => j < i
    <3>1. \A i, j \in 1 .. n : pairs[j][1] = pairs[i][2] => j < i  BY <1>7, <1>8 DEF Chained
    <3>. QED  BY <1>9, <3>1
  <2>. QED  BY <1>9, <2>1, <2>2 DEF Chained
<1>12. /\ DOMAIN h = AllKeys(Y) /\ h = [x \in DOMAIN h |-> h[x]]
       /\ \A i \in DOMAIN Y : \A x \in KeysOf(Y[i]) : h[x] = <<i, NameOf(Y[i], x)>>
  BY DEF Held, IsMap
<1>13. /\ DOMAIN T = AllKeys(Z)
       /\ \A i \in DOMAIN Y : \A x \in KeysOf(Z[i]) : T[x] = <<i, NameOf(Z[i], x)>>
  BY <1>1, <1>4 DEF Held
<1>14. \A i \in DOMAIN Y : KeysOf(Y[i]) \subseteq KeysOf(Z[i])
  <2>1. ASSUME NEW i \in DOMAIN Y PROVE KeysOf(Y[i]) \subseteq KeysOf(Z[i])
    <3>1. CASE i = t  BY <1>3, <3>1 DEF c
    <3>2. CASE i # t  BY <1>1, <3>2
    <3>. QED  BY <3>1, <3>2
  <2>. QED  BY <2>1
<1>15. DOMAIN h \subseteq DOMAIN T
  BY <1>1, <1>12, <1>13, <1>14 DEF AllKeys
<1>16. ASSUME NEW x \in DOMAIN h
       PROVE  \/ \E i \in DOMAIN P : 0 < i /\ P[i] = <<h[x], T[x]>>
              \/ (\A i \in DOMAIN P : 0 < i => P[i][1] # h[x]) /\ h[x] = T[x]
  <2>1. PICK j \in DOMAIN Y : x \in KeysOf(Y[j])  BY <1>12 DEF AllKeys
  <2>2. h[x] = <<j, NameOf(Y[j], x)>> /\ T[x] = <<j, NameOf(Z[j], x)>>
    BY <1>12, <1>13, <1>14, <2>1
  <2>3. CASE j # t
    <3>1. h[x] = T[x]  BY <1>1, <2>2, <2>3
    <3>2. \A i \in DOMAIN P : P[i][1] # h[x]  BY <1>9, <2>2, <2>3
    <3>. QED  BY <3>1, <3>2
  <2>4. CASE j = t
    <3>1. x \in DOMAIN g /\ g[x] = NameOf(Y[t], x)  BY <1>3, <1>6, <2>1, <2>4
    <3>2. h[x] = <<t, g[x]>> /\ T[x] = <<t, NameOf(c, x)>>  BY <2>2, <2>4, <3>1 DEF c
    <3>3. \/ \E i \in DOMAIN pairs : 0 < i /\ pairs[i] = <<g[x], NameOf(c, x)>>
          \/ (\A i \in DOMAIN pairs : 0 < i => pairs[i][1] # g[x]) /\ g[x] = NameOf(c, x)
      BY <1>7, <3>1 DEF Owing
    <3>4. ASSUME NEW i \in DOMAIN pairs, 0 < i, pairs[i] = <<g[x], NameOf(c, x)>>
          PROVE  \E u \in DOMAIN P : 0 < u /\ P[u] = <<h[x], T[x]>>
      <4>1. pairs[i][1] = g[x] /\ pairs[i][2] = NameOf(c, x)  BY <3>4
      <4>2. i \in DOMAIN P /\ P[i] = <<h[x], T[x]>>  BY <1>8, <1>9, <3>2, <4>1
      <4>. QED  BY <3>4, <4>2
    <3>5. ASSUME \A i \in DOMAIN pairs : 0 < i => pairs[i][1] # g[x], g[x] = NameOf(c, x)
          PROVE  (\A i \in DOMAIN P : 0 < i => P[i][1] # h[x]) /\ h[x] = T[x]
      BY <1>8, <1>9, <3>2, <3>5
    <3>. QED  BY <3>3, <3>4, <3>5
  <2>. QED  BY <2>3, <2>4
<1>17. Owes(T, h, P, 0)
  <2>1. \A x, y \in DOMAIN h : x # y => h[x] # h[y]  BY <1>1, HeldApart
  <2>. QED  BY <1>12, <1>15, <1>16, <2>1 DEF Owes
<1>18. FoldLeft(Renamed, h, P) = [x \in DOMAIN h |-> T[x]]
  BY <1>4, <1>10, <1>11, <1>17, OwesFolds
<1>19. \A x \in DOMAIN h : T[x] = ArenaAddress(z, x)
  BY <1>13, <1>15 DEF T, ArenaAddresses
<1>. QED  BY <1>18, <1>19 DEF P

-----------------------------------------------------------------------------
(* The arena, before and after an insert.                                  *)

Shaped(a) ==
    /\ a = [blocks |-> a.blocks, index |-> a.index, touched |-> a.touched, split |-> a.split]
    /\ \E T : a.blocks \in Seq(T)

\* the arena between the calls
Standing(a) ==
    /\ Shaped(a) /\ a.split = <<>> /\ Housed(a.blocks, a.index)
    /\ \A i \in DOMAIN a.blocks : a.blocks[i].event = NoEvent
    /\ a.blocks # <<>> => a.touched \in DOMAIN a.blocks

\* Appending to a list, and putting one member in place of another.
LEMMA ListIs ==
    ASSUME NEW T, NEW s \in Seq(T), NEW x
    PROVE  /\ Len(s) \in Nat /\ DOMAIN s = 1 .. Len(s)
           /\ \E U : Append(s, x) \in Seq(U)
           /\ DOMAIN Append(s, x) = 1 .. Len(s) + 1
           /\ Append(s, x)[Len(s) + 1] = x
           /\ \A i \in DOMAIN s : Append(s, x)[i] = s[i]
           /\ \A j \in DOMAIN s :
                /\ \E U : [s EXCEPT ![j] = x] \in Seq(U)
                /\ DOMAIN [s EXCEPT ![j] = x] = DOMAIN s
                /\ [s EXCEPT ![j] = x][j] = x
                /\ \A i \in DOMAIN s : i # j => [s EXCEPT ![j] = x][i] = s[i]
<1>. DEFINE U == T \union {x}
<1>1. Len(s) \in Nat /\ DOMAIN s = 1 .. Len(s) /\ \A i \in 1 .. Len(s) : s[i] \in T  OBVIOUS
<1>2. s \in Seq(U) /\ x \in U
  <2>1. s = [i \in 1 .. Len(s) |-> s[i]]  OBVIOUS
  <2>2. \A i \in 1 .. Len(s) : s[i] \in U  BY <1>1
  <2>. HIDE DEF U
  <2>3. s \in [1 .. Len(s) -> U]  BY <2>1, <2>2
  <2>4. s \in Seq(U)  BY <1>1, <2>3
  <2>. QED  BY <2>4 DEF U
<1>. HIDE DEF U
<1>3. /\ Append(s, x) \in Seq(U) /\ DOMAIN Append(s, x) = 1 .. Len(s) + 1
      /\ Append(s, x)[Len(s) + 1] = x
      /\ \A i \in 1 .. Len(s) : Append(s, x)[i] = s[i]
  BY <1>1, <1>2
<1>4. ASSUME NEW j \in DOMAIN s
      PROVE  /\ [s EXCEPT ![j] = x] \in Seq(U)
             /\ DOMAIN [s EXCEPT ![j] = x] = DOMAIN s
             /\ [s EXCEPT ![j] = x][j] = x
             /\ \A i \in DOMAIN s : i # j => [s EXCEPT ![j] = x][i] = s[i]
  <2>1. s \in [1 .. Len(s) -> U]  BY <1>1, <1>2
  <2>. DEFINE f == [s EXCEPT ![j] = x]
  <2>2. f \in [1 .. Len(s) -> U]  BY <1>2, <2>1
  <2>. HIDE DEF f
  <2>4. f \in Seq(U)  BY <1>1, <2>2
  <2>3. [s EXCEPT ![j] = x] \in Seq(U)  BY <2>4 DEF f
  <2>. QED  BY <1>1, <2>1, <2>3
<1>. QED  BY <1>1, <1>3, <1>4

\* Once drained, the arena stands, with the same keys at the same addresses.
LEMMA DrainedStands ==
    ASSUME NEW Y, NEW k, NEW z, Lands(Y, k, z), Shaped(z)
    PROVE  LET d == ArenaDrained(z)
           IN  /\ Standing(d) /\ d.index = z.index /\ DOMAIN d.blocks = DOMAIN z.blocks
               /\ \A i \in DOMAIN z.blocks : /\ KeysOf(d.blocks[i]) = KeysOf(z.blocks[i])
                                             /\ \A x : NameOf(d.blocks[i], x) = NameOf(z.blocks[i], x)
<1>. DEFINE Z == z.blocks
            t == z.touched
            c == Drained(Z[t])
            D == [Z EXCEPT ![t] = c]
            d == ArenaDrained(z)
<1>1. d = [blocks |-> D, index |-> z.index, touched |-> t, split |-> <<>>]
  <2>. DEFINE X == z.index
              S == z.split
  <2>1. z = [blocks |-> Z, index |-> X, touched |-> t, split |-> S]
    BY DEF Shaped
  <2>2. d = [z EXCEPT !.split = <<>>, !.blocks = D]  BY <2>1 DEF ArenaDrained, Drained
  <2>. HIDE DEF d, Z, t, c, D, X, S
  <2>3. d = [blocks |-> D, index |-> X, touched |-> t, split |-> <<>>]  BY <2>1, <2>2
  <2>. QED  BY <2>3 DEF X
<1>2. /\ t \in DOMAIN Z /\ Housed(Z, z.index)
      /\ \A i \in DOMAIN Z : i # t => Z[i].event = NoEvent
  BY DEF Lands, Still
<1>. HIDE DEF Z, t, d, c, D
<1>3. d.blocks = D /\ d.index = z.index /\ d.touched = t /\ d.split = <<>>  BY <1>1
<1>4. PICK T : Z \in Seq(T)  BY DEF Shaped, Z
<1>5. (\E U : D \in Seq(U)) /\ DOMAIN D = DOMAIN Z /\ D[t] = c
      /\ \A i \in DOMAIN Z : i # t => D[i] = Z[i]
  BY <1>2, <1>4, ListIs DEF D
<1>6. Good(Z[t])  BY <1>2, HousedIs
<1>7. /\ Good(c) /\ c.event = NoEvent /\ KeysOf(c) = KeysOf(Z[t])
      /\ \A x : NameOf(c, x) = NameOf(Z[t], x)
  BY <1>6, DrainedIs DEF c
<1>8. Housed(D, z.index)  BY <1>2, <1>5, <1>7, StayHoused
<1>9. Shaped(d)  BY <1>1, <1>3, <1>5 DEF Shaped
<1>10. \A i \in DOMAIN D : D[i].event = NoEvent  BY <1>2, <1>5, <1>7
<1>11. Standing(d)  BY <1>2, <1>3, <1>5, <1>8, <1>9, <1>10 DEF Standing
<1>12. \A i \in DOMAIN Z : KeysOf(D[i]) = KeysOf(Z[i]) /\ \A x : NameOf(D[i], x) = NameOf(Z[i], x)
  BY <1>5, <1>7
<1>. QED  BY <1>3, <1>5, <1>11, <1>12 DEF d, Z

\* The key goes into the block it is routed to.
LEMMA PlacedLands ==
    ASSUME NEW a, Shaped(a), Housed(a.blocks, a.index), NEW k \in Nat,
           \A i \in DOMAIN a.blocks : a.blocks[i].event = NoEvent,
           NEW id \in DOMAIN a.blocks, id = Route(a.index, k),
           NEW d, Silent(a.blocks[id], d), Placeable(d, k), NEW z, Shaped(z),
           z.blocks = [a.blocks EXCEPT ![id] = Inserted(d, k)], z.touched = id,
           z.index = Lowered(a.index, k, id)
    PROVE  /\ Lands(a.blocks, k, z)
           /\ \A i \in DOMAIN a.blocks : k \notin KeysOf(a.blocks[i])
<1>. DEFINE B == a.blocks
            c == Inserted(d, k)
            Z == [B EXCEPT ![id] = c]
<1>1. \A i \in DOMAIN B : Good(B[i]) /\ B[i].event = NoEvent  BY HousedIs
<1>2. Good(d) /\ KeysOf(d) = KeysOf(B[id])  BY <1>1, SilentNames
<1>3. k \notin KeysOf(d) /\ \E e, m : Silent(d, e) /\ Entered(e, k, c, m)
  BY <1>2, InsertedIs
<1>4. PICK e, m : Silent(d, e) /\ Entered(e, k, c, m)  BY <1>3
<1>5. Silent(B[id], e)  BY <1>1, <1>4, SilentOn
<1>6. KeysOf(e) = KeysOf(B[id])  BY <1>1, <1>5, SilentNames
<1>7. Good(c) /\ KeysOf(c) = KeysOf(B[id]) \union {k}  BY <1>4, <1>6 DEF Entered
<1>8. \A i \in DOMAIN B : k \notin KeysOf(B[i])  BY <1>2, <1>3, HomeIs
<1>9. PICK T : B \in Seq(T)  BY DEF Shaped
<1>. HIDE DEF c
<1>10. DOMAIN Z = DOMAIN B /\ Z[id] = c /\ \A i \in DOMAIN B : i # id => Z[i] = B[i]
  BY <1>9, ListIs
<1>11. z.blocks = Z /\ z.touched = id /\ z.index = Lowered(a.index, k, id)  BY DEF c
<1>. HIDE DEF Z
<1>12. Housed(Z, z.index)  BY <1>7, <1>8, <1>10, <1>11, GrowHoused
<1>13. \A i \in DOMAIN B : Still(B[i])  BY <1>1 DEF Still
<1>. QED  BY <1>4, <1>5, <1>8, <1>10, <1>11, <1>12, <1>13 DEF Lands

\* A new block for the key.
LEMMA SpawnLands ==
    ASSUME NEW a, Shaped(a), Housed(a.blocks, a.index), NEW k \in Nat,
           \A i \in DOMAIN a.blocks : a.blocks[i].event = NoEvent,
           \A i \in DOMAIN a.blocks : k \notin KeysOf(a.blocks[i]),
           a.blocks # <<>> => \/ \A x \in KeysOf(a.blocks[Route(a.index, k)]) : x < k
                              \/ \A x \in KeysOf(a.blocks[Route(a.index, k)]) : k < x
    PROVE  /\ Shaped(Spawn(a, k)) /\ Spawn(a, k).split = a.split
           /\ Lands(Append(a.blocks, NewBlock), k, Spawn(a, k))
           /\ \A h : Held(a.blocks, h) => Held(Append(a.blocks, NewBlock), h)
           /\ AllKeys(Append(a.blocks, NewBlock)) = AllKeys(a.blocks)
<1>. DEFINE B == a.blocks
            n == Len(B)
            c == Inserted(NewBlock, k)
            Z == Append(B, c)
            Y == Append(B, NewBlock)
            X == a.index
            W == Noted(X, k, n + 1)
            s == a.split
            z == Spawn(a, k)
            t == n + 1
<1>1. z = [blocks |-> Z, index |-> W, touched |-> t, split |-> s]
  <2>. DEFINE u == a.touched
  <2>1. a = [blocks |-> B, index |-> X, touched |-> u, split |-> s]  BY DEF Shaped
  <2>2. z = [a EXCEPT !.blocks = Z, !.index = W, !.touched = t]
    BY <2>1 DEF Spawn, Noted
  <2>. HIDE DEF z, B, X, u, s, Z, W, t
  <2>. QED  BY <2>1, <2>2
<1>2. PICK T : B \in Seq(T)  BY DEF Shaped
<1>3. /\ n \in Nat /\ DOMAIN B = 1 .. n
      /\ (\E U : Z \in Seq(U)) /\ DOMAIN Z = 1 .. n + 1 /\ Z[n + 1] = c
      /\ \A i \in DOMAIN B : Z[i] = B[i]
      /\ DOMAIN Y = 1 .. n + 1 /\ Y[n + 1] = NewBlock
      /\ \A i \in DOMAIN B : Y[i] = B[i]
  <2>. HIDE DEF B, c
  <2>1. /\ n \in Nat /\ DOMAIN B = 1 .. n
        /\ (\E U : Z \in Seq(U)) /\ DOMAIN Z = 1 .. n + 1 /\ Z[n + 1] = c
        /\ \A i \in DOMAIN B : Z[i] = B[i]
    BY <1>2, ListIs
  <2>. DEFINE e == NewBlock
              V == Append(B, e)
  <2>. HIDE DEF e
  <2>2. /\ n \in Nat /\ DOMAIN B = 1 .. n
        /\ (\E U : V \in Seq(U)) /\ DOMAIN V = 1 .. n + 1 /\ V[n + 1] = e
        /\ \A i \in DOMAIN B : V[i] = B[i]
    BY <1>2, ListIs
  <2>. QED  BY <2>1, <2>2 DEF e
<1>4. Good(NewBlock) /\ NewBlock.event = NoEvent  BY NewBlockIs
<1>5. KeysOf(NewBlock) = {} /\ Placeable(NewBlock, k)  BY DEF NewBlock, KeysOf, Placeable
<1>6. \E e, m : Silent(NewBlock, e) /\ Entered(e, k, c, m)  BY <1>4, <1>5, InsertedIs
<1>7. Good(c) /\ KeysOf(c) = {k}
  <2>1. PICK e, m : Silent(NewBlock, e) /\ Entered(e, k, c, m)  BY <1>6
  <2>2. KeysOf(e) = {}  BY <1>4, <1>5, <2>1, SilentNames
  <2>. QED  BY <2>1, <2>2 DEF Entered
<1>8. n > 0 => B # <<>>
  <2>1. B = <<>> => n = 0  OBVIOUS
  <2>. QED  BY <2>1
<1>9. \A i \in DOMAIN B : Good(B[i]) /\ B[i].event = NoEvent /\ k \notin KeysOf(B[i])
  BY HousedIs
<1>10. n > 0 => \/ \A x \in KeysOf(B[Route(X, k)]) : x < k
                \/ \A x \in KeysOf(B[Route(X, k)]) : k < x
  BY <1>8
<1>11. Housed(B, X)  OBVIOUS
<1>. HIDE DEF B, n, c, Z, Y, X, W, z, s
<1>12. Housed(Z, W)  BY <1>3, <1>7, <1>9, <1>10, <1>11, SpawnHoused DEF W
<1>13. \A i \in DOMAIN Y : i \in DOMAIN B \/ i = t  BY <1>3
<1>14. Lands(Y, k, z)
  <2>1. z.blocks = Z /\ z.index = W /\ z.touched = t  BY <1>1
  <2>2. DOMAIN Y = DOMAIN Z /\ t \in DOMAIN Y  BY <1>3
  <2>3. ASSUME NEW i \in DOMAIN Y PROVE Still(Y[i]) /\ (i # t => Z[i] = Y[i])
    <3>1. CASE i = t  BY <1>3, <1>4, <3>1 DEF Still
    <3>2. CASE i \in DOMAIN B  BY <1>3, <1>9, <3>2 DEF Still
    <3>. QED  BY <1>13, <3>1, <3>2
  <2>4. \E e, m : Silent(Y[t], e) /\ Entered(e, k, Z[t], m)  BY <1>3, <1>6
  <2>. HIDE DEF t
  <2>. QED  BY <1>12, <2>1, <2>2, <2>3, <2>4 DEF Lands
<1>15. z.split = s /\ Shaped(z)
  <2>1. z.blocks = Z /\ z.index = W /\ z.touched = t /\ z.split = s  BY <1>1
  <2>. HIDE DEF t
  <2>. QED  BY <1>1, <1>3, <2>1 DEF Shaped
<1>16. AllKeys(Y) = AllKeys(B)
  <2>1. \A i \in DOMAIN B : i \in DOMAIN Y  BY <1>3
  <2>2. ASSUME NEW x PROVE x \in AllKeys(Y) <=> x \in AllKeys(B)
    <3>1. x \in AllKeys(Y) <=> \E i \in DOMAIN Y : x \in KeysOf(Y[i])  BY DEF AllKeys
    <3>2. x \in AllKeys(B) <=> \E i \in DOMAIN B : x \in KeysOf(B[i])  BY DEF AllKeys
    <3>. QED  BY <1>3, <1>5, <1>13, <2>1, <3>1, <3>2
  <2>. QED  BY <2>2
<1>17. ASSUME NEW h, Held(B, h) PROVE Held(Y, h)
  <2>1. DOMAIN h = AllKeys(Y) /\ IsMap(h)  BY <1>16, <1>17 DEF Held
  <2>2. ASSUME NEW i \in DOMAIN Y, NEW x \in KeysOf(Y[i]) PROVE h[x] = <<i, NameOf(Y[i], x)>>
    <3>1. i \in DOMAIN B  BY <1>3, <1>5, <1>13
    <3>2. Y[i] = B[i]  BY <1>3, <3>1
    <3>. QED  BY <1>17, <3>1, <3>2 DEF Held
  <2>. QED  BY <2>1, <2>2 DEF Held
<1>. QED  BY <1>14, <1>15, <1>16, <1>17 DEF z, Y, B, s

\* The halves of a block lie apart.
LEMMA HalvesApart ==
    ASSUME NEW c, Good(c), NEW at \in Nat
    PROVE  /\ Below(c, at) \union From(c, at) = KeysOf(c)
           /\ \A x \in KeysOf(c) : PosOf(c, x) \in Nat /\ A2P(c.tr, NameOf(c, x)) = PosOf(c, x)
           /\ \/ \A x \in Below(c, at), y \in From(c, at) : x < y
              \/ \A x \in Below(c, at), y \in From(c, at) : y < x
<1>1. ASSUME NEW x \in KeysOf(c)
      PROVE  /\ PosOf(c, x) \in Live(c) /\ PosOf(c, x) \in Nat
             /\ KeyAt(c, PosOf(c, x)) = x /\ x \in Nat
             /\ A2P(c.tr, NameOf(c, x)) = PosOf(c, x)
  BY KeyIs, NameIs
<1>2. ASSUME NEW x \in Below(c, at), NEW y \in From(c, at) PROVE Precedes(c, x, y)
  <2>. DEFINE p == PosOf(c, x)
              q == PosOf(c, y)
  <2>1. x \in KeysOf(c) /\ y \in KeysOf(c) /\ p < at /\ ~(q < at)  BY DEF Below, From
  <2>2. /\ p \in Live(c) /\ p \in Nat /\ KeyAt(c, p) = x
        /\ q \in Live(c) /\ q \in Nat /\ KeyAt(c, q) = y
    BY <1>1, <2>1
  <2>. HIDE DEF p, q
  <2>3. p < q  BY <2>1, <2>2
  <2>. QED  BY <2>2, <2>3, SlotOrder
<1>3. \/ \A x \in Below(c, at), y \in From(c, at) : x < y
      \/ \A x \in Below(c, at), y \in From(c, at) : y < x
  <2>1. \A x \in Below(c, at), y \in From(c, at) : x \in Nat /\ y \in Nat
    BY <1>1 DEF Below, From
  <2>2. CASE c.tr.rev  BY <1>2, <2>1, <2>2 DEF Precedes
  <2>3. CASE ~c.tr.rev  BY <1>2, <2>1, <2>3 DEF Precedes
  <2>. QED  BY <2>2, <2>3
<1>4. Below(c, at) \union From(c, at) = KeysOf(c)  BY DEF Below, From
<1>. QED  BY <1>1, <1>3, <1>4

\* What a split sets in the arena, field by field.
LEMMA CleavedFields ==
    ASSUME NEW a, Shaped(a), NEW id \in DOMAIN a.blocks, NEW at
    PROVE  LET b0 == a.blocks[id]
               left == CleavedLeft(b0, at)
               right == CleavedRight(b0, at)
               to == Len(a.blocks) + 1
               y == Cleaved(a, id, at)
               s == [from |-> id, tr |-> b0.tr, to |-> to, at |-> at]
           IN  /\ Shaped(y) /\ y.split = <<s>> /\ y.touched = a.touched
               /\ y.index = Parted(a.index, id, MinKeyOf(left), MinKeyOf(right), to)
               /\ Len(a.blocks) \in Nat /\ DOMAIN a.blocks = 1 .. Len(a.blocks)
               /\ DOMAIN y.blocks = 1 .. to
               /\ y.blocks[id] = left /\ y.blocks[to] = right
               /\ \A i \in DOMAIN a.blocks : i # id => y.blocks[i] = a.blocks[i]
<1>. DEFINE B == a.blocks
            b0 == B[id]
            left == CleavedLeft(b0, at)
            right == CleavedRight(b0, at)
            n == Len(B)
            to == n + 1
            y == Cleaved(a, id, at)
            L == [B EXCEPT ![id] = left]
            Z == Append(L, right)
            X == a.index
            W == Parted(X, id, MinKeyOf(left), MinKeyOf(right), to)
            u == a.touched
            s == [from |-> id, tr |-> b0.tr, to |-> to, at |-> at]
            v == a.split
<1>1. y = [blocks |-> Z, index |-> W, touched |-> u, split |-> <<s>>]
  <2>1. a = [blocks |-> B, index |-> X, touched |-> u, split |-> v]  BY DEF Shaped
  <2>2. y = [a EXCEPT !.blocks = Z, !.index = W, !.split = <<s>>]
    BY <2>1 DEF Cleaved, Parted, Mins
  <2>. HIDE DEF y, B, X, u, v, Z, W, s
  <2>. QED  BY <2>1, <2>2
<1>2. PICK T : B \in Seq(T)  BY DEF Shaped
<1>3. /\ n \in Nat /\ DOMAIN B = 1 .. n
      /\ (\E U : L \in Seq(U)) /\ DOMAIN L = DOMAIN B /\ L[id] = left
      /\ \A i \in DOMAIN B : i # id => L[i] = B[i]
  <2>. HIDE DEF B, left
  <2>1. id \in DOMAIN B  BY DEF B
  <2>2. n \in Nat /\ DOMAIN B = 1 .. n  BY <1>2, ListIs
  <2>3. /\ (\E U : L \in Seq(U)) /\ DOMAIN L = DOMAIN B /\ L[id] = left
        /\ \A i \in DOMAIN B : i # id => L[i] = B[i]
    BY <1>2, <2>1, ListIs
  <2>. QED  BY <2>2, <2>3
<1>. HIDE DEF L, B, left, right, X, W, u, s, y
<1>4. PICK U : L \in Seq(U)  BY <1>3
<1>5. /\ Len(L) = n
      /\ (\E V : Z \in Seq(V)) /\ DOMAIN Z = 1 .. n + 1 /\ Z[n + 1] = right
      /\ \A i \in DOMAIN L : Z[i] = L[i]
  <2>1. /\ Len(L) \in Nat /\ DOMAIN L = 1 .. Len(L)
        /\ (\E V : Z \in Seq(V)) /\ DOMAIN Z = 1 .. Len(L) + 1 /\ Z[Len(L) + 1] = right
        /\ \A i \in DOMAIN L : Z[i] = L[i]
    <3>1. Len(L) \in Nat /\ DOMAIN L = 1 .. Len(L)  BY <1>4, ListIs
    <3>2. \E V : Z \in Seq(V)  BY <1>4, ListIs
    <3>3. DOMAIN Z = 1 .. Len(L) + 1 /\ Z[Len(L) + 1] = right  BY <1>4, <3>1, ListIs
    <3>4. \A i \in DOMAIN L : Z[i] = L[i]  BY <1>4, ListIs
    <3>. QED  BY <3>1, <3>2, <3>3, <3>4
  <2>2. Len(L) = n
    <3>1. 1 .. Len(L) = 1 .. n  BY <1>3, <2>1
    <3>. QED  BY <1>3, <2>1, <3>1
  <2>. QED  BY <2>1, <2>2
<1>. HIDE DEF Z, n
<1>6. id \in DOMAIN B  BY DEF B
<1>7. Z[id] = left /\ \A i \in DOMAIN B : i # id => Z[i] = B[i]  BY <1>3, <1>5, <1>6
<1>8. y.blocks = Z /\ y.index = W /\ y.touched = u /\ y.split = <<s>>  BY <1>1
<1>9. Shaped(y)  BY <1>1, <1>5, <1>8 DEF Shaped
<1>. QED  BY <1>3, <1>5, <1>7, <1>8, <1>9 DEF y, Z, n, L, B, left, right, X, W, u, s

\* y is the arena a with the block id in halves
HalvesOf(a, id, y) ==
    /\ Shaped(y) /\ Housed(y.blocks, y.index) /\ y.split # <<>>
    /\ \A i \in DOMAIN y.blocks : y.blocks[i].event = NoEvent
    /\ AllKeys(y.blocks) = AllKeys(a.blocks)
    /\ \A h : Held(a.blocks, h) => Held(y.blocks, Resettled(h, Head(y.split)))
    /\ \A i \in DOMAIN y.blocks :
         \/ i \in DOMAIN a.blocks /\ i # id /\ y.blocks[i] = a.blocks[i]
         \/ Count(y.blocks[i]) < NameCount /\ y.blocks[i].cap > 0
    /\ \E p \in DOMAIN y.blocks : /\ Count(y.blocks[p]) < NameCount
                                  /\ MinKeyOf(y.blocks[p]) = MinKeyOf(a.blocks[id])

\* The arena of the halves.
LEMMA CleaveStands ==
    ASSUME NEW a, Shaped(a), Housed(a.blocks, a.index), NEW id \in DOMAIN a.blocks,
           \A i \in DOMAIN a.blocks : a.blocks[i].event = NoEvent,
           Count(a.blocks[id]) >= NameCount
    PROVE  HalvesOf(a, id, Cleaved(a, id, Count(a.blocks[id]) \div 2))
<1>. DEFINE B == a.blocks
            c == B[id]
            at == Count(c) \div 2
            left == CleavedLeft(c, at)
            right == CleavedRight(c, at)
            n == Len(B)
            to == n + 1
            y == Cleaved(a, id, at)
            Z == y.blocks
            lo == Below(c, at)
            hi == From(c, at)
            s == [from |-> id, tr |-> c.tr, to |-> to, at |-> at]
<1>1. /\ Shaped(y) /\ y.split = <<s>>
      /\ y.index = Parted(a.index, id, MinKeyOf(left), MinKeyOf(right), to)
      /\ n \in Nat /\ DOMAIN B = 1 .. n
      /\ DOMAIN Z = 1 .. to /\ Z[id] = left /\ Z[to] = right
      /\ \A i \in DOMAIN B : i # id => Z[i] = B[i]
  BY CleavedFields
<1>2. Good(c) /\ c.event = NoEvent /\ Count(c) >= NameCount  BY HousedIs
<1>3. /\ at \in 1 .. c.cap - 1 /\ Portion(c, left, lo) /\ lo # {}
      /\ Portion(c, right, hi) /\ hi # {}
  <2>. HIDE DEF c, B
  <2>. QED  BY <1>2, HalvesAre
<1>4. at \in Nat
  <2>1. c.cap \in Nat  BY <1>2, GoodTypes
  <2>. HIDE DEF at, c
  <2>. QED  BY <1>3, <2>1
<1>5. /\ lo \union hi = KeysOf(c)
      /\ \A x \in KeysOf(c) : PosOf(c, x) \in Nat /\ A2P(c.tr, NameOf(c, x)) = PosOf(c, x)
      /\ \/ \A x \in lo, z \in hi : x < z
         \/ \A x \in lo, z \in hi : z < x
  <2>. HIDE DEF at, c
  <2>. QED  BY <1>2, <1>4, HalvesApart
<1>6. Housed(B, a.index) /\ id \in DOMAIN B /\ \A i \in DOMAIN B : B[i].event = NoEvent
  OBVIOUS
<1>7. s.from = id /\ s.tr = c.tr /\ s.to = to /\ s.at = at  OBVIOUS
<1>8. lo = {x \in KeysOf(c) : PosOf(c, x) < at} /\ hi = {x \in KeysOf(c) : ~(PosOf(c, x) < at)}
  BY DEF Below, From
<1>. HIDE DEF B, at, left, right, n, y, Z, lo, hi, s
<1>9. /\ Good(left) /\ left.event = NoEvent /\ left.cap > 0 /\ KeysOf(left) = lo
      /\ Count(left) < NameCount /\ \A x \in lo : NameOf(left, x) = NameOf(c, x)
      /\ Good(right) /\ right.event = NoEvent /\ right.cap > 0 /\ KeysOf(right) = hi
      /\ Count(right) < NameCount /\ \A x \in hi : NameOf(right, x) = NameOf(c, x)
  BY <1>3 DEF Portion
<1>10. Housed(Z, y.index)
  <2>1. KeysOf(Z[id]) # {} /\ KeysOf(Z[n + 1]) # {}  BY <1>1, <1>3, <1>9
  <2>2. KeysOf(Z[id]) \subseteq KeysOf(B[id]) /\ KeysOf(Z[n + 1]) \subseteq KeysOf(B[id])
    BY <1>1, <1>5, <1>9
  <2>3. \/ \A x \in KeysOf(Z[id]), z \in KeysOf(Z[n + 1]) : x < z
        \/ \A x \in KeysOf(Z[id]), z \in KeysOf(Z[n + 1]) : z < x
    BY <1>1, <1>5, <1>9
  <2>4. Good(Z[id]) /\ Good(Z[n + 1])  BY <1>1, <1>9
  <2>5. Housed(Z, Parted(a.index, id, MinKeyOf(Z[id]), MinKeyOf(Z[n + 1]), n + 1))
    BY <1>1, <1>6, <2>1, <2>2, <2>3, <2>4, CleaveHoused
  <2>. QED  BY <1>1, <2>5
<1>11. \A i \in DOMAIN Z : (i \in DOMAIN B /\ i # id) \/ i = id \/ i = to  BY <1>1
<1>12. \A i \in DOMAIN B : i \in DOMAIN Z /\ i # to  BY <1>1
<1>13. to \in DOMAIN Z  BY <1>1
<1>. HIDE DEF to
<1>14. ASSUME NEW i \in DOMAIN Z
       PROVE  /\ Z[i].event = NoEvent
              /\ \/ i \in DOMAIN B /\ i # id /\ Z[i] = B[i]
                 \/ Count(Z[i]) < NameCount /\ Z[i].cap > 0
  BY <1>1, <1>6, <1>9, <1>11
<1>15. AllKeys(Z) = AllKeys(B)
  <2>1. ASSUME NEW x PROVE x \in AllKeys(Z) <=> x \in AllKeys(B)
    <3>1. x \in AllKeys(Z) <=> \E i \in DOMAIN Z : x \in KeysOf(Z[i])  BY DEF AllKeys
    <3>2. x \in AllKeys(B) <=> \E i \in DOMAIN B : x \in KeysOf(B[i])  BY DEF AllKeys
    <3>3. x \in KeysOf(B[id]) <=> x \in KeysOf(Z[id]) \/ x \in KeysOf(Z[to])
      BY <1>1, <1>5, <1>9
    <3>4. ASSUME NEW i \in DOMAIN Z, x \in KeysOf(Z[i]) PROVE x \in AllKeys(B)
      <4>1. CASE i \in DOMAIN B /\ i # id  BY <1>1, <3>2, <3>4, <4>1
      <4>2. CASE i = id \/ i = to  BY <1>6, <3>2, <3>3, <3>4, <4>2
      <4>. QED  BY <1>11, <4>1, <4>2
    <3>5. ASSUME NEW i \in DOMAIN B, x \in KeysOf(B[i]) PROVE x \in AllKeys(Z)
      <4>1. CASE i # id  BY <1>1, <1>12, <3>1, <3>5, <4>1
      <4>2. CASE i = id  BY <1>6, <1>12, <1>13, <3>1, <3>3, <3>5, <4>2
      <4>. QED  BY <4>1, <4>2
    <3>. QED  BY <3>1, <3>2, <3>4, <3>5
  <2>. QED  BY <2>1
<1>16. ASSUME NEW h, Held(B, h) PROVE Held(Z, Resettled(h, s))
  <2>. DEFINE g == Resettled(h, s)
  <2>1. /\ DOMAIN g = DOMAIN h /\ IsMap(g)
        /\ \A x \in DOMAIN h : g[x] = IF h[x][1] = id /\ A2P(c.tr, h[x][2]) >= at
                                      THEN <<to, h[x][2]>> ELSE h[x]
    BY <1>7 DEF Resettled, IsMap
  <2>2. DOMAIN h = AllKeys(B) /\ \A i \in DOMAIN B : \A x \in KeysOf(B[i]) :
          h[x] = <<i, NameOf(B[i], x)>>
    BY <1>16 DEF Held
  <2>. HIDE DEF g
  <2>3. ASSUME NEW i \in DOMAIN Z, NEW x \in KeysOf(Z[i]) PROVE g[x] = <<i, NameOf(Z[i], x)>>
    <3>1. x \in DOMAIN h
      <4>1. x \in AllKeys(Z)  BY DEF AllKeys
      <4>. QED  BY <1>15, <2>2, <4>1
    <3>2. CASE i \in DOMAIN B /\ i # id
      <4>1. h[x] = <<i, NameOf(Z[i], x)>>  BY <1>1, <2>2, <3>2
      <4>2. h[x][1] # id  BY <3>2, <4>1
      <4>. QED  BY <2>1, <3>1, <4>1, <4>2
    <3>3. CASE i = id
      <4>1. x \in lo /\ x \in KeysOf(c) /\ NameOf(left, x) = NameOf(c, x)
        BY <1>1, <1>5, <1>9, <3>3
      <4>2. h[x] = <<id, NameOf(c, x)>>  BY <1>6, <2>2, <4>1
      <4>3. A2P(c.tr, NameOf(c, x)) = PosOf(c, x) /\ PosOf(c, x) \in Nat /\ PosOf(c, x) < at
        BY <1>5, <1>8, <4>1
      <4>4. h[x][2] = NameOf(c, x)  BY <4>2
      <4>5. ~(A2P(c.tr, h[x][2]) >= at)  BY <1>4, <4>3, <4>4
      <4>6. g[x] = h[x]  BY <2>1, <3>1, <4>5
      <4>. QED  BY <1>1, <3>3, <4>1, <4>2, <4>6
    <3>4. CASE i = to
      <4>1. x \in hi /\ x \in KeysOf(c) /\ NameOf(right, x) = NameOf(c, x)
        BY <1>1, <1>5, <1>9, <3>4 DEF to
      <4>2. h[x] = <<id, NameOf(c, x)>>  BY <1>6, <2>2, <4>1
      <4>3. A2P(c.tr, NameOf(c, x)) = PosOf(c, x) /\ PosOf(c, x) \in Nat /\ ~(PosOf(c, x) < at)
        BY <1>5, <1>8, <4>1
      <4>4. h[x][1] = id /\ h[x][2] = NameOf(c, x)  BY <4>2
      <4>5. A2P(c.tr, h[x][2]) >= at  BY <1>4, <4>3, <4>4
      <4>6. g[x] = <<to, h[x][2]>>  BY <2>1, <3>1, <4>4, <4>5
      <4>7. Z[i] = right  BY <1>1, <3>4
      <4>. QED  BY <3>4, <4>1, <4>4, <4>6, <4>7
    <3>. QED  BY <1>11, <3>2, <3>3, <3>4
  <2>. QED  BY <1>15, <2>1, <2>2, <2>3 DEF Held, g
<1>17. PICK p \in {id, to} : MinKeyOf(Z[p]) = MinKeyOf(B[id])
  <2>. DEFINE m == MinKeyOf(B[id])
  <2>1. m \in KeysOf(B[id]) /\ \A x \in KeysOf(B[id]) : m <= x  BY <1>6, HousedIs
  <2>. HIDE DEF m
  <2>2. m \in lo \/ m \in hi  BY <1>5, <2>1
  <2>3. ASSUME m \in lo PROVE MinKeyOf(left) = m
    <3>1. \A x \in KeysOf(left) : m <= x  BY <1>5, <1>9, <2>1
    <3>. QED  BY <1>9, <2>3, <3>1, LeastKeyIs
  <2>4. ASSUME m \in hi PROVE MinKeyOf(right) = m
    <3>1. \A x \in KeysOf(right) : m <= x  BY <1>5, <1>9, <2>1
    <3>. QED  BY <1>9, <2>4, <3>1, LeastKeyIs
  <2>. QED  BY <1>1, <2>2, <2>3, <2>4 DEF m
<1>18. p \in DOMAIN Z /\ Count(Z[p]) < NameCount  BY <1>1, <1>6, <1>9, <1>12, <1>13
<1>19. y.split # <<>> /\ Head(y.split) = s  BY <1>1
<1>20. \E q \in DOMAIN Z : Count(Z[q]) < NameCount /\ MinKeyOf(Z[q]) = MinKeyOf(B[id])
  BY <1>17, <1>18
<1>21. \A h : Held(B, h) => Held(Z, Resettled(h, Head(y.split)))  BY <1>16, <1>19
<1>22. HalvesOf(a, id, y)
  BY <1>1, <1>10, <1>14, <1>15, <1>19, <1>20, <1>21 DEF Z, B, HalvesOf
<1>. QED  BY <1>22 DEF y, at, B

\* w is the arena a with d for the block id
Rested(a, id, d, w) ==
    /\ Standing(w) /\ w.index = a.index /\ w.blocks[id] = d
    /\ DOMAIN w.blocks = DOMAIN a.blocks
    /\ \A i \in DOMAIN a.blocks : KeysOf(w.blocks[i]) = KeysOf(a.blocks[i])
    /\ AllKeys(w.blocks) = AllKeys(a.blocks)
    /\ \A h : Held(a.blocks, h) => Held(w.blocks, h)

\* The arena after silent moves of one block.
LEMMA SilentStands ==
    ASSUME NEW a, Standing(a), NEW id \in DOMAIN a.blocks, NEW d, Silent(a.blocks[id], d)
    PROVE  Rested(a, id, d, [a EXCEPT !.blocks[id] = d])
<1>. DEFINE B == a.blocks
            D == [B EXCEPT ![id] = d]
            X == a.index
            t == a.touched
            w == [a EXCEPT !.blocks[id] = d]
<1>1. a = [blocks |-> B, index |-> X, touched |-> t, split |-> <<>>]
  BY DEF Standing, Shaped
<1>2. w = [blocks |-> D, index |-> X, touched |-> t, split |-> <<>>]
  <2>1. w = [a EXCEPT !.blocks = D]  OBVIOUS
  <2>. HIDE DEF B, X, t, D
  <2>. QED  BY <1>1, <2>1
<1>3. PICK T : B \in Seq(T)  BY DEF Standing, Shaped
<1>4. /\ Housed(B, X) /\ \A i \in DOMAIN B : B[i].event = NoEvent /\ Good(B[i])
      /\ B # <<>> => t \in DOMAIN B
  <2>1. Housed(B, X)  BY DEF Standing
  <2>. QED  BY <2>1, HousedIs DEF Standing
<1>5. id \in DOMAIN B /\ Silent(B[id], d)  OBVIOUS
<1>. HIDE DEF B, X, t, D, w
<1>6. /\ Good(d) /\ KeysOf(d) = KeysOf(B[id]) /\ d.event = NoEvent
      /\ \A x \in KeysOf(B[id]) : NameOf(d, x) = NameOf(B[id], x)
  BY <1>4, <1>5, SilentNames
<1>7. /\ (\E U : D \in Seq(U)) /\ DOMAIN D = DOMAIN B /\ D[id] = d
      /\ \A i \in DOMAIN B : i # id => D[i] = B[i]
  BY <1>3, <1>5, ListIs DEF D
<1>8. \A i \in DOMAIN B : KeysOf(D[i]) = KeysOf(B[i]) /\ D[i].event = NoEvent
                          /\ \A x \in KeysOf(B[i]) : NameOf(D[i], x) = NameOf(B[i], x)
  BY <1>4, <1>5, <1>6, <1>7
<1>9. Housed(D, X)  BY <1>4, <1>5, <1>6, <1>7, StayHoused
<1>10. w.blocks = D /\ w.index = X /\ w.touched = t /\ w.split = <<>>  BY <1>2
<1>11. Shaped(w)  BY <1>2, <1>7, <1>10 DEF Shaped
<1>12. t \in DOMAIN B  BY <1>4, <1>5, EmptySeq
<1>13. Standing(w)  BY <1>7, <1>8, <1>9, <1>10, <1>11, <1>12 DEF Standing
<1>14. AllKeys(D) = AllKeys(B)  BY <1>7, <1>8 DEF AllKeys
<1>15. ASSUME NEW h, Held(B, h) PROVE Held(D, h)  BY <1>7, <1>8, <1>14, <1>15 DEF Held
<1>. QED  BY <1>7, <1>8, <1>10, <1>13, <1>14, <1>15 DEF B, X, w, Rested

\* what an insert leaves: k in one block, and the holder's addresses to be renamed
Grown(a, k, z) ==
    /\ k \notin AllKeys(a.blocks) /\ Shaped(z)
    /\ \E Y : /\ Lands(Y, k, z) /\ AllKeys(Y) = AllKeys(a.blocks)
              /\ \A h : Held(a.blocks, h) =>
                   Held(Y, IF z.split = <<>> THEN h ELSE Resettled(h, Head(z.split)))

\* What a full block that lacks the key does.
LEMMA SplitRouteGrows ==
    ASSUME NEW w, Standing(w), NEW k \in Nat, NEW id \in DOMAIN w.blocks,
           id = Route(w.index, k), Count(w.blocks[id]) >= NameCount,
           k \notin KeysOf(w.blocks[id])
    PROVE  Grown(w, k, SplitRoute(w, id, k))
<1>. DEFINE B == w.blocks
            c == B[id]
            z == SplitRoute(w, id, k)
            beyond == BeyondTail(c, k) \/ k < MinKeyOf(c)
<1>1. /\ Housed(B, w.index) /\ Shaped(w) /\ w.split = <<>>
      /\ \A i \in DOMAIN B : B[i].event = NoEvent
  BY DEF Standing
<1>2. Good(c) /\ KeysOf(c) # {} /\ c.event = NoEvent  BY <1>1 DEF Housed
<1>3. /\ MinKeyOf(c) \in KeysOf(c) /\ MinKeyOf(c) \in Nat
      /\ \A x \in KeysOf(c) : x \in Nat /\ MinKeyOf(c) <= x
  <2>. HIDE DEF c
  <2>. QED  BY <1>2, MinKeyIs, KeyIs
<1>4. \A i \in DOMAIN B : k \notin KeysOf(B[i])  BY <1>1, HomeIs
<1>5. k \notin AllKeys(B)  BY <1>4 DEF AllKeys
<1>6. CASE beyond
  <2>1. z = Spawn(w, k)  BY <1>6 DEF SplitRoute
  <2>2. \/ \A x \in KeysOf(c) : x < k
        \/ \A x \in KeysOf(c) : k < x
    <3>. HIDE DEF c
    <3>1. CASE BeyondTail(c, k)
      <4>1. \A x \in KeysOf(c) : Precedes(c, x, k)  BY <1>2, <3>1, BeyondIs
      <4>. QED  BY <1>3, <4>1 DEF Precedes
    <3>2. CASE k < MinKeyOf(c)  BY <1>3, <3>2
    <3>. QED  BY <1>6, <3>1, <3>2
  <2>3. /\ Shaped(z) /\ z.split = <<>>
        /\ Lands(Append(B, NewBlock), k, z)
        /\ \A h : Held(B, h) => Held(Append(B, NewBlock), h)
        /\ AllKeys(Append(B, NewBlock)) = AllKeys(B)
    BY <1>1, <1>4, <2>1, <2>2, SpawnLands
  <2>. DEFINE Y == Append(B, NewBlock)
  <2>4. /\ Shaped(z) /\ z.split = <<>> /\ Lands(Y, k, z) /\ AllKeys(Y) = AllKeys(B)
        /\ \A h : Held(B, h) => Held(Y, h)
    BY <2>3
  <2>. HIDE DEF Y, z
  <2>. QED  BY <1>5, <2>4 DEF Grown, z
<1>7. CASE ~beyond
  <2>. DEFINE y == Cleaved(w, id, Count(c) \div 2)
              Y == y.blocks
              to == Route(y.index, k)
  <2>1. z = WithBlock(y, to, Inserted(Y[to], k))  BY <1>7 DEF SplitRoute, Rerouted
  <2>2. /\ Shaped(y) /\ Housed(Y, y.index) /\ y.split # <<>>
        /\ \A i \in DOMAIN Y : Y[i].event = NoEvent
        /\ AllKeys(Y) = AllKeys(B)
        /\ \A h : Held(B, h) => Held(Y, Resettled(h, Head(y.split)))
        /\ \A i \in DOMAIN Y : \/ i \in DOMAIN B /\ i # id /\ Y[i] = B[i]
                               \/ Count(Y[i]) < NameCount /\ Y[i].cap > 0
        /\ \E p \in DOMAIN Y : Count(Y[p]) < NameCount /\ MinKeyOf(Y[p]) = MinKeyOf(c)
    <3>1. HalvesOf(w, id, y)  BY <1>1, CleaveStands
    <3>. HIDE DEF y
    <3>. QED  BY <3>1 DEF HalvesOf
  <2>3. PICK p \in DOMAIN Y : Count(Y[p]) < NameCount /\ MinKeyOf(Y[p]) = MinKeyOf(c)
    BY <2>2
  <2>. DEFINE X == y.index
              u == y.touched
              s == y.split
  <2>4. y = [blocks |-> Y, index |-> X, touched |-> u, split |-> s]  BY <2>2 DEF Shaped
  <2>5. MinKeyOf(c) <= k  BY <1>3, <1>7
  <2>. HIDE DEF y, beyond
  <2>6. /\ to \in DOMAIN Y /\ MinKeyOf(Y[to]) <= k
        /\ \A i \in DOMAIN Y : MinKeyOf(Y[i]) <= k => MinKeyOf(Y[i]) <= MinKeyOf(Y[to])
    <3>1. /\ to \in DOMAIN Y
          /\ \A i \in DOMAIN Y : MinKeyOf(Y[i]) <= k => MinKeyOf(Y[i]) <= MinKeyOf(Y[to])
          /\ MinKeyOf(Y[to]) <= k \/ \A i \in DOMAIN Y : k < MinKeyOf(Y[i])
      BY <2>2, <2>3, RouteIs
    <3>2. ~(k < MinKeyOf(c))  BY <1>3, <2>5
    <3>. QED  BY <2>3, <3>1, <3>2
  <2>7. Count(Y[to]) < NameCount /\ Y[to].cap > 0
    <3>. SUFFICES ASSUME to \in DOMAIN B, to # id, Y[to] = B[to] PROVE FALSE
      BY <2>2, <2>6
    <3>1. MinKeyOf(B[to]) <= MinKeyOf(c)  BY <1>1, <2>6, RouteIs
    <3>2. MinKeyOf(c) <= MinKeyOf(B[to])  BY <2>3, <2>5, <2>6
    <3>3. MinKeyOf(B[to]) \in Nat  BY <1>1, HousedIs
    <3>4. MinKeyOf(B[to]) = MinKeyOf(B[id])  BY <1>3, <3>1, <3>2, <3>3
    <3>. QED  BY <1>1, <3>4, HousedIs
  <2>8. k \notin KeysOf(Y[to])  BY <1>5, <2>2, <2>6 DEF AllKeys
  <2>9. Placeable(Y[to], k)
    <3>1. Good(Y[to])  BY <2>2, <2>6, HousedIs
    <3>. QED  BY <2>7, <2>8, <3>1, InsertIntoIs
  <2>. DEFINE Z == [Y EXCEPT ![to] = Inserted(Y[to], k)]
  <2>10. z = [blocks |-> Z, index |-> X, touched |-> to, split |-> s]
    <3>1. z = [y EXCEPT !.blocks = Z, !.touched = to]  BY <2>1 DEF WithBlock
    <3>. HIDE DEF Y, X, u, s, Z, to, z
    <3>. QED  BY <2>4, <3>1
  <2>11. Shaped(z)
    <3>1. PICK T : Y \in Seq(T)  BY <2>2 DEF Shaped
    <3>2. \E U : Z \in Seq(U)  BY <2>6, <3>1, ListIs
    <3>. HIDE DEF Y, X, u, s, Z, to, z
    <3>. QED  BY <2>10, <3>2 DEF Shaped
  <2>12. X = Lowered(X, k, to)
    <3>1. MinKeyOf(Y[to]) \in DOMAIN X  BY <2>2, <2>6, HousedIs
    <3>2. MinKeyOf(Y[to]) \in Nat  BY <2>2, <2>6, HousedIs
    <3>3. ~(\A m \in DOMAIN X : k < m)  BY <2>6, <3>1, <3>2
    <3>. QED  BY <3>3 DEF Lowered
  <2>13. z.blocks = Z /\ z.touched = to /\ z.index = Lowered(X, k, to) /\ z.split = s
    <3>. HIDE DEF Y, X, u, s, Z, to, z
    <3>. QED  BY <2>10, <2>12
  <2>14. Silent(Y[to], Y[to])  BY DEF Silent
  <2>15. Lands(Y, k, z)
    BY <2>2, <2>6, <2>9, <2>11, <2>13, <2>14, PlacedLands
  <2>16. \A h : Held(B, h) => Held(Y, IF z.split = <<>> THEN h ELSE Resettled(h, Head(z.split)))
    <3>1. z.split = y.split /\ y.split # <<>>  BY <2>2, <2>13
    <3>. HIDE DEF z
    <3>. QED  BY <2>2, <3>1
  <2>. HIDE DEF Y, z
  <2>. QED  BY <1>5, <2>2, <2>11, <2>15, <2>16 DEF Grown, Y, z
<1>. QED  BY <1>6, <1>7

\* A refused insert, which leaves the arena with the keys and addresses it had.
Refused(a, k, z) ==
    /\ k \in AllKeys(a.blocks) /\ Standing(z) /\ AllKeys(z.blocks) = AllKeys(a.blocks)
    /\ \A h : Held(a.blocks, h) => Held(z.blocks, h)

\* what an insert of k answers
Responds(a, k, r) ==
    \/ r.ok = TRUE /\ Grown(a, k, r.a)
    \/ r.ok = FALSE /\ Refused(a, k, r.a)

\* An eager flip of a sound block with a key keeps every name and event.
LEMMA EagerIs ==
    ASSUME NEW c, Good(c), KeysOf(c) # {}
    PROVE  c.cap > 0 /\ Silent(c, EagerFlip(c)) /\ EagerFlip(c).cap > 0
<1>1. c.cap > 0
  <2>1. PICK k : k \in KeysOf(c)  OBVIOUS
  <2>2. PosOf(c, k) \in Live(c)  BY <2>1, KeyIs
  <2>3. c.cap \in Nat /\ Live(c) \in SUBSET Nat /\ Live(c) \subseteq 0 .. c.cap - 1
    BY GoodTypes, LiveIs
  <2>. QED  BY <2>2, <2>3
<1>2. SameNames(c, Flipped(c))  BY <1>1, FlippedIs
<1>3. EagerFlip(c) = Flipped(c) \/ EagerFlip(c) = c  BY DEF EagerFlip
<1>4. CASE EagerFlip(c) = c  BY <1>1, <1>4 DEF Silent
<1>5. CASE EagerFlip(c) = Flipped(c)
  <2>. DEFINE d == Flipped(c)
  <2>. HIDE DEF d
  <2>1. SameNames(c, d) /\ EagerFlip(c) = d  BY <1>2, <1>5 DEF d
  <2>. QED  BY <1>1, <2>1 DEF Silent, SameNames
<1>. QED  BY <1>3, <1>4, <1>5

\* What the block answers decides the insert.
LEMMA TriedIs ==
    ASSUME NEW a, Standing(a), NEW k \in Nat, NEW id \in DOMAIN a.blocks,
           id = Route(a.index, k), NEW d, Silent(a.blocks[id], d), d.cap > 0,
           NEW below, below <=> BelowAll(a, k)
    PROVE  Responds(a, k, Tried(a, id, k, below, InsertInto(d, k)))
<1>. DEFINE B == a.blocks
            X == a.index
            t == InsertInto(d, k)
            r == Tried(a, id, k, below, t)
<1>1. /\ Shaped(a) /\ a.split = <<>> /\ Housed(B, X)
      /\ \A i \in DOMAIN B : B[i].event = NoEvent /\ Good(B[i])
  <2>1. Shaped(a) /\ a.split = <<>> /\ Housed(B, X)  BY DEF Standing
  <2>. QED  BY <2>1, HousedIs DEF Standing
<1>2. /\ Good(d) /\ KeysOf(d) = KeysOf(B[id])
  BY <1>1, SilentNames
<1>3. /\ t.ok \in BOOLEAN
      /\ t.ok => t.b = Inserted(d, k) /\ Placeable(d, k)
      /\ ~t.ok => /\ t.b = Readied(d) /\ Silent(d, t.b) /\ Good(t.b)
                  /\ k \in KeysOf(d) \/ Count(d) >= NameCount
  BY <1>2, InsertIntoIs
<1>. HIDE DEF t
<1>4. CASE t.ok
  <2>. DEFINE Z == [B EXCEPT ![id] = Inserted(d, k)]
              W == Lowered(X, k, id)
              u == a.touched
              z == r.a
  <2>1. a = [blocks |-> B, index |-> X, touched |-> u, split |-> <<>>]
    BY <1>1 DEF Shaped
  <2>2. r.ok = TRUE /\ z = [[a EXCEPT !.blocks[id] = t.b, !.touched = id]
                              EXCEPT !.index = IF below
                                THEN Reindexed(@, {Min(Mins(a))}, [m \in {k} |-> id]) ELSE @]
    BY <1>4 DEF Tried, ArenaAnswer, WithBlock
  <2>3. W = IF below THEN Reindexed(X, {Min(Mins(a))}, [m \in {k} |-> id]) ELSE X
    BY DEF Lowered, BelowAll, Mins
  <2>4. t.b = Inserted(d, k)  BY <1>3, <1>4
  <2>5. z = [a EXCEPT !.blocks = Z, !.touched = id, !.index = W]
    <3>1. [[a EXCEPT !.blocks[id] = t.b, !.touched = id]
              EXCEPT !.index = IF below
                 THEN Reindexed(@, {Min(Mins(a))}, [m \in {k} |-> id]) ELSE @]
          = [[a EXCEPT !.blocks = Z, !.touched = id] EXCEPT !.index = W]
      <4>. DEFINE q == [a EXCEPT !.blocks[id] = t.b, !.touched = id]
      <4>1. q = [a EXCEPT !.blocks = Z, !.touched = id]  BY <2>4
      <4>2. q.index = X
        <5>. HIDE DEF B, X, u, Z
        <5>1. q = [blocks |-> Z, index |-> X, touched |-> id, split |-> <<>>]
          <6>. HIDE DEF q
          <6>. QED  BY <2>1, <4>1
        <5>. HIDE DEF q
        <5>. QED  BY <5>1
      <4>3. [q EXCEPT !.index = IF below
                 THEN Reindexed(@, {Min(Mins(a))}, [m \in {k} |-> id]) ELSE @]
            = [q EXCEPT !.index = W]
        <5>. HIDE DEF q, W, X
        <5>. QED  BY <2>3, <4>2
      <4>. QED  BY <4>1, <4>3
    <3>. QED  BY <2>2, <3>1
  <2>. HIDE DEF B, X, Z, W, u, z
  <2>6. z = [blocks |-> Z, index |-> W, touched |-> id, split |-> <<>>]
    BY <2>1, <2>5
  <2>7. z.blocks = Z /\ z.index = W /\ z.touched = id /\ z.split = <<>>  BY <2>6
  <2>8. Shaped(z)
    <3>1. PICK T : B \in Seq(T)  BY <1>1 DEF Shaped, B
    <3>2. id \in DOMAIN B  BY DEF B
    <3>3. \E U : Z \in Seq(U)  BY <3>1, <3>2, ListIs DEF Z
    <3>. QED  BY <2>6, <2>7, <3>3 DEF Shaped
  <2>9. /\ z.blocks = [a.blocks EXCEPT ![id] = Inserted(d, k)]
        /\ z.index = Lowered(a.index, k, id)
    BY <2>7 DEF Z, W, B, X
  <2>10. /\ Shaped(a) /\ Housed(a.blocks, a.index)
         /\ \A i \in DOMAIN a.blocks : a.blocks[i].event = NoEvent
         /\ Placeable(d, k)
    BY <1>1, <1>3, <1>4 DEF B, X
  <2>11. /\ Lands(a.blocks, k, z)
         /\ \A i \in DOMAIN a.blocks : k \notin KeysOf(a.blocks[i])
    BY <2>7, <2>8, <2>9, <2>10, PlacedLands
  <2>12. k \notin AllKeys(a.blocks)  BY <2>11 DEF AllKeys
  <2>13. Grown(a, k, z)  BY <2>7, <2>8, <2>11, <2>12 DEF Grown
  <2>. HIDE DEF r
  <2>14. Responds(a, k, r)  BY <2>2, <2>13 DEF z, Responds
  <2>. QED  BY <2>14 DEF r, t
<1>5. CASE ~t.ok
  <2>. DEFINE w == [a EXCEPT !.blocks[id] = t.b]
              full == Full(t.b) /\ Find(t.b, k) = None
  <2>1. Silent(B[id], t.b) /\ Good(t.b) /\ KeysOf(t.b) = KeysOf(B[id]) /\ Count(t.b) = Count(d)
    <3>1. Silent(d, t.b) /\ Good(t.b)  BY <1>3, <1>5
    <3>2. Silent(B[id], t.b)  BY <1>1, <3>1, SilentOn
    <3>3. KeysOf(t.b) = KeysOf(B[id])  BY <1>1, <3>2, SilentNames
    <3>4. Count(t.b) = Count(d)  BY <3>1 DEF Silent, SameNames
    <3>. QED  BY <3>1, <3>2, <3>3, <3>4
  <2>2. /\ Standing(w) /\ w.index = X /\ w.blocks[id] = t.b
        /\ DOMAIN w.blocks = DOMAIN B
        /\ AllKeys(w.blocks) = AllKeys(B)
        /\ \A h : Held(B, h) => Held(w.blocks, h)
    <3>1. Rested(a, id, t.b, w)  BY <2>1, SilentStands
    <3>. HIDE DEF w
    <3>. QED  BY <3>1 DEF Rested
  <2>3. Find(t.b, k) = None <=> k \notin KeysOf(B[id])
    <3>1. Find(t.b, k) = IF k \in KeysOf(t.b) THEN NameOf(t.b, k) ELSE None
      BY <2>1, FindIs
    <3>2. k \in KeysOf(t.b) => NameOf(t.b, k) # None
      <4>1. k \in KeysOf(t.b) => NameOf(t.b, k) \in Names  BY <2>1, NameIs
      <4>2. None \notin Names  BY NamesAre DEF Names, None
      <4>. QED  BY <4>1, <4>2
    <3>. QED  BY <2>1, <3>1, <3>2
  <2>. HIDE DEF w
  <2>4. r = IF full THEN ArenaAnswer(SplitRoute(w, id, k), TRUE) ELSE ArenaAnswer(w, FALSE)
    BY <1>5 DEF Tried, w
  <2>5. CASE full
    <3>1. Count(t.b) >= NameCount /\ k \notin KeysOf(B[id])  BY <2>3, <2>5 DEF Full
    <3>2. Grown(w, k, SplitRoute(w, id, k))
      <4>1. /\ id \in DOMAIN w.blocks /\ id = Route(w.index, k)
            /\ Count(w.blocks[id]) >= NameCount /\ k \notin KeysOf(w.blocks[id])
        BY <2>1, <2>2, <3>1
      <4>. QED  BY <2>2, <4>1, SplitRouteGrows
    <3>. DEFINE z == SplitRoute(w, id, k)
    <3>3. Grown(a, k, z)
      <4>. HIDE DEF z
      <4>1. Grown(w, k, z)  BY <3>2 DEF z
      <4>. QED  BY <2>2, <4>1 DEF Grown
    <3>4. r.a = z /\ r.ok = TRUE
      <4>. HIDE DEF z, full
      <4>. QED  BY <2>4, <2>5 DEF ArenaAnswer, z
    <3>. HIDE DEF r, z
    <3>5. Responds(a, k, r)  BY <3>3, <3>4 DEF Responds
    <3>. QED  BY <3>5 DEF r, t
  <2>6. CASE ~full
    <3>1. k \in KeysOf(B[id])
      <4>. SUFFICES ASSUME k \notin KeysOf(B[id]) PROVE FALSE  OBVIOUS
      <4>1. Count(d) >= NameCount  BY <1>2, <1>3, <1>5
      <4>2. Full(t.b)  BY <2>1, <4>1 DEF Full
      <4>. QED  BY <2>3, <2>6, <4>2
    <3>2. k \in AllKeys(B)  BY <3>1 DEF AllKeys
    <3>3. Refused(a, k, w)  BY <2>2, <3>2 DEF Refused
    <3>4. r.a = w /\ r.ok = FALSE
      <4>. HIDE DEF full
      <4>. QED  BY <2>4, <2>6 DEF ArenaAnswer
    <3>. HIDE DEF r
    <3>5. Responds(a, k, r)  BY <3>3, <3>4 DEF Responds
    <3>. QED  BY <3>5 DEF r, t
  <2>. QED  BY <2>5, <2>6
<1>. QED  BY <1>3, <1>4, <1>5 DEF t

\* An insert takes exactly the keys that are not there.
LEMMA InsertGrows ==
    ASSUME NEW a, Standing(a), NEW k \in Nat
    PROVE  Responds(a, k, ArenaInsert(a, k))
<1>. DEFINE B == a.blocks
            r == ArenaInsert(a, k)
<1>1. /\ Shaped(a) /\ a.split = <<>> /\ Housed(B, a.index)
      /\ \A i \in DOMAIN B : B[i].event = NoEvent
  BY DEF Standing
<1>2. Mins(a) = Leasts(B) /\ (Mins(a) = {} <=> DOMAIN B = {})
  <2>1. DOMAIN a.index = Leasts(B)  BY <1>1, HousedIs
  <2>. QED  BY <2>1 DEF Mins, Leasts
<1>3. CASE Mins(a) = {}
  <2>. DEFINE z == Spawn(a, k)
              Y == Append(B, NewBlock)
  <2>1. r = ArenaAnswer(z, TRUE)  BY <1>3 DEF ArenaInsert
  <2>2. DOMAIN B = {}  BY <1>2, <1>3
  <2>3. B = <<>>
    <3>1. PICK T : B \in Seq(T)  BY <1>1 DEF Shaped
    <3>. HIDE DEF B
    <3>2. Len(B) = 0  BY <2>2, <3>1
    <3>. QED  BY <3>1, <3>2
  <2>4. /\ Shaped(z) /\ z.split = <<>> /\ Lands(Y, k, z)
        /\ \A h : Held(B, h) => Held(Y, h)
        /\ AllKeys(Y) = AllKeys(B)
    BY <1>1, <2>2, <2>3, SpawnLands
  <2>5. k \notin AllKeys(B)  BY <2>2 DEF AllKeys
  <2>. HIDE DEF z, Y
  <2>6. Grown(a, k, z)  BY <2>4, <2>5 DEF Grown
  <2>7. r.ok = TRUE /\ r.a = z  BY <2>1 DEF ArenaAnswer
  <2>. HIDE DEF r
  <2>. QED  BY <2>6, <2>7 DEF Responds, r
<1>4. CASE Mins(a) # {}
  <2>. DEFINE id == Route(a.index, k)
              below == BelowAll(a, k)
              d == IF below THEN EagerFlip(B[id]) ELSE B[id]
  <2>1. r = Tried(a, id, k, below, InsertInto(d, k))  BY <1>4 DEF ArenaInsert
  <2>2. id \in DOMAIN B  BY <1>1, <1>2, <1>4, RouteIs
  <2>3. Good(B[id]) /\ KeysOf(B[id]) # {}  BY <1>1, <2>2 DEF Housed
  <2>4. Silent(B[id], d) /\ d.cap > 0
    <3>1. B[id].cap > 0 /\ Silent(B[id], EagerFlip(B[id])) /\ EagerFlip(B[id]).cap > 0
      BY <2>3, EagerIs
    <3>2. Silent(B[id], B[id])  BY DEF Silent
    <3>. QED  BY <3>1, <3>2
  <2>. HIDE DEF d, below
  <2>5. below <=> BelowAll(a, k)  BY DEF below
  <2>. DEFINE q == Tried(a, id, k, below, InsertInto(d, k))
  <2>6. Responds(a, k, q)
    BY <2>2, <2>4, <2>5, TriedIs
  <2>. HIDE DEF q
  <2>. QED  BY <2>1, <2>6 DEF q
<1>. QED  BY <1>3, <1>4

-----------------------------------------------------------------------------
(* The calls on an arena, by a caller that drains what each one did.       *)

VARIABLES
  arena,        \* the arena
  known,        \* the keys given to it
  addresses     \* what the caller holds: key |-> address

arenaVars == <<arena, known, addresses>>

ArenaInit == arena = NewArena /\ known = {} /\ addresses = <<>>

ArenaTake(k) ==
  /\ arena' = ArenaDrained(ArenaInsert(arena, k).a)
  /\ known' = known \union {k}
  /\ addresses' = ArenaHeld(ArenaInsert(arena, k), k, addresses)

ArenaNext == \E k \in Nat : ArenaTake(k)
ArenaSpec == ArenaInit /\ [][ArenaNext]_arenaVars

\* A lookup answers the address of a key that was given, and nothing of others.
ArenaAnswers ==
  \A k \in Nat : ArenaFind(arena, k) = IF k \in known THEN addresses[k] ELSE <<>>

\* The holder has the address of every key in the blocks.
ArenaFollows == known = ArenaKeys(arena) /\ addresses = ArenaAddresses(arena)

\* An insert is refused exactly of a key that is there: a full block splits, and
\* the half that the key is then routed to has room for it.
ArenaTakes == \A k \in Nat : ArenaInsert(arena, k).ok = (k \notin known)

AInv ==
  /\ Standing(arena) /\ AllKeys(arena.blocks) = known
  /\ Held(arena.blocks, addresses)

-----------------------------------------------------------------------------
\* A new arena is sound and holds nothing.
LEMMA ArenaInitIs == ArenaInit => AInv
<1>. SUFFICES ASSUME ArenaInit PROVE AInv  OBVIOUS
<1>. DEFINE a == arena
<1>1. /\ a = [blocks |-> <<>>, index |-> <<>>, touched |-> 1, split |-> <<>>]
      /\ known = {} /\ addresses = <<>>
  BY DEF ArenaInit, NewArena
<1>2. a.blocks = <<>> /\ a.index = <<>> /\ a.touched = 1 /\ a.split = <<>>  BY <1>1
<1>3. DOMAIN <<>> = {} /\ <<>> \in Seq(Nat)  OBVIOUS
<1>4. DOMAIN a.blocks = {}  BY <1>2, <1>3
<1>5. Shaped(a)  BY <1>1, <1>2, <1>3 DEF Shaped
<1>6. Housed(a.blocks, a.index)
  <2>1. Leasts(a.blocks) = {}  BY <1>4 DEF Leasts
  <2>2. a.index = [m \in {} |-> a.index[m]]  BY <1>2
  <2>. QED  BY <1>4, <2>1, <2>2 DEF Housed
<1>7. Standing(a)  BY <1>2, <1>4, <1>5, <1>6 DEF Standing
<1>8. AllKeys(a.blocks) = {}  BY <1>4 DEF AllKeys
<1>9. Held(a.blocks, addresses)
  <2>1. DOMAIN addresses = {}  BY <1>1, <1>3
  <2>2. addresses = [m \in {} |-> addresses[m]]  BY <1>1
  <2>. QED  BY <1>4, <1>8, <2>1, <2>2 DEF Held, IsMap
<1>. QED  BY <1>1, <1>7, <1>8, <1>9 DEF AInv

\* Drained of nothing, the arena is as it was.
LEMMA DrainedSame ==
    ASSUME NEW a, Standing(a), a.blocks # <<>>
    PROVE  ArenaDrained(a) = a
<1>. DEFINE B == a.blocks
            t == a.touched
            X == a.index
            c == [B[t] EXCEPT !.event = NoEvent]
            D == [B EXCEPT ![t] = c]
<1>1. a = [blocks |-> B, index |-> X, touched |-> t, split |-> <<>>]
  BY DEF Standing, Shaped
<1>2. t \in DOMAIN B /\ B[t].event = NoEvent /\ Good(B[t])
  <2>1. t \in DOMAIN B /\ B[t].event = NoEvent /\ Housed(B, X)  BY DEF Standing
  <2>. QED  BY <2>1, HousedIs
<1>3. c = B[t]
  <2>. DEFINE e == B[t]
  <2>1. Whole(e) /\ e.event = NoEvent  BY <1>2 DEF Good
  <2>. HIDE DEF e
  <2>2. [e EXCEPT !.event = NoEvent] = e  BY <2>1 DEF Whole
  <2>. QED  BY <2>2 DEF e
<1>4. PICK T : B \in Seq(T)  BY DEF Standing, Shaped
<1>5. D = B
  <2>. HIDE DEF B, c, t
  <2>1. B = [i \in DOMAIN B |-> B[i]]  BY <1>4
  <2>2. D = [B EXCEPT ![t] = B[t]]  BY <1>3
  <2>. QED  BY <2>1, <2>2
<1>6. ArenaDrained(a) = [a EXCEPT !.split = <<>>, !.blocks = D]
  BY <1>1 DEF ArenaDrained
<1>. HIDE DEF B, t, X, D
<1>7. [a EXCEPT !.split = <<>>, !.blocks = D] = a
  <2>. DEFINE e == [a EXCEPT !.split = <<>>, !.blocks = D]
  <2>1. e = [a EXCEPT !.split = <<>>, !.blocks = D]  OBVIOUS
  <2>. HIDE DEF e
  <2>2. e = [[blocks |-> B, index |-> X, touched |-> t, split |-> <<>>]
                EXCEPT !.split = <<>>, !.blocks = D]
    BY <1>1, <2>1, Zenon
  <2>3. e = [blocks |-> D, index |-> X, touched |-> t, split |-> <<>>]  BY <2>2
  <2>4. e = a  BY <1>1, <1>5, <2>3
  <2>. QED  BY <2>4 DEF e
<1>. QED  BY <1>6, <1>7

\* The caller's step after an insert that took the key.
LEMMA GrownKeeps ==
    ASSUME NEW a, Standing(a), NEW k \in Nat, NEW r, r.ok = TRUE, Grown(a, k, r.a),
           NEW h, Held(a.blocks, h)
    PROVE  LET d == ArenaDrained(r.a)
           IN  /\ Standing(d) /\ AllKeys(d.blocks) = AllKeys(a.blocks) \union {k}
               /\ Held(d.blocks, ArenaHeld(r, k, h))
<1>. DEFINE z == r.a
            d == ArenaDrained(z)
            Z == z.blocks
            D == d.blocks
            t == z.touched
<1>1. /\ k \notin AllKeys(a.blocks) /\ Shaped(z)
      /\ \E Y : /\ Lands(Y, k, z) /\ AllKeys(Y) = AllKeys(a.blocks)
                /\ Held(Y, IF z.split = <<>> THEN h ELSE Resettled(h, Head(z.split)))
  BY DEF Grown
<1>2. PICK Y : /\ Lands(Y, k, z) /\ AllKeys(Y) = AllKeys(a.blocks)
               /\ Held(Y, IF z.split = <<>> THEN h ELSE Resettled(h, Head(z.split)))
  BY <1>1
<1>. DEFINE g == IF z.split = <<>> THEN h ELSE Resettled(h, Head(z.split))
            f == ArenaFollowed(z, h)
            H == ArenaHeld(r, k, h)
<1>3. f = FoldLeft(Renamed, g, AddressPairs(z))  BY DEF ArenaFollowed
<1>4. H = [x \in DOMAIN h \union {k} |-> IF x = k THEN ArenaAddress(z, k) ELSE f[x]]
  BY DEF ArenaHeld
<1>5. /\ Standing(d) /\ d.index = z.index /\ DOMAIN D = DOMAIN Z
      /\ \A i \in DOMAIN Z : /\ KeysOf(D[i]) = KeysOf(Z[i])
                             /\ \A x : NameOf(D[i], x) = NameOf(Z[i], x)
  BY <1>1, <1>2, DrainedStands
<1>. HIDE DEF d, g, f, H, D
<1>6. Held(Y, g)  BY <1>2 DEF g
<1>7. DOMAIN g = AllKeys(a.blocks) /\ DOMAIN h = AllKeys(a.blocks)
  BY <1>2, <1>6 DEF Held
<1>8. f = [x \in DOMAIN g |-> ArenaAddress(z, x)]  BY <1>2, <1>3, <1>6, LandsOwes
<1>9. Housed(Z, z.index)  BY <1>2 DEF Lands
<1>10. AllKeys(Z) = AllKeys(a.blocks) \union {k}
  <2>1. /\ DOMAIN Y = DOMAIN Z /\ t \in DOMAIN Y
        /\ \A i \in DOMAIN Y : Good(Y[i]) /\ (i # t => Z[i] = Y[i])
    BY <1>2 DEF Lands, Still
  <2>2. PICK e, m : Silent(Y[t], e) /\ Entered(e, k, Z[t], m)  BY <1>2 DEF Lands
  <2>3. KeysOf(Z[t]) = KeysOf(Y[t]) \union {k}
    <3>1. KeysOf(e) = KeysOf(Y[t])  BY <2>1, <2>2, SilentNames
    <3>. QED  BY <2>2, <3>1 DEF Entered
  <2>. HIDE DEF Z, t
  <2>4. ASSUME NEW x PROVE x \in AllKeys(Z) <=> x \in AllKeys(Y) \/ x = k
    <3>1. x \in AllKeys(Z) <=> \E i \in DOMAIN Z : x \in KeysOf(Z[i])  BY DEF AllKeys
    <3>2. x \in AllKeys(Y) <=> \E i \in DOMAIN Y : x \in KeysOf(Y[i])  BY DEF AllKeys
    <3>. QED  BY <2>1, <2>3, <3>1, <3>2
  <2>. QED  BY <1>2, <2>4
<1>11. AllKeys(D) = AllKeys(Z)  BY <1>5 DEF AllKeys
<1>12. DOMAIN H = AllKeys(D) /\ IsMap(H)
  <2>1. DOMAIN H = DOMAIN h \union {k}  BY <1>4
  <2>. QED  BY <1>4, <1>7, <1>10, <1>11, <2>1 DEF IsMap
<1>13. ASSUME NEW i \in DOMAIN D, NEW x \in KeysOf(D[i]) PROVE H[x] = <<i, NameOf(D[i], x)>>
  <2>1. i \in DOMAIN Z /\ x \in KeysOf(Z[i]) /\ NameOf(D[i], x) = NameOf(Z[i], x)
    BY <1>5
  <2>2. ArenaAddress(z, x) = <<i, NameOf(Z[i], x)>>  BY <1>9, <2>1, AddressIs
  <2>3. x \in DOMAIN h \union {k}
    <3>1. x \in AllKeys(Z)  BY <2>1 DEF AllKeys
    <3>. QED  BY <1>7, <1>10, <3>1
  <2>4. H[x] = ArenaAddress(z, x)
    <3>1. H[x] = IF x = k THEN ArenaAddress(z, k) ELSE f[x]  BY <1>4, <2>3
    <3>2. x # k => f[x] = ArenaAddress(z, x)  BY <1>7, <1>8, <2>3
    <3>. QED  BY <3>1, <3>2
  <2>. QED  BY <2>1, <2>2, <2>4
<1>14. Held(D, H)  BY <1>12, <1>13 DEF Held
<1>. QED  BY <1>5, <1>10, <1>11, <1>14 DEF d, D, H

\* An insert, drained by its caller, keeps the invariant; it is refused of old keys only.
LEMMA ArenaKeeps ==
    ASSUME AInv, NEW k \in Nat, ArenaTake(k)
    PROVE  AInv' /\ ArenaInsert(arena, k).ok = (k \notin known)
<1>. DEFINE r == ArenaInsert(arena, k)
            B == arena.blocks
<1>1. Standing(arena) /\ AllKeys(B) = known /\ Held(B, addresses)  BY DEF AInv
<1>2. /\ arena' = ArenaDrained(r.a) /\ known' = known \union {k}
      /\ addresses' = ArenaHeld(r, k, addresses)
  BY DEF ArenaTake
<1>3. Responds(arena, k, r)  BY <1>1, InsertGrows
<1>. HIDE DEF r
<1>4. CASE r.ok = TRUE /\ Grown(arena, k, r.a)
  <2>1. k \notin known  BY <1>1, <1>4 DEF Grown
  <2>. DEFINE d == ArenaDrained(r.a)
  <2>2. /\ Standing(d) /\ AllKeys(d.blocks) = AllKeys(B) \union {k}
        /\ Held(d.blocks, ArenaHeld(r, k, addresses))
    BY <1>1, <1>4, GrownKeeps
  <2>. HIDE DEF d
  <2>3. AInv'  BY <1>1, <1>2, <2>2 DEF AInv, d
  <2>. QED  BY <1>4, <2>1, <2>3 DEF r
<1>5. CASE r.ok = FALSE /\ Refused(arena, k, r.a)
  <2>1. /\ k \in AllKeys(B) /\ Standing(r.a) /\ AllKeys(r.a.blocks) = AllKeys(B)
        /\ Held(r.a.blocks, addresses)
    BY <1>1, <1>5 DEF Refused
  <2>2. r.a.blocks # <<>>
    <3>1. \E i \in DOMAIN r.a.blocks : k \in KeysOf(r.a.blocks[i])  BY <2>1 DEF AllKeys
    <3>. QED  BY <3>1
  <2>3. arena' = r.a  BY <1>2, <2>1, <2>2, DrainedSame
  <2>4. addresses' = addresses  BY <1>2, <1>5 DEF ArenaHeld
  <2>5. known' = known  BY <1>1, <1>2, <2>1
  <2>6. AInv'  BY <1>1, <2>1, <2>3, <2>4, <2>5 DEF AInv
  <2>. QED  BY <1>1, <1>5, <2>1, <2>6 DEF r
<1>. QED  BY <1>3, <1>4, <1>5 DEF Responds

-----------------------------------------------------------------------------
(* The theorems.                                                           *)

\* In every history of inserts, the blocks stand under their least keys and the
\* caller holds the address of every key.
THEOREM ArenaStands == ArenaSpec => []AInv
<1>1. ArenaInit => AInv  BY ArenaInitIs
<1>2. AInv /\ [ArenaNext]_arenaVars => AInv'
  <2>. SUFFICES ASSUME AInv, [ArenaNext]_arenaVars PROVE AInv'  OBVIOUS
  <2>1. CASE ArenaNext
    <3>1. PICK k \in Nat : ArenaTake(k)  BY <2>1 DEF ArenaNext
    <3>. QED  BY <3>1, ArenaKeeps
  <2>2. CASE UNCHANGED arenaVars  BY <2>2 DEF arenaVars, AInv
  <2>. QED  BY <2>1, <2>2
<1>. QED  BY <1>1, <1>2, PTL DEF ArenaSpec

\* In a sound arena a lookup answers what the holder has.
LEMMA AnswersHold == AInv => ArenaAnswers
<1>. SUFFICES ASSUME AInv, NEW k \in Nat
              PROVE  ArenaFind(arena, k) = IF k \in known THEN addresses[k] ELSE <<>>
  BY DEF ArenaAnswers
<1>. DEFINE B == arena.blocks
            X == arena.index
            id == Route(X, k)
            name == Find(B[id], k)
<1>1. /\ Housed(B, X) /\ AllKeys(B) = known /\ Held(B, addresses)
  BY DEF AInv, Standing
<1>2. /\ \A i \in DOMAIN B : Good(B[i]) /\ MinKeyOf(B[i]) \in DOMAIN X /\ MinKeyOf(B[i]) \in Nat
      /\ \A i \in DOMAIN B : \A x \in KeysOf(B[i]) : MinKeyOf(B[i]) <= x
      /\ \A m \in DOMAIN X : \E i \in DOMAIN B : m = MinKeyOf(B[i])
  <2>1. /\ \A i \in DOMAIN B : Good(B[i]) /\ MinKeyOf(B[i]) \in Nat
        /\ \A i \in DOMAIN B : \A x \in KeysOf(B[i]) : MinKeyOf(B[i]) <= x
    BY <1>1, HousedIs
  <2>2. DOMAIN X = Leasts(B)  BY <1>1, HousedIs
  <2>. QED  BY <2>1, <2>2 DEF Leasts
<1>3. ArenaFind(arena, k) = IF BelowAll(arena, k) THEN <<>>
                            ELSE IF name = None THEN <<>> ELSE <<id, name>>
  BY DEF ArenaFind
<1>4. BelowAll(arena, k) <=> \A m \in DOMAIN X : k < m  BY DEF BelowAll, Mins
<1>. HIDE DEF B, X, id, name
<1>5. CASE k \in known
  <2>1. PICK j \in DOMAIN B : k \in KeysOf(B[j])  BY <1>1, <1>5 DEF AllKeys
  <2>2. id = j  BY <1>1, <2>1, HomeIs DEF id
  <2>3. ~BelowAll(arena, k)
    <3>1. MinKeyOf(B[j]) <= k /\ MinKeyOf(B[j]) \in DOMAIN X /\ MinKeyOf(B[j]) \in Nat
      BY <1>2, <2>1
    <3>. QED  BY <1>4, <3>1
  <2>4. name = NameOf(B[j], k)  BY <1>2, <2>1, <2>2, FindIs DEF name
  <2>5. name # None
    <3>1. name \in Names  BY <1>2, <2>1, <2>4, NameIs
    <3>. QED  BY <3>1, NamesAre DEF Names, None
  <2>6. addresses[k] = <<j, NameOf(B[j], k)>>  BY <1>1, <2>1 DEF Held
  <2>. QED  BY <1>3, <1>5, <2>2, <2>3, <2>4, <2>5, <2>6
<1>6. CASE k \notin known
  <2>1. CASE BelowAll(arena, k)  BY <1>3, <1>6, <2>1
  <2>2. CASE ~BelowAll(arena, k)
    <3>1. DOMAIN B # {}  BY <1>2, <1>4, <2>2
    <3>2. id \in DOMAIN B  BY <1>1, <3>1, RouteIs DEF id
    <3>3. k \notin KeysOf(B[id])  BY <1>1, <1>6, <3>2 DEF AllKeys
    <3>4. name = None  BY <1>2, <3>2, <3>3, FindIs DEF name
    <3>. QED  BY <1>3, <1>6, <3>4
  <2>. QED  BY <2>1, <2>2
<1>. QED  BY <1>5, <1>6

\* In a sound arena the holder has every key's address.
LEMMA FollowsHold == AInv => ArenaFollows
<1>. SUFFICES ASSUME AInv PROVE ArenaFollows  OBVIOUS
<1>. DEFINE B == arena.blocks
            t == ArenaAddresses(arena)
<1>1. /\ Housed(B, arena.index) /\ AllKeys(B) = known /\ Held(B, addresses)
  BY DEF AInv, Standing
<1>2. Held(B, t)  BY <1>1, AddressesAre
<1>3. ArenaKeys(arena) = AllKeys(B)  BY DEF ArenaKeys, AllKeys
<1>. HIDE DEF B, t
<1>4. /\ DOMAIN t = AllKeys(B) /\ t = [x \in DOMAIN t |-> t[x]]
      /\ DOMAIN addresses = AllKeys(B) /\ addresses = [x \in DOMAIN addresses |-> addresses[x]]
  BY <1>1, <1>2 DEF Held, IsMap
<1>5. ASSUME NEW x \in AllKeys(B) PROVE t[x] = addresses[x]
  <2>1. PICK i \in DOMAIN B : x \in KeysOf(B[i])  BY DEF AllKeys
  <2>. QED  BY <1>1, <1>2, <2>1 DEF Held
<1>6. t = addresses  BY <1>4, <1>5
<1>. QED  BY <1>1, <1>3, <1>6 DEF ArenaFollows, t

\* A sound arena takes every key that it does not have.
LEMMA TakesHold == AInv => ArenaTakes
<1>. SUFFICES ASSUME AInv, NEW k \in Nat PROVE ArenaInsert(arena, k).ok = (k \notin known)
  BY DEF ArenaTakes
<1>1. Standing(arena) /\ AllKeys(arena.blocks) = known  BY DEF AInv
<1>. DEFINE r == ArenaInsert(arena, k)
<1>2. Responds(arena, k, r)  BY <1>1, InsertGrows
<1>. HIDE DEF r
<1>3. CASE r.ok = TRUE /\ Grown(arena, k, r.a)
  <2>1. k \notin known  BY <1>1, <1>3 DEF Grown
  <2>. QED  BY <1>3, <2>1 DEF r
<1>4. CASE r.ok = FALSE /\ Refused(arena, k, r.a)
  <2>1. k \in known  BY <1>1, <1>4 DEF Refused
  <2>. QED  BY <1>4, <2>1 DEF r
<1>. QED  BY <1>2, <1>3, <1>4 DEF Responds

\* In a sound arena the index has one entry for each block, at its least key.
LEMMA IndexHolds == AInv => ArenaIndexed(arena)
<1>. SUFFICES ASSUME AInv PROVE ArenaIndexed(arena)  OBVIOUS
<1>. DEFINE B == arena.blocks
            X == arena.index
<1>1. Housed(B, X)  BY DEF AInv, Standing
<1>2. /\ DOMAIN X = Leasts(B) /\ Leasts(B) \subseteq Nat
      /\ \A i \in DOMAIN B : MinKeyOf(B[i]) \in Leasts(B) /\ X[MinKeyOf(B[i])] = i
      /\ \A m \in Leasts(B) : X[m] \in DOMAIN B /\ MinKeyOf(B[X[m]]) = m
  BY <1>1, HousedIs
<1>3. Mins(arena) = DOMAIN X  BY DEF Mins
<1>. HIDE DEF B, X
<1>4. Range(X) = DOMAIN B
  <2>1. Range(X) = {X[m] : m \in DOMAIN X}  BY DEF Range
  <2>2. ASSUME NEW i \in DOMAIN B PROVE i \in Range(X)
    <3>1. MinKeyOf(B[i]) \in DOMAIN X /\ X[MinKeyOf(B[i])] = i  BY <1>2
    <3>. QED  BY <2>1, <3>1
  <2>3. \A m \in DOMAIN X : X[m] \in DOMAIN B  BY <1>2
  <2>. QED  BY <2>1, <2>2, <2>3
<1>5. ASSUME NEW m \in DOMAIN X, NEW x \in DOMAIN X, x > m
      PROVE  Max(KeysOf(B[X[m]])) < x
  <2>. DEFINE i == X[m]
              j == X[x]
              S == KeysOf(B[i])
  <2>1. /\ i \in DOMAIN B /\ j \in DOMAIN B /\ MinKeyOf(B[i]) = m /\ MinKeyOf(B[j]) = x
        /\ m \in Nat /\ x \in Nat /\ m < x
    BY <1>2, <1>5
  <2>2. i # j  BY <2>1
  <2>. HIDE DEF i, j
  <2>3. x \in KeysOf(B[j]) /\ m \in S  BY <1>1, <2>1, HousedIs
  <2>4. \A y \in S : y \in Nat /\ y < x  BY <1>1, <2>1, <2>2, <2>3, ApartIs
  <2>. HIDE DEF S
  <2>5. S \in SUBSET (0 .. x) /\ S # {}  BY <2>1, <2>3, <2>4
  <2>6. Max(S) \in S  BY <2>1, <2>5, MostIs
  <2>. QED  BY <2>4, <2>6 DEF S, i
<1>6. \A m \in Mins(arena) : MinKeyOf(B[X[m]]) = m  BY <1>2, <1>3
<1>. QED  BY <1>3, <1>4, <1>5, <1>6 DEF ArenaIndexed, B, X

\* A lookup answers exactly the keys that were given, with their addresses.
THEOREM ArenaAnswersAlways == ArenaSpec => []ArenaAnswers
BY ArenaStands, AnswersHold, PTL

\* The caller's addresses are the ones the keys have.
THEOREM ArenaFollowsAlways == ArenaSpec => []ArenaFollows
BY ArenaStands, FollowsHold, PTL

\* An insert takes every key that is not there, and refuses the others.
THEOREM ArenaTakesAlways == ArenaSpec => []ArenaTakes
BY ArenaStands, TakesHold, PTL

\* The blocks are indexed by their least keys, and lie apart in the index's order.
THEOREM ArenaIndexedAlways == ArenaSpec => [](ArenaIndexed(arena))
BY ArenaStands, IndexHolds, PTL
=============================================================================
