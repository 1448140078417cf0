---------------------------- MODULE StackProofs ----------------------------
(***************************************************************************)
(* The stack of archived values in one block: every unit is found where    *)
(* its push put it, and a pop, a refused push and a reload leave the block *)
(* byte for byte what it was.  Between two calls the block has no holes,   *)
(* so all that is written in it lies on the two fronts.                    *)
(***************************************************************************)
EXTENDS Stack, BlockOpsProofs

\* c is the record of its fields, and its bytes are a function
Whole(c) ==
    c = [cap |-> c.cap, stack |-> c.stack, heap |-> c.heap, holes |-> c.holes,
         mem |-> [x \in DOMAIN c.mem |-> c.mem[x]]]

\* the byte o lies in the head of the freelist, or between the fronts
Idle(c, o) == o <= NODE \/ (NODE + c.heap < o /\ c.stack <= c.cap - o)

\* there are no holes, and no byte is written but on the fronts
Pure(c) ==
    /\ Good(c) /\ Whole(c) /\ c.holes = <<>>
    /\ \A o \in 1 .. c.cap : Idle(c, o) => At(c, o) = <<>>

\* the bytes of f's fronts are the same in c
FrontsSame(f, c) == \A o \in 1 .. f.cap : ~Idle(f, o) => At(c, o) = At(f, o)

\* the fronts of c reach over those of f
Over(f, c) == c.cap = f.cap /\ f.stack <= c.stack /\ f.heap <= c.heap /\ FrontsSame(f, c)

-----------------------------------------------------------------------------
(* Blocks without holes.                                                   *)

\* Blocks of the same fields and bytes are one.
LEMMA WholeSame ==
    ASSUME NEW c, Shaped(c), Whole(c), NEW d, Shaped(d), Whole(d), d.cap = c.cap,
           d.stack = c.stack, d.heap = c.heap, d.holes = c.holes,
           \A o \in 1 .. c.cap : At(d, o) = At(c, o)
    PROVE  d = c
<1>. DEFINE k == c.cap
<1>1. k \in Nat /\ DOMAIN c.mem = 0 .. k - 1 /\ DOMAIN d.mem = 0 .. k - 1  BY DEF Shaped
<1>2. ASSUME NEW x \in 0 .. k - 1 PROVE d.mem[x] = c.mem[x]
  <2>1. k - x \in 1 .. k /\ k - (k - x) = x  BY <1>1
  <2>2. At(d, k - x) = At(c, k - x)  BY <2>1
  <2>. QED  BY <2>1, <2>2 DEF At
<1>3. [x \in DOMAIN d.mem |-> d.mem[x]] = [x \in DOMAIN c.mem |-> c.mem[x]]  BY <1>1, <1>2
<1>. QED  BY <1>3 DEF Whole

\* A block whose fronts were those of f, when nothing else is written, is f.
LEMMA PureSame ==
    ASSUME NEW f, Pure(f), NEW c, Pure(c), c.cap = f.cap, c.stack = f.stack,
           c.heap = f.heap, FrontsSame(f, c)
    PROVE  c = f
<1>1. \A o : Idle(c, o) <=> Idle(f, o)  BY DEF Idle
<1>2. \A o \in 1 .. f.cap : At(c, o) = At(f, o)  BY <1>1 DEF Pure, FrontsSame
<1>. QED  BY <1>2, WholeSame DEF Pure, Good

\* The fronts grow over one another.
LEMMA OverOn ==
    ASSUME NEW f, Shaped(f), NEW c, Shaped(c), NEW d, Shaped(d), Over(f, c), Over(c, d)
    PROVE  Over(f, d)
<1>1. /\ f.cap \in Nat /\ f.stack \in Nat /\ f.heap \in Nat /\ c.cap = f.cap
      /\ c.stack \in Nat /\ c.heap \in Nat /\ d.stack \in Nat /\ d.heap \in Nat
      /\ f.stack <= c.stack /\ f.heap <= c.heap /\ c.stack <= d.stack /\ c.heap <= d.heap
  BY DEF Shaped, Over
<1>2. ASSUME NEW o \in 1 .. f.cap, ~Idle(f, o) PROVE ~Idle(c, o)
  BY <1>1, <1>2 DEF Idle, NODE
<1>3. FrontsSame(f, d)  BY <1>1, <1>2 DEF Over, FrontsSame
<1>. QED  BY <1>1, <1>3 DEF Over

LEMMA OverSelf ==
    ASSUME NEW f, Shaped(f) PROVE Over(f, f)
BY DEF Over, FrontsSame, Shaped

\* d is c with its stack front at pos and v painted at S
Moved(c, d, pos, S, v) == d = [c EXCEPT !.stack = pos, !.mem = Paint(@, S, v)]

\* A block that moved its stack front is whole.
LEMMA FrontWhole ==
    ASSUME NEW c, Shaped(c), NEW pos, NEW S, NEW v, NEW d, Moved(c, d, pos, S, v)
    PROVE  /\ Whole(d) /\ d.cap = c.cap /\ d.stack = pos /\ d.heap = c.heap
           /\ d.holes = c.holes /\ DOMAIN d.mem = DOMAIN c.mem
           /\ \A o \in 1 .. c.cap : At(d, o) = IF c.cap - o \in S THEN v ELSE At(c, o)
<1>. DEFINE m == Paint(c.mem, S, v)
<1>1. /\ DOMAIN c = {"cap", "stack", "heap", "holes", "mem"} /\ c.cap \in Nat
      /\ DOMAIN c.mem = 0 .. c.cap - 1
  BY DEF Shaped
<1>2. m = [x \in DOMAIN c.mem |-> IF x \in S THEN v ELSE c.mem[x]]  BY DEF Paint
<1>3. d = [c EXCEPT !.stack = pos, !.mem = m]  BY DEF Moved
<1>4. [x \in DOMAIN m |-> m[x]] = m /\ DOMAIN m = DOMAIN c.mem  BY <1>2
<1>. HIDE DEF m
<1>. DEFINE e == [cap |-> c.cap, stack |-> pos, heap |-> c.heap, holes |-> c.holes,
                  mem |-> m]
<1>5. d = e  BY <1>1, <1>3
<1>9. /\ e.cap = c.cap /\ e.stack = pos /\ e.heap = c.heap /\ e.holes = c.holes
      /\ e.mem = m
  OBVIOUS
<1>10. e = [cap |-> e.cap, stack |-> e.stack, heap |-> e.heap, holes |-> e.holes,
            mem |-> e.mem]
  OBVIOUS
<1>. HIDE DEF e
<1>6. /\ d.cap = c.cap /\ d.stack = pos /\ d.heap = c.heap /\ d.holes = c.holes /\ d.mem = m
  BY <1>5, <1>9
<1>7. Whole(d)  BY <1>4, <1>5, <1>9, <1>10 DEF Whole
<1>8. ASSUME NEW o \in 1 .. c.cap
      PROVE  At(d, o) = IF c.cap - o \in S THEN v ELSE At(c, o)
  <2>1. c.cap - o \in DOMAIN c.mem  BY <1>1
  <2>. QED  BY <1>2, <1>6, <2>1 DEF At
<1>. QED  BY <1>4, <1>6, <1>7, <1>8

\* A block whose freelist was written is whole.
LEMMA SyncWhole ==
    ASSUME NEW c, Shaped(c), NEW hs
    PROVE  Whole(SyncHoles(c, hs))
<1>. DEFINE d == SyncHoles(c, hs)
            e == [cap |-> c.cap, stack |-> c.stack, heap |-> c.heap, holes |-> hs,
                  mem |-> d.mem]
<1>1. \E val : d = [c EXCEPT !.holes = hs, !.mem = [x \in DOMAIN c.mem |-> val[x]]]
  <2>. DEFINE n == Len(hs)
              head == IF n = 0 THEN <<>> ELSE <<0, hs[1].off>>
              at(x) == {i \in 1 .. n : x \in NodeBytes(Addr(c, hs[i]))}
              next(i) == IF i < n THEN hs[i + 1].off ELSE 0
              byte(x, i) == IF x = Addr(c, hs[i]) THEN <<hs[i].len, next(i)>> ELSE NodeRest
              val == [x \in DOMAIN c.mem |->
                        IF x = Floor(c) THEN head
                        ELSE IF x > Floor(c) THEN (IF n = 0 THEN <<>> ELSE NodeRest)
                        ELSE IF at(x) # {} THEN byte(x, CHOOSE i \in at(x) : TRUE)
                        ELSE IF x \in HoleBytes(c, hs) THEN <<>> ELSE c.mem[x]]
  <2>1. d = [c EXCEPT !.holes = hs, !.mem = val]  BY DEF SyncHoles
  <2>2. val = [x \in DOMAIN c.mem |-> val[x]]  OBVIOUS
  <2>. HIDE DEF val, d
  <2>. QED  BY <2>1, <2>2
<1>. HIDE DEF d
<1>2. PICK val : d = [c EXCEPT !.holes = hs, !.mem = [x \in DOMAIN c.mem |-> val[x]]]
  BY <1>1
<1>. DEFINE m == [x \in DOMAIN c.mem |-> val[x]]
<1>3. m = [x \in DOMAIN m |-> m[x]]  OBVIOUS
<1>4. d = [c EXCEPT !.holes = hs, !.mem = m]  BY <1>2
<1>. HIDE DEF m
<1>5. DOMAIN c = {"cap", "stack", "heap", "holes", "mem"}  BY DEF Shaped
<1>6. d.mem = m  BY <1>4, <1>5
<1>7. d = e  BY <1>4, <1>5, <1>6
<1>8. /\ e.cap = c.cap /\ e.stack = c.stack /\ e.heap = c.heap /\ e.holes = hs
      /\ e.mem = d.mem
      /\ e = [cap |-> e.cap, stack |-> e.stack, heap |-> e.heap, holes |-> e.holes,
              mem |-> e.mem]
  OBVIOUS
<1>. HIDE DEF e
<1>. QED  BY <1>3, <1>6, <1>7, <1>8 DEF Whole, d

\* An empty freelist is zeros in the head.
LEMMA SyncNone ==
    ASSUME NEW c, Shaped(c)
    PROVE  LET d == SyncHoles(c, <<>>)
           IN  /\ Good(d) /\ Whole(d) /\ d.holes = <<>>
               /\ d.cap = c.cap /\ d.stack = c.stack /\ d.heap = c.heap
               /\ \A o \in 1 .. c.cap : At(d, o) = IF o <= NODE THEN <<>> ELSE At(c, o)
<1>. DEFINE hs == <<>>
            d == SyncHoles(c, hs)
<1>1. hs \in Seq(Region) /\ Len(hs) = 0  BY EmptySeq
<1>. HIDE DEF hs
<1>2. Separate(hs) /\ Within(hs, NODE + c.heap) /\ \A o : ~InHoles(hs, o)
  BY <1>1 DEF Separate, Within, InHoles
<1>3. /\ Good(d) /\ d.holes = hs /\ d.cap = c.cap /\ d.stack = c.stack /\ d.heap = c.heap
      /\ \A o : Stray(d, o) => NODE < o
      /\ OutsideSame(c, d)
  BY <1>1, <1>2, SyncIs
<1>4. Whole(d)  BY SyncWhole
<1>5. c.cap \in Nat  BY DEF Shaped
<1>. HIDE DEF d
<1>6. ASSUME NEW o \in 1 .. c.cap PROVE At(d, o) = IF o <= NODE THEN <<>> ELSE At(c, o)
  <2>1. CASE o <= NODE
    <3>1. ~Stray(d, o)  BY <1>3, <1>5, <2>1 DEF NODE
    <3>2. ~Marked(d, o)  BY <1>1, <1>3 DEF Marked, hs
    <3>. QED  BY <1>3, <2>1, <3>1, <3>2 DEF Stray
  <2>2. CASE ~(o <= NODE)
    <3>1. o \in NODE + 1 .. c.cap  BY <1>5, <2>2 DEF NODE
    <3>. QED  BY <1>2, <1>3, <2>2, <3>1 DEF OutsideSame
  <2>. QED  BY <2>1, <2>2
<1>. QED  BY <1>3, <1>4, <1>6 DEF d, hs

\* pop_heap down to below every hole leaves none, and wipes what it rolls.
LEMMA PopPlain ==
    ASSUME NEW c, Good(c), NEW floor \in Nat, floor <= c.heap,
           \A i \in 1 .. Len(c.holes) : NODE + floor <= Foot(c.holes[i])
    PROVE  LET d == PopHeap(c, c.heap - floor)
           IN  /\ Good(d) /\ Whole(d) /\ d.holes = <<>>
               /\ d.cap = c.cap /\ d.stack = c.stack /\ d.heap = floor
               /\ \A o \in 1 .. c.cap :
                     At(d, o) = IF o <= NODE \/ (NODE + floor < o /\ o <= NODE + c.heap)
                                THEN <<>> ELSE At(c, o)
<1>. DEFINE len == c.heap - floor
            d == PopHeap(c, len)
            clip(kept, h) == kept \o Clip(h, NODE + c.heap - len)
            rolled == Bottom(c) .. Bottom(c) + len - 1
            p == [c EXCEPT !.heap = @ - len, !.mem = Paint(@, rolled, <<>>)]
            w == FoldLeft(clip, <<>>, c.holes)
<1>1. /\ Shaped(c) /\ c.cap \in Nat /\ c.stack \in Nat /\ c.heap \in Nat
      /\ c.stack + c.heap + NODE <= c.cap /\ c.holes \in Seq(Region)
      /\ DOMAIN c = {"cap", "stack", "heap", "holes", "mem"}
      /\ DOMAIN c.mem = 0 .. c.cap - 1
  BY DEF Good, Shaped
<1>2. len \in Nat /\ len <= c.heap /\ c.heap - len = floor  BY <1>1
<1>3. d = SyncHoles(p, w)  BY DEF PopHeap
<1>4. /\ p.cap = c.cap /\ p.stack = c.stack /\ p.heap = floor /\ p.mem = Paint(c.mem, rolled, <<>>)
      /\ DOMAIN p = DOMAIN c
  BY <1>1, <1>2
<1>. HIDE DEF p, w, d, len
<1>5. Shaped(p)
  <2>1. DOMAIN p.mem = DOMAIN c.mem  BY <1>4 DEF Paint
  <2>2. c.stack + floor + NODE <= c.cap  BY <1>1 DEF NODE
  <2>. QED  BY <1>1, <1>4, <2>1, <2>2 DEF Shaped
<1>6. d.holes = <<>>
  <2>1. /\ Good(d) /\ d.heap = c.heap - len
        /\ \A r \in Region :
              Clear(c, r) /\ r.off <= NODE + c.heap - len => Clear(d, r)
    BY <1>2, PopIs DEF d
  <2>. DEFINE ws == d.holes
  <2>2. ws \in Seq(Region) /\ Separate(ws) /\ Within(ws, NODE + floor) /\ Len(ws) \in Nat
    BY <1>2, <2>1, HoleIs DEF Good
  <2>3. ASSUME NEW j \in 1 .. Len(ws) PROVE FALSE
    <3>. DEFINE x == ws[j]
                r == [off |-> NODE + floor, len |-> floor]
    <3>1. /\ x \in Region /\ x.off \in Nat /\ x.len \in Nat /\ x.len >= NODE
          /\ NODE <= x.off - x.len /\ x.off <= NODE + floor
      BY <2>2, HoleIs DEF Separate, Within
    <3>2. floor >= NODE  BY <3>1 DEF NODE
    <3>3. r \in Region /\ r.off = NODE + floor /\ r.len = floor  BY DEF Region, NODE
    <3>. HIDE DEF r
    <3>4. InHeap(c, r)  BY <1>1, <3>2, <3>3 DEF InHeap, NODE
    <3>5. AllApart(r, c.holes)
      <4>1. \A i \in 1 .. Len(c.holes) : r.off <= c.holes[i].off - c.holes[i].len
        BY <3>3 DEF Foot
      <4>. QED  BY <4>1 DEF AllApart, Apart, Above
    <3>6. Clear(d, r)
      <4>1. r.off <= NODE + c.heap - len  BY <1>1, <1>2, <3>3 DEF NODE
      <4>. QED  BY <2>1, <3>3, <3>4, <3>5, <4>1 DEF Clear
    <3>7. r # NoRegion  BY <3>2, <3>3 DEF NoRegion, NODE
    <3>8. Apart(r, x)  BY <3>6, <3>7 DEF Clear, AllApart
    <3>. QED  BY <3>1, <3>2, <3>3, <3>8 DEF Apart, Above, NODE
  <2>4. Len(ws) = 0  BY <2>2, <2>3
  <2>. QED  BY <2>2, <2>4, EmptySeq
<1>7. w = <<>>  BY <1>3, <1>5, <1>6, SyncHolesAre
<1>8. /\ Good(d) /\ Whole(d) /\ d.cap = p.cap /\ d.stack = p.stack /\ d.heap = p.heap
      /\ \A o \in 1 .. p.cap : At(d, o) = IF o <= NODE THEN <<>> ELSE At(p, o)
  BY <1>3, <1>5, <1>7, SyncNone
<1>9. ASSUME NEW o \in 1 .. c.cap, ~(o <= NODE)
      PROVE  At(p, o) = IF NODE + floor < o /\ o <= NODE + c.heap THEN <<>> ELSE At(c, o)
  <2>1. c.cap - o \in 0 .. c.cap - 1  BY <1>1
  <2>2. c.cap - o \in rolled <=> NODE + floor < o /\ o <= NODE + c.heap
    <3>. DEFINE k == c.cap
                g == c.heap
    <3>1. k \in Nat /\ g \in Nat /\ o \in Int  BY <1>1
    <3>2. rolled = k - NODE - g .. k - NODE - g + len - 1 /\ g - len = floor
      BY <1>2 DEF Bottom, Floor
    <3>. HIDE DEF k, g, rolled
    <3>3. k - o \in rolled <=> NODE + floor < o /\ o <= NODE + g
      BY <1>2, <3>1, <3>2 DEF NODE
    <3>. QED  BY <3>3 DEF k, g
  <2>3. At(p, o) = IF c.cap - o \in rolled THEN <<>> ELSE At(c, o)
    BY <1>1, <1>4, <2>1 DEF At, Paint
  <2>. QED  BY <2>2, <2>3
<1>. QED  BY <1>4, <1>6, <1>8, <1>9 DEF d, len

-----------------------------------------------------------------------------
(* What each operation makes of a pure block.                              *)

\* A new block is pure.
LEMMA NewPure ==
    ASSUME NEW cap \in Nat
    PROVE  Pure(NewBlock(cap)) /\ NewBlock(cap).stack = 0
<1>. DEFINE k == RoundUp(IF cap < MAX_ALIGN THEN MAX_ALIGN ELSE cap, MAX_ALIGN)
            m == [x \in 0 .. k - 1 |-> <<>>]
            c == [cap |-> k, stack |-> 0, heap |-> 0, holes |-> <<>>, mem |-> m]
<1>1. NewBlock(cap) = c  BY DEF NewBlock
<1>2. /\ c.cap = k /\ c.stack = 0 /\ c.heap = 0 /\ c.holes = <<>> /\ c.mem = m
      /\ c = [cap |-> c.cap, stack |-> c.stack, heap |-> c.heap, holes |-> c.holes,
              mem |-> c.mem]
  OBVIOUS
<1>3. m = [x \in DOMAIN m |-> m[x]] /\ DOMAIN m = 0 .. k - 1  OBVIOUS
<1>4. \A x \in 0 .. k - 1 : m[x] = <<>>  OBVIOUS
<1>. HIDE DEF c, m, k
<1>5. Good(c) /\ c.cap \in Nat  BY <1>1, NewIs DEF Good, Shaped
<1>6. Whole(c)  BY <1>2, <1>3 DEF Whole
<1>7. ASSUME NEW o \in 1 .. c.cap PROVE At(c, o) = <<>>
  <2>1. c.cap - o \in 0 .. k - 1  BY <1>2, <1>5
  <2>. QED  BY <1>2, <1>4, <2>1 DEF At
<1>. QED  BY <1>1, <1>2, <1>5, <1>6, <1>7 DEF Pure

\* A block that only moved its stack front up, over bytes it wrote.
LEMMA PushPure ==
    ASSUME NEW c, Pure(c), NEW size \in Nat, NEW align \in Nat \ {0}, NEW v,
           PushBytes(c, size, align, v).ok
    PROVE  LET d == PushBytes(c, size, align, v).b
               start == RoundUp(c.stack, align)
           IN  /\ Pure(d) /\ Over(c, d) /\ d.heap = c.heap /\ d.stack = start + size
               /\ \A x \in start .. start + size - 1 : d.mem[x] = <<v>>
<1>. DEFINE start == RoundUp(c.stack, align)
            end == start + size
            mem1 == Paint(c.mem, c.stack .. start - 1, <<>>)
            p == [c EXCEPT !.mem = mem1]
            d == [c EXCEPT !.stack = end, !.mem = Paint(mem1, start .. end - 1, <<v>>)]
<1>1. /\ Good(c) /\ Shaped(c) /\ c.cap \in Nat /\ c.stack \in Nat /\ c.heap \in Nat
      /\ c.stack + c.heap + NODE <= c.cap /\ c.holes = <<>> /\ DOMAIN c.mem = 0 .. c.cap - 1
      /\ DOMAIN c = {"cap", "stack", "heap", "holes", "mem"}
  BY DEF Pure, Good, Shaped
<1>2. start \in Nat /\ c.stack <= start  BY <1>1, RoundUpIs
<1>. DEFINE none == [ok |-> FALSE, b |-> c]
            some == [ok |-> TRUE, b |-> d]
<1>13. PushBytes(c, size, align, v) = IF end > Bottom(c) THEN none ELSE some
  BY DEF PushBytes
<1>14. ~none.ok /\ some.b = d  OBVIOUS
<1>. HIDE DEF none, some, start, d
<1>15. ~(end > Bottom(c)) /\ PushBytes(c, size, align, v).b = d  BY <1>13, <1>14
<1>. HIDE DEF end
<1>3. end <= Bottom(c) /\ PushBytes(c, size, align, v).b = d
  <2>1. Bottom(c) \in Int /\ end \in Int  BY <1>1, <1>2 DEF Bottom, Floor, NODE, end
  <2>. QED  BY <1>15, <2>1
<1>. USE DEF end, d
<1>4. end <= c.cap - NODE - c.heap /\ end \in Nat  BY <1>2, <1>3 DEF Bottom, Floor
<1>5. Good(d)
  <2>1. Good(PushBytes(c, size, align, v).b)  BY <1>1, PushIs
  <2>. QED  BY <1>3, <2>1
<1>6. /\ Shaped(p) /\ p.cap = c.cap /\ p.heap = c.heap /\ p.holes = c.holes
      /\ \A o \in 1 .. c.cap : At(p, o) = IF c.cap - o \in c.stack .. start - 1
                                          THEN <<>> ELSE At(c, o)
  <2>. DEFINE S == c.stack .. start - 1
              w == <<>>
  <2>1. Painted(c, p, S, w)  BY DEF Painted
  <2>. HIDE DEF p, S, w
  <2>2. /\ Shaped(p) /\ p.cap = c.cap /\ p.heap = c.heap /\ p.holes = c.holes
        /\ \A o \in 1 .. c.cap : At(p, o) = IF c.cap - o \in S THEN w ELSE At(c, o)
    BY <1>1, <2>1, PaintIs
  <2>. QED  BY <2>2 DEF S, w
<1>7. Moved(p, d, end, start .. end - 1, <<v>>)  BY <1>1 DEF Moved
<1>. HIDE DEF p, d
<1>8. /\ Whole(d) /\ d.cap = c.cap /\ d.stack = end /\ d.heap = c.heap /\ d.holes = c.holes
      /\ \A o \in 1 .. c.cap : At(d, o) = IF c.cap - o \in start .. end - 1 THEN <<v>>
                                          ELSE At(p, o)
  <2>. HIDE DEF end
  <2>. DEFINE S == start .. end - 1
              w == <<v>>
  <2>1. Moved(p, d, end, S, w)  BY <1>7
  <2>. HIDE DEF S, w
  <2>2. Shaped(p)  BY <1>6
  <2>3. /\ Whole(d) /\ d.cap = p.cap /\ d.stack = end /\ d.heap = p.heap /\ d.holes = p.holes
        /\ \A o \in 1 .. p.cap : At(d, o) = IF p.cap - o \in S THEN w ELSE At(p, o)
    BY <2>1, <2>2, FrontWhole
  <2>. QED  BY <1>6, <2>3 DEF S, w
<1>9. ASSUME NEW o \in 1 .. c.cap
      PROVE  /\ Idle(d, o) => At(d, o) = <<>>
             /\ ~Idle(c, o) => At(d, o) = At(c, o)
  <2>. DEFINE x == c.cap - o
  <2>1. /\ At(d, o) = IF x \in start .. end - 1 THEN <<v>> ELSE At(p, o)
        /\ At(p, o) = IF x \in c.stack .. start - 1 THEN <<>> ELSE At(c, o)
    BY <1>6, <1>8
  <2>2. x \in Int /\ o \in Int /\ o = c.cap - x  BY <1>1
  <2>3. Idle(c, o) => At(c, o) = <<>>  BY DEF Pure
  <2>4. /\ Idle(d, o) <=> o <= NODE \/ (NODE + c.heap < o /\ end <= x)
        /\ Idle(c, o) <=> o <= NODE \/ (NODE + c.heap < o /\ c.stack <= x)
    BY <1>8 DEF Idle
  <2>. HIDE DEF x
  <2>. DEFINE k == c.cap
              g == c.heap
              f == c.stack
  <2>5. k \in Nat /\ g \in Nat /\ f \in Nat /\ start \in Nat /\ f <= start
        /\ end <= k - NODE - g /\ o = k - x /\ end = start + size
    BY <1>1, <1>2, <1>4, <2>2
  <2>. HIDE DEF k, g, f, end
  <2>6. Idle(d, o) => Idle(c, o) /\ x \notin start .. end - 1
    <3>1. o <= NODE => x > end - 1  BY <1>4, <2>2, <2>5 DEF NODE
    <3>2. end <= x => f <= x /\ x > end - 1  BY <1>4, <2>2, <2>5
    <3>. QED  BY <1>4, <2>2, <2>4, <2>5, <3>1, <3>2 DEF f
  <2>7. ~Idle(c, o) => x \notin start .. end - 1 /\ x \notin c.stack .. start - 1
    <3>1. o <= NODE + g => x > end - 1 /\ x > start - 1
      BY <1>4, <2>2, <2>5 DEF NODE
    <3>2. ~(f <= x) => x < f /\ x < start  BY <2>2, <2>5
    <3>3. ~(NODE + g < o) => o <= NODE + g  BY <2>2, <2>5 DEF NODE
    <3>4. x > start - 1 => x \notin f .. start - 1  BY <2>2, <2>5
    <3>5. x > end - 1 => x \notin start .. end - 1  BY <1>4, <2>2, <2>5
    <3>6. x < f => x \notin f .. start - 1  BY <2>2, <2>5
    <3>7. x < start => x \notin start .. end - 1  BY <1>4, <2>2, <2>5
    <3>. QED  BY <2>4, <3>1, <3>2, <3>3, <3>4, <3>5, <3>6, <3>7 DEF f, g
  <2>. QED  BY <2>1, <2>3, <2>6, <2>7
<1>10. Pure(d)  BY <1>1, <1>5, <1>8, <1>9 DEF Pure
<1>11. Over(c, d)
  <2>1. c.stack <= end  BY <1>1, <1>2, <1>4
  <2>. QED  BY <1>1, <1>8, <1>9, <2>1 DEF Over, FrontsSame
<1>12. ASSUME NEW x \in start .. end - 1 PROVE d.mem[x] = <<v>>
  <2>. DEFINE o == c.cap - x
  <2>1. o \in 1 .. c.cap /\ c.cap - o = x  BY <1>1, <1>2, <1>4 DEF NODE
  <2>. HIDE DEF o
  <2>2. At(d, o) = <<v>>  BY <1>8, <2>1
  <2>. QED  BY <1>8, <2>1, <2>2 DEF At
<1>16. PushBytes(c, size, align, v).b = d /\ d.heap = c.heap /\ d.stack = end
  BY <1>3, <1>8
<1>17. start = RoundUp(c.stack, align) /\ end = start + size  BY DEF start
<1>. HIDE DEF end
<1>18. LET f == PushBytes(c, size, align, v).b
       IN  /\ Pure(f) /\ Over(c, f) /\ f.heap = c.heap /\ f.stack = end
           /\ \A x \in start .. end - 1 : f.mem[x] = <<v>>
  BY <1>10, <1>11, <1>12, <1>16
<1>. DEFINE f == PushBytes(c, size, align, v).b
<1>19. Pure(f) /\ Over(c, f) /\ f.heap = c.heap /\ f.stack = end  BY <1>18
<1>20. \A x \in start .. end - 1 : f.mem[x] = <<v>>  BY <1>18
<1>. HIDE DEF f
<1>. DEFINE up == RoundUp(c.stack, align)
<1>21. start = up /\ end = up + size  BY <1>17
<1>. HIDE DEF up
<1>24. /\ end \in Int /\ up \in Int /\ size \in Int /\ end = up + size
  BY <1>2, <1>4, <1>21
<1>22. f.stack = up + size  BY <1>19, <1>21
<1>23. \A x \in up .. up + size - 1 : f.mem[x] = <<v>>
  <2>1. start .. end - 1 = up .. up + size - 1
    <3>1. end - 1 = up + size - 1  BY <1>24
    <3>. QED  BY ONLY <1>21, <3>1
  <2>. DEFINE S == start .. end - 1
  <2>2. \A x \in S : f.mem[x] = <<v>>  BY <1>20
  <2>3. S = up .. up + size - 1  BY <2>1
  <2>. HIDE DEF S
  <2>. QED  BY ONLY <2>2, <2>3
<1>. QED  BY <1>19, <1>22, <1>23 DEF f, up

\* A block cut back to pos, the dead bytes wiped.
LEMMA ShrinkPure ==
    ASSUME NEW c, Pure(c), NEW pos \in Nat, pos < c.stack
    PROVE  LET d == StackShrink(c, pos)
           IN  /\ Pure(d) /\ d.cap = c.cap /\ d.stack = pos /\ d.heap = c.heap
               /\ \A o \in 1 .. c.cap :
                     At(d, o) = IF c.cap - o \in pos .. c.stack - 1 THEN <<>> ELSE At(c, o)
<1>. DEFINE d == StackShrink(c, pos)
            S == pos .. c.stack - 1
<1>1. /\ Good(c) /\ Shaped(c) /\ c.cap \in Nat /\ c.stack \in Nat /\ c.heap \in Nat
      /\ c.stack + c.heap + NODE <= c.cap /\ c.holes = <<>>
  BY DEF Pure, Good, Shaped
<1>2. Moved(c, d, pos, S, <<>>)  BY DEF Moved, StackShrink
<1>3. Good(d)  BY <1>1, ShrinkIs
<1>. HIDE DEF d
<1>. DEFINE w == <<>>
<1>. HIDE DEF w, S
<1>4. /\ Whole(d) /\ d.cap = c.cap /\ d.stack = pos /\ d.heap = c.heap
      /\ d.holes = c.holes
      /\ \A o \in 1 .. c.cap : At(d, o) = IF c.cap - o \in S THEN w ELSE At(c, o)
  BY <1>1, <1>2, FrontWhole DEF w
<1>5. ASSUME NEW o \in 1 .. c.cap, Idle(d, o) PROVE At(d, o) = <<>>
  <2>1. At(d, o) = IF c.cap - o \in S THEN w ELSE At(c, o)  BY <1>4
  <2>. DEFINE k == c.cap
              f == c.stack
              g == c.heap
  <2>2. k \in Nat /\ f \in Nat /\ g \in Nat /\ o \in Int  BY <1>1
  <2>3. Idle(d, o) <=> o <= NODE \/ (NODE + g < o /\ pos <= k - o)  BY <1>4 DEF Idle
  <2>4. Idle(c, o) <=> o <= NODE \/ (NODE + g < o /\ f <= k - o)  BY DEF Idle
  <2>5. S = pos .. f - 1  BY DEF S
  <2>. HIDE DEF k, f, g
  <2>6. Idle(c, o) \/ k - o \in S  BY <1>5, <2>2, <2>3, <2>4, <2>5 DEF NODE
  <2>7. Idle(c, o) => At(c, o) = <<>>  BY DEF Pure
  <2>. QED  BY <2>1, <2>6, <2>7 DEF k, w
<1>6. Pure(d)  BY <1>1, <1>3, <1>4, <1>5 DEF Pure
<1>. QED  BY <1>4, <1>6 DEF d, S, w

\* A pure block is what is loaded back from its record.
LEMMA ReloadPure ==
    ASSUME NEW c, Pure(c)
    PROVE  Reload(c) = c
<1>. DEFINE r == [c EXCEPT !.mem = Paint(@, c.stack .. Bottom(c) - 1, <<>>)]
            d == Reload(c)
<1>1. /\ Good(c) /\ Shaped(c) /\ c.cap \in Nat /\ c.stack \in Nat /\ c.heap \in Nat
      /\ c.stack + c.heap + NODE <= c.cap /\ c.holes = <<>> /\ DOMAIN c.mem = 0 .. c.cap - 1
      /\ DOMAIN c = {"cap", "stack", "heap", "holes", "mem"}
  BY DEF Pure, Good, Shaped
<1>2. /\ Good(d) /\ d.cap = c.cap /\ d.stack = c.stack /\ d.heap = c.heap
      /\ d.holes = c.holes
      /\ \A x \in DOMAIN c.mem \ (c.stack .. Bottom(c) - 1) : d.mem[x] = c.mem[x]
      /\ Tidy(c, d)
  BY <1>1, ReloadIs
<1>3. Whole(d)
  <2>. DEFINE m == Paint(c.mem, c.stack .. Bottom(c) - 1, <<>>)
              w == WalkHoles(r)
  <2>1. m = [x \in DOMAIN c.mem |->
                IF x \in c.stack .. Bottom(c) - 1 THEN <<>> ELSE c.mem[x]]
    BY DEF Paint
  <2>2. m = [x \in DOMAIN m |-> m[x]]  BY <2>1
  <2>3. d = [r EXCEPT !.holes = w]  BY DEF Reload
  <2>4. r = [c EXCEPT !.mem = m]  OBVIOUS
  <2>. HIDE DEF m, w, r, d
  <2>. DEFINE e == [cap |-> c.cap, stack |-> c.stack, heap |-> c.heap, holes |-> w,
                    mem |-> m]
  <2>5. d = e  BY <1>1, <2>3, <2>4
  <2>6. /\ e.cap = c.cap /\ e.stack = c.stack /\ e.heap = c.heap /\ e.holes = w /\ e.mem = m
        /\ e = [cap |-> e.cap, stack |-> e.stack, heap |-> e.heap, holes |-> e.holes,
                mem |-> e.mem]
    OBVIOUS
  <2>. HIDE DEF e
  <2>. QED  BY <2>2, <2>5, <2>6 DEF Whole
<1>. HIDE DEF d, r
<1>4. ASSUME NEW o \in 1 .. c.cap PROVE At(d, o) = At(c, o)
  <2>1. CASE Idle(c, o)
    <3>1. At(c, o) = <<>>  BY <2>1 DEF Pure
    <3>2. ~Marked(d, o)  BY <1>1, <1>2 DEF Marked
    <3>3. ~(At(d, o) # <<>>)  BY <1>2, <3>1, <3>2 DEF Tidy, Stray
    <3>. QED  BY <3>1, <3>3
  <2>2. CASE ~Idle(c, o)
    <3>. DEFINE x == c.cap - o
    <3>1. x \in DOMAIN c.mem /\ ~(x \in c.stack .. Bottom(c) - 1)
      BY <1>1, <2>2 DEF Idle, Bottom, Floor, NODE
    <3>2. d.mem[x] = c.mem[x]  BY <1>2, <3>1
    <3>. QED  BY <1>2, <3>2 DEF At
  <2>. QED  BY <2>1, <2>2
<1>. QED  BY <1>1, <1>2, <1>3, <1>4, WholeSame DEF Pure, Good, d

\* A stored value of which nothing lies below the bottom the heap had, taken back.
LEMMA UnwindPure ==
    ASSUME NEW c, Pure(c), NEW s, Owned(c, s), NEW floor \in Nat, floor <= c.heap,
           \A r \in Owns(s) : r.len = 0 \/ NODE + floor <= Foot(r)
    PROVE  LET d == Unwind(c, s, floor)
           IN  /\ Pure(d) /\ d.cap = c.cap /\ d.stack = c.stack /\ d.heap = floor
               /\ \A o \in 1 .. c.cap :
                     o <= NODE + floor \/ NODE + c.heap < o => At(d, o) = At(c, o)
<1>. DEFINE p == Release(c, s)
            d == PopHeap(p, p.heap - floor)
<1>1. /\ Good(c) /\ Shaped(c) /\ c.cap \in Nat /\ c.stack \in Nat /\ c.heap \in Nat
      /\ c.stack + c.heap + NODE <= c.cap /\ c.holes = <<>> /\ Len(c.holes) = 0
  BY EmptySeq DEF Pure, Good, Shaped
<1>2. Unwind(c, s, floor) = d  BY DEF Unwind
<1>3. /\ Good(p) /\ p.cap = c.cap /\ p.stack = c.stack /\ p.heap = c.heap
      /\ Feet(p.holes, c.holes, Owns(s)) /\ OutsideSame(c, p)
  BY <1>1, ReleaseIs
<1>. HIDE DEF p
<1>4. ASSUME NEW i \in 1 .. Len(p.holes) PROVE NODE + floor <= Foot(p.holes[i])
  <2>1. \E r \in Owns(s) : r.len # 0 /\ Foot(p.holes[i]) = Foot(r)  BY <1>1, <1>3 DEF Feet
  <2>. QED  BY <2>1
<1>5. /\ Good(d) /\ Whole(d) /\ d.holes = <<>>
      /\ d.cap = p.cap /\ d.stack = p.stack /\ d.heap = floor
      /\ \A o \in 1 .. p.cap :
            At(d, o) = IF o <= NODE \/ (NODE + floor < o /\ o <= NODE + p.heap)
                       THEN <<>> ELSE At(p, o)
  BY <1>3, <1>4, PopPlain
<1>. HIDE DEF d
<1>6. ASSUME NEW o \in 1 .. c.cap, ~(o <= NODE),
             o <= NODE + floor \/ NODE + c.heap < o
      PROVE  At(d, o) = At(c, o)
  <2>1. At(d, o) = At(p, o)
    <3>1. ~(NODE + floor < o /\ o <= NODE + c.heap)  BY <1>1, <1>6 DEF NODE
    <3>. QED  BY <1>3, <1>5, <1>6, <3>1
  <2>2. ~InHoles(p.holes, o)
    <3>1. /\ p.holes \in Seq(Region) /\ Separate(p.holes) /\ Within(p.holes, NODE + c.heap)
      BY <1>3 DEF Good
    <3>2. ASSUME NEW i \in 1 .. Len(p.holes), Has(p.holes[i], o) PROVE FALSE
      <4>. DEFINE h == p.holes[i]
      <4>1. NODE + floor <= h.off - h.len /\ h.off <= NODE + c.heap
        BY <1>4, <3>1 DEF Foot, Within
      <4>2. h.off \in Nat /\ h.len \in Nat  BY <3>1, HoleIs
      <4>3. h.off - h.len < o /\ o <= h.off  BY <3>2 DEF Has
      <4>. HIDE DEF h
      <4>. DEFINE g == c.heap
                  u == h.off
                  n == h.len
      <4>4. g \in Nat /\ u \in Nat /\ n \in Nat /\ o \in Int /\ NODE + floor <= u - n
            /\ u <= NODE + g /\ u - n < o /\ o <= u /\ (o <= NODE + floor \/ NODE + g < o)
        BY <1>1, <1>6, <4>1, <4>2, <4>3
      <4>. HIDE DEF g, u, n
      <4>. QED  BY <4>4 DEF NODE
    <3>. QED  BY <3>2 DEF InHoles
  <2>3. o \in NODE + 1 .. c.cap  BY <1>1, <1>6 DEF NODE
  <2>. QED  BY <1>3, <2>1, <2>2, <2>3 DEF OutsideSame
<1>7. ASSUME NEW o \in 1 .. c.cap, Idle(d, o) PROVE At(d, o) = <<>>
  <2>1. CASE o <= NODE \/ (NODE + floor < o /\ o <= NODE + p.heap)
    BY <1>3, <1>5, <2>1
  <2>2. CASE ~(o <= NODE \/ (NODE + floor < o /\ o <= NODE + p.heap))
    <3>1. NODE + floor < o /\ c.stack <= c.cap - o  BY <1>3, <1>5, <1>7, <2>2 DEF Idle
    <3>2. NODE + c.heap < o  BY <1>1, <1>3, <2>2, <3>1 DEF NODE
    <3>3. At(c, o) = <<>>  BY <3>1, <3>2 DEF Pure, Idle
    <3>. QED  BY <1>6, <2>2, <3>2, <3>3
  <2>. QED  BY <2>1, <2>2
<1>8. Pure(d)  BY <1>5, <1>7, <1>3 DEF Pure
<1>9. ASSUME NEW o \in 1 .. c.cap, o <= NODE PROVE At(d, o) = At(c, o)
  <2>1. At(d, o) = <<>>  BY <1>3, <1>5, <1>9
  <2>2. At(c, o) = <<>>  BY <1>9 DEF Pure, Idle
  <2>. QED  BY <2>1, <2>2
<1>. QED  BY <1>2, <1>3, <1>5, <1>6, <1>8, <1>9 DEF d

\* An allocation in a pure block takes its region below the heap.
LEMMA AllocPure ==
    ASSUME NEW c, Pure(c), NEW size \in Nat, NEW align \in Nat \ {0},
           NEW m, m = Alloc(c, size, align), m.ok
    PROVE  /\ Pure(m.b) /\ Over(c, m.b) /\ m.b.cap = c.cap /\ m.b.stack = c.stack
           /\ m.h \in Region /\ Clear(m.b, m.h) /\ size <= m.h.len
           /\ m.h.len = 0 \/ NODE + c.heap <= Foot(m.h)
<1>1. /\ Good(c) /\ Shaped(c) /\ c.cap \in Nat /\ c.stack \in Nat /\ c.heap \in Nat
      /\ c.stack + c.heap + NODE <= c.cap /\ c.holes = <<>> /\ Len(c.holes) = 0
      /\ DOMAIN c = {"cap", "stack", "heap", "holes", "mem"}
  BY EmptySeq DEF Pure, Good, Shaped
<1>2. /\ Good(m.b) /\ m.b.cap = c.cap /\ m.b.stack = c.stack /\ c.heap <= m.b.heap
      /\ m.h \in Region /\ Clear(m.b, m.h) /\ size <= m.h.len
  <2>1. Served(c, m, size)  BY <1>1, AllocIs
  <2>. QED  BY <2>1 DEF Served
<1>3. CASE size = 0
  <2>1. m.b = c /\ m.h.len = 0  BY <1>3 DEF Alloc, NoRegion
  <2>. QED  BY <1>1, <1>2, <2>1, OverSelf
<1>4. CASE size # 0
  <2>. DEFINE span == SpanOf(size)
              free == FreeBytes(c)
              pad == (Bottom(c) - span) % align
              heap == c.heap + pad + span
  <2>1. m = ExtendHeap(c, span, align)
    <3>1. Fitting(c, span, align) = {}  BY <1>1 DEF Fitting
    <3>. QED  BY <1>4, <3>1 DEF Alloc
  <2>2. span \in Nat /\ pad \in Nat /\ heap \in Nat /\ c.heap <= heap - span
    <3>1. span \in Nat  BY <1>4, SpanIs
    <3>2. Bottom(c) - span \in Int  BY <1>1, <3>1 DEF Bottom, Floor, NODE
    <3>3. pad \in Nat
      <4>. DEFINE i == Bottom(c) - span
      <4>1. i \in Int  BY <3>2
      <4>. HIDE DEF i
      <4>2. i % align \in Nat  BY <4>1
      <4>. QED  BY <4>2 DEF i
    <3>. HIDE DEF span, pad
    <3>. QED  BY <1>1, <3>1, <3>3
  <2>. DEFINE none == [ok |-> FALSE, h |-> NoRegion, b |-> c]
              some == [ok |-> TRUE, h |-> [off |-> NODE + heap, len |-> span],
                       b |-> [c EXCEPT !.heap = heap]]
  <2>3. m = IF span > free \/ pad + span > free THEN none ELSE some
    BY <2>1 DEF ExtendHeap
  <2>4. ~none.ok /\ some.b = [c EXCEPT !.heap = heap]
        /\ some.h.off = NODE + heap /\ some.h.len = span
    OBVIOUS
  <2>. HIDE DEF none, some, span, pad, heap, free
  <2>5. /\ m.b = [c EXCEPT !.heap = heap]
        /\ m.h.off = NODE + heap /\ m.h.len = span
    BY <2>3, <2>4
  <2>. DEFINE d == m.b
              e == [cap |-> c.cap, stack |-> c.stack, heap |-> heap, holes |-> c.holes,
                    mem |-> c.mem]
  <2>6. d = e  BY <1>1, <2>5 DEF Pure, Whole
  <2>7. /\ e.cap = c.cap /\ e.stack = c.stack /\ e.heap = heap /\ e.holes = c.holes
        /\ e.mem = c.mem
        /\ e = [cap |-> e.cap, stack |-> e.stack, heap |-> e.heap, holes |-> e.holes,
                mem |-> e.mem]
    OBVIOUS
  <2>. HIDE DEF d, e
  <2>8. c.mem = [x \in DOMAIN c.mem |-> c.mem[x]]
    <3>. DEFINE q == [cap |-> c.cap, stack |-> c.stack, heap |-> c.heap, holes |-> c.holes,
                      mem |-> [x \in DOMAIN c.mem |-> c.mem[x]]]
    <3>1. q.mem = [x \in DOMAIN c.mem |-> c.mem[x]]  OBVIOUS
    <3>2. c = q  BY DEF Pure, Whole
    <3>. HIDE DEF q
    <3>. QED  BY <3>1, <3>2
  <2>9. Whole(d) /\ d.heap = heap /\ d.holes = <<>>  BY <1>1, <2>6, <2>7, <2>8 DEF Whole
  <2>10. \A o : At(d, o) = At(c, o)  BY <2>6, <2>7 DEF At
  <2>11. Good(d) /\ d.cap = c.cap /\ d.stack = c.stack /\ c.heap <= d.heap
    BY <1>2 DEF d
  <2>12. ASSUME NEW o \in 1 .. c.cap, Idle(d, o) PROVE Idle(c, o)
    <3>1. heap \in Nat /\ c.heap <= heap  BY <1>2, <2>2, <2>6, <2>7 DEF d
    <3>. DEFINE k == c.cap
                f == c.stack
                g == c.heap
    <3>2. k \in Nat /\ f \in Nat /\ g \in Nat /\ o \in Int /\ g <= heap  BY <1>1, <3>1
    <3>3. o <= NODE \/ (NODE + heap < o /\ f <= k - o)  BY <2>9, <2>11, <2>12 DEF Idle
    <3>. HIDE DEF k, f, g
    <3>4. o <= NODE \/ (NODE + g < o /\ f <= k - o)  BY <3>1, <3>2, <3>3 DEF NODE
    <3>. QED  BY <3>4 DEF Idle, k, f, g
  <2>13. Pure(d)  BY <2>9, <2>10, <2>11, <2>12 DEF Pure
  <2>14. Over(c, d)  BY <1>1, <2>10, <2>11 DEF Over, FrontsSame
  <2>15. NODE + c.heap <= Foot(m.h)  BY <1>1, <2>2, <2>5 DEF Foot, NODE
  <2>. QED  BY <1>2, <2>13, <2>14, <2>15 DEF d
<1>. QED  BY <1>3, <1>4

\* So does what is written to it, and the fronts of a block below stay the same.
LEMMA GivePure ==
    ASSUME NEW f, Pure(f), NEW c, Pure(c), Over(f, c), c.stack = f.stack,
           NEW size \in Nat, NEW align \in Nat \ {0}, NEW x,
           NEW m, m = Alloc(c, size, align), m.ok,
           NEW d, d = Write(m.b, m.h, size, x)
    PROVE  /\ Pure(d) /\ Over(f, d) /\ d.stack = f.stack
           /\ m.h.len = 0 \/ NODE + f.heap <= Foot(m.h)
<1>. DEFINE p == m.b
            h == m.h
            S == Addr(p, h) .. Addr(p, h) + size - 1
            v == <<x>>
<1>1. /\ Pure(p) /\ Over(c, p) /\ p.cap = c.cap /\ p.stack = c.stack
      /\ h \in Region /\ Clear(p, h) /\ size <= h.len
      /\ h.len = 0 \/ NODE + c.heap <= Foot(h)
  BY AllocPure
<1>2. /\ f.cap \in Nat /\ f.stack \in Nat /\ f.heap \in Nat /\ c.cap = f.cap
      /\ c.heap \in Nat /\ f.heap <= c.heap /\ Shaped(f) /\ Shaped(c)
  BY DEF Pure, Good, Shaped, Over
<1>3. /\ Good(p) /\ Shaped(p) /\ p.holes = <<>> /\ p.cap = f.cap /\ p.stack = f.stack
      /\ p.heap \in Nat /\ f.stack + p.heap + NODE <= f.cap
      /\ DOMAIN p = {"cap", "stack", "heap", "holes", "mem"}
  BY <1>1, <1>2 DEF Pure, Good, Shaped
<1>4. h.off \in Nat /\ h.len \in Nat  BY <1>1 DEF Region
<1>5. d = [p EXCEPT !.mem = Paint(@, S, v)]  BY DEF Write
<1>. HIDE DEF p, h, v
<1>6. Good(d)  BY <1>1, <1>3, WriteIs DEF p, h
<1>. HIDE DEF S
<1>7. Moved(p, d, p.stack, S, v)
  <2>1. d = [p EXCEPT !.stack = p.stack, !.mem = Paint(@, S, v)]  BY <1>3, <1>5
  <2>. QED  BY <2>1 DEF Moved
<1>8. /\ Whole(d) /\ d.cap = p.cap /\ d.stack = p.stack /\ d.heap = p.heap
      /\ d.holes = p.holes
      /\ \A o \in 1 .. p.cap : At(d, o) = IF p.cap - o \in S THEN v ELSE At(p, o)
  BY <1>3, <1>7, FrontWhole
<1>9. h.len = 0 \/ NODE + f.heap <= Foot(h)
  <2>1. h.len # 0 => NODE + c.heap <= Foot(h)  BY <1>1
  <2>2. Foot(h) \in Int  BY <1>4 DEF Foot
  <2>. QED  BY <1>2, <2>1, <2>2 DEF NODE
<1>10. ASSUME NEW o \in 1 .. f.cap, p.cap - o \in S
       PROVE  NODE + f.heap < o /\ o <= NODE + p.heap
  <2>. DEFINE k == f.cap
              u == h.off
              n == h.len
              g == f.heap
              e == p.heap
  <2>1. k \in Nat /\ u \in Nat /\ n \in Nat /\ g \in Nat /\ e \in Nat /\ o \in Int
        /\ size <= n
    BY <1>1, <1>2, <1>3, <1>4
  <2>2. k - o \in k - u .. k - u + size - 1  BY <1>3, <1>10 DEF S, Addr
  <2>. HIDE DEF k, u, n, g, e
  <2>3. u - size < o /\ o <= u /\ size > 0  BY <2>1, <2>2
  <2>4. n # 0  BY <2>1, <2>3
  <2>5. NODE + g <= u - n  BY <1>9, <2>4 DEF Foot, u, n, g
  <2>6. u <= NODE + e
    <3>1. h # NoRegion  BY <2>4 DEF NoRegion, n
    <3>. QED  BY <1>1, <3>1 DEF Clear, InHeap, u, e
  <2>. QED  BY <2>1, <2>3, <2>5, <2>6 DEF NODE, g, e
<1>11. ASSUME NEW o \in 1 .. f.cap, Idle(d, o) PROVE At(d, o) = <<>>
  <2>1. Idle(p, o)  BY <1>8, <1>11 DEF Idle
  <2>2. p.cap - o \notin S
    <3>1. SUFFICES ASSUME p.cap - o \in S PROVE FALSE  OBVIOUS
    <3>2. NODE + f.heap < o /\ o <= NODE + p.heap  BY <1>10, <3>1
    <3>. QED  BY <1>2, <1>3, <2>1, <3>2 DEF Idle, NODE
  <2>. QED  BY <1>1, <1>3, <1>8, <2>1, <2>2 DEF Pure
<1>12. Pure(d)  BY <1>3, <1>6, <1>8, <1>11 DEF Pure
<1>13. Over(f, p)  BY <1>1, <1>2, <1>3, OverOn
<1>14. ASSUME NEW o \in 1 .. f.cap, ~Idle(f, o) PROVE At(d, o) = At(f, o)
  <2>1. p.cap - o \notin S
    <3>1. SUFFICES ASSUME p.cap - o \in S PROVE FALSE  OBVIOUS
    <3>2. NODE + f.heap < o /\ o <= NODE + p.heap  BY <1>10, <3>1
    <3>. DEFINE k == f.cap
                g == f.heap
                e == p.heap
                j == f.stack
    <3>3. k \in Nat /\ g \in Nat /\ e \in Nat /\ j \in Nat /\ o \in Int
          /\ j + e + NODE <= k /\ NODE + g < o /\ o <= NODE + e /\ ~(j <= k - o)
      BY <1>2, <1>3, <1>14, <3>2 DEF Idle
    <3>. HIDE DEF k, g, e, j
    <3>. QED  BY <3>3 DEF NODE
  <2>2. At(d, o) = At(p, o)  BY <1>3, <1>8, <2>1
  <2>3. At(p, o) = At(f, o)  BY <1>13, <1>14 DEF Over, FrontsSame
  <2>. QED  BY <2>2, <2>3
<1>15. Over(f, d)  BY <1>3, <1>8, <1>13, <1>14 DEF Over, FrontsSame
<1>. QED  BY <1>3, <1>8, <1>9, <1>12, <1>15 DEF h

\* what an archive in f has laid so far is below f's heap; one that failed took
\* it all back
Laid(f, a) ==
    /\ Pure(a.b) /\ Over(f, a.b) /\ a.b.stack = f.stack
    /\ a.ok => \A r \in Owns(a.s) : r.len = 0 \/ NODE + f.heap <= Foot(r)
    /\ ~a.ok => a.b = f

\* What was laid is taken back whole.
LEMMA UnwindBack ==
    ASSUME NEW f, Pure(f), NEW a, Laid(f, a), a.ok, Owned(a.b, a.s)
    PROVE  Unwind(a.b, a.s, f.heap) = f
<1>. DEFINE u == Unwind(a.b, a.s, f.heap)
<1>2. /\ Good(f) /\ f.cap \in Nat /\ f.stack \in Nat /\ f.heap \in Nat
      /\ f.stack + f.heap + NODE <= f.cap
  BY DEF Pure, Good, Shaped
<1>3. Pure(a.b) /\ Over(f, a.b) /\ a.b.stack = f.stack /\ a.b.cap = f.cap /\ f.heap <= a.b.heap
  BY DEF Laid, Over
<1>4. \A r \in Owns(a.s) : r.len = 0 \/ NODE + f.heap <= Foot(r)  BY DEF Laid
<1>5. /\ Pure(u) /\ u.cap = a.b.cap /\ u.stack = a.b.stack /\ u.heap = f.heap
      /\ \A o \in 1 .. a.b.cap :
            o <= NODE + f.heap \/ NODE + a.b.heap < o => At(u, o) = At(a.b, o)
  BY <1>2, <1>3, <1>4, UnwindPure
<1>. HIDE DEF u
<1>6. ASSUME NEW o \in 1 .. f.cap, ~Idle(f, o) PROVE At(u, o) = At(f, o)
  <2>1. o <= NODE + f.heap \/ NODE + a.b.heap < o
    <3>. DEFINE q == f.cap
                i == f.stack
                g == f.heap
                e == a.b.heap
    <3>1. /\ q \in Nat /\ i \in Nat /\ g \in Nat /\ e \in Nat /\ o \in Int
          /\ i + e + NODE <= q /\ (~(NODE + g < o) \/ ~(i <= q - o))
      <4>1. a.b.heap \in Nat /\ a.b.stack + a.b.heap + NODE <= a.b.cap
        BY <1>3 DEF Pure, Good, Shaped
      <4>. QED  BY <1>2, <1>3, <1>6, <4>1 DEF Idle
    <3>. HIDE DEF q, i, g, e
    <3>2. o <= NODE + g \/ NODE + e < o  BY <3>1 DEF NODE
    <3>. QED  BY <3>2 DEF g, e
  <2>2. At(u, o) = At(a.b, o)  BY <1>3, <1>5, <2>1
  <2>3. At(a.b, o) = At(f, o)  BY <1>3, <1>6 DEF Over, FrontsSame
  <2>. QED  BY <2>2, <2>3
<1>7. FrontsSame(f, u)  BY <1>6 DEF FrontsSame
<1>8. u = f  BY <1>3, <1>5, <1>7, PureSame
<1>. QED  BY <1>8 DEF u

\* A child lays its region, or takes back what was laid.
LEMMA KidPure ==
    ASSUME NEW f, Pure(f), NEW v \in Needs, NEW x, NEW a, NEW k \in 1 .. Len(v.kids),
           Progress(f, v, x, a, k - 1), Laid(f, a)
    PROVE  Laid(f, ArchiveKid(a, v.kids[k], x, f.heap))
<1>. DEFINE kid == v.kids[k]
            d == ArchiveKid(a, kid, x, f.heap)
            m == Alloc(a.b, kid.size, kid.align)
<1>1. kid.size \in Nat /\ kid.align \in Nat \ {0} /\ k \in Nat /\ k >= 1
  <2>1. Len(v.kids) \in Nat  BY NeedIs
  <2>2. k \in 0 .. Len(v.kids) /\ k \in Nat /\ k >= 1 /\ NeedAt(v, k) = kid  BY <2>1 DEF NeedAt
  <2>. HIDE DEF kid
  <2>. QED  BY <2>2, NeedIs
<1>. HIDE DEF kid
<1>2. /\ Good(f) /\ f.cap \in Nat /\ f.stack \in Nat /\ f.heap \in Nat
      /\ f.stack + f.heap + NODE <= f.cap
  BY DEF Pure, Good, Shaped
<1>3. Pure(a.b) /\ Over(f, a.b) /\ a.b.stack = f.stack /\ a.b.cap = f.cap /\ f.heap <= a.b.heap
  BY DEF Laid, Over
<1>4. CASE ~a.ok
  <2>1. d = a  BY <1>4 DEF ArchiveKid
  <2>. QED  BY <2>1 DEF kid
<1>5. CASE a.ok /\ m.ok
  <2>. DEFINE h == m.h
              c == Write(m.b, h, kid.size, x)
              kids == a.s.kids
              more == Append(kids, h)
              s1 == [a.s EXCEPT !.kids = more]
  <2>1. /\ DOMAIN a = {"ok", "b", "s"} /\ DOMAIN a.s = {"own", "kids"}
        /\ a.s.own \in Region /\ kids \in Seq(Region) /\ Len(kids) = k - 1
    BY <1>5 DEF Progress, Owned
  <2>2. d = [a EXCEPT !.b = c, !.s = s1]  BY <1>5 DEF ArchiveKid
  <2>3. m = Alloc(a.b, kid.size, kid.align) /\ m.ok  BY <1>5
  <2>. HIDE DEF m
  <2>4. m.h \in Region  BY <1>1, <1>3, <2>3, AllocPure
  <2>5. /\ Pure(c) /\ Over(f, c) /\ c.stack = f.stack
        /\ h.len = 0 \/ NODE + f.heap <= Foot(h)
    BY <1>1, <1>3, <2>3, GivePure
  <2>. HIDE DEF d, c, s1, more, h
  <2>6. d.ok = a.ok /\ d.b = c /\ d.s = s1  BY <2>1, <2>2
  <2>7. s1.own = a.s.own /\ s1.kids = more  BY <2>1 DEF s1
  <2>8. ASSUME NEW j \in Places(s1)
        PROVE  RegionAt(s1, j) = h \/ RegionAt(s1, j) \in Owns(a.s)
    <3>1. Len(more) = k /\ more[k] = h /\ \A i \in 1 .. k - 1 : more[i] = kids[i]
      <4>1. h \in Region  BY <2>4 DEF h
      <4>. HIDE DEF kids
      <4>2. Len(more) = Len(kids) + 1 /\ more[Len(kids) + 1] = h
            /\ \A i \in 1 .. Len(kids) : more[i] = kids[i]
        BY <2>1, <4>1, AppendProperties DEF more
      <4>. QED  BY <1>1, <2>1, <4>2
    <3>2. j \in 0 .. k  BY <2>7, <3>1 DEF Places
    <3>3. CASE j = k
      BY <1>1, <2>7, <3>1, <3>3 DEF RegionAt
    <3>4. CASE j # k
      <4>1. j \in 0 .. k - 1 /\ j \in Places(a.s)  BY <1>1, <2>1, <3>2, <3>4 DEF Places
      <4>2. RegionAt(s1, j) = RegionAt(a.s, j)
        <5>1. CASE j = 0  BY <2>7, <5>1 DEF RegionAt
        <5>2. CASE j # 0
          <6>1. j \in 1 .. k - 1  BY <1>1, <4>1, <5>2
          <6>. QED  BY <2>7, <3>1, <5>2, <6>1 DEF RegionAt
        <5>. QED  BY <5>1, <5>2
      <4>. QED  BY <4>1, <4>2 DEF Owns
    <3>. QED  BY <3>3, <3>4
  <2>9. ASSUME NEW r \in Owns(s1) PROVE r.len = 0 \/ NODE + f.heap <= Foot(r)
    <3>1. r = h \/ r \in Owns(a.s)  BY <2>8 DEF Owns
    <3>. QED  BY <1>5, <2>5, <3>1 DEF Laid
  <2>. QED  BY <1>5, <2>5, <2>6, <2>9 DEF Laid, d, kid
<1>6. CASE a.ok /\ ~m.ok
  <2>. DEFINE s0 == Stored(NoRegion, <<>>)
              u == Unwind(a.b, a.s, f.heap)
              w == Unwind(m.b, a.s, f.heap)
  <2>1. d = [ok |-> FALSE, b |-> u, s |-> s0]
    BY <1>6 DEF ArchiveKid
  <2>2. Owned(a.b, a.s)  BY <1>6 DEF Progress
  <2>. HIDE DEF d, u, s0
  <2>6. u = f  BY <1>6, <2>2, UnwindBack DEF u
  <2>7. d.ok = FALSE /\ d.b = f  BY <2>1, <2>6
  <2>8. Over(f, f)  BY <1>2, OverSelf DEF Good
  <2>. QED  BY <2>7, <2>8 DEF Laid, d, kid
<1>. QED  BY <1>4, <1>5, <1>6

\* An archive lays the whole value, or nothing.
LEMMA ArchivePure ==
    ASSUME NEW f, Pure(f), NEW v \in Needs, NEW x
    PROVE  Laid(f, Archive(f, v, x))
<1>. DEFINE n == Len(v.kids)
            own == Alloc(f, v.own.size, v.own.align)
            c == Write(own.b, own.h, v.own.size, x)
            s0 == Stored(own.h, <<>>)
            a0 == [ok |-> TRUE, s |-> s0, b |-> c]
            a == Archive(f, v, x)
<1>1. n \in Nat /\ v.own.size \in Nat /\ v.own.align \in Nat \ {0}
  <2>1. n \in Nat  BY NeedIs
  <2>2. 0 \in 0 .. n /\ NeedAt(v, 0) = v.own  BY <2>1 DEF NeedAt
  <2>. HIDE DEF n
  <2>. QED  BY <2>1, <2>2, NeedIs DEF n
<1>2. Good(f) /\ Over(f, f)  BY OverSelf DEF Pure, Good
<1>3. CASE ~own.ok
  <2>. DEFINE e == [ok |-> FALSE, b |-> f, s |-> Stored(NoRegion, <<>>)]
  <2>1. a = e  BY <1>3 DEF Archive
  <2>2. e.ok = FALSE /\ e.b = f  OBVIOUS
  <2>. HIDE DEF a, e
  <2>3. Laid(f, a)  BY <1>2, <2>1, <2>2 DEF Laid
  <2>. QED  BY <2>3 DEF a
<1>4. CASE own.ok
  <2>1. own = Alloc(f, v.own.size, v.own.align)  OBVIOUS
  <2>2. \E m : /\ m[0] = a0
               /\ \A k \in 1 .. n : m[k] = ArchiveKid(m[k - 1], v.kids[k], x, f.heap)
               /\ \A k \in 0 .. n : Progress(f, v, x, m[k], k)
               /\ a = m[n]
    BY <1>2, <1>4, ArchiveRuns
  <2>. HIDE DEF own, a
  <2>3. /\ Pure(c) /\ Over(f, c) /\ c.stack = f.stack
        /\ own.h.len = 0 \/ NODE + f.heap <= Foot(own.h)
    <3>. DEFINE size == v.own.size
                align == v.own.align
    <3>1. c = Write(own.b, own.h, size, x) /\ own = Alloc(f, size, align) /\ own.ok
          /\ size \in Nat /\ align \in Nat \ {0}
      BY <1>1, <1>4, <2>1
    <3>. HIDE DEF size, align, c
    <3>. QED  BY <1>2, <3>1, GivePure
  <2>. HIDE DEF c
  <2>4. Laid(f, a0)
    <3>1. a0.ok = TRUE /\ a0.b = c /\ a0.s = s0  OBVIOUS
    <3>2. s0.own = own.h /\ s0.kids = <<>>  BY DEF Stored
    <3>. HIDE DEF a0, s0
    <3>3. Owns(s0) = {own.h}
      <4>1. Places(s0) = {0}  BY <3>2, EmptySeq DEF Places
      <4>. QED  BY <3>2, <4>1 DEF Owns, RegionAt
    <3>. QED  BY <2>3, <3>1, <3>3 DEF Laid
  <2>. HIDE DEF a0
  <2>5. PICK m : /\ m[0] = a0
                 /\ \A k \in 1 .. n : m[k] = ArchiveKid(m[k - 1], v.kids[k], x, f.heap)
                 /\ \A k \in 0 .. n : Progress(f, v, x, m[k], k)
                 /\ a = m[n]
    BY <2>2
  <2>. DEFINE S == {k \in 0 .. n : Laid(f, m[k])}
  <2>6. 0 \in S  BY <1>1, <2>4, <2>5
  <2>7. ASSUME NEW k \in 0 + 1 .. n, k - 1 \in S PROVE k \in S
    <3>1. k \in 1 .. n /\ k - 1 \in 0 .. n /\ k \in 0 .. n  BY <1>1
    <3>2. Laid(f, m[k - 1]) /\ Progress(f, v, x, m[k - 1], k - 1)  BY <2>5, <2>7, <3>1
    <3>3. Laid(f, ArchiveKid(m[k - 1], v.kids[k], x, f.heap))  BY <3>1, <3>2, KidPure
    <3>. QED  BY <2>5, <3>1, <3>3
  <2>8. n \in S
    <3>. HIDE DEF S, n
    <3>1. 0 .. n \subseteq S  BY <1>1, <2>6, <2>7, Upwards
    <3>. QED  BY <1>1, <3>1
  <2>. QED  BY <2>5, <2>8 DEF a
<1>. QED  BY <1>3, <1>4

\* A cut back to the fronts of f, and a roll of the heap, make it f again.
LEMMA PopBack ==
    ASSUME NEW f, Pure(f), NEW c, Pure(c), Over(f, c), f.stack < c.stack
    PROVE  PopHeap(StackShrink(c, f.stack), c.heap - f.heap) = f
<1>. DEFINE p == StackShrink(c, f.stack)
            d == PopHeap(p, c.heap - f.heap)
<1>1. /\ f.cap \in Nat /\ f.stack \in Nat /\ f.heap \in Nat /\ c.cap = f.cap
      /\ c.stack \in Nat /\ c.heap \in Nat /\ f.heap <= c.heap
      /\ f.stack + f.heap + NODE <= f.cap /\ c.stack + c.heap + NODE <= f.cap
  BY DEF Pure, Good, Shaped, Over
<1>2. /\ Pure(p) /\ p.cap = c.cap /\ p.stack = f.stack /\ p.heap = c.heap
      /\ \A o \in 1 .. c.cap :
            At(p, o) = IF c.cap - o \in f.stack .. c.stack - 1 THEN <<>> ELSE At(c, o)
  BY <1>1, ShrinkPure
<1>. HIDE DEF p
<1>3. /\ Good(d) /\ Whole(d) /\ d.holes = <<>>
      /\ d.cap = p.cap /\ d.stack = p.stack /\ d.heap = f.heap
      /\ \A o \in 1 .. p.cap :
            At(d, o) = IF o <= NODE \/ (NODE + f.heap < o /\ o <= NODE + p.heap)
                       THEN <<>> ELSE At(p, o)
  <2>1. Len(p.holes) = 0  BY <1>2, EmptySeq DEF Pure
  <2>2. Good(p) /\ f.heap <= p.heap  BY <1>1, <1>2 DEF Pure
  <2>3. \A i \in 1 .. Len(p.holes) : NODE + f.heap <= Foot(p.holes[i])  BY <2>1
  <2>. DEFINE floor == f.heap
  <2>4. d = PopHeap(p, p.heap - floor)  BY <1>2
  <2>5. floor \in Nat /\ Good(p) /\ floor <= p.heap
        /\ \A i \in 1 .. Len(p.holes) : NODE + floor <= Foot(p.holes[i])
    BY <1>1, <2>2, <2>3
  <2>. HIDE DEF floor, d
  <2>6. LET u == PopHeap(p, p.heap - floor)
        IN  /\ Good(u) /\ Whole(u) /\ u.holes = <<>>
            /\ u.cap = p.cap /\ u.stack = p.stack /\ u.heap = floor
            /\ \A o \in 1 .. p.cap :
                  At(u, o) = IF o <= NODE \/ (NODE + floor < o /\ o <= NODE + p.heap)
                             THEN <<>> ELSE At(p, o)
    BY <2>5, PopPlain
  <2>. QED  BY <2>4, <2>6 DEF floor
<1>. HIDE DEF d
<1>4. ASSUME NEW o \in 1 .. f.cap
      PROVE  /\ ~Idle(f, o) => At(d, o) = At(f, o)
             /\ Idle(f, o) => At(d, o) = <<>>
  <2>. DEFINE k == f.cap
              i == f.stack
              j == c.stack
              g == f.heap
              e == c.heap
              x == k - o
  <2>1. /\ At(d, o) = IF o <= NODE \/ (NODE + g < o /\ o <= NODE + e) THEN <<>> ELSE At(p, o)
        /\ At(p, o) = IF x \in i .. j - 1 THEN <<>> ELSE At(c, o)
    BY <1>1, <1>2, <1>3
  <2>2. /\ ~Idle(f, o) => At(c, o) = At(f, o)
        /\ Idle(c, o) => At(c, o) = <<>>
    BY <1>1 DEF Over, FrontsSame, Pure
  <2>3. /\ Idle(f, o) <=> o <= NODE \/ (NODE + g < o /\ i <= x)
        /\ Idle(c, o) <=> o <= NODE \/ (NODE + e < o /\ j <= x)
    BY <1>1 DEF Idle
  <2>4. /\ k \in Nat /\ i \in Nat /\ j \in Nat /\ g \in Nat /\ e \in Nat /\ g <= e /\ i < j
        /\ i + g + NODE <= k /\ j + e + NODE <= k /\ o \in Int /\ o = k - x /\ x \in Int
    BY <1>1
  <2>. HIDE DEF k, i, j, g, e, x
  <2>5. ~Idle(f, o) => ~(o <= NODE \/ (NODE + g < o /\ o <= NODE + e)) /\ x \notin i .. j - 1
    BY <2>3, <2>4 DEF NODE
  <2>6. Idle(f, o) => \/ o <= NODE \/ (NODE + g < o /\ o <= NODE + e)
                      \/ x \in i .. j - 1
                      \/ Idle(c, o)
    BY <2>3, <2>4 DEF NODE
  <2>. QED  BY <2>1, <2>2, <2>5, <2>6
<1>5. Pure(d)
  <2>1. \A o : Idle(d, o) <=> Idle(f, o)  BY <1>1, <1>2, <1>3 DEF Idle
  <2>. QED  BY <1>1, <1>2, <1>3, <1>4, <2>1 DEF Pure
<1>6. FrontsSame(f, d)  BY <1>4 DEF FrontsSame
<1>7. d = f  BY <1>1, <1>2, <1>3, <1>5, <1>6, PureSame
<1>. QED  BY <1>7 DEF d, p

-----------------------------------------------------------------------------
(* Where the units are, in terms of their number.                          *)

\* snap and gap1; gap0; a unit with its gaps
HeadOf(k) == IF k.align < 4 THEN 4 ELSE k.align
PadOf(k) == (4 - (k.size % 4)) % 4
StepOf(k) == HeadOf(k) + k.size + PadOf(k)

\* the stack length of n units; where the next one has its snap, and its handle
TopOf(k, n) == IF n = 0 THEN 0 ELSE n * StepOf(k) - PadOf(k)
SnapOf(k, n) == n * StepOf(k)
HandleOf(k, n) == n * StepOf(k) + HeadOf(k)

LEMMA FoursIs ==
    ASSUME NEW n \in Nat
    PROVE  n % 4 \in 0 .. 3 /\ \E y \in Nat : n = 4 * y + (n % 4)
<1>1. n \div 4 \in Nat  OBVIOUS
<1>2. n % 4 \in 0 .. 3  OBVIOUS
<1>3. n = 4 * (n \div 4) + (n % 4)  OBVIOUS
<1>. QED  BY <1>1, <1>2, <1>3

\* A unit with its gaps is a whole number of snaps, and of handle alignments.
LEMMA StepIs ==
    ASSUME NEW k \in Kinds
    PROVE  /\ k.size \in Nat /\ k.align \in {1, 2, 4, 8, 16}
           /\ HeadOf(k) \in Nat /\ HeadOf(k) >= 4 /\ PadOf(k) \in 0 .. 3
           /\ StepOf(k) = HeadOf(k) + k.size + PadOf(k)
           /\ \E z \in Nat : StepOf(k) = 4 * z
           /\ k.align > 4 => HeadOf(k) = k.align /\ \E z \in Nat : StepOf(k) = k.align * z
           /\ k.align <= 4 => HeadOf(k) = 4
<1>. DEFINE s == k.size
            a == k.align
            h == HeadOf(k)
            p == PadOf(k)
            t == StepOf(k)
<1>1. s \in Nat /\ a \in {1, 2, 4, 8, 16} /\ s % a = 0  BY StackAssumption DEF MAX_ALIGN
<1>2. h = (IF a < 4 THEN 4 ELSE a) /\ p = (4 - (s % 4)) % 4 /\ t = h + s + p
  BY DEF HeadOf, PadOf, StepOf
<1>. HIDE DEF s, a, h, p, t
<1>3. h \in {4, 8, 16} /\ (a > 4 => h = a) /\ (a <= 4 => h = 4)  BY <1>1, <1>2
<1>4. s % 4 \in 0 .. 3 /\ \E y \in Nat : s = 4 * y + (s % 4)
  <2>1. s \in Nat  BY <1>1
  <2>. QED  BY <2>1, FoursIs
<1>5. p \in 0 .. 3 /\ \E z \in Nat : s + p = 4 * z
  <2>. DEFINE r == s % 4
  <2>1. r \in 0 .. 3 /\ p = (4 - r) % 4
    <3>1. s % 4 \in 0 .. 3  BY <1>4
    <3>2. p = (4 - (s % 4)) % 4  BY <1>2
    <3>. QED  BY <3>1, <3>2
  <2>5. \E y \in Nat : s = 4 * y + r  BY <1>4
  <2>. HIDE DEF r
  <2>4. PICK y \in Nat : s = 4 * y + r  BY <2>5
  <2>2. CASE r = 0
    <3>1. p = 0  BY <2>1, <2>2
    <3>. QED  BY <2>4, <2>2, <3>1
  <2>3. CASE r # 0
    <3>1. p = 4 - r  BY <2>1, <2>3
    <3>2. s + p = 4 * (y + 1) /\ y + 1 \in Nat  BY <1>1, <2>1, <2>4, <3>1
    <3>3. p \in 0 .. 3  BY <2>1, <2>3, <3>1
    <3>4. \E z \in Nat : s + p = 4 * z
      <4>. DEFINE w == y + 1
      <4>1. s + p = 4 * w /\ w \in Nat  BY <3>2
      <4>. HIDE DEF w
      <4>. QED  BY <4>1
    <3>. QED  BY <3>3, <3>4
  <2>. QED  BY <2>2, <2>3
<1>6. \E z \in Nat : t = 4 * z
  <2>1. PICK z \in Nat : s + p = 4 * z  BY <1>5
  <2>2. \E w \in {1, 2, 4} : h = 4 * w  BY <1>3
  <2>3. PICK w \in {1, 2, 4} : h = 4 * w  BY <2>2
  <2>4. t = 4 * (w + z) /\ w + z \in Nat  BY <1>1, <1>2, <1>5, <2>1, <2>3
  <2>. QED  BY <2>4
<1>7. a > 4 => \E z \in Nat : t = a * z
  <2>1. CASE a = 8
    <3>1. s \div 8 \in Nat /\ s = 8 * (s \div 8)  BY <1>1, <2>1
    <3>2. PICK z \in Nat : s = 8 * z  BY <3>1
    <3>3. p = 0  BY <1>2, <3>2
    <3>4. t = 8 * (z + 1) /\ z + 1 \in Nat  BY <1>2, <1>3, <2>1, <3>2, <3>3
    <3>. QED  BY <2>1, <3>4
  <2>2. CASE a = 16
    <3>1. s \div 16 \in Nat /\ s = 16 * (s \div 16)  BY <1>1, <2>2
    <3>2. PICK z \in Nat : s = 16 * z  BY <3>1
    <3>3. p = 0  BY <1>2, <3>2
    <3>4. t = 16 * (z + 1) /\ z + 1 \in Nat  BY <1>2, <1>3, <2>2, <3>2, <3>3
    <3>. QED  BY <2>2, <3>4
  <2>. QED  BY <1>1, <2>1, <2>2
<1>8. h \in Nat /\ h >= 4  BY <1>3
<1>. QED  BY <1>1, <1>2, <1>3, <1>5, <1>6, <1>7, <1>8 DEF s, a, h, p, t

\* Rounding up to a multiple that is near.
LEMMA RoundNear ==
    ASSUME NEW a \in {1, 2, 4, 8, 16}, NEW z \in Nat, NEW d \in 0 .. a - 1,
           NEW n \in Nat, n = a * z - d
    PROVE  RoundUp(n, a) = a * z
<1>1. CASE a = 1  BY <1>1 DEF RoundUp
<1>2. CASE a = 2  BY <1>2 DEF RoundUp
<1>3. CASE a = 4  BY <1>3 DEF RoundUp
<1>4. CASE a = 8  BY <1>4 DEF RoundUp
<1>5. CASE a = 16  BY <1>5 DEF RoundUp
<1>. QED  BY <1>1, <1>2, <1>3, <1>4, <1>5

\* A push puts the snap and the handle of a unit where the geometry says.
LEMMA UnitIs ==
    ASSUME NEW k \in Kinds, NEW n \in Nat
    PROVE  /\ TopOf(k, n) \in Nat /\ SnapOf(k, n) \in Nat /\ HandleOf(k, n) \in Nat
           /\ RoundUp(TopOf(k, n), SNAP) = SnapOf(k, n)
           /\ RoundUp(SnapOf(k, n) + SNAP, k.align) = HandleOf(k, n)
           /\ TopOf(k, n) <= SnapOf(k, n) /\ SnapOf(k, n) + SNAP <= HandleOf(k, n)
           /\ HandleOf(k, n) + k.size = TopOf(k, n + 1)
<1>. DEFINE s == k.size
            a == k.align
            h == HeadOf(k)
            p == PadOf(k)
            t == StepOf(k)
            y == n * t
<1>1. /\ s \in Nat /\ a \in {1, 2, 4, 8, 16} /\ h \in Nat /\ h >= 4 /\ p \in 0 .. 3
      /\ t = h + s + p /\ t \in Nat
      /\ \E z \in Nat : t = 4 * z
      /\ a > 4 => h = a /\ \E z \in Nat : t = a * z
      /\ a <= 4 => h = 4
  BY StepIs
<1>2. /\ TopOf(k, n) = (IF n = 0 THEN 0 ELSE y - p)
      /\ SnapOf(k, n) = y /\ HandleOf(k, n) = y + h
      /\ TopOf(k, n + 1) = (n + 1) * t - p
  BY DEF TopOf, SnapOf, HandleOf
<1>. HIDE DEF s, a, h, p, t
<1>3. PICK z0 \in Nat : t = 4 * z0  BY <1>1
<1>4. y = 4 * (n * z0) /\ n * z0 \in Nat /\ y \in Nat  BY <1>3
<1>5. (n + 1) * t = y + t  BY <1>1
<1>6. n # 0 => y >= t  BY <1>1
<1>. HIDE DEF y
<1>7. PICK z \in Nat : y = 4 * z  BY <1>4
<1>. DEFINE m == IF n = 0 THEN 0 ELSE y - p
<1>8. m \in Nat /\ m <= y  BY <1>1, <1>4, <1>6
<1>9. RoundUp(m, 4) = y
  <2>1. CASE n = 0
    <3>1. y = 0  BY <1>1, <2>1 DEF y
    <3>. QED  BY <2>1, <3>1 DEF RoundUp
  <2>2. CASE n # 0
    <3>1. m = 4 * z - p /\ p \in 0 .. 4 - 1 /\ 4 \in {1, 2, 4, 8, 16}  BY <1>1, <1>7, <2>2
    <3>2. RoundUp(m, 4) = 4 * z  BY <1>8, <3>1, RoundNear
    <3>. QED  BY <1>7, <3>2
  <2>. QED  BY <2>1, <2>2
<1>10. RoundUp(y + 4, a) = y + h
  <2>. DEFINE e == y + 4
  <2>0. e \in Nat /\ e = y + 4  BY <1>4
  <2>. HIDE DEF e
  <2>1. CASE a = 1  BY <1>1, <1>7, <2>0, <2>1 DEF RoundUp, e
  <2>2. CASE a = 2  BY <1>1, <1>7, <2>0, <2>2 DEF RoundUp, e
  <2>3. CASE a = 4  BY <1>1, <1>7, <2>0, <2>3 DEF RoundUp, e
  <2>4. CASE a = 8
    <3>1. PICK u \in Nat : t = 8 * u  BY <1>1, <2>4
    <3>2. y = 8 * (n * u) /\ n * u \in Nat  BY <3>1 DEF y
    <3>3. PICK w \in Nat : y = 8 * w  BY <3>2
    <3>4. h = 8 /\ e = 8 * (w + 1) - 4 /\ w + 1 \in Nat  BY <1>1, <2>0, <2>4, <3>3
    <3>5. RoundUp(e, 8) = 8 * (w + 1)
      <4>. DEFINE v == w + 1
                  r == 8
      <4>1. r \in {1, 2, 4, 8, 16} /\ 4 \in 0 .. r - 1 /\ e = r * v - 4 /\ v \in Nat
        BY <3>4
      <4>. HIDE DEF v, r
      <4>2. RoundUp(e, r) = r * v  BY <2>0, <4>1, RoundNear
      <4>. QED  BY <4>2 DEF v, r
    <3>. QED  BY <2>4, <3>3, <3>4, <3>5 DEF e
  <2>5. CASE a = 16
    <3>1. PICK u \in Nat : t = 16 * u  BY <1>1, <2>5
    <3>2. y = 16 * (n * u) /\ n * u \in Nat  BY <3>1 DEF y
    <3>3. PICK w \in Nat : y = 16 * w  BY <3>2
    <3>4. h = 16 /\ e = 16 * (w + 1) - 12 /\ w + 1 \in Nat  BY <1>1, <2>0, <2>5, <3>3
    <3>5. RoundUp(e, 16) = 16 * (w + 1)
      <4>. DEFINE v == w + 1
                  r == 16
      <4>1. r \in {1, 2, 4, 8, 16} /\ 12 \in 0 .. r - 1 /\ e = r * v - 12 /\ v \in Nat
        BY <3>4
      <4>. HIDE DEF v, r
      <4>2. RoundUp(e, r) = r * v  BY <2>0, <4>1, RoundNear
      <4>. QED  BY <4>2 DEF v, r
    <3>. QED  BY <2>5, <3>3, <3>4, <3>5 DEF e
  <2>. QED  BY <1>1, <2>1, <2>2, <2>3, <2>4, <2>5
<1>11. y + h + s = (n + 1) * t - p  BY <1>1, <1>4, <1>5
<1>12. y + h \in Nat /\ y + 4 <= y + h  BY <1>1, <1>4
<1>. QED  BY <1>2, <1>4, <1>8, <1>9, <1>10, <1>11, <1>12 DEF SNAP, s, a

\* Units lie on top of one another.
LEMMA TopsRise ==
    ASSUME NEW k \in Kinds, NEW i \in Nat, NEW n \in Nat, i < n
    PROVE  TopOf(k, i + 1) <= TopOf(k, n) /\ TopOf(k, i) < TopOf(k, n)
<1>. DEFINE t == StepOf(k)
            p == PadOf(k)
<1>1. t \in Nat /\ p \in 0 .. 3 /\ t >= 4
  <2>1. HeadOf(k) \in Nat /\ HeadOf(k) >= 4 /\ p \in 0 .. 3 /\ k.size \in Nat
        /\ t = HeadOf(k) + k.size + p
    BY StepIs
  <2>. HIDE DEF t, p
  <2>. QED  BY <2>1
<1>2. /\ TopOf(k, i) = (IF i = 0 THEN 0 ELSE i * t - p)
      /\ TopOf(k, i + 1) = (i + 1) * t - p /\ TopOf(k, n) = n * t - p
  BY DEF TopOf
<1>. HIDE DEF t, p
<1>3. (i + 1) * t = i * t + t /\ i * t \in Nat  BY <1>1
<1>4. (i + 1) * t <= n * t
  <2>1. n = (i + 1) + (n - i - 1) /\ n - i - 1 \in Nat  OBVIOUS
  <2>2. n * t = (i + 1) * t + (n - i - 1) * t  BY <1>1, <2>1
  <2>3. (n - i - 1) * t \in Nat /\ (i + 1) * t \in Nat  BY <1>1, <2>1
  <2>. QED  BY <2>2, <2>3
<1>5. n * t \in Nat  BY <1>1
<1>. QED  BY <1>1, <1>2, <1>3, <1>4, <1>5

LEMMA DivIs ==
    ASSUME NEW n \in Nat, NEW t \in Nat \ {0} PROVE (n * t) \div t = n
OBVIOUS

\* What the code computes from the stack length is the geometry of that many units.
LEMMA LastIs ==
    ASSUME kind \in Kinds, NEW n \in Nat, block.stack = TopOf(kind, n)
    PROVE  /\ Units = n
           /\ \A i \in Nat : SnapAt(i) = SnapOf(kind, i) /\ HandleAt(i) = HandleOf(kind, i)
           /\ n > 0 => /\ LastSnap = SnapOf(kind, n - 1)
                       /\ LastHandle = HandleOf(kind, n - 1)
                       /\ LastStart = TopOf(kind, n - 1)
<1>. DEFINE s == kind.size
            h == HeadOf(kind)
            p == PadOf(kind)
            t == StepOf(kind)
            e == block.stack
<1>1. /\ s \in Nat /\ h \in Nat /\ h >= 4 /\ p \in 0 .. 3 /\ t = h + s + p /\ t \in Nat
      /\ kind.align \in {1, 2, 4, 8, 16}
  <2>1. /\ s \in Nat /\ h \in Nat /\ h >= 4 /\ p \in 0 .. 3 /\ t = h + s + p
        /\ kind.align \in {1, 2, 4, 8, 16}
    BY StepIs
  <2>. HIDE DEF s, h, p, t
  <2>. QED  BY <2>1
<1>2. Gap1 = h - 4 /\ Gap0 = p  BY DEF Gap1, Gap0, SNAP, HeadOf, PadOf
<1>. HIDE DEF h, p
<1>3. Unit0 = h + s /\ Stride = t
  BY <1>1, <1>2 DEF Unit0, Stride, SNAP, s
<1>4. ASSUME NEW i \in Nat
      PROVE  SnapAt(i) = SnapOf(kind, i) /\ HandleAt(i) = HandleOf(kind, i)
  <2>1. SnapAt(i) = i * t
    <3>1. CASE i = 0  BY <1>1, <3>1 DEF SnapAt
    <3>2. CASE i # 0
      <4>1. SnapAt(i) = Unit0 + (i - 1) * Stride + Gap0  BY <3>2 DEF SnapAt
      <4>2. SnapAt(i) = h + s + (i - 1) * t + p  BY <1>2, <1>3, <4>1
      <4>. HIDE DEF t, s
      <4>3. (i - 1) * t = i * t - t /\ i * t \in Nat  BY <1>1
      <4>. QED  BY <1>1, <4>2, <4>3
    <3>. QED  BY <3>1, <3>2
  <2>2. HandleAt(i) = SnapAt(i) + 4 + Gap1  BY DEF HandleAt, SNAP
  <2>. HIDE DEF t
  <2>3. i * t \in Nat  BY <1>1
  <2>4. HandleAt(i) = i * t + h  BY <1>1, <1>2, <2>1, <2>2, <2>3
  <2>. QED  BY <2>1, <2>4 DEF SnapOf, HandleOf, t, h
<1>5. /\ TopOf(kind, n) = (IF n = 0 THEN 0 ELSE n * t - p)
      /\ n > 0 => /\ SnapOf(kind, n - 1) = (n - 1) * t
                  /\ HandleOf(kind, n - 1) = (n - 1) * t + h
                  /\ TopOf(kind, n - 1) = IF n - 1 = 0 THEN 0 ELSE (n - 1) * t - p
  BY DEF TopOf, SnapOf, HandleOf, h, p
<1>6. LastHandle = e - s /\ LastSnap = LastHandle - Gap1 - 4
  BY DEF LastHandle, LastSnap, SNAP
<1>7. LastStart = IF e = Unit0 THEN LastSnap ELSE LastSnap - Gap0  BY DEF LastStart
<1>8. Units = IF e = 0 THEN 0 ELSE 1 + (e - Unit0) \div Stride  BY DEF Units
<1>9. e = IF n = 0 THEN 0 ELSE n * t - p  BY <1>5
<1>. HIDE DEF e, s, t
<1>10. CASE n = 0
  BY <1>4, <1>8, <1>9, <1>10
<1>11. CASE n # 0
  <2>. DEFINE y == (n - 1) * t
  <2>1. n * t = y + t /\ y \in Nat /\ n - 1 \in Nat  BY <1>1, <1>11
  <2>2. y \div t = n - 1  BY <1>1, <2>1, DivIs
  <2>3. n - 1 = 0 => y = 0  BY <1>1
  <2>4. n - 1 # 0 => y >= t  BY <1>1, <2>1
  <2>. HIDE DEF y
  <2>5. e = y + h + s /\ e # 0  BY <1>1, <1>9, <1>11, <2>1
  <2>6. e - Unit0 = y  BY <1>1, <1>3, <2>1, <2>5
  <2>7. Units = n
    <3>1. Units = 1 + y \div t  BY <1>3, <1>8, <2>5, <2>6
    <3>. QED  BY <2>1, <2>2, <3>1
  <2>8. LastHandle = y + h /\ LastSnap = y  BY <1>1, <1>2, <1>6, <2>1, <2>5
  <2>9. LastStart = IF n - 1 = 0 THEN 0 ELSE y - p
    <3>1. CASE n - 1 = 0
      <4>1. y = 0  BY <2>3, <3>1
      <4>2. e = Unit0  BY <1>1, <1>3, <2>5, <4>1
      <4>. QED  BY <1>7, <2>8, <3>1, <4>1, <4>2
    <3>2. CASE n - 1 # 0
      <4>1. e # Unit0  BY <1>1, <1>3, <2>1, <2>4, <2>5, <3>2
      <4>. QED  BY <1>2, <1>7, <2>8, <3>2, <4>1
    <3>. QED  BY <3>1, <3>2
  <2>. QED  BY <1>4, <1>5, <1>11, <2>7, <2>8, <2>9 DEF y
<1>. QED  BY <1>10, <1>11

-----------------------------------------------------------------------------
(* The invariant.                                                          *)

\* the unit that is counted i from 0 is p, in a block c of the kind k
Rests(k, c, i, p) ==
    /\ p.v \in Needs /\ Len(p.s.kids) = Len(p.v.kids)
    /\ \A x \in SnapOf(k, i) .. SnapOf(k, i) + SNAP - 1 : c.mem[x] = <<p.found.heap>>
    /\ \A x \in HandleOf(k, i) .. HandleOf(k, i) + k.size - 1 : c.mem[x] = <<p.s>>
    /\ \A j \in Places(p.s) :
          LET r == RegionAt(p.s, j)
              n == NeedAt(p.v, j).size
          IN  /\ r.off \in Nat /\ n \in Nat
              /\ n = 0 \/ (NODE <= r.off - n /\ r.off <= NODE + c.heap)
              /\ \A o \in r.off - n + 1 .. r.off : At(c, o) = <<i>>

\* c is a block of the first n units of q, its fronts over those each found
Built(k, c, n, q) ==
    /\ Pure(c) /\ c.stack = TopOf(k, n)
    /\ \A i \in 1 .. n : Over(q[i].found, c) /\ Rests(k, c, i - 1, q[i])

\* the block that the push of a unit found, and the block as it is
BlockAt(j) == IF j = Len(pushed) + 1 THEN block ELSE pushed[j].found

Listed(q) == \E S : q \in Seq(S)

Chain == \A j \in 1 .. Len(pushed) + 1 : Built(kind, BlockAt(j), j - 1, pushed)

IInv == kind \in Kinds /\ Listed(pushed) /\ Chain

-----------------------------------------------------------------------------
(* Units in blocks that grow, and in blocks that are taken back.           *)

\* What is on the stack front of c is below it in d.
LEMMA ByteOver ==
    ASSUME NEW c, Pure(c), NEW d, Shaped(d), Over(c, d), NEW x \in 0 .. c.stack - 1
    PROVE  d.mem[x] = c.mem[x]
<1>. DEFINE o == c.cap - x
<1>1. /\ c.cap \in Nat /\ c.stack \in Nat /\ c.heap \in Nat
      /\ c.stack + c.heap + NODE <= c.cap /\ d.cap = c.cap
  BY DEF Pure, Good, Shaped, Over
<1>2. o \in 1 .. c.cap /\ c.cap - o = x  BY <1>1 DEF NODE
<1>3. ~Idle(c, o)  BY <1>1 DEF Idle, NODE
<1>. HIDE DEF o
<1>4. At(d, o) = At(c, o)  BY <1>2, <1>3 DEF Over, FrontsSame
<1>. QED  BY <1>1, <1>2, <1>4 DEF At

\* What is in the heap of c is in that of d.
LEMMA HeapOver ==
    ASSUME NEW c, Pure(c), NEW d, Over(c, d), NEW o \in NODE + 1 .. NODE + c.heap
    PROVE  At(d, o) = At(c, o)
<1>1. /\ c.cap \in Nat /\ c.stack \in Nat /\ c.heap \in Nat
      /\ c.stack + c.heap + NODE <= c.cap
  BY DEF Pure, Good, Shaped
<1>2. o \in 1 .. c.cap /\ ~Idle(c, o)
  <2>. DEFINE k == c.cap
              g == c.heap
              s == c.stack
  <2>1. k \in Nat /\ g \in Nat /\ s \in Nat /\ s + g + NODE <= k /\ NODE + g \in Int
        /\ NODE \in Nat /\ o \in NODE + 1 .. NODE + g
    BY <1>1 DEF NODE
  <2>. HIDE DEF k, g, s
  <2>2. o \in 1 .. k /\ ~(o <= NODE) /\ ~(NODE + g < o)  BY <2>1
  <2>. QED  BY <2>2 DEF Idle, k, g
<1>. QED  BY <1>2 DEF Over, FrontsSame

\* A unit rests where it is while the fronts grow.
LEMMA RestsOver ==
    ASSUME NEW k \in Kinds, NEW n \in Nat, NEW i \in Nat, i < n, NEW c, Pure(c),
           c.stack = TopOf(k, n), NEW d, Shaped(d), Over(c, d), NEW p, Rests(k, c, i, p)
    PROVE  Rests(k, d, i, p)
<1>1. /\ c.stack \in Nat /\ c.heap \in Nat /\ d.heap \in Nat /\ c.heap <= d.heap
      /\ c.cap \in Nat /\ c.stack + c.heap + NODE <= c.cap
  BY DEF Pure, Good, Shaped, Over
<1>2. /\ SnapOf(k, i) \in Nat /\ HandleOf(k, i) \in Nat
      /\ SnapOf(k, i) + SNAP <= HandleOf(k, i) /\ k.size \in Nat
      /\ HandleOf(k, i) + k.size <= c.stack
  <2>1. /\ SnapOf(k, i) \in Nat /\ HandleOf(k, i) \in Nat
        /\ SnapOf(k, i) + SNAP <= HandleOf(k, i)
        /\ HandleOf(k, i) + k.size = TopOf(k, i + 1)
    BY UnitIs
  <2>2. TopOf(k, i + 1) <= TopOf(k, n)  BY TopsRise
  <2>3. k.size \in Nat  BY StepIs
  <2>. QED  BY <2>1, <2>2, <2>3
<1>. DEFINE at == SnapOf(k, i)
            to == HandleOf(k, i)
            size == k.size
<1>3. /\ at .. at + SNAP - 1 \subseteq 0 .. c.stack - 1
      /\ to .. to + size - 1 \subseteq 0 .. c.stack - 1
  <2>. DEFINE e == c.stack
  <2>1. at \in Nat /\ to \in Nat /\ at + SNAP <= to /\ size \in Nat /\ to + size <= e /\ e \in Nat
    BY <1>1, <1>2
  <2>. HIDE DEF at, to, size, e
  <2>. QED  BY <2>1 DEF SNAP, e
<1>4. \A x \in at .. at + SNAP - 1 : d.mem[x] = <<p.found.heap>>
  BY <1>3, ByteOver DEF Rests
<1>5. \A x \in to .. to + size - 1 : d.mem[x] = <<p.s>>
  BY <1>3, ByteOver DEF Rests
<1>6. ASSUME NEW j \in Places(p.s)
      PROVE  LET r == RegionAt(p.s, j)
                 m == NeedAt(p.v, j).size
             IN  /\ r.off \in Nat /\ m \in Nat
                 /\ m = 0 \/ (NODE <= r.off - m /\ r.off <= NODE + d.heap)
                 /\ \A o \in r.off - m + 1 .. r.off : At(d, o) = <<i>>
  <2>. DEFINE r == RegionAt(p.s, j)
              m == NeedAt(p.v, j).size
              u == r.off
  <2>1. /\ u \in Nat /\ m \in Nat
        /\ m = 0 \/ (NODE <= u - m /\ u <= NODE + c.heap)
        /\ \A o \in u - m + 1 .. u : At(c, o) = <<i>>
    BY DEF Rests
  <2>. HIDE DEF u, m
  <2>2. m = 0 \/ (NODE <= u - m /\ u <= NODE + d.heap)  BY <1>1, <2>1 DEF NODE
  <2>3. ASSUME NEW o \in u - m + 1 .. u PROVE At(d, o) = <<i>>
    <3>1. o \in NODE + 1 .. NODE + c.heap  BY <1>1, <2>1 DEF NODE
    <3>. QED  BY <2>1, <3>1, HeapOver
  <2>. QED  BY <2>1, <2>2, <2>3 DEF u, m
<1>. QED  BY <1>4, <1>5, <1>6 DEF Rests

\* A front that grew is cut back to what it was.
LEMMA ShrinkBack ==
    ASSUME NEW c, Pure(c), NEW d, Pure(d), Over(c, d), d.heap = c.heap, c.stack < d.stack
    PROVE  StackShrink(d, c.stack) = c
<1>. DEFINE p == StackShrink(d, c.stack)
<1>1. /\ c.cap \in Nat /\ c.stack \in Nat /\ d.cap = c.cap /\ d.stack \in Nat
  BY DEF Pure, Good, Shaped, Over
<1>2. /\ Pure(p) /\ p.cap = d.cap /\ p.stack = c.stack /\ p.heap = d.heap
      /\ \A o \in 1 .. d.cap :
            At(p, o) = IF d.cap - o \in c.stack .. d.stack - 1 THEN <<>> ELSE At(d, o)
  BY <1>1, ShrinkPure
<1>. HIDE DEF p
<1>3. ASSUME NEW o \in 1 .. c.cap, ~Idle(c, o) PROVE At(p, o) = At(c, o)
  <2>1. At(d, o) = At(c, o)  BY <1>3 DEF Over, FrontsSame
  <2>2. d.cap - o \notin c.stack .. d.stack - 1
    <3>1. c.heap \in Nat /\ d.stack + c.heap + NODE <= c.cap  BY <1>1 DEF Pure, Good, Shaped
    <3>2. ~(NODE + c.heap < o) \/ ~(c.stack <= c.cap - o)  BY <1>3 DEF Idle
    <3>. DEFINE k == c.cap
                g == c.heap
                i == c.stack
                j == d.stack
    <3>3. k \in Nat /\ g \in Nat /\ i \in Nat /\ j \in Nat /\ o \in Int /\ j + g + NODE <= k
          /\ (~(NODE + g < o) \/ ~(i <= k - o)) /\ i < j
      BY <1>1, <3>1, <3>2
    <3>. HIDE DEF k, g, i, j
    <3>4. k - o \notin i .. j - 1  BY <3>3 DEF NODE
    <3>. QED  BY <1>1, <3>4 DEF k, i, j
  <2>. QED  BY <1>1, <1>2, <2>1, <2>2
<1>4. FrontsSame(c, p)  BY <1>3 DEF FrontsSame
<1>5. p = c  BY <1>1, <1>2, <1>4, PureSame
<1>. QED  BY <1>5 DEF p

\* A push with room for all of it builds one more unit.
LEMMA PushRests ==
    ASSUME NEW k \in Kinds, NEW n \in Nat, NEW f, Pure(f), f.stack = TopOf(k, n),
           NEW v \in Needs, NEW a, a = Archive(f, v, n), a.ok,
           NEW w, w = PushBytes(a.b, SNAP, SNAP, f.heap), w.ok,
           NEW h, h = PushBytes(w.b, k.size, k.align, a.s), h.ok,
           NEW p, p.v = v, p.s = a.s, p.found = f
    PROVE  /\ Pure(h.b) /\ h.b.stack = TopOf(k, n + 1) /\ Over(f, h.b)
           /\ Rests(k, h.b, n, p)
<1>. DEFINE at == SnapOf(k, n)
            to == HandleOf(k, n)
            size == k.size
            top == TopOf(k, n + 1)
            c == a.b
            d == w.b
            e == h.b
<1>1. /\ at \in Nat /\ to \in Nat /\ at + SNAP <= to /\ to + size = top
      /\ RoundUp(TopOf(k, n), SNAP) = at /\ RoundUp(at + SNAP, k.align) = to
      /\ size \in Nat /\ k.align \in Nat \ {0} /\ SNAP \in Nat /\ SNAP \in Nat \ {0}
  <2>1. k.align \in {1, 2, 4, 8, 16} /\ size \in Nat  BY StepIs
  <2>2. /\ at \in Nat /\ to \in Nat /\ at + SNAP <= to /\ to + size = top
        /\ RoundUp(TopOf(k, n), SNAP) = at /\ RoundUp(at + SNAP, k.align) = to
    BY UnitIs
  <2>. HIDE DEF at, to, size, top
  <2>. QED  BY <2>1, <2>2 DEF SNAP
<1>2. Pure(c) /\ Over(f, c) /\ c.stack = f.stack
  <2>1. Laid(f, a)  BY ArchivePure
  <2>. QED  BY <2>1 DEF Laid
<1>. HIDE DEF at, to, size, top, c, d, e
<1>3. /\ Pure(d) /\ Over(c, d) /\ d.heap = c.heap /\ d.stack = at + SNAP
      /\ \A x \in at .. at + SNAP - 1 : d.mem[x] = <<f.heap>>
  <2>1. w = PushBytes(c, SNAP, SNAP, f.heap)  BY DEF c
  <2>2. RoundUp(c.stack, SNAP) = at  BY <1>1, <1>2
  <2>3. LET u == PushBytes(c, SNAP, SNAP, f.heap).b
            start == RoundUp(c.stack, SNAP)
        IN  /\ Pure(u) /\ Over(c, u) /\ u.heap = c.heap /\ u.stack = start + SNAP
            /\ \A x \in start .. start + SNAP - 1 : u.mem[x] = <<f.heap>>
    BY <1>1, <1>2, <2>1, PushPure
  <2>. QED  BY <2>1, <2>2, <2>3 DEF d
<1>4. /\ Pure(e) /\ Over(d, e) /\ e.heap = d.heap /\ e.stack = top
      /\ \A x \in to .. to + size - 1 : e.mem[x] = <<a.s>>
  <2>1. h = PushBytes(d, size, k.align, a.s)  BY DEF d, size
  <2>2. RoundUp(d.stack, k.align) = to  BY <1>1, <1>3
  <2>3. LET u == PushBytes(d, size, k.align, a.s).b
            start == RoundUp(d.stack, k.align)
        IN  /\ Pure(u) /\ Over(d, u) /\ u.heap = d.heap /\ u.stack = start + size
            /\ \A x \in start .. start + size - 1 : u.mem[x] = <<a.s>>
    BY <1>1, <1>3, <2>1, PushPure
  <2>. QED  BY <1>1, <2>1, <2>2, <2>3 DEF e
<1>5. Shaped(f) /\ Shaped(c) /\ Shaped(d) /\ Shaped(e)
  BY <1>2, <1>3, <1>4 DEF Pure, Good
<1>6. Over(c, e) /\ Over(f, e)
  <2>1. Over(c, e)  BY <1>3, <1>4, <1>5, OverOn
  <2>. QED  BY <1>2, <1>5, <2>1, OverOn
<1>7. \A x \in at .. at + SNAP - 1 : e.mem[x] = <<f.heap>>
  <2>1. at .. at + SNAP - 1 \subseteq 0 .. d.stack - 1  BY <1>1, <1>3
  <2>. QED  BY <1>3, <1>4, <1>5, <2>1, ByteOver
<1>8. /\ Owned(c, a.s) /\ Len(a.s.kids) = Len(v.kids) /\ Filled(c, v, a.s, n)
  <2>1. Good(f)  BY DEF Pure
  <2>. QED  BY <2>1, ArchiveIs DEF c
<1>9. ASSUME NEW j \in Places(a.s)
      PROVE  LET r == RegionAt(a.s, j)
                 m == NeedAt(v, j).size
             IN  /\ r.off \in Nat /\ m \in Nat
                 /\ m = 0 \/ (NODE <= r.off - m /\ r.off <= NODE + e.heap)
                 /\ \A o \in r.off - m + 1 .. r.off : At(e, o) = <<n>>
  <2>. DEFINE r == RegionAt(a.s, j)
              m == NeedAt(v, j).size
              u == r.off
  <2>1. r \in Region /\ Clear(c, r)  BY <1>8, PlaceIs
  <2>2. m <= r.len /\ \A o \in u - m + 1 .. u : At(c, o) = <<n>>  BY <1>8 DEF Filled
  <2>3. m \in Nat
    <3>1. j \in 0 .. Len(v.kids)  BY <1>8 DEF Places
    <3>. QED  BY <3>1, NeedIs
  <2>4. u \in Nat /\ r.len \in Nat  BY <2>1 DEF Region
  <2>5. m # 0 => NODE <= u - m /\ u <= NODE + c.heap
    <3>. SUFFICES ASSUME m # 0 PROVE NODE <= u - m /\ u <= NODE + c.heap  OBVIOUS
    <3>1. r # NoRegion  BY <2>2, <2>3, <2>4 DEF NoRegion
    <3>2. NODE <= u - r.len /\ u <= NODE + c.heap  BY <2>1, <3>1 DEF Clear, InHeap
    <3>. HIDE DEF m, r
    <3>. DEFINE l == r.len
    <3>3. m <= l /\ NODE <= u - l /\ l \in Nat  BY <2>2, <2>4, <3>2
    <3>. HIDE DEF l, u
    <3>. QED  BY <2>3, <2>4, <3>2, <3>3 DEF NODE
  <2>. HIDE DEF m, u
  <2>6. c.heap \in Nat /\ e.heap = c.heap  BY <1>2, <1>3, <1>4 DEF Pure, Good, Shaped
  <2>7. ASSUME NEW o \in u - m + 1 .. u PROVE At(e, o) = <<n>>
    <3>1. o \in NODE + 1 .. NODE + c.heap  BY <2>3, <2>4, <2>5, <2>6 DEF NODE
    <3>. QED  BY <1>2, <1>6, <2>2, <3>1, HeapOver
  <2>. QED  BY <2>3, <2>4, <2>5, <2>6, <2>7 DEF m, u
<1>10. Rests(k, e, n, p)
  BY <1>4, <1>7, <1>8, <1>9 DEF Rests, at, to, size
<1>. QED  BY <1>4, <1>6, <1>10 DEF e, top

\* One without leaves the block as it was.
LEMMA RefusedLeaves ==
    ASSUME kind \in Kinds, Pure(block), NEW v \in kind.values, PushErr(v)
    PROVE  block' = block
<1>1. v \in Needs  BY StackAssumption
<1>. DEFINE a == Archive(block, v, Units)
            w == WithSnap(v)
<1>2. Laid(block, a)  BY <1>1, ArchivePure
<1>3. Archived(v) = a  BY DEF Archived
<1>4. a.ok => Unwind(a.b, a.s, block.heap) = block
  <2>1. a.ok => Owned(a.b, a.s)  BY <1>1, ArchiveIs DEF Pure
  <2>. HIDE DEF a
  <2>. QED  BY <1>2, <2>1, UnwindBack
<1>5. a.ok /\ w.ok => StackShrink(w.b, block.stack) = a.b
  <2>. SUFFICES ASSUME a.ok, w.ok PROVE StackShrink(w.b, block.stack) = a.b  OBVIOUS
  <2>1. w = PushBytes(a.b, SNAP, SNAP, block.heap)  BY <1>3 DEF WithSnap
  <2>2. Pure(a.b) /\ a.b.stack = block.stack  BY <1>2 DEF Laid
  <2>. DEFINE c == a.b
  <2>. HIDE DEF a, w
  <2>3. SNAP \in Nat /\ SNAP \in Nat \ {0}  BY DEF SNAP
  <2>4. LET u == PushBytes(c, SNAP, SNAP, block.heap).b
            start == RoundUp(c.stack, SNAP)
        IN  /\ Pure(u) /\ Over(c, u) /\ u.heap = c.heap /\ u.stack = start + SNAP
            /\ \A x \in start .. start + SNAP - 1 : u.mem[x] = <<block.heap>>
    BY <2>1, <2>2, <2>3, PushPure
  <2>5. /\ Pure(w.b) /\ Over(c, w.b) /\ w.b.heap = c.heap
        /\ w.b.stack = RoundUp(c.stack, SNAP) + SNAP
    BY <2>1, <2>4
  <2>6. c.stack < w.b.stack
    <3>1. c.stack \in Nat  BY <2>2 DEF Pure, Good, Shaped
    <3>2. RoundUp(c.stack, SNAP) \in Nat /\ c.stack <= RoundUp(c.stack, SNAP)
      BY <2>3, <3>1, RoundUpIs
    <3>. QED  BY <2>5, <3>1, <3>2 DEF SNAP
  <2>7. StackShrink(w.b, c.stack) = c  BY <2>2, <2>5, <2>6, ShrinkBack
  <2>. QED  BY <2>2, <2>7
<1>. HIDE DEF a, w
<1>6. CASE ArchiveFails(v)  BY <1>2, <1>3, <1>6 DEF ArchiveFails, Laid
<1>7. CASE SnapFails(v)  BY <1>3, <1>4, <1>7 DEF SnapFails
<1>8. CASE HandleFails(v)  BY <1>3, <1>4, <1>5, <1>8 DEF HandleFails, w
<1>. QED  BY <1>6, <1>7, <1>8 DEF PushErr

-----------------------------------------------------------------------------
(* The invariant holds.                                                    *)

\* What the invariant says of the block.
LEMMA BlockIs ==
    ASSUME IInv
    PROVE  /\ Len(pushed) \in Nat /\ Built(kind, block, Len(pushed), pushed)
           /\ Pure(block) /\ block.stack = TopOf(kind, Len(pushed)) /\ Units = Len(pushed)
<1>. DEFINE n == Len(pushed)
<1>1. n \in Nat
  <2>1. PICK S : pushed \in Seq(S)  BY DEF IInv, Listed
  <2>. QED  BY <2>1
<1>2. Built(kind, block, n, pushed)
  <2>1. n + 1 \in 1 .. n + 1 /\ n + 1 - 1 = n  BY <1>1
  <2>2. BlockAt(n + 1) = block  BY DEF BlockAt
  <2>. HIDE DEF n
  <2>. QED  BY <2>1, <2>2 DEF IInv, Chain, n
<1>3. Pure(block) /\ block.stack = TopOf(kind, n)  BY <1>2 DEF Built
<1>4. kind \in Kinds  BY DEF IInv
<1>5. Units = n
  <2>. HIDE DEF n
  <2>. QED  BY <1>1, <1>3, <1>4, LastIs
<1>. QED  BY <1>1, <1>2, <1>3, <1>5

LEMMA InitIInv == StackInit => IInv
<1>. SUFFICES ASSUME StackInit PROVE IInv  OBVIOUS
<1>1. kind \in Kinds /\ pushed = <<>>  BY DEF StackInit
<1>2. Pure(block) /\ block.stack = 0
  <2>1. PICK cap \in StackCaps : block = NewBlock(cap)  BY DEF StackInit
  <2>2. cap \in Nat  BY StackAssumption
  <2>. QED  BY <2>1, <2>2, NewPure
<1>3. Listed(pushed)
  <2>1. <<>> \in Seq({})  OBVIOUS
  <2>. QED  BY <1>1, <2>1 DEF Listed
<1>4. ASSUME NEW j \in 1 .. Len(pushed) + 1 PROVE Built(kind, BlockAt(j), j - 1, pushed)
  <2>1. Len(pushed) = 0  BY <1>1, EmptySeq
  <2>2. j = 1  BY <2>1
  <2>3. BlockAt(j) = block /\ j - 1 = 0  BY <2>1, <2>2 DEF BlockAt
  <2>4. TopOf(kind, 0) = 0  BY DEF TopOf
  <2>. QED  BY <1>2, <2>3, <2>4 DEF Built
<1>. QED  BY <1>1, <1>3, <1>4 DEF IInv, Chain

LEMMA BuiltSame ==
    ASSUME NEW k, NEW c, NEW n \in Nat, NEW q, NEW r, \A i \in 1 .. n : r[i] = q[i],
           Built(k, c, n, q)
    PROVE  Built(k, c, n, r)
BY DEF Built

\* The block that a push found, under the units below it.
LEMMA FoundIs ==
    ASSUME IInv, NEW j \in 1 .. Len(pushed)
    PROVE  /\ Built(kind, pushed[j].found, j - 1, pushed)
           /\ Pure(pushed[j].found) /\ pushed[j].found.stack = TopOf(kind, j - 1)
           /\ Over(pushed[j].found, block) /\ Rests(kind, block, j - 1, pushed[j])
<1>1. Len(pushed) \in Nat /\ Built(kind, block, Len(pushed), pushed)  BY BlockIs
<1>2. j \in 1 .. Len(pushed) + 1 /\ j # Len(pushed) + 1  BY <1>1
<1>3. BlockAt(j) = pushed[j].found  BY <1>2 DEF BlockAt
<1>4. Built(kind, pushed[j].found, j - 1, pushed)  BY <1>2, <1>3 DEF IInv, Chain
<1>. QED  BY <1>1, <1>4 DEF Built

LEMMA PushIInv ==
    ASSUME IInv, NEW v \in kind.values, PushOk(v)
    PROVE  IInv'
<1>. DEFINE n == Len(pushed)
            a == Archive(block, v, n)
            w == WithSnap(v)
            h == WithHandle(v)
            p == [v |-> v, s |-> Archived(v).s, found |-> block]
            q == Append(pushed, p)
<1>1. /\ n \in Nat /\ Built(kind, block, n, pushed) /\ Pure(block) /\ block.stack = TopOf(kind, n)
      /\ Units = n
  BY BlockIs
<1>2. kind \in Kinds /\ v \in Needs  BY StackAssumption DEF IInv
<1>3. Archived(v) = a  BY <1>1 DEF Archived
<1>4. /\ a.ok /\ w.ok /\ h.ok /\ block' = h.b /\ pushed' = q /\ kind' = kind
  BY <1>3 DEF PushOk
<1>5. /\ w = PushBytes(a.b, SNAP, SNAP, block.heap)
      /\ h = PushBytes(w.b, kind.size, kind.align, a.s)
  BY <1>3 DEF WithSnap, WithHandle
<1>6. p.v = v /\ p.s = a.s /\ p.found = block  BY <1>3
<1>7. PICK S : pushed \in Seq(S)  BY DEF IInv, Listed
<1>. HIDE DEF p, w, h
<1>8. /\ q \in Seq(S \union {p}) /\ Len(q) = n + 1 /\ q[n + 1] = p
      /\ \A i \in 1 .. n : q[i] = pushed[i]
  <2>1. pushed \in Seq(S \union {p}) /\ p \in S \union {p}  BY <1>7
  <2>. QED  BY <2>1, AppendProperties
<1>. HIDE DEF a, q
<1>9. /\ Pure(block') /\ block'.stack = TopOf(kind, n + 1)
      /\ Over(block, block') /\ Rests(kind, block', n, p)
  <2>. HIDE DEF n
  <2>1. a = Archive(block, v, n)  BY DEF a
  <2>. QED  BY <1>1, <1>2, <1>4, <1>5, <1>6, <2>1, PushRests
<1>10. Shaped(block) /\ Shaped(block')  BY <1>1, <1>9 DEF Pure, Good
<1>11. ASSUME NEW i \in 1 .. n + 1
       PROVE  Over(q[i].found, block') /\ Rests(kind, block', i - 1, q[i])
  <2>1. CASE i = n + 1
    <3>1. q[i] = p /\ i - 1 = n  BY <1>1, <1>8, <2>1
    <3>. QED  BY <1>6, <1>9, <3>1
  <2>2. CASE i # n + 1
    <3>1. i \in 1 .. n /\ i - 1 \in Nat /\ i - 1 < n  BY <1>1, <2>2
    <3>2. q[i] = pushed[i]  BY <1>8, <3>1
    <3>3. /\ Pure(pushed[i].found) /\ Over(pushed[i].found, block)
          /\ Rests(kind, block, i - 1, pushed[i])
      BY <3>1, FoundIs
    <3>4. Over(pushed[i].found, block')
      <4>1. Shaped(pushed[i].found)  BY <3>3 DEF Pure, Good
      <4>. QED  BY <1>9, <1>10, <3>3, <4>1, OverOn
    <3>5. Rests(kind, block', i - 1, pushed[i])
      <4>. HIDE DEF n
      <4>. QED  BY <1>1, <1>2, <1>9, <1>10, <3>1, <3>3, RestsOver
    <3>. QED  BY <3>2, <3>4, <3>5
  <2>. QED  BY <2>1, <2>2
<1>12. Built(kind, block', n + 1, q)  BY <1>9, <1>11 DEF Built
<1>13. ASSUME NEW j \in 1 .. n + 2
       PROVE  Built(kind, IF j = n + 2 THEN block' ELSE q[j].found, j - 1, q)
  <2>1. CASE j = n + 2  BY <1>1, <1>12, <2>1
  <2>2. CASE j = n + 1
    <3>1. q[j].found = block /\ j - 1 = n /\ j # n + 2  BY <1>1, <1>6, <1>8, <2>2
    <3>2. Built(kind, block, n, q)  BY <1>1, <1>8, BuiltSame
    <3>. QED  BY <3>1, <3>2
  <2>3. CASE j # n + 1 /\ j # n + 2
    <3>1. j \in 1 .. n /\ j - 1 \in Nat /\ 1 .. j - 1 \subseteq 1 .. n  BY <1>1, <2>3
    <3>2. q[j] = pushed[j]  BY <1>8, <3>1
    <3>3. Built(kind, pushed[j].found, j - 1, pushed)  BY <3>1, FoundIs
    <3>4. Built(kind, pushed[j].found, j - 1, q)  BY <1>8, <3>1, <3>3, BuiltSame
    <3>. QED  BY <2>3, <3>2, <3>4
  <2>. QED  BY <2>1, <2>2, <2>3
<1>14. Chain'
  <2>1. Len(q) + 1 = n + 2  BY <1>1, <1>8
  <2>. QED  BY <1>4, <1>13, <2>1 DEF Chain, BlockAt
<1>15. Listed(pushed)'  BY <1>4, <1>8 DEF Listed
<1>. QED  BY <1>2, <1>4, <1>14, <1>15 DEF IInv

\* A pop leaves what the last push found.
LEMMA PopGives ==
    ASSUME IInv, Pop
    PROVE  Len(pushed) \in Nat \ {0} /\ block' = pushed[Len(pushed)].found
<1>. DEFINE n == Len(pushed)
            f == pushed[n].found
<1>1. n \in Nat /\ Pure(block) /\ block.stack = TopOf(kind, n)  BY BlockIs
<1>2. kind \in Kinds  BY DEF IInv
<1>3. n > 0
  <2>1. block.stack > 0  BY DEF Pop
  <2>2. n = 0 => block.stack = 0  BY <1>1 DEF TopOf
  <2>. HIDE DEF n
  <2>. QED  BY <1>1, <2>1, <2>2
<1>4. LastSnap = SnapOf(kind, n - 1) /\ LastStart = TopOf(kind, n - 1)
  <2>. HIDE DEF n
  <2>. QED  BY <1>1, <1>2, <1>3, LastIs
<1>5. /\ Pure(f) /\ f.stack = TopOf(kind, n - 1) /\ Over(f, block)
      /\ Rests(kind, block, n - 1, pushed[n])
  <2>1. n \in 1 .. n  BY <1>1, <1>3
  <2>. QED  BY <2>1, FoundIs
<1>6. SnapByte(LastSnap) = f.heap
  <2>. DEFINE x == SnapOf(kind, n - 1)
  <2>1. x \in Nat
    <3>1. n - 1 \in Nat  BY <1>1, <1>3
    <3>. HIDE DEF n
    <3>. QED  BY <1>2, <3>1, UnitIs
  <2>2. x \in x .. x + SNAP - 1
    <3>. HIDE DEF x
    <3>. QED  BY <2>1 DEF SNAP
  <2>3. block.mem[x] = <<f.heap>>  BY <1>5, <2>2 DEF Rests
  <2>. HIDE DEF x, f
  <2>4. SnapByte(x) = f.heap  BY <2>3 DEF SnapByte
  <2>. QED  BY <1>4, <2>4 DEF x
<1>7. f.stack < block.stack
  <2>1. n - 1 \in Nat /\ n - 1 < n  BY <1>1, <1>3
  <2>. HIDE DEF n
  <2>2. TopOf(kind, n - 1) < TopOf(kind, n)  BY <1>1, <1>2, <2>1, TopsRise
  <2>. QED  BY <1>1, <1>5, <2>2
<1>. DEFINE cut == StackShrink(block, f.stack)
<1>8. block' = PopHeap(cut, cut.heap - f.heap)
  BY <1>4, <1>5, <1>6 DEF Pop
<1>9. cut.heap = block.heap
  <2>1. f.stack \in Nat  BY <1>5 DEF Pure, Good, Shaped
  <2>. HIDE DEF f
  <2>. QED  BY <1>1, <1>7, <2>1, ShrinkPure
<1>10. PopHeap(cut, block.heap - f.heap) = f  BY <1>1, <1>5, <1>7, PopBack
<1>11. block' = f
  <2>. HIDE DEF cut, f
  <2>. QED  BY <1>8, <1>9, <1>10
<1>. QED  BY <1>1, <1>3, <1>11

LEMMA PopIInv ==
    ASSUME IInv, Pop
    PROVE  IInv'
<1>. DEFINE n == Len(pushed)
            q == SubSeq(pushed, 1, n - 1)
<1>1. n \in Nat /\ n # 0 /\ block' = pushed[n].found  BY PopGives
<1>2. pushed' = q /\ kind' = kind /\ kind \in Kinds  BY DEF Pop, IInv
<1>3. PICK S : pushed \in Seq(S)  BY DEF IInv, Listed
<1>4. /\ q \in Seq(S) /\ Len(q) = n - 1
      /\ \A i \in 1 .. n - 1 : q[i] = pushed[i]
  <2>. HIDE DEF n
  <2>1. n - 1 \in 0 .. n  BY <1>1
  <2>2. n - 1 \in 0 .. Len(pushed)  BY <2>1 DEF n
  <2>. DEFINE i == n - 1
  <2>. HIDE DEF i
  <2>3. i \in 0 .. Len(pushed)  BY <2>2 DEF i
  <2>4. /\ SubSeq(pushed, 1, i) \in Seq(S) /\ Len(SubSeq(pushed, 1, i)) = i
        /\ \A j \in 1 .. i : SubSeq(pushed, 1, i)[j] = pushed[j]
    BY <1>3, <2>3, PrefixIs
  <2>. QED  BY <2>4 DEF i
<1>. HIDE DEF q
<1>5. ASSUME NEW j \in 1 .. n
      PROVE  Built(kind, IF j = n THEN block' ELSE q[j].found, j - 1, q)
  <2>1. Built(kind, pushed[j].found, j - 1, pushed)  BY FoundIs
  <2>2. j - 1 \in Nat /\ 1 .. j - 1 \subseteq 1 .. n - 1  BY <1>1
  <2>3. Built(kind, pushed[j].found, j - 1, q)  BY <1>4, <2>1, <2>2, BuiltSame
  <2>4. CASE j = n  BY <1>1, <2>3, <2>4
  <2>5. CASE j # n
    <3>1. j \in 1 .. n - 1
      <4>. HIDE DEF n
      <4>. QED  BY <1>1, <2>5
    <3>. QED  BY <1>4, <2>3, <2>5, <3>1
  <2>. QED  BY <2>4, <2>5
<1>6. Chain'
  <2>1. Len(q) + 1 = n  BY <1>1, <1>4
  <2>. QED  BY <1>2, <1>5, <2>1 DEF Chain, BlockAt
<1>7. Listed(pushed)'  BY <1>2, <1>4 DEF Listed
<1>. QED  BY <1>2, <1>6, <1>7 DEF IInv

LEMMA NextIInv == IInv /\ [StackNext]_stackVars => IInv'
<1>. SUFFICES ASSUME IInv, [StackNext]_stackVars PROVE IInv'  OBVIOUS
<1>1. Pure(block) /\ kind \in Kinds  BY BlockIs DEF IInv
<1>2. ASSUME block' = block, kind' = kind, pushed' = pushed PROVE IInv'
  BY <1>2 DEF IInv, Chain, Listed, BlockAt
<1>3. ASSUME NEW v \in kind.values, PushOk(v) PROVE IInv'  BY <1>3, PushIInv
<1>4. ASSUME NEW v \in kind.values, PushErr(v) PROVE IInv'
  <2>1. block' = block  BY <1>1, <1>4, RefusedLeaves
  <2>2. kind' = kind /\ pushed' = pushed
    BY <1>4 DEF PushErr, ArchiveFails, SnapFails, HandleFails
  <2>. QED  BY <1>2, <2>1, <2>2
<1>5. CASE Pop  BY <1>5, PopIInv
<1>6. CASE StackReload
  <2>1. block' = block /\ kind' = kind /\ pushed' = pushed  BY <1>1, <1>6, ReloadPure DEF StackReload
  <2>. QED  BY <1>2, <2>1
<1>7. CASE UNCHANGED stackVars  BY <1>2, <1>7 DEF stackVars
<1>. QED  BY <1>3, <1>4, <1>5, <1>6, <1>7 DEF StackNext

LEMMA SpecIInv == StackSpec => []IInv
<1>. QED  BY InitIInv, NextIInv, PTL DEF StackSpec

-----------------------------------------------------------------------------
(* What a stack promises.                                                  *)

LEMMA IInvReads == IInv => ItemsReadBack
<1>. SUFFICES ASSUME IInv PROVE ItemsReadBack  OBVIOUS
<1>. DEFINE n == Len(pushed)
<1>1. n \in Nat /\ Pure(block) /\ block.stack = TopOf(kind, n) /\ Units = n  BY BlockIs
<1>2. kind \in Kinds  BY DEF IInv
<1>. HIDE DEF n
<1>3. /\ \A i \in Nat : SnapAt(i) = SnapOf(kind, i) /\ HandleAt(i) = HandleOf(kind, i)
      /\ n > 0 => LastSnap = SnapOf(kind, n - 1) /\ LastHandle = HandleOf(kind, n - 1)
  BY <1>1, <1>2, LastIs
<1>4. Units > 0 => LastSnap = SnapAt(Units - 1) /\ LastHandle = HandleAt(Units - 1)
  <2>1. n > 0 => n - 1 \in Nat  BY <1>1
  <2>. QED  BY <1>1, <1>3, <2>1
<1>5. ASSUME NEW i \in 1 .. n, NEW p, p = pushed[i]
      PROVE  /\ Reads(SnapAt(i - 1), SNAP, <<p.found.heap>>)
             /\ Reads(HandleAt(i - 1), kind.size, <<p.s>>)
             /\ RegionReads(p.v.own, p.s.own, <<i - 1>>)
             /\ \A k \in 1 .. Len(p.v.kids) : RegionReads(p.v.kids[k], p.s.kids[k], <<i - 1>>)
  <2>1. Rests(kind, block, i - 1, p)  BY <1>5, FoundIs DEF n
  <2>2. i - 1 \in Nat  BY <1>1
  <2>. DEFINE x == i - 1
  <2>. HIDE DEF x
  <2>3. SnapAt(x) = SnapOf(kind, x) /\ HandleAt(x) = HandleOf(kind, x)  BY <1>3, <2>2 DEF x
  <2>4. Rests(kind, block, x, p)  BY <2>1 DEF x
  <2>5. Reads(SnapAt(x), SNAP, <<p.found.heap>>) /\ Reads(HandleAt(x), kind.size, <<p.s>>)
    BY <2>3, <2>4 DEF Rests, Reads
  <2>6. ASSUME NEW j \in Places(p.s)
        PROVE  RegionReads(NeedAt(p.v, j), RegionAt(p.s, j), <<x>>)
    <3>. DEFINE r == RegionAt(p.s, j)
                need == NeedAt(p.v, j)
                m == need.size
                u == r.off
                c == block.cap
    <3>1. /\ u \in Nat /\ m \in Nat /\ \A o \in u - m + 1 .. u : At(block, o) = <<x>>
          /\ m = 0 \/ (NODE <= u - m /\ u <= NODE + block.heap)
      BY <2>4 DEF Rests
    <3>2. c \in Nat /\ block.stack \in Nat /\ block.heap \in Nat  BY <1>1 DEF Pure, Good, Shaped
    <3>. HIDE DEF m, u, c
    <3>3. ASSUME NEW y \in c - u .. c - u + m - 1 PROVE block.mem[y] = <<x>>
      <4>. DEFINE o == c - y
      <4>1. o \in u - m + 1 .. u /\ c - o = y  BY <3>1, <3>2
      <4>. HIDE DEF o
      <4>2. At(block, o) = <<x>>  BY <3>1, <4>1
      <4>. QED  BY <4>1, <4>2 DEF At, c
    <3>4. Addr(block, r) = c - u  BY DEF Addr, c, u
    <3>5. Reads(Addr(block, r), m, <<x>>)  BY <3>3, <3>4 DEF Reads
    <3>. QED  BY <3>5 DEF RegionReads, m
  <2>7. Len(p.s.kids) = Len(p.v.kids) /\ p.v \in Needs  BY <2>4 DEF Rests
  <2>8. Len(p.v.kids) \in Nat  BY <2>7, NeedIs
  <2>9. RegionReads(p.v.own, p.s.own, <<x>>)
    <3>1. 0 \in Places(p.s)  BY <2>7, <2>8 DEF Places
    <3>2. RegionReads(NeedAt(p.v, 0), RegionAt(p.s, 0), <<x>>)  BY <2>6, <3>1
    <3>. QED  BY <3>2 DEF NeedAt, RegionAt
  <2>10. ASSUME NEW k \in 1 .. Len(p.v.kids)
         PROVE  RegionReads(p.v.kids[k], p.s.kids[k], <<x>>)
    <3>1. k \in Places(p.s) /\ k # 0  BY <2>7, <2>8 DEF Places
    <3>2. RegionReads(NeedAt(p.v, k), RegionAt(p.s, k), <<x>>)  BY <2>6, <3>1
    <3>. QED  BY <3>1, <3>2 DEF NeedAt, RegionAt
  <2>. QED  BY <2>5, <2>9, <2>10 DEF x
<1>. QED  BY <1>4, <1>5 DEF ItemsReadBack, n

\* ItemsStayReadable: in every state the walk of items() finds each stored unit
\* where its push put it, the last one from the stack length alone, and the
\* regions that its handle names hold the value still (stack.rs:97-118, 180-252).
THEOREM ItemsStayReadable == StackSpec => []ItemsReadBack
<1>. QED  BY SpecIInv, IInvReads, PTL

\* PopIsExact: a pop leaves the block byte for byte as the push of the popped
\* value found it (stack.rs:166-179).
THEOREM PopIsExact == StackSpec => PopErases
<1>1. IInv /\ [StackNext]_stackVars => [Pop => block' = pushed[Len(pushed)].found]_stackVars
  BY PopGives
<1>. QED  BY <1>1, SpecIInv, PTL DEF StackSpec, PopErases

\* RefusedPushLeaves: a push that runs out of space, for the value, for the snap
\* or for the handle, leaves the block byte for byte as it was
\* (stack.rs:121-125).
THEOREM RefusedPushLeaves == StackSpec => ErrLeaves
<1>1. IInv /\ [StackNext]_stackVars => [(\E v \in kind.values : PushErr(v)) => block' = block]_stackVars
  <2>. SUFFICES ASSUME IInv, NEW v \in kind.values, PushErr(v) PROVE block' = block  OBVIOUS
  <2>1. Pure(block) /\ kind \in Kinds  BY BlockIs DEF IInv
  <2>. QED  BY <2>1, RefusedLeaves
<1>. QED  BY <1>1, SpecIInv, PTL DEF StackSpec, ErrLeaves

\* ReloadIsExact: a stack that is saved and loaded is, byte for byte, the one
\* that was saved.
THEOREM ReloadIsExact == StackSpec => LoadExact
<1>1. IInv /\ [StackNext]_stackVars => [StackReload => block' = block]_stackVars
  <2>. SUFFICES ASSUME IInv, StackReload PROVE block' = block  OBVIOUS
  <2>1. Pure(block)  BY BlockIs
  <2>. QED  BY <2>1, ReloadPure DEF StackReload
<1>. QED  BY <1>1, SpecIInv, PTL DEF StackSpec, LoadExact
=============================================================================
