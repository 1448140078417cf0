--------------------------- MODULE BlockOpsProofs ---------------------------
(***************************************************************************)
(* What the operations on one block keep: the freelist stays in order and  *)
(* threaded through the bytes, and every region they do not free keeps its *)
(* bytes and stays clear of the holes.  Bytes are named by their offset    *)
(* from the end of the block, as handles are.                              *)
(***************************************************************************)
EXTENDS BlockOps, ListLemmas

Region == [off : Nat, len : Nat]

\* r lies wholly between s and the end of the block
Above(r, s) == r.off <= s.off - s.len

Apart(r, s) == Above(r, s) \/ Above(s, r)

\* holes that hold a node, none over the freelist head or over another
Separate(hs) ==
    /\ \A i \in 1 .. Len(hs) : hs[i].len >= NODE /\ NODE <= hs[i].off - hs[i].len
    /\ \A i, j \in 1 .. Len(hs) : i # j => Apart(hs[i], hs[j])

Within(hs, limit) == \A i \in 1 .. Len(hs) : hs[i].off <= limit

At(b, o) == b.mem[b.cap - o]

NextOff(hs, i) == IF i < Len(hs) THEN hs[i + 1].off ELSE 0

\* the end of a region that is nearest the end of the block
Foot(r) == r.off - r.len

\* every hole of w ends where one of hs does, or a region of R
Feet(w, hs, R) ==
    \A j \in 1 .. Len(w) : \/ \E i \in 1 .. Len(hs) : Foot(w[j]) = Foot(hs[i])
                           \/ \E r \in R : r.len # 0 /\ Foot(w[j]) = Foot(r)

\* the bytes hold the list of holes
Threaded(b) ==
    /\ At(b, NODE) = IF Len(b.holes) > 0 THEN <<0, b.holes[1].off>> ELSE <<>>
    /\ \A i \in 1 .. Len(b.holes) :
          At(b, b.holes[i].off) = <<b.holes[i].len, NextOff(b.holes, i)>>

Shaped(b) ==
    /\ DOMAIN b = {"cap", "stack", "heap", "holes", "mem"}
    /\ b.cap \in Nat /\ b.cap % MAX_ALIGN = 0 /\ DOMAIN b.mem = 0 .. b.cap - 1
    /\ b.stack \in Nat /\ b.heap \in Nat /\ b.stack + b.heap + NODE <= b.cap

Good(b) ==
    /\ Shaped(b) /\ b.holes \in Seq(Region)
    /\ Separate(b.holes) /\ Within(b.holes, NODE + b.heap) /\ Threaded(b)

AllApart(r, hs) == \A i \in 1 .. Len(hs) : Apart(r, hs[i])

InHeap(b, r) == r.len >= NODE /\ NODE <= r.off - r.len /\ r.off <= NODE + b.heap

\* a region of the heap, of which no byte is in a hole
Clear(b, r) == r = NoRegion \/ (InHeap(b, r) /\ AllApart(r, b.holes))

Same(b, c, r) == \A o \in r.off - r.len + 1 .. r.off : At(c, o) = At(b, o)

\* the byte o of a block is in r, or in one of the holes
Has(r, o) == r.off - r.len < o /\ o <= r.off
InHoles(hs, o) == \E i \in 1 .. Len(hs) : Has(hs[i], o)

\* the freelist is written in it: the head, or the node at the front of a hole
HasNode(h, o) == h.off - NODE < o /\ o <= h.off
Marked(b, o) ==
    (b.holes # <<>> /\ o <= NODE) \/ \E i \in 1 .. Len(b.holes) : HasNode(b.holes[i], o)

\* no byte outside the holes of c is another than it was in b
OutsideSame(b, c) == \A o \in NODE + 1 .. b.cap : ~InHoles(c.holes, o) => At(c, o) = At(b, o)

\* it is written, and not by the freelist
Stray(b, o) == o \in 1 .. b.cap /\ At(b, o) # <<>> /\ ~Marked(b, o)

\* c has no such byte that b has not
Tidy(b, c) == \A o : Stray(c, o) => Stray(b, o) /\ At(c, o) = At(b, o)

\* what c has more are bytes of x below its stack front
Stacked(b, c, x) ==
    /\ b.stack <= c.stack
    /\ \A o : Stray(c, o) => \/ Stray(b, o) /\ At(c, o) = At(b, o)
                             \/ At(c, o) = <<x>> /\ b.cap - o < c.stack

\* the holes lie below lim, and each region of R below it or above
Settled(hs, R, lim) ==
    Within(hs, lim) /\ \A r \in R : r.off <= lim \/ lim <= Foot(r)

\* no hole reaches less than a node below floor
Edged(hs, floor) ==
    \A i \in 1 .. Len(hs) : floor <= Foot(hs[i]) \/ Foot(hs[i]) + NODE <= floor

\* the regions of a stored value, its own and its children's
Places(s) == 0 .. Len(s.kids)
RegionAt(s, k) == IF k = 0 THEN s.own ELSE s.kids[k]
NeedAt(v, k) == IF k = 0 THEN v.own ELSE v.kids[k]

Owns(s) == {RegionAt(s, k) : k \in Places(s)}

\* no part of the value asks to be aligned to more than a node
Modest(v) == \A k \in Places(v) : NeedAt(v, k).align <= NODE

Away(r, s) == \A k \in Places(s) : Apart(r, RegionAt(s, k))

Owned(b, s) ==
    /\ s.own \in Region /\ s.kids \in Seq(Region)
    /\ \A j \in Places(s) : Clear(b, RegionAt(s, j))
    /\ \A j, k \in Places(s) : j # k => Apart(RegionAt(s, j), RegionAt(s, k))

\* the byte o is one of those that v asks for, stored at s
Paid(v, s, o) ==
    \E k \in Places(s) :
       o \in RegionAt(s, k).off - NeedAt(v, k).size + 1 .. RegionAt(s, k).off

\* the regions are filled with x as the value v asks
Filled(b, v, s, x) ==
    \A k \in Places(s) :
       LET r == RegionAt(s, k)
           n == NeedAt(v, k).size
       IN  n <= r.len /\ \A o \in r.off - n + 1 .. r.off : At(b, o) = <<x>>

-----------------------------------------------------------------------------
(* Folds.  The prover has no lemmas with an operator as a parameter, so    *)
(* the four folds of BlockOps are instances of one.                        *)

Folded(kind, p, x, y) ==
    IF kind = "join" THEN Join(x, y)
    ELSE IF kind = "clip" THEN x \o Clip(y, p)
    ELSE IF kind = "free" THEN Free(x, y)
    ELSE ArchiveKid(x, y, p.tag, p.heap)

\* the function that the library's fold defines by recursion on sets of places
Folding(f, T, kind, p, base, s) ==
    f = [S \in SUBSET T |->
            IF S = {} THEN base ELSE Folded(kind, p, f[S \ {Max(S)}], s[Max(S)])]

\* the values of the fold after each item
Steps(m, kind, p, base, s) ==
    m[0] = base /\ \A k \in 1 .. Len(s) : m[k] = Folded(kind, p, m[k - 1], s[k])

\* There is such a function.
LEMMA FoldingExists ==
    ASSUME NEW n \in Nat, NEW kind, NEW p, NEW base, NEW s
    PROVE  \E f : Folding(f, 1 .. n, kind, p, base, s)
<1>. DEFINE K == {k \in Nat : \E f : Folding(f, 1 .. k, kind, p, base, s)}
            op(x, y) == Folded(kind, p, x, y)
<1>1. 0 \in K
  <2>. DEFINE f == [S \in SUBSET (1 .. 0) |-> base]
  <2>1. \A S \in SUBSET (1 .. 0) : S = {}  OBVIOUS
  <2>2. Folding(f, 1 .. 0, kind, p, base, s)  BY <2>1 DEF Folding
  <2>. QED  BY <2>2
<1>2. ASSUME NEW k \in 0 + 1 .. n, k - 1 \in K PROVE k \in K
  <2>1. PICK g : Folding(g, 1 .. k - 1, kind, p, base, s)  BY <1>2
  <2>. DEFINE f == [S \in SUBSET (1 .. k) |->
                      IF k \in S THEN op(g[S \ {k}], s[k]) ELSE g[S]]
  <2>2. ASSUME NEW S \in SUBSET (1 .. k)
        PROVE  f[S] = IF S = {} THEN base ELSE op(f[S \ {Max(S)}], s[Max(S)])
    <3>1. CASE k \in S
      <4>1. Max(S) = k  BY <3>1, MaxOf
      <4>2. /\ S \ {k} \in SUBSET (1 .. k - 1) /\ S \ {k} \in SUBSET (1 .. k)
            /\ k \notin S \ {k}
        OBVIOUS
      <4>3. f[S \ {k}] = g[S \ {k}]  BY <4>2
      <4>. QED  BY <3>1, <4>1, <4>3
    <3>2. CASE k \notin S
      <4>1. S \in SUBSET (1 .. k - 1)  BY <3>2
      <4>2. f[S] = g[S]  BY <3>2
      <4>3. CASE S = {}  BY <2>1, <4>1, <4>2, <4>3 DEF Folding
      <4>4. CASE S # {}
        <5>1. Max(S) \in S  BY <4>4, MaxIn
        <5>2. k \notin S \ {Max(S)} /\ S \ {Max(S)} \in SUBSET (1 .. k)  BY <3>2
        <5>3. f[S \ {Max(S)}] = g[S \ {Max(S)}]  BY <5>2
        <5>4. g[S] = op(g[S \ {Max(S)}], s[Max(S)])  BY <2>1, <4>1, <4>4 DEF Folding
        <5>. QED  BY <4>2, <4>4, <5>3, <5>4
      <4>. QED  BY <4>3, <4>4
    <3>. QED  BY <3>1, <3>2
  <2>3. f = [S \in SUBSET (1 .. k) |-> f[S]]  OBVIOUS
  <2>4. Folding(f, 1 .. k, kind, p, base, s)
    <3>. HIDE DEF f
    <3>. QED  BY <2>2, <2>3 DEF Folding
  <2>. HIDE DEF f
  <2>. QED  BY <2>4
<1>. HIDE DEF K
<1>3. 0 .. n \subseteq K  BY <1>1, <1>2, Upwards
<1>4. n \in K  BY <1>3
<1>. QED  BY <1>4 DEF K

LEMMA FoldingOfList ==
    ASSUME NEW T, NEW s \in Seq(T), NEW kind, NEW p, NEW base
    PROVE  \E f : Folding(f, DOMAIN s, kind, p, base, s)
<1>. DEFINE n == Len(s)
<1>1. n \in Nat /\ DOMAIN s = 1 .. n  BY LenProperties
<1>. HIDE DEF n
<1>. QED  BY <1>1, FoldingExists

\* Any such function passes through the items in order.
LEMMA FoldingSteps ==
    ASSUME NEW T, NEW s \in Seq(T), NEW kind, NEW p, NEW base, NEW f,
           Folding(f, DOMAIN s, kind, p, base, s)
    PROVE  \E m : Steps(m, kind, p, base, s) /\ f[DOMAIN s] = m[Len(s)]
<1>. DEFINE n == Len(s)
            m == [k \in 0 .. n |-> f[1 .. k]]
<1>1. n \in Nat /\ DOMAIN s = 1 .. n  BY LenProperties
<1>2. Folding(f, 1 .. n, kind, p, base, s)  BY <1>1
<1>. HIDE DEF n
<1>3. m[0] = base /\ f[DOMAIN s] = m[n]
  <2>1. 1 .. 0 = {} /\ 0 \in 0 .. n /\ n \in 0 .. n  BY <1>1
  <2>. QED  BY <1>1, <1>2, <2>1 DEF Folding
<1>4. ASSUME NEW k \in 1 .. n PROVE m[k] = Folded(kind, p, m[k - 1], s[k])
  <2>1. k \in Nat /\ k >= 1 /\ 1 .. k \in SUBSET (1 .. n) /\ k - 1 \in 0 .. n /\ k \in 0 .. n
    BY <1>1
  <2>2. k \in 1 .. k /\ 1 .. k # {} /\ (1 .. k) \ {k} = 1 .. k - 1  BY <2>1, UpToIs
  <2>3. Max(1 .. k) = k  BY <2>1, <2>2, MaxOf
  <2>4. f[1 .. k] = Folded(kind, p, f[1 .. k - 1], s[k])
    BY <1>2, <2>1, <2>2, <2>3 DEF Folding
  <2>. QED  BY <2>1, <2>4
<1>. HIDE DEF m
<1>. QED  BY <1>3, <1>4 DEF Steps, n

\* The folds of Join and of Free; those of PopHeap and Archive, whose operators
\* have parameters of their own, are unfolded where they are used.
LEMMA JoinSteps ==
    ASSUME NEW T, NEW s \in Seq(T)
    PROVE  \E m : Steps(m, "join", 0, <<>>, s) /\ FoldLeft(Join, <<>>, s) = m[Len(s)]
<1>. DEFINE is(f) == f = [S \in SUBSET DOMAIN s |->
                            IF S = {} THEN <<>> ELSE Join(f[S \ {Max(S)}], s[Max(S)])]
<1>1. \A x, y : Folded("join", 0, x, y) = Join(x, y)  BY DEF Folded
<1>2. \A f : is(f) <=> Folding(f, DOMAIN s, "join", 0, <<>>, s)  BY <1>1 DEF Folding
<1>3. \E f : is(f)
  <2>. HIDE DEF is
  <2>. QED  BY <1>2, FoldingOfList
<1>4. PICK f : is(f) /\ FoldLeft(Join, <<>>, s) = f[DOMAIN s]
  BY <1>3 DEF FoldLeft, MapThenFoldSet
<1>. HIDE DEF is
<1>. QED  BY <1>2, <1>4, FoldingSteps

LEMMA FreeSteps ==
    ASSUME NEW T, NEW s \in Seq(T), NEW b
    PROVE  \E m : Steps(m, "free", 0, b, s) /\ FoldLeft(Free, b, s) = m[Len(s)]
<1>. DEFINE is(f) == f = [S \in SUBSET DOMAIN s |->
                            IF S = {} THEN b ELSE Free(f[S \ {Max(S)}], s[Max(S)])]
<1>1. \A x, y : Folded("free", 0, x, y) = Free(x, y)  BY DEF Folded
<1>2. \A f : is(f) <=> Folding(f, DOMAIN s, "free", 0, b, s)  BY <1>1 DEF Folding
<1>3. \E f : is(f)
  <2>. HIDE DEF is
  <2>. QED  BY <1>2, FoldingOfList
<1>4. PICK f : is(f) /\ FoldLeft(Free, b, s) = f[DOMAIN s]
  BY <1>3 DEF FoldLeft, MapThenFoldSet
<1>. HIDE DEF is
<1>. QED  BY <1>2, <1>4, FoldingSteps

-----------------------------------------------------------------------------
(* Lists of holes.                                                         *)

LEMMA HoleIs ==
    ASSUME NEW hs \in Seq(Region)
    PROVE  /\ Len(hs) \in Nat
           /\ \A i \in 1 .. Len(hs) : hs[i] \in Region /\ hs[i].off \in Nat /\ hs[i].len \in Nat
<1>1. Len(hs) \in Nat /\ \A i \in 1 .. Len(hs) : hs[i] \in Region
  BY LenProperties, ElementOfSeq
<1>2. \A h \in Region : h.off \in Nat /\ h.len \in Nat  BY DEF Region
<1>. QED  BY <1>1, <1>2

\* What is apart from two holes less than a node apart is apart from their join.
LEMMA BridgeIs ==
    ASSUME NEW r \in Region, NEW g \in Region, NEW h \in Region, NEW e \in Region,
           r.len >= NODE, Apart(r, g), Apart(r, h),
           h.off - h.len - g.off \in 0 .. NODE - 1,
           e.off = h.off, e.off - e.len = g.off - g.len
    PROVE  Apart(r, e)
<1>1. \A x \in Region : x.off \in Nat /\ x.len \in Nat  BY DEF Region
<1>2. /\ r.off <= g.off - g.len \/ g.off <= r.off - r.len
      /\ r.off <= h.off - h.len \/ h.off <= r.off - r.len
  BY DEF Apart, Above
<1>3. r.off <= g.off - g.len \/ h.off <= r.off - r.len  BY <1>1, <1>2 DEF NODE
<1>. QED  BY <1>3 DEF Apart, Above

\* Join puts a hole on the end of a list, or makes the last one reach to it.
LEMMA JoinIs ==
    ASSUME NEW m \in Seq(Region), Separate(m), NEW limit \in Nat, Within(m, limit),
           NEW h \in Region, h.len >= NODE, NODE <= h.off - h.len, h.off <= limit,
           AllApart(h, m)
    PROVE  LET w == Join(m, h)
           IN  /\ w \in Seq(Region) /\ Separate(w) /\ Within(w, limit)
               /\ \A r \in Region :
                     r.len >= NODE /\ Apart(r, h) /\ AllApart(r, m) => AllApart(r, w)
               /\ Feet(w, m, {h})
<1>. DEFINE n == Len(m)
            gap == h.off - h.len - m[n].off
            w == Join(m, h)
            e == [off |-> h.off, len |-> m[n].len + h.len + gap]
<1>1. /\ n \in Nat /\ h.off \in Nat /\ h.len \in Nat
      /\ \A i \in 1 .. n : m[i] \in Region /\ m[i].off \in Nat /\ m[i].len \in Nat
  BY HoleIs DEF Region
<1>2. CASE n > 0 /\ gap \in 0 .. NODE - 1
  <2>0. n \in 1 .. n  BY <1>1, <1>2
  <2>1. /\ e \in Region /\ e.off = h.off /\ e.len >= h.len
        /\ e.off - e.len = m[n].off - m[n].len
    BY <1>1, <1>2, <2>0 DEF Region
  <2>2. w = [m EXCEPT ![n] = e]  BY <1>2 DEF Join
  <2>3. e.len >= NODE /\ NODE <= e.off - e.len
    <3>1. NODE <= m[n].off - m[n].len  BY <2>0 DEF Separate
    <3>2. e.len \in Nat  BY <2>1 DEF Region
    <3>. QED  BY <1>1, <2>1, <3>1, <3>2 DEF NODE
  <2>4. \A r \in Region : r.len >= NODE /\ Apart(r, h) /\ Apart(r, m[n]) => Apart(r, e)
    <3>1. h.off - h.len - m[n].off \in 0 .. NODE - 1  BY <1>2
    <3>2. m[n] \in Region  BY <1>1, <2>0
    <3>. HIDE DEF e, n
    <3>. QED  BY <2>1, <3>1, <3>2, BridgeIs
  <2>. HIDE DEF e, w, gap
  <2>5. /\ w \in Seq(Region) /\ Len(w) = n /\ w[n] = e
        /\ \A i \in 1 .. n : i # n => w[i] = m[i]
    BY <2>0, <2>1, <2>2, ExceptSeq
  <2>6. \A i \in 1 .. n : w[i].len >= NODE /\ NODE <= w[i].off - w[i].len
    BY <2>3, <2>5 DEF Separate
  <2>7. \A i \in 1 .. n : i # n => Apart(m[i], e)
    BY <1>1, <2>0, <2>4 DEF Separate, AllApart, Apart
  <2>8. \A i, j \in 1 .. n : i # j => Apart(w[i], w[j])
    BY <2>5, <2>7 DEF Separate, Apart
  <2>9. \A r \in Region : r.len >= NODE /\ Apart(r, h) /\ AllApart(r, m) => AllApart(r, w)
    BY <2>0, <2>4, <2>5 DEF AllApart
  <2>10. Separate(w) /\ Within(w, limit)  BY <2>1, <2>5, <2>6, <2>8 DEF Separate, Within
  <2>11. Feet(w, m, {h})
    <3>1. Foot(w[n]) = Foot(m[n])  BY <2>1, <2>5 DEF Foot
    <3>. QED  BY <2>0, <2>5, <3>1 DEF Feet
  <2>. QED  BY <2>5, <2>9, <2>10, <2>11 DEF w
<1>3. CASE ~(n > 0 /\ gap \in 0 .. NODE - 1)
  <2>1. w = Append(m, h)  BY <1>3 DEF Join
  <2>. HIDE DEF w, gap
  <2>2. /\ w \in Seq(Region) /\ Len(w) = n + 1 /\ w[n + 1] = h
        /\ \A i \in 1 .. n : w[i] = m[i]
    BY <2>1, AppendProperties
  <2>3. \A i \in 1 .. n + 1 : i = n + 1 \/ i \in 1 .. n  BY <1>1
  <2>4. \A i \in 1 .. n + 1 : w[i].len >= NODE /\ NODE <= w[i].off - w[i].len
    BY <2>2, <2>3 DEF Separate
  <2>5. \A i, j \in 1 .. n + 1 : i # j => Apart(w[i], w[j])
    BY <2>2, <2>3 DEF Separate, AllApart, Apart
  <2>6. \A r \in Region : r.len >= NODE /\ Apart(r, h) /\ AllApart(r, m) => AllApart(r, w)
    BY <2>2, <2>3 DEF AllApart
  <2>7. Separate(w) /\ Within(w, limit)  BY <2>2, <2>3, <2>4, <2>5 DEF Separate, Within
  <2>8. h.len # 0  BY <1>1 DEF NODE
  <2>9. Feet(w, m, {h})  BY <2>2, <2>3, <2>8 DEF Feet
  <2>. QED  BY <2>2, <2>6, <2>7, <2>9 DEF w
<1>. QED  BY <1>2, <1>3

-----------------------------------------------------------------------------
(* The bytes of the freelist.                                              *)

\* sync_holes writes the list it is given and no byte outside the holes.
LEMMA SyncIs ==
    ASSUME NEW b, Shaped(b), NEW hs \in Seq(Region), Separate(hs),
           Within(hs, NODE + b.heap)
    PROVE  LET c == SyncHoles(b, hs)
           IN  /\ Good(c) /\ c.holes = hs
               /\ c.cap = b.cap /\ c.stack = b.stack /\ c.heap = b.heap
               /\ \A r \in Region :
                     InHeap(b, r) /\ AllApart(r, hs) => Clear(c, r) /\ Same(b, c, r)
               /\ \A o : Stray(c, o) => NODE < o /\ ~InHoles(hs, o) /\ At(c, o) = At(b, o)
               /\ OutsideSame(b, c)
<1>. DEFINE n == Len(hs)
            c == SyncHoles(b, hs)
            next(i) == IF i < n THEN hs[i + 1].off ELSE 0
            head == IF n = 0 THEN <<>> ELSE <<0, hs[1].off>>
            at(x) == {i \in 1 .. n : x \in NodeBytes(Addr(b, hs[i]))}
            byte(x, i) == IF x = Addr(b, hs[i]) THEN <<hs[i].len, next(i)>> ELSE NodeRest
            val(x) == IF x = Floor(b) THEN head
                      ELSE IF x > Floor(b) THEN (IF n = 0 THEN <<>> ELSE NodeRest)
                      ELSE IF at(x) # {} THEN byte(x, CHOOSE i \in at(x) : TRUE)
                      ELSE IF x \in HoleBytes(b, hs) THEN <<>> ELSE b.mem[x]
<1>1. /\ n \in Nat
      /\ \A i \in 1 .. n : hs[i] \in Region /\ hs[i].off \in Nat /\ hs[i].len \in Nat
  BY HoleIs
<1>2. /\ b.cap \in Nat /\ b.heap \in Nat /\ b.stack \in Nat /\ b.stack + b.heap + NODE <= b.cap
      /\ DOMAIN b.mem = 0 .. b.cap - 1
  BY DEF Shaped
<1>3. c = [b EXCEPT !.holes = hs, !.mem = [x \in DOMAIN b.mem |-> val(x)]]
  BY DEF SyncHoles
<1>. HIDE DEF c, val
<1>4. /\ c.cap = b.cap /\ c.stack = b.stack /\ c.heap = b.heap /\ c.holes = hs
      /\ DOMAIN c = DOMAIN b /\ c.mem = [x \in DOMAIN b.mem |-> val(x)]
  BY <1>3 DEF Shaped
<1>5. DOMAIN c.mem = 0 .. b.cap - 1 /\ \A x \in 0 .. b.cap - 1 : c.mem[x] = val(x)
  BY <1>2, <1>4
<1>6. Shaped(c)  BY <1>2, <1>4, <1>5 DEF Shaped
<1>7. \A i \in 1 .. n :
         /\ hs[i].len >= NODE /\ NODE <= hs[i].off - hs[i].len
         /\ hs[i].off <= NODE + b.heap /\ hs[i].off <= b.cap
         /\ b.cap - hs[i].off \in 0 .. b.cap - 1 /\ b.cap - hs[i].off < Floor(b)
  <2>. SUFFICES ASSUME NEW i \in 1 .. n
                PROVE  /\ hs[i].len >= NODE /\ NODE <= hs[i].off - hs[i].len
                       /\ hs[i].off <= NODE + b.heap /\ hs[i].off <= b.cap
                       /\ b.cap - hs[i].off \in 0 .. b.cap - 1
                       /\ b.cap - hs[i].off < Floor(b)
    OBVIOUS
  <2>1. /\ hs[i].len >= NODE /\ NODE <= hs[i].off - hs[i].len
        /\ hs[i].off <= NODE + b.heap
    BY DEF Separate, Within
  <2>2. hs[i].off \in Nat /\ hs[i].len \in Nat  BY <1>1
  <2>. HIDE DEF n
  <2>3. \A o, l, k, h, f \in Nat :
           l >= NODE /\ NODE <= o - l /\ o <= NODE + h /\ f + h + NODE <= k =>
              o <= k /\ k - o \in 0 .. k - 1 /\ k - o < k - NODE
    BY DEF NODE
  <2>. QED  BY <1>2, <2>1, <2>2, <2>3 DEF Floor
<1>8. At(c, NODE) = IF n > 0 THEN <<0, hs[1].off>> ELSE <<>>
  <2>1. b.cap - NODE \in 0 .. b.cap - 1 /\ b.cap - NODE = Floor(b)  BY <1>2 DEF NODE, Floor
  <2>2. val(Floor(b)) = head  BY DEF val
  <2>3. At(c, NODE) = head  BY <1>4, <1>5, <2>1, <2>2 DEF At
  <2>. HIDE DEF n
  <2>. QED  BY <1>1, <2>3
<1>9. ASSUME NEW i \in 1 .. n PROVE At(c, hs[i].off) = <<hs[i].len, NextOff(hs, i)>>
  <2>. DEFINE x == b.cap - hs[i].off
  <2>1. x \in 0 .. b.cap - 1 /\ ~(x = Floor(b)) /\ ~(x > Floor(b))
    BY <1>2, <1>7 DEF Floor, NODE
  <2>2. x = Addr(b, hs[i]) /\ x \in NodeBytes(x)  BY <2>1 DEF Addr, NodeBytes, NODE
  <2>3. i \in at(x)  BY <2>2
  <2>4. \A j \in at(x) : j = i
    <3>. SUFFICES ASSUME NEW j \in 1 .. n, x \in NodeBytes(Addr(b, hs[j])), j # i
                  PROVE FALSE
      OBVIOUS
    <3>1. hs[j].off - hs[i].off \in 0 .. NODE - 1
      <4>1. hs[j].off \in Nat /\ hs[i].off \in Nat  BY <1>1
      <4>2. b.cap - hs[i].off \in b.cap - hs[j].off .. b.cap - hs[j].off + NODE - 1
        BY DEF NodeBytes, Addr
      <4>3. \A a, p, q \in Nat :
               a - p \in a - q .. a - q + NODE - 1 => q - p \in 0 .. NODE - 1
        BY DEF NODE
      <4>. QED  BY <1>2, <4>1, <4>2, <4>3
    <3>2. Apart(hs[i], hs[j]) /\ hs[i].len >= NODE /\ hs[j].len >= NODE  BY DEF Separate
    <3>3. \A p, q, k, l \in Nat :
             /\ q - p \in 0 .. NODE - 1 /\ k >= NODE /\ l >= NODE
             => ~(p <= q - l) /\ ~(q <= p - k)
      BY DEF NODE
    <3>. QED  BY <1>1, <3>1, <3>2, <3>3 DEF Apart, Above
  <2>. HIDE DEF at
  <2>5. (CHOOSE j \in at(x) : TRUE) = i  BY <2>3, <2>4
  <2>6. val(x) = byte(x, i)  BY <2>1, <2>3, <2>5 DEF val
  <2>7. At(c, hs[i].off) = byte(x, i)  BY <1>4, <1>5, <2>1, <2>6 DEF At
  <2>. HIDE DEF x
  <2>. QED  BY <2>2, <2>7 DEF NextOff
<1>10. ASSUME NEW o \in NODE + 1 .. b.cap,
              \A i \in 1 .. n : ~(o \in hs[i].off - hs[i].len + 1 .. hs[i].off)
       PROVE  At(c, o) = At(b, o)
  <2>. DEFINE x == b.cap - o
  <2>1. x \in 0 .. b.cap - 1 /\ ~(x = Floor(b)) /\ ~(x > Floor(b))
    BY <1>2 DEF Floor, NODE
  <2>2. \A i \in 1 .. n : x \notin Span(b, hs[i])
    <3>. SUFFICES ASSUME NEW i \in 1 .. n, x \in Span(b, hs[i]) PROVE FALSE  OBVIOUS
    <3>1. x \in b.cap - hs[i].off .. b.cap - hs[i].off + hs[i].len - 1  BY DEF Span, Addr
    <3>2. /\ hs[i].off \in Nat /\ hs[i].len \in Nat /\ b.cap \in Nat
          /\ o \in Nat /\ b.cap - o \in b.cap - hs[i].off .. b.cap - hs[i].off + hs[i].len - 1
      BY <1>1, <1>2, <3>1 DEF NODE
    <3>3. \A k, p, l, q \in Nat : k - q \in k - p .. k - p + l - 1 => q \in p - l + 1 .. p
      OBVIOUS
    <3>4. o \in hs[i].off - hs[i].len + 1 .. hs[i].off  BY <3>2, <3>3
    <3>. QED  BY <1>10, <3>4
  <2>3. at(x) = {}
    <3>. SUFFICES ASSUME NEW i \in 1 .. n, x \in NodeBytes(Addr(b, hs[i])) PROVE FALSE
      OBVIOUS
    <3>1. x \in Span(b, hs[i])
      <4>1. Addr(b, hs[i]) \in Int /\ hs[i].len >= NODE /\ hs[i].len \in Nat
        BY <1>1, <1>2, <1>7 DEF Addr
      <4>2. \A a \in Int, l \in Nat : l >= NODE => a .. a + NODE - 1 \subseteq a .. a + l - 1
        BY DEF NODE
      <4>. HIDE DEF x
      <4>. QED  BY <4>1, <4>2 DEF Span, NodeBytes
    <3>. QED  BY <2>2, <3>1
  <2>4. x \notin HoleBytes(b, hs)  BY <2>2 DEF HoleBytes
  <2>5. val(x) = b.mem[x]  BY <2>1, <2>3, <2>4 DEF val
  <2>. QED  BY <1>4, <1>5, <2>1, <2>5 DEF At
<1>11. Good(c)
  <2>1. Threaded(c)  BY <1>4, <1>8, <1>9 DEF Threaded
  <2>. QED  BY <1>4, <1>6, <2>1 DEF Good
<1>12. ASSUME NEW r \in Region, InHeap(b, r), AllApart(r, hs)
       PROVE  Clear(c, r) /\ Same(b, c, r)
  <2>1. Clear(c, r)  BY <1>4, <1>12 DEF Clear, InHeap, AllApart
  <2>2. ASSUME NEW o \in r.off - r.len + 1 .. r.off PROVE At(c, o) = At(b, o)
    <3>1. r.off \in Nat /\ r.len \in Nat  BY DEF Region
    <3>2. NODE <= r.off - r.len /\ r.off <= NODE + b.heap  BY <1>12 DEF InHeap
    <3>3. o \in NODE + 1 .. b.cap  BY <1>2, <3>1, <3>2 DEF NODE
    <3>4. \A i \in 1 .. n : ~(o \in hs[i].off - hs[i].len + 1 .. hs[i].off)
      <4>1. \A i \in 1 .. n : r.off <= hs[i].off - hs[i].len \/ hs[i].off <= r.off - r.len
        BY <1>12 DEF AllApart, Apart, Above
      <4>2. o \in Int /\ r.off - r.len + 1 <= o /\ o <= r.off  BY <1>2, <3>1, <3>3
      <4>3. \A x, y, k, l \in Nat :
               (x <= y - l \/ y <= x - k) /\ x - k + 1 <= o /\ o <= x
               => ~(o \in y - l + 1 .. y)
        BY <4>2
      <4>. HIDE DEF n
      <4>. QED  BY <1>1, <3>1, <4>1, <4>2, <4>3
    <3>. QED  BY <1>10, <3>3, <3>4
  <2>. QED  BY <2>1, <2>2 DEF Same
<1>13. ASSUME NEW o, Stray(c, o)
       PROVE  NODE < o /\ ~InHoles(hs, o) /\ At(c, o) = At(b, o)
  <2>. DEFINE x == b.cap - o
  <2>1. /\ o \in 1 .. b.cap /\ o \in Nat /\ x \in 0 .. b.cap - 1
        /\ At(c, o) = val(x) /\ val(x) # <<>>
        /\ ~(hs # <<>> /\ o <= NODE)
        /\ \A i \in 1 .. n : ~HasNode(hs[i], o)
    <3>1. o \in 1 .. b.cap /\ At(c, o) # <<>> /\ ~Marked(c, o)  BY <1>4, <1>13 DEF Stray
    <3>2. o \in Nat /\ x \in 0 .. b.cap - 1  BY <1>2, <3>1
    <3>. HIDE DEF x
    <3>3. At(c, o) = val(x)  BY <1>4, <1>5, <3>2 DEF At, x
    <3>. QED  BY <1>4, <3>1, <3>2, <3>3 DEF Marked
  <2>2. NODE < o
    <3>. SUFFICES ASSUME o <= NODE PROVE FALSE  BY <2>1 DEF NODE
    <3>1. n = 0  BY <2>1
    <3>2. x = Floor(b) \/ x > Floor(b)  BY <1>2, <2>1 DEF Floor, NODE
    <3>. HIDE DEF x, n
    <3>3. val(x) = <<>>  BY <3>1, <3>2 DEF val
    <3>. QED  BY <2>1, <3>3
  <2>3. ~(x = Floor(b)) /\ ~(x > Floor(b))  BY <1>2, <2>1, <2>2 DEF Floor, NODE
  <2>4. at(x) = {}
    <3>. SUFFICES ASSUME NEW i \in 1 .. n, x \in NodeBytes(Addr(b, hs[i])) PROVE FALSE
      OBVIOUS
    <3>1. hs[i].off \in Nat  BY <1>1
    <3>2. b.cap - o \in b.cap - hs[i].off .. b.cap - hs[i].off + NODE - 1
      BY DEF NodeBytes, Addr
    <3>3. \A a, p, q \in Nat : a - p \in a - q .. a - q + NODE - 1 => q - NODE < p /\ p <= q
      BY DEF NODE
    <3>4. HasNode(hs[i], o)  BY <1>2, <2>1, <3>1, <3>2, <3>3 DEF HasNode
    <3>. QED  BY <2>1, <3>4
  <2>. HIDE DEF x, at
  <2>5. x \notin HoleBytes(b, hs)
    <3>. SUFFICES ASSUME x \in HoleBytes(b, hs) PROVE FALSE  OBVIOUS
    <3>1. val(x) = <<>>  BY <2>3, <2>4 DEF val
    <3>. QED  BY <2>1, <3>1
  <2>6. At(c, o) = At(b, o)
    <3>1. val(x) = b.mem[x]  BY <2>3, <2>4, <2>5 DEF val
    <3>. QED  BY <2>1, <3>1 DEF At, x
  <2>7. ~InHoles(hs, o)
    <3>. SUFFICES ASSUME NEW i \in 1 .. n, Has(hs[i], o) PROVE FALSE  BY DEF InHoles
    <3>1. hs[i].off \in Nat /\ hs[i].len \in Nat  BY <1>1
    <3>2. \A a, p, q, l \in Nat : q - l < p /\ p <= q => a - p \in a - q .. a - q + l - 1
      OBVIOUS
    <3>3. x \in Span(b, hs[i])  BY <1>2, <2>1, <3>1, <3>2 DEF Has, Span, Addr, x
    <3>. QED  BY <2>5, <3>3 DEF HoleBytes
  <2>. QED  BY <2>2, <2>6, <2>7
<1>14. OutsideSame(b, c)
  <2>. SUFFICES ASSUME NEW o \in NODE + 1 .. b.cap, ~InHoles(hs, o)
                PROVE  At(c, o) = At(b, o)
    BY <1>4 DEF OutsideSame
  <2>1. ASSUME NEW i \in 1 .. n, o \in hs[i].off - hs[i].len + 1 .. hs[i].off PROVE FALSE
    <3>1. hs[i].off \in Nat /\ hs[i].len \in Nat  BY <1>1
    <3>2. \A p, l \in Nat : o \in p - l + 1 .. p => p - l < o /\ o <= p  OBVIOUS
    <3>3. Has(hs[i], o)  BY <2>1, <3>1, <3>2 DEF Has
    <3>. QED  BY <3>3 DEF InHoles
  <2>. QED  BY <1>10, <2>1
<1>. QED  BY <1>4, <1>11, <1>12, <1>13, <1>14 DEF c

-----------------------------------------------------------------------------
(* free.                                                                   *)

\* A region put into a list of regions.
LEMMA HoleInserted ==
    ASSUME NEW hs \in Seq(Region), NEW h \in Region, NEW i \in 1 .. Len(hs) + 1,
           NEW ins, ins = InsertAt(hs, i, h)
    PROVE  ins \in Seq(Region) /\ PutIn(ins, hs, i, h)
BY InsertIs

\* A region apart from a list of holes can be put anywhere in it.
LEMMA InsertKeeps ==
    ASSUME NEW hs \in Seq(Region), Separate(hs), NEW h \in Region,
           h.len >= NODE, NODE <= h.off - h.len, AllApart(h, hs), NEW i \in 1 .. Len(hs) + 1
    PROVE  LET ins == InsertAt(hs, i, h)
           IN  /\ ins \in Seq(Region) /\ Separate(ins)
               /\ \A j \in 1 .. Len(ins) : ins[j] = h \/ \E k \in 1 .. Len(hs) : ins[j] = hs[k]
<1>. DEFINE n == Len(hs)
            ins == InsertAt(hs, i, h)
<1>1. n \in Nat /\ i \in Nat  BY HoleIs
<1>2. /\ ins \in Seq(Region) /\ Len(ins) = n + 1
      /\ \A j \in 1 .. n + 1 :
            ins[j] = IF j < i THEN hs[j] ELSE IF j = i THEN h ELSE hs[j - 1]
  <2>1. ins \in Seq(Region) /\ PutIn(ins, hs, i, h)
    <3>. HIDE DEF n, ins
    <3>1. ins = InsertAt(hs, i, h)  BY DEF ins
    <3>. QED  BY <3>1, HoleInserted
  <2>. HIDE DEF ins
  <2>. QED  BY <2>1 DEF PutIn
<1>. HIDE DEF ins
<1>3. \A j \in 1 .. n + 1 : /\ j < i => j \in 1 .. n
                            /\ ~(j < i) /\ j # i => j - 1 \in 1 .. n
                            /\ j \in Int
  BY <1>1
<1>4. ASSUME NEW j \in 1 .. n + 1 PROVE ins[j] = h \/ \E k \in 1 .. n : ins[j] = hs[k]
  BY <1>2, <1>3
<1>5. \A j \in 1 .. n + 1 : ins[j].len >= NODE /\ NODE <= ins[j].off - ins[j].len
  BY <1>4 DEF Separate
<1>6. ASSUME NEW j \in 1 .. n + 1, NEW k \in 1 .. n + 1, j # k
      PROVE  Apart(ins[j], ins[k])
  <2>. HIDE DEF n
  <2>0. /\ \A l \in 1 .. n + 1 : l # i => \E q \in 1 .. n : ins[l] = hs[q]
        /\ ins[i] = h
    <3>2. n \in Nat /\ i \in 1 .. n + 1 /\ ~(i < i)  BY <1>1 DEF n
    <3>1. ASSUME NEW l \in 1 .. n + 1, l # i PROVE \E q \in 1 .. n : ins[l] = hs[q]
      <4>1. CASE l < i
        <5>1. l \in 1 .. n  BY <3>2, <4>1
        <5>2. ins[l] = hs[l]  BY <1>2, <4>1
        <5>. QED  BY <5>1, <5>2
      <4>2. CASE ~(l < i)
        <5>1. l - 1 \in 1 .. n  BY <3>1, <3>2, <4>2
        <5>2. ins[l] = hs[l - 1]  BY <1>2, <3>1, <4>2
        <5>. QED  BY <5>1, <5>2
      <4>. QED  BY <4>1, <4>2
    <3>3. ins[i] = h  BY <1>2, <3>2
    <3>. QED  BY <3>1, <3>3
  <2>1. CASE j = i
    <3>1. ins[j] = h  BY <2>0, <2>1
    <3>2. PICK l \in 1 .. n : ins[k] = hs[l]  BY <1>6, <2>0, <2>1
    <3>. QED  BY <3>1, <3>2 DEF AllApart, n
  <2>2. CASE k = i
    <3>1. ins[k] = h  BY <2>0, <2>2
    <3>2. PICK l \in 1 .. n : ins[j] = hs[l]  BY <1>6, <2>0, <2>2
    <3>. QED  BY <3>1, <3>2 DEF AllApart, Apart, n
  <2>3. CASE j # i /\ k # i
    <3>1. PICK p \in 1 .. n, q \in 1 .. n : p # q /\ ins[j] = hs[p] /\ ins[k] = hs[q]
      <4>. DEFINE from(x) == IF x < i THEN x ELSE x - 1
      <4>4. n \in Nat /\ i \in 1 .. n + 1  BY <1>1 DEF n
      <4>1. from(j) \in 1 .. n /\ from(k) \in 1 .. n  BY <2>3, <4>4
      <4>2. from(j) # from(k)  BY <1>6, <2>3, <4>4
      <4>3. ins[j] = hs[from(j)] /\ ins[k] = hs[from(k)]  BY <1>2, <2>3
      <4>. QED  BY <4>1, <4>2, <4>3
    <3>. QED  BY <3>1 DEF Separate, n
  <2>. QED  BY <2>1, <2>2, <2>3
<1>7. Separate(ins)  BY <1>2, <1>5, <1>6 DEF Separate
<1>. QED  BY <1>2, <1>4, <1>7 DEF ins

\* The fold of free keeps the list's holes separate, and apart from all that was.
LEMMA JoinAll ==
    ASSUME NEW hs \in Seq(Region), Separate(hs), NEW limit \in Nat, Within(hs, limit)
    PROVE  LET w == FoldLeft(Join, <<>>, hs)
           IN  /\ w \in Seq(Region) /\ Separate(w) /\ Within(w, limit)
               /\ \A r \in Region : r.len >= NODE /\ AllApart(r, hs) => AllApart(r, w)
               /\ Feet(w, hs, {})
<1>. DEFINE n == Len(hs)
<1>1. PICK m : Steps(m, "join", 0, <<>>, hs) /\ FoldLeft(Join, <<>>, hs) = m[Len(hs)]
  BY JoinSteps
<1>2. n \in Nat /\ \A i \in 1 .. n : hs[i] \in Region  BY HoleIs
<1>. DEFINE fine(k) ==
              /\ m[k] \in Seq(Region) /\ Separate(m[k]) /\ Within(m[k], limit)
              /\ \A r \in Region :
                    r.len >= NODE /\ (\A i \in 1 .. k : Apart(r, hs[i])) => AllApart(r, m[k])
              /\ \A j \in 1 .. Len(m[k]) : \E i \in 1 .. k : Foot(m[k][j]) = Foot(hs[i])
            S == {k \in 0 .. n : fine(k)}
<1>3. 0 \in S
  <2>1. m[0] = <<>>  BY <1>1 DEF Steps
  <2>2. <<>> \in Seq(Region) /\ Len(<<>>) = 0  BY EmptySeq
  <2>3. fine(0)  BY <2>1, <2>2 DEF Separate, Within, AllApart
  <2>. QED  BY <1>2, <2>3
<1>4. ASSUME NEW k \in 0 + 1 .. n, k - 1 \in S PROVE k \in S
  <2>0. k \in 1 .. n /\ k \in 0 .. n /\ k \in Nat /\ k - 1 \in Nat  BY <1>2
  <2>1. m[k] = Join(m[k - 1], hs[k])  BY <1>1, <2>0 DEF Steps, Folded
  <2>2. fine(k - 1)  BY <1>4
  <2>3. /\ hs[k] \in Region /\ hs[k].len >= NODE /\ NODE <= hs[k].off - hs[k].len
        /\ hs[k].off <= limit
        /\ \A i \in 1 .. k - 1 : Apart(hs[k], hs[i])
    <3>1. \A i \in 1 .. k - 1 : i \in 1 .. n /\ i # k  BY <1>2, <2>0
    <3>. QED  BY <1>2, <2>0, <3>1 DEF Separate, Within
  <2>4. AllApart(hs[k], m[k - 1])  BY <2>2, <2>3
  <2>5. /\ m[k] \in Seq(Region) /\ Separate(m[k]) /\ Within(m[k], limit)
        /\ \A r \in Region : r.len >= NODE /\ Apart(r, hs[k]) /\ AllApart(r, m[k - 1])
              => AllApart(r, m[k])
        /\ Feet(m[k], m[k - 1], {hs[k]})
    BY <2>1, <2>2, <2>3, <2>4, JoinIs
  <2>6. \A i \in 1 .. k - 1 : i \in 1 .. k  BY <2>0
  <2>7. k \in 1 .. k  BY <2>0
  <2>9. \A j \in 1 .. Len(m[k]) : \E i \in 1 .. k : Foot(m[k][j]) = Foot(hs[i])
    <3>1. \A j \in 1 .. Len(m[k - 1]) : \E i \in 1 .. k - 1 : Foot(m[k - 1][j]) = Foot(hs[i])
      BY <2>2
    <3>. QED  BY <2>5, <2>6, <2>7, <3>1 DEF Feet
  <2>10. \A r \in Region : r.len >= NODE /\ (\A i \in 1 .. k - 1 : Apart(r, hs[i]))
            => AllApart(r, m[k - 1])
    BY <2>2
  <2>11. ASSUME NEW r \in Region, r.len >= NODE, \A i \in 1 .. k : Apart(r, hs[i])
         PROVE  AllApart(r, m[k])
    <3>1. Apart(r, hs[k]) /\ \A i \in 1 .. k - 1 : Apart(r, hs[i])  BY <2>6, <2>7, <2>11
    <3>2. AllApart(r, m[k - 1])  BY <2>10, <2>11, <3>1
    <3>. QED  BY <2>5, <2>11, <3>1, <3>2
  <2>8. fine(k)  BY <2>5, <2>9, <2>11
  <2>. QED  BY <2>0, <2>8
<1>. HIDE DEF S
<1>5. 0 .. n \subseteq S  BY <1>2, <1>3, <1>4, Upwards
<1>6. fine(n)  BY <1>2, <1>5 DEF S
<1>. QED  BY <1>1, <1>6 DEF AllApart, Feet

\* free gives a region to the freelist, and touches no other.
LEMMA FreeIs ==
    ASSUME NEW b, Good(b), NEW h \in Region, Clear(b, h)
    PROVE  LET c == Free(b, h)
           IN  /\ Good(c) /\ c.cap = b.cap /\ c.stack = b.stack /\ c.heap = b.heap
               /\ \A r \in Region :
                     Clear(b, r) /\ Apart(r, h) => Clear(c, r) /\ Same(b, c, r)
               /\ Feet(c.holes, b.holes, {h}) /\ OutsideSame(b, c)
<1>1. CASE h.len = 0
  <2>1. Free(b, h) = b  BY <1>1 DEF Free
  <2>. QED  BY <2>1 DEF Same, Feet, OutsideSame
<1>2. CASE h.len # 0
  <2>. DEFINE hs  == b.holes
              at  == Cardinality({i \in 1 .. Len(hs) : hs[i].off < h.off})
              ins == InsertAt(hs, at + 1, h)
              w   == FoldLeft(Join, <<>>, ins)
              c   == SyncHoles(b, w)
              limit == NODE + b.heap
  <2>1. Free(b, h) = c  BY <1>2 DEF Free
  <2>2. InHeap(b, h) /\ AllApart(h, hs)
    <3>1. h # NoRegion  BY <1>2 DEF NoRegion
    <3>. QED  BY <3>1 DEF Clear
  <2>3. Shaped(b) /\ hs \in Seq(Region) /\ Separate(hs) /\ Within(hs, limit)  BY DEF Good
  <2>4. Len(hs) \in Nat /\ b.heap \in Nat /\ limit \in Nat
    BY <2>3, HoleIs DEF Shaped, NODE
  <2>5. at + 1 \in 1 .. Len(hs) + 1
    <3>. DEFINE S == {i \in 1 .. Len(hs) : hs[i].off < h.off}
                n == Len(hs)
    <3>1. n \in Nat /\ S \subseteq 1 .. n  BY <2>4
    <3>. HIDE DEF S, n
    <3>2. IsFiniteSet(1 .. n) /\ Cardinality(1 .. n) = n
      <4>1. 1 \in Int /\ n \in Int  BY <3>1
      <4>2. /\ IsFiniteSet(1 .. n)
            /\ Cardinality(1 .. n) = IF 1 <= n THEN n - 1 + 1 ELSE 0
        BY <4>1, FS_Interval
      <4>. QED  BY <3>1, <4>2
    <3>3. IsFiniteSet(S) /\ Cardinality(S) <= n  BY <3>1, <3>2, FS_Subset
    <3>4. Cardinality(S) \in Nat  BY <3>3, FS_CardinalityType
    <3>5. Cardinality(S) + 1 \in 1 .. n + 1  BY <3>1, <3>3, <3>4
    <3>. QED  BY <3>5 DEF S, n
  <2>. HIDE DEF at, hs, limit
  <2>6. /\ ins \in Seq(Region) /\ Separate(ins)
        /\ \A j \in 1 .. Len(ins) : ins[j] = h \/ \E k \in 1 .. Len(hs) : ins[j] = hs[k]
    BY <2>2, <2>3, <2>5, InsertKeeps DEF InHeap
  <2>. HIDE DEF ins
  <2>7. Within(ins, limit)  BY <2>2, <2>3, <2>6 DEF Within, InHeap, limit
  <2>8. /\ w \in Seq(Region) /\ Separate(w) /\ Within(w, limit)
        /\ \A r \in Region : r.len >= NODE /\ AllApart(r, ins) => AllApart(r, w)
        /\ Feet(w, ins, {})
    BY <2>4, <2>6, <2>7, JoinAll
  <2>11. Feet(w, hs, {h})  BY <1>2, <2>6, <2>8 DEF Feet
  <2>. HIDE DEF w
  <2>9. /\ Good(c) /\ c.cap = b.cap /\ c.stack = b.stack /\ c.heap = b.heap
        /\ c.holes = w /\ OutsideSame(b, c)
        /\ \A r \in Region : InHeap(b, r) /\ AllApart(r, w) => Clear(c, r) /\ Same(b, c, r)
    BY <2>3, <2>8, SyncIs DEF limit
  <2>10. ASSUME NEW r \in Region, Clear(b, r), Apart(r, h)
         PROVE  Clear(c, r) /\ Same(b, c, r)
    <3>. HIDE DEF c
    <3>1. CASE r = NoRegion
      <4>1. r.off - r.len + 1 .. r.off = {}  BY <3>1 DEF NoRegion
      <4>. QED  BY <3>1, <4>1 DEF Clear, Same
    <3>2. CASE r # NoRegion
      <4>1. InHeap(b, r) /\ AllApart(r, hs)  BY <2>10, <3>2 DEF Clear, hs
      <4>2. AllApart(r, ins)  BY <2>6, <2>10, <4>1 DEF AllApart
      <4>. QED  BY <2>8, <2>9, <4>1, <4>2 DEF InHeap
    <3>. QED  BY <3>1, <3>2
  <2>. HIDE DEF c
  <2>. QED  BY <2>1, <2>9, <2>10, <2>11 DEF hs
<1>. QED  BY <1>1, <1>2

-----------------------------------------------------------------------------
(* Writes to the bytes.                                                    *)

Painted(b, c, S, v) == c = [b EXCEPT !.mem = Paint(@, S, v)]

LEMMA PaintIs ==
    ASSUME NEW b, Shaped(b), NEW S, NEW v, NEW c, Painted(b, c, S, v)
    PROVE  /\ Shaped(c) /\ c.cap = b.cap /\ c.stack = b.stack /\ c.heap = b.heap
           /\ c.holes = b.holes
           /\ \A o \in 1 .. b.cap : At(c, o) = IF b.cap - o \in S THEN v ELSE At(b, o)
           /\ \A o : Stray(c, o) => IF b.cap - o \in S THEN At(c, o) = v /\ v # <<>>
                                    ELSE Stray(b, o) /\ At(c, o) = At(b, o)
<1>. DEFINE mem == Paint(b.mem, S, v)
<1>1. c = [b EXCEPT !.mem = mem]  BY DEF Painted
<1>2. b.cap \in Nat /\ DOMAIN b.mem = 0 .. b.cap - 1  BY DEF Shaped
<1>3. DOMAIN mem = 0 .. b.cap - 1 /\ \A x \in 0 .. b.cap - 1 : mem[x] = IF x \in S THEN v ELSE b.mem[x]
  BY <1>2 DEF Paint
<1>. HIDE DEF mem
<1>4. /\ c.cap = b.cap /\ c.stack = b.stack /\ c.heap = b.heap /\ c.holes = b.holes
      /\ DOMAIN c = DOMAIN b /\ c.mem = mem
  BY <1>1 DEF Shaped
<1>5. Shaped(c)  BY <1>3, <1>4 DEF Shaped
<1>6. \A o \in 1 .. b.cap : b.cap - o \in 0 .. b.cap - 1  BY <1>2
<1>7. \A o \in 1 .. b.cap : At(c, o) = IF b.cap - o \in S THEN v ELSE At(b, o)
  BY <1>3, <1>4, <1>6 DEF At
<1>8. \A o : Stray(c, o) => IF b.cap - o \in S THEN At(c, o) = v /\ v # <<>>
                            ELSE Stray(b, o) /\ At(c, o) = At(b, o)
  BY <1>4, <1>7 DEF Stray, Marked
<1>. QED  BY <1>4, <1>5, <1>7, <1>8

\* A write in a region clear of the holes leaves the freelist and the others.
LEMMA KeepIs ==
    ASSUME NEW b, Good(b), NEW c, Shaped(c), c.heap = b.heap, c.holes = b.holes,
           NEW h \in Region, Clear(b, h),
           \A o \in NODE .. NODE + b.heap :
              o \notin h.off - h.len + 1 .. h.off => At(c, o) = At(b, o)
    PROVE  /\ Good(c)
           /\ \A r \in Region :
                 Clear(b, r) => Clear(c, r) /\ (Apart(r, h) => Same(b, c, r))
<1>. DEFINE hs == b.holes
<1>1. hs \in Seq(Region) /\ Separate(hs) /\ Within(hs, NODE + b.heap) /\ Threaded(b)
      /\ b.heap \in Nat
  BY DEF Good, Shaped
<1>2. h.off \in Nat /\ h.len \in Nat /\ \A i \in 1 .. Len(hs) : hs[i].off \in Nat /\ hs[i].len \in Nat
  BY <1>1, HoleIs DEF Region
<1>3. h = NoRegion \/ (NODE <= h.off - h.len /\ AllApart(h, hs))  BY DEF Clear, InHeap
<1>4. At(c, NODE) = At(b, NODE)
  <2>1. NODE \in NODE .. NODE + b.heap  BY <1>1 DEF NODE
  <2>2. NODE \notin h.off - h.len + 1 .. h.off  BY <1>2, <1>3 DEF NODE, NoRegion
  <2>. QED  BY <2>1, <2>2
<1>5. ASSUME NEW i \in 1 .. Len(hs) PROVE At(c, hs[i].off) = At(b, hs[i].off)
  <2>1. /\ hs[i].len >= NODE /\ NODE <= hs[i].off - hs[i].len
        /\ hs[i].off <= NODE + b.heap /\ hs[i].off \in Nat /\ hs[i].len \in Nat
    BY <1>1, <1>2 DEF Separate, Within
  <2>2. hs[i].off \in NODE .. NODE + b.heap  BY <1>1, <2>1 DEF NODE
  <2>3. hs[i].off \notin h.off - h.len + 1 .. h.off
    <3>1. CASE h = NoRegion  BY <2>1, <3>1 DEF NoRegion, NODE
    <3>2. CASE h # NoRegion
      <4>1. Apart(h, hs[i])  BY <1>3, <3>2 DEF AllApart
      <4>2. \A x, k, y, l \in Nat :
               l >= NODE /\ (x <= y - l \/ y <= x - k) => y \notin x - k + 1 .. x
        BY DEF NODE
      <4>. QED  BY <1>2, <2>1, <4>1, <4>2 DEF Apart, Above
    <3>. QED  BY <3>1, <3>2
  <2>. QED  BY <2>2, <2>3
<1>6. Good(c)  BY <1>1, <1>4, <1>5 DEF Good, Threaded
<1>7. ASSUME NEW r \in Region, Clear(b, r)
      PROVE  Clear(c, r) /\ (Apart(r, h) => Same(b, c, r))
  <2>1. Clear(c, r)  BY <1>7 DEF Clear, InHeap
  <2>2. ASSUME Apart(r, h), NEW o \in r.off - r.len + 1 .. r.off PROVE At(c, o) = At(b, o)
    <3>1. r.off \in Nat /\ r.len \in Nat  BY DEF Region
    <3>2. CASE r = NoRegion  BY <3>2 DEF NoRegion
    <3>3. CASE r # NoRegion
      <4>1. NODE <= r.off - r.len /\ r.off <= NODE + b.heap
        BY <1>7, <3>3 DEF Clear, InHeap
      <4>2. o \in NODE .. NODE + b.heap  BY <1>1, <3>1, <4>1 DEF NODE
      <4>3. r.off <= h.off - h.len \/ h.off <= r.off - r.len  BY <2>2 DEF Apart, Above
      <4>4. o \notin h.off - h.len + 1 .. h.off  BY <1>2, <3>1, <4>3
      <4>. QED  BY <4>2, <4>4
    <3>. QED  BY <3>2, <3>3
  <2>. QED  BY <2>1, <2>2 DEF Same
<1>. QED  BY <1>6, <1>7

LEMMA NoneIs ==
    /\ NoRegion \in Region /\ \A b : Clear(b, NoRegion)
    /\ \A r \in Region : r.len <= r.off => Apart(r, NoRegion)
<1>1. NoRegion \in Region /\ \A b : Clear(b, NoRegion)  BY DEF NoRegion, Region, Clear
<1>2. \A r \in Region : r.len <= r.off => Apart(r, NoRegion)
  BY DEF NoRegion, Region, Apart, Above
<1>. QED  BY <1>1, <1>2

\* What is done below the heap touches no region.
LEMMA StackKeeps ==
    ASSUME NEW b, Good(b), NEW c, Shaped(c), c.heap = b.heap, c.holes = b.holes,
           \A o \in NODE .. NODE + b.heap : At(c, o) = At(b, o)
    PROVE  /\ Good(c)
           /\ \A r \in Region : Clear(b, r) => Clear(c, r) /\ Same(b, c, r)
<1>1. /\ Good(c)
      /\ \A r \in Region :
            Clear(b, r) => Clear(c, r) /\ (Apart(r, NoRegion) => Same(b, c, r))
  BY NoneIs, KeepIs
<1>2. ASSUME NEW r \in Region, Clear(b, r) PROVE Apart(r, NoRegion)
  <2>1. r.off \in Nat /\ r.len \in Nat  BY DEF Region
  <2>2. r.len <= r.off  BY <1>2, <2>1 DEF Clear, InHeap, NoRegion, NODE
  <2>. QED  BY <2>2, NoneIs
<1>. QED  BY <1>1, <1>2

\* A value's bytes go to the front of its region.
LEMMA WriteIs ==
    ASSUME NEW b, Good(b), NEW h \in Region, Clear(b, h), NEW size \in Nat, size <= h.len,
           NEW x
    PROVE  LET c == Write(b, h, size, x)
           IN  /\ Good(c) /\ c.cap = b.cap /\ c.stack = b.stack /\ c.heap = b.heap
               /\ c.holes = b.holes
               /\ \A o \in h.off - size + 1 .. h.off : At(c, o) = <<x>>
               /\ \A r \in Region :
                     Clear(b, r) => Clear(c, r) /\ (Apart(r, h) => Same(b, c, r))
               /\ \A o : Stray(c, o) => \/ o \in h.off - size + 1 .. h.off
                                        \/ Stray(b, o) /\ At(c, o) = At(b, o)
<1>. DEFINE S == Addr(b, h) .. Addr(b, h) + size - 1
            c == Write(b, h, size, x)
<1>1. Shaped(b) /\ b.cap \in Nat /\ b.heap \in Nat /\ b.stack \in Nat
      /\ b.stack + b.heap + NODE <= b.cap /\ h.off \in Nat /\ h.len \in Nat
  BY DEF Good, Shaped, Region
<1>2. /\ Shaped(c) /\ c.cap = b.cap /\ c.stack = b.stack /\ c.heap = b.heap /\ c.holes = b.holes
      /\ \A o \in 1 .. b.cap : At(c, o) = IF b.cap - o \in S THEN <<x>> ELSE At(b, o)
      /\ \A o : Stray(c, o) => b.cap - o \in S \/ (Stray(b, o) /\ At(c, o) = At(b, o))
  <2>1. Painted(b, c, S, <<x>>)  BY DEF Write, Painted
  <2>. HIDE DEF c, S
  <2>. QED  BY <1>1, <2>1, PaintIs
<1>. HIDE DEF c
<1>3. h.off <= b.cap /\ h.len <= h.off  BY <1>1 DEF Clear, InHeap, NoRegion, NODE
<1>4. \A o \in 1 .. b.cap : b.cap - o \in S <=> o \in h.off - size + 1 .. h.off
  BY <1>1, <1>3 DEF Addr
<1>. HIDE DEF S
<1>5. \A o \in NODE .. NODE + b.heap :
         o \notin h.off - h.len + 1 .. h.off => At(c, o) = At(b, o)
  <2>1. \A o \in NODE .. NODE + b.heap : o \in 1 .. b.cap  BY <1>1 DEF NODE
  <2>2. \A o \in NODE .. NODE + b.heap :
           o \notin h.off - h.len + 1 .. h.off => o \notin h.off - size + 1 .. h.off
    BY <1>1
  <2>. QED  BY <1>2, <1>4, <2>1, <2>2
<1>6. \A o \in h.off - size + 1 .. h.off : At(c, o) = <<x>>
  <2>1. \A o \in h.off - size + 1 .. h.off : o \in 1 .. b.cap  BY <1>1, <1>3
  <2>. QED  BY <1>2, <1>4, <2>1
<1>7. /\ Good(c)
      /\ \A r \in Region :
            Clear(b, r) => Clear(c, r) /\ (Apart(r, h) => Same(b, c, r))
  BY <1>2, <1>5, KeepIs
<1>8. \A o : Stray(c, o) => \/ o \in h.off - size + 1 .. h.off
                            \/ Stray(b, o) /\ At(c, o) = At(b, o)
  <2>1. \A o : Stray(c, o) => o \in 1 .. b.cap  BY <1>2 DEF Stray
  <2>. QED  BY <1>2, <1>4, <2>1
<1>. QED  BY <1>2, <1>6, <1>7, <1>8 DEF c

-----------------------------------------------------------------------------
(* Allocation.                                                             *)

LEMMA RoundUpIs ==
    ASSUME NEW n \in Nat, NEW a \in Nat \ {0}
    PROVE  RoundUp(n, a) \in Nat /\ n <= RoundUp(n, a)
BY DEF RoundUp

\* A region holds the request and a node.
LEMMA SpanIs ==
    ASSUME NEW size \in Nat \ {0}
    PROVE  SpanOf(size) \in Nat /\ NODE <= SpanOf(size) /\ size <= SpanOf(size)
<1>. DEFINE least == IF size < NODE THEN NODE ELSE size
<1>1. least \in Nat /\ NODE <= least /\ size <= least  BY DEF NODE
<1>. HIDE DEF least
<1>2. RoundUp(least, size) \in Nat /\ least <= RoundUp(least, size)  BY <1>1, RoundUpIs
<1>3. SpanOf(size) = RoundUp(least, size)  BY DEF SpanOf, least
<1>. QED  BY <1>1, <1>2, <1>3 DEF NODE

\* fit_hole finds a hole that fits when there is one.
LEMMA BestIs ==
    ASSUME NEW b, b.holes \in Seq(Region), NEW span, NEW align,
           Fitting(b, span, align) # {}
    PROVE  BestFit(b, span, align) \in Fitting(b, span, align)
<1>. DEFINE F == Fitting(b, span, align)
            hs == b.holes
            L == {hs[i].len : i \in F}
<1>1. F \subseteq 1 .. Len(hs) /\ F # {}  BY DEF Fitting
<1>2. Len(hs) \in Nat /\ \A i \in 1 .. Len(hs) : hs[i].len \in Nat  BY HoleIs
<1>. HIDE DEF F
<1>3. PICK l \in L : \A x \in L : l <= x
  <2>1. L \in SUBSET Nat /\ L # {}  BY <1>1, <1>2
  <2>. HIDE DEF L
  <2>. QED  BY <2>1, LeastNumber
<1>. DEFINE I == {i \in F : hs[i].len = l}
<1>4. PICK i \in I : \A j \in I : i <= j
  <2>0. F \subseteq Nat /\ \E i \in F : hs[i].len = l  BY <1>1, <1>2
  <2>1. I \in SUBSET Nat /\ I # {}  BY <2>0
  <2>. HIDE DEF I
  <2>. QED  BY <2>1, LeastNumber
<1>5. i \in F /\ hs[i].len = l  OBVIOUS
<1>6. \A j \in F : \/ hs[i].len < hs[j].len
                   \/ hs[i].len = hs[j].len /\ i <= j
  <2>. SUFFICES ASSUME NEW j \in F
                PROVE  hs[i].len < hs[j].len \/ (hs[i].len = hs[j].len /\ i <= j)
    OBVIOUS
  <2>1. l <= hs[j].len  BY <1>3
  <2>2. hs[j].len \in Nat /\ l \in Nat  BY <1>1, <1>2, <1>5
  <2>3. CASE hs[j].len = l  BY <1>4, <1>5, <2>3
  <2>4. CASE hs[j].len # l  BY <1>5, <2>1, <2>2, <2>4
  <2>. QED  BY <2>3, <2>4
<1>. HIDE DEF I, hs
<1>. DEFINE best(k) == \A j \in F : \/ hs[k].len < hs[j].len
                                    \/ hs[k].len = hs[j].len /\ k <= j
<1>7. (CHOOSE k \in F : best(k)) \in F  BY <1>5, <1>6
<1>. QED  BY <1>7 DEF BestFit, F, hs

\* x lies in y
Inside(x, y) == x.off <= y.off /\ y.off - y.len <= x.off - x.len

LEMMA InsideApart ==
    ASSUME NEW r \in Region, NEW x \in Region, NEW y \in Region, Inside(x, y), Apart(r, y)
    PROVE  Apart(r, x)
BY DEF Region, Inside, Apart, Above

\* A list whose i-th hole gives way to holes inside it.
LEMMA SpliceKeeps ==
    ASSUME NEW hs \in Seq(Region), Separate(hs), NEW i \in 1 .. Len(hs),
           NEW m \in Seq(Region), Separate(m), \A k \in 1 .. Len(m) : Inside(m[k], hs[i])
    PROVE  LET w == SubSeq(hs, 1, i - 1) \o m \o SubSeq(hs, i + 1, Len(hs))
           IN  /\ w \in Seq(Region) /\ Separate(w)
               /\ \A j \in 1 .. Len(w) : \/ \E k \in 1 .. Len(hs) : k # i /\ w[j] = hs[k]
                                         \/ \E k \in 1 .. Len(m) : w[j] = m[k]
               /\ \A k \in 1 .. Len(hs) : k # i => \E j \in 1 .. Len(w) : w[j] = hs[k]
               /\ \A k \in 1 .. Len(m) : \E j \in 1 .. Len(w) : w[j] = m[k]
<1>. DEFINE n == Len(hs)
            d == Len(m)
            p == SubSeq(hs, 1, i - 1)
            q == SubSeq(hs, i + 1, Len(hs))
            w == p \o m \o q
<1>1. n \in Nat /\ d \in Nat /\ i \in Nat /\ i >= 1 /\ i <= n /\ i - 1 \in 0 .. Len(hs)
      /\ i + 1 \in 1 .. Len(hs) + 1
  BY HoleIs
<1>2. p \in Seq(Region) /\ Len(p) = i - 1 /\ \A j \in 1 .. i - 1 : p[j] = hs[j]
  BY <1>1, PrefixIs
<1>3. /\ q \in Seq(Region) /\ Len(q) = n - (i + 1) + 1
      /\ \A j \in 1 .. n - (i + 1) + 1 : q[j] = hs[(i + 1) + j - 1]
  BY <1>1, SuffixIs
<1>. HIDE DEF p, q
<1>4. /\ w \in Seq(Region) /\ Len(w) = Len(p) + Len(m) + Len(q)
      /\ \A j \in 1 .. Len(p) + Len(m) + Len(q) :
            w[j] = IF j <= Len(p) THEN p[j]
                   ELSE IF j <= Len(p) + Len(m) THEN m[j - Len(p)]
                   ELSE q[j - (Len(p) + Len(m))]
  <2>1. p \in Seq(Region) /\ m \in Seq(Region) /\ q \in Seq(Region)  BY <1>2, <1>3
  <2>. HIDE DEF n, d
  <2>. QED  BY <2>1, AroundIs
<1>. HIDE DEF w, n, d
<1>. DEFINE N == n - 1 + d
            old(j) == IF j < i THEN j ELSE j + 1 - d
<1>5. Len(w) = N  BY <1>1, <1>2, <1>3, <1>4 DEF d
<1>6. ASSUME NEW j \in 1 .. N
      PROVE  IF i <= j /\ j < i + d
             THEN j - (i - 1) \in 1 .. d /\ w[j] = m[j - (i - 1)]
             ELSE old(j) \in 1 .. n /\ old(j) # i /\ w[j] = hs[old(j)]
  <2>0. /\ j \in 1 .. Len(p) + Len(m) + Len(q) /\ j \in Nat
        /\ w[j] = IF j <= i - 1 THEN p[j] ELSE IF j <= i - 1 + d THEN m[j - (i - 1)]
                  ELSE q[j - (i - 1 + d)]
    <3>1. Len(p) = i - 1 /\ Len(m) = d /\ Len(q) = n - (i + 1) + 1  BY <1>2, <1>3 DEF d
    <3>2. Len(p) + Len(m) = i - 1 + d  BY <3>1
    <3>3. j \in 1 .. Len(p) + Len(m) + Len(q) /\ j \in Nat  BY <1>1, <3>1
    <3>. HIDE DEF N
    <3>. QED  BY <1>4, <3>1, <3>2, <3>3
  <2>1. CASE j < i
    <3>1. j <= i - 1 /\ j \in 1 .. i - 1 /\ j \in 1 .. n /\ j # i /\ ~(i <= j)  BY <1>1, <2>0, <2>1
    <3>. QED  BY <1>2, <2>0, <2>1, <3>1
  <2>2. CASE i <= j /\ j < i + d
    <3>1. ~(j <= i - 1) /\ j <= i - 1 + d /\ j - (i - 1) \in 1 .. d  BY <1>1, <2>0, <2>2
    <3>. QED  BY <2>0, <2>2, <3>1
  <2>3. CASE j >= i + d
    <3>1. /\ ~(j <= i - 1) /\ ~(j <= i - 1 + d) /\ ~(j < i) /\ ~(j < i + d)
          /\ j - (i - 1 + d) \in 1 .. n - (i + 1) + 1
          /\ (i + 1) + (j - (i - 1 + d)) - 1 = j + 1 - d
          /\ j + 1 - d \in 1 .. n /\ j + 1 - d # i
      BY <1>1, <2>0, <2>3
    <3>2. w[j] = hs[j + 1 - d]  BY <1>3, <2>0, <3>1
    <3>. QED  BY <2>3, <3>1, <3>2
  <2>. QED  BY <1>1, <2>0, <2>1, <2>2, <2>3
<1>7. \A j \in 1 .. N : \/ \E k \in 1 .. n : k # i /\ w[j] = hs[k]
                        \/ \E k \in 1 .. d : w[j] = m[k]
  BY <1>6
<1>8. /\ \A k \in 1 .. n : hs[k] \in Region /\ hs[k].len >= NODE /\ NODE <= hs[k].off - hs[k].len
      /\ \A k \in 1 .. d : m[k] \in Region /\ m[k].len >= NODE /\ NODE <= m[k].off - m[k].len
  BY HoleIs DEF Separate, n, d
<1>9. \A j \in 1 .. N : w[j].len >= NODE /\ NODE <= w[j].off - w[j].len
  BY <1>7, <1>8
<1>10. \A k \in 1 .. n, l \in 1 .. d : k # i => Apart(hs[k], m[l]) /\ Apart(m[l], hs[k])
  <2>. SUFFICES ASSUME NEW k \in 1 .. n, NEW l \in 1 .. d, k # i
                PROVE  Apart(hs[k], m[l])
    BY DEF Apart
  <2>1. Apart(hs[k], hs[i]) /\ Inside(m[l], hs[i])  BY DEF Separate, n, d
  <2>2. hs[k] \in Region /\ hs[i] \in Region /\ m[l] \in Region  BY <1>8 DEF n
  <2>. QED  BY <2>1, <2>2, InsideApart
<1>11. ASSUME NEW j \in 1 .. N, NEW k \in 1 .. N, j # k PROVE Apart(w[j], w[k])
  <2>. DEFINE mid(x) == i <= x /\ x < i + d
  <2>1. CASE mid(j) /\ mid(k)
    <3>1. j - (i - 1) # k - (i - 1)  BY <1>1, <1>11
    <3>. QED  BY <1>6, <2>1, <3>1 DEF Separate, d
  <2>2. CASE mid(j) /\ ~mid(k)  BY <1>6, <1>10, <2>2
  <2>3. CASE ~mid(j) /\ mid(k)  BY <1>6, <1>10, <2>3
  <2>4. CASE ~mid(j) /\ ~mid(k)
    <3>1. old(j) # old(k)  BY <1>1, <1>11, <2>4
    <3>2. /\ old(j) \in 1 .. n /\ w[j] = hs[old(j)]
          /\ old(k) \in 1 .. n /\ w[k] = hs[old(k)]
      BY <1>6, <2>4
    <3>. HIDE DEF old
    <3>. QED  BY <3>1, <3>2 DEF Separate, n
  <2>. QED  BY <2>1, <2>2, <2>3, <2>4
<1>12. Separate(w)  BY <1>5, <1>9, <1>11 DEF Separate
<1>13. ASSUME NEW k \in 1 .. n, k # i PROVE \E j \in 1 .. N : w[j] = hs[k]
  <2>1. CASE k < i
    <3>1. k \in 1 .. N /\ ~(i <= k) /\ old(k) = k  BY <1>1, <2>1
    <3>2. w[k] = hs[k]  BY <1>6, <3>1
    <3>. QED  BY <3>1, <3>2
  <2>2. CASE k > i
    <3>. DEFINE j == k - 1 + d
    <3>1. j \in 1 .. N /\ ~(j < i + d) /\ old(j) = k  BY <1>1, <2>2
    <3>. HIDE DEF j, old
    <3>2. w[j] = hs[k]  BY <1>6, <3>1
    <3>. QED  BY <3>1, <3>2
  <2>. QED  BY <1>1, <1>13, <2>1, <2>2
<1>14. ASSUME NEW k \in 1 .. d PROVE \E j \in 1 .. N : w[j] = m[k]
  <2>. DEFINE j == k + (i - 1)
  <2>1. j \in 1 .. N /\ i <= j /\ j < i + d /\ j - (i - 1) = k  BY <1>1
  <2>. HIDE DEF j
  <2>2. w[j] = m[k]  BY <1>6, <2>1
  <2>. QED  BY <2>1, <2>2
<1>. QED  BY <1>4, <1>5, <1>7, <1>12, <1>13, <1>14 DEF w, p, q, n, d

\* What is left of a hole lies in it, apart from what was taken.
LEMMA RestIs ==
    ASSUME NEW b, b.cap \in Nat, NEW hole \in Region, hole.off <= b.cap,
           NODE <= hole.off - hole.len, NEW start \in Nat, NEW span \in Nat,
           Addr(b, hole) <= start, start + span <= Addr(b, hole) + hole.len,
           NEW h, h = [off |-> b.cap - start, len |-> span]
    PROVE  LET m == Rest(b, hole, start, span)
           IN  /\ m \in Seq(Region) /\ Separate(m) /\ AllApart(h, m)
               /\ \A k \in 1 .. Len(m) : Inside(m[k], hole)
               /\ h \in Region /\ Inside(h, hole)
               /\ start - Addr(b, hole) >= NODE =>
                     \E k \in 1 .. Len(m) :
                        m[k] = [off |-> hole.off, len |-> start - Addr(b, hole)]
<1>. DEFINE above == start - Addr(b, hole)
            below == Addr(b, hole) + hole.len - (start + span)
            x == [off |-> hole.off, len |-> above]
            y == [off |-> b.cap - (start + span), len |-> below]
            A == IF above >= NODE THEN <<x>> ELSE <<>>
            B == IF below >= NODE THEN <<y>> ELSE <<>>
            m == A \o B
<1>1. hole.off \in Nat /\ hole.len \in Nat  BY DEF Region
<1>2. /\ h \in Region /\ x \in Region /\ y \in Region
      /\ h.off = b.cap - start /\ h.len = span
      /\ x.off = hole.off /\ x.len = above
      /\ y.off = b.cap - (start + span) /\ y.len = below
  <2>. DEFINE ho == b.cap - start
              yo == b.cap - (start + span)
  <2>1. above \in Nat /\ below \in Nat /\ ho \in Nat /\ yo \in Nat  BY <1>1 DEF Addr, NODE
  <2>2. h = [off |-> ho, len |-> span] /\ y = [off |-> yo, len |-> below]  OBVIOUS
  <2>. HIDE DEF above, below, ho, yo
  <2>3. h \in Region /\ x \in Region /\ y \in Region  BY <1>1, <2>1, <2>2 DEF Region
  <2>. QED  BY <2>2, <2>3 DEF ho, yo
<1>3. /\ Inside(h, hole) /\ Inside(x, hole) /\ Inside(y, hole)
      /\ Above(h, x) /\ Above(y, h) /\ Above(y, x)
      /\ NODE <= x.off - x.len /\ NODE <= y.off - y.len
  BY <1>1, <1>2 DEF Inside, Above, Addr, NODE
<1>. HIDE DEF x, y, above, below
<1>4. /\ A \in Seq(Region) /\ \A k \in 1 .. Len(A) : k = 1 /\ A[k] = x /\ x.len >= NODE
      /\ Len(A) \in {0, 1} /\ (above >= NODE => 1 \in 1 .. Len(A) /\ A[1] = x)
  <2>1. CASE above >= NODE
    <3>1. A = <<x>>  BY <2>1
    <3>2. A \in Seq(Region) /\ Len(A) = 1 /\ A[1] = x  BY <1>2, <3>1, OneIs
    <3>3. x.len >= NODE /\ 1 \in 1 .. 1  BY <1>2, <2>1
    <3>. HIDE DEF A
    <3>. QED  BY <3>2, <3>3
  <2>2. CASE ~(above >= NODE)
    <3>1. A = <<>>  BY <2>2
    <3>2. A \in Seq(Region) /\ Len(A) = 0  BY <3>1, EmptySeq
    <3>. HIDE DEF A
    <3>. QED  BY <2>2, <3>2
  <2>. QED  BY <2>1, <2>2
<1>5. /\ B \in Seq(Region) /\ \A k \in 1 .. Len(B) : k = 1 /\ B[k] = y /\ y.len >= NODE
      /\ Len(B) \in {0, 1}
  <2>1. CASE below >= NODE
    <3>1. B = <<y>>  BY <2>1
    <3>2. B \in Seq(Region) /\ Len(B) = 1 /\ B[1] = y  BY <1>2, <3>1, OneIs
    <3>3. y.len >= NODE  BY <1>2, <2>1
    <3>. HIDE DEF B
    <3>. QED  BY <3>2, <3>3
  <2>2. CASE ~(below >= NODE)
    <3>1. B = <<>>  BY <2>2
    <3>2. B \in Seq(Region) /\ Len(B) = 0  BY <3>1, EmptySeq
    <3>. HIDE DEF B
    <3>. QED  BY <3>2
  <2>. QED  BY <2>1, <2>2
<1>. HIDE DEF A, B
<1>6. /\ m \in Seq(Region) /\ Len(m) = Len(A) + Len(B)
      /\ \A k \in 1 .. Len(A) + Len(B) : m[k] = IF k <= Len(A) THEN A[k] ELSE B[k - Len(A)]
  BY <1>4, <1>5, ConcatProperties
<1>. HIDE DEF m
<1>7. ASSUME NEW k \in 1 .. Len(m)
      PROVE  \/ k <= Len(A) /\ k = 1 /\ m[k] = x /\ x.len >= NODE
             \/ ~(k <= Len(A)) /\ k = Len(A) + 1 /\ m[k] = y /\ y.len >= NODE
  <2>0. k \in 1 .. Len(A) + Len(B) /\ k \in Nat  BY <1>6
  <2>1. CASE k <= Len(A)
    <3>1. k \in 1 .. Len(A)  BY <1>4, <2>0, <2>1
    <3>. QED  BY <1>4, <1>6, <2>0, <2>1, <3>1
  <2>2. CASE ~(k <= Len(A))
    <3>1. k - Len(A) \in 1 .. Len(B)  BY <1>4, <1>5, <2>0, <2>2
    <3>2. k - Len(A) = 1 /\ B[k - Len(A)] = y /\ y.len >= NODE  BY <1>5, <3>1
    <3>3. k = Len(A) + 1  BY <1>4, <2>0, <3>2
    <3>. QED  BY <1>6, <2>0, <2>2, <3>2, <3>3
  <2>. QED  BY <2>1, <2>2
<1>8. \A k \in 1 .. Len(m) : (m[k] = x /\ x.len >= NODE) \/ (m[k] = y /\ y.len >= NODE)
  BY <1>7
<1>9. \A j, k \in 1 .. Len(m) : j # k => Apart(m[j], m[k])
  <2>. SUFFICES ASSUME NEW j \in 1 .. Len(m), NEW k \in 1 .. Len(m), j # k
                PROVE  Apart(m[j], m[k])
    OBVIOUS
  <2>1. CASE j <= Len(A) /\ k <= Len(A)  BY <1>7, <2>1
  <2>2. CASE j <= Len(A) /\ ~(k <= Len(A))  BY <1>3, <1>7, <2>2 DEF Apart
  <2>3. CASE ~(j <= Len(A)) /\ k <= Len(A)  BY <1>3, <1>7, <2>3 DEF Apart
  <2>4. CASE ~(j <= Len(A)) /\ ~(k <= Len(A))  BY <1>7, <2>4
  <2>. QED  BY <2>1, <2>2, <2>3, <2>4
<1>10. Separate(m)  BY <1>3, <1>8, <1>9 DEF Separate
<1>11. AllApart(h, m) /\ \A k \in 1 .. Len(m) : Inside(m[k], hole)
  BY <1>3, <1>8 DEF AllApart, Apart
<1>12. m = Rest(b, hole, start, span)  BY DEF Rest, m, A, B, x, y, above, below
<1>13. above >= NODE => \E k \in 1 .. Len(m) : m[k] = x
  <2>. SUFFICES ASSUME above >= NODE PROVE \E k \in 1 .. Len(m) : m[k] = x  OBVIOUS
  <2>1. 1 <= Len(A) /\ A[1] = x /\ 1 \in 1 .. Len(A) + Len(B)  BY <1>4, <1>5
  <2>2. m[1] = x  BY <1>6, <2>1
  <2>. QED  BY <1>6, <2>1, <2>2
<1>14. above >= NODE => \E k \in 1 .. Len(m) : m[k] = [off |-> hole.off, len |-> above]
  BY <1>13 DEF x
<1>. QED  BY <1>2, <1>3, <1>6, <1>10, <1>11, <1>12, <1>14 DEF above

\* What allocations promise: the region is nobody's, and no other is touched.
Served(b, m, size) ==
    /\ m.ok \in BOOLEAN
    /\ ~m.ok => m.b = b
    /\ m.ok =>
          /\ Good(m.b) /\ m.b.cap = b.cap /\ m.b.stack = b.stack /\ b.heap <= m.b.heap
          /\ m.h \in Region /\ Clear(m.b, m.h) /\ size <= m.h.len
          /\ \A r \in Region :
                Clear(b, r) => Clear(m.b, r) /\ Same(b, m.b, r) /\ Apart(r, m.h)
          /\ Tidy(b, m.b)
          /\ \A lim \in Nat : Within(b.holes, lim) /\ lim <= NODE + b.heap =>
                             Settled(m.b.holes, {m.h}, lim)

LEMMA TakeIs ==
    ASSUME NEW b, Good(b), NEW size \in Nat, NEW span \in Nat, NODE <= span, size <= span,
           NEW align \in Nat \ {0}, NEW i \in Fitting(b, span, align)
    PROVE  Served(b, TakeHole(b, i, span, align), size)
<1>. DEFINE hs == b.holes
            hole == hs[i]
            start == RoundUp(Addr(b, hole), align)
            rest == Rest(b, hole, start, span)
            holes == SubSeq(hs, 1, i - 1) \o rest \o SubSeq(hs, i + 1, Len(hs))
            crumb == IF start - Addr(b, hole) < NODE THEN Addr(b, hole) .. start - 1 ELSE {}
            w == [b EXCEPT !.mem = Paint(@, crumb, <<>>)]
            s == SyncHoles(w, holes)
            c == Serve(s, start, span)
            h == [off |-> b.cap - start, len |-> span]
            limit == NODE + b.heap
<1>1. /\ Shaped(b) /\ hs \in Seq(Region) /\ Separate(hs) /\ Within(hs, limit)
      /\ b.cap \in Nat /\ b.stack \in Nat /\ b.heap \in Nat /\ b.stack + b.heap + NODE <= b.cap
  BY DEF Good, Shaped
<1>2. i \in 1 .. Len(hs) /\ start + span <= Addr(b, hole) + hole.len  BY DEF Fitting
<1>3. /\ hole \in Region /\ hole.off \in Nat /\ hole.len \in Nat /\ hole.off <= limit
      /\ hole.len >= NODE /\ NODE <= hole.off - hole.len
  <2>1. hole.off <= limit /\ hole.len >= NODE /\ NODE <= hole.off - hole.len
    BY <1>1, <1>2 DEF Separate, Within
  <2>2. hs[i] \in Region /\ hs[i].off \in Nat /\ hs[i].len \in Nat
    <3>. HIDE DEF hs
    <3>. QED  BY <1>1, <1>2, HoleIs
  <2>. QED  BY <2>1, <2>2
<1>. HIDE DEF hole
<1>4. hole.off <= b.cap /\ Addr(b, hole) \in Nat
  <2>1. hole.off <= b.cap  BY <1>1, <1>3 DEF NODE, limit
  <2>2. Addr(b, hole) = b.cap - hole.off  BY DEF Addr
  <2>. QED  BY <1>1, <1>3, <2>1, <2>2
<1>5. start \in Nat /\ Addr(b, hole) <= start  BY <1>4, RoundUpIs
<1>. HIDE DEF start, h
<1>6. /\ rest \in Seq(Region) /\ Separate(rest) /\ AllApart(h, rest)
      /\ \A k \in 1 .. Len(rest) : Inside(rest[k], hole)
      /\ h \in Region /\ Inside(h, hole)
      /\ start - Addr(b, hole) >= NODE =>
            \E k \in 1 .. Len(rest) :
               rest[k] = [off |-> hole.off, len |-> start - Addr(b, hole)]
  <2>1. h = [off |-> b.cap - start, len |-> span]  BY DEF h
  <2>2. start + span <= Addr(b, hole) + hole.len  BY <1>2
  <2>3. b.cap \in Nat /\ hole \in Region /\ hole.off <= b.cap /\ NODE <= hole.off - hole.len
    BY <1>1, <1>3, <1>4
  <2>4. rest = Rest(b, hole, start, span)  OBVIOUS
  <2>. HIDE DEF rest, holes, crumb, w, s, c, limit, hs
  <2>5. LET m == Rest(b, hole, start, span)
        IN  /\ m \in Seq(Region) /\ Separate(m) /\ AllApart(h, m)
            /\ \A k \in 1 .. Len(m) : Inside(m[k], hole)
            /\ h \in Region /\ Inside(h, hole)
            /\ start - Addr(b, hole) >= NODE =>
                  \E k \in 1 .. Len(m) :
                     m[k] = [off |-> hole.off, len |-> start - Addr(b, hole)]
    BY <1>5, <2>1, <2>2, <2>3, RestIs
  <2>. QED  BY <2>4, <2>5
<1>. HIDE DEF rest
<1>7. /\ holes \in Seq(Region) /\ Separate(holes)
      /\ \A j \in 1 .. Len(holes) : \/ \E k \in 1 .. Len(hs) : k # i /\ holes[j] = hs[k]
                                    \/ \E k \in 1 .. Len(rest) : holes[j] = rest[k]
      /\ \A k \in 1 .. Len(hs) : k # i => \E j \in 1 .. Len(holes) : holes[j] = hs[k]
      /\ \A k \in 1 .. Len(rest) : \E j \in 1 .. Len(holes) : holes[j] = rest[k]
  <2>1. \A k \in 1 .. Len(rest) : Inside(rest[k], hs[i])  BY <1>6 DEF hole
  <2>. HIDE DEF hs
  <2>. QED  BY <1>1, <1>2, <1>6, <2>1, SpliceKeeps
<1>. HIDE DEF holes
<1>8. Within(holes, limit)
  <2>1. \A k \in 1 .. Len(rest) : rest[k].off <= limit
    <3>1. \A k \in 1 .. Len(rest) : rest[k].off \in Nat /\ rest[k].off <= hole.off
      BY <1>6, HoleIs DEF Inside
    <3>. QED  BY <1>1, <1>3, <3>1 DEF NODE
  <2>. QED  BY <1>1, <1>7, <2>1 DEF Within
<1>9. /\ Shaped(w) /\ w.cap = b.cap /\ w.stack = b.stack /\ w.heap = b.heap
      /\ \A o \in 1 .. b.cap : At(w, o) = IF b.cap - o \in crumb THEN <<>> ELSE At(b, o)
  <2>1. Painted(b, w, crumb, <<>>)  BY DEF Painted
  <2>. HIDE DEF w, crumb
  <2>. QED  BY <1>1, <2>1, PaintIs
<1>. HIDE DEF w
<1>10. /\ Good(s) /\ s.holes = holes /\ s.cap = b.cap /\ s.stack = b.stack /\ s.heap = b.heap
       /\ \A r \in Region : InHeap(w, r) /\ AllApart(r, holes) => Clear(s, r) /\ Same(w, s, r)
       /\ \A o : Stray(s, o) => NODE < o /\ ~InHoles(holes, o) /\ At(s, o) = At(w, o)
  <2>1. Within(holes, NODE + w.heap)  BY <1>8, <1>9
  <2>. QED  BY <1>7, <1>9, <2>1, SyncIs
<1>. HIDE DEF s
<1>11. AllApart(h, holes)
  <2>1. \A k \in 1 .. Len(hs) : k # i => Apart(h, hs[k])
    <3>. SUFFICES ASSUME NEW k \in 1 .. Len(hs), k # i PROVE Apart(h, hs[k])  OBVIOUS
    <3>1. Apart(hs[k], hole) /\ hs[k] \in Region  BY <1>1, <1>2, HoleIs DEF Separate, hole
    <3>2. Apart(hs[k], h)  BY <1>3, <1>6, <3>1, InsideApart
    <3>. QED  BY <3>2 DEF Apart
  <2>. QED  BY <1>6, <1>7, <2>1 DEF AllApart
<1>12. InHeap(b, h)
  <2>1. h.len = span  BY DEF h
  <2>2. h.off <= hole.off /\ hole.off - hole.len <= h.off - h.len  BY <1>6 DEF Inside
  <2>3. h.off \in Nat /\ h.len \in Nat  BY <1>6 DEF Region
  <2>. DEFINE u == h.off
              n == h.len
              v == hole.off
              m == hole.len
              lim == NODE + b.heap
  <2>4. /\ u \in Nat /\ n \in Nat /\ v \in Nat /\ m \in Nat /\ lim \in Nat
        /\ NODE <= n /\ NODE <= v - m /\ v <= lim /\ u <= v /\ v - m <= u - n
    BY <1>1, <1>3, <2>1, <2>2, <2>3 DEF NODE, limit
  <2>. HIDE DEF u, n, v, m, lim
  <2>5. NODE <= n /\ NODE <= u - n /\ u <= lim  BY <2>4 DEF NODE
  <2>. QED  BY <2>5 DEF InHeap, u, n, lim
<1>13. Clear(s, h)  BY <1>10, <1>11, <1>12 DEF Clear, InHeap
<1>14. /\ Good(c) /\ c.cap = b.cap /\ c.stack = b.stack /\ c.heap = b.heap
       /\ \A r \in Region :
             Clear(s, r) => Clear(c, r) /\ (Apart(r, h) => Same(s, c, r))
       /\ c.holes = holes
       /\ \A o : Stray(c, o) => /\ b.cap - o \notin start .. start + span - 1
                                /\ Stray(s, o) /\ At(c, o) = At(s, o)
  <2>. DEFINE S == start .. start + span - 1
  <2>1. Painted(s, c, S, <<>>)  BY DEF Painted, Serve
  <2>. HIDE DEF c
  <2>2. /\ Shaped(c) /\ c.cap = s.cap /\ c.stack = s.stack /\ c.heap = s.heap
        /\ c.holes = s.holes
        /\ \A o \in 1 .. s.cap : At(c, o) = IF s.cap - o \in S THEN <<>> ELSE At(s, o)
        /\ \A o : Stray(c, o) => s.cap - o \notin S /\ Stray(s, o) /\ At(c, o) = At(s, o)
    <3>1. Shaped(s)  BY <1>10 DEF Good
    <3>. HIDE DEF S
    <3>. QED  BY <2>1, <3>1, PaintIs
  <2>3. ASSUME NEW o \in NODE .. NODE + s.heap, o \notin h.off - h.len + 1 .. h.off
        PROVE  At(c, o) = At(s, o)
    <3>1. o \in 1 .. s.cap /\ s.cap \in Nat  BY <1>1, <1>10 DEF NODE
    <3>2. h.len = span /\ h.off = s.cap - start  BY <1>10 DEF h
    <3>3. s.cap - o \notin S  BY <1>5, <2>3, <3>1, <3>2
    <3>. QED  BY <2>2, <3>1, <3>3
  <2>4. /\ Good(c)
        /\ \A r \in Region :
              Clear(s, r) => Clear(c, r) /\ (Apart(r, h) => Same(s, c, r))
    BY <1>6, <1>10, <1>13, <2>2, <2>3, KeepIs
  <2>. QED  BY <1>10, <2>2, <2>4
<1>. HIDE DEF c
<1>15. ASSUME NEW r \in Region, Clear(b, r)
       PROVE  Clear(c, r) /\ Same(b, c, r) /\ Apart(r, h)
  <2>1. CASE r = NoRegion
    <3>1. r.off = 0 /\ r.len = 0  BY <2>1 DEF NoRegion
    <3>2. h.off \in Nat /\ h.len \in Nat /\ 0 <= h.off - h.len
      BY <1>6, <1>12 DEF Region, InHeap, NODE
    <3>3. Apart(r, h)  BY <3>1, <3>2 DEF Apart, Above
    <3>4. r.off - r.len + 1 .. r.off = {}  BY <3>1
    <3>. QED  BY <2>1, <3>3, <3>4 DEF Clear, Same
  <2>2. CASE r # NoRegion
    <3>1. InHeap(b, r) /\ AllApart(r, hs)  BY <1>15, <2>2 DEF Clear
    <3>2. Apart(r, hole)  BY <1>2, <3>1 DEF AllApart, hole
    <3>3. Apart(r, h)  BY <1>3, <1>6, <3>2, InsideApart
    <3>4. AllApart(r, holes)
      <4>1. \A k \in 1 .. Len(rest) : Apart(r, rest[k])
        <5>1. \A k \in 1 .. Len(rest) : rest[k] \in Region  BY <1>6, HoleIs
        <5>. QED  BY <1>3, <1>6, <3>2, <5>1, InsideApart
      <4>. QED  BY <1>7, <3>1, <4>1 DEF AllApart
    <3>5. InHeap(w, r)  BY <1>9, <3>1 DEF InHeap
    <3>6. Clear(s, r) /\ Same(w, s, r)  BY <1>10, <3>4, <3>5
    <3>7. Clear(c, r) /\ Same(s, c, r)  BY <1>14, <3>3, <3>6
    <3>8. Same(b, w, r)
      <4>. SUFFICES ASSUME NEW o \in r.off - r.len + 1 .. r.off PROVE At(w, o) = At(b, o)
        BY DEF Same
      <4>1. r.off \in Nat /\ r.len \in Nat  BY DEF Region
      <4>2. o \in 1 .. b.cap  BY <1>1, <3>1, <4>1 DEF InHeap, NODE
      <4>3. r.off <= hole.off - hole.len \/ hole.off <= r.off - r.len
        BY <3>2 DEF Apart, Above
      <4>4. start <= Addr(b, hole) + hole.len  BY <1>2, <1>4, <1>5, <1>3
      <4>5. b.cap - o \notin Addr(b, hole) .. start - 1
        <5>. DEFINE k == b.cap
                    x == hole.off
                    l == hole.len
                    y == r.off
                    e == r.len
        <5>1. /\ k \in Nat /\ x \in Nat /\ l \in Nat /\ y \in Nat /\ e \in Nat /\ start \in Nat
              /\ y <= x - l \/ x <= y - e
              /\ y - e + 1 <= o /\ o <= y /\ start <= k - x + l /\ o \in Nat
          BY <1>1, <1>3, <1>5, <4>1, <4>2, <4>3, <4>4 DEF Addr
        <5>. HIDE DEF k, x, l, y, e
        <5>2. k - o \notin k - x .. start - 1  BY <5>1
        <5>. QED  BY <5>2 DEF Addr, k, x
      <4>6. b.cap - o \notin crumb  BY <4>5
      <4>. QED  BY <1>9, <4>2, <4>6
    <3>. QED  BY <3>3, <3>6, <3>7, <3>8 DEF Same
  <2>. QED  BY <2>1, <2>2
<1>16. Clear(c, h)  BY <1>6, <1>13, <1>14
<1>17. size <= h.len  BY DEF h
<1>. DEFINE m == [ok |-> TRUE, h |-> h, b |-> c]
<1>18. TakeHole(b, i, span, align) = m
  BY DEF TakeHole, h, c, s, w, holes, rest, start, hole
<1>19. m.ok = TRUE /\ m.h = h /\ m.b = c  OBVIOUS
<1>20. b.heap <= c.heap  BY <1>1, <1>14
<1>21. ASSUME NEW o, Stray(c, o) PROVE Stray(b, o) /\ At(c, o) = At(b, o)
  <2>1. /\ o \in 1 .. b.cap /\ o \in Nat /\ At(w, o) # <<>> /\ At(c, o) = At(w, o)
        /\ NODE < o /\ ~InHoles(holes, o) /\ b.cap - o \notin start .. start + span - 1
    <3>1. Stray(s, o) /\ At(c, o) = At(s, o) /\ b.cap - o \notin start .. start + span - 1
      BY <1>14, <1>21
    <3>. QED  BY <1>1, <1>10, <3>1 DEF Stray
  <2>2. b.cap - o \notin crumb /\ At(w, o) = At(b, o)  BY <1>9, <2>1
  <2>. DEFINE cap == b.cap
              x == hole.off
              l == hole.len
              y == [off |-> x, len |-> start - (cap - x)]
  <2>3. cap \in Nat /\ x \in Nat /\ l \in Nat /\ Addr(b, hole) = cap - x
        /\ start + span <= cap - x + l /\ cap - x <= start
    BY <1>1, <1>2, <1>3, <1>5 DEF Addr
  <2>4. start - (cap - x) < NODE => ~(cap - x <= cap - o /\ cap - o <= start - 1)
    BY <1>5, <2>1, <2>2, <2>3
  <2>5. start - (cap - x) >= NODE => ~Has(y, o)
    <3>. SUFFICES ASSUME start - (cap - x) >= NODE PROVE ~Has(y, o)  OBVIOUS
    <3>1. PICK k \in 1 .. Len(rest) : rest[k] = y  BY <1>6, <2>3
    <3>2. PICK j \in 1 .. Len(holes) : holes[j] = rest[k]  BY <1>7
    <3>. HIDE DEF y
    <3>. QED  BY <2>1, <3>1, <3>2 DEF InHoles
  <2>6. ASSUME NEW k \in 1 .. Len(hs), HasNode(hs[k], o) PROVE FALSE
    <3>1. CASE k # i
      <4>1. PICK j \in 1 .. Len(holes) : holes[j] = hs[k]  BY <1>7, <3>1
      <4>2. hs[k].len >= NODE /\ hs[k].off \in Nat /\ hs[k].len \in Nat
        <5>1. hs[k].len >= NODE  BY <1>1 DEF Separate
        <5>. HIDE DEF hs
        <5>. QED  BY <1>1, <5>1, HoleIs
      <4>3. \A p, q \in Nat : q >= NODE /\ p - NODE < o => p - q < o  BY <2>1 DEF NODE
      <4>4. Has(hs[k], o)  BY <2>6, <4>2, <4>3 DEF Has, HasNode
      <4>. QED  BY <2>1, <4>1, <4>4 DEF InHoles
    <3>2. CASE k = i
      <4>1. x - NODE < o /\ o <= x  BY <2>6, <3>2 DEF HasNode, hole
      <4>2. ~(start - (cap - x) >= NODE /\ cap - start < o)
        <5>1. y.off = x /\ y.len = start - (cap - x)  OBVIOUS
        <5>2. x - (start - (cap - x)) = cap - start  BY <1>5, <2>3
        <5>. HIDE DEF x, y
        <5>. QED  BY <2>5, <4>1, <5>1, <5>2 DEF Has
      <4>. HIDE DEF cap, x, l
      <4>3. ~(start <= cap - o /\ cap - o <= start + span - 1)
        BY <1>5, <2>1, <2>3 DEF cap
      <4>. QED  BY <1>5, <2>1, <2>3, <2>4, <4>1, <4>2, <4>3 DEF NODE
    <3>. QED  BY <3>1, <3>2
  <2>7. ~Marked(b, o)  BY <2>1, <2>6 DEF Marked, NODE
  <2>. QED  BY <2>1, <2>2, <2>7 DEF Stray
<1>22. Tidy(b, c)  BY <1>21 DEF Tidy
<1>23. ASSUME NEW lim \in Nat, Within(hs, lim) PROVE Settled(c.holes, {h}, lim)
  <2>1. hole.off <= lim  BY <1>2, <1>23 DEF Within, hole
  <2>2. \A r \in Region : Inside(r, hole) => r.off <= lim
    BY <1>3, <2>1 DEF Inside, Region
  <2>3. \A k \in 1 .. Len(rest) : rest[k].off <= lim
    <3>1. \A k \in 1 .. Len(rest) : rest[k] \in Region  BY <1>6, HoleIs
    <3>. QED  BY <1>6, <2>2, <3>1
  <2>4. h.off <= lim  BY <1>6, <2>2
  <2>. QED  BY <1>7, <1>14, <1>23, <2>3, <2>4 DEF Settled, Within
<1>24. \A lim \in Nat : Within(b.holes, lim) => Settled(c.holes, {h}, lim)  BY <1>23
<1>. HIDE DEF m
<1>. QED
  BY <1>6, <1>14, <1>15, <1>16, <1>17, <1>18, <1>19, <1>20, <1>22, <1>24 DEF Served

LEMMA ExtendIs ==
    ASSUME NEW b, Good(b), NEW size \in Nat, NEW span \in Nat, NODE <= span, size <= span,
           NEW align \in Nat \ {0}
    PROVE  Served(b, ExtendHeap(b, span, align), size)
<1>. DEFINE pad == (Bottom(b) - span) % align
            heap == b.heap + pad + span
            h == [off |-> NODE + heap, len |-> span]
            c == [b EXCEPT !.heap = heap]
            m == ExtendHeap(b, span, align)
            free == FreeBytes(b)
<1>1. /\ Shaped(b) /\ b.holes \in Seq(Region) /\ Separate(b.holes)
      /\ Within(b.holes, NODE + b.heap) /\ Threaded(b)
      /\ DOMAIN b = {"cap", "stack", "heap", "holes", "mem"}
      /\ b.cap \in Nat /\ b.stack \in Nat /\ b.heap \in Nat
  BY DEF Good, Shaped
<1>2. pad \in Nat
  <2>1. \A x \in Int : x % align \in Nat  OBVIOUS
  <2>2. Bottom(b) - span \in Int  BY <1>1 DEF Bottom, Floor, NODE
  <2>. QED  BY <2>1, <2>2
<1>3. CASE span > free \/ pad + span > free
  <2>1. m = [ok |-> FALSE, h |-> NoRegion, b |-> b]  BY <1>3 DEF ExtendHeap
  <2>. HIDE DEF m
  <2>2. m.ok = FALSE /\ m.b = b  BY <2>1
  <2>. QED  BY <2>2 DEF Served, m
<1>4. CASE ~(span > free \/ pad + span > free)
  <2>1. m = [ok |-> TRUE, h |-> h, b |-> c]  BY <1>4 DEF ExtendHeap
  <2>. HIDE DEF m, h, c, pad
  <2>2. m.ok = TRUE /\ m.h = h /\ m.b = c  BY <2>1
  <2>3. pad + span <= b.cap - NODE - b.heap - b.stack
    BY <1>1, <1>2, <1>4 DEF FreeBytes, Bottom, Floor, NODE
  <2>4. heap \in Nat /\ b.heap <= heap /\ b.stack + heap + NODE <= b.cap
    BY <1>1, <1>2, <2>3 DEF NODE
  <2>5. /\ c.cap = b.cap /\ c.stack = b.stack /\ c.heap = heap /\ c.holes = b.holes
        /\ c.mem = b.mem /\ DOMAIN c = DOMAIN b
    BY <1>1 DEF c
  <2>6. h.off = NODE + heap /\ h.len = span /\ h \in Region
    <3>1. NODE + heap \in Nat  BY <2>4 DEF NODE
    <3>. HIDE DEF heap
    <3>. QED  BY <3>1 DEF h, Region
  <2>7. \A o : At(c, o) = At(b, o)  BY <2>5 DEF At
  <2>8. /\ Good(c)
    <3>1. Shaped(c)  BY <1>1, <2>4, <2>5 DEF Shaped
    <3>2. Threaded(c)  BY <1>1, <2>5, <2>7 DEF Threaded
    <3>3. Within(c.holes, NODE + c.heap)
      <4>. SUFFICES ASSUME NEW i \in 1 .. Len(b.holes)
                    PROVE  b.holes[i].off <= NODE + heap
        BY <2>5 DEF Within
      <4>1. b.holes[i].off <= NODE + b.heap /\ b.holes[i].off \in Nat
        BY <1>1, HoleIs DEF Within
      <4>. QED  BY <1>1, <2>4, <4>1 DEF NODE
    <3>. QED  BY <1>1, <2>5, <3>1, <3>2, <3>3 DEF Good
  <2>9. ASSUME NEW r \in Region, r.off <= NODE + b.heap PROVE Above(r, h)
    <3>1. r.off \in Nat  BY DEF Region
    <3>2. h.off - h.len >= NODE + b.heap  BY <1>1, <1>2, <2>6 DEF NODE
    <3>. QED  BY <1>1, <2>4, <2>6, <2>9, <3>1, <3>2 DEF Above, NODE
  <2>10. AllApart(h, c.holes)
    <3>1. \A i \in 1 .. Len(b.holes) : b.holes[i] \in Region /\ b.holes[i].off <= NODE + b.heap
      BY <1>1, HoleIs DEF Within
    <3>. QED  BY <2>5, <2>9, <3>1 DEF AllApart, Apart
  <2>11. Clear(c, h)
    <3>1. h.len >= NODE /\ h.off <= NODE + c.heap  BY <2>4, <2>5, <2>6 DEF NODE
    <3>2. NODE <= h.off - h.len  BY <1>1, <1>2, <2>6 DEF NODE
    <3>. QED  BY <2>10, <3>1, <3>2 DEF Clear, InHeap
  <2>12. ASSUME NEW r \in Region, Clear(b, r)
         PROVE  Clear(c, r) /\ Same(b, c, r) /\ Apart(r, h)
    <3>1. r.off \in Nat /\ r.off <= NODE + b.heap
      BY <1>1, <2>12 DEF Region, Clear, InHeap, NoRegion, NODE
    <3>2. r.off <= NODE + c.heap  BY <1>1, <2>4, <2>5, <3>1 DEF NODE
    <3>3. Clear(c, r)  BY <2>5, <2>12, <3>2 DEF Clear, InHeap
    <3>. QED  BY <2>7, <2>9, <3>1, <3>3 DEF Same, Apart
  <2>14. Tidy(b, c)  BY <2>5, <2>7 DEF Tidy, Stray, Marked
  <2>15. ASSUME NEW lim \in Nat, Within(b.holes, lim), lim <= NODE + b.heap
         PROVE  Settled(c.holes, {h}, lim)
    <3>1. lim <= h.off - h.len  BY <1>1, <1>2, <2>6, <2>15 DEF NODE
    <3>. QED  BY <2>5, <2>15, <3>1 DEF Settled, Foot
  <2>. HIDE DEF heap
  <2>13. Served(b, m, size)
    BY <2>2, <2>4, <2>5, <2>6, <2>8, <2>11, <2>12, <2>14, <2>15 DEF Served
  <2>. QED  BY <2>13 DEF m
<1>. QED  BY <1>3, <1>4

LEMMA AllocIs ==
    ASSUME NEW b, Good(b), NEW size \in Nat, NEW align \in Nat \ {0}
    PROVE  Served(b, Alloc(b, size, align), size)
<1>1. CASE size = 0
  <2>. DEFINE m == [ok |-> TRUE, h |-> NoRegion, b |-> b]
  <2>1. Alloc(b, size, align) = m  BY <1>1 DEF Alloc
  <2>2. m.ok = TRUE /\ m.h = NoRegion /\ m.b = b  OBVIOUS
  <2>. HIDE DEF m
  <2>3. NoRegion \in Region /\ Clear(b, NoRegion) /\ NoRegion.len = 0
    BY NoneIs DEF NoRegion
  <2>4. b.heap <= b.heap  BY DEF Good, Shaped
  <2>5. \A r \in Region : Clear(b, r) => Apart(r, NoRegion)
    <3>. SUFFICES ASSUME NEW r \in Region, Clear(b, r) PROVE r.len <= r.off  BY NoneIs
    <3>. QED  BY DEF Clear, InHeap, NoRegion, NODE, Region
  <2>6. \A r : Same(b, b, r)  BY DEF Same
  <2>7. size <= NoRegion.len
    <3>1. 0 <= 0  OBVIOUS
    <3>. HIDE DEF NoRegion
    <3>. QED  BY <1>1, <2>3, <3>1
  <2>10. m.ok \in BOOLEAN  BY <2>2
  <2>11. Tidy(b, b)  BY DEF Tidy
  <2>12. \A lim \in Nat : Within(b.holes, lim) => Settled(b.holes, {NoRegion}, lim)
    BY DEF Settled, NoRegion
  <2>8. Served(b, m, size)
    <3>. HIDE DEF NoRegion
    <3>. QED  BY <2>2, <2>3, <2>4, <2>5, <2>6, <2>7, <2>10, <2>11, <2>12 DEF Served
  <2>. QED  BY <2>1, <2>8
<1>2. CASE size # 0
  <2>. DEFINE span == SpanOf(size)
  <2>1. span \in Nat /\ NODE <= span /\ size <= span  BY <1>2, SpanIs
  <2>. HIDE DEF span
  <2>2. CASE Fitting(b, span, align) # {}
    <3>1. BestFit(b, span, align) \in Fitting(b, span, align)  BY <2>2, BestIs DEF Good
    <3>2. Alloc(b, size, align) = TakeHole(b, BestFit(b, span, align), span, align)
      BY <1>2, <2>2 DEF Alloc, span
    <3>. QED  BY <2>1, <3>1, <3>2, TakeIs
  <2>3. CASE Fitting(b, span, align) = {}
    <3>1. Alloc(b, size, align) = ExtendHeap(b, span, align)  BY <1>2, <2>3 DEF Alloc, span
    <3>. QED  BY <2>1, <3>1, ExtendIs
  <2>. QED  BY <2>2, <2>3
<1>. QED  BY <1>1, <1>2

-----------------------------------------------------------------------------
(* The order of the freelist, which free keeps, and so does an allocation  *)
(* aligned to at most a node.                                              *)

\* offsets rise along the list, a node apart
Rising(hs) ==
    \A i, j \in 1 .. Len(hs) : i < j => hs[i].off + NODE <= hs[j].off - hs[j].len

\* offsets rise along the list
Ladder(hs) == \A i, j \in 1 .. Len(hs) : i < j => Above(hs[i], hs[j])

\* how many holes have a smaller offset
Lower(hs, o) == Cardinality({i \in 1 .. Len(hs) : hs[i].off < o})

\* The binary search of free: the holes with a smaller offset come first.
LEMMA BelowIs ==
    ASSUME NEW hs \in Seq(Region), Rising(hs), NEW o \in Nat
    PROVE  \E k \in 0 .. Len(hs) :
              Lower(hs, o) = k /\ \A i \in 1 .. Len(hs) : hs[i].off < o <=> i <= k
<1>. DEFINE n == Len(hs)
            S == {i \in 1 .. n : hs[i].off < o}
            T == {i \in 1 .. n : ~(hs[i].off < o)}
<1>1. n \in Nat /\ \A i \in 1 .. n : hs[i].off \in Nat /\ hs[i].len \in Nat  BY HoleIs
<1>2. \E k \in 0 .. n : \A i \in 1 .. n : hs[i].off < o <=> i <= k
  <2>1. CASE T = {}
    <3>1. n \in 0 .. n /\ \A i \in 1 .. n : i <= n  BY <1>1
    <3>2. \A i \in 1 .. n : hs[i].off < o  BY <2>1
    <3>. QED  BY <3>1, <3>2
  <2>2. CASE T # {}
    <3>1. PICK t \in T : \A i \in T : t <= i
      <4>1. T \in SUBSET Nat  BY <1>1
      <4>. HIDE DEF T
      <4>. QED  BY <2>2, <4>1, LeastNumber
    <3>2. t \in 1 .. n /\ ~(hs[t].off < o) /\ t \in Nat /\ t - 1 \in 0 .. n  BY <1>1
    <3>3. ASSUME NEW i \in 1 .. n PROVE hs[i].off < o <=> i <= t - 1
      <4>1. CASE i < t
        <5>1. i \notin T  BY <1>1, <3>1, <3>2, <4>1
        <5>2. i <= t - 1  BY <1>1, <3>2, <4>1
        <5>. QED  BY <5>1, <5>2
      <4>2. CASE i = t  BY <1>1, <3>2, <4>2
      <4>3. CASE t < i
        <5>1. hs[t].off + NODE <= hs[i].off - hs[i].len  BY <3>2, <4>3 DEF Rising
        <5>2. ~(hs[i].off < o)  BY <1>1, <3>2, <5>1 DEF NODE
        <5>3. ~(i <= t - 1)  BY <1>1, <3>2, <4>3
        <5>. QED  BY <5>2, <5>3
      <4>. QED  BY <1>1, <3>2, <4>1, <4>2, <4>3
    <3>. QED  BY <3>2, <3>3
  <2>. QED  BY <2>1, <2>2
<1>3. PICK k \in 0 .. n : \A i \in 1 .. n : hs[i].off < o <=> i <= k  BY <1>2
<1>4. S = 1 .. k
  <2>1. \A i \in 1 .. k : i \in 1 .. n /\ i <= k  BY <1>1
  <2>. QED  BY <1>1, <1>3, <2>1
<1>5. Cardinality(S) = k
  <2>1. k \in Nat /\ 1 \in Int  BY <1>1
  <2>2. Cardinality(1 .. k) = IF 1 <= k THEN k - 1 + 1 ELSE 0  BY <2>1, FS_Interval
  <2>. HIDE DEF S
  <2>. QED  BY <1>4, <2>1, <2>2
<1>6. S = {i \in 1 .. Len(hs) : hs[i].off < o}  OBVIOUS
<1>. HIDE DEF n, S
<1>. QED  BY <1>3, <1>5, <1>6 DEF n, Lower

\* A region clear of the holes goes in at its place.
LEMMA PlaceRises ==
    ASSUME NEW hs \in Seq(Region), Separate(hs), Rising(hs), NEW h \in Region,
           h.len >= NODE, AllApart(h, hs),
           NEW at, at = Lower(hs, h.off), NEW ins, ins = InsertAt(hs, at + 1, h)
    PROVE  ins \in Seq(Region) /\ Ladder(ins)
<1>. DEFINE n == Len(hs)
            from(x) == IF x < at + 1 THEN x ELSE x - 1
<1>1. n \in Nat /\ \A i \in 1 .. n : hs[i].off \in Nat /\ hs[i].len \in Nat /\ hs[i].len >= NODE
  BY HoleIs DEF Separate
<1>2. h.off \in Nat /\ h.len \in Nat  BY DEF Region
<1>3. at \in 0 .. n /\ \A i \in 1 .. n : hs[i].off < h.off <=> i <= at
  <2>1. \E k \in 0 .. Len(hs) :
              Lower(hs, h.off) = k /\ \A i \in 1 .. Len(hs) : hs[i].off < h.off <=> i <= k
    BY <1>2, BelowIs
  <2>. QED  BY <2>1
<1>4. /\ ins \in Seq(Region) /\ Len(ins) = n + 1
      /\ \A j \in 1 .. n + 1 :
            ins[j] = IF j < at + 1 THEN hs[j] ELSE IF j = at + 1 THEN h ELSE hs[j - 1]
  <2>. DEFINE k == at + 1
  <2>1. k \in 1 .. Len(hs) + 1 /\ ins = InsertAt(hs, k, h)  BY <1>1, <1>3
  <2>. HIDE DEF k
  <2>2. ins \in Seq(Region) /\ PutIn(ins, hs, k, h)  BY <2>1, HoleInserted
  <2>. QED  BY <2>2 DEF k, PutIn
<1>5. \A i \in 1 .. n : IF i <= at THEN Above(hs[i], h) ELSE Above(h, hs[i])
  <2>. SUFFICES ASSUME NEW i \in 1 .. n
                PROVE  IF i <= at THEN Above(hs[i], h) ELSE Above(h, hs[i])
    OBVIOUS
  <2>1. \A o, l, p, q \in Nat :
           l >= NODE /\ q >= NODE => /\ o < p => ~(p <= o - l)
                                     /\ ~(o < p) => ~(o <= p - q)
    BY DEF NODE
  <2>2. /\ hs[i].off < h.off => ~Above(h, hs[i])
        /\ ~(hs[i].off < h.off) => ~Above(hs[i], h)
    BY <1>1, <1>2, <2>1 DEF Above
  <2>3. Above(h, hs[i]) \/ Above(hs[i], h)  BY DEF AllApart, Apart
  <2>. QED  BY <1>3, <2>2, <2>3
<1>6. \A i, j \in 1 .. n : i < j => Above(hs[i], hs[j])
  <2>1. \A x, y, l \in Nat : x + NODE <= y - l => x <= y - l  BY DEF NODE
  <2>. QED  BY <1>1, <2>1 DEF Rising, Above
<1>. HIDE DEF n
<1>7. ASSUME NEW i \in 1 .. n + 1, NEW j \in 1 .. n + 1, i < j
      PROVE  Above(ins[i], ins[j])
  <2>0. at \in Nat /\ i \in Nat /\ j \in Nat  BY <1>1, <1>3
  <2>1. CASE j < at + 1
    <3>1. i < at + 1 /\ i \in 1 .. n /\ j \in 1 .. n  BY <1>1, <1>3, <1>7, <2>1
    <3>2. ins[i] = hs[i] /\ ins[j] = hs[j]  BY <1>4, <2>1, <3>1
    <3>. QED  BY <1>6, <1>7, <3>1, <3>2
  <2>2. CASE j = at + 1
    <3>1. i < at + 1 /\ i <= at /\ i \in 1 .. n /\ ~(j < at + 1)  BY <1>1, <1>3, <1>7, <2>0, <2>2
    <3>2. ins[i] = hs[i] /\ ins[j] = h  BY <1>4, <2>2, <3>1
    <3>. QED  BY <1>5, <3>1, <3>2
  <2>3. CASE j > at + 1
    <3>1. ~(j < at + 1) /\ j # at + 1 /\ j - 1 \in 1 .. n /\ ~(j - 1 <= at)
      BY <1>1, <1>3, <2>0, <2>3
    <3>2. ins[j] = hs[j - 1]  BY <1>4, <3>1
    <3>3. CASE i < at + 1
      <4>1. i \in 1 .. n /\ i < j - 1  BY <1>1, <1>3, <2>0, <2>3, <3>3
      <4>2. ins[i] = hs[i]  BY <1>4, <3>3
      <4>. QED  BY <1>6, <3>1, <3>2, <4>1, <4>2
    <3>4. CASE i = at + 1
      <4>1. ~(i < at + 1)  BY <2>0, <3>4
      <4>2. ins[i] = h  BY <1>4, <3>4, <4>1
      <4>. QED  BY <1>5, <3>1, <3>2, <4>2
    <3>5. CASE i > at + 1
      <4>1. i - 1 \in 1 .. n /\ i - 1 < j - 1 /\ ~(i < at + 1) /\ i # at + 1
        BY <1>1, <1>7, <2>0, <3>5
      <4>2. ins[i] = hs[i - 1]  BY <1>4, <4>1
      <4>. QED  BY <1>6, <3>1, <3>2, <4>1, <4>2
    <3>. QED  BY <2>0, <3>3, <3>4, <3>5
  <2>. QED  BY <2>0, <2>1, <2>2, <2>3
<1>. QED  BY <1>4, <1>7 DEF Ladder

\* every hole of w has the offset of h or of a hole of m
OffsFrom(w, m, h) ==
    \A j \in 1 .. Len(w) : w[j].off = h.off \/ \E i \in 1 .. Len(m) : w[j].off = m[i].off

\* Join keeps the order, and the offsets.
LEMMA JoinRises ==
    ASSUME NEW m \in Seq(Region), Rising(m), NEW h \in Region,
           \A j \in 1 .. Len(m) : Above(m[j], h),
           NEW w, w = Join(m, h)
    PROVE  w \in Seq(Region) /\ Rising(w) /\ OffsFrom(w, m, h)
<1>. DEFINE n == Len(m)
            gap == h.off - h.len - m[n].off
            e == [off |-> h.off, len |-> m[n].len + h.len + gap]
<1>1. /\ n \in Nat /\ h.off \in Nat /\ h.len \in Nat
      /\ \A i \in 1 .. n : m[i] \in Region /\ m[i].off \in Nat /\ m[i].len \in Nat
  BY HoleIs DEF Region
<1>2. CASE n > 0 /\ gap \in 0 .. NODE - 1
  <2>0. n \in 1 .. n  BY <1>1, <1>2
  <2>1. /\ e \in Region /\ e.off = h.off
        /\ e.off - e.len = m[n].off - m[n].len
    BY <1>1, <1>2, <2>0 DEF Region
  <2>2. w = [m EXCEPT ![n] = e]  BY <1>2 DEF Join
  <2>. HIDE DEF e, gap
  <2>3. /\ w \in Seq(Region) /\ Len(w) = n /\ w[n] = e
        /\ \A i \in 1 .. n : i # n => w[i] = m[i]
    BY <2>0, <2>1, <2>2, ExceptSeq
  <2>4. ASSUME NEW i \in 1 .. n, NEW j \in 1 .. n, i < j
        PROVE  w[i].off + NODE <= w[j].off - w[j].len
    <3>1. i # n  BY <1>1, <2>4
    <3>2. w[i] = m[i]  BY <2>3, <3>1
    <3>3. m[i].off + NODE <= m[j].off - m[j].len  BY <2>4 DEF Rising
    <3>4. w[j].off - w[j].len = m[j].off - m[j].len  BY <2>1, <2>3
    <3>. QED  BY <3>2, <3>3, <3>4
  <2>5. \A j \in 1 .. n : w[j].off = h.off \/ \E i \in 1 .. n : w[j].off = m[i].off
    BY <2>1, <2>3
  <2>. QED  BY <2>3, <2>4, <2>5 DEF Rising, OffsFrom
<1>3. CASE ~(n > 0 /\ gap \in 0 .. NODE - 1)
  <2>1. w = Append(m, h)  BY <1>3 DEF Join
  <2>2. \A i \in 1 .. n : m[i].off + NODE <= h.off - h.len
    <3>. SUFFICES ASSUME NEW i \in 1 .. n PROVE m[i].off + NODE <= h.off - h.len  OBVIOUS
    <3>0. n \in 1 .. n /\ n > 0  BY <1>1
    <3>1. m[n].off <= h.off - h.len  BY <3>0 DEF Above
    <3>2. m[n].off + NODE <= h.off - h.len
      <4>1. m[n].off \in Nat /\ ~(h.off - h.len - m[n].off \in 0 .. NODE - 1)
        BY <1>1, <1>3, <3>0
      <4>2. \A x, y, l \in Nat :
               x <= y - l /\ ~(y - l - x \in 0 .. NODE - 1) => x + NODE <= y - l
        BY DEF NODE
      <4>. HIDE DEF n, gap
      <4>. QED  BY <1>1, <3>1, <4>1, <4>2
    <3>3. i = n \/ m[i].off + NODE <= m[n].off - m[n].len
      <4>1. i = n \/ i < n  BY <1>1
      <4>. QED  BY <3>0, <4>1 DEF Rising
    <3>4. /\ m[n].off \in Nat /\ m[n].len \in Nat /\ m[i].off \in Nat  BY <1>1, <3>0
    <3>5. CASE i = n  BY <3>2, <3>5
    <3>6. CASE i # n
      <4>. DEFINE x == m[i].off
                  z == m[n].off
                  l == m[n].len
      <4>1. /\ x \in Nat /\ z \in Nat /\ l \in Nat
            /\ x + NODE <= z - l /\ z + NODE <= h.off - h.len
        BY <3>2, <3>3, <3>4, <3>6
      <4>. HIDE DEF x, z, l, n, gap
      <4>2. x + NODE <= h.off - h.len  BY <1>1, <4>1 DEF NODE
      <4>. QED  BY <4>2 DEF x
    <3>. QED  BY <3>5, <3>6
  <2>. HIDE DEF gap
  <2>3. /\ w \in Seq(Region) /\ Len(w) = n + 1 /\ w[n + 1] = h
        /\ \A i \in 1 .. n : w[i] = m[i]
    BY <2>1, AppendProperties
  <2>4. \A j \in 1 .. n + 1 : j = n + 1 \/ j \in 1 .. n  BY <1>1
  <2>5. ASSUME NEW i \in 1 .. n + 1, NEW j \in 1 .. n + 1, i < j
        PROVE  w[i].off + NODE <= w[j].off - w[j].len
    <3>1. i \in 1 .. n  BY <1>1, <2>5
    <3>2. CASE j = n + 1  BY <2>2, <2>3, <3>1, <3>2
    <3>3. CASE j \in 1 .. n  BY <2>3, <2>5, <3>1, <3>3 DEF Rising
    <3>. QED  BY <2>4, <3>2, <3>3
  <2>6. \A j \in 1 .. n + 1 : w[j].off = h.off \/ \E i \in 1 .. n : w[j].off = m[i].off
    BY <2>3, <2>4
  <2>. QED  BY <2>3, <2>5, <2>6 DEF Rising, OffsFrom
<1>. QED  BY <1>2, <1>3

\* The fold of free puts the holes in order.
LEMMA JoinAllRises ==
    ASSUME NEW hs \in Seq(Region), Ladder(hs)
    PROVE  Rising(FoldLeft(Join, <<>>, hs))
<1>. DEFINE n == Len(hs)
<1>1. PICK m : Steps(m, "join", 0, <<>>, hs) /\ FoldLeft(Join, <<>>, hs) = m[Len(hs)]
  BY JoinSteps
<1>2. n \in Nat /\ \A i \in 1 .. n : hs[i] \in Region  BY HoleIs
<1>. DEFINE fine(k) ==
              /\ m[k] \in Seq(Region) /\ Rising(m[k])
              /\ \A j \in 1 .. Len(m[k]) : \E i \in 1 .. k : m[k][j].off = hs[i].off
            S == {k \in 0 .. n : fine(k)}
<1>3. 0 \in S
  <2>1. m[0] = <<>>  BY <1>1 DEF Steps
  <2>2. <<>> \in Seq(Region) /\ Len(<<>>) = 0  BY EmptySeq
  <2>3. fine(0)  BY <2>1, <2>2 DEF Rising
  <2>. QED  BY <1>2, <2>3
<1>4. ASSUME NEW k \in 0 + 1 .. n, k - 1 \in S PROVE k \in S
  <2>0. /\ k \in 1 .. n /\ k \in 0 .. n /\ k \in 1 .. k
        /\ \A i \in 1 .. k - 1 : i \in 1 .. n /\ i < k /\ i \in 1 .. k
    BY <1>2
  <2>. DEFINE u == m[k - 1]
              w == m[k]
  <2>1. w = Join(u, hs[k])  BY <1>1, <2>0 DEF Steps, Folded
  <2>2. /\ u \in Seq(Region) /\ Rising(u)
        /\ \A j \in 1 .. Len(u) : \E i \in 1 .. k - 1 : u[j].off = hs[i].off
    BY <1>4
  <2>3. \A j \in 1 .. Len(u) : Above(u[j], hs[k])
    BY <2>0, <2>2 DEF Ladder, Above
  <2>4. hs[k] \in Region  BY <1>2, <2>0
  <2>. DEFINE h == hs[k]
  <2>. HIDE DEF u, w, h
  <2>5. w \in Seq(Region) /\ Rising(w) /\ OffsFrom(w, u, h)
    <3>1. w = Join(u, h) /\ h \in Region /\ \A j \in 1 .. Len(u) : Above(u[j], h)
      BY <2>1, <2>3, <2>4 DEF h
    <3>. QED  BY <2>2, <3>1, JoinRises
  <2>6. \A j \in 1 .. Len(w) : \E i \in 1 .. k : w[j].off = hs[i].off
    BY <2>0, <2>2, <2>5 DEF h, OffsFrom
  <2>7. fine(k)  BY <2>5, <2>6 DEF w
  <2>. QED  BY <2>0, <2>7
<1>. HIDE DEF S
<1>5. 0 .. n \subseteq S  BY <1>2, <1>3, <1>4, Upwards
<1>6. fine(n)  BY <1>2, <1>5 DEF S
<1>. QED  BY <1>1, <1>6

LEMMA SyncHolesAre ==
    ASSUME NEW b, Shaped(b), NEW hs
    PROVE  SyncHoles(b, hs).holes = hs
BY DEF SyncHoles, Shaped

\* free keeps the freelist in order.
LEMMA FreeRises ==
    ASSUME NEW b, Good(b), Rising(b.holes), NEW h \in Region, Clear(b, h)
    PROVE  Rising(Free(b, h).holes)
<1>1. CASE h.len = 0
  <2>1. Free(b, h) = b  BY <1>1 DEF Free
  <2>. QED  BY <2>1
<1>2. CASE h.len # 0
  <2>. DEFINE hs  == b.holes
              at  == Cardinality({i \in 1 .. Len(hs) : hs[i].off < h.off})
              ins == InsertAt(hs, at + 1, h)
              w   == FoldLeft(Join, <<>>, ins)
  <2>1. Free(b, h) = SyncHoles(b, w)  BY <1>2 DEF Free
  <2>2. InHeap(b, h) /\ AllApart(h, hs)
    <3>1. h # NoRegion  BY <1>2 DEF NoRegion
    <3>. QED  BY <3>1 DEF Clear
  <2>3. Shaped(b) /\ hs \in Seq(Region) /\ Separate(hs) /\ Rising(hs)  BY DEF Good
  <2>4. at = Lower(hs, h.off) /\ h.len >= NODE  BY <2>2 DEF InHeap, Lower
  <2>. HIDE DEF at, hs
  <2>5. ins = InsertAt(hs, at + 1, h)  OBVIOUS
  <2>. HIDE DEF ins
  <2>6. ins \in Seq(Region) /\ Ladder(ins)  BY <2>2, <2>3, <2>4, <2>5, PlaceRises
  <2>7. Rising(w)  BY <2>6, JoinAllRises
  <2>. HIDE DEF w
  <2>8. Free(b, h).holes = w  BY <2>1, <2>3, SyncHolesAre
  <2>. QED  BY <2>7, <2>8
<1>. QED  BY <1>1, <1>2

LEMMA RoundUpNear ==
    ASSUME NEW n \in Nat, NEW a \in Nat \ {0}
    PROVE  RoundUp(n, a) < n + a
BY DEF RoundUp

\* A hole that gives way to none or to one.
LEMMA HoleSpliced ==
    ASSUME NEW hs \in Seq(Region), NEW i \in 1 .. Len(hs), NEW y \in Region, NEW m,
           m = <<>> \/ m = <<y>>
    PROVE  Splice(hs, i, m) \in Seq(Region) /\ Spliced(Splice(hs, i, m), hs, i, Ones(m), y)
BY SpliceIs

\* The place of a hole taken by none or by one inside it.
LEMMA SpliceRises ==
    ASSUME NEW hs \in Seq(Region), Rising(hs), NEW i \in 1 .. Len(hs),
           NEW y \in Region, Inside(y, hs[i]), NEW m, m = <<>> \/ m = <<y>>,
           NEW w, w = Splice(hs, i, m)
    PROVE  w \in Seq(Region) /\ Rising(w)
<1>. DEFINE n == Len(hs)
            k == Ones(m)
            old(j) == IF j < i THEN j ELSE j + 1 - k
            mid(j) == k = 1 /\ j = i
<1>1. /\ n \in Nat /\ i \in Nat /\ y.off \in Nat /\ y.len \in Nat
      /\ \A j \in 1 .. n : hs[j].off \in Nat /\ hs[j].len \in Nat
  <2>1. n \in Nat /\ \A j \in 1 .. n : hs[j].off \in Nat /\ hs[j].len \in Nat  BY HoleIs
  <2>2. y.off \in Nat /\ y.len \in Nat  BY DEF Region
  <2>. QED  BY <2>1, <2>2
<1>2. /\ w \in Seq(Region) /\ Len(w) = n - 1 + k /\ k \in {0, 1}
      /\ \A j \in 1 .. n - 1 + k :
            w[j] = IF j < i THEN hs[j] ELSE IF k = 1 /\ j = i THEN y ELSE hs[j + 1 - k]
  BY HoleSpliced DEF Spliced
<1>3. k \in {0, 1}  BY <1>2
<1>. HIDE DEF k, n
<1>4. \A j \in 1 .. n - 1 + k :
         IF mid(j) THEN w[j] = y
         ELSE old(j) \in 1 .. n /\ old(j) # i /\ w[j] = hs[old(j)]
  <2>. SUFFICES ASSUME NEW j \in 1 .. n - 1 + k
                PROVE  IF mid(j) THEN w[j] = y
                       ELSE old(j) \in 1 .. n /\ old(j) # i /\ w[j] = hs[old(j)]
    OBVIOUS
  <2>0. j \in Nat /\ i \in 1 .. n  BY <1>1, <1>3 DEF n
  <2>1. CASE j < i
    <3>1. j \in 1 .. n /\ j # i  BY <1>1, <2>0, <2>1
    <3>. QED  BY <1>2, <2>1, <3>1
  <2>2. CASE mid(j)
    <3>1. ~(j < i)  BY <1>1, <2>2
    <3>. QED  BY <1>2, <2>2, <3>1
  <2>3. CASE ~(j < i) /\ ~mid(j)
    <3>1. j + 1 - k \in 1 .. n /\ j + 1 - k # i  BY <1>1, <1>3, <2>0, <2>3
    <3>. QED  BY <1>2, <2>3, <3>1
  <2>. QED  BY <2>1, <2>2, <2>3
<1>5. /\ \A j \in 1 .. n : j < i => hs[j].off + NODE <= y.off - y.len
      /\ \A j \in 1 .. n : i < j => y.off + NODE <= hs[j].off - hs[j].len
  <2>. SUFFICES ASSUME NEW j \in 1 .. n
                PROVE  /\ j < i => hs[j].off + NODE <= y.off - y.len
                       /\ i < j => y.off + NODE <= hs[j].off - hs[j].len
    OBVIOUS
  <2>. DEFINE a == hs[i].off
              d == hs[i].len
              o == hs[j].off
              l == hs[j].len
              p == y.off
              q == y.len
  <2>1. /\ a \in Nat /\ d \in Nat /\ o \in Nat /\ l \in Nat /\ p \in Nat /\ q \in Nat
        /\ p <= a /\ a - d <= p - q
        /\ j < i => o + NODE <= a - d
        /\ i < j => a + NODE <= o - l
    BY <1>1 DEF Inside, Rising, n
  <2>. HIDE DEF a, d, o, l, p, q
  <2>2. (j < i => o + NODE <= p - q) /\ (i < j => p + NODE <= o - l)
    BY <2>1 DEF NODE
  <2>. QED  BY <2>2 DEF o, l, p, q
<1>6. ASSUME NEW j \in 1 .. n - 1 + k, NEW l \in 1 .. n - 1 + k, j < l
      PROVE  w[j].off + NODE <= w[l].off - w[l].len
  <2>0. j \in Nat /\ l \in Nat /\ i \in 1 .. n  BY <1>1, <1>3 DEF n
  <2>1. CASE mid(j)
    <3>1. ~mid(l) /\ old(l) > i  BY <1>1, <1>3, <1>6, <2>0, <2>1
    <3>2. w[j] = y /\ old(l) \in 1 .. n /\ w[l] = hs[old(l)]  BY <1>4, <2>1, <3>1
    <3>. HIDE DEF old, mid
    <3>. QED  BY <1>1, <1>5, <2>0, <3>1, <3>2
  <2>2. CASE mid(l)
    <3>1. ~mid(j) /\ old(j) < i  BY <1>1, <1>3, <1>6, <2>0, <2>2
    <3>2. w[l] = y /\ old(j) \in 1 .. n /\ w[j] = hs[old(j)]  BY <1>4, <2>2, <3>1
    <3>. HIDE DEF old, mid
    <3>. QED  BY <1>5, <3>1, <3>2
  <2>3. CASE ~mid(j) /\ ~mid(l)
    <3>1. old(j) < old(l)
      <4>1. CASE k = 0  BY <1>6, <2>0, <4>1
      <4>2. CASE k = 1  BY <1>1, <1>6, <2>0, <2>3, <4>2
      <4>. QED  BY <1>3, <4>1, <4>2
    <3>2. /\ old(j) \in 1 .. n /\ w[j] = hs[old(j)]
          /\ old(l) \in 1 .. n /\ w[l] = hs[old(l)]
      BY <1>4, <2>3
    <3>. HIDE DEF old, mid
    <3>. QED  BY <3>1, <3>2 DEF Rising, n
  <2>. QED  BY <2>1, <2>2, <2>3
<1>. QED  BY <1>2, <1>6 DEF Rising

\* the i-th hole of hs gave h, less than a node below its top, and left y under
\* it, which stays a hole if it holds a node
Parts(hs, i, ws, h, y) ==
    /\ i \in 1 .. Len(hs) /\ h \in Region /\ y \in Region /\ Inside(y, hs[i])
    /\ ws = Splice(hs, i, IF y.len >= NODE THEN <<y>> ELSE <<>>)
    /\ h.off <= hs[i].off /\ hs[i].off < h.off + NODE
    /\ y.off = h.off - h.len /\ y.off - y.len = hs[i].off - hs[i].len

\* A hole taken for a request aligned to at most a node leaves one part at most.
LEMMA TakeParts ==
    ASSUME NEW b, Good(b), NEW span \in Nat,
           NEW align \in Nat \ {0}, align <= NODE, NEW i \in Fitting(b, span, align)
    PROVE  LET m == TakeHole(b, i, span, align)
           IN  \E y : Parts(b.holes, i, m.b.holes, m.h, y) /\ m.h.len = span
<1>. DEFINE hs == b.holes
            hole == hs[i]
            start == RoundUp(Addr(b, hole), align)
            rest == Rest(b, hole, start, span)
            holes == SubSeq(hs, 1, i - 1) \o rest \o SubSeq(hs, i + 1, Len(hs))
            crumb == IF start - Addr(b, hole) < NODE THEN Addr(b, hole) .. start - 1 ELSE {}
            w == [b EXCEPT !.mem = Paint(@, crumb, <<>>)]
            s == SyncHoles(w, holes)
            c == Serve(s, start, span)
            below == Addr(b, hole) + hole.len - (start + span)
            yo == b.cap - (start + span)
            y == [off |-> yo, len |-> below]
<1>1. /\ Shaped(b) /\ hs \in Seq(Region)
      /\ b.cap \in Nat /\ b.stack \in Nat /\ b.heap \in Nat /\ b.stack + b.heap + NODE <= b.cap
  BY DEF Good, Shaped
<1>2. i \in 1 .. Len(hs) /\ start + span <= Addr(b, hole) + hole.len  BY DEF Fitting
<1>3. /\ hole \in Region /\ hole.off \in Nat /\ hole.len \in Nat /\ hole.off <= b.cap
      /\ hole.len <= hole.off
  <2>1. hole.off <= NODE + b.heap /\ NODE <= hole.off - hole.len
    BY <1>2 DEF Good, Separate, Within
  <2>2. hs[i] \in Region /\ hs[i].off \in Nat /\ hs[i].len \in Nat
    <3>. HIDE DEF hs
    <3>. QED  BY <1>1, <1>2, HoleIs
  <2>3. hole \in Region /\ hole.off \in Nat /\ hole.len \in Nat  BY <2>2
  <2>. HIDE DEF hole, hs
  <2>4. \A o, l, k, h, f \in Nat :
           o <= NODE + h /\ NODE <= o - l /\ f + h + NODE <= k => o <= k /\ l <= o
    BY DEF NODE
  <2>. QED  BY <1>1, <2>1, <2>3, <2>4
<1>. HIDE DEF hole
<1>4. Addr(b, hole) \in Nat /\ Addr(b, hole) = b.cap - hole.off  BY <1>1, <1>3 DEF Addr
<1>5. start \in Nat /\ Addr(b, hole) <= start /\ start < Addr(b, hole) + align
  BY <1>4, RoundUpIs, RoundUpNear
<1>. HIDE DEF start, hs
<1>6. y \in Region /\ Inside(y, hs[i])
  <2>1. below \in Nat /\ yo \in Nat /\ yo <= hole.off /\ hole.off - hole.len = yo - below
    <3>. DEFINE a == Addr(b, hole)
                k == b.cap
                o == hole.off
                l == hole.len
    <3>1. /\ k \in Nat /\ o \in Nat /\ l \in Nat /\ o <= k /\ l <= o /\ start \in Nat
          /\ a = k - o /\ a <= start /\ start + span <= a + l
      BY <1>1, <1>2, <1>3, <1>4, <1>5
    <3>. HIDE DEF a, k, o, l
    <3>2. /\ a + l - (start + span) \in Nat /\ k - (start + span) \in Nat
          /\ k - (start + span) <= o
          /\ o - l = k - (start + span) - (a + l - (start + span))
      BY <3>1
    <3>. QED  BY <3>2 DEF a, k, o, l
  <2>. HIDE DEF below, yo
  <2>2. y \in Region /\ y.off = yo /\ y.len = below  BY <2>1 DEF Region
  <2>. HIDE DEF y
  <2>. QED  BY <1>1, <1>3, <2>1, <2>2 DEF Inside, hole
<1>7. rest = IF y.len >= NODE THEN <<y>> ELSE <<>>
  <2>1. ~(start - Addr(b, hole) >= NODE)  BY <1>4, <1>5 DEF NODE
  <2>2. rest = <<>> \o (IF below >= NODE THEN <<y>> ELSE <<>>)  BY <2>1 DEF Rest
  <2>3. <<y>> \in Seq(Region) /\ <<>> \in Seq(Region)
    <3>. HIDE DEF y
    <3>. QED  BY <1>6, OneIs, EmptySeq
  <2>6. y.len = below  OBVIOUS
  <2>. HIDE DEF rest, y, below
  <2>4. CASE below >= NODE
    <3>1. rest = <<>> \o <<y>>  BY <2>2, <2>4
    <3>2. rest = <<y>>  BY <2>3, <3>1, ConcatEmptySeq
    <3>. QED  BY <2>4, <2>6, <3>2
  <2>5. CASE ~(below >= NODE)
    <3>1. rest = <<>> \o <<>>  BY <2>2, <2>5
    <3>2. rest = <<>>  BY <2>3, <3>1, ConcatEmptySeq
    <3>. QED  BY <2>5, <2>6, <3>2
  <2>. QED  BY <2>4, <2>5
<1>8. y.off = b.cap - (start + span) /\ y.off - y.len = hole.off - hole.len
  <2>1. y.off = yo /\ y.len = below  OBVIOUS
  <2>2. /\ b.cap \in Nat /\ start \in Nat /\ hole.off \in Nat /\ hole.len \in Nat
    BY <1>1, <1>3, <1>5
  <2>. HIDE DEF y
  <2>. QED  BY <1>4, <2>1, <2>2
<1>. HIDE DEF rest, y
<1>14. holes = Splice(hs, i, rest)  BY DEF Splice
<1>. HIDE DEF holes
<1>9. Shaped(w)
  <2>1. Painted(b, w, crumb, <<>>)  BY DEF Painted
  <2>. HIDE DEF w, crumb
  <2>. QED  BY <1>1, <2>1, PaintIs
<1>. HIDE DEF w
<1>10. s.holes = holes  BY <1>9, SyncHolesAre
<1>. HIDE DEF s
<1>11. c.holes = s.holes  BY DEF Serve
<1>. DEFINE h == [off |-> b.cap - start, len |-> span]
            m == [ok |-> TRUE, h |-> h, b |-> c]
<1>12. TakeHole(b, i, span, align) = m
  BY DEF TakeHole, s, w, holes, rest, start, hole, hs
<1>13. m.b = c /\ m.h = h /\ h.off = b.cap - start /\ h.len = span  OBVIOUS
<1>15. b.cap - start \in Nat
  <2>1. \A k, o, l, q \in Nat : o <= k /\ l <= o /\ q + span <= k - o + l => k - q \in Nat
    OBVIOUS
  <2>. QED  BY <1>1, <1>2, <1>3, <1>4, <1>5, <2>1
<1>16. h \in Region  BY <1>15 DEF Region
<1>. HIDE DEF m, c, h
<1>17. /\ h.off <= hole.off /\ hole.off < h.off + NODE /\ y.off = h.off - h.len
  <2>1. /\ start \in Nat /\ hole.off \in Nat /\ b.cap \in Nat
        /\ b.cap - hole.off <= start /\ start < b.cap - hole.off + NODE
    BY <1>1, <1>3, <1>4, <1>5 DEF NODE
  <2>. QED  BY <1>8, <1>13, <2>1 DEF NODE
<1>18. Parts(hs, i, c.holes, h, y)
  BY <1>2, <1>6, <1>7, <1>8, <1>10, <1>11, <1>14, <1>16, <1>17 DEF Parts, hole
<1>. QED  BY <1>12, <1>13, <1>18 DEF hs

\* So it keeps the freelist in order.
LEMMA TakeRises ==
    ASSUME NEW b, Good(b), Rising(b.holes), NEW span \in Nat,
           NEW align \in Nat \ {0}, align <= NODE, NEW i \in Fitting(b, span, align)
    PROVE  Rising(TakeHole(b, i, span, align).b.holes)
<1>. DEFINE m == TakeHole(b, i, span, align)
            hs == b.holes
            ws == m.b.holes
<1>1. PICK y : Parts(hs, i, ws, m.h, y)  BY TakeParts
<1>2. hs \in Seq(Region) /\ Rising(hs)  BY DEF Good
<1>. HIDE DEF hs, ws, m
<1>. DEFINE rest == IF y.len >= NODE THEN <<y>> ELSE <<>>
<1>3. ws = Splice(hs, i, rest) /\ y \in Region /\ Inside(y, hs[i]) /\ i \in 1 .. Len(hs)
  BY <1>1 DEF Parts
<1>4. rest = <<>> \/ rest = <<y>>  OBVIOUS
<1>. HIDE DEF rest
<1>5. Rising(ws)  BY <1>2, <1>3, <1>4, SpliceRises
<1>. QED  BY <1>5 DEF ws, m

\* An allocation aligned to at most a node keeps the freelist in order.
LEMMA AllocRises ==
    ASSUME NEW b, Good(b), Rising(b.holes), NEW size \in Nat,
           NEW align \in Nat \ {0}, align <= NODE
    PROVE  Rising(Alloc(b, size, align).b.holes)
<1>1. CASE size = 0
  <2>1. Alloc(b, size, align).b = b  BY <1>1 DEF Alloc
  <2>. QED  BY <2>1
<1>2. CASE size # 0
  <2>. DEFINE span == SpanOf(size)
  <2>1. span \in Nat  BY <1>2, SpanIs
  <2>. HIDE DEF span
  <2>2. CASE Fitting(b, span, align) # {}
    <3>1. BestFit(b, span, align) \in Fitting(b, span, align)  BY <2>2, BestIs DEF Good
    <3>2. Alloc(b, size, align) = TakeHole(b, BestFit(b, span, align), span, align)
      BY <1>2, <2>2 DEF Alloc, span
    <3>. QED  BY <2>1, <3>1, <3>2, TakeRises
  <2>3. CASE Fitting(b, span, align) = {}
    <3>1. Alloc(b, size, align) = ExtendHeap(b, span, align)  BY <1>2, <2>3 DEF Alloc, span
    <3>2. ExtendHeap(b, span, align).b.holes = b.holes  BY DEF ExtendHeap
    <3>. QED  BY <3>1, <3>2
  <2>. QED  BY <2>2, <2>3
<1>. QED  BY <1>1, <1>2

-----------------------------------------------------------------------------
(* The bytes an allocation loses from the holes.                           *)

\* a byte of the holes hs0 that is neither in a hole of hs nor in a region of R
Dead(hs0, hs, R, o) == InHoles(hs0, o) /\ ~InHoles(hs, o) /\ \A r \in R : ~Has(r, o)

\* dead bytes touch no hole, and are fewer than a node on a stretch; a region
\* of R was a hole below lim, or lies above it
Tight(hs0, hs, R, lim) ==
    /\ \A o \in Int : Dead(hs0, hs, R, o) => ~InHoles(hs, o - 1) /\ ~InHoles(hs, o + 1)
    /\ \A o \in Int : ~\A j \in 0 .. NODE - 1 : Dead(hs0, hs, R, o + j)
    /\ Within(hs, lim) /\ \A r \in R : r.off <= lim \/ lim <= r.off - r.len

\* where the holes are after one gave a part
Left(hs, ws, i, y) ==
    /\ ws \in Seq(Region)
    /\ \A o \in Int : InHoles(ws, o) <=>
          \/ \E j \in 1 .. Len(hs) : j # i /\ Has(hs[j], o)
          \/ y.len >= NODE /\ Has(y, o)
    /\ \A j \in 1 .. Len(ws) : ws[j] = y \/ \E k \in 1 .. Len(hs) : ws[j] = hs[k]

LEMMA LeftIs ==
    ASSUME NEW hs \in Seq(Region), NEW i, NEW ws, NEW h, NEW y, Parts(hs, i, ws, h, y)
    PROVE  Left(hs, ws, i, y)
<1>. DEFINE n == Len(hs)
            m == IF y.len >= NODE THEN <<y>> ELSE <<>>
            k == Ones(m)
<1>1. i \in 1 .. Len(hs) /\ y \in Region /\ ws = Splice(hs, i, m)  BY DEF Parts
<1>2. m = <<>> \/ m = <<y>>  OBVIOUS
<1>3. k = IF y.len >= NODE THEN 1 ELSE 0
  <2>1. <<y>> # <<>>  OBVIOUS
  <2>. QED  BY <2>1 DEF Ones
<1>. HIDE DEF m
<1>4. ws \in Seq(Region) /\ Spliced(ws, hs, i, k, y)  BY <1>1, <1>2, HoleSpliced
<1>5. n \in Nat /\ i \in Nat /\ i \in 1 .. n /\ k \in {0, 1}  BY <1>1, <1>3, HoleIs
<1>6. /\ Len(ws) = n - 1 + k
      /\ \A j \in 1 .. n - 1 + k :
            ws[j] = IF j < i THEN hs[j] ELSE IF k = 1 /\ j = i THEN y ELSE hs[j + 1 - k]
  BY <1>4 DEF Spliced
<1>. HIDE DEF k, n
<1>7. ASSUME NEW j \in 1 .. n - 1 + k
      PROVE  (k = 1 /\ ws[j] = y) \/ \E l \in 1 .. n : l # i /\ ws[j] = hs[l]
  <2>1. CASE j < i
    <3>1. j \in 1 .. n /\ j # i  BY <1>5, <2>1
    <3>. QED  BY <1>6, <2>1, <3>1
  <2>2. CASE ~(j < i) /\ k = 1 /\ j = i  BY <1>6, <2>2
  <2>3. CASE ~(j < i) /\ ~(k = 1 /\ j = i)
    <3>1. j + 1 - k \in 1 .. n /\ j + 1 - k # i  BY <1>5, <2>3
    <3>. QED  BY <1>6, <2>3, <3>1
  <2>. QED  BY <2>1, <2>2, <2>3
<1>8. ASSUME NEW l \in 1 .. n, l # i PROVE \E j \in 1 .. n - 1 + k : ws[j] = hs[l]
  <2>1. CASE l < i
    <3>1. l \in 1 .. n - 1 + k  BY <1>5, <2>1
    <3>. QED  BY <1>6, <2>1, <3>1
  <2>2. CASE l > i
    <3>1. /\ l - 1 + k \in 1 .. n - 1 + k /\ ~(l - 1 + k < i) /\ ~(k = 1 /\ l - 1 + k = i)
          /\ (l - 1 + k) + 1 - k = l
      BY <1>5, <2>2
    <3>2. ws[l - 1 + k] = hs[l]  BY <1>6, <3>1
    <3>. QED  BY <3>1, <3>2
  <2>. QED  BY <1>5, <1>8, <2>1, <2>2
<1>9. k = 1 => \E j \in 1 .. n - 1 + k : ws[j] = y
  <2>. SUFFICES ASSUME k = 1 PROVE \E j \in 1 .. n - 1 + k : ws[j] = y  OBVIOUS
  <2>1. i \in 1 .. n - 1 + k /\ ~(i < i)  BY <1>5
  <2>2. ws[i] = y  BY <1>6, <2>1
  <2>. QED  BY <2>1, <2>2
<1>10. ASSUME NEW o \in Int
       PROVE  InHoles(ws, o) <=> \/ \E j \in 1 .. n : j # i /\ Has(hs[j], o)
                                 \/ y.len >= NODE /\ Has(y, o)
  <2>1. k = 1 <=> y.len >= NODE  BY <1>3
  <2>2. InHoles(ws, o) <=> \E j \in 1 .. n - 1 + k : Has(ws[j], o)  BY <1>6 DEF InHoles
  <2>. QED  BY <1>7, <1>8, <1>9, <2>1, <2>2
<1>11. \A j \in 1 .. n - 1 + k : ws[j] = y \/ \E l \in 1 .. n : ws[j] = hs[l]  BY <1>7
<1>. QED  BY <1>4, <1>6, <1>10, <1>11 DEF Left, n

\* A hole that gives a part leaves less than a node of dead bytes at its top,
\* or at its bottom.
LEMMA TakeTight ==
    ASSUME NEW hs0, NEW hs \in Seq(Region), Rising(hs), NEW R, NEW lim \in Int,
           Tight(hs0, hs, R, lim), NEW i, NEW ws, NEW h, NEW y, Parts(hs, i, ws, h, y),
           h.len >= NODE
    PROVE  Tight(hs0, ws, R \union {h}, lim)
<1>. DEFINE hole == hs[i]
            old(o) == Dead(hs0, hs, R, o)
            new(o) == Dead(hs0, ws, R \union {h}, o)
            kept(o) == y.len >= NODE /\ Has(y, o)
            slack(o) == Has(hole, o) /\ ~Has(h, o) /\ ~kept(o)
<1>1. Left(hs, ws, i, y)  BY LeftIs
<1>2. /\ i \in 1 .. Len(hs) /\ Inside(y, hole)
      /\ h.off <= hole.off /\ hole.off < h.off + NODE
      /\ y.off = h.off - h.len /\ y.off - y.len = hole.off - hole.len
  BY DEF Parts
<1>3. /\ h.off \in Nat /\ h.len \in Nat /\ y.off \in Nat /\ y.len \in Nat
      /\ hole.off \in Nat /\ hole.len \in Nat
      /\ \A j \in 1 .. Len(hs) : hs[j].off \in Nat /\ hs[j].len \in Nat
  BY <1>2, HoleIs DEF Parts, Region
<1>4. /\ \A o \in Int : Dead(hs0, hs, R, o) => ~InHoles(hs, o - 1) /\ ~InHoles(hs, o + 1)
      /\ \A o \in Int : ~\A j \in 0 .. NODE - 1 : Dead(hs0, hs, R, o + j)
      /\ Within(hs, lim) /\ \A r \in R : r.off <= lim \/ lim <= r.off - r.len
  BY DEF Tight
<1>5. \A o \in Int : InHoles(ws, o) <=>
          (\E j \in 1 .. Len(hs) : j # i /\ Has(hs[j], o)) \/ kept(o)
  BY <1>1 DEF Left
<1>6. \A o \in Int : InHoles(hs, o) <=>
          (\E j \in 1 .. Len(hs) : j # i /\ Has(hs[j], o)) \/ Has(hole, o)
  BY <1>2 DEF InHoles
<1>7. \A o \in Int : kept(o) => Has(hole, o)
  BY <1>2, <1>3 DEF Has, Inside
<1>8. \A o \in Int : /\ InHoles(ws, o) => InHoles(hs, o)
                     /\ new(o) /\ InHoles(hs, o) => slack(o)
                     /\ new(o) /\ ~InHoles(hs, o) => old(o)
  BY <1>5, <1>6, <1>7 DEF Dead
<1>9. \A o \in Int : slack(o) =>
         \/ h.off < o /\ o <= hole.off
         \/ /\ hole.off - hole.len < o /\ o <= h.off - h.len
            /\ h.off - h.len < hole.off - hole.len + NODE
  <2>. SUFFICES ASSUME NEW o \in Int, slack(o)
                PROVE  \/ h.off < o /\ o <= hole.off
                       \/ /\ hole.off - hole.len < o /\ o <= h.off - h.len
                          /\ h.off - h.len < hole.off - hole.len + NODE
    OBVIOUS
  <2>1. hole.off - hole.len < o /\ o <= hole.off  BY DEF Has
  <2>2. h.off < o \/ o <= h.off - h.len
    <3>1. ~Has(h, o)  OBVIOUS
    <3>. QED  BY <1>3, <3>1 DEF Has
  <2>3. o <= h.off - h.len => y.len < NODE
    <3>1. ~kept(o)  OBVIOUS
    <3>2. o <= h.off - h.len => Has(y, o)  BY <1>2, <2>1 DEF Has
    <3>. QED  BY <1>3, <3>1, <3>2 DEF NODE
  <2>. HIDE DEF slack, hole
  <2>4. y.len < NODE => h.off - h.len < hole.off - hole.len + NODE
    BY <1>2, <1>3 DEF NODE
  <2>. QED  BY <2>1, <2>2, <2>3, <2>4
<1>10. ASSUME NEW o \in Int, slack(o), NEW p \in {o - 1, o + 1} PROVE ~InHoles(ws, p)
  <2>. SUFFICES ASSUME InHoles(ws, p) PROVE FALSE  OBVIOUS
  <2>0. p \in Int /\ o - 1 <= p /\ p <= o + 1  OBVIOUS
  <2>1. CASE \E j \in 1 .. Len(hs) : j # i /\ Has(hs[j], p)
    <3>1. PICK j \in 1 .. Len(hs) : j # i /\ Has(hs[j], p)  BY <2>1
    <3>2. Has(hole, o)  BY <1>10
    <3>3. j < i \/ i < j  BY <1>2, <3>1
    <3>4. \/ hs[j].off + NODE <= hole.off - hole.len
          \/ hole.off + NODE <= hs[j].off - hs[j].len
      BY <1>2, <3>1, <3>3 DEF Rising
    <3>. DEFINE jo == hs[j].off
                jl == hs[j].len
                ho == hole.off
                hl == hole.len
    <3>5. /\ jo \in Nat /\ jl \in Nat /\ ho \in Nat /\ hl \in Nat
          /\ jo - jl < p /\ p <= jo /\ ho - hl < o /\ o <= ho
          /\ jo + NODE <= ho - hl \/ ho + NODE <= jo - jl
      BY <1>3, <3>1, <3>2, <3>4 DEF Has
    <3>. HIDE DEF jo, jl, ho, hl, hole
    <3>. QED  BY <2>0, <3>5 DEF NODE
  <2>2. CASE kept(p)
    <3>1. y.len >= NODE /\ p <= y.off  BY <2>2 DEF Has
    <3>. HIDE DEF slack, kept, hole
    <3>2. h.off < o
      <4>1. ~(h.off - h.len < hole.off - hole.len + NODE)
        BY <1>2, <1>3, <3>1 DEF NODE
      <4>. QED  BY <1>9, <1>10, <4>1
    <3>. QED  BY <1>2, <1>3, <2>0, <3>1, <3>2 DEF NODE
  <2>. QED  BY <1>5, <2>0, <2>1, <2>2
<1>. HIDE DEF slack, kept, hole
<1>11. ASSUME NEW o \in Int, new(o) PROVE ~InHoles(ws, o - 1) /\ ~InHoles(ws, o + 1)
  <2>0. o - 1 \in Int /\ o + 1 \in Int  OBVIOUS
  <2>1. CASE InHoles(hs, o)
    <3>1. slack(o)  BY <1>8, <1>11, <2>1
    <3>. QED  BY <1>10, <3>1
  <2>2. CASE ~InHoles(hs, o)
    <3>1. old(o)  BY <1>8, <1>11, <2>2
    <3>2. ~InHoles(hs, o - 1) /\ ~InHoles(hs, o + 1)  BY <1>4, <3>1
    <3>. QED  BY <1>8, <2>0, <3>2
  <2>. QED  BY <2>1, <2>2
<1>12. \A o \in Int : old(o) => ~InHoles(hs, o)  BY DEF Dead
<1>13. \A o \in Int : old(o) => ~InHoles(hs, o - 1) /\ ~InHoles(hs, o + 1)  BY <1>4
<1>14. ASSUME NEW o \in Int, \A j \in 0 .. NODE - 1 : old(o + j) PROVE FALSE
  BY <1>4, <1>14
<1>. HIDE DEF old, new
<1>15. ASSUME NEW o \in Int, \A j \in 0 .. NODE - 1 : new(o + j) PROVE FALSE
  <2>1. new(o) /\ new(o + 1) /\ new(o + 2) /\ new(o + 3)
    <3>1. 0 \in 0 .. NODE - 1 /\ 1 \in 0 .. NODE - 1 /\ 2 \in 0 .. NODE - 1 /\ 3 \in 0 .. NODE - 1
      BY DEF NODE
    <3>2. o + 0 = o  OBVIOUS
    <3>. QED  BY <1>15, <3>1, <3>2
  <2>2. ASSUME NEW p \in Int, new(p), new(p + 1) PROVE InHoles(hs, p) <=> InHoles(hs, p + 1)
    <3>0. p + 1 \in Int /\ (p + 1) - 1 = p  OBVIOUS
    <3>1. CASE InHoles(hs, p) /\ ~InHoles(hs, p + 1)
      <4>1. old(p + 1)  BY <1>8, <2>2, <3>0, <3>1
      <4>2. ~InHoles(hs, (p + 1) - 1)  BY <1>13, <3>0, <4>1
      <4>. QED  BY <3>0, <3>1, <4>2
    <3>2. CASE ~InHoles(hs, p) /\ InHoles(hs, p + 1)
      <4>1. old(p)  BY <1>8, <2>2, <3>2
      <4>. QED  BY <1>13, <3>2, <4>1
    <3>. QED  BY <3>1, <3>2
  <2>3. /\ InHoles(hs, o) <=> InHoles(hs, o + 1)
        /\ InHoles(hs, o + 1) <=> InHoles(hs, o + 2)
        /\ InHoles(hs, o + 2) <=> InHoles(hs, o + 3)
    <3>1. /\ o + 1 \in Int /\ o + 2 \in Int
          /\ (o + 1) + 1 = o + 2 /\ (o + 2) + 1 = o + 3
      OBVIOUS
    <3>2. InHoles(hs, o) <=> InHoles(hs, o + 1)  BY <2>1, <2>2
    <3>3. InHoles(hs, o + 1) <=> InHoles(hs, (o + 1) + 1)  BY <2>1, <2>2, <3>1
    <3>4. InHoles(hs, o + 2) <=> InHoles(hs, (o + 2) + 1)  BY <2>1, <2>2, <3>1
    <3>. QED  BY <3>1, <3>2, <3>3, <3>4
  <2>4. o + 1 \in Int /\ o + 2 \in Int /\ o + 3 \in Int  OBVIOUS
  <2>5. CASE InHoles(hs, o)
    <3>1. slack(o) /\ slack(o + 1) /\ slack(o + 2) /\ slack(o + 3)
      BY <1>8, <2>1, <2>3, <2>4, <2>5
    <3>. DEFINE top == h.off
                end == h.off - h.len
                up == hole.off
                down == hole.off - hole.len
                in(p) == \/ top < p /\ p <= up
                         \/ down < p /\ p <= end /\ end < down + NODE
    <3>2. in(o) /\ in(o + 1) /\ in(o + 2) /\ in(o + 3)  BY <1>9, <2>4, <3>1
    <3>3. /\ top \in Int /\ end \in Int /\ up \in Int /\ down \in Int
          /\ end + NODE <= top /\ up < top + NODE
      BY <1>2, <1>3 DEF NODE
    <3>. HIDE DEF top, end, up, down
    <3>. QED  BY <3>2, <3>3 DEF NODE
  <2>6. CASE ~InHoles(hs, o)
    <3>1. old(o) /\ old(o + 1) /\ old(o + 2) /\ old(o + 3)  BY <1>8, <2>1, <2>3, <2>4, <2>6
    <3>2. \A j \in 0 .. NODE - 1 : j = 0 \/ j = 1 \/ j = 2 \/ j = 3  BY DEF NODE
    <3>3. o + 0 = o  OBVIOUS
    <3>4. \A j \in 0 .. NODE - 1 : old(o + j)  BY <3>1, <3>2, <3>3
    <3>. QED  BY <1>14, <3>4
  <2>. QED  BY <2>5, <2>6
<1>16. Within(ws, lim)
  <2>1. hole.off <= lim  BY <1>2, <1>4 DEF Within, hole
  <2>2. y.off <= lim
    <3>1. y.off <= hole.off  BY <1>2 DEF Inside
    <3>. QED  BY <1>3, <2>1, <3>1
  <2>3. \A j \in 1 .. Len(ws) : ws[j] = y \/ \E k \in 1 .. Len(hs) : ws[j] = hs[k]
    BY <1>1 DEF Left
  <2>. QED  BY <1>4, <2>2, <2>3 DEF Within
<1>17. h.off <= lim
  <2>1. hole.off <= lim  BY <1>2, <1>4 DEF Within, hole
  <2>. QED  BY <1>2, <1>3, <2>1
<1>. QED  BY <1>4, <1>11, <1>15, <1>16, <1>17 DEF Tight, new

\* A region more has no dead byte.
LEMMA TightMore ==
    ASSUME NEW hs0, NEW hs, NEW R, NEW lim, Tight(hs0, hs, R, lim), NEW h,
           h.off <= lim \/ lim <= h.off - h.len
    PROVE  Tight(hs0, hs, R \union {h}, lim)
<1>1. \A o : Dead(hs0, hs, R \union {h}, o) => Dead(hs0, hs, R, o)  BY DEF Dead
<1>2. \A o \in Int : Dead(hs0, hs, R \union {h}, o) =>
         ~InHoles(hs, o - 1) /\ ~InHoles(hs, o + 1)
  BY <1>1 DEF Tight
<1>3. ASSUME NEW o \in Int, \A j \in 0 .. NODE - 1 : Dead(hs0, hs, R \union {h}, o + j)
      PROVE  FALSE
  BY <1>1, <1>3 DEF Tight
<1>4. Within(hs, lim) /\ \A r \in R \union {h} : r.off <= lim \/ lim <= r.off - r.len
  BY DEF Tight
<1>. QED  BY <1>2, <1>3, <1>4 DEF Tight

\* An allocation out of a tight list leaves it tight.
LEMMA AllocTight ==
    ASSUME NEW hs0, NEW b, Good(b), Rising(b.holes), NEW R, NEW lim \in Nat,
           Tight(hs0, b.holes, R, lim), lim <= NODE + b.heap,
           NEW size \in Nat, NEW align \in Nat \ {0}, align <= NODE,
           NEW m, m = Alloc(b, size, align), m.ok
    PROVE  Tight(hs0, m.b.holes, R \union {m.h}, lim)
<1>1. CASE size = 0
  <2>1. m = [ok |-> TRUE, h |-> NoRegion, b |-> b]  BY <1>1 DEF Alloc
  <2>2. m.h = NoRegion /\ m.b = b  BY <2>1
  <2>3. NoRegion.off <= lim  BY DEF NoRegion
  <2>. QED  BY <2>2, <2>3, TightMore
<1>2. CASE size # 0
  <2>. DEFINE span == SpanOf(size)
  <2>1. span \in Nat /\ NODE <= span  BY <1>2, SpanIs
  <2>. HIDE DEF span
  <2>2. CASE Fitting(b, span, align) # {}
    <3>. DEFINE i == BestFit(b, span, align)
    <3>1. i \in Fitting(b, span, align)  BY <2>2, BestIs DEF Good
    <3>2. m = TakeHole(b, i, span, align)  BY <1>2, <2>2 DEF Alloc, span
    <3>. HIDE DEF i
    <3>3. PICK y : Parts(b.holes, i, m.b.holes, m.h, y) /\ m.h.len = span
      <4>. DEFINE t == TakeHole(b, i, span, align)
      <4>1. \E y : Parts(b.holes, i, t.b.holes, t.h, y) /\ t.h.len = span
        BY <2>1, <3>1, TakeParts
      <4>2. m = t  BY <3>2
      <4>. HIDE DEF t
      <4>. QED  BY <4>1, <4>2
    <3>4. b.holes \in Seq(Region) /\ m.h.len >= NODE /\ lim \in Int
      BY <2>1, <3>3 DEF Good, NODE
    <3>. DEFINE hs == b.holes
                ws == m.b.holes
                h == m.h
    <3>5. /\ hs \in Seq(Region) /\ Rising(hs) /\ Tight(hs0, hs, R, lim)
          /\ Parts(hs, i, ws, h, y) /\ h.len >= NODE
      BY <3>3, <3>4
    <3>. HIDE DEF hs, ws, h
    <3>6. Tight(hs0, ws, R \union {h}, lim)  BY <3>4, <3>5, TakeTight
    <3>. QED  BY <3>6 DEF ws, h
  <2>3. CASE Fitting(b, span, align) = {}
    <3>1. m = ExtendHeap(b, span, align)  BY <1>2, <2>3 DEF Alloc, span
    <3>2. b.heap \in Nat /\ Bottom(b) \in Int
      BY DEF Good, Shaped, Bottom, Floor, NODE
    <3>. DEFINE pad == (Bottom(b) - span) % align
                heap == b.heap + pad + span
                h == [off |-> NODE + heap, len |-> span]
                c == [b EXCEPT !.heap = heap]
    <3>3. pad \in Nat  BY <2>1, <3>2
    <3>. HIDE DEF pad
    <3>4. m = [ok |-> TRUE, h |-> h, b |-> c]
      <4>1. [ok |-> FALSE, h |-> NoRegion, b |-> b].ok = FALSE  OBVIOUS
      <4>. QED  BY <3>1, <4>1 DEF ExtendHeap, pad
    <3>5. m.h = h /\ m.b = c /\ h.off = NODE + heap /\ h.len = span  BY <3>4
    <3>6. c.holes = b.holes  OBVIOUS
    <3>7. lim <= h.off - h.len  BY <2>1, <3>2, <3>3, <3>5 DEF NODE
    <3>. HIDE DEF c, h
    <3>. QED  BY <3>5, <3>6, <3>7, TightMore
  <2>. QED  BY <2>2, <2>3
<1>. QED  BY <1>1, <1>2

-----------------------------------------------------------------------------
(* What free and pop_heap keep in the holes.                               *)

\* some hole holds all of r
Housed(hs, r) == \E i \in 1 .. Len(hs) : Inside(r, hs[i])

\* Join drops nothing.
LEMMA JoinHouses ==
    ASSUME NEW m \in Seq(Region), NEW h \in Region, NEW w, w = Join(m, h),
           NEW r \in Region, Housed(m, r) \/ Inside(r, h)
    PROVE  w \in Seq(Region) /\ Housed(w, r)
<1>. DEFINE n == Len(m)
            gap == h.off - h.len - m[n].off
            e == [off |-> h.off, len |-> m[n].len + h.len + gap]
<1>1. /\ n \in Nat /\ h.off \in Nat /\ h.len \in Nat /\ r.off \in Nat /\ r.len \in Nat
      /\ \A i \in 1 .. n : m[i] \in Region /\ m[i].off \in Nat /\ m[i].len \in Nat
  BY HoleIs DEF Region
<1>2. CASE n > 0 /\ gap \in 0 .. NODE - 1
  <2>0. n \in 1 .. n  BY <1>1, <1>2
  <2>1. /\ e \in Region /\ e.off = h.off
        /\ e.off - e.len = m[n].off - m[n].len /\ m[n].off <= h.off - h.len
    BY <1>1, <1>2, <2>0 DEF Region
  <2>2. w = [m EXCEPT ![n] = e]  BY <1>2 DEF Join
  <2>. HIDE DEF e, gap
  <2>3. /\ w \in Seq(Region) /\ Len(w) = n /\ w[n] = e
        /\ \A i \in 1 .. n : i # n => w[i] = m[i]
    BY <2>0, <2>1, <2>2, ExceptSeq
  <2>4. CASE Inside(r, h)
    <3>1. Inside(r, e)  BY <1>1, <2>0, <2>1, <2>4 DEF Inside
    <3>. QED  BY <2>0, <2>3, <3>1 DEF Housed
  <2>5. CASE Housed(m, r)
    <3>1. PICK i \in 1 .. n : Inside(r, m[i])  BY <2>5 DEF Housed
    <3>2. CASE i # n  BY <2>3, <3>1, <3>2 DEF Housed
    <3>3. CASE i = n
      <4>1. Inside(r, e)  BY <1>1, <2>0, <2>1, <3>1, <3>3 DEF Inside
      <4>. QED  BY <2>0, <2>3, <4>1 DEF Housed
    <3>. QED  BY <3>2, <3>3
  <2>. QED  BY <2>3, <2>4, <2>5
<1>3. CASE ~(n > 0 /\ gap \in 0 .. NODE - 1)
  <2>1. w = Append(m, h)  BY <1>3 DEF Join
  <2>. HIDE DEF gap
  <2>2. /\ w \in Seq(Region) /\ Len(w) = n + 1 /\ w[n + 1] = h
        /\ \A i \in 1 .. n : w[i] = m[i]
    BY <2>1, AppendProperties
  <2>3. n + 1 \in 1 .. n + 1 /\ \A i \in 1 .. n : i \in 1 .. n + 1  BY <1>1
  <2>. QED  BY <2>2, <2>3 DEF Housed
<1>. QED  BY <1>2, <1>3

LEMMA InsideSelf ==
    ASSUME NEW r \in Region PROVE Inside(r, r)
BY DEF Inside, Region

\* every region in a hole of hs, or in h, is in a hole of ws
Houses(hs, h, ws) == \A r \in Region : Housed(hs, r) \/ Inside(r, h) => Housed(ws, r)

\* Nor does the fold of free.
LEMMA JoinAllHouses ==
    ASSUME NEW hs \in Seq(Region), NEW r \in Region, Housed(hs, r)
    PROVE  Housed(FoldLeft(Join, <<>>, hs), r)
<1>. DEFINE n == Len(hs)
<1>1. PICK m : Steps(m, "join", 0, <<>>, hs) /\ FoldLeft(Join, <<>>, hs) = m[Len(hs)]
  BY JoinSteps
<1>2. n \in Nat /\ \A i \in 1 .. n : hs[i] \in Region  BY HoleIs
<1>. DEFINE fine(k) ==
              m[k] \in Seq(Region) /\ ((\E i \in 1 .. k : Inside(r, hs[i])) => Housed(m[k], r))
            S == {k \in 0 .. n : fine(k)}
<1>3. 0 \in S
  <2>1. m[0] = <<>>  BY <1>1 DEF Steps
  <2>2. <<>> \in Seq(Region)  BY EmptySeq
  <2>3. ~\E i \in 1 .. 0 : Inside(r, hs[i])  OBVIOUS
  <2>4. fine(0)  BY <2>1, <2>2, <2>3
  <2>. QED  BY <1>2, <2>4
<1>4. ASSUME NEW k \in 0 + 1 .. n, k - 1 \in S PROVE k \in S
  <2>0. /\ k \in 1 .. n /\ k \in 0 .. n
        /\ \A i \in 1 .. k : i \in 1 .. k - 1 \/ i = k
    BY <1>2
  <2>. DEFINE u == m[k - 1]
              w == m[k]
              h == hs[k]
  <2>1. w = Join(u, h)  BY <1>1, <2>0 DEF Steps, Folded
  <2>2. u \in Seq(Region) /\ ((\E i \in 1 .. k - 1 : Inside(r, hs[i])) => Housed(u, r))
    BY <1>4
  <2>3. h \in Region  BY <1>2, <2>0
  <2>. HIDE DEF u, w, h
  <2>4. w \in Seq(Region)
    <3>1. Inside(h, h)  BY <2>3, InsideSelf
    <3>. QED  BY <2>1, <2>2, <2>3, <3>1, JoinHouses
  <2>5. Housed(u, r) \/ Inside(r, h) => Housed(w, r)
    BY <2>1, <2>2, <2>3, JoinHouses
  <2>6. fine(k)  BY <2>0, <2>2, <2>4, <2>5 DEF w, h
  <2>. QED  BY <2>0, <2>6
<1>. HIDE DEF S
<1>5. 0 .. n \subseteq S  BY <1>2, <1>3, <1>4, Upwards
<1>6. fine(n)  BY <1>2, <1>5 DEF S
<1>. QED  BY <1>1, <1>6 DEF Housed

\* free keeps every hole, and the region freed, in a hole.
LEMMA FreeHouses ==
    ASSUME NEW b, Good(b), NEW h \in Region, h.len # 0, NEW c, c = Free(b, h)
    PROVE  Houses(b.holes, h, c.holes)
<1>. DEFINE hs  == b.holes
            at  == Cardinality({i \in 1 .. Len(hs) : hs[i].off < h.off})
            ins == InsertAt(hs, at + 1, h)
            w   == FoldLeft(Join, <<>>, ins)
<1>1. c = SyncHoles(b, w)  BY DEF Free
<1>2. Shaped(b) /\ hs \in Seq(Region)  BY DEF Good
<1>3. at \in 0 .. Len(hs)
  <2>. DEFINE L == {i \in 1 .. Len(hs) : hs[i].off < h.off}
  <2>1. Len(hs) \in Nat  BY <1>2, LenProperties
  <2>2. IsFiniteSet(1 .. Len(hs)) /\ Cardinality(1 .. Len(hs)) = Len(hs)
    <3>1. 1 \in Int /\ Len(hs) \in Int /\ Len(hs) \in Nat  BY <2>1
    <3>2. IsFiniteSet(1 .. Len(hs))  BY <3>1, FS_Interval
    <3>3. Cardinality(1 .. Len(hs)) = IF 1 <= Len(hs) THEN Len(hs) - 1 + 1 ELSE 0
      <4>. HIDE DEF hs
      <4>. QED  BY <3>1, FS_Interval
    <3>. QED  BY <3>1, <3>2, <3>3
  <2>3. L \subseteq 1 .. Len(hs)  OBVIOUS
  <2>. HIDE DEF L
  <2>4. Cardinality(L) \in Nat /\ Cardinality(L) <= Len(hs)
    <3>1. Cardinality(L) <= Cardinality(1 .. Len(hs)) /\ IsFiniteSet(L)  BY <2>2, <2>3, FS_Subset
    <3>2. Cardinality(L) \in Nat  BY <3>1, FS_CardinalityType
    <3>. QED  BY <2>2, <3>1, <3>2
  <2>. QED  BY <2>1, <2>4 DEF L
<1>. HIDE DEF at, hs
<1>4. /\ ins \in Seq(Region) /\ PutIn(ins, hs, at + 1, h)
      /\ Len(hs) \in Nat /\ at + 1 \in 1 .. Len(hs) + 1
  <2>. DEFINE k == at + 1
  <2>1. Len(hs) \in Nat  BY <1>2, LenProperties
  <2>2. k \in 1 .. Len(hs) + 1 /\ ins = InsertAt(hs, k, h)  BY <1>3, <2>1
  <2>. HIDE DEF k, ins
  <2>3. ins \in Seq(Region) /\ PutIn(ins, hs, k, h)  BY <1>2, <2>2, HoleInserted
  <2>. QED  BY <2>1, <2>2, <2>3 DEF k
<1>. HIDE DEF ins, w
<1>5. c.holes = w  BY <1>1, <1>2, SyncHolesAre
<1>6. ASSUME NEW r \in Region, Housed(hs, r) \/ Inside(r, h) PROVE Housed(ins, r)
  <2>1. /\ Len(ins) = Len(hs) + 1
        /\ \A j \in 1 .. Len(hs) + 1 :
              ins[j] = IF j < at + 1 THEN hs[j] ELSE IF j = at + 1 THEN h ELSE hs[j - 1]
    BY <1>4 DEF PutIn
  <2>2. CASE Inside(r, h)
    <3>1. ~(at + 1 < at + 1)  BY <1>3
    <3>2. ins[at + 1] = h  BY <1>4, <2>1, <3>1
    <3>. QED  BY <1>4, <2>1, <2>2, <3>2 DEF Housed
  <2>3. CASE Housed(hs, r)
    <3>1. PICK i \in 1 .. Len(hs) : Inside(r, hs[i])  BY <2>3 DEF Housed
    <3>2. CASE i < at + 1
      <4>1. i \in 1 .. Len(hs) + 1  BY <1>4
      <4>2. ins[i] = hs[i]  BY <2>1, <3>2, <4>1
      <4>. QED  BY <2>1, <3>1, <4>1, <4>2 DEF Housed
    <3>3. CASE ~(i < at + 1)
      <4>1. i + 1 \in 1 .. Len(hs) + 1 /\ ~(i + 1 < at + 1) /\ i + 1 # at + 1 /\ (i + 1) - 1 = i
        BY <1>3, <1>4, <3>3
      <4>2. ins[i + 1] = hs[i]  BY <2>1, <4>1
      <4>. QED  BY <2>1, <3>1, <4>1, <4>2 DEF Housed
    <3>. QED  BY <3>2, <3>3
  <2>. QED  BY <1>6, <2>2, <2>3
<1>7. \A r \in Region : Housed(ins, r) => Housed(w, r)  BY <1>4, JoinAllHouses DEF w
<1>. QED  BY <1>5, <1>6, <1>7 DEF Houses, hs

\* free puts the region, and every hole, in a hole.
LEMMA FreeTakes ==
    ASSUME NEW b, Good(b), NEW h \in Region, NEW c, c = Free(b, h),
           NEW r \in Region, Housed(b.holes, r) \/ (r.len # 0 /\ r = h)
    PROVE  Housed(c.holes, r)
<1>1. CASE h.len = 0
  <2>1. c = b  BY <1>1 DEF Free
  <2>. QED  BY <1>1, <2>1
<1>2. CASE h.len # 0
  <2>1. Houses(b.holes, h, c.holes)  BY <1>2, FreeHouses
  <2>2. r = h => Inside(r, h)  BY InsideSelf
  <2>. QED  BY <2>1, <2>2 DEF Houses
<1>. QED  BY <1>1, <1>2

\* The bytes of a region in a hole are in the holes.
LEMMA HousedHas ==
    ASSUME NEW ws \in Seq(Region), NEW r \in Region, Housed(ws, r), NEW o \in Int, Has(r, o)
    PROVE  InHoles(ws, o)
<1>1. PICK i \in 1 .. Len(ws) : Inside(r, ws[i])  BY DEF Housed
<1>2. ws[i] \in Region  BY HoleIs
<1>. DEFINE w == ws[i]
<1>3. /\ w.off \in Nat /\ w.len \in Nat /\ r.off \in Nat /\ r.len \in Nat
      /\ r.off <= w.off /\ w.off - w.len <= r.off - r.len
      /\ r.off - r.len < o /\ o <= r.off
  BY <1>1, <1>2 DEF Region, Inside, Has
<1>. HIDE DEF w
<1>4. Has(w, o)  BY <1>3 DEF Has
<1>. QED  BY <1>1, <1>4 DEF InHoles, w

\* free leaves no stray byte in the region, and none where there was none.
LEMMA FreeTidy ==
    ASSUME NEW b, Good(b), NEW h \in Region, Clear(b, h), NEW c, c = Free(b, h)
    PROVE  Tidy(b, c) /\ \A o : Stray(c, o) => ~Has(h, o)
<1>1. CASE h.len = 0
  <2>1. c = b  BY <1>1 DEF Free
  <2>2. h.off \in Nat  BY DEF Region
  <2>3. ASSUME NEW o, Stray(c, o) PROVE ~Has(h, o)
    <3>1. b.cap \in Nat  BY DEF Good, Shaped
    <3>2. o \in Int  BY <2>1, <2>3, <3>1 DEF Stray
    <3>. QED  BY <1>1, <2>2, <3>2 DEF Has
  <2>. QED  BY <2>1, <2>3 DEF Tidy
<1>2. CASE h.len # 0
  <2>. DEFINE at == Cardinality({i \in 1 .. Len(b.holes) : b.holes[i].off < h.off})
              w  == FoldLeft(Join, <<>>, InsertAt(b.holes, at + 1, h))
  <2>1. c = SyncHoles(b, w)  BY <1>2 DEF Free
  <2>. HIDE DEF w
  <2>2. Shaped(b) /\ b.holes \in Seq(Region) /\ b.cap \in Nat  BY DEF Good, Shaped
  <2>3. c.holes = w  BY <2>1, <2>2, SyncHolesAre
  <2>4. w \in Seq(Region) /\ Separate(w) /\ Within(w, NODE + b.heap) /\ c.cap = b.cap
    <3>1. Good(c) /\ c.heap = b.heap /\ c.cap = b.cap  BY FreeIs
    <3>. QED  BY <2>3, <3>1 DEF Good
  <2>5. \A o : Stray(c, o) => NODE < o /\ ~InHoles(w, o) /\ At(c, o) = At(b, o)
    BY <2>1, <2>2, <2>4, SyncIs
  <2>6. Houses(b.holes, h, w)  BY <1>2, <2>3, FreeHouses
  <2>7. ASSUME NEW o, Stray(c, o) PROVE Stray(b, o) /\ At(c, o) = At(b, o) /\ ~Has(h, o)
    <3>1. o \in 1 .. b.cap /\ o \in Int  BY <2>2, <2>4, <2>7 DEF Stray
    <3>2. NODE < o /\ ~InHoles(w, o) /\ At(c, o) = At(b, o) /\ At(c, o) # <<>>
      BY <2>5, <2>7 DEF Stray
    <3>3. ~Has(h, o)
      <4>1. Housed(w, h)  BY <2>6, InsideSelf DEF Houses
      <4>. QED  BY <2>4, <3>1, <3>2, <4>1, HousedHas
    <3>4. \A i \in 1 .. Len(b.holes) : ~HasNode(b.holes[i], o)
      <4>. SUFFICES ASSUME NEW i \in 1 .. Len(b.holes), HasNode(b.holes[i], o) PROVE FALSE
        OBVIOUS
      <4>. DEFINE g == b.holes[i]
      <4>1. g \in Region /\ g.off \in Nat /\ g.len \in Nat  BY <2>2, HoleIs
      <4>2. g.len >= NODE  BY DEF Good, Separate
      <4>3. Housed(b.holes, g)  BY <4>1, InsideSelf DEF Housed
      <4>4. HasNode(g, o)  OBVIOUS
      <4>. HIDE DEF g
      <4>5. Has(g, o)  BY <3>1, <4>1, <4>2, <4>4 DEF Has, HasNode, NODE
      <4>6. Housed(w, g)  BY <2>6, <4>1, <4>3 DEF Houses
      <4>. QED  BY <2>4, <3>1, <3>2, <4>1, <4>5, <4>6, HousedHas
    <3>5. ~Marked(b, o)  BY <3>1, <3>2, <3>4 DEF Marked, NODE
    <3>. QED  BY <3>1, <3>2, <3>3, <3>5 DEF Stray
  <2>. QED  BY <2>7 DEF Tidy
<1>. QED  BY <1>1, <1>2

\* A region below the new bottom of the heap stays in its hole.
LEMMA ClipHouses ==
    ASSUME NEW h \in Region, NEW floor \in Nat, NEW r \in Region, r.len >= NODE,
           r.off <= floor, Inside(r, h)
    PROVE  \E x \in Region : Clip(h, floor) = <<x>> /\ Inside(r, x)
<1>1. h.off \in Nat /\ h.len \in Nat /\ r.off \in Nat /\ r.len \in Nat  BY DEF Region
<1>2. CASE h.off <= floor  BY <1>2 DEF Clip
<1>3. CASE ~(h.off <= floor)
  <2>. DEFINE len == h.len - (h.off - floor)
              x == [off |-> floor, len |-> len]
  <2>1. len >= NODE /\ len \in Nat /\ h.off - h.len <= r.off - r.len /\ floor - len = h.off - h.len
    BY <1>1, <1>3 DEF Inside, NODE
  <2>2. Clip(h, floor) = <<x>>  BY <1>3, <2>1 DEF Clip
  <2>. HIDE DEF len
  <2>3. x \in Region /\ x.off = floor /\ x.len = len  BY <2>1 DEF Region
  <2>. HIDE DEF x
  <2>4. Inside(r, x)  BY <2>1, <2>3 DEF Inside
  <2>. QED  BY <2>2, <2>3, <2>4
<1>. QED  BY <1>2, <1>3

\* Nor does the fold of pop_heap, of what lies below the new bottom.
LEMMA ClipAllHouses ==
    ASSUME NEW hs \in Seq(Region), NEW floor \in Nat,
           NEW m, Steps(m, "clip", floor, <<>>, hs),
           NEW r \in Region, r.len >= NODE, r.off <= floor, Housed(hs, r)
    PROVE  Housed(m[Len(hs)], r)
<1>. DEFINE n == Len(hs)
<1>2. n \in Nat /\ \A i \in 1 .. n : hs[i] \in Region  BY HoleIs
<1>. DEFINE fine(k) ==
              m[k] \in Seq(Region) /\ ((\E i \in 1 .. k : Inside(r, hs[i])) => Housed(m[k], r))
            S == {k \in 0 .. n : fine(k)}
<1>3. 0 \in S
  <2>1. m[0] = <<>>  BY DEF Steps
  <2>2. <<>> \in Seq(Region)  BY EmptySeq
  <2>3. ~\E i \in 1 .. 0 : Inside(r, hs[i])  OBVIOUS
  <2>4. fine(0)  BY <2>1, <2>2, <2>3
  <2>. QED  BY <1>2, <2>4
<1>4. ASSUME NEW k \in 0 + 1 .. n, k - 1 \in S PROVE k \in S
  <2>0. /\ k \in 1 .. n /\ k \in 0 .. n
        /\ \A i \in 1 .. k : i \in 1 .. k - 1 \/ i = k
    BY <1>2
  <2>. DEFINE u == m[k - 1]
              w == m[k]
              h == hs[k]
              d == Clip(h, floor)
  <2>1. w = u \o d  BY <2>0 DEF Steps, Folded
  <2>2. u \in Seq(Region) /\ ((\E i \in 1 .. k - 1 : Inside(r, hs[i])) => Housed(u, r))
    BY <1>4
  <2>3. h \in Region  BY <1>2, <2>0
  <2>. HIDE DEF u, w
  <2>4. d \in Seq(Region)
    <3>. DEFINE len == h.len - (h.off - floor)
                x == [off |-> floor, len |-> len]
    <3>1. h.off \in Nat /\ h.len \in Nat  BY <2>3 DEF Region
    <3>2. CASE h.off <= floor
      <4>1. d = <<h>>  BY <3>2 DEF Clip
      <4>. HIDE DEF d, h
      <4>. QED  BY <2>3, <4>1, OneIs
    <3>3. CASE ~(h.off <= floor) /\ len >= NODE
      <4>1. x \in Region
        <5>1. len \in Nat  BY <3>1, <3>3 DEF NODE
        <5>. HIDE DEF len
        <5>. QED  BY <5>1 DEF Region
      <4>2. d = <<x>>  BY <3>3 DEF Clip
      <4>. HIDE DEF x, d
      <4>. QED  BY <4>1, <4>2, OneIs
    <3>4. CASE ~(h.off <= floor) /\ ~(len >= NODE)
      <4>1. d = <<>>  BY <3>4 DEF Clip
      <4>. HIDE DEF d
      <4>. QED  BY <4>1, EmptySeq
    <3>. QED  BY <3>2, <3>3, <3>4
  <2>5. Inside(r, h) => \E x \in Region : d = <<x>> /\ Inside(r, x)
    BY <2>3, ClipHouses
  <2>. HIDE DEF d, h
  <2>6. /\ w \in Seq(Region) /\ Len(w) = Len(u) + Len(d)
        /\ \A j \in 1 .. Len(u) + Len(d) :
              w[j] = IF j <= Len(u) THEN u[j] ELSE d[j - Len(u)]
    BY <2>1, <2>2, <2>4, ConcatProperties
  <2>7. Len(u) \in Nat /\ Len(d) \in Nat  BY <2>2, <2>4, HoleIs
  <2>8. Housed(u, r) => Housed(w, r)
    <3>. SUFFICES ASSUME NEW j \in 1 .. Len(u), Inside(r, u[j]) PROVE Housed(w, r)
      BY DEF Housed
    <3>1. j \in 1 .. Len(u) + Len(d) /\ j <= Len(u)  BY <2>7
    <3>. QED  BY <2>6, <3>1 DEF Housed
  <2>9. Inside(r, h) => Housed(w, r)
    <3>. SUFFICES ASSUME NEW x \in Region, d = <<x>>, Inside(r, x) PROVE Housed(w, r)
      BY <2>5
    <3>1. Len(d) = 1 /\ d[1] = x  BY OneIs
    <3>2. /\ Len(u) + 1 \in 1 .. Len(u) + Len(d) /\ ~(Len(u) + 1 <= Len(u))
          /\ (Len(u) + 1) - Len(u) = 1
      BY <2>7, <3>1
    <3>3. w[Len(u) + 1] = x  BY <2>6, <3>1, <3>2
    <3>. QED  BY <2>6, <3>2, <3>3 DEF Housed
  <2>10. fine(k)  BY <2>0, <2>2, <2>6, <2>8, <2>9 DEF w, h
  <2>. QED  BY <2>0, <2>10
<1>. HIDE DEF S
<1>5. 0 .. n \subseteq S  BY <1>2, <1>3, <1>4, Upwards
<1>6. fine(n)  BY <1>2, <1>5 DEF S
<1>. QED  BY <1>6 DEF Housed

\* no node-long run of the bytes of hs0 is lost from hs
NothingLost(hs0, hs) ==
    \A o \in Int : ~\A j \in 0 .. NODE - 1 : InHoles(hs0, o + j) /\ ~InHoles(hs, o + j)

\* What a tight list and its regions hold is enough to take it all back.
LEMMA TightHouses ==
    ASSUME NEW hs0 \in Seq(Region), NEW hs \in Seq(Region), NEW ws \in Seq(Region),
           NEW R, R \subseteq Region, NEW lim \in Nat,
           Tight(hs0, hs, R, lim), Within(hs0, lim),
           \A i \in 1 .. Len(hs) : Housed(ws, hs[i]),
           \A r \in R : r.len # 0 /\ r.off <= lim => Housed(ws, r)
    PROVE  NothingLost(hs0, ws)
<1>1. /\ \A i \in 1 .. Len(hs0) : hs0[i] \in Region
      /\ \A i \in 1 .. Len(hs) : hs[i] \in Region
      /\ \A i \in 1 .. Len(ws) : ws[i] \in Region
  BY HoleIs
<1>2. ASSUME NEW r \in Region, Housed(ws, r), NEW o \in Int, Has(r, o) PROVE InHoles(ws, o)
  BY <1>2, HousedHas
<1>3. ASSUME NEW o \in Int, InHoles(hs0, o), ~InHoles(ws, o) PROVE Dead(hs0, hs, R, o)
  <2>1. ~InHoles(hs, o)  BY <1>1, <1>2, <1>3 DEF InHoles
  <2>2. o <= lim
    <3>1. PICK i \in 1 .. Len(hs0) : Has(hs0[i], o)  BY <1>3 DEF InHoles
    <3>2. o <= hs0[i].off /\ hs0[i].off <= lim /\ hs0[i].off \in Nat
      BY <1>1, <3>1 DEF Has, Within, Region
    <3>. QED  BY <3>2
  <2>3. ASSUME NEW r \in R, Has(r, o) PROVE FALSE
    <3>1. r.off - r.len < o /\ o <= r.off /\ r.off \in Nat /\ r.len \in Nat
      BY <2>3 DEF Has, Region
    <3>2. r.off <= lim \/ lim <= r.off - r.len  BY DEF Tight
    <3>3. r.off <= lim /\ r.len # 0  BY <2>2, <3>1, <3>2
    <3>. QED  BY <1>2, <1>3, <2>3, <3>3
  <2>. QED  BY <1>3, <2>1, <2>3 DEF Dead
<1>4. ASSUME NEW o \in Int, \A j \in 0 .. NODE - 1 : InHoles(hs0, o + j) /\ ~InHoles(ws, o + j)
      PROVE  FALSE
  <2>1. \A j \in 0 .. NODE - 1 : o + j \in Int  BY DEF NODE
  <2>2. \A j \in 0 .. NODE - 1 : Dead(hs0, hs, R, o + j)  BY <1>3, <1>4, <2>1
  <2>. QED  BY <2>2 DEF Tight
<1>. QED  BY <1>4 DEF NothingLost

-----------------------------------------------------------------------------
(* pop_heap.                                                               *)

LEMMA ClipIs ==
    ASSUME NEW h \in Region, h.len >= NODE, NODE <= h.off - h.len, NEW floor \in Nat
    PROVE  \/ Clip(h, floor) = <<>>
           \/ \E x \in Region :
                 /\ Clip(h, floor) = <<x>> /\ Inside(x, h) /\ x.off <= floor
                 /\ x.len >= NODE /\ NODE <= x.off - x.len
<1>1. h.off \in Nat /\ h.len \in Nat  BY DEF Region
<1>2. CASE h.off <= floor
  <2>1. Clip(h, floor) = <<h>>  BY <1>2 DEF Clip
  <2>2. Inside(h, h)  BY <1>1 DEF Inside
  <2>. QED  BY <1>2, <2>1, <2>2
<1>3. CASE ~(h.off <= floor) /\ h.len - (h.off - floor) >= NODE
  <2>. DEFINE len == h.len - (h.off - floor)
              x == [off |-> floor, len |-> len]
  <2>1. Clip(h, floor) = <<x>>  BY <1>3 DEF Clip
  <2>2. len \in Nat /\ len >= NODE /\ floor - len = h.off - h.len /\ floor <= h.off
    BY <1>1, <1>3 DEF NODE
  <2>. HIDE DEF len
  <2>3. x \in Region /\ x.off = floor /\ x.len = len  BY <2>2 DEF Region
  <2>. HIDE DEF x
  <2>4. Inside(x, h) /\ x.off <= floor /\ x.len >= NODE /\ NODE <= x.off - x.len
    BY <1>1, <2>2, <2>3 DEF Inside
  <2>. QED  BY <2>1, <2>3, <2>4
<1>4. CASE ~(h.off <= floor) /\ ~(h.len - (h.off - floor) >= NODE)
  BY <1>4 DEF Clip
<1>. QED  BY <1>2, <1>3, <1>4

\* The clipped list lies inside the list.
LEMMA ClipAll ==
    ASSUME NEW hs \in Seq(Region), Separate(hs), NEW floor \in Nat,
           NEW m, Steps(m, "clip", floor, <<>>, hs)
    PROVE  LET w == m[Len(hs)]
           IN  /\ w \in Seq(Region) /\ Separate(w) /\ Within(w, floor)
               /\ Rising(hs) => Rising(w)
               /\ \A r \in Region : AllApart(r, hs) => AllApart(r, w)
<1>. DEFINE n == Len(hs)
            w == m[Len(hs)]
<1>2. n \in Nat /\ \A i \in 1 .. n : hs[i] \in Region  BY HoleIs
<1>. HIDE DEF w
<1>. DEFINE fine(k) ==
              /\ m[k] \in Seq(Region) /\ Separate(m[k]) /\ Within(m[k], floor)
              /\ Rising(hs) => Rising(m[k])
              /\ \A j \in 1 .. Len(m[k]) : \E i \in 1 .. k : Inside(m[k][j], hs[i])
            S == {k \in 0 .. n : fine(k)}
<1>3. 0 \in S
  <2>1. m[0] = <<>>  BY DEF Steps
  <2>2. <<>> \in Seq(Region) /\ Len(<<>>) = 0  BY EmptySeq
  <2>3. fine(0)  BY <2>1, <2>2 DEF Separate, Within, Rising
  <2>. QED  BY <1>2, <2>3
<1>4. ASSUME NEW k \in 0 + 1 .. n, k - 1 \in S PROVE k \in S
  <2>0. k \in 1 .. n /\ k \in 0 .. n /\ k \in Nat /\ k - 1 \in Nat /\ k \in 1 .. k
        /\ \A i \in 1 .. k - 1 : i \in 1 .. k /\ i \in 1 .. n /\ i # k
    BY <1>2
  <2>. DEFINE p == m[k - 1]
  <2>1. m[k] = p \o Clip(hs[k], floor)  BY <2>0 DEF Steps, Folded
  <2>2. fine(k - 1)  BY <1>4
  <2>3. hs[k] \in Region /\ hs[k].len >= NODE /\ NODE <= hs[k].off - hs[k].len
    BY <1>2, <2>0 DEF Separate
  <2>4. CASE Clip(hs[k], floor) = <<>>
    <3>1. m[k] = p  BY <2>1, <2>2, <2>4, ConcatEmptySeq
    <3>2. fine(k)  BY <2>0, <2>2, <3>1
    <3>. QED  BY <2>0, <3>2
  <2>5. ASSUME NEW x \in Region, Clip(hs[k], floor) = <<x>>, Inside(x, hs[k]), x.off <= floor,
               x.len >= NODE, NODE <= x.off - x.len
        PROVE  fine(k)
    <3>. DEFINE u == m[k]
                l == Len(p)
    <3>1. p \in Seq(Region) /\ <<x>> \in Seq(Region) /\ Len(<<x>>) = 1 /\ <<x>>[1] = x
          /\ l \in Nat
      BY <2>2, OneIs, HoleIs
    <3>2. u = p \o <<x>>  BY <2>1, <2>5
    <3>. HIDE DEF p, u
    <3>3. /\ u \in Seq(Region) /\ Len(u) = Len(p) + Len(<<x>>)
          /\ \A j \in 1 .. Len(p) + Len(<<x>>) :
                u[j] = IF j <= Len(p) THEN p[j] ELSE <<x>>[j - Len(p)]
      BY <3>1, <3>2, ConcatProperties
    <3>. HIDE DEF l
    <3>4. Len(u) = l + 1  BY <3>1, <3>3 DEF l
    <3>5. ASSUME NEW j \in 1 .. l + 1
          PROVE  (j = l + 1 /\ u[j] = x) \/ (j \in 1 .. l /\ u[j] = p[j])
      <4>1. j \in 1 .. Len(p) + Len(<<x>>)  BY <3>1 DEF l
      <4>2. CASE j = l + 1
        <5>1. ~(j <= Len(p)) /\ j - Len(p) = 1  BY <3>1, <4>2 DEF l
        <5>. QED  BY <3>1, <3>3, <4>1, <4>2, <5>1
      <4>3. CASE j # l + 1
        <5>1. j <= l /\ j \in 1 .. l  BY <3>1, <4>3
        <5>. QED  BY <3>3, <4>1, <5>1 DEF l
      <4>. QED  BY <4>2, <4>3
    <3>6. Separate(p) /\ Within(p, floor)
          /\ \A j \in 1 .. l : \E i \in 1 .. k - 1 : Inside(p[j], hs[i])
      BY <2>2 DEF p, l
    <3>7. \A j \in 1 .. l : p[j] \in Region  BY <3>1, HoleIs DEF l
    <3>8. \A j \in 1 .. l : Apart(p[j], x) /\ Apart(x, p[j])
      <4>. SUFFICES ASSUME NEW j \in 1 .. l PROVE Apart(x, p[j])  BY DEF Apart
      <4>1. PICK i \in 1 .. k - 1 : Inside(p[j], hs[i])  BY <3>6
      <4>2. Apart(hs[i], hs[k]) /\ hs[i] \in Region  BY <1>2, <2>0 DEF Separate
      <4>3. Apart(hs[i], x)  BY <2>3, <2>5, <4>2, InsideApart
      <4>4. Apart(x, hs[i])  BY <4>3 DEF Apart
      <4>. QED  BY <3>7, <4>1, <4>2, <4>4, InsideApart
    <3>9. Separate(u)
      <4>1. \A j \in 1 .. l + 1 : u[j].len >= NODE /\ NODE <= u[j].off - u[j].len
        BY <2>5, <3>5, <3>6 DEF Separate, l
      <4>2. \A i, j \in 1 .. l + 1 : i # j => Apart(u[i], u[j])
        BY <3>5, <3>6, <3>8 DEF Separate, l
      <4>. QED  BY <3>4, <4>1, <4>2 DEF Separate
    <3>10. Within(u, floor)  BY <2>5, <3>4, <3>5, <3>6 DEF Within, l
    <3>11. \A j \in 1 .. Len(u) : \E i \in 1 .. k : Inside(u[j], hs[i])
      <4>. SUFFICES ASSUME NEW j \in 1 .. l + 1 PROVE \E i \in 1 .. k : Inside(u[j], hs[i])
        BY <3>4
      <4>1. CASE u[j] = x  BY <2>0, <2>5, <4>1
      <4>2. CASE j \in 1 .. l /\ u[j] = p[j]  BY <2>0, <3>6, <4>2
      <4>. QED  BY <3>5, <4>1, <4>2
    <3>12. Rising(hs) => Rising(u)
      <4>. SUFFICES ASSUME Rising(hs), NEW j \in 1 .. l + 1, NEW i \in 1 .. l + 1, j < i
                    PROVE  u[j].off + NODE <= u[i].off - u[i].len
        BY <3>4 DEF Rising
      <4>1. j \in 1 .. l /\ u[j] = p[j]  BY <3>1, <3>5
      <4>2. CASE i \in 1 .. l /\ u[i] = p[i]
        <5>1. Rising(p)  BY <2>2 DEF p
        <5>. QED  BY <4>1, <4>2, <5>1 DEF Rising, l
      <4>3. CASE u[i] = x
        <5>1. PICK q \in 1 .. k - 1 : Inside(p[j], hs[q])  BY <3>6, <4>1
        <5>2. q \in 1 .. n /\ k \in 1 .. n /\ q < k  BY <2>0
        <5>3. hs[q].off + NODE <= hs[k].off - hs[k].len  BY <5>2 DEF Rising
        <5>4. p[j].off <= hs[q].off /\ hs[k].off - hs[k].len <= x.off - x.len
          BY <2>5, <5>1 DEF Inside
        <5>5. /\ p[j].off \in Nat /\ hs[q].off \in Nat /\ hs[k].off \in Nat /\ hs[k].len \in Nat
              /\ x.off \in Nat /\ x.len \in Nat
          BY <1>2, <2>0, <2>5, <3>7, <4>1, <5>2 DEF Region
        <5>. DEFINE o1 == p[j].off
                    o2 == hs[q].off
                    o3 == hs[k].off
                    l3 == hs[k].len
                    o4 == x.off
                    l4 == x.len
        <5>6. /\ o1 \in Nat /\ o2 \in Nat /\ o3 \in Nat /\ l3 \in Nat /\ o4 \in Nat /\ l4 \in Nat
              /\ o1 <= o2 /\ o2 + NODE <= o3 - l3 /\ o3 - l3 <= o4 - l4
          BY <5>3, <5>4, <5>5
        <5>. HIDE DEF o1, o2, o3, l3, o4, l4
        <5>7. o1 + NODE <= o4 - l4  BY <5>6 DEF NODE
        <5>. QED  BY <4>1, <4>3, <5>7 DEF o1, o4, l4
      <4>. QED  BY <3>5, <4>2, <4>3
    <3>. QED  BY <3>3, <3>9, <3>10, <3>11, <3>12 DEF u
  <2>6. \/ Clip(hs[k], floor) = <<>>
        \/ \E x \in Region :
              /\ Clip(hs[k], floor) = <<x>> /\ Inside(x, hs[k]) /\ x.off <= floor
              /\ x.len >= NODE /\ NODE <= x.off - x.len
    BY <2>3, ClipIs
  <2>. QED  BY <2>0, <2>4, <2>5, <2>6
<1>. HIDE DEF S
<1>5. 0 .. n \subseteq S  BY <1>2, <1>3, <1>4, Upwards
<1>6. fine(n)  BY <1>2, <1>5 DEF S
<1>7. \A r \in Region : AllApart(r, hs) => AllApart(r, w)
  <2>. SUFFICES ASSUME NEW r \in Region, AllApart(r, hs), NEW j \in 1 .. Len(w)
                PROVE  Apart(r, w[j])
    BY DEF AllApart
  <2>1. w = m[n]  BY DEF w
  <2>2. w[j] \in Region /\ \E i \in 1 .. n : Inside(w[j], hs[i])  BY <1>6, <2>1, HoleIs
  <2>. QED  BY <1>2, <2>2, InsideApart DEF AllApart
<1>. QED  BY <1>6, <1>7 DEF w

\* pop_heap touches no region above the new bottom of the heap.
LEMMA PopIs ==
    ASSUME NEW b, Good(b), NEW len \in Nat, len <= b.heap
    PROVE  LET c == PopHeap(b, len)
           IN  /\ Good(c) /\ c.cap = b.cap /\ c.stack = b.stack /\ c.heap = b.heap - len
               /\ Rising(b.holes) => Rising(c.holes)
               /\ \A r \in Region :
                     Clear(b, r) /\ r.off <= NODE + b.heap - len
                        => Clear(c, r) /\ Same(b, c, r)
               /\ \A r \in Region :
                     r.len >= NODE /\ r.off <= NODE + b.heap - len /\ Housed(b.holes, r)
                        => Housed(c.holes, r)
               /\ Edged(b.holes, NODE + b.heap - len) =>
                     /\ Tidy(b, c)
                     /\ \A o : Stray(c, o) => o <= NODE + b.heap - len \/ NODE + b.heap < o
<1>. DEFINE floor == NODE + b.heap - len
            clip(kept, h) == kept \o Clip(h, floor)
            rolled == Bottom(b) .. Bottom(b) + len - 1
            p == [b EXCEPT !.heap = @ - len, !.mem = Paint(@, rolled, <<>>)]
            w == FoldLeft(clip, <<>>, b.holes)
            c == SyncHoles(p, w)
            heap == b.heap - len
            mem == Paint(b.mem, rolled, <<>>)
<1>1. /\ Shaped(b) /\ b.holes \in Seq(Region) /\ Separate(b.holes)
      /\ b.cap \in Nat /\ b.stack \in Nat /\ b.heap \in Nat
      /\ b.stack + b.heap + NODE <= b.cap
      /\ DOMAIN b = {"cap", "stack", "heap", "holes", "mem"}
      /\ DOMAIN b.mem = 0 .. b.cap - 1
  BY DEF Good, Shaped
<1>2. PopHeap(b, len) = c  BY DEF PopHeap
<1>3. floor \in Nat /\ heap \in Nat /\ floor = NODE + heap /\ heap <= b.heap  BY <1>1 DEF NODE
<1>4. /\ w \in Seq(Region) /\ Separate(w) /\ Within(w, floor)
      /\ Rising(b.holes) => Rising(w)
      /\ \A r \in Region : AllApart(r, b.holes) => AllApart(r, w)
      /\ \A r \in Region :
            r.len >= NODE /\ r.off <= floor /\ Housed(b.holes, r) => Housed(w, r)
  <2>. DEFINE hs == b.holes
              is(f) == f = [S \in SUBSET DOMAIN hs |->
                              IF S = {} THEN <<>> ELSE clip(f[S \ {Max(S)}], hs[Max(S)])]
  <2>1. \A x, y : Folded("clip", floor, x, y) = clip(x, y)  BY DEF Folded
  <2>2. \A f : is(f) <=> Folding(f, DOMAIN hs, "clip", floor, <<>>, hs)
    BY <2>1 DEF Folding
  <2>3. \E f : is(f)
    <3>. HIDE DEF is, floor, hs
    <3>1. hs \in Seq(Region)  BY <1>1 DEF hs
    <3>. QED  BY <2>2, <3>1, FoldingOfList
  <2>4. PICK f : is(f) /\ w = f[DOMAIN hs]
    BY <2>3 DEF FoldLeft, MapThenFoldSet
  <2>. HIDE DEF is, hs, floor, w
  <2>5. hs \in Seq(Region) /\ Separate(hs)  BY <1>1 DEF hs
  <2>6. PICK m : Steps(m, "clip", floor, <<>>, hs) /\ f[DOMAIN hs] = m[Len(hs)]
    BY <2>2, <2>4, <2>5, FoldingSteps
  <2>7. /\ m[Len(hs)] \in Seq(Region) /\ Separate(m[Len(hs)]) /\ Within(m[Len(hs)], floor)
        /\ Rising(hs) => Rising(m[Len(hs)])
        /\ \A r \in Region : AllApart(r, hs) => AllApart(r, m[Len(hs)])
    BY <1>3, <2>5, <2>6, ClipAll
  <2>8. \A r \in Region :
           r.len >= NODE /\ r.off <= floor /\ Housed(hs, r) => Housed(m[Len(hs)], r)
    BY <1>3, <2>5, <2>6, ClipAllHouses
  <2>. QED  BY <2>4, <2>6, <2>7, <2>8 DEF hs
<1>. HIDE DEF w
<1>5. p = [b EXCEPT !.heap = heap, !.mem = mem]  OBVIOUS
<1>. HIDE DEF p, heap, mem
<1>6. /\ p.cap = b.cap /\ p.stack = b.stack /\ p.heap = heap /\ p.mem = mem
      /\ DOMAIN p = DOMAIN b
  BY <1>1, <1>5
<1>7. DOMAIN mem = 0 .. b.cap - 1 /\ \A x \in 0 .. b.cap - 1 : x \notin rolled => mem[x] = b.mem[x]
  BY <1>1 DEF mem, Paint
<1>8. Shaped(p)
  <2>1. b.stack + heap + NODE <= b.cap  BY <1>1, <1>3 DEF NODE
  <2>. QED  BY <1>1, <1>3, <1>6, <1>7, <2>1 DEF Shaped
<1>9. /\ Good(c) /\ c.cap = p.cap /\ c.stack = p.stack /\ c.heap = p.heap
      /\ \A r \in Region : InHeap(p, r) /\ AllApart(r, w) => Clear(c, r) /\ Same(p, c, r)
      /\ \A o : Stray(c, o) => NODE < o /\ ~InHoles(w, o) /\ At(c, o) = At(p, o)
  <2>1. Within(w, NODE + p.heap)  BY <1>3, <1>4, <1>6
  <2>. QED  BY <1>4, <1>8, <2>1, SyncIs
<1>11. c.holes = w  BY <1>8, SyncHolesAre
<1>. HIDE DEF c, floor
<1>10. ASSUME NEW r \in Region, Clear(b, r), r.off <= floor
       PROVE  Clear(c, r) /\ Same(b, c, r)
  <2>1. CASE r = NoRegion
    <3>1. r.off - r.len + 1 .. r.off = {}  BY <2>1 DEF NoRegion
    <3>. QED  BY <2>1, <3>1 DEF Clear, Same
  <2>2. CASE r # NoRegion
    <3>1. InHeap(b, r) /\ AllApart(r, b.holes)  BY <1>10, <2>2 DEF Clear
    <3>2. InHeap(p, r)  BY <1>3, <1>6, <1>10, <3>1 DEF InHeap
    <3>3. Clear(c, r) /\ Same(p, c, r)  BY <1>4, <1>9, <3>1, <3>2
    <3>4. ASSUME NEW o \in r.off - r.len + 1 .. r.off PROVE At(p, o) = At(b, o)
      <4>1. r.off \in Nat /\ r.len \in Nat  BY DEF Region
      <4>2. NODE <= r.off - r.len  BY <3>1 DEF InHeap
      <4>3. b.cap - o \in 0 .. b.cap - 1 /\ b.cap - o \notin rolled
        <5>. DEFINE x == r.off
                    l == r.len
                    k == b.cap
                    g == b.heap
        <5>1. /\ x \in Nat /\ l \in Nat /\ k \in Nat /\ g \in Nat /\ NODE <= x - l
              /\ x <= NODE + g - len /\ x - l + 1 <= o /\ o <= x /\ o \in Int
              /\ NODE + g <= k
          BY <1>1, <1>10, <4>1, <4>2 DEF NODE, floor
        <5>. HIDE DEF x, l, k, g
        <5>2. k - o \in 0 .. k - 1 /\ k - o \notin k - NODE - g .. k - NODE - g + len - 1
          BY <1>3, <5>1 DEF NODE
        <5>. QED  BY <5>2 DEF k, g, rolled, Bottom, Floor
      <4>. QED  BY <1>6, <1>7, <4>3 DEF At
    <3>. QED  BY <3>3, <3>4 DEF Same
  <2>. QED  BY <2>1, <2>2
<1>12. ASSUME Edged(b.holes, floor), NEW o, Stray(c, o)
       PROVE  Stray(b, o) /\ At(c, o) = At(b, o) /\ (o <= floor \/ NODE + b.heap < o)
  <2>1. o \in 1 .. b.cap /\ o \in Int /\ At(c, o) # <<>>
    BY <1>1, <1>6, <1>9, <1>12 DEF Stray
  <2>2. NODE < o /\ ~InHoles(w, o) /\ At(c, o) = At(p, o)  BY <1>9, <1>12
  <2>3. b.cap - o \notin rolled /\ At(p, o) = At(b, o)
    <3>. DEFINE x == b.cap - o
    <3>1. x \in 0 .. b.cap - 1  BY <1>1, <2>1
    <3>2. At(p, o) = mem[x]  BY <1>6 DEF At
    <3>3. x \in rolled => mem[x] = <<>>  BY <1>1, <3>1 DEF mem, Paint
    <3>. HIDE DEF x, rolled
    <3>. QED  BY <1>7, <2>1, <2>2, <3>1, <3>2, <3>3 DEF At, x
  <2>4. o <= floor \/ NODE + b.heap < o
    <3>. DEFINE k == b.cap
                g == b.heap
    <3>1. k \in Nat /\ g \in Nat /\ k - o \notin k - NODE - g .. k - NODE - g + len - 1
      BY <1>1, <2>3 DEF Bottom, Floor
    <3>. HIDE DEF k, g
    <3>2. o <= NODE + g - len \/ NODE + g < o  BY <2>1, <3>1 DEF NODE
    <3>. QED  BY <3>2 DEF floor, g
  <2>5. ASSUME NEW i \in 1 .. Len(b.holes), HasNode(b.holes[i], o) PROVE FALSE
    <3>. DEFINE h == b.holes[i]
    <3>1. /\ h \in Region /\ h.off \in Nat /\ h.len \in Nat /\ h.len >= NODE
          /\ h.off <= NODE + b.heap
      BY <1>1, HoleIs DEF Separate, Within, Good
    <3>2. Foot(h) >= floor \/ Foot(h) + NODE <= floor  BY <1>12 DEF Edged
    <3>3. HasNode(h, o)  BY <2>5
    <3>4. Housed(b.holes, h)  BY <3>1, InsideSelf DEF Housed
    <3>. DEFINE Q(r) == r.len >= NODE /\ r.off <= floor /\ Inside(r, h) /\ Has(r, o)
    <3>5. \A r \in Region : ~Q(r)
      <4>. SUFFICES ASSUME NEW r \in Region, Q(r) PROVE FALSE  OBVIOUS
      <4>1. Housed(b.holes, r)  BY DEF Housed
      <4>2. Housed(w, r)  BY <1>4, <4>1
      <4>. QED  BY <1>4, <2>1, <2>2, <4>2, HousedHas
    <3>. HIDE DEF h
    <3>6. o <= floor /\ Foot(h) < o /\ o <= h.off
      BY <1>1, <2>1, <2>4, <3>1, <3>3 DEF Foot, HasNode, NODE
    <3>7. CASE h.off <= floor
      <4>1. Q(h)  BY <3>1, <3>6, <3>7, InsideSelf DEF Has, Foot
      <4>. QED  BY <3>1, <3>5, <4>1
    <3>8. CASE ~(h.off <= floor)
      <4>. DEFINE n == floor - Foot(h)
                  r == [off |-> floor, len |-> n]
      <4>1. Foot(h) + NODE <= floor /\ Foot(h) = h.off - h.len /\ Foot(h) \in Int
        BY <1>3, <2>1, <3>1, <3>2, <3>6 DEF Foot
      <4>2. n \in Nat /\ n >= NODE /\ floor - n = Foot(h)  BY <1>3, <4>1 DEF NODE
      <4>. HIDE DEF n
      <4>3. r \in Region /\ r.off = floor /\ r.len = n  BY <1>3, <4>2 DEF Region
      <4>. HIDE DEF r
      <4>4. Q(r)
        BY <1>3, <3>1, <3>6, <3>8, <4>1, <4>2, <4>3 DEF Has, Inside
      <4>. QED  BY <3>5, <4>3, <4>4
    <3>. QED  BY <3>7, <3>8
  <2>6. ~Marked(b, o)  BY <2>1, <2>2, <2>5 DEF Marked, NODE
  <2>. QED  BY <2>1, <2>2, <2>3, <2>4, <2>6 DEF Stray
<1>13. Edged(b.holes, floor) =>
          /\ Tidy(b, c)
          /\ \A o : Stray(c, o) => o <= floor \/ NODE + b.heap < o
  BY <1>12 DEF Tidy
<1>. QED  BY <1>2, <1>4, <1>6, <1>9, <1>10, <1>11, <1>13 DEF floor, heap

-----------------------------------------------------------------------------
(* Archived values.                                                        *)

LEMMA FeetOn ==
    ASSUME NEW u, NEW w, NEW hs, NEW Q, NEW R, Feet(u, w, Q), Feet(w, hs, R)
    PROVE  Feet(u, hs, R \union Q)
<1>. SUFFICES ASSUME NEW j \in 1 .. Len(u)
              PROVE  \/ \E i \in 1 .. Len(hs) : Foot(u[j]) = Foot(hs[i])
                     \/ \E r \in R \union Q : r.len # 0 /\ Foot(u[j]) = Foot(r)
  BY DEF Feet
<1>1. CASE \E r \in Q : r.len # 0 /\ Foot(u[j]) = Foot(r)  BY <1>1
<1>2. CASE \E i \in 1 .. Len(w) : Foot(u[j]) = Foot(w[i])
  <2>1. PICK i \in 1 .. Len(w) : Foot(u[j]) = Foot(w[i])  BY <1>2
  <2>2. \/ \E l \in 1 .. Len(hs) : Foot(w[i]) = Foot(hs[l])
        \/ \E r \in R : r.len # 0 /\ Foot(w[i]) = Foot(r)
    BY DEF Feet
  <2>. QED  BY <2>1, <2>2
<1>. QED  BY <1>1, <1>2 DEF Feet

\* What one block leaves outside its holes, and the next outside more holes.
LEMMA OutsideOn ==
    ASSUME NEW b, b.cap \in Nat, NEW p, p.cap = b.cap, OutsideSame(b, p),
           p.holes \in Seq(Region), NEW q, OutsideSame(p, q), q.holes \in Seq(Region),
           \A r \in Region : Housed(p.holes, r) => Housed(q.holes, r)
    PROVE  OutsideSame(b, q)
<1>. SUFFICES ASSUME NEW o \in NODE + 1 .. b.cap, ~InHoles(q.holes, o)
              PROVE  At(q, o) = At(b, o)
  BY DEF OutsideSame
<1>1. ASSUME NEW i \in 1 .. Len(p.holes), Has(p.holes[i], o) PROVE FALSE
  <2>1. p.holes[i] \in Region  BY HoleIs
  <2>2. Housed(p.holes, p.holes[i])  BY <2>1, InsideSelf DEF Housed
  <2>3. o \in Int  BY DEF NODE
  <2>4. InHoles(q.holes, o)  BY <1>1, <2>1, <2>2, <2>3, HousedHas
  <2>. QED  BY <2>4
<1>2. ~InHoles(p.holes, o)  BY <1>1 DEF InHoles
<1>. QED  BY <1>2 DEF OutsideSame

\* release gives back the regions of a value, and touches no other.
LEMMA ReleaseIs ==
    ASSUME NEW b, Good(b), NEW s, Owned(b, s)
    PROVE  LET c == Release(b, s)
           IN  /\ Good(c) /\ c.cap = b.cap /\ c.stack = b.stack /\ c.heap = b.heap
               /\ Rising(b.holes) => Rising(c.holes)
               /\ \A r \in Region :
                     Clear(b, r) /\ Away(r, s) => Clear(c, r) /\ Same(b, c, r)
               /\ \A r \in Region :
                     Housed(b.holes, r) \/ (r.len # 0 /\ r \in Owns(s)) => Housed(c.holes, r)
               /\ Feet(c.holes, b.holes, Owns(s)) /\ OutsideSame(b, c)
               /\ Tidy(b, c) /\ \A o : Stray(c, o) => \A r \in Owns(s) : ~Has(r, o)
<1>. DEFINE n == Len(s.kids)
            kids == s.kids
            own == s.own
            c == Release(b, s)
<1>1. /\ own \in Region /\ kids \in Seq(Region) /\ Clear(b, own) /\ n \in Nat
      /\ \A k \in 1 .. n : /\ kids[k] \in Region /\ Clear(b, kids[k])
                           /\ Apart(own, kids[k]) /\ Apart(kids[k], own)
      /\ \A j, k \in 1 .. n : j # k => Apart(kids[j], kids[k])
  <2>1. own \in Region /\ kids \in Seq(Region)  BY DEF Owned
  <2>2. n \in Nat /\ \A k \in 1 .. n : kids[k] \in Region  BY <2>1, HoleIs
  <2>3. 0 \in Places(s) /\ \A k \in 1 .. n : k \in Places(s) /\ k # 0  BY <2>2 DEF Places
  <2>4. RegionAt(s, 0) = own /\ \A k \in 1 .. n : RegionAt(s, k) = kids[k]
    BY <2>3 DEF RegionAt
  <2>5. /\ \A k \in Places(s) : Clear(b, RegionAt(s, k))
        /\ \A j, k \in Places(s) : j # k => Apart(RegionAt(s, j), RegionAt(s, k))
    BY DEF Owned
  <2>. HIDE DEF n, kids, own
  <2>. QED  BY <2>1, <2>2, <2>3, <2>4, <2>5
<1>2. PICK m : Steps(m, "free", 0, b, kids) /\ FoldLeft(Free, b, kids) = m[Len(kids)]
  BY <1>1, FreeSteps
<1>3. c = Free(m[n], own)  BY <1>2 DEF Release
<1>. HIDE DEF c, own, kids
<1>. DEFINE gone(k) == {kids[j] : j \in 1 .. k}
            wiped(k) == \A o : Stray(m[k], o) => \A j \in 1 .. k : ~Has(kids[j], o)
            fine(k) ==
              /\ Good(m[k])
              /\ m[k].cap = b.cap /\ m[k].stack = b.stack /\ m[k].heap = b.heap
              /\ Rising(b.holes) => Rising(m[k].holes)
              /\ \A r \in Region :
                    Clear(b, r) /\ (\A j \in 1 .. k : Apart(r, kids[j]))
                       => Clear(m[k], r) /\ Same(b, m[k], r)
              /\ \A r \in Region :
                    Housed(b.holes, r) \/ (r.len # 0 /\ \E j \in 1 .. k : r = kids[j])
                       => Housed(m[k].holes, r)
              /\ Feet(m[k].holes, b.holes, gone(k)) /\ OutsideSame(b, m[k])
              /\ Tidy(b, m[k]) /\ wiped(k)
            S == {k \in 0 .. n : fine(k)}
<1>4. 0 \in S
  <2>1. m[0] = b  BY <1>2 DEF Steps
  <2>2. \A r : Same(b, b, r)  BY DEF Same
  <2>4. ~\E j \in 1 .. 0 : TRUE  OBVIOUS
  <2>5. Tidy(b, b) /\ Feet(b.holes, b.holes, {kids[j] : j \in 1 .. 0})  BY DEF Tidy, Feet
  <2>6. OutsideSame(b, b)  BY DEF OutsideSame
  <2>3. fine(0)  BY <2>1, <2>2, <2>4, <2>5, <2>6
  <2>. QED  BY <1>1, <2>3
<1>5. ASSUME NEW k \in 0 + 1 .. n, k - 1 \in S PROVE k \in S
  <2>0. k \in 1 .. n /\ k \in 0 .. n /\ k \in Nat /\ k \in 1 .. k
        /\ (\A j \in 1 .. k - 1 : j \in 1 .. k /\ j \in 1 .. n /\ j # k)
        /\ \A j \in 1 .. k : j \in 1 .. k - 1 \/ j = k
    BY <1>1
  <2>. DEFINE p == m[k - 1]
              q == m[k]
  <2>1. q = Free(p, kids[k])  BY <1>2, <2>0 DEF Steps, Folded, kids
  <2>2. fine(k - 1)  BY <1>5
  <2>3. kids[k] \in Region /\ Clear(p, kids[k])  BY <1>1, <2>0, <2>2
  <2>4. /\ Good(p) /\ p.cap = b.cap /\ p.stack = b.stack /\ p.heap = b.heap
        /\ Rising(b.holes) => Rising(p.holes)
    BY <2>2
  <2>5. \A r \in Region : Clear(b, r) /\ (\A j \in 1 .. k - 1 : Apart(r, kids[j]))
                             => Clear(p, r) /\ Same(b, p, r)
    BY <2>2
  <2>10. \A r \in Region :
            Housed(b.holes, r) \/ (r.len # 0 /\ \E j \in 1 .. k - 1 : r = kids[j])
               => Housed(p.holes, r)
    BY <2>2
  <2>13. /\ Feet(p.holes, b.holes, {kids[j] : j \in 1 .. k - 1}) /\ OutsideSame(b, p)
         /\ Tidy(b, p) /\ \A o : Stray(p, o) => \A j \in 1 .. k - 1 : ~Has(kids[j], o)
    BY <2>2
  <2>. HIDE DEF p, q
  <2>6. /\ Good(q) /\ q.cap = p.cap /\ q.stack = p.stack /\ q.heap = p.heap
        /\ \A r \in Region : Clear(p, r) /\ Apart(r, kids[k]) => Clear(q, r) /\ Same(p, q, r)
        /\ Feet(q.holes, p.holes, {kids[k]}) /\ OutsideSame(p, q)
    BY <2>1, <2>3, <2>4, FreeIs
  <2>7. \A r \in Region : Clear(b, r) /\ (\A j \in 1 .. k : Apart(r, kids[j]))
                             => Clear(q, r) /\ Same(b, q, r)
    BY <2>0, <2>5, <2>6 DEF Same
  <2>9. Rising(b.holes) => Rising(q.holes)  BY <2>1, <2>3, <2>4, FreeRises
  <2>11. \A r \in Region : Housed(p.holes, r) \/ (r.len # 0 /\ r = kids[k]) => Housed(q.holes, r)
    BY <2>1, <2>3, <2>4, FreeTakes
  <2>12. \A r \in Region :
            Housed(b.holes, r) \/ (r.len # 0 /\ \E j \in 1 .. k : r = kids[j])
               => Housed(q.holes, r)
    BY <2>0, <2>10, <2>11
  <2>14. Tidy(p, q) /\ \A o : Stray(q, o) => ~Has(kids[k], o)
    BY <2>1, <2>3, <2>4, FreeTidy
  <2>15. Tidy(b, q) /\ \A o : Stray(q, o) => \A j \in 1 .. k : ~Has(kids[j], o)
    BY <2>0, <2>13, <2>14 DEF Tidy
  <2>16. Feet(q.holes, b.holes, {kids[j] : j \in 1 .. k})
    <3>1. {kids[j] : j \in 1 .. k} = {kids[j] : j \in 1 .. k - 1} \union {kids[k]}
      BY <2>0
    <3>. QED  BY <2>6, <2>13, <3>1, FeetOn
  <2>17. OutsideSame(b, q)
    <3>1. p.holes \in Seq(Region) /\ q.holes \in Seq(Region) /\ b.cap \in Nat
      BY <2>4, <2>6 DEF Good, Shaped
    <3>. QED  BY <2>4, <2>6, <2>11, <2>13, <3>1, OutsideOn
  <2>8. fine(k)  BY <2>4, <2>6, <2>7, <2>9, <2>12, <2>15, <2>16, <2>17 DEF q
  <2>. QED  BY <2>0, <2>8
<1>. HIDE DEF S
<1>6. 0 .. n \subseteq S  BY <1>1, <1>4, <1>5, Upwards
<1>. HIDE DEF gone, wiped
<1>7. fine(n)  BY <1>1, <1>6 DEF S
<1>8. Clear(m[n], own)  BY <1>1, <1>7
<1>9. /\ Good(c) /\ c.cap = m[n].cap /\ c.stack = m[n].stack /\ c.heap = m[n].heap
      /\ \A r \in Region : Clear(m[n], r) /\ Apart(r, own) => Clear(c, r) /\ Same(m[n], c, r)
      /\ Feet(c.holes, m[n].holes, {own}) /\ OutsideSame(m[n], c)
      /\ Tidy(m[n], c) /\ \A o : Stray(c, o) => ~Has(own, o)
  <2>1. Good(m[n])  BY <1>7
  <2>. HIDE DEF n
  <2>. QED  BY <1>1, <1>3, <1>8, <2>1, FreeIs, FreeTidy
<1>11. Rising(b.holes) => Rising(c.holes)
  <2>1. Good(m[n]) /\ (Rising(b.holes) => Rising(m[n].holes))  BY <1>7
  <2>. HIDE DEF n
  <2>. QED  BY <1>1, <1>3, <1>8, <2>1, FreeRises
<1>12. ASSUME NEW r \in Region, Housed(b.holes, r) \/ (r.len # 0 /\ r \in Owns(s))
       PROVE  Housed(c.holes, r)
  <2>1. r \in Owns(s) => r = own \/ \E j \in 1 .. n : r = kids[j]
    BY <1>1 DEF Owns, Places, RegionAt, own, kids
  <2>2. Housed(b.holes, r) \/ (r.len # 0 /\ \E j \in 1 .. n : r = kids[j])
           => Housed(m[n].holes, r)
    BY <1>7
  <2>3. Good(m[n])  BY <1>7
  <2>4. Housed(m[n].holes, r) \/ (r.len # 0 /\ r = own) => Housed(c.holes, r)
    <3>. HIDE DEF n
    <3>. QED  BY <1>1, <1>3, <2>3, FreeTakes
  <2>. QED  BY <1>12, <2>1, <2>2, <2>4
<1>10. ASSUME NEW r \in Region, Clear(b, r), Away(r, s)
       PROVE  Clear(c, r) /\ Same(b, c, r)
  <2>1. Apart(r, own)
    <3>1. 0 \in Places(s) /\ RegionAt(s, 0) = own  BY <1>1 DEF Places, RegionAt, own
    <3>. QED  BY <1>10, <3>1 DEF Away
  <2>2. \A k \in 1 .. n : Apart(r, kids[k])
    <3>1. \A k \in 1 .. n : k \in Places(s) /\ RegionAt(s, k) = kids[k]
      BY <1>1 DEF Places, RegionAt, kids
    <3>. QED  BY <1>10, <3>1 DEF Away
  <2>3. Clear(m[n], r) /\ Same(b, m[n], r)  BY <1>7, <1>10, <2>2
  <2>. QED  BY <1>9, <2>1, <2>3 DEF Same
<1>13. Owns(s) = {kids[j] : j \in 1 .. n} \union {own}
  BY <1>1 DEF Owns, Places, RegionAt, own, kids
<1>14. Feet(c.holes, b.holes, Owns(s))
  <2>1. Feet(m[n].holes, b.holes, gone(n))  BY <1>7
  <2>. QED  BY <1>9, <1>13, <2>1, FeetOn DEF gone
<1>15. Tidy(b, c) /\ \A o : Stray(c, o) => \A r \in Owns(s) : ~Has(r, o)
  <2>1. Tidy(b, m[n]) /\ \A o : Stray(m[n], o) => \A j \in 1 .. n : ~Has(kids[j], o)
    BY <1>7 DEF wiped
  <2>. QED  BY <1>9, <1>13, <2>1 DEF Tidy
<1>16. OutsideSame(b, c)
  <2>. DEFINE p == m[n]
  <2>1. Good(p) /\ p.cap = b.cap /\ OutsideSame(b, p)  BY <1>7
  <2>2. OutsideSame(p, c) /\ Good(c)  BY <1>9
  <2>3. c = Free(p, own)  BY <1>3
  <2>. HIDE DEF p
  <2>4. \A r \in Region : Housed(p.holes, r) => Housed(c.holes, r)
    BY <1>1, <2>1, <2>3, FreeTakes
  <2>5. p.holes \in Seq(Region) /\ c.holes \in Seq(Region) /\ b.cap \in Nat
    BY <2>1, <2>2 DEF Good, Shaped
  <2>. QED  BY <2>1, <2>2, <2>4, <2>5, OutsideOn
<1>. QED  BY <1>7, <1>9, <1>10, <1>11, <1>12, <1>14, <1>15, <1>16 DEF c

\* An archive that takes itself back leaves what was there before it.
LEMMA UnwindIs ==
    ASSUME NEW b, Good(b), NEW s, Owned(b, s), NEW heap0 \in Nat, heap0 <= b.heap
    PROVE  LET c == Unwind(b, s, heap0)
           IN  /\ Good(c) /\ c.cap = b.cap /\ c.stack = b.stack /\ c.heap = heap0
               /\ Rising(b.holes) => Rising(c.holes)
               /\ \A r \in Region :
                     Clear(b, r) /\ Away(r, s) /\ r.off <= NODE + heap0
                        => Clear(c, r) /\ Same(b, c, r)
               /\ \A r \in Region :
                     r.len >= NODE /\ r.off <= NODE + heap0
                     /\ (Housed(b.holes, r) \/ r \in Owns(s))
                        => Housed(c.holes, r)
               /\ Settled(b.holes, Owns(s), NODE + heap0) =>
                     Tidy(b, c) /\ \A o : Stray(c, o) => \A r \in Owns(s) : ~Has(r, o)
<1>. DEFINE r0 == Release(b, s)
            len == r0.heap - heap0
            c == PopHeap(r0, len)
<1>1. /\ Good(r0) /\ r0.cap = b.cap /\ r0.stack = b.stack /\ r0.heap = b.heap
      /\ Rising(b.holes) => Rising(r0.holes)
      /\ \A r \in Region :
            Clear(b, r) /\ Away(r, s) => Clear(r0, r) /\ Same(b, r0, r)
      /\ \A r \in Region :
            Housed(b.holes, r) \/ (r.len # 0 /\ r \in Owns(s)) => Housed(r0.holes, r)
      /\ Feet(r0.holes, b.holes, Owns(s))
      /\ Tidy(b, r0) /\ \A o : Stray(r0, o) => \A r \in Owns(s) : ~Has(r, o)
  BY ReleaseIs
<1>2. Unwind(b, s, heap0) = c  BY DEF Unwind
<1>3. b.heap \in Nat  BY DEF Good, Shaped
<1>. HIDE DEF r0
<1>4. len \in Nat /\ len <= r0.heap /\ r0.heap - len = heap0 /\ r0.heap \in Nat
  BY <1>1, <1>3
<1>5. NODE + r0.heap - len = NODE + heap0  BY <1>1, <1>3 DEF NODE
<1>. HIDE DEF len
<1>6. /\ Good(c) /\ c.cap = r0.cap /\ c.stack = r0.stack /\ c.heap = r0.heap - len
      /\ Rising(r0.holes) => Rising(c.holes)
      /\ \A r \in Region :
            Clear(r0, r) /\ r.off <= NODE + r0.heap - len => Clear(c, r) /\ Same(r0, c, r)
      /\ \A r \in Region :
            r.len >= NODE /\ r.off <= NODE + r0.heap - len /\ Housed(r0.holes, r)
               => Housed(c.holes, r)
      /\ Edged(r0.holes, NODE + r0.heap - len) => Tidy(r0, c)
  BY <1>1, <1>4, PopIs
<1>. HIDE DEF c
<1>7. \A r \in Region :
         Clear(b, r) /\ Away(r, s) /\ r.off <= NODE + heap0 => Clear(c, r) /\ Same(b, c, r)
  BY <1>1, <1>5, <1>6 DEF Same
<1>8. ASSUME NEW r \in Region, r.len >= NODE, r.off <= NODE + heap0,
             Housed(b.holes, r) \/ r \in Owns(s)
      PROVE  Housed(c.holes, r)
  <2>1. r.len # 0  BY <1>8 DEF Region, NODE
  <2>2. Housed(r0.holes, r)  BY <1>1, <1>8, <2>1
  <2>. QED  BY <1>5, <1>6, <1>8, <2>2
<1>9. \A r \in Region :
         r.len >= NODE /\ r.off <= NODE + heap0
         /\ (Housed(b.holes, r) \/ r \in Owns(s))
            => Housed(c.holes, r)
  BY <1>8
<1>10. ASSUME Settled(b.holes, Owns(s), NODE + heap0)
       PROVE  Tidy(b, c) /\ \A o : Stray(c, o) => \A r \in Owns(s) : ~Has(r, o)
  <2>. DEFINE lim == NODE + heap0
  <2>0. lim \in Nat  BY DEF NODE
  <2>1. \A r \in Region :
           r.len >= NODE /\ (r.off <= lim \/ lim <= Foot(r)) =>
              lim <= Foot(r) \/ Foot(r) + NODE <= lim
    BY <2>0 DEF Foot, Region, NODE
  <2>2. \A i \in 1 .. Len(b.holes) :
           b.holes[i] \in Region /\ b.holes[i].len >= NODE /\ b.holes[i].off <= lim
    BY <1>10, HoleIs DEF Good, Separate, Settled, Within
  <2>3. \A r \in Owns(s) : /\ r \in Region /\ (r.len # 0 => r.len >= NODE)
                           /\ r.off <= lim \/ lim <= Foot(r)
    <3>1. \A k \in Places(s) : RegionAt(s, k) \in Region /\ Clear(b, RegionAt(s, k))
      <4>1. s.own \in Region /\ s.kids \in Seq(Region)  BY DEF Owned
      <4>2. \A k \in Places(s) : k = 0 \/ (k # 0 /\ k \in 1 .. Len(s.kids))
        BY <4>1, HoleIs DEF Places
      <4>3. \A k \in Places(s) : RegionAt(s, k) \in Region
        BY <4>1, <4>2, HoleIs DEF RegionAt
      <4>. QED  BY <4>3 DEF Owned
    <3>2. NoRegion.len = 0  BY DEF NoRegion
    <3>. QED  BY <1>10, <3>1, <3>2 DEF Owns, Clear, InHeap, Settled
  <2>. HIDE DEF lim
  <2>4. Edged(r0.holes, lim)
    <3>. SUFFICES ASSUME NEW j \in 1 .. Len(r0.holes)
                  PROVE  lim <= Foot(r0.holes[j]) \/ Foot(r0.holes[j]) + NODE <= lim
      BY DEF Edged
    <3>1. \/ \E i \in 1 .. Len(b.holes) : Foot(r0.holes[j]) = Foot(b.holes[i])
          \/ \E r \in Owns(s) : r.len # 0 /\ Foot(r0.holes[j]) = Foot(r)
      BY <1>1 DEF Feet
    <3>. QED  BY <2>1, <2>2, <2>3, <3>1
  <2>5. Tidy(r0, c)  BY <1>5, <1>6, <2>4 DEF lim
  <2>. QED  BY <1>1, <2>5 DEF Tidy
<1>. QED  BY <1>1, <1>2, <1>4, <1>6, <1>7, <1>9, <1>10

\* A region of a stored value is a region, and clear.
LEMMA PlaceIs ==
    ASSUME NEW blk, NEW s, Owned(blk, s), NEW k \in Places(s)
    PROVE  RegionAt(s, k) \in Region /\ Clear(blk, RegionAt(s, k))
<1>1. s.own \in Region /\ s.kids \in Seq(Region) /\ Clear(blk, RegionAt(s, k))  BY DEF Owned
<1>2. k = 0 \/ (k # 0 /\ k \in 1 .. Len(s.kids))
  <2>1. Len(s.kids) \in Nat  BY <1>1, LenProperties
  <2>. QED  BY <2>1 DEF Places
<1>3. k # 0 => s.kids[k] \in Region  BY <1>1, <1>2, ElementOfSeq
<1>. QED  BY <1>1, <1>2, <1>3 DEF RegionAt

LEMMA NeedIs ==
    ASSUME NEW v \in Needs
    PROVE  /\ Len(v.kids) \in Nat
           /\ \A k \in 0 .. Len(v.kids) :
                 NeedAt(v, k).size \in Nat /\ NeedAt(v, k).align \in Nat \ {0}
<1>1. v.own \in Need /\ v.kids \in Seq(Need)  BY DEF Needs
<1>2. Len(v.kids) \in Nat /\ \A k \in 1 .. Len(v.kids) : v.kids[k] \in Need
  BY <1>1, LenProperties, ElementOfSeq
<1>3. \A d \in Need : d.size \in Nat /\ d.align \in Nat \ {0}  BY DEF Need
<1>4. \A k \in 0 .. Len(v.kids) : k = 0 \/ k \in 1 .. Len(v.kids)  BY <1>2
<1>5. \A k \in 0 .. Len(v.kids) : NeedAt(v, k) \in Need  BY <1>1, <1>2, <1>4 DEF NeedAt
<1>. QED  BY <1>2, <1>3, <1>5

\* an archive in b0 wastes little of its holes, and nothing when it fails
Sparing(b0, a) ==
    IF a.ok THEN Tight(b0.holes, a.b.holes, Owns(a.s), NODE + b0.heap)
    ELSE NothingLost(b0.holes, a.b.holes)

\* an archive of v in b0 leaves no byte written but those of v, if it has room,
\* and no region or hole across the bottom of the heap as it was
Tidied(b0, v, a) ==
    /\ a.ok => Settled(a.b.holes, Owns(a.s), NODE + b0.heap)
    /\ \A o : Stray(a.b, o) => \/ Stray(b0, o) /\ At(a.b, o) = At(b0, o)
                               \/ a.ok /\ Paid(v, a.s, o)

\* how far an archive of v as x in b0 is after the first k children
Progress(b0, v, x, a, k) ==
    /\ DOMAIN a = {"ok", "b", "s"} /\ a.ok \in BOOLEAN
    /\ Good(a.b) /\ a.b.cap = b0.cap /\ a.b.stack = b0.stack
    /\ \A r \in Region : Clear(b0, r) => Clear(a.b, r) /\ Same(b0, a.b, r)
    /\ Modest(v) /\ Rising(b0.holes) => Rising(a.b.holes)
    /\ Modest(v) /\ Rising(b0.holes) => Sparing(b0, a)
    /\ Tidied(b0, v, a)
    /\ ~a.ok => a.b.heap = b0.heap
    /\ a.ok =>
          /\ DOMAIN a.s = {"own", "kids"} /\ Owned(a.b, a.s) /\ Len(a.s.kids) = k
          /\ Filled(a.b, v, a.s, x) /\ b0.heap <= a.b.heap
          /\ \A r \in Region : Clear(b0, r) => Away(r, a.s)

\* The bytes that a value asked for are in its regions.
LEMMA PaidHas ==
    ASSUME NEW b, NEW v \in Needs, NEW s, NEW x, Owned(b, s), Filled(b, v, s, x),
           Len(s.kids) <= Len(v.kids), NEW o, Paid(v, s, o)
    PROVE  \E r \in Owns(s) : Has(r, o)
<1>1. PICK k \in Places(s) :
         o \in RegionAt(s, k).off - NeedAt(v, k).size + 1 .. RegionAt(s, k).off
  BY DEF Paid
<1>. DEFINE r == RegionAt(s, k)
            n == NeedAt(v, k).size
<1>2. r \in Region /\ r \in Owns(s)  BY PlaceIs DEF Owns
<1>3. n <= r.len /\ o \in r.off - n + 1 .. r.off  BY <1>1 DEF Filled
<1>4. n \in Nat
  <2>1. Len(s.kids) \in Nat /\ Len(v.kids) \in Nat  BY NeedIs, HoleIs DEF Owned
  <2>2. k \in 0 .. Len(v.kids)  BY <2>1 DEF Places
  <2>. QED  BY <2>2, NeedIs
<1>. HIDE DEF r, n
<1>5. Has(r, o)  BY <1>2, <1>3, <1>4 DEF Region, Has
<1>. QED  BY <1>2, <1>5

\* The next child, which has its region or makes the whole archive fail.
LEMMA KidIs ==
    ASSUME NEW b0, Good(b0), NEW v \in Needs, NEW x, NEW a,
           NEW k \in 1 .. Len(v.kids), Progress(b0, v, x, a, k - 1)
    PROVE  Progress(b0, v, x, ArchiveKid(a, v.kids[k], x, b0.heap), k)
<1>. DEFINE kid == v.kids[k]
            a1 == ArchiveKid(a, kid, x, b0.heap)
            m == Alloc(a.b, kid.size, kid.align)
<1>1. kid.size \in Nat /\ kid.align \in Nat \ {0} /\ k \in Nat /\ k >= 1
  <2>1. Len(v.kids) \in Nat  BY NeedIs
  <2>2. k \in 0 .. Len(v.kids) /\ k \in Nat /\ k >= 1 /\ NeedAt(v, k) = kid  BY <2>1 DEF NeedAt
  <2>. HIDE DEF kid
  <2>. QED  BY <2>2, NeedIs
<1>5. k \in Places(v) /\ NeedAt(v, k) = kid
  <2>1. Len(v.kids) \in Nat  BY NeedIs
  <2>. QED  BY <2>1 DEF NeedAt, Places
<1>. HIDE DEF kid
<1>2. b0.heap \in Nat  BY DEF Good, Shaped
<1>3. CASE ~a.ok
  <2>1. a1 = a  BY <1>3 DEF ArchiveKid
  <2>. HIDE DEF a1
  <2>2. Progress(b0, v, x, a1, k)  BY <1>3, <2>1 DEF Progress
  <2>. QED  BY <2>2 DEF a1, kid
<1>4. CASE a.ok
  <2>0. /\ DOMAIN a = {"ok", "b", "s"} /\ Good(a.b)
        /\ a.b.cap = b0.cap /\ a.b.stack = b0.stack
        /\ \A r \in Region : Clear(b0, r) => Clear(a.b, r) /\ Same(b0, a.b, r) /\ Away(r, a.s)
        /\ DOMAIN a.s = {"own", "kids"} /\ Owned(a.b, a.s) /\ Len(a.s.kids) = k - 1
        /\ Filled(a.b, v, a.s, x) /\ b0.heap <= a.b.heap
        /\ Modest(v) /\ Rising(b0.holes) => Rising(a.b.holes)
    BY <1>4 DEF Progress
  <2>7. /\ Settled(a.b.holes, Owns(a.s), NODE + b0.heap)
        /\ \A o : Stray(a.b, o) => (Stray(b0, o) /\ At(a.b, o) = At(b0, o)) \/ Paid(v, a.s, o)
    BY <1>4 DEF Progress, Tidied
  <2>1. Served(a.b, m, kid.size)  BY <1>1, <2>0, AllocIs
  <2>4. Modest(v) /\ Rising(b0.holes) => Rising(m.b.holes)
    <3>1. Modest(v) => kid.align <= NODE  BY <1>5 DEF Modest
    <3>. QED  BY <1>1, <2>0, <3>1, AllocRises
  <2>5. Modest(v) /\ Rising(b0.holes) =>
           Tight(b0.holes, a.b.holes, Owns(a.s), NODE + b0.heap)
    BY <1>4 DEF Progress, Sparing
  <2>6. m.ok /\ Modest(v) /\ Rising(b0.holes) =>
           Tight(b0.holes, m.b.holes, Owns(a.s) \union {m.h}, NODE + b0.heap)
    <3>. SUFFICES ASSUME m.ok, Modest(v), Rising(b0.holes)
                  PROVE  Tight(b0.holes, m.b.holes, Owns(a.s) \union {m.h}, NODE + b0.heap)
      OBVIOUS
    <3>. DEFINE lim == NODE + b0.heap
                e == a.b
    <3>1. kid.align <= NODE  BY <1>5 DEF Modest
    <3>2. a.b.heap \in Nat  BY <2>0 DEF Good, Shaped
    <3>3. lim \in Nat /\ lim <= NODE + e.heap  BY <1>2, <2>0, <3>2 DEF NODE
    <3>4. Good(e) /\ Rising(e.holes) /\ Tight(b0.holes, e.holes, Owns(a.s), lim)
      BY <2>0, <2>5
    <3>5. m = Alloc(e, kid.size, kid.align)  OBVIOUS
    <3>. HIDE DEF lim, e, m
    <3>6. Tight(b0.holes, m.b.holes, Owns(a.s) \union {m.h}, lim)
      BY <1>1, <3>1, <3>3, <3>4, <3>5, AllocTight
    <3>. QED  BY <3>6 DEF lim
  <2>. HIDE DEF m
  <2>2. CASE ~m.ok
    <3>. DEFINE u == Unwind(a.b, a.s, b0.heap)
                s0 == Stored(NoRegion, <<>>)
    <3>1. m.b = a.b  BY <2>1, <2>2 DEF Served
    <3>2. a1 = [ok |-> FALSE, b |-> u, s |-> s0]
      BY <1>4, <2>2, <3>1 DEF ArchiveKid, m
    <3>3. /\ Good(u) /\ u.cap = a.b.cap /\ u.stack = a.b.stack /\ u.heap = b0.heap
          /\ Rising(a.b.holes) => Rising(u.holes)
          /\ \A r \in Region :
                Clear(a.b, r) /\ Away(r, a.s) /\ r.off <= NODE + b0.heap
                   => Clear(u, r) /\ Same(a.b, u, r)
          /\ \A r \in Region :
                r.len >= NODE /\ r.off <= NODE + b0.heap
                /\ (Housed(a.b.holes, r) \/ r \in Owns(a.s))
                   => Housed(u.holes, r)
          /\ Settled(a.b.holes, Owns(a.s), NODE + b0.heap) =>
                Tidy(a.b, u) /\ \A o : Stray(u, o) => \A r \in Owns(a.s) : ~Has(r, o)
      BY <1>2, <2>0, UnwindIs
    <3>. HIDE DEF a1, u, s0
    <3>4. a1.ok = FALSE /\ a1.b = u /\ DOMAIN a1 = {"ok", "b", "s"}  BY <3>2
    <3>5. \A r \in Region : Clear(b0, r) => r.off <= NODE + b0.heap
      BY <1>2 DEF Clear, InHeap, NoRegion, NODE
    <3>6. \A r \in Region : Clear(b0, r) => Clear(u, r) /\ Same(b0, u, r)
      BY <2>0, <3>3, <3>5 DEF Same
    <3>8. Modest(v) /\ Rising(b0.holes) => NothingLost(b0.holes, u.holes)
      <4>. SUFFICES ASSUME Modest(v), Rising(b0.holes) PROVE NothingLost(b0.holes, u.holes)
        OBVIOUS
      <4>. DEFINE hs0 == b0.holes
                  hs == a.b.holes
                  ws == u.holes
                  R == Owns(a.s)
                  lim == NODE + b0.heap
      <4>1. hs0 \in Seq(Region) /\ Within(hs0, lim) /\ lim \in Nat
        BY <1>2 DEF Good, NODE
      <4>2. /\ hs \in Seq(Region) /\ ws \in Seq(Region)
            /\ \A i \in 1 .. Len(hs) : hs[i] \in Region /\ hs[i].len >= NODE
        BY <2>0, <3>3, HoleIs DEF Good, Separate
      <4>3. Tight(hs0, hs, R, lim)  BY <2>5
      <4>4. R \subseteq Region /\ \A r \in R : r.len # 0 => r.len >= NODE
        <5>1. \A j \in Places(a.s) : RegionAt(a.s, j) \in Region /\ Clear(a.b, RegionAt(a.s, j))
          BY <2>0, PlaceIs
        <5>2. NoRegion.len = 0  BY DEF NoRegion
        <5>. QED  BY <5>1, <5>2 DEF Owns, Clear, InHeap
      <4>5. \A i \in 1 .. Len(hs) : Housed(hs, hs[i]) /\ hs[i].off <= lim
        BY <4>2, <4>3, InsideSelf DEF Housed, Tight, Within
      <4>6. \A r \in Region :
               r.len >= NODE /\ r.off <= lim /\ (Housed(hs, r) \/ r \in R) => Housed(ws, r)
        BY <3>3
      <4>. HIDE DEF hs0, hs, ws, R, lim
      <4>7. \A i \in 1 .. Len(hs) : Housed(ws, hs[i])  BY <4>2, <4>5, <4>6
      <4>8. \A r \in R : r.len # 0 /\ r.off <= lim => Housed(ws, r)  BY <4>4, <4>6
      <4>9. NothingLost(hs0, ws)  BY <4>1, <4>2, <4>3, <4>4, <4>7, <4>8, TightHouses
      <4>. QED  BY <4>9 DEF hs0, ws
    <3>9. Modest(v) /\ Rising(b0.holes) => Sparing(b0, a1)  BY <3>4, <3>8 DEF Sparing
    <3>10. Tidied(b0, v, a1)
      <4>1. Len(a.s.kids) <= Len(v.kids)
        <5>1. Len(v.kids) \in Nat  BY NeedIs
        <5>. QED  BY <1>1, <2>0, <5>1
      <4>2. \A o : Paid(v, a.s, o) => \E r \in Owns(a.s) : Has(r, o)
        BY <2>0, <4>1, PaidHas
      <4>3. \A o : Stray(u, o) => Stray(b0, o) /\ At(u, o) = At(b0, o)
        BY <2>7, <3>3, <4>2 DEF Tidy
      <4>. QED  BY <3>4, <4>3 DEF Tidied
    <3>7. Progress(b0, v, x, a1, k)  BY <2>0, <3>3, <3>4, <3>6, <3>9, <3>10 DEF Progress
    <3>. QED  BY <3>7 DEF a1, kid
  <2>3. CASE m.ok
    <3>. DEFINE c == Write(m.b, m.h, kid.size, x)
                h == m.h
                kids == a.s.kids
                more == Append(kids, h)
                s1 == [a.s EXCEPT !.kids = more]
    <3>1. /\ Good(m.b) /\ m.b.cap = a.b.cap /\ m.b.stack = a.b.stack /\ a.b.heap <= m.b.heap
          /\ h \in Region /\ Clear(m.b, h) /\ kid.size <= h.len
          /\ \A r \in Region :
                Clear(a.b, r) => Clear(m.b, r) /\ Same(a.b, m.b, r) /\ Apart(r, h)
          /\ Tidy(a.b, m.b)
          /\ \A lim \in Nat : Within(a.b.holes, lim) /\ lim <= NODE + a.b.heap =>
                             Settled(m.b.holes, {h}, lim)
      BY <2>1, <2>3 DEF Served
    <3>2. /\ Good(c) /\ c.cap = m.b.cap /\ c.stack = m.b.stack /\ c.heap = m.b.heap
          /\ c.holes = m.b.holes
          /\ \A o \in h.off - kid.size + 1 .. h.off : At(c, o) = <<x>>
          /\ \A r \in Region :
                Clear(m.b, r) => Clear(c, r) /\ (Apart(r, h) => Same(m.b, c, r))
          /\ \A o : Stray(c, o) => \/ o \in h.off - kid.size + 1 .. h.off
                                   \/ Stray(m.b, o) /\ At(c, o) = At(m.b, o)
      BY <1>1, <3>1, WriteIs
    <3>3. a1 = [a EXCEPT !.b = c, !.s = s1]
      BY <1>4, <2>3 DEF ArchiveKid, m
    <3>. HIDE DEF a1, c, h, s1
    <3>4. /\ DOMAIN a1 = {"ok", "b", "s"} /\ a1.ok = a.ok /\ a1.b = c /\ a1.s = s1
      BY <2>0, <3>3
    <3>5. DOMAIN s1 = {"own", "kids"} /\ s1.own = a.s.own /\ s1.kids = more
      BY <2>0 DEF s1
    <3>6. \A r \in Region : Clear(a.b, r) => Clear(c, r) /\ Same(a.b, c, r) /\ Apart(r, h)
      BY <3>1, <3>2 DEF Same
    <3>7. /\ a.s.own \in Region /\ kids \in Seq(Region)
          /\ \A j \in Places(a.s) : Clear(a.b, RegionAt(a.s, j))
          /\ \A i, j \in Places(a.s) : i # j => Apart(RegionAt(a.s, i), RegionAt(a.s, j))
      BY <2>0 DEF Owned
    <3>8. /\ more \in Seq(Region) /\ Len(more) = k /\ more[k] = h
          /\ \A j \in 1 .. k - 1 : more[j] = kids[j] /\ kids[j] \in Region
      <4>1. Len(kids) = k - 1 /\ \A j \in 1 .. Len(kids) : kids[j] \in Region
        BY <2>0, <3>7, HoleIs
      <4>2. h \in Region  BY <3>1
      <4>. HIDE DEF kids
      <4>3. /\ more \in Seq(Region) /\ Len(more) = Len(kids) + 1 /\ more[Len(kids) + 1] = h
            /\ \A j \in 1 .. Len(kids) : more[j] = kids[j]
        BY <3>7, <4>2, AppendProperties DEF kids
      <4>. QED  BY <1>1, <4>1, <4>3
    <3>. HIDE DEF more
    <3>9. /\ Places(a.s) = 0 .. k - 1 /\ Places(s1) = 0 .. k
          /\ RegionAt(s1, k) = h
          /\ \A j \in 0 .. k - 1 :
                RegionAt(s1, j) = RegionAt(a.s, j) /\ RegionAt(a.s, j) \in Region
      <4>1. Places(a.s) = 0 .. k - 1 /\ Places(s1) = 0 .. k
        BY <2>0, <3>5, <3>8 DEF Places
      <4>2. RegionAt(s1, k) = h  BY <1>1, <3>5, <3>8 DEF RegionAt
      <4>3. ASSUME NEW j \in 0 .. k - 1
            PROVE  RegionAt(s1, j) = RegionAt(a.s, j) /\ RegionAt(a.s, j) \in Region
        <5>1. CASE j = 0  BY <3>5, <3>7, <5>1 DEF RegionAt
        <5>2. CASE j # 0
          <6>1. j \in 1 .. k - 1  BY <1>1, <5>2
          <6>. QED  BY <3>5, <3>8, <5>2, <6>1 DEF RegionAt
        <5>. QED  BY <5>1, <5>2
      <4>. QED  BY <4>1, <4>2, <4>3
    <3>10. \A j \in 0 .. k : j \in 0 .. k - 1 \/ j = k  BY <1>1
    <3>11. ASSUME NEW j \in 0 .. k - 1
           PROVE  /\ Clear(c, RegionAt(a.s, j)) /\ Same(a.b, c, RegionAt(a.s, j))
                  /\ Apart(RegionAt(a.s, j), h) /\ Apart(h, RegionAt(a.s, j))
      <4>1. Clear(a.b, RegionAt(a.s, j)) /\ RegionAt(a.s, j) \in Region  BY <3>7, <3>9
      <4>. QED  BY <3>6, <4>1 DEF Apart
    <3>12. Owned(c, s1)
      <4>1. Clear(c, h)  BY <3>1, <3>2
      <4>2. \A j \in Places(s1) : Clear(c, RegionAt(s1, j))
        BY <3>9, <3>10, <3>11, <4>1
      <4>3. \A i, j \in 0 .. k : i # j => Apart(RegionAt(s1, i), RegionAt(s1, j))
        BY <3>7, <3>9, <3>10, <3>11
      <4>. QED  BY <3>5, <3>7, <3>8, <3>9, <4>2, <4>3 DEF Owned
    <3>13. Filled(c, v, s1, x)
      <4>. SUFFICES ASSUME NEW j \in 0 .. k, NEW r, r = RegionAt(s1, j),
                           NEW n, n = NeedAt(v, j).size
                    PROVE  n <= r.len /\ \A o \in r.off - n + 1 .. r.off : At(c, o) = <<x>>
        BY <3>9 DEF Filled
      <4>1. CASE j = k
        <5>1. n = kid.size /\ r = h  BY <1>1, <3>9, <4>1 DEF NeedAt, kid
        <5>. QED  BY <3>1, <3>2, <5>1
      <4>2. CASE j # k
        <5>0. j \in 0 .. k - 1  BY <3>10, <4>2
        <5>1. r = RegionAt(a.s, j) /\ r \in Region  BY <3>9, <5>0
        <5>2. n <= r.len /\ \A o \in r.off - n + 1 .. r.off : At(a.b, o) = <<x>>
          BY <2>0, <3>9, <5>0, <5>1 DEF Filled
        <5>3. \A o \in r.off - r.len + 1 .. r.off : At(c, o) = At(a.b, o)
          BY <3>11, <5>0, <5>1 DEF Same
        <5>4. n \in Nat
          <6>1. Len(v.kids) \in Nat  BY NeedIs
          <6>2. j \in 0 .. Len(v.kids)  BY <1>1, <6>1
          <6>. QED  BY <6>2, NeedIs
        <5>5. \A o \in r.off - n + 1 .. r.off : o \in r.off - r.len + 1 .. r.off
          BY <5>1, <5>2, <5>4 DEF Region
        <5>. QED  BY <5>2, <5>3, <5>5
      <4>. QED  BY <4>1, <4>2
    <3>14. \A r \in Region : Clear(b0, r) => Clear(c, r) /\ Same(b0, c, r) /\ Away(r, s1)
      <4>. SUFFICES ASSUME NEW r \in Region, Clear(b0, r)
                    PROVE  Clear(c, r) /\ Same(b0, c, r) /\ Away(r, s1)
        OBVIOUS
      <4>1. Clear(a.b, r) /\ Same(b0, a.b, r) /\ Away(r, a.s)  BY <2>0
      <4>2. Clear(c, r) /\ Same(a.b, c, r) /\ Apart(r, h)  BY <3>6, <4>1
      <4>3. Away(r, s1)  BY <3>9, <3>10, <4>1, <4>2 DEF Away
      <4>. QED  BY <4>1, <4>2, <4>3 DEF Same
    <3>15. b0.heap <= c.heap
      <4>1. a.b.heap \in Nat /\ m.b.heap \in Nat  BY <2>0, <3>1 DEF Good, Shaped
      <4>. QED  BY <1>2, <2>0, <3>1, <3>2, <4>1
    <3>17. Owns(s1) = Owns(a.s) \union {h}
      <4>1. \A j \in 0 .. k - 1 : j \in 0 .. k  BY <1>1
      <4>2. k \in 0 .. k  BY <1>1
      <4>. QED  BY <3>9, <3>10, <4>1, <4>2 DEF Owns
    <3>18. Modest(v) /\ Rising(b0.holes) => Sparing(b0, a1)
      BY <1>4, <2>3, <2>6, <3>2, <3>4, <3>17 DEF Sparing, h
    <3>19. Tidied(b0, v, a1)
      <4>1. Settled(c.holes, Owns(s1), NODE + b0.heap)
        <5>. DEFINE lim == NODE + b0.heap
        <5>1. a.b.heap \in Nat  BY <2>0 DEF Good, Shaped
        <5>2. lim \in Nat /\ lim <= NODE + a.b.heap  BY <1>2, <2>0, <5>1 DEF NODE
        <5>3. Settled(a.b.holes, Owns(a.s), lim)  BY <2>7
        <5>. HIDE DEF lim
        <5>4. Settled(m.b.holes, {h}, lim)  BY <3>1, <5>2, <5>3 DEF Settled
        <5>5. Settled(c.holes, Owns(s1), lim)  BY <3>2, <3>17, <5>3, <5>4 DEF Settled
        <5>. QED  BY <5>5 DEF lim
      <4>2. \A o : Paid(v, a.s, o) => Paid(v, s1, o)
        <5>1. \A j \in 0 .. k - 1 : j \in 0 .. k  BY <1>1
        <5>. QED  BY <3>9, <5>1 DEF Paid
      <4>3. \A o \in h.off - kid.size + 1 .. h.off : Paid(v, s1, o)
        <5>1. k \in 0 .. k  BY <1>1
        <5>. QED  BY <1>5, <3>9, <5>1 DEF Paid
      <4>4. \A o : Stray(c, o) => (Stray(b0, o) /\ At(c, o) = At(b0, o)) \/ Paid(v, s1, o)
        BY <2>7, <3>1, <3>2, <4>2, <4>3 DEF Tidy
      <4>. QED  BY <1>4, <3>4, <4>1, <4>4 DEF Tidied
    <3>16. Progress(b0, v, x, a1, k)
      BY <1>4, <2>0, <2>4, <3>1, <3>2, <3>4, <3>5, <3>8, <3>12, <3>13, <3>14, <3>15, <3>18, <3>19
      DEF Progress
    <3>. QED  BY <3>16 DEF a1, kid
  <2>. QED  BY <2>1, <2>2, <2>3 DEF Served
<1>. QED  BY <1>3, <1>4

\* An archive whose first allocation has room goes on child by child.
LEMMA ArchiveRuns ==
    ASSUME NEW b, Good(b), NEW v \in Needs, NEW x,
           Alloc(b, v.own.size, v.own.align).ok
    PROVE  LET own == Alloc(b, v.own.size, v.own.align)
           IN  \E m : /\ m[0] = [ok |-> TRUE, s |-> Stored(own.h, <<>>),
                                 b |-> Write(own.b, own.h, v.own.size, x)]
                      /\ \A k \in 1 .. Len(v.kids) :
                            m[k] = ArchiveKid(m[k - 1], v.kids[k], x, b.heap)
                      /\ \A k \in 0 .. Len(v.kids) : Progress(b, v, x, m[k], k)
                      /\ Archive(b, v, x) = m[Len(v.kids)]
<1>. DEFINE n == Len(v.kids)
            own == Alloc(b, v.own.size, v.own.align)
            h == own.h
            c == Write(own.b, h, v.own.size, x)
            s0 == Stored(h, <<>>)
            a0 == [ok |-> TRUE, s |-> s0, b |-> c]
            kid(u, k) == ArchiveKid(u, k, x, b.heap)
            a == Archive(b, v, x)
<1>1. n \in Nat /\ v.own.size \in Nat /\ v.own.align \in Nat \ {0} /\ v.kids \in Seq(Need)
  <2>1. Len(v.kids) \in Nat  BY NeedIs
  <2>2. 0 \in 0 .. Len(v.kids) /\ NeedAt(v, 0) = v.own  BY <2>1 DEF NeedAt
  <2>3. v.kids \in Seq(Need)  BY DEF Needs
  <2>4. v.own.size \in Nat /\ v.own.align \in Nat \ {0}
    <3>. HIDE DEF n
    <3>. QED  BY <2>2, NeedIs
  <2>. QED  BY <2>1, <2>3, <2>4
<1>2. b.heap \in Nat  BY DEF Good, Shaped
<1>3. Served(b, own, v.own.size)  BY <1>1, AllocIs
<1>6. Modest(v) /\ Rising(b.holes) => Rising(own.b.holes)
  <2>1. 0 \in Places(v) /\ NeedAt(v, 0) = v.own  BY <1>1 DEF Places, NeedAt
  <2>2. Modest(v) => v.own.align <= NODE  BY <2>1 DEF Modest
  <2>. QED  BY <1>1, <2>2, AllocRises
<1>7. own.ok /\ Modest(v) /\ Rising(b.holes) => Tight(b.holes, own.b.holes, {h}, NODE + b.heap)
  <2>. SUFFICES ASSUME own.ok, Modest(v), Rising(b.holes)
                PROVE  Tight(b.holes, own.b.holes, {h}, NODE + b.heap)
    OBVIOUS
  <2>. DEFINE lim == NODE + b.heap
              hs == b.holes
  <2>1. 0 \in Places(v) /\ NeedAt(v, 0) = v.own  BY <1>1 DEF Places, NeedAt
  <2>2. v.own.align <= NODE  BY <2>1 DEF Modest
  <2>3. lim \in Nat /\ lim <= NODE + b.heap  BY <1>2 DEF NODE
  <2>4. Tight(hs, hs, {}, lim)
    <3>1. Within(hs, lim)  BY DEF Good
    <3>2. \A o : ~Dead(hs, hs, {}, o)  BY DEF Dead
    <3>3. 0 \in 0 .. NODE - 1  BY DEF NODE
    <3>. QED  BY <3>1, <3>2, <3>3 DEF Tight
  <2>5. {} \union {h} = {h}  OBVIOUS
  <2>. HIDE DEF lim, hs, h
  <2>6. Tight(hs, own.b.holes, {} \union {own.h}, lim)
    <3>1. hs = b.holes /\ own = Alloc(b, v.own.size, v.own.align) /\ own.ok  BY DEF hs
    <3>. HIDE DEF own
    <3>. QED  BY <1>1, <2>2, <2>3, <2>4, <3>1, AllocTight
  <2>. QED  BY <2>5, <2>6 DEF lim, hs, h
<1>8. own.ok  OBVIOUS
<1>. HIDE DEF own, a
<1>21. /\ Good(own.b) /\ own.b.cap = b.cap /\ own.b.stack = b.stack /\ b.heap <= own.b.heap
       /\ h \in Region /\ Clear(own.b, h) /\ v.own.size <= h.len
       /\ \A r \in Region :
             Clear(b, r) => Clear(own.b, r) /\ Same(b, own.b, r) /\ Apart(r, h)
       /\ Tidy(b, own.b)
       /\ \A lim \in Nat : Within(b.holes, lim) /\ lim <= NODE + b.heap =>
                          Settled(own.b.holes, {h}, lim)
  BY <1>3, <1>8 DEF Served
<1>22. /\ Good(c) /\ c.cap = own.b.cap /\ c.stack = own.b.stack /\ c.heap = own.b.heap
       /\ c.holes = own.b.holes
       /\ \A o \in h.off - v.own.size + 1 .. h.off : At(c, o) = <<x>>
       /\ \A r \in Region :
             Clear(own.b, r) => Clear(c, r) /\ (Apart(r, h) => Same(own.b, c, r))
       /\ \A o : Stray(c, o) => \/ o \in h.off - v.own.size + 1 .. h.off
                                \/ Stray(own.b, o) /\ At(c, o) = At(own.b, o)
  BY <1>1, <1>21, WriteIs
<1>. HIDE DEF c, h
<1>23. Progress(b, v, x, a0, 0)
  <2>1. DOMAIN a0 = {"ok", "b", "s"} /\ a0.ok = TRUE /\ a0.b = c /\ a0.s = s0  OBVIOUS
  <2>2. DOMAIN s0 = {"own", "kids"} /\ s0.own = h /\ s0.kids = <<>>  BY DEF Stored
  <2>3. <<>> \in Seq(Region) /\ Len(<<>>) = 0  BY EmptySeq
  <2>. HIDE DEF a0, s0
  <2>4. s0.kids \in Seq(Region) /\ Len(s0.kids) = 0  BY <2>2, <2>3
  <2>5. Places(s0) = {0} /\ RegionAt(s0, 0) = h  BY <2>2, <2>4 DEF Places, RegionAt
  <2>6. Clear(c, h)  BY <1>21, <1>22
  <2>7. Owned(c, s0)  BY <1>21, <2>2, <2>4, <2>5, <2>6 DEF Owned
  <2>8. Filled(c, v, s0, x)  BY <1>21, <1>22, <2>5 DEF Filled, NeedAt
  <2>9. \A r \in Region : Clear(b, r) => Clear(c, r) /\ Same(b, c, r) /\ Away(r, s0)
    BY <1>21, <1>22, <2>5 DEF Same, Away
  <2>10. a0.ok \in BOOLEAN  BY <2>1
  <2>11. Modest(v) /\ Rising(b.holes) => Sparing(b, a0)
    <3>. SUFFICES ASSUME Modest(v), Rising(b.holes) PROVE Sparing(b, a0)  OBVIOUS
    <3>1. Tight(b.holes, own.b.holes, {h}, NODE + b.heap)  BY <1>7, <1>8
    <3>2. Owns(s0) = {h}  BY <2>5 DEF Owns
    <3>. QED  BY <1>22, <2>1, <3>1, <3>2 DEF Sparing
  <2>12. Tidied(b, v, a0)
    <3>1. Within(b.holes, NODE + b.heap) /\ NODE + b.heap \in Nat
      BY <1>2 DEF Good, NODE
    <3>2. Settled(own.b.holes, {h}, NODE + b.heap)  BY <1>21, <3>1
    <3>3. Owns(s0) = {h}  BY <2>5 DEF Owns
    <3>4. \A o \in h.off - v.own.size + 1 .. h.off : Paid(v, s0, o)
      BY <2>5 DEF Paid, NeedAt
    <3>5. \A o : Stray(c, o) => (Stray(b, o) /\ At(c, o) = At(b, o)) \/ Paid(v, s0, o)
      BY <1>21, <1>22, <3>4 DEF Tidy
    <3>. QED  BY <1>22, <2>1, <3>2, <3>3, <3>5 DEF Tidied
  <2>. QED
    BY <1>6, <1>21, <1>22, <2>1, <2>2, <2>4, <2>7, <2>8, <2>9, <2>10, <2>11, <2>12 DEF Progress
<1>. DEFINE kids == v.kids
            p == [tag |-> x, heap |-> b.heap]
            is(f) == f = [S \in SUBSET DOMAIN kids |->
                            IF S = {} THEN a0 ELSE kid(f[S \ {Max(S)}], kids[Max(S)])]
<1>. HIDE DEF a0
<1>24. a = FoldLeft(kid, a0, kids)  BY <1>8 DEF Archive, a, a0, c, own, h
<1>25. \A u, k : Folded("kid", p, u, k) = kid(u, k)  BY DEF Folded
<1>26. \A f : is(f) <=> Folding(f, DOMAIN kids, "kid", p, a0, kids)
  BY <1>25 DEF Folding
<1>27. kids \in Seq(Need)  BY <1>1
<1>28. \E f : is(f)
  <2>. HIDE DEF is, p, kids
  <2>. QED  BY <1>26, <1>27, FoldingOfList
<1>29. PICK f : is(f) /\ a = f[DOMAIN kids]
  BY <1>24, <1>28 DEF FoldLeft, MapThenFoldSet
<1>. HIDE DEF is, p, kids
<1>30. PICK m : Steps(m, "kid", p, a0, kids) /\ f[DOMAIN kids] = m[Len(kids)]
  BY <1>26, <1>27, <1>29, FoldingSteps
<1>. DEFINE S == {k \in 0 .. n : Progress(b, v, x, m[k], k)}
<1>31. 0 \in S
  <2>1. m[0] = a0  BY <1>30 DEF Steps
  <2>. QED  BY <1>1, <1>23, <2>1
<1>32. ASSUME NEW k \in 0 + 1 .. n, k - 1 \in S PROVE k \in S
  <2>1. k \in 1 .. Len(kids) /\ k \in 1 .. Len(v.kids) /\ k \in 0 .. n  BY <1>1 DEF kids
  <2>2. m[k] = ArchiveKid(m[k - 1], v.kids[k], x, b.heap)
    BY <1>25, <1>30, <2>1 DEF Steps, kids
  <2>3. Progress(b, v, x, m[k - 1], k - 1)  BY <1>32
  <2>4. Progress(b, v, x, m[k], k)  BY <2>1, <2>2, <2>3, KidIs
  <2>. QED  BY <2>1, <2>4
<1>. HIDE DEF S
<1>33. 0 .. n \subseteq S  BY <1>1, <1>31, <1>32, Upwards
<1>34. ASSUME NEW k \in 1 .. n PROVE m[k] = ArchiveKid(m[k - 1], v.kids[k], x, b.heap)
  BY <1>25, <1>30 DEF Steps, kids
<1>35. \A k \in 0 .. n : Progress(b, v, x, m[k], k)  BY <1>33 DEF S
<1>36. m[0] = a0 /\ a = m[n]  BY <1>29, <1>30 DEF Steps, kids
<1>. QED  BY <1>34, <1>35, <1>36 DEF a, a0, s0, c, h, own

\* archive puts a value in regions of its own, or takes itself back.
LEMMA ArchiveIs ==
    ASSUME NEW b, Good(b), NEW v \in Needs, NEW x
    PROVE  LET a == Archive(b, v, x)
           IN  /\ a.ok \in BOOLEAN
               /\ Good(a.b) /\ a.b.cap = b.cap /\ a.b.stack = b.stack
               /\ \A r \in Region : Clear(b, r) => Clear(a.b, r) /\ Same(b, a.b, r)
               /\ Modest(v) /\ Rising(b.holes) => Rising(a.b.holes)
               /\ Modest(v) /\ Rising(b.holes) => Sparing(b, a)
               /\ Tidied(b, v, a)
               /\ ~a.ok => a.b.heap = b.heap
               /\ a.ok =>
                     /\ Owned(a.b, a.s) /\ Len(a.s.kids) = Len(v.kids)
                     /\ Filled(a.b, v, a.s, x) /\ b.heap <= a.b.heap
                     /\ \A r \in Region : Clear(b, r) => Away(r, a.s)
<1>. DEFINE own == Alloc(b, v.own.size, v.own.align)
            n == Len(v.kids)
            a == Archive(b, v, x)
<1>1. n \in Nat /\ Served(b, own, v.own.size)
  <2>1. n \in Nat  BY NeedIs
  <2>2. 0 \in 0 .. n /\ NeedAt(v, 0) = v.own  BY <2>1 DEF NeedAt
  <2>. QED  BY <2>1, <2>2, NeedIs, AllocIs
<1>. HIDE DEF own, a
<1>4. CASE ~own.ok
  <2>. DEFINE e == [ok |-> FALSE, b |-> b, s |-> Stored(NoRegion, <<>>)]
  <2>1. a = e  BY <1>4 DEF Archive, a, own
  <2>2. e.ok = FALSE /\ e.b = b  OBVIOUS
  <2>. HIDE DEF e
  <2>3. \A r : Same(b, b, r)  BY DEF Same
  <2>4. a.ok = FALSE /\ a.b = b  BY <2>1, <2>2
  <2>5. /\ a.ok \in BOOLEAN
        /\ Good(a.b) /\ a.b.cap = b.cap /\ a.b.stack = b.stack
        /\ \A r \in Region : Clear(b, r) => Clear(a.b, r) /\ Same(b, a.b, r)
        /\ Modest(v) /\ Rising(b.holes) => Rising(a.b.holes)
        /\ Modest(v) /\ Rising(b.holes) => Sparing(b, a)
        /\ Tidied(b, v, a)
        /\ ~a.ok => a.b.heap = b.heap
        /\ ~a.ok
    <3>1. NothingLost(b.holes, b.holes)
      <4>1. 0 \in 0 .. NODE - 1  BY DEF NODE
      <4>. QED  BY <4>1 DEF NothingLost
    <3>2. Sparing(b, a)  BY <2>4, <3>1 DEF Sparing
    <3>3. Tidied(b, v, a)  BY <2>4 DEF Tidied
    <3>. QED  BY <2>3, <2>4, <3>2, <3>3
  <2>. QED  BY <2>5 DEF a
<1>5. CASE own.ok
  <2>1. \E m : (\A k \in 0 .. n : Progress(b, v, x, m[k], k)) /\ a = m[n]
    <3>1. Alloc(b, v.own.size, v.own.align).ok  BY <1>5 DEF own
    <3>. HIDE DEF n
    <3>. QED  BY <3>1, ArchiveRuns DEF n, a
  <2>2. Progress(b, v, x, a, n)  BY <1>1, <2>1
  <2>. QED  BY <2>2 DEF Progress, a
<1>. QED  BY <1>1, <1>4, <1>5 DEF Served

-----------------------------------------------------------------------------
(* The stack front, growth and reload.                                     *)

Fronted(b, c, pos, mem) == c = [b EXCEPT !.stack = pos, !.mem = mem]

\* A move of the stack front that writes below the heap touches no region.
LEMMA FrontIs ==
    ASSUME NEW b, Good(b), NEW pos \in Nat, pos <= Bottom(b), NEW mem,
           DOMAIN mem = DOMAIN b.mem,
           \A x \in DOMAIN b.mem : x >= Bottom(b) => mem[x] = b.mem[x],
           NEW c, Fronted(b, c, pos, mem)
    PROVE  /\ Good(c) /\ c.cap = b.cap /\ c.stack = pos /\ c.heap = b.heap
           /\ c.holes = b.holes /\ c.mem = mem
           /\ \A r \in Region : Clear(b, r) => Clear(c, r) /\ Same(b, c, r)
           /\ \A o : Stray(c, o) => LET y == b.cap - o IN
                 /\ y \in DOMAIN b.mem /\ mem[y] # <<>> /\ At(c, o) = mem[y]
                 /\ mem[y] = b.mem[y] => Stray(b, o) /\ At(c, o) = At(b, o)
<1>1. /\ Shaped(b) /\ b.cap \in Nat /\ b.stack \in Nat /\ b.heap \in Nat
      /\ DOMAIN b = {"cap", "stack", "heap", "holes", "mem"}
      /\ DOMAIN b.mem = 0 .. b.cap - 1
      /\ b.stack + b.heap + NODE <= b.cap
  BY DEF Good, Shaped
<1>2. /\ c.cap = b.cap /\ c.stack = pos /\ c.heap = b.heap /\ c.holes = b.holes
      /\ c.mem = mem /\ DOMAIN c = DOMAIN b
  BY <1>1 DEF Fronted
<1>3. Shaped(c)
  <2>1. pos + b.heap + NODE <= b.cap  BY <1>1 DEF Bottom, Floor, NODE
  <2>. QED  BY <1>1, <1>2, <2>1 DEF Shaped
<1>4. ASSUME NEW o \in NODE .. NODE + b.heap PROVE At(c, o) = At(b, o)
  <2>1. b.cap - o \in 0 .. b.cap - 1 /\ b.cap - o >= Bottom(b)
    BY <1>1 DEF Bottom, Floor, NODE
  <2>. QED  BY <1>1, <1>2, <2>1 DEF At
<1>5. /\ Good(c)
      /\ \A r \in Region : Clear(b, r) => Clear(c, r) /\ Same(b, c, r)
  BY <1>2, <1>3, <1>4, StackKeeps
<1>6. ASSUME NEW o, Stray(c, o)
      PROVE  LET y == b.cap - o IN
             /\ y \in DOMAIN b.mem /\ mem[y] # <<>> /\ At(c, o) = mem[y]
             /\ mem[y] = b.mem[y] => Stray(b, o) /\ At(c, o) = At(b, o)
  <2>1. o \in 1 .. b.cap /\ At(c, o) # <<>> /\ ~Marked(b, o)
    BY <1>2, <1>6 DEF Stray, Marked
  <2>2. At(c, o) = mem[b.cap - o] /\ At(b, o) = b.mem[b.cap - o]  BY <1>2 DEF At
  <2>3. b.cap - o \in DOMAIN b.mem  BY <1>1, <2>1
  <2>. QED  BY <2>1, <2>2, <2>3 DEF Stray
<1>. QED  BY <1>2, <1>5, <1>6

LEMMA PushIs ==
    ASSUME NEW b, Good(b), NEW size \in Nat, NEW align \in Nat \ {0}, NEW x,
           PushBytes(b, size, align, x).ok
    PROVE  LET c == PushBytes(b, size, align, x).b
           IN  /\ Good(c) /\ c.cap = b.cap /\ c.heap = b.heap /\ c.holes = b.holes
               /\ \A r \in Region : Clear(b, r) => Clear(c, r) /\ Same(b, c, r)
               /\ Stacked(b, c, x)
<1>. DEFINE start == RoundUp(b.stack, align)
            end == start + size
            m0 == Paint(b.mem, b.stack .. start - 1, <<>>)
            m1 == Paint(m0, start .. end - 1, <<x>>)
            d == [b EXCEPT !.stack = end, !.mem = m1]
            p == PushBytes(b, size, align, x)
<1>1. b.stack \in Nat /\ b.cap \in Nat /\ b.heap \in Nat  BY DEF Good, Shaped
<1>2. start \in Nat /\ end \in Nat /\ b.stack <= start  BY <1>1, RoundUpIs
<1>. HIDE DEF start
<1>3. ~(end > Bottom(b)) /\ p = [ok |-> TRUE, b |-> d]
  <2>1. CASE end > Bottom(b)
    <3>1. p = [ok |-> FALSE, b |-> b]  BY <2>1 DEF PushBytes, start
    <3>2. p.ok = FALSE  BY <3>1
    <3>. QED  BY <3>2
  <2>2. CASE ~(end > Bottom(b))
    BY <2>2 DEF PushBytes, start
  <2>. QED  BY <2>1, <2>2
<1>4. p.b = d  BY <1>3
<1>5. /\ DOMAIN m1 = DOMAIN b.mem
      /\ \A y \in DOMAIN b.mem : y >= Bottom(b) => m1[y] = b.mem[y]
  <2>1. \A y \in DOMAIN b.mem : y >= Bottom(b) =>
           y \notin start .. end - 1 /\ y \notin b.stack .. start - 1
    <3>1. Bottom(b) \in Int /\ DOMAIN b.mem \subseteq Int
      BY <1>1 DEF Good, Shaped, Bottom, Floor, NODE
    <3>2. start <= end  BY <1>2
    <3>. HIDE DEF end
    <3>. QED  BY <1>1, <1>2, <1>3, <3>1, <3>2
  <2>. HIDE DEF end
  <2>2. /\ DOMAIN m0 = DOMAIN b.mem
        /\ \A y \in DOMAIN b.mem : y \notin b.stack .. start - 1 => m0[y] = b.mem[y]
    BY DEF Paint
  <2>. HIDE DEF m0
  <2>3. /\ DOMAIN m1 = DOMAIN m0
        /\ \A y \in DOMAIN m0 : y \notin start .. end - 1 => m1[y] = m0[y]
    BY DEF Paint
  <2>. HIDE DEF m1
  <2>. QED  BY <2>1, <2>2, <2>3
<1>9. \A y \in DOMAIN b.mem :
         \/ y \in start .. end - 1 /\ m1[y] = <<x>>
         \/ m1[y] = <<>>
         \/ m1[y] = b.mem[y]
  <2>1. \A y \in DOMAIN b.mem : m0[y] = <<>> \/ m0[y] = b.mem[y]  BY DEF Paint
  <2>2. DOMAIN m0 = DOMAIN b.mem  BY DEF Paint
  <2>. HIDE DEF m0, end
  <2>3. \A y \in DOMAIN m0 : (y \in start .. end - 1 /\ m1[y] = <<x>>) \/ m1[y] = m0[y]
    BY DEF Paint
  <2>. HIDE DEF m1
  <2>. QED  BY <2>1, <2>2, <2>3
<1>6. Fronted(b, d, end, m1)  BY DEF Fronted
<1>7. end <= Bottom(b)
  <2>1. Bottom(b) \in Int  BY <1>1 DEF Bottom, Floor, NODE
  <2>. HIDE DEF end
  <2>. QED  BY <1>2, <1>3, <2>1
<1>. HIDE DEF d, m1, end
<1>8. /\ Good(d) /\ d.cap = b.cap /\ d.heap = b.heap /\ d.holes = b.holes /\ d.stack = end
      /\ \A r \in Region : Clear(b, r) => Clear(d, r) /\ Same(b, d, r)
      /\ \A o : Stray(d, o) => LET y == b.cap - o IN
            /\ y \in DOMAIN b.mem /\ m1[y] # <<>> /\ At(d, o) = m1[y]
            /\ m1[y] = b.mem[y] => Stray(b, o) /\ At(d, o) = At(b, o)
  BY <1>2, <1>5, <1>6, <1>7, FrontIs
<1>10. b.stack <= end  BY <1>1, <1>2 DEF end
<1>11. Stacked(b, d, x)
  <2>1. ASSUME NEW o, Stray(d, o)
        PROVE  \/ Stray(b, o) /\ At(d, o) = At(b, o)
               \/ At(d, o) = <<x>> /\ b.cap - o < d.stack
    <3>. DEFINE y == b.cap - o
    <3>1. /\ y \in DOMAIN b.mem /\ m1[y] # <<>> /\ At(d, o) = m1[y]
          /\ m1[y] = b.mem[y] => Stray(b, o) /\ At(d, o) = At(b, o)
      BY <1>8, <2>1
    <3>2. \/ y \in start .. end - 1 /\ m1[y] = <<x>>
          \/ m1[y] = b.mem[y]
      BY <1>9, <3>1
    <3>. HIDE DEF y
    <3>3. y \in start .. end - 1 => y < end  BY <1>2
    <3>. QED  BY <1>8, <3>1, <3>2, <3>3 DEF y
  <2>. QED  BY <1>8, <1>10, <2>1 DEF Stacked
<1>. QED  BY <1>4, <1>8, <1>11 DEF p

LEMMA ExtendStackIs ==
    ASSUME NEW b, Good(b), NEW size \in Nat, NEW x, ExtendBytes(b, size, x).ok
    PROVE  LET c == ExtendBytes(b, size, x).b
           IN  /\ Good(c) /\ c.cap = b.cap /\ c.heap = b.heap /\ c.holes = b.holes
               /\ \A r \in Region : Clear(b, r) => Clear(c, r) /\ Same(b, c, r)
               /\ Stacked(b, c, x)
<1>. DEFINE end == b.stack + size
            mem == Paint(b.mem, b.stack .. end - 1, <<x>>)
            d == [b EXCEPT !.stack = end, !.mem = mem]
            p == ExtendBytes(b, size, x)
<1>1. b.stack \in Nat /\ b.cap \in Nat /\ b.heap \in Nat  BY DEF Good, Shaped
<1>2. end \in Nat /\ b.stack <= end  BY <1>1
<1>3. ~(end > Bottom(b)) /\ p = [ok |-> TRUE, b |-> d]
  <2>1. CASE end > Bottom(b)
    <3>1. p = [ok |-> FALSE, b |-> b]  BY <2>1 DEF ExtendBytes
    <3>2. p.ok = FALSE  BY <3>1
    <3>. QED  BY <3>2
  <2>2. CASE ~(end > Bottom(b))
    BY <2>2 DEF ExtendBytes
  <2>. QED  BY <2>1, <2>2
<1>4. p.b = d  BY <1>3
<1>. HIDE DEF end
<1>5. Bottom(b) \in Int /\ DOMAIN b.mem \subseteq Int
  BY <1>1 DEF Good, Shaped, Bottom, Floor, NODE
<1>6. /\ DOMAIN mem = DOMAIN b.mem
      /\ \A y \in DOMAIN b.mem : y >= Bottom(b) => mem[y] = b.mem[y]
  <2>1. \A y \in DOMAIN b.mem : y >= Bottom(b) => y \notin b.stack .. end - 1
    BY <1>1, <1>2, <1>3, <1>5
  <2>2. /\ DOMAIN mem = DOMAIN b.mem
        /\ \A y \in DOMAIN b.mem : y \notin b.stack .. end - 1 => mem[y] = b.mem[y]
    BY DEF Paint
  <2>. HIDE DEF mem
  <2>. QED  BY <2>1, <2>2
<1>10. \A y \in DOMAIN b.mem :
          (y \in b.stack .. end - 1 /\ mem[y] = <<x>>) \/ mem[y] = b.mem[y]
  BY DEF Paint
<1>7. Fronted(b, d, end, mem)  BY DEF Fronted
<1>8. end <= Bottom(b)  BY <1>2, <1>3, <1>5
<1>. HIDE DEF d, mem
<1>9. /\ Good(d) /\ d.cap = b.cap /\ d.heap = b.heap /\ d.holes = b.holes /\ d.stack = end
      /\ \A r \in Region : Clear(b, r) => Clear(d, r) /\ Same(b, d, r)
      /\ \A o : Stray(d, o) => LET y == b.cap - o IN
            /\ y \in DOMAIN b.mem /\ mem[y] # <<>> /\ At(d, o) = mem[y]
            /\ mem[y] = b.mem[y] => Stray(b, o) /\ At(d, o) = At(b, o)
  BY <1>2, <1>6, <1>7, <1>8, FrontIs
<1>11. Stacked(b, d, x)
  <2>1. ASSUME NEW o, Stray(d, o)
        PROVE  \/ Stray(b, o) /\ At(d, o) = At(b, o)
               \/ At(d, o) = <<x>> /\ b.cap - o < d.stack
    <3>. DEFINE y == b.cap - o
    <3>1. /\ y \in DOMAIN b.mem /\ mem[y] # <<>> /\ At(d, o) = mem[y]
          /\ mem[y] = b.mem[y] => Stray(b, o) /\ At(d, o) = At(b, o)
      BY <1>9, <2>1
    <3>2. (y \in b.stack .. end - 1 /\ mem[y] = <<x>>) \/ mem[y] = b.mem[y]
      BY <1>10, <3>1
    <3>. HIDE DEF y
    <3>3. y \in b.stack .. end - 1 => y < end  BY <1>1, <1>2
    <3>. QED  BY <1>9, <3>1, <3>2, <3>3 DEF y
  <2>. QED  BY <1>2, <1>9, <2>1 DEF Stacked
<1>. QED  BY <1>4, <1>9, <1>11 DEF p

LEMMA ShrinkIs ==
    ASSUME NEW b, Good(b), NEW pos \in Nat, pos < b.stack
    PROVE  LET c == StackShrink(b, pos)
           IN  /\ Good(c) /\ c.cap = b.cap /\ c.heap = b.heap /\ c.holes = b.holes
               /\ \A r \in Region : Clear(b, r) => Clear(c, r) /\ Same(b, c, r)
               /\ c.stack = pos /\ Tidy(b, c)
               /\ \A o : Stray(c, o) /\ b.cap - o < b.stack => b.cap - o < c.stack
<1>. DEFINE mem == Paint(b.mem, pos .. b.stack - 1, <<>>)
            d == StackShrink(b, pos)
<1>1. /\ b.stack \in Nat /\ b.cap \in Nat /\ b.heap \in Nat
      /\ b.stack + b.heap + NODE <= b.cap /\ DOMAIN b.mem = 0 .. b.cap - 1
  BY DEF Good, Shaped
<1>2. Bottom(b) \in Int /\ b.stack <= Bottom(b)  BY <1>1 DEF Bottom, Floor, NODE
<1>3. /\ DOMAIN mem = DOMAIN b.mem
      /\ \A y \in DOMAIN b.mem : y >= Bottom(b) => mem[y] = b.mem[y]
  <2>1. \A y \in DOMAIN b.mem : y >= Bottom(b) => y \notin pos .. b.stack - 1
    BY <1>1, <1>2
  <2>2. /\ DOMAIN mem = DOMAIN b.mem
        /\ \A y \in DOMAIN b.mem : y \notin pos .. b.stack - 1 => mem[y] = b.mem[y]
    BY DEF Paint
  <2>. HIDE DEF mem
  <2>. QED  BY <2>1, <2>2
<1>7. \A y \in DOMAIN b.mem :
         mem[y] = IF y \in pos .. b.stack - 1 THEN <<>> ELSE b.mem[y]
  BY DEF Paint
<1>4. Fronted(b, d, pos, mem)  BY DEF Fronted, StackShrink
<1>5. pos <= Bottom(b)  BY <1>1, <1>2
<1>. HIDE DEF d, mem
<1>6. /\ Good(d) /\ d.cap = b.cap /\ d.heap = b.heap /\ d.holes = b.holes /\ d.stack = pos
      /\ \A r \in Region : Clear(b, r) => Clear(d, r) /\ Same(b, d, r)
      /\ \A o : Stray(d, o) => LET y == b.cap - o IN
            /\ y \in DOMAIN b.mem /\ mem[y] # <<>> /\ At(d, o) = mem[y]
            /\ mem[y] = b.mem[y] => Stray(b, o) /\ At(d, o) = At(b, o)
  BY <1>3, <1>4, <1>5, FrontIs
<1>8. ASSUME NEW o, Stray(d, o)
      PROVE  /\ Stray(b, o) /\ At(d, o) = At(b, o)
             /\ b.cap - o < b.stack => b.cap - o < pos
  <2>. DEFINE y == b.cap - o
  <2>1. /\ y \in DOMAIN b.mem /\ mem[y] # <<>> /\ At(d, o) = mem[y]
        /\ mem[y] = b.mem[y] => Stray(b, o) /\ At(d, o) = At(b, o)
    BY <1>6, <1>8
  <2>2. mem[y] = b.mem[y] /\ y \notin pos .. b.stack - 1  BY <1>7, <2>1
  <2>3. y \in Nat  BY <1>1, <2>1
  <2>. HIDE DEF y
  <2>4. y < b.stack => y < pos  BY <1>1, <2>2, <2>3
  <2>. QED  BY <2>1, <2>2, <2>4 DEF y
<1>9. Tidy(b, d)  BY <1>8 DEF Tidy
<1>. QED  BY <1>6, <1>8, <1>9 DEF d

LEMMA GrowIs ==
    ASSUME NEW b, Good(b), NEW cap \in Nat, b.cap < RoundUp(cap, MAX_ALIGN)
    PROVE  LET c == Grow(b, cap)
           IN  /\ Good(c) /\ c.heap = b.heap /\ c.holes = b.holes
               /\ \A r \in Region : Clear(b, r) => Clear(c, r) /\ Same(b, c, r)
<1>. DEFINE new == RoundUp(cap, MAX_ALIGN)
            slid == new - b.cap
            start == new - NODE - b.heap
            mem == [x \in 0 .. new - 1 |-> IF x >= start THEN b.mem[x - slid]
                                           ELSE IF x < b.cap THEN b.mem[x] ELSE <<>>]
            c == Grow(b, cap)
<1>1. /\ b.cap \in Nat /\ b.stack \in Nat /\ b.heap \in Nat
      /\ DOMAIN b = {"cap", "stack", "heap", "holes", "mem"}
      /\ b.stack + b.heap + NODE <= b.cap
  BY DEF Good, Shaped
<1>2. new \in Nat /\ new % MAX_ALIGN = 0  BY DEF RoundUp, MAX_ALIGN
<1>3. ~(new <= b.cap)  BY <1>1, <1>2
<1>4. c = [b EXCEPT !.cap = new, !.mem = mem]  BY <1>3 DEF Grow
<1>. HIDE DEF new, c
<1>5. DOMAIN mem = 0 .. new - 1 /\ \A x \in 0 .. new - 1 : x >= start => mem[x] = b.mem[x - slid]
  OBVIOUS
<1>. HIDE DEF mem
<1>6. /\ c.cap = new /\ c.stack = b.stack /\ c.heap = b.heap /\ c.holes = b.holes
      /\ c.mem = mem /\ DOMAIN c = DOMAIN b
  BY <1>1, <1>4
<1>7. Shaped(c)
  <2>1. b.stack + b.heap + NODE <= new  BY <1>1, <1>2 DEF NODE, new
  <2>. QED  BY <1>1, <1>2, <1>5, <1>6, <2>1 DEF Shaped
<1>8. ASSUME NEW o \in NODE .. NODE + b.heap PROVE At(c, o) = At(b, o)
  <2>1. new - o \in 0 .. new - 1 /\ new - o >= start /\ new - o - slid = b.cap - o
    BY <1>1, <1>2, <1>3 DEF NODE
  <2>. QED  BY <1>5, <1>6, <2>1 DEF At
<1>9. /\ Good(c)
      /\ \A r \in Region : Clear(b, r) => Clear(c, r) /\ Same(b, c, r)
  BY <1>6, <1>7, <1>8, StackKeeps
<1>. QED  BY <1>6, <1>9 DEF c

-----------------------------------------------------------------------------
(* The walk of a loaded block.                                             *)

\* Separate holes are fewer than the steps the walk takes.
LEMMA HolesFit ==
    ASSUME NEW b, Good(b)
    PROVE  Len(b.holes) <= b.cap \div 2 + 1
<1>. DEFINE hs == b.holes
            n == Len(hs)
            k == b.cap \div 2
            f == [i \in 1 .. n |-> hs[i].off \div 2]
<1>0. hs \in Seq(Region)  BY DEF Good
<1>1. /\ n \in Nat /\ b.cap \in Nat /\ b.heap \in Nat /\ b.stack \in Nat
      /\ b.stack + b.heap + NODE <= b.cap
      /\ \A i \in 1 .. n : hs[i].off \in Nat /\ hs[i].len \in Nat
  <2>1. /\ b.cap \in Nat /\ b.heap \in Nat /\ b.stack \in Nat
        /\ b.stack + b.heap + NODE <= b.cap
    BY DEF Good, Shaped
  <2>. HIDE DEF hs
  <2>. QED  BY <1>0, <2>1, HoleIs
<1>2. ASSUME NEW i \in 1 .. n PROVE hs[i].len >= NODE /\ hs[i].off <= b.cap
  <2>1. hs[i].len >= NODE /\ hs[i].off <= NODE + b.heap  BY DEF Good, Separate, Within
  <2>. HIDE DEF hs, n
  <2>. QED  BY <1>1, <2>1 DEF NODE
<1>3. k \in Nat /\ \A i \in 1 .. n : f[i] \in 0 .. k
  BY <1>1, <1>2
<1>4. ASSUME NEW i \in 1 .. n, NEW j \in 1 .. n, i # j PROVE f[i] # f[j]
  <2>1. hs[i].off <= hs[j].off - hs[j].len \/ hs[j].off <= hs[i].off - hs[i].len
    BY <1>4 DEF Good, Separate, Apart, Above
  <2>2. /\ hs[i].len >= 4 /\ hs[j].len >= 4
        /\ hs[i].off \in Nat /\ hs[j].off \in Nat /\ hs[i].len \in Nat /\ hs[j].len \in Nat
    BY <1>1, <1>2 DEF NODE
  <2>3. \A x, y \in Nat : x + 4 <= y => x \div 2 # y \div 2  OBVIOUS
  <2>4. f[i] = hs[i].off \div 2 /\ f[j] = hs[j].off \div 2  OBVIOUS
  <2>. HIDE DEF f, hs, n
  <2>5. hs[i].off + 4 <= hs[j].off \/ hs[j].off + 4 <= hs[i].off  BY <2>1, <2>2
  <2>. QED  BY <2>2, <2>3, <2>4, <2>5
<1>5. f \in Injection(1 .. n, 0 .. k)
  <2>1. f \in [1 .. n -> 0 .. k]  BY <1>3
  <2>. HIDE DEF f
  <2>. QED  BY <1>4, <2>1 DEF Injection, IsInjective
<1>. HIDE DEF f, n, k, hs
<1>6. /\ IsFiniteSet(1 .. n) /\ Cardinality(1 .. n) = n
      /\ IsFiniteSet(0 .. k) /\ Cardinality(0 .. k) = k + 1
  <2>1. 0 \in Int /\ 1 \in Int /\ n \in Int /\ k \in Int  BY <1>1, <1>3
  <2>2. /\ IsFiniteSet(1 .. n) /\ Cardinality(1 .. n) = IF 1 > n THEN 0 ELSE n - 1 + 1
        /\ IsFiniteSet(0 .. k) /\ Cardinality(0 .. k) = IF 0 > k THEN 0 ELSE k - 0 + 1
    BY <2>1, FS_Interval
  <2>3. (IF 1 > n THEN 0 ELSE n - 1 + 1) = n /\ (IF 0 > k THEN 0 ELSE k - 0 + 1) = k + 1
    BY <1>1, <1>3
  <2>. QED  BY <2>2, <2>3
<1>7. Cardinality(1 .. n) <= Cardinality(0 .. k)  BY <1>5, <1>6, FS_Injection
<1>. QED  BY <1>6, <1>7 DEF n, k, hs

\* one step of the walk, from the holes found so far
LinkOff(b, prev, n) ==
    LET from == At(b, IF n = 1 THEN NODE ELSE prev[n - 1].off)
    IN  IF Len(prev) = n - 1 /\ Len(from) = 2 THEN from[2] ELSE 0

Walked(b, prev, n) ==
    LET off == LinkOff(b, prev, n)
    IN  IF off # 0 /\ Possible(off, b.cap, At(b, off))
        THEN Append(prev, [off |-> off, len |-> At(b, off)[1]])
        ELSE prev

\* The step from the first n - 1 holes finds the n-th.
LEMMA WalkNext ==
    ASSUME NEW b, Good(b), NEW n \in 1 .. Len(b.holes)
    PROVE  Walked(b, SubSeq(b.holes, 1, n - 1), n) = SubSeq(b.holes, 1, n)
<1>. DEFINE hs == b.holes
            N == Len(hs)
            prev == SubSeq(hs, 1, n - 1)
            h == hs[n]
            from == IF n = 1 THEN <<0, h.off>> ELSE <<hs[n - 1].len, h.off>>
            to == <<h.len, NextOff(hs, n)>>
<1>0. hs \in Seq(Region) /\ N \in Nat  BY HoleIs DEF Good
<1>1. /\ b.cap \in Nat /\ b.heap \in Nat /\ b.stack \in Nat
      /\ b.stack + b.heap + NODE <= b.cap
      /\ h \in Region /\ h.off \in Nat /\ h.len \in Nat
  <2>1. /\ b.cap \in Nat /\ b.heap \in Nat /\ b.stack \in Nat
        /\ b.stack + b.heap + NODE <= b.cap
    BY DEF Good, Shaped
  <2>2. \A i \in 1 .. Len(hs) : hs[i] \in Region /\ hs[i].off \in Nat /\ hs[i].len \in Nat
    <3>. HIDE DEF hs
    <3>. QED  BY <1>0, HoleIs
  <2>. QED  BY <2>1, <2>2
<1>2. h.len >= NODE /\ NODE <= h.off - h.len /\ h.off <= NODE + b.heap
  BY DEF Good, Separate, Within
<1>3. n \in Nat /\ n >= 1 /\ n <= N /\ n - 1 \in 0 .. N /\ N > 0  BY <1>0
<1>4. prev \in Seq(Region) /\ Len(prev) = n - 1 /\ \A j \in 1 .. n - 1 : prev[j] = hs[j]
  <2>. HIDE DEF hs
  <2>1. n - 1 \in 0 .. Len(hs)  BY <1>3
  <2>. QED  BY <1>0, <2>1, PrefixIs
<1>5. At(b, IF n = 1 THEN NODE ELSE prev[n - 1].off) = from
  <2>1. CASE n = 1  BY <1>3, <2>1 DEF Good, Threaded
  <2>2. CASE n # 1
    <3>1. n - 1 \in 1 .. n - 1 /\ n - 1 \in 1 .. N /\ n - 1 < N /\ n - 1 + 1 = n  BY <1>3, <2>2
    <3>2. prev[n - 1].off = hs[n - 1].off  BY <1>4, <3>1
    <3>3. At(b, hs[n - 1].off) = <<hs[n - 1].len, h.off>>
      BY <3>1 DEF Good, Threaded, NextOff
    <3>. QED  BY <2>2, <3>2, <3>3
  <2>. QED  BY <2>1, <2>2
<1>6. Len(from) = 2 /\ from[2] = h.off  BY <1>1
<1>7. At(b, h.off) = to /\ Len(to) = 2 /\ to[1] = h.len  BY DEF Good, Threaded
<1>8. [off |-> h.off, len |-> h.len] = h  BY <1>1 DEF Region
<1>. HIDE DEF hs, N, prev, h, from, to
<1>9. LinkOff(b, prev, n) = h.off  BY <1>4, <1>5, <1>6 DEF LinkOff
<1>10. h.off # 0 /\ Possible(h.off, b.cap, At(b, h.off))
  <2>1. h.off > NODE /\ h.off <= b.cap /\ h.len + NODE <= h.off  BY <1>1, <1>2 DEF NODE
  <2>. QED  BY <1>1, <1>7, <2>1 DEF Possible, NODE
<1>11. Walked(b, prev, n) = Append(prev, h)  BY <1>7, <1>8, <1>9, <1>10 DEF Walked
<1>12. SubSeq(hs, 1, n) = Append(prev, h)
  <2>0. n \in 1 .. Len(hs) /\ 1 \in 1 .. Len(hs)  BY <1>3 DEF N
  <2>1. SubSeq(hs, 1, n) = SubSeq(hs, 1, n - 1) \o <<hs[n]>>
    BY <1>0, <2>0, SubSeqRecursiveSecond
  <2>2. Append(prev, h) = prev \o <<h>>  BY <1>1, <1>4, AppendIsConcat
  <2>. QED  BY <2>1, <2>2 DEF prev, h
<1>. QED  BY <1>11, <1>12 DEF prev, hs

\* After the last hole the walk stays.
LEMMA WalkEnd ==
    ASSUME NEW b, Good(b), NEW n \in Nat, n > Len(b.holes)
    PROVE  Walked(b, b.holes, n) = b.holes
<1>. DEFINE hs == b.holes
            N == Len(hs)
<1>1. hs \in Seq(Region) /\ N \in Nat  BY HoleIs DEF Good
<1>2. LinkOff(b, hs, n) = 0
  <2>1. CASE N # n - 1  BY <2>1 DEF LinkOff
  <2>2. CASE N = n - 1 /\ N = 0
    <3>1. n = 1 /\ ~(N > 0)  BY <2>2
    <3>2. At(b, NODE) = <<>>  BY <3>1 DEF Good, Threaded
    <3>3. Len(<<>>) # 2  OBVIOUS
    <3>. QED  BY <3>1, <3>2, <3>3 DEF LinkOff
  <2>3. CASE N = n - 1 /\ N # 0
    <3>1. n # 1 /\ N \in 1 .. N /\ ~(N < N)  BY <1>1, <2>3
    <3>2. At(b, hs[n - 1].off) = <<hs[N].len, 0>>
      BY <2>3, <3>1 DEF Good, Threaded, NextOff
    <3>3. <<hs[N].len, 0>>[2] = 0  OBVIOUS
    <3>. QED  BY <3>1, <3>2, <3>3 DEF LinkOff
  <2>. QED  BY <2>1, <2>2, <2>3
<1>. QED  BY <1>2 DEF Walked

\* The walk finds the holes the block was left with.
LEMMA WalkIs ==
    ASSUME NEW b, Good(b)
    PROVE  WalkHoles(b) = b.holes
<1>. DEFINE hs == b.holes
            N == Len(hs)
            K == b.cap \div 2 + 1
            is(f) == f = [n \in 0 .. K |-> IF n = 0 THEN <<>> ELSE Walked(b, f[n - 1], n)]
            g == [n \in 0 .. K |-> IF n <= N THEN SubSeq(hs, 1, n) ELSE hs]
<1>1. hs \in Seq(Region) /\ N \in Nat /\ b.cap \in Nat /\ K \in Nat /\ N <= K
  <2>1. hs \in Seq(Region) /\ b.cap \in Nat  BY DEF Good, Shaped
  <2>2. N <= K  BY HolesFit
  <2>3. N \in Nat
    <3>. HIDE DEF hs
    <3>. QED  BY <2>1, LenProperties
  <2>. QED  BY <2>1, <2>2, <2>3
<1>2. WalkHoles(b) = (CHOOSE f : is(f))[K]
  BY DEF WalkHoles, Walked, LinkOff, At
<1>. HIDE DEF K, hs
<1>3. SubSeq(hs, 1, 0) = <<>> /\ SubSeq(hs, 1, N) = hs
  BY <1>1, SubSeqFull, SubSeqEmpty
<1>4. ASSUME NEW n \in 1 .. K PROVE g[n] = Walked(b, g[n - 1], n)
  <2>0. n \in Nat /\ n - 1 \in 0 .. K /\ n \in 0 .. K /\ n - 1 \in Nat  BY <1>1
  <2>1. CASE n <= N
    <3>1. g[n - 1] = SubSeq(hs, 1, n - 1) /\ g[n] = SubSeq(hs, 1, n)  BY <1>1, <2>0, <2>1
    <3>2. n \in 1 .. N  BY <1>1, <2>1
    <3>3. Walked(b, SubSeq(hs, 1, n - 1), n) = SubSeq(hs, 1, n)  BY <3>2, WalkNext DEF hs
    <3>. QED  BY <3>1, <3>3
  <2>2. CASE n > N
    <3>1. g[n] = hs /\ (n - 1 <= N => n - 1 = N)  BY <1>1, <2>0, <2>2
    <3>2. g[n - 1] = hs  BY <1>3, <2>0, <3>1
    <3>3. Walked(b, hs, n) = hs  BY <2>0, <2>2, WalkEnd DEF hs
    <3>. QED  BY <3>1, <3>2, <3>3
  <2>. QED  BY <1>1, <2>0, <2>1, <2>2
<1>5. g[0] = <<>> /\ g[K] = hs
  <2>1. 0 \in 0 .. K /\ K \in 0 .. K /\ 0 <= N /\ (K <= N => K = N)  BY <1>1
  <2>. QED  BY <1>3, <2>1
<1>6. is(g)
  <2>1. ASSUME NEW n \in 0 .. K
        PROVE  g[n] = IF n = 0 THEN <<>> ELSE Walked(b, g[n - 1], n)
    <3>1. n = 0 \/ (n # 0 /\ n \in 1 .. K)  BY <1>1
    <3>. HIDE DEF g
    <3>. QED  BY <1>4, <1>5, <3>1
  <2>2. g = [n \in 0 .. K |-> g[n]]  OBVIOUS
  <2>. HIDE DEF g
  <2>. QED  BY <2>1, <2>2
<1>7. ASSUME NEW f, is(f) PROVE f[K] = hs
  <2>. DEFINE S == {n \in 0 .. K : f[n] = g[n]}
  <2>. HIDE DEF g
  <2>1. \A n \in 0 .. K : f[n] = IF n = 0 THEN <<>> ELSE Walked(b, f[n - 1], n)  BY <1>7
  <2>2. 0 \in S  BY <1>1, <1>5, <2>1
  <2>3. ASSUME NEW n \in 0 + 1 .. K, n - 1 \in S PROVE n \in S
    <3>1. n \in 1 .. K /\ n \in 0 .. K /\ n # 0  BY <1>1
    <3>2. f[n] = Walked(b, f[n - 1], n)  BY <2>1, <3>1
    <3>. QED  BY <1>4, <2>3, <3>1, <3>2
  <2>. HIDE DEF S
  <2>4. 0 .. K \subseteq S  BY <1>1, <2>2, <2>3, Upwards
  <2>5. K \in S  BY <1>1, <2>4
  <2>. QED  BY <1>5, <2>5 DEF S
<1>. HIDE DEF is, g
<1>8. is(CHOOSE f : is(f))  BY <1>6
<1>. QED  BY <1>2, <1>7, <1>8 DEF hs

\* Written out and loaded back, the block is what it was but for the gap.
LEMMA ReloadIs ==
    ASSUME NEW b, Good(b)
    PROVE  LET c == Reload(b)
           IN  /\ Good(c) /\ c.cap = b.cap /\ c.stack = b.stack /\ c.heap = b.heap
               /\ c.holes = b.holes
               /\ \A x \in DOMAIN b.mem \ (b.stack .. Bottom(b) - 1) : c.mem[x] = b.mem[x]
               /\ \A r \in Region : Clear(b, r) => Clear(c, r) /\ Same(b, c, r)
               /\ Tidy(b, c)
<1>. DEFINE gap == b.stack .. Bottom(b) - 1
            mem == Paint(b.mem, gap, <<>>)
            d == [b EXCEPT !.mem = mem]
            c == Reload(b)
<1>1. /\ b.cap \in Nat /\ b.stack \in Nat /\ b.heap \in Nat
      /\ DOMAIN b = {"cap", "stack", "heap", "holes", "mem"}
      /\ b.stack + b.heap + NODE <= b.cap /\ DOMAIN b.mem = 0 .. b.cap - 1
  BY DEF Good, Shaped
<1>2. Bottom(b) \in Int /\ b.stack <= Bottom(b)  BY <1>1 DEF Bottom, Floor, NODE
<1>3. /\ DOMAIN mem = DOMAIN b.mem
      /\ \A x \in DOMAIN b.mem : x \notin gap => mem[x] = b.mem[x]
  BY DEF Paint
<1>10. \A x \in DOMAIN b.mem : mem[x] = <<>> \/ mem[x] = b.mem[x]  BY DEF Paint
<1>4. c = [d EXCEPT !.holes = WalkHoles(d)]  BY DEF Reload
<1>. HIDE DEF mem, gap
<1>5. /\ d.cap = b.cap /\ d.stack = b.stack /\ d.heap = b.heap /\ d.holes = b.holes
      /\ d.mem = mem /\ DOMAIN d = DOMAIN b /\ d = [d EXCEPT !.holes = d.holes]
  BY <1>1
<1>6. Fronted(b, d, b.stack, mem)
  <2>1. d = [b EXCEPT !.stack = b.stack, !.mem = mem]  BY <1>1
  <2>. QED  BY <2>1 DEF Fronted
<1>7. \A x \in DOMAIN b.mem : x >= Bottom(b) => mem[x] = b.mem[x]
  BY <1>1, <1>2, <1>3 DEF gap
<1>. HIDE DEF d
<1>8. /\ Good(d)
      /\ \A r \in Region : Clear(b, r) => Clear(d, r) /\ Same(b, d, r)
      /\ \A o : Stray(d, o) => LET y == b.cap - o IN
            /\ y \in DOMAIN b.mem /\ mem[y] # <<>> /\ At(d, o) = mem[y]
            /\ mem[y] = b.mem[y] => Stray(b, o) /\ At(d, o) = At(b, o)
  BY <1>1, <1>2, <1>3, <1>6, <1>7, FrontIs
<1>9. c = d
  <2>1. WalkHoles(d) = d.holes  BY <1>8, WalkIs
  <2>. QED  BY <1>4, <1>5, <2>1
<1>11. Tidy(b, d)  BY <1>8, <1>10 DEF Tidy
<1>. QED  BY <1>3, <1>5, <1>8, <1>9, <1>11 DEF c, gap

\* A new block has no holes, and its list head is zero.
LEMMA NewIs ==
    ASSUME NEW cap \in Nat
    PROVE  /\ Good(NewBlock(cap)) /\ Rising(NewBlock(cap).holes)
           /\ \A o : ~Stray(NewBlock(cap), o)
<1>. DEFINE ask == IF cap < MAX_ALIGN THEN MAX_ALIGN ELSE cap
            k == RoundUp(ask, MAX_ALIGN)
            b == NewBlock(cap)
<1>1. k \in Nat /\ k >= NODE /\ k % MAX_ALIGN = 0
  <2>1. ask \in Nat /\ ask >= 16  BY DEF MAX_ALIGN
  <2>. HIDE DEF ask
  <2>. QED  BY <2>1 DEF RoundUp, MAX_ALIGN, NODE
<1>2. b = [cap |-> k, stack |-> 0, heap |-> 0, holes |-> <<>>,
           mem |-> [x \in 0 .. k - 1 |-> <<>>]]
  BY DEF NewBlock
<1>. HIDE DEF k, b
<1>3. /\ DOMAIN b = {"cap", "stack", "heap", "holes", "mem"} /\ b.cap = k /\ b.stack = 0
      /\ b.heap = 0 /\ b.holes = <<>> /\ b.mem = [x \in 0 .. k - 1 |-> <<>>]
  BY <1>2
<1>4. Shaped(b)  BY <1>1, <1>3 DEF Shaped, NODE
<1>5. b.holes \in Seq(Region) /\ Len(b.holes) = 0 /\ ~(Len(b.holes) > 0)
  <2>1. Len(<<>>) = 0  OBVIOUS
  <2>. QED  BY <1>3, <2>1
<1>6. \A i \in 1 .. Len(b.holes) : FALSE  BY <1>5
<1>7. At(b, NODE) = <<>>
  <2>1. k - NODE \in 0 .. k - 1  BY <1>1 DEF NODE
  <2>. QED  BY <1>3, <2>1 DEF At
<1>8. Separate(b.holes) /\ Within(b.holes, NODE + b.heap) /\ Threaded(b)
  BY <1>5, <1>6, <1>7 DEF Separate, Within, Threaded
<1>9. Rising(b.holes)  BY <1>6 DEF Rising
<1>10. ASSUME NEW o, Stray(b, o) PROVE FALSE
  <2>1. o \in 1 .. k /\ At(b, o) # <<>>  BY <1>3, <1>10 DEF Stray
  <2>2. k - o \in 0 .. k - 1  BY <1>1, <2>1
  <2>. QED  BY <1>3, <2>1, <2>2 DEF At
<1>. QED  BY <1>4, <1>5, <1>8, <1>9, <1>10 DEF Good, b

=============================================================================
